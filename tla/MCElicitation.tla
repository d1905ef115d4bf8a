--------------------------- MODULE MCElicitation ---------------------------
(* Elicitations and forms for TLC: the questions OMP's ask tool and its      *)
(* commands put (one choice and several, each with the companion for typed   *)
(* text, a confirmation, a text and a number), and one property no question  *)
(* can show.                                                                 *)
EXTENDS Elicitation

Prop(k, type, choices, other) ==
    [key |-> k, type |-> type, title |-> IF k = "k" THEN "First?" ELSE "Second?", choices |-> choices, other |-> other]
Titled == <<[label |-> "One", const |-> "1st"], [label |-> "2nd", const |-> "2nd"]>>

One(k) == Prop(k, "string", Titled, TRUE)
Many(k) == Prop(k, "array", Titled, TRUE)
Confirm(k) == Prop(k, "boolean", <<>>, FALSE)
Input(k) == Prop(k, "string", <<>>, FALSE)
Amount(k) == Prop(k, "number", <<>>, FALSE)
Odd(k) == Prop(k, "object", <<>>, FALSE)

Asking(props) == [message |-> "msg", props |-> props]
AllForms == {Asking(<<Many("k")>>), Asking(<<One("k")>>), Asking(<<Confirm("k")>>),
             Asking(<<Amount("k"), Input("l")>>), Asking(<<Odd("k")>>)}

\* The theorems on what comes back take these forms.
ASSUME FormsWellFormed == \A f \in AllForms : WellFormed(f)

ManyForms == {Asking(<<Many("k")>>)}
=============================================================================
