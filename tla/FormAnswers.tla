---------------------------- MODULE FormAnswers ----------------------------
(***************************************************************************)
(* Forms of the elicitation bridge (src/bridge/adapter.mjs).  OMP asks with *)
(* a form: properties with a key, a type and perhaps choices.  The adapter *)
(* makes each property a question of the pager's question card, the pager  *)
(* answers by question TEXT with labels and typed notes, and the adapter   *)
(* makes of that the content OMP expects: constants and texts by key.      *)
(*                                                                         *)
(* A property is [key, type, title, choices, other]: choices is a sequence *)
(* of [label, const] (an enum has label = const), other says that OMP      *)
(* added the companion <key>__other for typed text.  A number is the text  *)
(* it is written as, true and false are texts, and "" is "absent".         *)
(***************************************************************************)
EXTENDS Filters

CONSTANT Numerals   \* the texts Number() makes a finite number of

\* A form is [message, props].
Questions(form) == DOMAIN form.props

-----------------------------------------------------------------------------
(* The form as a question card.                                              *)

\* schemaPropToQuestion: what it can show.
Representable(p) == p.choices # <<>> \/ p.type \in {"boolean", "string", "number"}

Options(p) ==
    CASE p.choices # <<>> -> [i \in DOMAIN p.choices |-> p.choices[i].label]
      [] p.choices = <<>> /\ p.type = "boolean" -> <<"Yes", "No">>
      [] OTHER -> <<>>

\* The question's text: the title (or the description), else the message of the
\* form, else the key.
Question(form, i) ==
    IF form.props[i].title # "" THEN form.props[i].title
    ELSE IF form.message # "" THEN form.message ELSE form.props[i].key

\* choiceList: the labels that differ from their constant.
Renamed(p) == {i \in DOMAIN p.choices : p.choices[i].label # p.choices[i].const}

\* keyByQuestion read backwards: the text that leads to the i-th key.  A text
\* leads to one key, the last that was entered.
TextOf(form, i) ==
    IF \E j \in Questions(form) : j > i /\ Question(form, j) = Question(form, i)
    THEN form.props[i].key
    ELSE Question(form, i)

-----------------------------------------------------------------------------
(* The pager's response: [labels, notes] by question text, of the user's     *)
(* answers: what was picked and typed in each question.                      *)

Answered(a) == a.picked # {} \/ a.typed # ""

\* build_accepted_response.  "Other" stands for typed text alone; when options
\* are picked too, only the notes tell of it.
Labels(p, a) ==
    IF a.picked = {} THEN <<"Other">> ELSE Only(Options(p), a.picked)

Response(form, answers) ==
    LET asking(t) == {i \in Questions(form) : Question(form, i) = t}
        answered(t) == {i \in asking(t) : Answered(answers[i])}
        noted(t) == {i \in asking(t) : answers[i].typed # ""}
    IN  [t \in {Question(form, i) : i \in Questions(form)} |->
            [labels |-> IF answered(t) = {} THEN <<>>
                        ELSE Labels(form.props[Last(answered(t))], answers[Last(answered(t))]),
             notes |-> IF noted(t) = {} THEN "" ELSE answers[Last(noted(t))].typed]]

-----------------------------------------------------------------------------
(* The content: entries [key, other, list, vals], other for <key>__other.    *)

Entry(p, other, list, vals) == [key |-> p.key, other |-> other, list |-> list, vals |-> vals]
FirstOf(labels) == IF labels = <<>> THEN "" ELSE labels[1]

\* Defect: the label is sent for the constant.
toConst_Label(form, t, v) == v

\* constByQuestion by text, the last that was entered.
toConst(form, t, v) ==
    LET with == {i \in Questions(form) : Question(form, i) = t /\ Renamed(form.props[i]) # {}}
        p == form.props[Last(with)]
        hits == {k \in Renamed(p) : p.choices[k].label = v}
    IN  IF with = {} THEN v ELSE IF hits = {} THEN v ELSE p.choices[Last(hits)].const

\* A multi-select answer.
ArrayEntries(form, p, t, r) ==
    LET folded == p.other /\ r.notes # "" /\ "Other" \in Values(r.labels)
        list == IF folded THEN Only(r.labels, Values(r.labels) \ {"Other"}) ELSE r.labels
    IN  (IF folded THEN {Entry(p, TRUE, FALSE, {r.notes})} ELSE {}) \cup
        (IF list = <<>> THEN {} ELSE {Entry(p, FALSE, TRUE, {toConst(form, t, v) : v \in Values(list)})})

\* Defect: no answer is taken for No.
BooleanEntries_Default(p, r) ==
    {Entry(p, FALSE, FALSE, {IF FirstOf(r.labels) \in {"Yes", "true"} THEN "true" ELSE "false"})}

BooleanEntries(p, r) ==
    IF r.labels = <<>> THEN {}
    ELSE {Entry(p, FALSE, FALSE, {IF FirstOf(r.labels) \in {"Yes", "true"} THEN "true" ELSE "false"})}

NumberEntries(p, r) ==
    LET raw == IF FirstOf(r.labels) = "Other" THEN r.notes ELSE FirstOf(r.labels)
    IN  IF raw # "" /\ raw \in Numerals THEN {Entry(p, FALSE, FALSE, {raw})} ELSE {}

\* Defect: the label wins over the typed text.
TextEntries_Label(form, p, t, r) ==
    IF r.labels = <<>> THEN {} ELSE {Entry(p, FALSE, FALSE, {toConst(form, t, FirstOf(r.labels))})}

\* A single choice or a free text.
TextEntries(form, p, t, r) ==
    LET typed == FirstOf(r.labels) = "Other" /\ r.notes # ""
    IN  CASE r.labels = <<>> -> {}
          [] typed -> {Entry(p, p.other, FALSE, {r.notes})}
          [] ~typed /\ Len(r.labels) > 1 -> {Entry(p, FALSE, TRUE, {toConst(form, t, v) : v \in Values(r.labels)})}
          [] OTHER -> {Entry(p, FALSE, FALSE, {toConst(form, t, FirstOf(r.labels))})}

\* The answer to the i-th property, looked up by the text that leads to its key.
Entries(form, response, i) ==
    LET p == form.props[i]
        t == TextOf(form, i)
        r == IF t \in DOMAIN response THEN response[t] ELSE [labels |-> <<>>, notes |-> ""]
    IN  CASE p.type = "array" -> ArrayEntries(form, p, t, r)
          [] p.type = "boolean" -> BooleanEntries(p, r)
          [] p.type = "number" -> NumberEntries(p, r)
          [] OTHER -> TextEntries(form, p, t, r)

\* elicitResultToOmp of an accepted question card.
Content(form, response) == UNION {Entries(form, response, i) : i \in Questions(form)}
=============================================================================
