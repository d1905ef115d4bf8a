------------------------------ MODULE Filters ------------------------------
(* Members of sequences and of sets of numbers, as the bridge's filter and   *)
(* find calls take them.                                                     *)
EXTENDS Integers, Sequences

Values(s) == {s[i] : i \in DOMAIN s}

First(S) == CHOOSE i \in S : \A j \in S : i <= j
Last(S) == CHOOSE i \in S : \A j \in S : j <= i

\* The members of the sequence s that are in S, in their order.
Only(s, S) ==
    LET kept[k \in 0 .. Len(s)] ==
            IF k = 0 THEN <<>>
            ELSE IF s[k] \in S THEN Append(kept[k - 1], s[k]) ELSE kept[k - 1]
    IN  kept[Len(s)]
=============================================================================
