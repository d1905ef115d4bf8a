------------------------------ MODULE TurnSlot ------------------------------
(***************************************************************************)
(* What the prompt queue promises about turns, without the queue: one slot *)
(* names the prompt the adapter believes OMP is answering; a prompt that   *)
(* is dispatched takes the slot, whoever holds it; the slot is given up    *)
(* when its own prompt settles, or when the session is left; a prompt that *)
(* lost the slot settles late and changes nothing but itself.              *)
(***************************************************************************)
EXTENDS Integers

CONSTANT Turns       \* the ids of prompts; 0 is not one of them

VARIABLES
    slot,   \* the prompt in the slot, or 0
    sent    \* the prompts at OMP that were not answered

turnVars == <<slot, sent>>

Dispatch(id) ==
    /\ id \notin sent
    /\ slot' = id
    /\ sent' = sent \cup {id}

SettleOwn(id) ==
    /\ id \in sent
    /\ slot = id
    /\ slot' = 0
    /\ sent' = sent \ {id}

SettleLate(id) ==
    /\ id \in sent
    /\ slot # id
    /\ sent' = sent \ {id}
    /\ UNCHANGED slot

\* The session is left: its prompts stay at OMP, the slot is free.
Leave ==
    /\ slot' = 0
    /\ UNCHANGED sent

TurnInit == slot = 0 /\ sent = {}
TurnNext ==
    \/ Leave
    \/ \E id \in Turns : Dispatch(id) \/ SettleOwn(id) \/ SettleLate(id)
TurnSpec == TurnInit /\ [][TurnNext]_turnVars
=============================================================================
