-------------------------- MODULE SubagentsProofs --------------------------
(***************************************************************************)
(* RowsAgree, FinishIsFinal and RunsWhileJobsRun for every set of task     *)
(* calls and every bound.  An observer of the adapter does one of four     *)
(* things to what it tracks: nothing, spawn a subagent, note an async      *)
(* state, or finish the subagents of some tracked calls; each keeps        *)
(* Tracking.  That a finish touches no other row rests on OwnRows: no two  *)
(* calls share a subagent.  RunsWhileJobsRun needs to know which turn a    *)
(* call belongs to (FirstSession): the turn's end finishes every tracked   *)
(* call that has not dispatched jobs, so the one whose call is about to    *)
(* dispatch them must not be among those it finishes.                      *)
(***************************************************************************)
EXTENDS Subagents, TLAPS

-----------------------------------------------------------------------------
(* What makes the properties inductive.                                      *)

TypeOK ==
    /\ nturn \in Nat /\ slot \in 0 .. nturn /\ sent \subseteq 1 .. nturn /\ cut \subseteq 1 .. nturn
    /\ left \in Nat /\ subagentSeq \in Nat
    /\ DOMAIN subagents \subseteq Calls
    /\ subagents \in [DOMAIN subagents -> [id: 1 .. subagentSeq, async: {"none", "running"}]]
    /\ DOMAIN rows \subseteq 1 .. subagentSeq
    /\ rows \in [DOMAIN rows -> [status: {"running"} \cup Ended, call: Calls]]
    /\ DOMAIN finished \subseteq (1 .. subagentSeq) \cup Calls
    /\ call \in [Calls -> [turn: Nat,
                           phase: {"none", "open", "returned", "dispatched", "aborted"},
                           job: {"none", "running", "ended"}]]

\* A tracked call has a subagent of its own, whose row is the call's.
OwnRows ==
    /\ \A c, d \in DOMAIN subagents : subagents[c].id = subagents[d].id => c = d
    /\ \A c \in DOMAIN subagents : rows[subagents[c].id].call = c

\* Nothing is known of a call before its first frame; an open call is one of a
\* turn that was not answered; only a call that dispatched jobs has jobs.
CallsBegin ==
    \A c \in Calls :
        /\ call[c].phase = "none" =>
              c \notin DOMAIN subagents /\ \A x \in DOMAIN rows : rows[x].call # c
        /\ call[c].phase = "open" => call[c].turn \in sent
        /\ call[c].job # "none" => call[c].phase = "dispatched"

\* Until a session is left one turn is not cut, the slot's; its open calls, and
\* every call whose jobs run, are tracked as what they are; a call has one row.
FirstSession ==
    left = 0 =>
        /\ sent \ cut \subseteq {slot}
        /\ \A c \in Calls : call[c].phase = "open" /\ call[c].turn \notin cut =>
              c \in DOMAIN subagents /\ subagents[c].async = "none"
        /\ \A c \in Calls : call[c].job = "running" =>
              c \in DOMAIN subagents /\ subagents[c].async = "running"
        /\ \A x, y \in DOMAIN rows : rows[x].call = rows[y].call => x = y

IInv == TypeOK /\ RowsAgree /\ OwnRows /\ CallsBegin /\ FirstSession

\* What is kept of the subagents.
Tracking ==
    /\ subagentSeq \in Nat
    /\ DOMAIN subagents \subseteq Calls
    /\ subagents \in [DOMAIN subagents -> [id: 1 .. subagentSeq, async: {"none", "running"}]]
    /\ DOMAIN rows \subseteq 1 .. subagentSeq
    /\ rows \in [DOMAIN rows -> [status: {"running"} \cup Ended, call: Calls]]
    /\ DOMAIN finished \subseteq (1 .. subagentSeq) \cup Calls
    /\ RowsAgree
    /\ OwnRows

\* The four things an observer does.
Spawns(c) ==
    /\ c \in Calls \ DOMAIN subagents
    /\ subagentSeq' = subagentSeq + 1
    /\ subagents' = Over(subagents, [x \in {c} |-> [id |-> subagentSeq + 1, async |-> "none"]])
    /\ rows' = Over(rows, [x \in {subagentSeq + 1} |-> [status |-> "running", call |-> c]])
    /\ UNCHANGED finished

Notes(c, state) ==
    /\ c \in DOMAIN subagents /\ state \in {"none", "running"}
    /\ subagents' = [subagents EXCEPT ![c].async = state]
    /\ UNCHANGED <<finished, subagentSeq, rows>>

Finishes(C, status) ==
    /\ C \subseteq DOMAIN subagents /\ status \in Ended
    /\ finishSubagents(C, status)

\* A row that ended is not changed.
RowsFinal ==
    \A x \in DOMAIN rows :
        rows[x].status # "running" /\ x \in DOMAIN rows' => rows'[x] = rows[x]

\* No call but those of C is tracked otherwise, and the rows are the same rows.
Only(C) ==
    /\ \A d \in Calls \ C : /\ d \in DOMAIN subagents' <=> d \in DOMAIN subagents
                            /\ d \in DOMAIN subagents => subagents'[d] = subagents[d]
    /\ DOMAIN rows' = DOMAIN rows
    /\ \A x \in DOMAIN rows : rows'[x].call = rows[x].call

-----------------------------------------------------------------------------
(***************************************************************************)
(* The four, each by what it does to Tracking.                             *)
(***************************************************************************)
LEMMA TrackedFacts ==
    ASSUME Tracking
    PROVE  /\ \A c \in DOMAIN subagents :
                 /\ c \in Calls /\ subagents[c].id \in 1 .. subagentSeq
                 /\ subagents[c].async \in {"none", "running"}
                 /\ subagents[c].id \in Tracked
                 /\ subagents[c].id \in DOMAIN rows
                 /\ rows[subagents[c].id].status = "running"
                 /\ rows[subagents[c].id].call = c
                 /\ subagents[c].id \notin DOMAIN finished
           /\ \A x \in Tracked : \E c \in DOMAIN subagents : subagents[c].id = x
           /\ \A x \in DOMAIN rows : rows[x].status = "running" => x \in Tracked
           /\ \A x \in DOMAIN rows : rows[x].call \in Calls
           /\ Calls \cap Int = {}
<1>1. \A c \in DOMAIN subagents : /\ c \in Calls /\ subagents[c].id \in 1 .. subagentSeq
                                  /\ subagents[c].async \in {"none", "running"}
    BY DEF Tracking
<1>2. \A c \in DOMAIN subagents : subagents[c].id \in Tracked
    BY DEF Tracked
<1>3. \A x \in Tracked : /\ x \in DOMAIN rows /\ rows[x].status = "running"
                         /\ x \notin DOMAIN finished
    BY DEF Tracking, RowsAgree
<1>4. \A x \in DOMAIN rows : rows[x].status = "running" => x \in Tracked
    BY DEF Tracking, RowsAgree
<1>5. \A c \in DOMAIN subagents : rows[subagents[c].id].call = c
    BY DEF Tracking, OwnRows
<1>6. \A x \in Tracked : \E c \in DOMAIN subagents : subagents[c].id = x
    BY DEF Tracked
<1>7. \A x \in DOMAIN rows : rows[x].call \in Calls
    BY DEF Tracking
<1> QED BY <1>1, <1>2, <1>3, <1>4, <1>5, <1>6, <1>7, SubagentConstants

\* A new subagent has an id no row has.
LEMMA SpawnKeeps ==
    ASSUME Tracking, NEW c \in Calls, Spawns(c)
    PROVE  /\ Tracking' /\ RowsFinal
           /\ DOMAIN subagents' = DOMAIN subagents \cup {c}
           /\ subagents'[c].async = "none"
           /\ \A d \in DOMAIN subagents : subagents'[d] = subagents[d]
           /\ DOMAIN rows' = DOMAIN rows \cup {subagentSeq + 1}
           /\ rows'[subagentSeq + 1].call = c
           /\ \A x \in DOMAIN rows : x # subagentSeq + 1 /\ rows'[x] = rows[x]
<1> DEFINE n == subagentSeq + 1
           rec == [id |-> n, async |-> "none"]
           row == [status |-> "running", call |-> c]
<1>1. n \in Nat /\ n \notin 1 .. subagentSeq /\ n \in 1 .. subagentSeq'
      /\ 1 .. subagentSeq \subseteq 1 .. subagentSeq' /\ subagentSeq' \in Nat
    BY DEF Tracking, Spawns
<1>2. /\ rec.id = n /\ rec.async = "none" /\ rec \in [id: {n}, async: {"none", "running"}]
      /\ row.status = "running" /\ row.call = c
      /\ row \in [status: {"running"} \cup Ended, call: Calls]
    OBVIOUS
<1>3. /\ DOMAIN subagents' = DOMAIN subagents \cup {c}
      /\ subagents' = [x \in DOMAIN subagents \cup {c} |-> IF x = c THEN rec ELSE subagents[x]]
      /\ subagents'[c] = rec
      /\ \A d \in DOMAIN subagents : d # c /\ subagents'[d] = subagents[d]
    BY DEF Spawns, Over
<1>4. /\ DOMAIN rows' = DOMAIN rows \cup {n}
      /\ rows' = [x \in DOMAIN rows \cup {n} |-> IF x = n THEN row ELSE rows[x]]
      /\ rows'[n] = row
      /\ \A x \in DOMAIN rows : x # n => rows'[x] = rows[x]
    BY DEF Spawns, Over
<1>5. \A x \in DOMAIN rows : x # n
    BY <1>1 DEF Tracking
<1>6. \A d \in DOMAIN subagents : subagents[d] \in [id: 1 .. subagentSeq, async: {"none", "running"}]
    BY DEF Tracking
<1>7. \A x \in DOMAIN rows : rows[x] \in [status: {"running"} \cup Ended, call: Calls]
    BY DEF Tracking
<1>8. finished' = finished /\ n \notin DOMAIN finished
    BY <1>1, SubagentConstants DEF Spawns, Tracking
<1> HIDE DEF n, rec, row
<1>9. subagents' \in [DOMAIN subagents' -> [id: 1 .. subagentSeq', async: {"none", "running"}]]
    <2>1. \A x \in DOMAIN subagents' : subagents'[x] \in [id: 1 .. subagentSeq', async: {"none", "running"}]
        BY <1>1, <1>2, <1>3, <1>6
    <2> QED BY <1>3, <2>1
<1>10. rows' \in [DOMAIN rows' -> [status: {"running"} \cup Ended, call: Calls]]
    BY <1>2, <1>4, <1>5, <1>7
<1>11. Tracked' = Tracked \cup {n}
    <2>1. Tracked' = {subagents'[d].id : d \in DOMAIN subagents'}
        BY DEF Tracked
    <2>2. Tracked = {subagents[d].id : d \in DOMAIN subagents}
        BY DEF Tracked
    <2> QED BY <1>2, <1>3, <2>1, <2>2
<1>12. RowsAgree'
    <2>1. RowsAgree
        BY DEF Tracking
    <2>2. Tracked' \cap DOMAIN finished' = {}
        BY <1>8, <1>11, <2>1 DEF RowsAgree
    <2>3. {x \in DOMAIN rows' : rows'[x].status = "running"} = Tracked'
        BY <1>2, <1>4, <1>5, <1>11, <2>1 DEF RowsAgree
    <2>4. \A x \in DOMAIN rows' \ Tracked' : x \in DOMAIN finished' /\ finished'[x] = rows'[x].status
        BY <1>4, <1>5, <1>8, <1>11, <2>1 DEF RowsAgree
    <2> QED BY <2>2, <2>3, <2>4 DEF RowsAgree
<1>13. OwnRows'
    <2>1. \A d \in DOMAIN subagents : subagents[d].id # n /\ subagents[d].id \in DOMAIN rows
        BY <1>1, TrackedFacts
    <2>2. OwnRows
        BY DEF Tracking
    <2> QED BY <1>2, <1>3, <1>4, <2>1, <2>2 DEF OwnRows
<1>14. Tracking'
    <2>1. DOMAIN subagents' \subseteq Calls /\ DOMAIN rows' \subseteq 1 .. subagentSeq'
        BY <1>1, <1>3, <1>4 DEF Tracking
    <2>2. DOMAIN finished' \subseteq (1 .. subagentSeq') \cup Calls
        BY <1>1, <1>8 DEF Tracking
    <2> QED BY <1>1, <1>9, <1>10, <1>12, <1>13, <2>1, <2>2 DEF Tracking
<1>15. RowsFinal
    BY <1>4, <1>5 DEF RowsFinal
<1>16. DOMAIN rows' = DOMAIN rows \cup {subagentSeq + 1} /\ rows'[subagentSeq + 1].call = c
       /\ \A x \in DOMAIN rows : x # subagentSeq + 1 /\ rows'[x] = rows[x]
    BY <1>2, <1>4, <1>5 DEF n
<1>17. subagents'[c].async = "none"
    BY <1>2, <1>3
<1> QED BY <1>3, <1>14, <1>15, <1>16, <1>17

\* Only the async state of c changes.
LEMMA NoteKeeps ==
    ASSUME Tracking, NEW c \in Calls, NEW state, Notes(c, state)
    PROVE  /\ Tracking' /\ RowsFinal /\ Only({c})
           /\ DOMAIN subagents' = DOMAIN subagents
           /\ subagents'[c].async = state
<1>1. c \in DOMAIN subagents /\ state \in {"none", "running"}
    BY DEF Notes
<1>2. finished' = finished /\ subagentSeq' = subagentSeq /\ rows' = rows
    BY DEF Notes
<1>3. \A d \in DOMAIN subagents : subagents[d] \in [id: 1 .. subagentSeq, async: {"none", "running"}]
    BY DEF Tracking
<1>4. /\ DOMAIN subagents' = DOMAIN subagents
      /\ subagents' = [d \in DOMAIN subagents |->
                         IF d = c THEN [subagents[c] EXCEPT !.async = state] ELSE subagents[d]]
    BY DEF Notes, Tracking
<1>5. \A d \in DOMAIN subagents : d # c => subagents'[d] = subagents[d]
    BY <1>4
<1>6. subagents'[c] = [subagents[c] EXCEPT !.async = state]
    BY <1>1, <1>4
<1>7. /\ subagents'[c].id = subagents[c].id /\ subagents'[c].async = state
      /\ subagents'[c] \in [id: 1 .. subagentSeq, async: {"none", "running"}]
    BY <1>1, <1>3, <1>6
<1>8. \A d \in DOMAIN subagents : subagents'[d].id = subagents[d].id
    BY <1>5, <1>7
<1>9. subagents' \in [DOMAIN subagents' -> [id: 1 .. subagentSeq', async: {"none", "running"}]]
    <2>1. \A d \in DOMAIN subagents' : subagents'[d] \in [id: 1 .. subagentSeq', async: {"none", "running"}]
        BY <1>2, <1>3, <1>4, <1>5, <1>7
    <2> QED BY <1>4, <2>1
<1>10. Tracked' = Tracked
    <2>1. Tracked' = {subagents'[d].id : d \in DOMAIN subagents'}
        BY DEF Tracked
    <2>2. Tracked = {subagents[d].id : d \in DOMAIN subagents}
        BY DEF Tracked
    <2> QED BY <1>4, <1>8, <2>1, <2>2
<1>11. RowsAgree'
    BY <1>2, <1>10 DEF RowsAgree, Tracking
<1>12. OwnRows'
    BY <1>2, <1>4, <1>8 DEF OwnRows, Tracking
<1>13. Tracking'
    <2>1. subagentSeq' \in Nat /\ DOMAIN subagents' \subseteq Calls
        BY <1>2, <1>4 DEF Tracking
    <2>2. /\ DOMAIN rows' \subseteq 1 .. subagentSeq'
          /\ rows' \in [DOMAIN rows' -> [status: {"running"} \cup Ended, call: Calls]]
          /\ DOMAIN finished' \subseteq (1 .. subagentSeq') \cup Calls
        BY <1>2 DEF Tracking
    <2> QED BY <1>9, <1>11, <1>12, <2>1, <2>2 DEF Tracking
<1>14. RowsFinal /\ Only({c})
    BY <1>2, <1>4, <1>5 DEF RowsFinal, Only
<1> QED BY <1>4, <1>7, <1>13, <1>14

\* A finish records what the row shows, and touches no row but those of C.
LEMMA FinishKeeps ==
    ASSUME Tracking, NEW C, NEW status, Finishes(C, status)
    PROVE  /\ Tracking' /\ RowsFinal /\ Only(C)
           /\ DOMAIN subagents' = DOMAIN subagents \ C
<1> DEFINE ids == {subagents[c].id : c \in C}
<1>1. C \subseteq DOMAIN subagents /\ status \in Ended /\ subagentSeq' = subagentSeq
    BY DEF Finishes, finishSubagents
<1>2. /\ DOMAIN subagents' = DOMAIN subagents \ C
      /\ subagents' = [d \in DOMAIN subagents \ C |-> subagents[d]]
      /\ \A d \in DOMAIN subagents \ C : subagents'[d] = subagents[d]
    BY DEF Finishes, finishSubagents, Drop
<1>3. ids \subseteq Tracked /\ ids \subseteq DOMAIN rows /\ ids \subseteq 1 .. subagentSeq
    BY <1>1, TrackedFacts
<1>4. /\ rows' = Over(rows, [x \in ids |-> [rows[x] EXCEPT !.status = status]])
      /\ finished' = Over(finished, [x \in ids \cup C |-> status])
    BY DEF Finishes, finishSubagents
<1>5. \A d \in DOMAIN subagents \ C : subagents[d].id \notin ids
    BY <1>1 DEF Tracking, OwnRows
<1>6. \A x \in Tracked : x \in ids \/ \E d \in DOMAIN subagents \ C : subagents[d].id = x
    BY TrackedFacts
<1>7. ids \cap C = {} /\ DOMAIN rows \cap C = {} /\ Tracked \cap C = {}
    <2>1. C \subseteq Calls
        BY <1>1 DEF Tracking
    <2>2. DOMAIN rows \subseteq Int /\ Tracked \subseteq DOMAIN rows
        BY DEF Tracking, RowsAgree
    <2> QED BY <1>3, <2>1, <2>2, SubagentConstants
<1> HIDE DEF ids
<1>8. /\ DOMAIN rows' = DOMAIN rows
      /\ \A x \in DOMAIN rows \ ids : rows'[x] = rows[x]
      /\ \A x \in ids : rows'[x] = [rows[x] EXCEPT !.status = status]
      /\ rows' = [x \in DOMAIN rows' |-> rows'[x]]
    BY <1>3, <1>4 DEF Over
<1>9. \A x \in DOMAIN rows : rows[x] \in [status: {"running"} \cup Ended, call: Calls]
    BY DEF Tracking
<1>10. \A x \in ids : /\ rows'[x].status = status /\ rows'[x].call = rows[x].call
                      /\ rows'[x] \in [status: {"running"} \cup Ended, call: Calls]
    BY <1>1, <1>3, <1>8, <1>9
<1>11. /\ DOMAIN finished' = DOMAIN finished \cup ids \cup C
       /\ \A x \in ids : finished'[x] = status
       /\ \A x \in DOMAIN finished \ (ids \cup C) : finished'[x] = finished[x]
    BY <1>4 DEF Over
<1>12. Tracked' = Tracked \ ids
    <2>1. Tracked' = {subagents[d].id : d \in DOMAIN subagents \ C}
        BY <1>2 DEF Tracked
    <2>2. Tracked = {subagents[d].id : d \in DOMAIN subagents}
        BY DEF Tracked
    <2> QED BY <1>5, <1>6, <2>1, <2>2
<1>13. RowsAgree'
    <2>1. RowsAgree
        BY DEF Tracking
    <2>2. Tracked' \cap DOMAIN finished' = {}
        BY <1>7, <1>11, <1>12, <2>1 DEF RowsAgree
    <2>3. status # "running"
        BY <1>1 DEF Ended
    <2>4. {x \in DOMAIN rows' : rows'[x].status = "running"} = Tracked'
        BY <1>3, <1>8, <1>10, <1>12, <2>1, <2>3 DEF RowsAgree
    <2>5. ASSUME NEW x \in DOMAIN rows' \ Tracked'
          PROVE  x \in DOMAIN finished' /\ finished'[x] = rows'[x].status
        <3>1. CASE x \in ids
            BY <1>10, <1>11, <3>1
        <3>2. CASE x \notin ids
            <4>1. x \in DOMAIN rows \ Tracked /\ x \notin C /\ rows'[x] = rows[x]
                BY <1>7, <1>8, <1>12, <3>2
            <4> QED BY <1>11, <2>1, <3>2, <4>1 DEF RowsAgree
        <3> QED BY <3>1, <3>2
    <2> QED BY <2>2, <2>4, <2>5 DEF RowsAgree
<1>14. OwnRows'
    <2>1. \A d \in DOMAIN subagents \ C : subagents[d].id \in DOMAIN rows \ ids
        BY <1>5, TrackedFacts
    <2> QED BY <1>2, <1>8, <2>1 DEF OwnRows, Tracking
<1>15. Tracking'
    <2>1. subagentSeq' \in Nat /\ DOMAIN subagents' \subseteq Calls
          /\ DOMAIN rows' \subseteq 1 .. subagentSeq'
        BY <1>1, <1>2, <1>8 DEF Tracking
    <2>2. subagents' \in [DOMAIN subagents' -> [id: 1 .. subagentSeq', async: {"none", "running"}]]
        <3>1. \A d \in DOMAIN subagents' : subagents'[d] \in [id: 1 .. subagentSeq', async: {"none", "running"}]
            BY <1>1, <1>2 DEF Tracking
        <3> QED BY <1>2, <3>1
    <2>3. rows' \in [DOMAIN rows' -> [status: {"running"} \cup Ended, call: Calls]]
        BY <1>8, <1>9, <1>10
    <2>4. DOMAIN finished' \subseteq (1 .. subagentSeq') \cup Calls
        BY <1>1, <1>3, <1>11 DEF Tracking
    <2> QED BY <1>13, <1>14, <2>1, <2>2, <2>3, <2>4 DEF Tracking
<1>16. RowsFinal
    <2>1. \A x \in ids : rows[x].status = "running"
        BY <1>3 DEF Tracking, RowsAgree
    <2> QED BY <1>8, <2>1 DEF RowsFinal
<1>17. Only(C)
    BY <1>2, <1>8, <1>10 DEF Only
<1> QED BY <1>2, <1>15, <1>16, <1>17

\* A switch drops every row and tracks nothing.
LEMMA LeaveKeeps ==
    ASSUME Tracking, LeaveSession
    PROVE  /\ Tracking' /\ RowsFinal
           /\ DOMAIN subagents' = {} /\ DOMAIN rows' = {}
<1>1. /\ DOMAIN subagents' = {} /\ DOMAIN rows' = {} /\ subagentSeq' = subagentSeq
      /\ subagents' = [x \in {} |-> 0] /\ rows' = [x \in {} |-> 0]
    BY DEF LeaveSession
<1>2. DOMAIN finished' = DOMAIN finished \cup Tracked
    BY DEF LeaveSession, Over, Tracked
<1>3. Tracked' = {}
    BY <1>1 DEF Tracked
<1>4. Tracked \subseteq 1 .. subagentSeq
    BY DEF Tracking, RowsAgree
<1>5. RowsAgree' /\ OwnRows'
    BY <1>1, <1>3 DEF RowsAgree, OwnRows
<1>6. /\ subagents' \in [DOMAIN subagents' -> [id: 1 .. subagentSeq', async: {"none", "running"}]]
      /\ rows' \in [DOMAIN rows' -> [status: {"running"} \cup Ended, call: Calls]]
    BY <1>1
<1>7. Tracking'
    BY <1>1, <1>2, <1>4, <1>5, <1>6 DEF Tracking
<1>8. RowsFinal
    BY <1>1 DEF RowsFinal
<1> QED BY <1>1, <1>7, <1>8

LEMMA SameKeeps ==
    ASSUME Tracking, UNCHANGED tracking
    PROVE  /\ Tracking' /\ RowsFinal /\ Only({})
           /\ subagents' = subagents /\ rows' = rows
<1>1. /\ subagents' = subagents /\ rows' = rows /\ finished' = finished
      /\ subagentSeq' = subagentSeq
    BY DEF tracking
<1>2. Tracking'
    BY <1>1 DEF Tracking, RowsAgree, OwnRows, Tracked
<1> QED BY <1>1, <1>2 DEF RowsFinal, Only

-----------------------------------------------------------------------------
(***************************************************************************)
(* What the observers do.                                                  *)
(***************************************************************************)
\* The async state an update leaves behind.
State(c, async) == IF async = "none" THEN subagents[c].async ELSE async

LEMMA StartObserved ==
    ASSUME NEW c \in Calls, observeToolCallStart(c)
    PROVE  \/ c \in DOMAIN subagents /\ UNCHANGED tracking
           \/ Spawns(c)
BY DEF observeToolCallStart, Spawns

LEMMA EndObserved ==
    ASSUME Tracking, NEW c \in Calls, NEW status, NEW async \in {"none", "running"} \cup Terminal,
           observeToolCallEnd(c, status, async)
    PROVE  \/ c \notin DOMAIN subagents /\ UNCHANGED tracking
           \/ Notes(c, State(c, async))
           \/ /\ State(c, async) \in Terminal \/ (State(c, async) = "none" /\ status \in Ended)
              /\ \E s \in Ended : Finishes({c}, s)
<1>1. CASE c \notin DOMAIN subagents
    BY <1>1 DEF observeToolCallEnd
<1>2. CASE c \in DOMAIN subagents
    <2> DEFINE state == State(c, async)
    <2>1. \/ /\ state = "running" \/ (state = "none" /\ status \notin Ended)
             /\ subagents' = [subagents EXCEPT ![c].async = state]
             /\ UNCHANGED <<finished, subagentSeq, rows>>
          \/ /\ state \in Terminal
             /\ finishSubagents({c}, Cancelled(state))
          \/ /\ state = "none" /\ status \in Ended
             /\ finishSubagents({c}, status)
        BY <1>2 DEF observeToolCallEnd, State
    <2>2. state \in Terminal => Cancelled(state) \in Ended
        BY DEF Terminal, Ended, Cancelled
    <2> HIDE DEF state
    <2>3. CASE /\ state = "running" \/ (state = "none" /\ status \notin Ended)
               /\ subagents' = [subagents EXCEPT ![c].async = state]
               /\ UNCHANGED <<finished, subagentSeq, rows>>
        BY <1>2, <2>3 DEF Notes, state
    <2>4. CASE state \in Terminal /\ finishSubagents({c}, Cancelled(state))
        BY <1>2, <2>2, <2>4 DEF Finishes, state
    <2>5. CASE state = "none" /\ status \in Ended /\ finishSubagents({c}, status)
        BY <1>2, <2>5 DEF Finishes, state
    <2> QED BY <2>1, <2>3, <2>4, <2>5
<1> QED BY <1>1, <1>2

\* Whatever an update does, it does to its own call.
LEMMA EndKeeps ==
    ASSUME Tracking, NEW c \in Calls, NEW status, NEW async \in {"none", "running"} \cup Terminal,
           observeToolCallEnd(c, status, async)
    PROVE  Tracking' /\ RowsFinal /\ Only({c})
<1>1. CASE c \notin DOMAIN subagents /\ UNCHANGED tracking
    <2>1. Tracking' /\ RowsFinal /\ Only({})
        BY <1>1, SameKeeps
    <2> QED BY <2>1 DEF Only
<1>2. CASE Notes(c, State(c, async))
    BY <1>2, NoteKeeps
<1>3. CASE \E s \in Ended : Finishes({c}, s)
    BY <1>3, FinishKeeps
<1> QED BY <1>1, <1>2, <1>3, EndObserved

-----------------------------------------------------------------------------
(***************************************************************************)
(* The turns and the calls.                                                *)
(***************************************************************************)
CallRecords == [turn: Nat,
                phase: {"none", "open", "returned", "dispatched", "aborted"},
                job: {"none", "running", "ended"}]

TurnsOK ==
    nturn \in Nat /\ slot \in 0 .. nturn /\ sent \subseteq 1 .. nturn /\ cut \subseteq 1 .. nturn
    /\ left \in Nat

LEMMA InvParts ==
    IInv <=> Tracking /\ TurnsOK /\ call \in [Calls -> CallRecords] /\ CallsBegin /\ FirstSession
BY DEF IInv, TypeOK, Tracking, TurnsOK, CallRecords

LEMMA InvPartsNext ==
    IInv' <=> /\ Tracking' /\ TurnsOK' /\ call' \in [Calls -> CallRecords]
              /\ CallsBegin' /\ FirstSession'
BY DEF IInv, TypeOK, Tracking, TurnsOK, CallRecords

\* What r has to be for c to be a call with that record, and be tracked as it is.
Placed(c, r) ==
    /\ r \in CallRecords /\ r.phase # "none"
    /\ r.phase = "open" => r.turn \in sent
    /\ r.job # "none" => r.phase = "dispatched"
    /\ left = 0 =>
          /\ r.phase = "open" /\ r.turn \notin cut =>
                c \in DOMAIN subagents' /\ subagents'[c].async = "none"
          /\ r.job = "running" =>
                c \in DOMAIN subagents' /\ subagents'[c].async = "running"

\* A step of one call, in no turn's life.
LEMMA CallKeeps ==
    ASSUME IInv, Tracking', RowsFinal, NEW c \in Calls, Only({c}), UNCHANGED turns,
           call' \in [Calls -> CallRecords], \A d \in Calls : d # c => call'[d] = call[d],
           Placed(c, call'[c])
    PROVE  IInv' /\ RowsFinal
<1>1. slot' = slot /\ sent' = sent /\ nturn' = nturn /\ cut' = cut /\ left' = left
    BY DEF turns
<1>2. /\ \A d \in Calls : d # c => /\ call'[d] = call[d]
                                   /\ d \in DOMAIN subagents' <=> d \in DOMAIN subagents
                                   /\ d \in DOMAIN subagents => subagents'[d] = subagents[d]
      /\ DOMAIN rows' = DOMAIN rows /\ \A x \in DOMAIN rows : rows'[x].call = rows[x].call
    BY DEF Only
<1>3. CallsBegin /\ FirstSession /\ TurnsOK
    BY InvParts
<1>4. CallsBegin'
    <2> SUFFICES ASSUME NEW d \in Calls
                 PROVE  /\ call'[d].phase = "none" =>
                             d \notin DOMAIN subagents' /\ \A x \in DOMAIN rows' : rows'[x].call # d
                        /\ call'[d].phase = "open" => call'[d].turn \in sent'
                        /\ call'[d].job # "none" => call'[d].phase = "dispatched"
        BY DEF CallsBegin
    <2>1. CASE d = c
        BY <1>1, <2>1 DEF Placed
    <2>2. CASE d # c
        BY <1>1, <1>2, <1>3, <2>2 DEF CallsBegin
    <2> QED BY <2>1, <2>2
<1>5. FirstSession'
    <2> SUFFICES ASSUME left = 0 PROVE FirstSession'
        BY <1>1 DEF FirstSession
    <2>1. sent' \ cut' \subseteq {slot'}
        BY <1>1, <1>3 DEF FirstSession
    <2>2. ASSUME NEW d \in Calls, call'[d].phase = "open", call'[d].turn \notin cut'
          PROVE  d \in DOMAIN subagents' /\ subagents'[d].async = "none"
        <3>1. CASE d = c
            BY <1>1, <2>2, <3>1 DEF Placed
        <3>2. CASE d # c
            BY <1>1, <1>2, <1>3, <2>2, <3>2 DEF FirstSession
        <3> QED BY <3>1, <3>2
    <2>3. ASSUME NEW d \in Calls, call'[d].job = "running"
          PROVE  d \in DOMAIN subagents' /\ subagents'[d].async = "running"
        <3>1. CASE d = c
            BY <1>1, <2>3, <3>1 DEF Placed
        <3>2. CASE d # c
            BY <1>1, <1>2, <1>3, <2>3, <3>2 DEF FirstSession
        <3> QED BY <3>1, <3>2
    <2>4. \A x, y \in DOMAIN rows' : rows'[x].call = rows'[y].call => x = y
        BY <1>2, <1>3 DEF FirstSession
    <2> QED BY <2>1, <2>2, <2>3, <2>4 DEF FirstSession
<1>6. TurnsOK'
    BY <1>1, <1>3 DEF TurnsOK
<1> QED BY <1>4, <1>5, <1>6, InvPartsNext

LEMMA CallFacts ==
    ASSUME IInv, NEW c \in Calls
    PROVE  /\ Tracking /\ call[c] \in CallRecords /\ call \in [Calls -> CallRecords]
           /\ call[c].phase = "none" => c \notin DOMAIN subagents
           /\ call[c].phase = "open" => call[c].turn \in sent
           /\ call[c].job # "none" => call[c].phase = "dispatched"
           /\ left = 0 /\ call[c].phase = "open" /\ call[c].turn \notin cut =>
                 c \in DOMAIN subagents /\ subagents[c].async = "none"
           /\ left = 0 /\ call[c].job = "running" =>
                 c \in DOMAIN subagents /\ subagents[c].async = "running"
BY InvParts DEF CallsBegin, FirstSession

\* Writing the record of one call.
LEMMA CallWritten ==
    ASSUME call \in [Calls -> CallRecords], NEW c \in Calls, NEW r \in CallRecords,
           call' = [call EXCEPT ![c] = r]
    PROVE  /\ call' \in [Calls -> CallRecords] /\ call'[c] = r
           /\ \A d \in Calls : d # c => call'[d] = call[d]
OBVIOUS

LEMMA StepAborted ==
    ASSUME IInv, NEW c \in Calls, Aborted(c)
    PROVE  IInv' /\ RowsFinal
<1> DEFINE r == [call[c] EXCEPT !.phase = "aborted"]
<1>1. call' = [call EXCEPT ![c] = r] /\ UNCHANGED turns /\ UNCHANGED tracking
    BY DEF Aborted
<1>2. call[c] \in CallRecords /\ call[c].phase = "open" /\ call[c].job = "none"
    BY CallFacts DEF Aborted, CallRecords
<1>3. r \in CallRecords /\ r.phase = "aborted" /\ r.job = "none"
    BY <1>2 DEF CallRecords
<1> HIDE DEF r
<1>4. /\ call' \in [Calls -> CallRecords] /\ call'[c] = r
      /\ \A d \in Calls : d # c => call'[d] = call[d]
    BY <1>1, <1>3, CallWritten, CallFacts
<1>5. Tracking' /\ RowsFinal /\ Only({c})
    <2>1. Tracking' /\ RowsFinal /\ Only({})
        BY <1>1, SameKeeps, CallFacts
    <2> QED BY <2>1 DEF Only
<1>6. Placed(c, call'[c])
    BY <1>3, <1>4 DEF Placed
<1> QED BY <1>1, <1>4, <1>5, <1>6, CallKeeps

LEMMA StepReturns ==
    ASSUME IInv, NEW c \in Calls, NEW status, NEW async \in {"none"} \cup Terminal,
           Returns(c, status, async)
    PROVE  IInv' /\ RowsFinal
<1> DEFINE r == [call[c] EXCEPT !.phase = "returned"]
<1>1. call' = [call EXCEPT ![c] = r] /\ UNCHANGED turns /\ observeToolCallEnd(c, status, async)
    BY DEF Returns
<1>2. call[c] \in CallRecords /\ call[c].phase = "open" /\ call[c].job = "none"
    BY CallFacts DEF Returns, CallRecords
<1>3. r \in CallRecords /\ r.phase = "returned" /\ r.job = "none"
    BY <1>2 DEF CallRecords
<1> HIDE DEF r
<1>4. /\ call' \in [Calls -> CallRecords] /\ call'[c] = r
      /\ \A d \in Calls : d # c => call'[d] = call[d]
    BY <1>1, <1>3, CallWritten, CallFacts
<1>5. Tracking' /\ RowsFinal /\ Only({c})
    BY <1>1, EndKeeps, CallFacts
<1>6. Placed(c, call'[c])
    BY <1>3, <1>4 DEF Placed
<1> QED BY <1>1, <1>4, <1>5, <1>6, CallKeeps

LEMMA StepJobsEnd ==
    ASSUME IInv, NEW c \in Calls, NEW async \in Terminal, JobsEnd(c, async)
    PROVE  IInv' /\ RowsFinal
<1> DEFINE r == [call[c] EXCEPT !.job = "ended"]
<1>1. /\ call' = [call EXCEPT ![c] = r] /\ UNCHANGED turns
      /\ observeToolCallEnd(c, "in_progress", async) \/ UNCHANGED tracking
    BY DEF JobsEnd
<1>2. call[c] \in CallRecords /\ call[c].phase = "dispatched"
    BY CallFacts DEF JobsEnd
<1>3. r \in CallRecords /\ r.phase = "dispatched" /\ r.job = "ended"
    BY <1>2 DEF CallRecords
<1> HIDE DEF r
<1>4. /\ call' \in [Calls -> CallRecords] /\ call'[c] = r
      /\ \A d \in Calls : d # c => call'[d] = call[d]
    BY <1>1, <1>3, CallWritten, CallFacts
<1>5. Tracking' /\ RowsFinal /\ Only({c})
    <2>1. CASE UNCHANGED tracking
        <3>1. Tracking' /\ RowsFinal /\ Only({})
            BY <2>1, SameKeeps, CallFacts
        <3> QED BY <3>1 DEF Only
    <2>2. CASE observeToolCallEnd(c, "in_progress", async)
        BY <2>2, EndKeeps, CallFacts
    <2> QED BY <1>1, <2>1, <2>2
<1>6. Placed(c, call'[c])
    BY <1>3, <1>4 DEF Placed
<1> QED BY <1>1, <1>4, <1>5, <1>6, CallKeeps

\* The call is tracked when its jobs are dispatched, and noted as running them.
LEMMA StepDispatchesJobs ==
    ASSUME IInv, NEW c \in Calls, DispatchesJobs(c)
    PROVE  IInv' /\ RowsFinal
<1> DEFINE r == [call[c] EXCEPT !.phase = "dispatched", !.job = "running"]
<1>1. /\ call' = [call EXCEPT ![c] = r] /\ UNCHANGED turns
      /\ observeToolCallEnd(c, "completed", "running")
    <2>1. /\ call' = [call EXCEPT ![c].phase = "dispatched", ![c].job = "running"]
          /\ UNCHANGED turns /\ observeToolCallEnd(c, "completed", "running")
        BY DEF DispatchesJobs
    <2>2. call \in [Calls -> CallRecords]
        BY CallFacts
    <2> QED BY <2>1, <2>2
<1>2. call[c] \in CallRecords /\ call[c].phase = "open" /\ call[c].turn \notin cut
    BY CallFacts DEF DispatchesJobs
<1>3. r \in CallRecords /\ r.phase = "dispatched" /\ r.job = "running"
    BY <1>2 DEF CallRecords
<1> HIDE DEF r
<1>4. /\ call' \in [Calls -> CallRecords] /\ call'[c] = r
      /\ \A d \in Calls : d # c => call'[d] = call[d]
    BY <1>1, <1>3, CallWritten, CallFacts
<1>5. Tracking' /\ RowsFinal /\ Only({c})
    BY <1>1, EndKeeps, CallFacts
<1>6. left = 0 => c \in DOMAIN subagents' /\ subagents'[c].async = "running"
    <2> SUFFICES ASSUME left = 0
                 PROVE  c \in DOMAIN subagents' /\ subagents'[c].async = "running"
        OBVIOUS
    <2>1. c \in DOMAIN subagents
        BY <1>2, CallFacts
    <2>2. State(c, "running") = "running" /\ "running" \notin Terminal
        BY DEF State, Terminal
    <2>3. Notes(c, "running")
        BY <1>1, <2>1, <2>2, EndObserved, CallFacts
    <2> QED BY <2>1, <2>3, NoteKeeps, CallFacts
<1>7. Placed(c, call'[c])
    BY <1>3, <1>4, <1>6 DEF Placed
<1> QED BY <1>1, <1>4, <1>5, <1>7, CallKeeps

\* An update without news repeats what is on record.
LEMMA StepProgress ==
    ASSUME IInv, NEW c \in Calls, Progress(c)
    PROVE  IInv' /\ RowsFinal
<1> DEFINE async == IF call[c].job = "running" THEN "running" ELSE "none"
<1>1. /\ call' = call /\ UNCHANGED turns /\ call[c].phase \in {"open", "dispatched"}
      /\ observeToolCallEnd(c, "in_progress", async)
    BY DEF Progress
<1>2. async \in {"none", "running"} /\ (call[c].job = "running" <=> async = "running")
    OBVIOUS
<1> HIDE DEF async
<1>3. Tracking' /\ RowsFinal /\ Only({c})
    BY <1>1, <1>2, EndKeeps, CallFacts
<1>4. c \in DOMAIN subagents =>
        /\ c \in DOMAIN subagents'
        /\ subagents'[c].async = IF call[c].job = "running" THEN "running" ELSE subagents[c].async
    <2> SUFFICES ASSUME c \in DOMAIN subagents
                 PROVE  /\ c \in DOMAIN subagents'
                        /\ subagents'[c].async = IF call[c].job = "running" THEN "running"
                                                 ELSE subagents[c].async
        OBVIOUS
    <2>1. subagents[c].async \in {"none", "running"}
        BY TrackedFacts, CallFacts
    <2>2. /\ State(c, async) = IF call[c].job = "running" THEN "running" ELSE subagents[c].async
          /\ State(c, async) \notin Terminal
        BY <1>2, <2>1 DEF State, Terminal
    <2>3. "in_progress" \notin Ended
        BY DEF Ended
    <2>4. Notes(c, State(c, async))
        BY <1>1, <1>2, <2>2, <2>3, EndObserved, CallFacts
    <2>5. DOMAIN subagents' = DOMAIN subagents /\ subagents'[c].async = State(c, async)
        BY <2>4, NoteKeeps, CallFacts
    <2> QED BY <2>2, <2>5
<1>5. Placed(c, call'[c])
    <2>1. call'[c] \in CallRecords /\ call'[c].phase # "none" /\ call'[c] = call[c]
        BY <1>1, CallFacts
    <2>2. call[c].job = "running" => call[c].phase # "open"
        BY CallFacts
    <2> QED BY <1>4, <2>1, <2>2, CallFacts DEF Placed
<1>6. call' \in [Calls -> CallRecords] /\ \A d \in Calls : d # c => call'[d] = call[d]
    BY <1>1, CallFacts
<1> QED BY <1>1, <1>3, <1>5, <1>6, CallKeeps

\* The frame again: in the first session the call is tracked, and nothing
\* happens; after a switch it may become a subagent of the new session.
LEMMA StepToolCallRepeated ==
    ASSUME IInv, NEW c \in Calls, ToolCallRepeated(c)
    PROVE  IInv' /\ RowsFinal
<1>1. /\ call' = call /\ UNCHANGED turns /\ observeToolCallStart(c)
      /\ call[c].phase = "open" /\ call[c].turn \notin cut
    BY DEF ToolCallRepeated
<1>2. Tracking /\ call' \in [Calls -> CallRecords]
    BY <1>1, CallFacts
<1>3. CASE c \in DOMAIN subagents /\ UNCHANGED tracking
    <2>1. Tracking' /\ RowsFinal /\ Only({}) /\ subagents' = subagents
        BY <1>2, <1>3, SameKeeps
    <2>2. Only({c})
        BY <2>1 DEF Only
    <2>3. Placed(c, call'[c])
        <3>1. call'[c] = call[c] /\ call[c] \in CallRecords
            BY <1>1, CallFacts
        <3> QED BY <1>1, <2>1, <3>1, CallFacts DEF Placed
    <2> QED BY <1>1, <1>2, <2>1, <2>2, <2>3, CallKeeps
<1>4. CASE Spawns(c)
    <2>1. /\ Tracking' /\ RowsFinal
          /\ DOMAIN subagents' = DOMAIN subagents \cup {c}
          /\ DOMAIN rows' = DOMAIN rows \cup {subagentSeq + 1}
          /\ rows'[subagentSeq + 1].call = c
          /\ \A x \in DOMAIN rows : rows'[x] = rows[x]
        BY <1>2, <1>4, SpawnKeeps
    <2>2. left # 0
        BY <1>1, <1>4, CallFacts DEF Spawns
    <2>3. TurnsOK' /\ left' # 0
        BY <1>1, <2>2, InvParts DEF TurnsOK, turns
    <2>4. FirstSession'
        BY <2>3 DEF FirstSession
    <2>5. CallsBegin'
        <3>1. sent' = sent /\ CallsBegin
            BY <1>1, InvParts DEF turns
        <3> QED BY <1>1, <2>1, <3>1 DEF CallsBegin
    <2> QED BY <1>2, <2>1, <2>3, <2>4, <2>5, InvPartsNext
<1> QED BY <1>1, <1>3, <1>4, StartObserved

\* The first frame of a call always spawns, and its row is the call's only one.
LEMMA StepToolCall ==
    ASSUME IInv, NEW c \in Calls, NEW t \in Turns, ToolCall(c, t)
    PROVE  IInv' /\ RowsFinal
<1> DEFINE r == [turn |-> t, phase |-> "open", job |-> "none"]
<1>1. /\ call' = [call EXCEPT ![c] = r] /\ UNCHANGED turns /\ observeToolCallStart(c)
      /\ call[c].phase = "none" /\ t \in sent \ cut
    BY DEF ToolCall
<1>2. r \in CallRecords /\ r.turn = t /\ r.phase = "open" /\ r.job = "none"
    BY SubagentConstants DEF CallRecords, Turns
<1> HIDE DEF r
<1>3. Tracking /\ c \notin DOMAIN subagents /\ call \in [Calls -> CallRecords]
    BY <1>1, CallFacts
<1>4. Spawns(c)
    BY <1>1, <1>3, StartObserved
<1>5. /\ Tracking' /\ RowsFinal
      /\ DOMAIN subagents' = DOMAIN subagents \cup {c}
      /\ subagents'[c].async = "none"
      /\ \A d \in DOMAIN subagents : subagents'[d] = subagents[d]
      /\ DOMAIN rows' = DOMAIN rows \cup {subagentSeq + 1}
      /\ rows'[subagentSeq + 1].call = c
      /\ \A x \in DOMAIN rows : x # subagentSeq + 1 /\ rows'[x] = rows[x]
    BY <1>3, <1>4, SpawnKeeps
<1>6. /\ call' \in [Calls -> CallRecords] /\ call'[c] = r
      /\ \A d \in Calls : d # c => call'[d] = call[d]
    BY <1>1, <1>2, <1>3, CallWritten
<1>7. slot' = slot /\ sent' = sent /\ nturn' = nturn /\ cut' = cut /\ left' = left
    BY <1>1 DEF turns
<1>8. CallsBegin /\ FirstSession /\ TurnsOK
    BY InvParts
<1>9. CallsBegin'
    <2> SUFFICES ASSUME NEW d \in Calls
                 PROVE  /\ call'[d].phase = "none" =>
                             d \notin DOMAIN subagents' /\ \A x \in DOMAIN rows' : rows'[x].call # d
                        /\ call'[d].phase = "open" => call'[d].turn \in sent'
                        /\ call'[d].job # "none" => call'[d].phase = "dispatched"
        BY DEF CallsBegin
    <2>1. CASE d = c
        BY <1>1, <1>2, <1>6, <1>7, <2>1
    <2>2. CASE d # c
        BY <1>5, <1>6, <1>7, <1>8, <2>2 DEF CallsBegin
    <2> QED BY <2>1, <2>2
<1>10. FirstSession'
    <2> SUFFICES ASSUME left = 0 PROVE FirstSession'
        BY <1>7 DEF FirstSession
    <2>1. sent' \ cut' \subseteq {slot'}
        BY <1>7, <1>8 DEF FirstSession
    <2>2. ASSUME NEW d \in Calls
          PROVE  /\ call'[d].phase = "open" /\ call'[d].turn \notin cut' =>
                       d \in DOMAIN subagents' /\ subagents'[d].async = "none"
                 /\ call'[d].job = "running" =>
                       d \in DOMAIN subagents' /\ subagents'[d].async = "running"
        <3>1. CASE d = c
            BY <1>2, <1>5, <1>6, <3>1
        <3>2. CASE d # c
            BY <1>5, <1>6, <1>7, <1>8, <3>2 DEF FirstSession
        <3> QED BY <3>1, <3>2
    <2>3. \A x \in DOMAIN rows : rows[x].call # c
        BY <1>1, <1>8 DEF CallsBegin
    <2>4. \A x, y \in DOMAIN rows' : rows'[x].call = rows'[y].call => x = y
        BY <1>5, <1>8, <2>3 DEF FirstSession
    <2> QED BY <2>1, <2>2, <2>4 DEF FirstSession
<1>11. TurnsOK'
    BY <1>7, <1>8 DEF TurnsOK
<1> QED BY <1>5, <1>6, <1>9, <1>10, <1>11, InvPartsNext

\* A prompt cuts the turn in the slot: the new turn is the only one not cut.
LEMMA StepDispatch ==
    ASSUME IInv, Dispatch
    PROVE  IInv' /\ RowsFinal
<1>1. /\ nturn' = nturn + 1 /\ slot' = nturn + 1 /\ sent' = sent \cup {nturn + 1}
      /\ cut' = cut \cup ({slot} \ {0}) /\ left' = left /\ call' = call
      /\ UNCHANGED tracking
    BY DEF Dispatch, Turn!Dispatch
<1>2. Tracking /\ TurnsOK /\ call \in [Calls -> CallRecords] /\ CallsBegin /\ FirstSession
    BY InvParts
<1>3. Tracking' /\ RowsFinal /\ subagents' = subagents /\ rows' = rows
    BY <1>1, <1>2, SameKeeps
<1>4. TurnsOK'
    BY <1>1, <1>2 DEF TurnsOK
<1>5. CallsBegin'
    BY <1>1, <1>2, <1>3 DEF CallsBegin
<1>6. FirstSession'
    <2> SUFFICES ASSUME left = 0 PROVE FirstSession'
        BY <1>1 DEF FirstSession
    <2>1. sent' \ cut' \subseteq {slot'}
        BY <1>1, <1>2 DEF FirstSession, TurnsOK
    <2>2. cut \subseteq cut'
        BY <1>1
    <2> QED BY <1>1, <1>2, <1>3, <2>1, <2>2 DEF FirstSession
<1> QED BY <1>1, <1>2, <1>3, <1>4, <1>5, <1>6, InvPartsNext

\* The turn in the slot ends: none of its calls is open, and the calls that run
\* jobs are not among those it finishes.
LEMMA StepTurnAnswered ==
    ASSUME IInv, NEW t \in Turns, NEW stop, TurnAnswered(t, stop)
    PROVE  IInv' /\ RowsFinal
<1> DEFINE C == {c \in DOMAIN subagents : subagents[c].async = "none"}
<1>1. /\ \A c \in Calls : call[c].turn = t => call[c].phase # "open"
      /\ sent' = sent \ {t} /\ nturn' = nturn /\ cut' = cut /\ left' = left /\ call' = call
    BY DEF TurnAnswered, Turn!SettleOwn, Turn!SettleLate
<1>2. \/ slot = t /\ slot' = 0 /\ Finishes(C, Fallback(stop))
      \/ slot' = slot /\ UNCHANGED tracking
    BY DEF TurnAnswered, Turn!SettleOwn, Turn!SettleLate, finishSubagentsAtTurnEnd, Finishes,
           Fallback, Ended
<1>3. Tracking /\ TurnsOK /\ call \in [Calls -> CallRecords] /\ CallsBegin /\ FirstSession
    BY InvParts
<1>4. /\ Tracking' /\ RowsFinal /\ DOMAIN rows' = DOMAIN rows
      /\ \A x \in DOMAIN rows : rows'[x].call = rows[x].call
      /\ DOMAIN subagents' \subseteq DOMAIN subagents
      /\ \A c \in DOMAIN subagents : subagents[c].async = "running" =>
            c \in DOMAIN subagents' /\ subagents'[c] = subagents[c]
    <2>1. CASE UNCHANGED tracking
        BY <1>3, <2>1, SameKeeps
    <2>2. CASE Finishes(C, Fallback(stop))
        <3>1. Tracking' /\ RowsFinal /\ Only(C) /\ DOMAIN subagents' = DOMAIN subagents \ C
            BY <1>3, <2>2, FinishKeeps
        <3>2. DOMAIN subagents \subseteq Calls
            BY <1>3 DEF Tracking
        <3> QED BY <3>1, <3>2 DEF Only
    <2> QED BY <1>2, <2>1, <2>2
<1>5. TurnsOK'
    <2>1. slot' = 0 \/ slot' = slot
        BY <1>2
    <2>2. nturn \in Nat /\ slot \in 0 .. nturn /\ 0 \in 0 .. nturn
        BY <1>3 DEF TurnsOK
    <2>3. slot' \in 0 .. nturn'
        BY <1>1, <2>1, <2>2
    <2>4. /\ sent' \subseteq 1 .. nturn' /\ cut' \subseteq 1 .. nturn'
          /\ nturn' \in Nat /\ left' \in Nat
        BY <1>1, <1>3 DEF TurnsOK
    <2> QED BY <2>3, <2>4 DEF TurnsOK
<1>6. CallsBegin'
    BY <1>1, <1>3, <1>4 DEF CallsBegin
<1>7. FirstSession'
    <2> SUFFICES ASSUME left = 0 PROVE FirstSession'
        BY <1>1 DEF FirstSession
    <2>1. sent' \ cut' \subseteq {slot'}
        BY <1>1, <1>2, <1>3 DEF FirstSession
    <2>2. ASSUME NEW c \in Calls, call[c].phase = "open", call[c].turn \notin cut
          PROVE  c \in DOMAIN subagents' /\ subagents'[c].async = "none"
        <3>1. call[c].turn \in sent \ cut /\ call[c].turn # t
            BY <1>1, <1>3, <2>2 DEF CallsBegin
        <3>2. slot # t
            BY <1>3, <3>1 DEF FirstSession
        <3>3. subagents' = subagents
            BY <1>2, <3>2 DEF tracking
        <3> QED BY <1>3, <2>2, <3>3 DEF FirstSession
    <2>3. \A c \in Calls : call[c].job = "running" =>
             c \in DOMAIN subagents' /\ subagents'[c].async = "running"
        BY <1>3, <1>4 DEF FirstSession
    <2>4. \A x, y \in DOMAIN rows' : rows'[x].call = rows'[y].call => x = y
        BY <1>3, <1>4 DEF FirstSession
    <2> QED BY <1>1, <2>1, <2>2, <2>3, <2>4 DEF FirstSession
<1> QED BY <1>1, <1>3, <1>4, <1>5, <1>6, <1>7, InvPartsNext

LEMMA StepLeaveSession ==
    ASSUME IInv, LeaveSession
    PROVE  IInv' /\ RowsFinal
<1>1. /\ nturn' = nturn /\ slot' = 0 /\ sent' = sent /\ cut' = cut /\ left' = left + 1
      /\ call' = call
    BY DEF LeaveSession, Turn!Leave
<1>2. Tracking /\ TurnsOK /\ call \in [Calls -> CallRecords] /\ CallsBegin /\ FirstSession
    BY InvParts
<1>3. Tracking' /\ RowsFinal /\ DOMAIN subagents' = {} /\ DOMAIN rows' = {}
    BY <1>2, LeaveKeeps
<1>4. TurnsOK' /\ left' # 0
    BY <1>1, <1>2 DEF TurnsOK
<1>5. CallsBegin'
    BY <1>1, <1>2, <1>3 DEF CallsBegin
<1>6. FirstSession'
    BY <1>4 DEF FirstSession
<1> QED BY <1>1, <1>2, <1>3, <1>4, <1>5, <1>6, InvPartsNext

-----------------------------------------------------------------------------
(***************************************************************************)
(* The theorems.                                                           *)
(***************************************************************************)
LEMMA StepNext ==
    ASSUME IInv, Next
    PROVE  IInv' /\ RowsFinal
BY StepDispatch, StepLeaveSession, StepTurnAnswered, StepToolCall, StepToolCallRepeated,
   StepProgress, StepReturns, StepDispatchesJobs, StepJobsEnd, StepAborted DEF Next

LEMMA StepStutters ==
    ASSUME IInv, UNCHANGED vars
    PROVE  IInv' /\ RowsFinal
<1>1. UNCHANGED turns /\ UNCHANGED tracking /\ call' = call
    BY DEF vars
<1>2. Tracking /\ TurnsOK /\ call \in [Calls -> CallRecords] /\ CallsBegin /\ FirstSession
    BY InvParts
<1>3. Tracking' /\ RowsFinal /\ subagents' = subagents /\ rows' = rows
    BY <1>1, <1>2, SameKeeps
<1>4. TurnsOK' /\ CallsBegin' /\ FirstSession'
    BY <1>1, <1>2, <1>3 DEF TurnsOK, CallsBegin, FirstSession, turns
<1> QED BY <1>1, <1>2, <1>3, <1>4, InvPartsNext

LEMMA InitHolds == Init => IInv
<1> SUFFICES ASSUME Init PROVE IInv
    OBVIOUS
<1>1. /\ slot = 0 /\ sent = {} /\ nturn = 0 /\ cut = {} /\ left = 0 /\ subagentSeq = 0
      /\ DOMAIN subagents = {} /\ DOMAIN rows = {} /\ DOMAIN finished = {}
      /\ subagents = [x \in {} |-> 0] /\ rows = [x \in {} |-> 0]
      /\ call = [c \in Calls |-> NoCall]
    BY DEF Init, Turn!TurnInit
<1>2. Tracked = {}
    BY <1>1 DEF Tracked
<1>3. RowsAgree /\ OwnRows
    BY <1>1, <1>2 DEF RowsAgree, OwnRows
<1>4. /\ subagents \in [DOMAIN subagents -> [id: 1 .. subagentSeq, async: {"none", "running"}]]
      /\ rows \in [DOMAIN rows -> [status: {"running"} \cup Ended, call: Calls]]
    BY <1>1
<1>5. Tracking
    BY <1>1, <1>3, <1>4 DEF Tracking
<1>6. NoCall \in CallRecords /\ NoCall.phase = "none" /\ NoCall.job = "none"
    BY DEF NoCall, CallRecords
<1>7. call \in [Calls -> CallRecords] /\ \A c \in Calls : call[c] = NoCall
    BY <1>1, <1>6
<1>8. TurnsOK
    BY <1>1 DEF TurnsOK
<1>9. CallsBegin /\ FirstSession
    BY <1>1, <1>6, <1>7 DEF CallsBegin, FirstSession
<1> QED BY <1>5, <1>7, <1>8, <1>9, InvParts

\* What is tracked, the tasks pane and the registry are well formed and belong
\* together in every reachable state, for every set of calls and every bound.
THEOREM InvariantHolds == Spec => []IInv
<1>1. IInv /\ [Next]_vars => IInv'
    BY StepNext, StepStutters
<1> QED BY <1>1, InitHolds, PTL DEF Spec

\* The pane, subagent/list_running and the answers of subagent/cancel agree,
\* whatever frames, turn ends and session switches came in whatever order.
THEOREM RowsAlwaysAgree == Spec => []RowsAgree
<1>1. IInv => RowsAgree
    BY DEF IInv
<1> QED BY <1>1, InvariantHolds, PTL

\* A row that ended keeps what it ended with: no later update and no turn's end
\* finishes a subagent twice.
THEOREM RowsEndOnce == Spec => FinishIsFinal
<1>1. IInv /\ [Next]_vars =>
        [\A x \in DOMAIN rows :
            rows[x].status # "running" /\ x \in DOMAIN rows' => rows'[x] = rows[x]]_vars
    BY StepNext DEF RowsFinal
<1> QED BY <1>1, InvariantHolds, PTL DEF Spec, FinishIsFinal

\* Until a session is left, the row of a task whose jobs run at OMP runs: no
\* turn's end takes it for a task that was given up.
THEOREM JobsKeepTheRow == Spec => []RunsWhileJobsRun
<1>1. IInv => RunsWhileJobsRun
    <2> SUFFICES ASSUME IInv, left = 0, NEW x \in DOMAIN rows, call[rows[x].call].job = "running"
                 PROVE  rows[x].status = "running"
        BY DEF RunsWhileJobsRun
    <2> DEFINE c == rows[x].call
    <2>1. Tracking /\ FirstSession
        BY InvParts
    <2>2. c \in Calls
        BY <2>1, TrackedFacts
    <2>3. c \in DOMAIN subagents
        BY <2>1, <2>2 DEF FirstSession
    <2>4. /\ subagents[c].id \in DOMAIN rows /\ rows[subagents[c].id].status = "running"
          /\ rows[subagents[c].id].call = c
        BY <2>1, <2>3, TrackedFacts
    <2>5. subagents[c].id = x
        BY <2>1, <2>4 DEF FirstSession
    <2> QED BY <2>4, <2>5
<1> QED BY <1>1, InvariantHolds, PTL
=============================================================================
