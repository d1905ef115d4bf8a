----------------------------- MODULE Subagents -----------------------------
(***************************************************************************)
(* Subagent synthesis of the bridge (src/bridge/adapter.mjs).  OMP runs a  *)
(* subagent as an ordinary `task' tool call; the pager's tasks pane lives  *)
(* on subagent_spawned and subagent_finished, which the adapter makes up   *)
(* from the tool call's frames, from the turn's end (finishSubagentsAtTurn- *)
(* End) and from a session switch (resetQueue).  The turns are TurnSlot's, *)
(* which PromptQueue implements.                                           *)
(*                                                                         *)
(* A task call returns its result, or only dispatches jobs and reports     *)
(* their end later (details.async).  OMP aborts the calls of a turn it     *)
(* cancels without a word, and a job that ends after its turn is not       *)
(* reported: the turn's event stream is closed.                            *)
(***************************************************************************)
EXTENDS Integers, FiniteSets

CONSTANTS
    MaxTurn,    \* bound: prompts dispatched
    MaxLeave,   \* bound: session switches
    MaxSub,     \* bound: subagents spawned
    Calls       \* toolCallIds of task calls

ASSUME SubagentConstants ==
    /\ MaxTurn \in Nat /\ MaxLeave \in Nat /\ MaxSub \in Nat
    /\ Calls \cap Int = {}

VARIABLES
    slot, sent,  \* the turns: see TurnSlot
    subagents,   \* toolCallId -> tracked record
    finished,    \* finishedSubagents: subagent id or toolCallId -> status
    subagentSeq, \* the last subagent id handed out
    rows,        \* the tasks pane of the current session: subagent id -> row
    nturn,       \* prompts dispatched
    cut,         \* turns OMP cancelled because another prompt came
    left,        \* session switches so far
    call         \* OMP's tool calls

turns == <<slot, sent, nturn, cut, left>>
tracking == <<subagents, finished, subagentSeq, rows>>
vars == <<turns, tracking, call>>

Turns == 1 .. MaxTurn
Turn == INSTANCE TurnSlot

Ended == {"completed", "failed", "cancelled"}
Terminal == {"completed", "failed", "cancelled", "aborted"}   \* ASYNC_TERMINAL
NoCall == [turn |-> 0, phase |-> "none", job |-> "none"]

-----------------------------------------------------------------------------
(* The adapter.                                                              *)

Drop(f, K) == [x \in DOMAIN f \ K |-> f[x]]
Over(f, g) == [x \in DOMAIN f \cup DOMAIN g |-> IF x \in DOMAIN g THEN g[x] ELSE f[x]]

\* observeToolCallStart: a task call that is not tracked becomes a subagent.
observeToolCallStart(c) ==
    \/ /\ c \in DOMAIN subagents
       /\ UNCHANGED tracking
    \/ /\ c \notin DOMAIN subagents
       /\ subagentSeq < MaxSub
       /\ subagentSeq' = subagentSeq + 1
       /\ subagents' = Over(subagents, [x \in {c} |-> [id |-> subagentSeq + 1, async |-> "none"]])
       /\ rows' = Over(rows, [x \in {subagentSeq + 1} |-> [status |-> "running", call |-> c]])
       /\ UNCHANGED finished

\* Defect: the record stays tracked.
finishSubagents_Kept(C, status) ==
    LET ids == {subagents[c].id : c \in C}
    IN  /\ finished' = Over(finished, [x \in ids \cup C |-> status])
        /\ rows' = Over(rows, [x \in ids |-> [rows[x] EXCEPT !.status = status]])
        /\ UNCHANGED <<subagents, subagentSeq>>

\* finishSubagent on each of the calls C.
finishSubagents(C, status) ==
    LET ids == {subagents[c].id : c \in C}
    IN  /\ finished' = Over(finished, [x \in ids \cup C |-> status])
        /\ rows' = Over(rows, [x \in ids |-> [rows[x] EXCEPT !.status = status]])
        /\ subagents' = Drop(subagents, C)
        /\ UNCHANGED subagentSeq

Cancelled(status) == IF status = "aborted" THEN "cancelled" ELSE status

\* Defect: the dispatch of a task is taken for its end.
observeToolCallEnd_AtDispatch(c, status, async) ==
    \/ /\ c \notin DOMAIN subagents \/ status \notin Ended
       /\ UNCHANGED tracking
    \/ /\ c \in DOMAIN subagents /\ status \in Ended
       /\ finishSubagents({c}, status)

\* observeToolCallEnd: the async state seen last (async or, when the update
\* has none, the one on record) decides whether the update is the end.
observeToolCallEnd(c, status, async) ==
    \/ /\ c \notin DOMAIN subagents
       /\ UNCHANGED tracking
    \/ /\ c \in DOMAIN subagents
       /\ LET state == IF async = "none" THEN subagents[c].async ELSE async
          IN  \/ /\ state = "running" \/ (state = "none" /\ status \notin Ended)
                 /\ subagents' = [subagents EXCEPT ![c].async = state]
                 /\ UNCHANGED <<finished, subagentSeq, rows>>
              \/ /\ state \in Terminal
                 /\ finishSubagents({c}, Cancelled(state))
              \/ /\ state = "none" /\ status \in Ended
                 /\ finishSubagents({c}, status)

Fallback(stop) == CASE stop = "cancelled" -> "cancelled"
                    [] stop = "error" -> "failed"
                    [] OTHER -> "completed"

\* Defect: there is no fallback.
finishSubagentsAtTurnEnd_Never(stop) == UNCHANGED tracking

\* finishSubagentsAtTurnEnd: whatever was not seen dispatching jobs.
finishSubagentsAtTurnEnd(stop) ==
    finishSubagents({c \in DOMAIN subagents : subagents[c].async = "none"}, Fallback(stop))

-----------------------------------------------------------------------------
(* The turns.                                                                *)

\* dispatchEntry; OMP cancels the turn that runs in the session.
Dispatch ==
    /\ nturn < MaxTurn
    /\ nturn' = nturn + 1
    /\ Turn!Dispatch(nturn + 1)
    /\ cut' = cut \cup ({slot} \ {0})
    /\ UNCHANGED <<left, tracking, call>>

\* The response of a prompt: OMP sends it once every call of the turn is over.
TurnAnswered(t, stop) ==
    /\ \A c \in Calls : call[c].turn = t => call[c].phase # "open"
    /\ (stop = "cancelled") <=> (t \in cut)
    /\ \/ Turn!SettleOwn(t) /\ finishSubagentsAtTurnEnd(stop)
       \/ Turn!SettleLate(t) /\ UNCHANGED tracking
    /\ UNCHANGED <<nturn, cut, left, call>>

\* resetQueue on a session switch: what is tracked is recorded cancelled, and
\* the pager is not told: it leaves the tasks pane of that session.
LeaveSession ==
    /\ left < MaxLeave
    /\ left' = left + 1
    /\ Turn!Leave
    /\ finished' = Over(finished, [x \in {subagents[c].id : c \in DOMAIN subagents} |-> "cancelled"])
    /\ subagents' = [x \in {} |-> 0]
    /\ rows' = [x \in {} |-> 0]
    /\ UNCHANGED <<nturn, cut, subagentSeq, call>>

-----------------------------------------------------------------------------
(* OMP's tool calls, and the frames the adapter reads.                       *)

\* The first tool_call frame of a call, of a turn that was not cancelled.
ToolCall(c, t) ==
    /\ call[c].phase = "none"
    /\ t \in sent \ cut
    /\ call' = [call EXCEPT ![c] = [turn |-> t, phase |-> "open", job |-> "none"]]
    /\ observeToolCallStart(c)
    /\ UNCHANGED turns

\* The frame again, for a call that is under way.
ToolCallRepeated(c) ==
    /\ call[c].phase = "open" /\ call[c].turn \notin cut
    /\ observeToolCallStart(c)
    /\ UNCHANGED <<turns, call>>

\* An update on the way, without news of jobs.
Progress(c) ==
    /\ call[c].phase \in {"open", "dispatched"}
    /\ observeToolCallEnd(c, "in_progress", IF call[c].job = "running" THEN "running" ELSE "none")
    /\ UNCHANGED <<turns, call>>

\* The call returns its result, or its jobs ended before it returned; in a
\* turn that was cancelled it has none.
Returns(c, status, async) ==
    /\ call[c].phase = "open"
    /\ call[c].turn \in cut => status # "completed" /\ async = "none"
    /\ call' = [call EXCEPT ![c].phase = "returned"]
    /\ observeToolCallEnd(c, status, async)
    /\ UNCHANGED turns

\* The call returns as soon as its jobs are dispatched.
DispatchesJobs(c) ==
    /\ call[c].phase = "open" /\ call[c].turn \notin cut
    /\ call' = [call EXCEPT ![c].phase = "dispatched", ![c].job = "running"]
    /\ observeToolCallEnd(c, "completed", "running")
    /\ UNCHANGED turns

\* The jobs end: reported while the turn is open, else not.
JobsEnd(c, async) ==
    /\ call[c].job = "running"
    /\ call' = [call EXCEPT ![c].job = "ended"]
    /\ \/ call[c].turn \in sent /\ observeToolCallEnd(c, "in_progress", async)
       \/ call[c].turn \notin sent /\ UNCHANGED tracking
    /\ UNCHANGED turns

\* OMP aborts a call of a turn without an update: a cancelled turn, or a batch
\* that was given up.
Aborted(c) ==
    /\ call[c].phase = "open"
    /\ call' = [call EXCEPT ![c].phase = "aborted"]
    /\ UNCHANGED <<turns, tracking>>

-----------------------------------------------------------------------------
Init ==
    /\ Turn!TurnInit
    /\ subagents = [x \in {} |-> 0]
    /\ finished = [x \in {} |-> 0]
    /\ subagentSeq = 0
    /\ rows = [x \in {} |-> 0]
    /\ nturn = 0
    /\ cut = {}
    /\ left = 0
    /\ call = [c \in Calls |-> NoCall]

Next ==
    \/ Dispatch
    \/ LeaveSession
    \/ \E t \in Turns, stop \in {"end_turn", "cancelled", "error"} : TurnAnswered(t, stop)
    \/ \E c \in Calls :
          \/ \E t \in Turns : ToolCall(c, t)
          \/ ToolCallRepeated(c)
          \/ Progress(c)
          \/ \E status \in Ended, async \in {"none"} \cup Terminal : Returns(c, status, async)
          \/ DispatchesJobs(c)
          \/ \E async \in Terminal : JobsEnd(c, async)
          \/ Aborted(c)

Spec == Init /\ [][Next]_vars

\* OMP gives up or returns its calls, and answers its prompts.
FairSpec ==
    /\ Spec
    /\ \A c \in Calls : WF_vars(Aborted(c))
    /\ \A t \in Turns : WF_vars(\E stop \in {"end_turn", "cancelled", "error"} : TurnAnswered(t, stop))

-----------------------------------------------------------------------------
(* Properties.                                                               *)

Tracked == {subagents[c].id : c \in DOMAIN subagents}

\* The pane, the registry behind subagent/list_running and the answer of
\* subagent/cancel agree: a row runs as long as its subagent is tracked, and a
\* row that ended is answered already_finished with the status it shows.
RowsAgree ==
    /\ Tracked \cap DOMAIN finished = {}
    /\ {x \in DOMAIN rows : rows[x].status = "running"} = Tracked
    /\ \A x \in DOMAIN rows \ Tracked : x \in DOMAIN finished /\ finished[x] = rows[x].status

\* A subagent is reported finished once: neither the second of two terminal
\* updates nor the turn's end changes what a row ended with.
FinishIsFinal ==
    [][\A x \in DOMAIN rows :
         rows[x].status # "running" /\ x \in DOMAIN rows' => rows'[x] = rows[x]]_vars

\* "the subagent genuinely outlives the turn" (adapter.mjs:2669): while the
\* jobs of a task run at OMP its row runs, although the call has returned and
\* whatever turns end meanwhile.  (In the first session: once it was left, its
\* frames are tracked with the turns of another.)
RunsWhileJobsRun ==
    left = 0 => \A x \in DOMAIN rows : call[rows[x].call].job = "running" => rows[x].status = "running"

\* A subagent that was given up without an update is not left running for
\* ever: within a session some turn's end finishes it, or a switch drops it.
GivenUpEnds ==
    \A c \in Calls :
        (c \in DOMAIN subagents /\ call[c].phase = "aborted" /\ left = 0) ~> (c \notin DOMAIN subagents)

\* "a tracked subagent whose tool_call never produced a terminal update
\* (dropped frame, aborted batch) is finished with the turn" (adapter.mjs:2666).
FinishedWithTurn ==
    \A c \in DOMAIN subagents : subagents[c].async = "none" => call[c].turn \in sent
=============================================================================
