---------------------------- MODULE VibeWorkers ----------------------------
(***************************************************************************)
(* Vibe worker synthesis of the bridge (src/bridge/adapter.mjs).  A worker *)
(* of OMP's vibe mode lives across turns; the adapter learns about it over *)
(* two channels that are not ordered with each other: updates of vibe tool *)
(* calls on the wire (the roster's screens, a spawn, a kill), and the      *)
(* lifecycle entries of the session file, which the tailer polls.  From    *)
(* both it keeps a record per worker and makes up the pager's rows.  A     *)
(* session switch drops the records; a load replays the file's entries.    *)
(*                                                                         *)
(* Everything is kept per worker; counters, names and outputs are left     *)
(* out.                                                                    *)
(***************************************************************************)
EXTENDS Integers, Sequences

CONSTANTS
    Workers,
    MaxLog,      \* bound: lifecycle entries
    MaxWire,     \* bound: updates sent
    MaxSwitch,   \* bound: session switches
    WireFirst    \* the wire outruns the poll: an entry is read only after the
                 \* updates sent before it was written

ASSUME VibeConstants ==
    /\ MaxLog \in Nat /\ MaxWire \in Nat /\ MaxSwitch \in Nat
    /\ WireFirst \in BOOLEAN
    /\ "no worker" \notin Workers

VARIABLES
    worker,  \* id -> the adapter's record, finishedSubagents entry, pager row
    wire,    \* updates under way: [screens, spawned, killed, stamp]
    log,     \* lifecycle entries in the session file: [id, action, reason]
    read,    \* entries read of them
    here,    \* the session is the current one
    truth,   \* OMP: what the worker is
    nsent, nswitch

vars == <<worker, wire, log, read, here, truth, nsent, nswitch>>

\* "no" stands for null and for an absent key of finishedSubagents.
NoRecord == [known |-> FALSE, finished |-> "no", source |-> "no", mark |-> "no", row |-> "none"]

-----------------------------------------------------------------------------
(* The adapter: each operator maps what is kept of one worker.               *)

\* Defect: the stale mark stays.
ensureVibeWorker_Shadowed(s) ==
    IF s.known THEN s
    ELSE [known |-> TRUE, finished |-> "no", source |-> "no", mark |-> s.mark, row |-> "running"]

\* ensureVibeWorker with the spawned frame that each caller sends for a worker
\* that was not known.
ensureVibeWorker(s) ==
    IF s.known THEN s
    ELSE [known |-> TRUE, finished |-> "no", source |-> "no", mark |-> "no", row |-> "running"]

\* Defect: the first to report a finish wins.
finishVibeWorker_FirstWins(s, status, source) ==
    LET e == ensureVibeWorker(s)
    IN  IF e.finished # "no" THEN e
        ELSE [e EXCEPT !.finished = status, !.source = source, !.mark = status, !.row = status]

\* finishVibeWorker: only the lifecycle log corrects a finish, and not its own.
finishVibeWorker(s, status, source) ==
    LET e == ensureVibeWorker(s)
    IN  IF e.finished # "no" /\ ~(source = "lifecycle" /\ e.source # "lifecycle") THEN e
        ELSE [e EXCEPT !.finished = status, !.source = source, !.mark = status, !.row = status]

\* A screen of the roster.
observeScreen(s, state) ==
    IF state = "dead"
    THEN IF s.known /\ s.finished # "no" THEN s ELSE finishVibeWorker(s, "cancelled", "screen")
    ELSE ensureVibeWorker(s)

\* observeVibeToolUpdate: the spawn, then the roster, then the kill.
observeVibeToolUpdate(s, u, w) ==
    LET spawned == IF w = u.spawned THEN ensureVibeWorker(s) ELSE s
        screened == IF w \in DOMAIN u.screens THEN observeScreen(spawned, u.screens[w]) ELSE spawned
    IN  IF w = u.killed THEN finishVibeWorker(screened, "cancelled", "kill") ELSE screened

ByReason(reason) == IF reason \in {"explicit-kill", "mode-exit"} THEN "cancelled" ELSE "failed"

\* observeVibeLifecycle.
observeVibeLifecycle(s, e) ==
    CASE e.action \in {"spawn", "turn-started", "turn-settled"} -> ensureVibeWorker(s)
      [] e.action = "tombstone" -> finishVibeWorker(s, ByReason(e.reason), "lifecycle")
      [] e.action = "tombstone-revoked" /\ s.known /\ s.finished # "no" ->
            [s EXCEPT !.finished = "no", !.source = "no", !.mark = "no", !.row = "running"]
      [] OTHER -> s

\* resetQueue: the records go, a live one leaves the mark cancelled.
resetQueue(s) ==
    [NoRecord EXCEPT !.mark = IF s.known /\ s.finished = "no" THEN "cancelled" ELSE s.mark,
                     !.row = s.row]

\* The entries of the file, replayed by the plan of a load.
Replayed(w) ==
    LET after[k \in 0 .. Len(log)] ==
            IF k = 0 THEN [worker[w] EXCEPT !.row = "none"]
            ELSE IF log[k].id = w THEN observeVibeLifecycle(after[k - 1], log[k]) ELSE after[k - 1]
    IN  after[Len(log)]

-----------------------------------------------------------------------------
HandleUpdate ==
    /\ wire # <<>>
    /\ wire' = Tail(wire)
    /\ worker' = [w \in Workers |-> observeVibeToolUpdate(worker[w], Head(wire), w)]
    /\ UNCHANGED <<log, read, here, truth, nsent, nswitch>>

\* The tailer reads the next entry.
ReadEntry ==
    /\ here /\ read < Len(log)
    /\ WireFirst => \A i \in 1 .. Len(wire) : wire[i].stamp > read
    /\ read' = read + 1
    /\ worker' = [worker EXCEPT ![log[read + 1].id] = observeVibeLifecycle(@, log[read + 1])]
    /\ UNCHANGED <<wire, log, here, truth, nsent, nswitch>>

\* Another session becomes the current one; the pager shows its rows.
LeaveSession ==
    /\ here /\ nswitch < MaxSwitch
    /\ nswitch' = nswitch + 1
    /\ here' = FALSE
    /\ worker' = [w \in Workers |-> [resetQueue(worker[w]) EXCEPT !.row = "none"]]
    /\ UNCHANGED <<wire, log, read, truth, nsent>>

\* The session is loaded again: the plan replays every entry, before the
\* response that resets the queue; the tailer starts behind them.
LoadSession ==
    /\ ~here
    /\ here' = TRUE
    /\ worker' = [w \in Workers |-> resetQueue(Replayed(w))]
    /\ read' = Len(log)
    /\ UNCHANGED <<wire, log, truth, nsent, nswitch>>

-----------------------------------------------------------------------------
(* OMP.                                                                      *)

Roster(t) == [w \in {x \in Workers : t[x] # "none"} |-> IF t[w] = "live" THEN "live" ELSE "dead"]
Update(t, spawned, killed, stamp) ==
    [screens |-> Roster(t), spawned |-> spawned, killed |-> killed, stamp |-> stamp]

\* An entry is written, and a tool call tells, or no call is under way.
Happens(w, state, action, reason, spawned, killed) ==
    /\ Len(log) < MaxLog
    /\ truth' = [truth EXCEPT ![w] = state]
    /\ log' = Append(log, [id |-> w, action |-> action, reason |-> reason])
    /\ \/ UNCHANGED <<wire, nsent>>
       \/ /\ nsent < MaxWire
          /\ nsent' = nsent + 1
          /\ wire' = Append(wire, Update(truth', spawned, killed, Len(log')))
    /\ UNCHANGED <<worker, read, here, nswitch>>

NoWorker == "no worker"

Spawn(w) ==
    /\ truth[w] = "none"
    /\ Happens(w, "live", "spawn", "", w, NoWorker)

Turn(w) ==
    /\ truth[w] = "live"
    /\ Happens(w, "live", "turn-settled", "", NoWorker, NoWorker)

Kill(w) ==
    /\ truth[w] = "live"
    /\ Happens(w, "killed", "tombstone", "explicit-kill", NoWorker, w)

Fail(w, reason) ==
    /\ truth[w] = "live"
    /\ Happens(w, "failed", "tombstone", reason, NoWorker, NoWorker)

\* The mode is left, and entered again.
ModeExit(w) ==
    /\ truth[w] = "live"
    /\ Happens(w, "parked", "tombstone", "mode-exit", NoWorker, NoWorker)

Revive(w) ==
    /\ truth[w] = "parked"
    /\ Happens(w, "live", "tombstone-revoked", "", NoWorker, NoWorker)

\* vibe_wait reports the roster.
Report ==
    /\ nsent < MaxWire
    /\ nsent' = nsent + 1
    /\ wire' = Append(wire, Update(truth, NoWorker, NoWorker, Len(log)))
    /\ UNCHANGED <<worker, log, read, here, truth, nswitch>>

-----------------------------------------------------------------------------
Init ==
    /\ worker = [w \in Workers |-> NoRecord]
    /\ wire = <<>>
    /\ log = <<>>
    /\ read = 0
    /\ here = TRUE
    /\ truth = [w \in Workers |-> "none"]
    /\ nsent = 0
    /\ nswitch = 0

Next ==
    \/ HandleUpdate
    \/ ReadEntry
    \/ LeaveSession
    \/ LoadSession
    \/ Report
    \/ \E w \in Workers :
          \/ Spawn(w) \/ Turn(w) \/ Kill(w) \/ ModeExit(w) \/ Revive(w)
          \/ \E reason \in {"spawn-failed", "unrecoverable"} : Fail(w, reason)

Spec == Init /\ [][Next]_vars

-----------------------------------------------------------------------------
(* Properties.                                                               *)

\* What subagent/list_running lists, subagent/cancel does not call finished;
\* and a worker that finished is answered with the status on record, over every
\* order of the two channels and over session switches.
AnswersAgree ==
    \A w \in Workers : worker[w].known => worker[w].mark = worker[w].finished

Expected == [none |-> "none", live |-> "running", killed |-> "cancelled",
             failed |-> "failed", parked |-> "cancelled"]

\* When both channels are drained, every row shows what became of its worker:
\* the screens' guess is corrected by the tombstone's reason, and a worker that
\* came back runs.
TruthShown ==
    (wire = <<>> /\ read = Len(log) /\ nswitch = 0) =>
        \A w \in Workers : worker[w].row = Expected[truth[w]]

\* "lifecycle entries are the durable roster across resume" (specs/vibe-mode.md),
\* "A stale finished mark (session switch, prior tombstone) must not shadow a
\* worker the roster says is live" (adapter.mjs:2719): once its entries are read,
\* a worker that lives at OMP is on record as running.
KnownAcrossResume ==
    (here /\ read = Len(log)) =>
        \A w \in Workers : truth[w] = "live" =>
            worker[w].known /\ worker[w].finished = "no" /\ worker[w].mark = "no"
=============================================================================
