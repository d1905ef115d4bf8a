------------------------- MODULE VibeWorkersProofs -------------------------
(***************************************************************************)
(* AnswersAgree for every set of workers and every bound.  It is inductive *)
(* per worker once it also says what a known record looks like: each       *)
(* operator of the adapter that maps what is kept of one worker keeps      *)
(* Agrees, and a step applies one of them to each worker.  A load needs no *)
(* induction over the file: whatever was replayed, the reset that follows  *)
(* leaves no record.                                                       *)
(***************************************************************************)
EXTENDS VibeWorkers, TLAPS

-----------------------------------------------------------------------------
(* What makes TruthShown inductive.                                          *)

States == {"none", "live", "killed", "failed", "parked"}
Dead == {"killed", "failed", "parked"}

\* What an entry makes of its worker.
Legal(before, e, after) ==
    \/ before = "none" /\ e.action = "spawn" /\ after = "live"
    \/ before = "live" /\ e.action = "turn-settled" /\ after = "live"
    \/ before = "live" /\ e.action = "tombstone" /\ after \in Dead /\ ByReason(e.reason) = Expected[after]
    \/ before = "parked" /\ e.action = "tombstone-revoked" /\ after = "live"

\* h tells what each worker was after each entry of the file f.
Chronicle(h, f, now) ==
    /\ h \in [0 .. Len(f) -> [Workers -> States]]
    /\ h[Len(f)] = now
    /\ \A i \in 1 .. Len(f) :
          /\ f[i].id \in Workers
          /\ Legal(h[i - 1][f[i].id], f[i], h[i][f[i].id])
          /\ \A v \in Workers \ {f[i].id} : h[i][v] = h[i - 1][v]

\* An update tells of the file as it was at its stamp, which is not behind what
\* was read.
Told(h, u, from, to) ==
    /\ u.stamp \in from .. to
    /\ \A w \in Workers :
          /\ w \in DOMAIN u.screens <=> h[u.stamp][w] # "none"
          /\ w \in DOMAIN u.screens => (u.screens[w] = "dead" <=> h[u.stamp][w] \in Dead)
          /\ u.spawned = w => h[u.stamp][w] = "live"
          /\ u.killed = w => h[u.stamp][w] = "killed"

Running == [known |-> TRUE, finished |-> "no", source |-> "no", mark |-> "no", row |-> "running"]
Finished(status, source) ==
    [known |-> TRUE, finished |-> status, source |-> source, mark |-> status, row |-> status]

\* What is kept of w when the entries up to `from' were read: what the log says,
\* or a guess of the wire that an entry still to be read will settle.
Shown(h, s, w, from, to) ==
    \/ s = NoRecord /\ h[from][w] = "none"
    \/ s = Running /\ h[from][w] = "live"
    \/ s = Running /\ h[from][w] = "none" /\ \E k \in from + 1 .. to : h[k][w] # "none"
    \/ /\ s = Finished("cancelled", "screen") \/ s = Finished("cancelled", "kill")
       /\ h[from][w] \in {"none", "live"}
       /\ \E k \in from + 1 .. to : h[k][w] \in Dead
    \/ h[from][w] \in Dead /\ s = Finished(Expected[h[from][w]], "lifecycle")

\* Until the session is left, one history explains the file, the wire and the rows.
Explains(h) ==
    /\ Chronicle(h, log, truth)
    /\ \A i \in 1 .. Len(wire) : Told(h, wire[i], read, Len(log))
    /\ \A w \in Workers : Shown(h, worker[w], w, read, Len(log))

\* A record on file carries the same status as its mark.
Form(s, status, source, row) ==
    /\ s.known
    /\ s = [known |-> s.known, finished |-> status, source |-> source, mark |-> status, row |-> row]
Agrees(s) == s.known => \E status, source, row : Form(s, status, source, row)

\* The strengthening of AnswersAgree.
Kept ==
    /\ worker = [w \in Workers |-> worker[w]]
    /\ \A w \in Workers : Agrees(worker[w])

\* What is written over a record of that form has that form.
LEMMA Overwritten ==
    ASSUME NEW s, NEW st, NEW so, NEW row, Form(s, st, so, row),
           NEW status, NEW source, NEW shows
    PROVE  Form([s EXCEPT !.finished = status, !.source = source, !.mark = status, !.row = shows],
                status, source, shows)
<1> DEFINE d == [s EXCEPT !.finished = status, !.source = source, !.mark = status, !.row = shows]
           Names == {"known", "finished", "source", "mark", "row"}
<1>1. s = [known |-> s.known, finished |-> st, source |-> so, mark |-> st, row |-> row]
  BY DEF Form
<1>2. DOMAIN s = Names
  BY <1>1
<1>3. d = [x \in Names |-> IF x = "row" THEN shows ELSE IF x = "mark" THEN status
                          ELSE IF x = "source" THEN source ELSE IF x = "finished" THEN status ELSE s[x]]
  BY <1>2
<1>4. [known |-> s.known, finished |-> status, source |-> source, mark |-> status, row |-> shows]
       = [x \in Names |-> IF x = "row" THEN shows ELSE IF x = "mark" THEN status
                          ELSE IF x = "source" THEN source ELSE IF x = "finished" THEN status ELSE s[x]]
  BY <1>2
<1>5. d.known = s.known
  BY <1>3
<1> QED
  BY <1>3, <1>4, <1>5 DEF Form

\* ensureVibeWorker leaves a known record, and a consistent one.
LEMMA EnsureForm ==
    ASSUME NEW s, Agrees(s)
    PROVE  \E status, source, row : Form(ensureVibeWorker(s), status, source, row)
<1>1. CASE s.known
  BY <1>1 DEF Agrees, ensureVibeWorker
<1>2. CASE ~s.known
  <2>1. Form(ensureVibeWorker(s), "no", "no", "running")
    BY <1>2 DEF ensureVibeWorker, Form
  <2> QED
    BY <2>1
<1> QED
  BY <1>1, <1>2

\* finishVibeWorker leaves a consistent record, whatever it is told by whom.
LEMMA FinishForm ==
    ASSUME NEW s, Agrees(s), NEW status, NEW source
    PROVE  \E st, so, row : Form(finishVibeWorker(s, status, source), st, so, row)
<1> DEFINE e == ensureVibeWorker(s)
           d == [e EXCEPT !.finished = status, !.source = source, !.mark = status, !.row = status]
<1>1. PICK st, so, row : Form(e, st, so, row)
  BY EnsureForm
<1>2. finishVibeWorker(s, status, source) = e \/ finishVibeWorker(s, status, source) = d
  BY DEF finishVibeWorker
<1> HIDE DEF e
<1>3. Form(d, status, source, status)
  BY <1>1, Overwritten
<1> HIDE DEF d
<1> QED
  BY <1>1, <1>2, <1>3

\* A record of that form is consistent.
LEMMA FormAgrees ==
    ASSUME NEW s, \E status, source, row : Form(s, status, source, row)
    PROVE  Agrees(s)
  BY DEF Agrees

\* A screen leaves a consistent record.
LEMMA ScreenAgrees ==
    ASSUME NEW s, Agrees(s), NEW state
    PROVE  Agrees(observeScreen(s, state))
<1>1. Agrees(finishVibeWorker(s, "cancelled", "screen"))
  BY FinishForm, FormAgrees
<1>2. Agrees(ensureVibeWorker(s))
  BY EnsureForm, FormAgrees
<1> QED
  BY <1>1, <1>2 DEF observeScreen

\* A roster update leaves a consistent record.
LEMMA UpdateAgrees ==
    ASSUME NEW s, Agrees(s), NEW u, NEW w
    PROVE  Agrees(observeVibeToolUpdate(s, u, w))
<1> DEFINE spawned == IF w = u.spawned THEN ensureVibeWorker(s) ELSE s
           screened == IF w \in DOMAIN u.screens THEN observeScreen(spawned, u.screens[w]) ELSE spawned
<1>1. Agrees(spawned)
  BY EnsureForm, FormAgrees
<1>2. observeVibeToolUpdate(s, u, w)
        = IF w = u.killed THEN finishVibeWorker(screened, "cancelled", "kill") ELSE screened
  BY DEF observeVibeToolUpdate
<1> HIDE DEF spawned
<1>3. Agrees(observeScreen(spawned, u.screens[w]))
  BY <1>1, ScreenAgrees
<1>4. Agrees(screened)
  BY <1>1, <1>3
<1> HIDE DEF screened
<1>5. Agrees(finishVibeWorker(screened, "cancelled", "kill"))
  BY <1>4, FinishForm, FormAgrees
<1> QED
  BY <1>2, <1>4, <1>5

\* A lifecycle entry leaves a consistent record.
LEMMA LifecycleAgrees ==
    ASSUME NEW s, Agrees(s), NEW e
    PROVE  Agrees(observeVibeLifecycle(s, e))
<1> DEFINE back == [s EXCEPT !.finished = "no", !.source = "no", !.mark = "no", !.row = "running"]
<1>1. Agrees(ensureVibeWorker(s))
  BY EnsureForm, FormAgrees
<1>2. Agrees(finishVibeWorker(s, ByReason(e.reason), "lifecycle"))
  BY FinishForm, FormAgrees
<1>3. ASSUME s.known PROVE Agrees(back)
  <2>1. PICK st, so, row : Form(s, st, so, row)
    BY <1>3 DEF Agrees
  <2>2. Form(back, "no", "no", "running")
    BY <2>1, Overwritten
  <2> HIDE DEF back
  <2> QED
    BY <2>2, FormAgrees
<1> HIDE DEF back
<1>4. CASE e.action \in {"spawn", "turn-started", "turn-settled"}
  BY <1>1, <1>4 DEF observeVibeLifecycle
<1>5. CASE e.action = "tombstone"
  BY <1>2, <1>5 DEF observeVibeLifecycle
<1>6. CASE e.action = "tombstone-revoked" /\ s.known /\ s.finished # "no"
  BY <1>3, <1>6 DEF observeVibeLifecycle, back
<1>7. CASE /\ e.action \notin {"spawn", "turn-started", "turn-settled"}
           /\ e.action # "tombstone"
           /\ ~(e.action = "tombstone-revoked" /\ s.known /\ s.finished # "no")
  BY <1>7 DEF observeVibeLifecycle
<1> QED
  BY <1>4, <1>5, <1>6, <1>7

\* A reset leaves no record, whatever was there.
LEMMA ResetForgets ==
    ASSUME NEW s
    PROVE  /\ ~resetQueue(s).known
           /\ ~[resetQueue(s) EXCEPT !.row = "none"].known
  BY DEF resetQueue, NoRecord

\* No worker is on record at first.
LEMMA KeptInit == Init => Kept
<1> SUFFICES ASSUME Init PROVE Kept
  OBVIOUS
<1>1. worker = [w \in Workers |-> NoRecord]
  BY DEF Init
<1>2. ~NoRecord.known
  BY DEF NoRecord
<1> QED
  BY <1>1, <1>2 DEF Kept, Agrees

\* Every step applies operators that keep Agrees.
LEMMA KeptNext == Kept /\ [Next]_vars => Kept'
<1> SUFFICES ASSUME Kept, [Next]_vars PROVE Kept'
  OBVIOUS
<1> USE DEF Kept
<1>1. CASE HandleUpdate
  <2>1. worker' = [w \in Workers |-> observeVibeToolUpdate(worker[w], Head(wire), w)]
    BY <1>1 DEF HandleUpdate
  <2>2. \A w \in Workers : Agrees(observeVibeToolUpdate(worker[w], Head(wire), w))
    BY UpdateAgrees
  <2> QED
    BY <2>1, <2>2
<1>2. CASE ReadEntry
  <2> DEFINE e == log[read + 1]
  <2>1. worker' = [worker EXCEPT ![e.id] = observeVibeLifecycle(worker[e.id], e)]
    BY <1>2 DEF ReadEntry
  <2>2. \A w \in Workers : Agrees(observeVibeLifecycle(worker[w], e))
    BY LifecycleAgrees
  <2> HIDE DEF e
  <2>3. worker' = [w \in Workers |-> IF w = e.id THEN observeVibeLifecycle(worker[e.id], e) ELSE worker[w]]
    BY <2>1
  <2> QED
    BY <2>2, <2>3
<1>3. CASE LeaveSession
  <2>1. worker' = [w \in Workers |-> [resetQueue(worker[w]) EXCEPT !.row = "none"]]
    BY <1>3 DEF LeaveSession
  <2>2. \A w \in Workers : Agrees([resetQueue(worker[w]) EXCEPT !.row = "none"])
    BY ResetForgets DEF Agrees
  <2> QED
    BY <2>1, <2>2
<1>4. CASE LoadSession
  <2>1. worker' = [w \in Workers |-> resetQueue(Replayed(w))]
    BY <1>4 DEF LoadSession
  <2>2. \A w \in Workers : Agrees(resetQueue(Replayed(w)))
    BY ResetForgets DEF Agrees
  <2> QED
    BY <2>1, <2>2
<1>5. CASE Report
  BY <1>5 DEF Report
<1>6. ASSUME NEW w \in Workers,
             \/ Spawn(w) \/ Turn(w) \/ Kill(w) \/ ModeExit(w) \/ Revive(w)
             \/ \E reason \in {"spawn-failed", "unrecoverable"} : Fail(w, reason)
      PROVE  Kept'
  <2>1. worker' = worker
    BY <1>6 DEF Spawn, Turn, Kill, ModeExit, Revive, Fail, Happens
  <2> QED
    BY <2>1
<1>7. CASE UNCHANGED vars
  BY <1>7 DEF vars
<1> QED
  BY <1>1, <1>2, <1>3, <1>4, <1>5, <1>6, <1>7 DEF Next

\* For every set of workers, subagent/list_running and subagent/cancel never
\* contradict each other about a worker, in whatever order the wire and the
\* session file are read and across session switches.
THEOREM AnswersNeverContradict == Spec => []AnswersAgree
<1>1. Kept => AnswersAgree
  <2> SUFFICES ASSUME Kept, NEW w \in Workers, worker[w].known
               PROVE  worker[w].mark = worker[w].finished
    BY DEF AnswersAgree
  <2>1. PICK st, so, row : Form(worker[w], st, so, row)
    BY DEF Kept, Agrees
  <2> QED
    BY <2>1 DEF Form
<1> QED
  BY <1>1, KeptInit, KeptNext, PTL DEF Spec

-----------------------------------------------------------------------------
(***************************************************************************)
(* TruthShown, where the wire outruns the poll.  A record is one of five,  *)
(* and each operator takes one of them to another.                         *)
(***************************************************************************)
LEMMA Records ==
    ASSUME NEW status, NEW source
    PROVE  /\ ~NoRecord.known /\ NoRecord.row = "none"
           /\ Running.known /\ Running.finished = "no" /\ Running.row = "running"
           /\ Finished(status, source).known /\ Finished(status, source).finished = status
           /\ Finished(status, source).source = source /\ Finished(status, source).row = status
BY DEF NoRecord, Running, Finished

LEMMA Ensured ==
    /\ ensureVibeWorker(NoRecord) = Running
    /\ ensureVibeWorker(Running) = Running
    /\ \A status, source : ensureVibeWorker(Finished(status, source)) = Finished(status, source)
<1>1. ensureVibeWorker(NoRecord) = Running
  BY DEF ensureVibeWorker, NoRecord, Running
<1>2. ensureVibeWorker(Running) = Running
  BY DEF ensureVibeWorker, Running
<1>3. ASSUME NEW status, NEW source
      PROVE  ensureVibeWorker(Finished(status, source)) = Finished(status, source)
  BY DEF ensureVibeWorker, Finished
<1> QED
  BY <1>1, <1>2, <1>3

\* What is written over a record is the record of what is written.
Record(known, status, source, row) ==
    [known |-> known, finished |-> status, source |-> source, mark |-> status, row |-> row]
Written(s, status, source, row) ==
    [s EXCEPT !.finished = status, !.source = source, !.mark = status, !.row = row]

LEMMA RecordOver ==
    ASSUME NEW known, NEW st, NEW so, NEW r, NEW status, NEW source, NEW shows
    PROVE  Written(Record(known, st, so, r), status, source, shows)
             = Record(known, status, source, shows)
<1> DEFINE Names == {"known", "finished", "source", "mark", "row"}
           s == Record(known, st, so, r)
           f == [x \in Names |-> IF x = "row" THEN shows ELSE IF x = "mark" THEN status
                                 ELSE IF x = "source" THEN source
                                 ELSE IF x = "finished" THEN status ELSE s[x]]
<1>1. DOMAIN s = Names /\ s["known"] = known
  BY DEF Record
<1> HIDE DEF s
<1>2. Written(s, status, source, shows) = f
  BY <1>1 DEF Written
<1>3. Record(known, status, source, shows) = f
  BY <1>1 DEF Record
<1> QED
  BY <1>2, <1>3 DEF s

LEMMA WrittenOver ==
    ASSUME NEW st, NEW so, NEW status, NEW source
    PROVE  /\ Written(Running, status, source, status) = Finished(status, source)
           /\ Written(Finished(st, so), status, source, status) = Finished(status, source)
           /\ Written(Finished(st, so), "no", "no", "running") = Running
<1> DEFINE yes == TRUE
<1>1. Running = Record(yes, "no", "no", "running")
  BY Zenon DEF Running, Record
<1>2. \A x, y : Finished(x, y) = Record(yes, x, y, x)
  BY Zenon DEF Finished, Record
<1> HIDE DEF yes
<1>3. Written(Running, status, source, status) = Record(yes, status, source, status)
  BY <1>1, RecordOver
<1>4. Written(Finished(st, so), status, source, status) = Record(yes, status, source, status)
  BY <1>2, RecordOver
<1>5. Written(Finished(st, so), "no", "no", "running") = Record(yes, "no", "no", "running")
  BY <1>2, RecordOver
<1> QED
  BY <1>1, <1>2, <1>3, <1>4, <1>5, Zenon

LEMMA FinishedAs ==
    ASSUME NEW status, NEW source
    PROVE  /\ finishVibeWorker(NoRecord, status, source) = Finished(status, source)
           /\ finishVibeWorker(Running, status, source) = Finished(status, source)
           /\ \A st, so : st # "no" => finishVibeWorker(Finished(st, so), status, source) =
                 IF source = "lifecycle" /\ so # "lifecycle" THEN Finished(status, source)
                 ELSE Finished(st, so)
<1>1. ASSUME NEW s, ensureVibeWorker(s) = Running
      PROVE  finishVibeWorker(s, status, source) = Finished(status, source)
  <2>1. Running.finished = "no"
    BY Records
  <2> QED
    BY <1>1, <2>1, WrittenOver DEF finishVibeWorker, Written
<1>2. ASSUME NEW st, NEW so, st # "no"
      PROVE  finishVibeWorker(Finished(st, so), status, source) =
               IF source = "lifecycle" /\ so # "lifecycle" THEN Finished(status, source)
               ELSE Finished(st, so)
  <2> DEFINE e == Finished(st, so)
  <2>1. ensureVibeWorker(e) = e /\ e.finished # "no" /\ e.source = so
    <3>1. e.finished = st /\ e.source = so
      BY Records
    <3>2. ensureVibeWorker(e) = e
      BY Ensured
    <3> QED
      BY <1>2, <3>1, <3>2
  <2>2. Written(e, status, source, status) = Finished(status, source)
    BY WrittenOver
  <2> HIDE DEF e
  <2>3. finishVibeWorker(e, status, source) =
          IF source = "lifecycle" /\ so # "lifecycle" THEN Finished(status, source) ELSE e
    BY <2>1, <2>2 DEF finishVibeWorker, Written
  <2> QED
    BY <2>3 DEF e
<1> QED
  BY <1>1, <1>2, Ensured

-----------------------------------------------------------------------------
(***************************************************************************)
(* An update of the wire.                                                  *)
(***************************************************************************)
\* A worker the update says lives is on record, if only as a guess.
LEMMA ShownEnsure ==
    ASSUME NEW h, NEW s, NEW w, NEW from \in Nat, NEW to \in Nat, NEW k \in from .. to,
           Shown(h, s, w, from, to), h[k][w] # "none"
    PROVE  Shown(h, ensureVibeWorker(s), w, from, to)
<1>1. CASE s = NoRecord /\ h[from][w] = "none"
  <2>1. k \in from + 1 .. to
    BY <1>1
  <2>2. ensureVibeWorker(s) = Running
    BY <1>1, Ensured
  <2> QED
    BY <1>1, <2>1, <2>2 DEF Shown
<1>2. CASE s # NoRecord
  <2>1. s = Running \/ \E status, source : s = Finished(status, source)
    BY <1>2 DEF Shown
  <2>2. ensureVibeWorker(s) = s
    BY <2>1, Ensured
  <2> QED
    BY <2>2
<1>3. "none" \notin Dead
  BY DEF Dead
<1>4. s = NoRecord => h[from][w] = "none"
  <2>1. \A status, source : Finished(status, source) # NoRecord
    BY Records
  <2>2. Running # NoRecord
    BY Records
  <2> QED
    BY <2>1, <2>2 DEF Shown
<1> QED
  BY <1>1, <1>2, <1>4

\* A worker the update says is dead is finished, by the log or as a guess.
LEMMA ShownFinish ==
    ASSUME NEW h, NEW s, NEW w, NEW from \in Nat, NEW to \in Nat, NEW k \in from .. to,
           Shown(h, s, w, from, to), h[k][w] \in Dead, NEW source \in {"screen", "kill"}
    PROVE  Shown(h, finishVibeWorker(s, "cancelled", source), w, from, to)
<1>1. "none" \notin Dead /\ "live" \notin Dead
  BY DEF Dead
<1>2. CASE (s = NoRecord \/ s = Running) /\ h[from][w] \in {"none", "live"}
  <2>1. k \in from + 1 .. to
    <3>1. k # from
      BY <1>1, <1>2
    <3> QED
      BY <3>1
  <2>2. finishVibeWorker(s, "cancelled", source) = Finished("cancelled", source)
    BY <1>2, FinishedAs
  <2> QED
    BY <1>2, <2>1, <2>2 DEF Shown
<1>3. CASE \E st, so : s = Finished(st, so) /\ st # "no"
  <2>1. source # "lifecycle"
    OBVIOUS
  <2>2. finishVibeWorker(s, "cancelled", source) = s
    BY <1>3, <2>1, FinishedAs
  <2> QED
    BY <2>2
<1>4. \A x \in Dead : Expected[x] # "no"
  BY DEF Dead, Expected
<1> QED
  BY <1>2, <1>3, <1>4 DEF Shown

\* What an update of the wire makes of a worker's record is explained again.
LEMMA ShownUpdate ==
    ASSUME NEW h, NEW s, NEW w \in Workers, NEW from \in Nat, NEW to \in Nat, NEW u,
           Shown(h, s, w, from, to), Told(h, u, from, to)
    PROVE  Shown(h, observeVibeToolUpdate(s, u, w), w, from, to)
<1> DEFINE spawned == IF w = u.spawned THEN ensureVibeWorker(s) ELSE s
           screened == IF w \in DOMAIN u.screens THEN observeScreen(spawned, u.screens[w]) ELSE spawned
           k == u.stamp
<1>1. /\ k \in from .. to
      /\ w \in DOMAIN u.screens => h[k][w] # "none"
      /\ w \in DOMAIN u.screens => (u.screens[w] = "dead" <=> h[k][w] \in Dead)
      /\ u.spawned = w => h[k][w] = "live"
      /\ u.killed = w => h[k][w] = "killed"
  BY DEF Told
<1>2. Shown(h, spawned, w, from, to)
  BY <1>1, ShownEnsure
<1>3. observeVibeToolUpdate(s, u, w)
        = IF w = u.killed THEN finishVibeWorker(screened, "cancelled", "kill") ELSE screened
  BY DEF observeVibeToolUpdate
<1> HIDE DEF spawned, k
<1>4. Shown(h, screened, w, from, to)
  <2>1. CASE w \notin DOMAIN u.screens
    BY <1>2, <2>1
  <2>2. CASE w \in DOMAIN u.screens /\ u.screens[w] = "dead"
    <3>1. Shown(h, finishVibeWorker(spawned, "cancelled", "screen"), w, from, to)
      BY <1>1, <1>2, <2>2, ShownFinish
    <3> QED
      BY <1>2, <2>2, <3>1 DEF observeScreen
  <2>3. CASE w \in DOMAIN u.screens /\ u.screens[w] # "dead"
    <3>1. Shown(h, ensureVibeWorker(spawned), w, from, to)
      BY <1>1, <1>2, <2>3, ShownEnsure
    <3> QED
      BY <2>3, <3>1 DEF observeScreen
  <2> QED
    BY <2>1, <2>2, <2>3
<1> HIDE DEF screened
<1>5. u.killed = w => Shown(h, finishVibeWorker(screened, "cancelled", "kill"), w, from, to)
  BY <1>1, <1>4, ShownFinish DEF Dead
<1> QED
  BY <1>3, <1>4, <1>5

-----------------------------------------------------------------------------
(***************************************************************************)
(* An entry of the file.                                                   *)
(***************************************************************************)
\* The entry is the one the guess waited for, or leaves it waiting.
LEMMA ShownEntry ==
    ASSUME NEW h, NEW s, NEW w, NEW from \in Nat, NEW to \in Nat, from < to, NEW e,
           Shown(h, s, w, from, to), Legal(h[from][w], e, h[from + 1][w])
    PROVE  Shown(h, observeVibeLifecycle(s, e), w, from + 1, to)
<1>1. "none" \notin Dead /\ "live" \notin Dead /\ "parked" \in Dead
  BY DEF Dead
<1>2. \A k \in from + 1 .. to : k = from + 1 \/ k \in from + 2 .. to
  OBVIOUS
<1>3. CASE e.action \in {"spawn", "turn-settled"} /\ h[from][w] \in {"none", "live"}
           /\ h[from + 1][w] = "live"
  <2>1. observeVibeLifecycle(s, e) = ensureVibeWorker(s)
    BY <1>3 DEF observeVibeLifecycle
  <2>2. CASE s = NoRecord \/ s = Running
    <3>1. ensureVibeWorker(s) = Running
      BY <2>2, Ensured
    <3> QED
      BY <1>3, <2>1, <3>1 DEF Shown
  <2>3. CASE /\ s = Finished("cancelled", "screen") \/ s = Finished("cancelled", "kill")
             /\ \E k \in from + 1 .. to : h[k][w] \in Dead
    <3>1. ensureVibeWorker(s) = s
      BY <2>3, Ensured
    <3>2. \E k \in (from + 1) + 1 .. to : h[k][w] \in Dead
      BY <1>1, <1>2, <1>3, <2>3
    <3> QED
      BY <1>3, <2>1, <2>3, <3>1, <3>2 DEF Shown
  <2> QED
    BY <1>1, <1>3, <2>2, <2>3 DEF Shown
<1>4. CASE /\ e.action = "tombstone" /\ h[from][w] = "live"
           /\ h[from + 1][w] \in Dead /\ ByReason(e.reason) = Expected[h[from + 1][w]]
  <2> DEFINE status == ByReason(e.reason)
  <2>1. observeVibeLifecycle(s, e) = finishVibeWorker(s, status, "lifecycle")
    BY <1>4 DEF observeVibeLifecycle
  <2>2. s = Running \/ s = Finished("cancelled", "screen") \/ s = Finished("cancelled", "kill")
    BY <1>1, <1>4 DEF Shown
  <2>3. finishVibeWorker(s, status, "lifecycle") = Finished(status, "lifecycle")
    BY <2>2, FinishedAs
  <2> QED
    BY <1>4, <2>1, <2>3 DEF Shown
<1>5. CASE e.action = "tombstone-revoked" /\ h[from][w] = "parked" /\ h[from + 1][w] = "live"
  <2> DEFINE st == Expected[h[from][w]]
  <2>1. s = Finished(st, "lifecycle") /\ st # "no"
    BY <1>5 DEF Shown, Expected
  <2> HIDE DEF st
  <2>2. s.known /\ s.finished # "no"
    BY <2>1, Records
  <2>3. observeVibeLifecycle(s, e) = Written(s, "no", "no", "running")
    BY <1>5, <2>2 DEF observeVibeLifecycle, Written
  <2>4. observeVibeLifecycle(s, e) = Running
    BY <2>1, <2>3, WrittenOver
  <2> QED
    BY <1>5, <2>4 DEF Shown
<1> QED
  BY <1>3, <1>4, <1>5 DEF Legal

\* The entry of another worker changes nothing for w.
LEMMA ShownOther ==
    ASSUME NEW h, NEW s, NEW w, NEW from \in Nat, NEW to \in Nat, from < to,
           Shown(h, s, w, from, to), h[from + 1][w] = h[from][w]
    PROVE  Shown(h, s, w, from + 1, to)
<1>1. "none" \notin Dead /\ "live" \notin Dead
  BY DEF Dead
<1>2. \A k \in from + 1 .. to : k = from + 1 \/ k \in (from + 1) + 1 .. to
  OBVIOUS
<1>3. h[from][w] = "none" /\ (\E k \in from + 1 .. to : h[k][w] # "none") =>
        \E k \in (from + 1) + 1 .. to : h[k][w] # "none"
  BY <1>2
<1>4. h[from][w] \in {"none", "live"} /\ (\E k \in from + 1 .. to : h[k][w] \in Dead) =>
        \E k \in (from + 1) + 1 .. to : h[k][w] \in Dead
  BY <1>1, <1>2
<1> QED
  BY <1>3, <1>4 DEF Shown

-----------------------------------------------------------------------------
(***************************************************************************)
(* The steps.                                                              *)
(***************************************************************************)
Actions == {"spawn", "turn-settled", "tombstone", "tombstone-revoked"}
Reasons == {"", "explicit-kill", "mode-exit", "spawn-failed", "unrecoverable"}
Entry(w, action, reason) == [id |-> w, action |-> action, reason |-> reason]
Entries == [id: Workers, action: Actions, reason: Reasons]
Rosters == UNION {[W -> {"live", "dead"}] : W \in SUBSET Workers}
Updates == [screens: Rosters, spawned: Workers \cup {NoWorker}, killed: Workers \cup {NoWorker},
            stamp: Nat]

\* The strengthening of TruthShown.
Explained ==
    nswitch = 0 =>
        /\ here
        /\ log \in Seq(Entries) /\ wire \in Seq(Updates) /\ read \in 0 .. Len(log)
        /\ \E h : Explains(h)

\* An update tells what is so when it is sent.
LEMMA UpdateTells ==
    ASSUME NEW h, NEW t \in [Workers -> States], NEW n \in Nat, h[n] = t,
           NEW from \in 0 .. n,
           NEW spawned \in Workers \cup {NoWorker}, NEW killed \in Workers \cup {NoWorker},
           spawned \in Workers => t[spawned] = "live", killed \in Workers => t[killed] = "killed"
    PROVE  /\ Update(t, spawned, killed, n) \in Updates
           /\ Told(h, Update(t, spawned, killed, n), from, n)
<1> DEFINE u == Update(t, spawned, killed, n)
           on == {x \in Workers : t[x] # "none"}
<1>1. u.screens = Roster(t) /\ u.spawned = spawned /\ u.killed = killed /\ u.stamp = n
  BY DEF Update
<1>2. /\ Roster(t) = [w \in on |-> IF t[w] = "live" THEN "live" ELSE "dead"]
      /\ DOMAIN Roster(t) = on
      /\ \A w \in on : Roster(t)[w] = "dead" <=> t[w] # "live"
  BY DEF Roster
<1>3. Roster(t) \in [on -> {"live", "dead"}]
  BY <1>2
<1>4. u \in Updates
  <2>1. on \in SUBSET Workers
    OBVIOUS
  <2>2. Roster(t) \in Rosters
    BY <1>3, <2>1 DEF Rosters
  <2> QED
    BY <2>2 DEF Update, Updates
<1>5. \A w \in on : t[w] # "live" <=> t[w] \in Dead
  BY DEF States, Dead
<1>6. n \in from .. n
  OBVIOUS
<1> HIDE DEF u, on
<1>7. \A w \in Workers : w \in on <=> t[w] # "none"
  BY DEF on
<1>8. Told(h, u, from, n)
  <2>1. h[u.stamp] = t
    BY <1>1
  <2>2. ASSUME NEW w \in Workers
        PROVE  /\ w \in DOMAIN u.screens <=> t[w] # "none"
               /\ w \in DOMAIN u.screens => (u.screens[w] = "dead" <=> t[w] \in Dead)
               /\ u.spawned = w => t[w] = "live"
               /\ u.killed = w => t[w] = "killed"
    <3>1. w \in DOMAIN u.screens <=> t[w] # "none"
      BY <1>1, <1>2, <1>7
    <3>2. w \in DOMAIN u.screens => (u.screens[w] = "dead" <=> t[w] \in Dead)
      BY <1>1, <1>2, <1>5
    <3> QED
      BY <1>1, <3>1, <3>2
  <2> QED
    BY <1>1, <1>6, <2>1, <2>2 DEF Told
<1> QED
  BY <1>4, <1>8 DEF u

\* What was shown and told stays so when the history goes on.
LEMMA HistoryGoesOn ==
    ASSUME NEW h, NEW g, NEW from \in Nat, NEW to \in Nat, from <= to,
           \A i \in 0 .. to : g[i] = h[i]
    PROVE  /\ \A s, w : Shown(h, s, w, from, to) => Shown(g, s, w, from, to + 1)
           /\ \A u : Told(h, u, from, to) => Told(g, u, from, to + 1)
<1>1. g[from] = h[from]
  OBVIOUS
<1>2. \A k \in from + 1 .. to : k \in from + 1 .. to + 1 /\ g[k] = h[k]
  OBVIOUS
<1>3. ASSUME NEW s, NEW w, Shown(h, s, w, from, to)
      PROVE  Shown(g, s, w, from, to + 1)
  <2>1. (\E k \in from + 1 .. to : h[k][w] # "none") =>
          \E k \in from + 1 .. to + 1 : g[k][w] # "none"
    BY <1>2
  <2>2. (\E k \in from + 1 .. to : h[k][w] \in Dead) =>
          \E k \in from + 1 .. to + 1 : g[k][w] \in Dead
    BY <1>2
  <2> QED
    BY <1>1, <1>3, <2>1, <2>2 DEF Shown
<1>4. ASSUME NEW u, Told(h, u, from, to)
      PROVE  Told(g, u, from, to + 1)
  <2>1. u.stamp \in from .. to
    BY <1>4 DEF Told
  <2>2. u.stamp \in from .. to + 1 /\ g[u.stamp] = h[u.stamp]
    BY <2>1
  <2> QED
    BY <1>4, <2>2 DEF Told
<1> QED
  BY <1>3, <1>4

\* OMP writes an entry and perhaps tells.
LEMMA ExplainedHappens ==
    ASSUME Explained, NEW w \in Workers, NEW state \in States, NEW action \in Actions,
           NEW reason \in Reasons, NEW spawned \in Workers \cup {NoWorker},
           NEW killed \in Workers \cup {NoWorker},
           spawned \in Workers => spawned = w /\ state = "live",
           killed \in Workers => killed = w /\ state = "killed",
           Legal(truth[w], Entry(w, action, reason), state),
           Happens(w, state, action, reason, spawned, killed)
    PROVE  Explained'
<1> SUFFICES ASSUME nswitch' = 0 PROVE Explained'
  BY DEF Explained
<1> DEFINE n == Len(log)
           e == Entry(w, action, reason)
<1>1. /\ nswitch' = nswitch /\ here' = here /\ worker' = worker /\ read' = read
      /\ truth' = [truth EXCEPT ![w] = state] /\ log' = Append(log, e)
      /\ \/ wire' = wire
         \/ wire' = Append(wire, Update(truth', spawned, killed, Len(log')))
  BY DEF Happens, Entry
<1>2. here /\ log \in Seq(Entries) /\ wire \in Seq(Updates) /\ read \in 0 .. n
  BY <1>1 DEF Explained
<1>3. PICK h : Explains(h)
  BY <1>1 DEF Explained
<1>4. e \in Entries /\ e.id = w
  BY DEF Entries, Entry
<1>5. n \in Nat
  BY <1>2
<1>6. /\ log' \in Seq(Entries) /\ Len(log') = n + 1 /\ log'[n + 1] = e
      /\ \A i \in 1 .. n : log'[i] = log[i]
  BY <1>1, <1>2, <1>4
<1> HIDE DEF n, e
<1>7. /\ h \in [0 .. n -> [Workers -> States]] /\ h[n] = truth
      /\ \A i \in 1 .. n : /\ log[i].id \in Workers
                           /\ Legal(h[i - 1][log[i].id], log[i], h[i][log[i].id])
                           /\ \A v \in Workers \ {log[i].id} : h[i][v] = h[i - 1][v]
  BY <1>3 DEF Explains, Chronicle, n
<1>8. truth \in [Workers -> States]
  BY <1>5, <1>7
<1>9. /\ truth' \in [Workers -> States] /\ truth'[w] = state
      /\ \A v \in Workers \ {w} : truth'[v] = truth[v]
  BY <1>1, <1>8
<1>10. PICK g : /\ g \in [0 .. n + 1 -> [Workers -> States]] /\ g[n + 1] = truth'
                /\ \A i \in 0 .. n : g[i] = h[i]
  <2> DEFINE k == [i \in 0 .. n + 1 |-> IF i = n + 1 THEN truth' ELSE h[i]]
  <2>1. k \in [0 .. n + 1 -> [Workers -> States]] /\ k[n + 1] = truth' /\ \A i \in 0 .. n : k[i] = h[i]
    BY <1>5, <1>7, <1>9
  <2> HIDE DEF k
  <2> QED
    BY <2>1
<1>11. Chronicle(g, log', truth')
  <2>1. ASSUME NEW i \in 1 .. n + 1
        PROVE  /\ log'[i].id \in Workers
               /\ Legal(g[i - 1][log'[i].id], log'[i], g[i][log'[i].id])
               /\ \A v \in Workers \ {log'[i].id} : g[i][v] = g[i - 1][v]
    <3>1. CASE i = n + 1
      <4>1. log'[i] = e /\ e.id = w /\ g[i] = truth' /\ g[i - 1] = truth
        BY <1>4, <1>5, <1>6, <1>7, <1>10, <3>1
      <4>2. Legal(truth[w], e, state)
        BY DEF e
      <4> QED
        BY <1>9, <4>1, <4>2
    <3>2. CASE i # n + 1
      <4>1. i \in 1 .. n /\ i - 1 \in 0 .. n /\ i \in 0 .. n
        BY <1>5, <3>2
      <4> QED
        BY <1>6, <1>7, <1>10, <4>1
    <3> QED
      BY <3>1, <3>2
  <2> QED
    BY <1>6, <1>10, <2>1 DEF Chronicle
<1>12. read \in Nat /\ read <= n /\ read \in 0 .. n + 1 /\ n + 1 \in Nat
  BY <1>2, <1>5 DEF n
<1>13. /\ \A i \in 1 .. Len(wire) : Told(g, wire[i], read, n + 1)
       /\ \A v \in Workers : Shown(g, worker[v], v, read, n + 1)
  <2>1. /\ \A i \in 1 .. Len(wire) : Told(h, wire[i], read, n)
        /\ \A v \in Workers : Shown(h, worker[v], v, read, n)
    BY <1>3 DEF Explains, n
  <2> QED
    BY <1>5, <1>10, <1>12, <2>1, HistoryGoesOn
<1>14. wire' \in Seq(Updates) /\ \A i \in 1 .. Len(wire') : Told(g, wire'[i], read, n + 1)
  <2>1. CASE wire' = wire
    BY <1>2, <1>13, <2>1
  <2>2. CASE wire' = Append(wire, Update(truth', spawned, killed, Len(log')))
    <3> DEFINE u == Update(truth', spawned, killed, n + 1)
    <3>1. u \in Updates /\ Told(g, u, read, n + 1)
      BY <1>9, <1>10, <1>12, UpdateTells
    <3>2. wire' = Append(wire, u)
      BY <1>6, <2>2
    <3> HIDE DEF u
    <3>3. /\ wire' \in Seq(Updates) /\ Len(wire') = Len(wire) + 1 /\ wire'[Len(wire) + 1] = u
          /\ \A i \in 1 .. Len(wire) : wire'[i] = wire[i]
      BY <1>2, <3>1, <3>2
    <3>4. ASSUME NEW i \in 1 .. Len(wire')
          PROVE  Told(g, wire'[i], read, n + 1)
      <4>1. Len(wire) \in Nat
        BY <1>2
      <4>2. i = Len(wire) + 1 \/ i \in 1 .. Len(wire)
        BY <3>3, <4>1
      <4> QED
        BY <1>13, <3>1, <3>3, <4>2
    <3> QED
      BY <3>3, <3>4
  <2> QED
    BY <1>1, <2>1, <2>2
<1>15. Explains(g)'
  <2>1. /\ \A i \in 1 .. Len(wire') : Told(g, wire'[i], read', Len(log'))
        /\ \A v \in Workers : Shown(g, worker'[v], v, read', Len(log'))
    BY <1>1, <1>6, <1>13, <1>14
  <2> QED
    BY <1>11, <2>1 DEF Explains
<1>16. here' /\ read' \in 0 .. Len(log')
  BY <1>1, <1>2, <1>6, <1>12
<1> QED
  BY <1>6, <1>14, <1>15, <1>16 DEF Explained

\* vibe_wait tells without an entry.
LEMMA ExplainedReport ==
    ASSUME Explained, Report
    PROVE  Explained'
<1> SUFFICES ASSUME nswitch' = 0 PROVE Explained'
  BY DEF Explained
<1> DEFINE u == Update(truth, NoWorker, NoWorker, Len(log))
<1>1. /\ nswitch' = nswitch /\ here' = here /\ worker' = worker /\ read' = read
      /\ truth' = truth /\ log' = log /\ wire' = Append(wire, u)
  BY DEF Report
<1>2. here /\ log \in Seq(Entries) /\ wire \in Seq(Updates) /\ read \in 0 .. Len(log)
  BY <1>1 DEF Explained
<1>3. PICK h : Explains(h)
  BY <1>1 DEF Explained
<1>4. Len(log) \in Nat /\ h \in [0 .. Len(log) -> [Workers -> States]] /\ h[Len(log)] = truth
  BY <1>2, <1>3 DEF Explains, Chronicle
<1>5. truth \in [Workers -> States]
  BY <1>4
<1>6. u \in Updates /\ Told(h, u, read, Len(log))
  <2>1. NoWorker \notin Workers
    BY VibeConstants DEF NoWorker
  <2> QED
    BY <1>2, <1>4, <1>5, <2>1, UpdateTells
<1> HIDE DEF u
<1>7. /\ wire' \in Seq(Updates) /\ Len(wire') = Len(wire) + 1 /\ wire'[Len(wire) + 1] = u
      /\ \A i \in 1 .. Len(wire) : wire'[i] = wire[i]
  BY <1>1, <1>2, <1>6
<1>8. ASSUME NEW i \in 1 .. Len(wire')
      PROVE  Told(h, wire'[i], read, Len(log))
  <2>1. i = Len(wire) + 1 \/ i \in 1 .. Len(wire)
    BY <1>2, <1>7
  <2> QED
    BY <1>3, <1>6, <1>7, <2>1 DEF Explains
<1>9. Explains(h)'
  BY <1>1, <1>3, <1>8 DEF Explains
<1> QED
  BY <1>1, <1>2, <1>7, <1>9 DEF Explained

LEMMA ExplainedHandleUpdate ==
    ASSUME Kept, Explained, HandleUpdate
    PROVE  Explained'
<1> SUFFICES ASSUME nswitch' = 0 PROVE Explained'
  BY DEF Explained
<1>1. /\ nswitch' = nswitch /\ here' = here /\ read' = read /\ truth' = truth /\ log' = log
      /\ wire # <<>> /\ wire' = Tail(wire)
      /\ worker' = [w \in Workers |-> observeVibeToolUpdate(worker[w], Head(wire), w)]
  BY DEF HandleUpdate
<1>2. here /\ log \in Seq(Entries) /\ wire \in Seq(Updates) /\ read \in 0 .. Len(log)
  BY <1>1 DEF Explained
<1>3. PICK h : Explains(h)
  BY <1>1 DEF Explained
<1>4. /\ Head(wire) = wire[1] /\ 1 \in 1 .. Len(wire) /\ wire' \in Seq(Updates)
      /\ \A i \in 1 .. Len(wire') : i + 1 \in 1 .. Len(wire) /\ wire'[i] = wire[i + 1]
  BY <1>1, <1>2
<1>5. \A i \in 1 .. Len(wire) : Told(h, wire[i], read, Len(log))
  BY <1>3 DEF Explains
<1>6. Told(h, Head(wire), read, Len(log))
  BY <1>4, <1>5
<1>7. ASSUME NEW w \in Workers
      PROVE  Shown(h, worker'[w], w, read, Len(log))
  <2>1. Shown(h, worker[w], w, read, Len(log)) /\ read \in Nat /\ Len(log) \in Nat
    BY <1>2, <1>3 DEF Explains
  <2>2. Shown(h, observeVibeToolUpdate(worker[w], Head(wire), w), w, read, Len(log))
    BY <1>6, <2>1, ShownUpdate
  <2> QED
    BY <1>1, <2>2
<1>8. \A i \in 1 .. Len(wire') : Told(h, wire'[i], read, Len(log))
  BY <1>4, <1>5
<1>9. Explains(h)'
  BY <1>1, <1>3, <1>7, <1>8 DEF Explains
<1> QED
  BY <1>1, <1>2, <1>4, <1>9 DEF Explained

\* The updates sent before the entry have come: none tells of a time before it.
LEMMA ExplainedReadEntry ==
    ASSUME WireFirst, Kept, Explained, ReadEntry
    PROVE  Explained'
<1> SUFFICES ASSUME nswitch' = 0 PROVE Explained'
  BY DEF Explained
<1> DEFINE e == log[read + 1]
<1>1. /\ nswitch' = nswitch /\ here' = here /\ truth' = truth /\ log' = log /\ wire' = wire
      /\ read < Len(log) /\ read' = read + 1
      /\ \A i \in 1 .. Len(wire) : wire[i].stamp > read
      /\ worker' = [worker EXCEPT ![e.id] = observeVibeLifecycle(worker[e.id], e)]
  BY DEF ReadEntry
<1>2. here /\ log \in Seq(Entries) /\ wire \in Seq(Updates) /\ read \in 0 .. Len(log)
  BY <1>1 DEF Explained
<1>3. PICK h : Explains(h)
  BY <1>1 DEF Explained
<1>4. read \in Nat /\ Len(log) \in Nat /\ read + 1 \in 1 .. Len(log) /\ (read + 1) - 1 = read
  BY <1>1, <1>2
<1>5. /\ e.id \in Workers /\ Legal(h[read][e.id], e, h[read + 1][e.id])
      /\ \A v \in Workers \ {e.id} : h[read + 1][v] = h[read][v]
  BY <1>3, <1>4 DEF Explains, Chronicle
<1> HIDE DEF e
<1>6. worker' = [w \in Workers |-> IF w = e.id THEN observeVibeLifecycle(worker[e.id], e) ELSE worker[w]]
  BY <1>1 DEF Kept
<1>7. ASSUME NEW w \in Workers
      PROVE  Shown(h, worker'[w], w, read + 1, Len(log))
  <2>1. Shown(h, worker[w], w, read, Len(log))
    BY <1>3 DEF Explains
  <2>2. CASE w = e.id
    <3>1. Shown(h, observeVibeLifecycle(worker[w], e), w, read + 1, Len(log))
      BY <1>1, <1>4, <1>5, <2>1, <2>2, ShownEntry
    <3> QED
      BY <1>6, <2>2, <3>1
  <2>3. CASE w # e.id
    <3>1. Shown(h, worker[w], w, read + 1, Len(log))
      BY <1>1, <1>4, <1>5, <2>1, <2>3, ShownOther
    <3> QED
      BY <1>6, <2>3, <3>1
  <2> QED
    BY <2>2, <2>3
<1>8. ASSUME NEW i \in 1 .. Len(wire)
      PROVE  Told(h, wire[i], read + 1, Len(log))
  <2>1. Told(h, wire[i], read, Len(log)) /\ wire[i].stamp > read
    BY <1>1, <1>3 DEF Explains
  <2>2. wire[i].stamp \in read .. Len(log)
    BY <2>1 DEF Told
  <2>3. wire[i].stamp \in read + 1 .. Len(log)
    BY <1>4, <2>1, <2>2
  <2> QED
    BY <2>1, <2>3 DEF Told
<1>9. Explains(h)'
  BY <1>1, <1>3, <1>7, <1>8 DEF Explains
<1>10. read' \in 0 .. Len(log')
  BY <1>1, <1>4
<1> QED
  BY <1>1, <1>2, <1>9, <1>10 DEF Explained

\* A switch counts, and a load is of a session that was left.
LEMMA ExplainedSwitch ==
    ASSUME nswitch \in Nat, Explained, LeaveSession \/ LoadSession
    PROVE  Explained'
<1>1. CASE LeaveSession
  <2>1. nswitch' # 0
    BY <1>1 DEF LeaveSession
  <2> QED
    BY <2>1 DEF Explained
<1>2. CASE LoadSession
  <2>1. nswitch # 0 /\ nswitch' = nswitch
    BY <1>2 DEF LoadSession, Explained
  <2> QED
    BY <2>1 DEF Explained
<1> QED
  BY <1>1, <1>2

\* Each thing that happens to a worker is legal, and told as it is.
LEMMA ExplainedOmp ==
    ASSUME Explained, NEW w \in Workers,
           \/ Spawn(w) \/ Turn(w) \/ Kill(w) \/ ModeExit(w) \/ Revive(w)
           \/ \E reason \in {"spawn-failed", "unrecoverable"} : Fail(w, reason)
    PROVE  Explained'
<1>1. NoWorker \notin Workers
  BY VibeConstants DEF NoWorker
<1>2. \A action, reason : /\ Entry(w, action, reason).action = action
                           /\ Entry(w, action, reason).reason = reason
  BY DEF Entry
<1>3. \A action \in Actions, reason \in Reasons, state \in States,
         spawned \in {w, NoWorker}, killed \in {w, NoWorker} :
        /\ spawned = w => state = "live"
        /\ killed = w => state = "killed"
        /\ Legal(truth[w], Entry(w, action, reason), state)
        /\ Happens(w, state, action, reason, spawned, killed)
        => Explained'
  BY <1>1, ExplainedHappens
<1>4. CASE Spawn(w)
  <2>1. /\ Legal(truth[w], Entry(w, "spawn", ""), "live")
        /\ Happens(w, "live", "spawn", "", w, NoWorker)
    BY <1>2, <1>4 DEF Spawn, Legal
  <2>2. "spawn" \in Actions /\ "" \in Reasons /\ "live" \in States
    BY DEF Actions, Reasons, States
  <2> QED
    BY <1>1, <1>3, <2>1, <2>2
<1>5. CASE Turn(w)
  <2>1. /\ Legal(truth[w], Entry(w, "turn-settled", ""), "live")
        /\ Happens(w, "live", "turn-settled", "", NoWorker, NoWorker)
    BY <1>2, <1>5 DEF Turn, Legal
  <2>2. "turn-settled" \in Actions /\ "" \in Reasons /\ "live" \in States
    BY DEF Actions, Reasons, States
  <2> QED
    BY <1>1, <1>3, <2>1, <2>2
<1>6. CASE Kill(w)
  <2>1. /\ Legal(truth[w], Entry(w, "tombstone", "explicit-kill"), "killed")
        /\ Happens(w, "killed", "tombstone", "explicit-kill", NoWorker, w)
    BY <1>2, <1>6 DEF Kill, Legal, Dead, ByReason, Expected
  <2>2. "tombstone" \in Actions /\ "explicit-kill" \in Reasons /\ "killed" \in States
    BY DEF Actions, Reasons, States
  <2> QED
    BY <1>1, <1>3, <2>1, <2>2
<1>7. CASE ModeExit(w)
  <2>1. /\ Legal(truth[w], Entry(w, "tombstone", "mode-exit"), "parked")
        /\ Happens(w, "parked", "tombstone", "mode-exit", NoWorker, NoWorker)
    BY <1>2, <1>7 DEF ModeExit, Legal, Dead, ByReason, Expected
  <2>2. "tombstone" \in Actions /\ "mode-exit" \in Reasons /\ "parked" \in States
    BY DEF Actions, Reasons, States
  <2> QED
    BY <1>1, <1>3, <2>1, <2>2
<1>8. CASE Revive(w)
  <2>1. /\ Legal(truth[w], Entry(w, "tombstone-revoked", ""), "live")
        /\ Happens(w, "live", "tombstone-revoked", "", NoWorker, NoWorker)
    BY <1>2, <1>8 DEF Revive, Legal
  <2>2. "tombstone-revoked" \in Actions /\ "" \in Reasons /\ "live" \in States
    BY DEF Actions, Reasons, States
  <2> QED
    BY <1>1, <1>3, <2>1, <2>2
<1>9. ASSUME NEW reason \in {"spawn-failed", "unrecoverable"}, Fail(w, reason)
      PROVE  Explained'
  <2>1. /\ Legal(truth[w], Entry(w, "tombstone", reason), "failed")
        /\ Happens(w, "failed", "tombstone", reason, NoWorker, NoWorker)
    BY <1>2, <1>9 DEF Fail, Legal, Dead, ByReason, Expected
  <2>2. "tombstone" \in Actions /\ reason \in Reasons /\ "failed" \in States
    BY DEF Actions, Reasons, States
  <2> QED
    BY <1>1, <1>3, <2>1, <2>2
<1> QED
  BY <1>4, <1>5, <1>6, <1>7, <1>8, <1>9

LEMMA ExplainedInit == Init => Explained /\ nswitch \in Nat
<1> SUFFICES ASSUME Init PROVE Explained /\ nswitch \in Nat
  OBVIOUS
<1> DEFINE none == [w \in Workers |-> "none"]
           h == [i \in 0 .. 0 |-> none]
<1>1. /\ worker = [w \in Workers |-> NoRecord] /\ wire = <<>> /\ log = <<>> /\ read = 0
      /\ here /\ truth = none /\ nswitch = 0
  BY DEF Init
<1>2. Len(log) = 0 /\ Len(wire) = 0 /\ log \in Seq(Entries) /\ wire \in Seq(Updates)
  BY <1>1
<1>3. none \in [Workers -> States] /\ \A w \in Workers : none[w] = "none"
  BY DEF States
<1>4. h \in [0 .. 0 -> [Workers -> States]] /\ h[0] = none
  BY <1>3
<1> HIDE DEF none, h
<1>5. Chronicle(h, log, truth)
  BY <1>1, <1>2, <1>4 DEF Chronicle
<1>6. \A w \in Workers : Shown(h, worker[w], w, read, Len(log))
  BY <1>1, <1>3, <1>4 DEF Shown
<1>7. Explains(h)
  BY <1>2, <1>5, <1>6 DEF Explains
<1> QED
  BY <1>1, <1>2, <1>7 DEF Explained

LEMMA ExplainedNext ==
    ASSUME WireFirst, Kept, Explained, nswitch \in Nat, [Next]_vars
    PROVE  Explained' /\ nswitch' \in Nat
<1>1. nswitch' \in Nat
  <2>1. CASE HandleUpdate \/ ReadEntry \/ LoadSession \/ Report \/ UNCHANGED vars
    <3>1. nswitch' = nswitch
      BY <2>1 DEF HandleUpdate, ReadEntry, LoadSession, Report, vars
    <3> QED
      BY <3>1
  <2>2. CASE LeaveSession
    BY <2>2 DEF LeaveSession
  <2>3. ASSUME NEW w \in Workers,
               \/ Spawn(w) \/ Turn(w) \/ Kill(w) \/ ModeExit(w) \/ Revive(w)
               \/ \E reason \in {"spawn-failed", "unrecoverable"} : Fail(w, reason)
        PROVE  nswitch' \in Nat
    <3>1. nswitch' = nswitch
      BY <2>3 DEF Spawn, Turn, Kill, ModeExit, Revive, Fail, Happens
    <3> QED
      BY <3>1
  <2> QED
    BY <2>1, <2>2, <2>3 DEF Next
<1>2. CASE UNCHANGED vars
  <2>1. /\ worker' = worker /\ wire' = wire /\ log' = log /\ read' = read /\ here' = here
        /\ truth' = truth /\ nswitch' = nswitch
    BY <1>2 DEF vars
  <2> QED
    BY <1>1, <2>1 DEF Explained, Explains
<1> QED
  BY <1>1, <1>2, ExplainedHandleUpdate, ExplainedReadEntry, ExplainedSwitch, ExplainedReport,
     ExplainedOmp DEF Next

\* For every set of workers and every length of the session file: where the
\* updates outrun the poll and the session was not left, every row shows what
\* became of its worker once the file is read, whatever the screens guessed.
THEOREM RowsShowTruth == WireFirst => (Spec => []TruthShown)
<1>1. Explained => TruthShown
  <2> SUFFICES ASSUME Explained, wire = <<>>, read = Len(log), nswitch = 0, NEW w \in Workers
               PROVE  worker[w].row = Expected[truth[w]]
    BY DEF TruthShown
  <2>1. PICK h : Explains(h)
    BY DEF Explained
  <2>2. h[read] = truth /\ Shown(h, worker[w], w, read, read) /\ read \in Nat
    BY <2>1 DEF Explains, Chronicle, Explained
  <2>3. ~\E k \in read + 1 .. read : TRUE
    BY <2>2
  <2>4. \/ worker[w] = NoRecord /\ truth[w] = "none"
        \/ worker[w] = Running /\ truth[w] = "live"
        \/ truth[w] \in Dead /\ worker[w] = Finished(Expected[truth[w]], "lifecycle")
    BY <2>2, <2>3 DEF Shown
  <2>5. Expected["none"] = "none" /\ Expected["live"] = "running"
    BY DEF Expected
  <2> QED
    BY <2>4, <2>5, Records
<1>2. ASSUME WireFirst PROVE Spec => []TruthShown
  <2>1. Kept /\ Explained /\ nswitch \in Nat /\ [Next]_vars => Explained' /\ (nswitch \in Nat)'
    BY <1>2, ExplainedNext
  <2> QED
    BY <1>1, <2>1, KeptInit, KeptNext, ExplainedInit, PTL DEF Spec
<1> QED
  BY <1>2
=============================================================================
