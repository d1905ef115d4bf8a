--------------------------- MODULE SessionHistory ---------------------------
(***************************************************************************)
(* Notes that OMP writes only to its session file (advisor notes, async    *)
(* results, vibe lifecycle), and how the bridge (src/bridge/adapter.mjs)   *)
(* brings each of them to the pager: on session/load or session/fork it    *)
(* reads the file into a plan (buildReplayPlan), a ReplayMatcher puts the  *)
(* plan's notes between the frames OMP replays, and from the response on a *)
(* SessionTailer polls the file for what is new.                           *)
(*                                                                         *)
(* OMP is another process: it appends to the file, in two halves or in     *)
(* one, whenever it likes.  Sizes and offsets count half lines.  The file  *)
(* is linear and without compaction, so that the plan's window is the      *)
(* whole file; the transcripts of workers (children) are left out, and a   *)
(* session that is forked was not tailed.                                  *)
(***************************************************************************)
EXTENDS Filters

CONSTANTS
    Histories,   \* session files to start from: sequences of entries
    Kinds,       \* requests that load one: "load", "fork"
    MaxLoad,     \* bound: load requests
    MaxReload,   \* bound: of these, of the session that is tailed already
    MaxWrite,    \* bound: notes written
    MaxRace,     \* bound: of these, before the adapter knows the file's size
    MaxRewrite,  \* bound: rewrites of the file
    MaxOther,    \* bound: responses to other requests during a load
    MaxForeign   \* bound: frames of other sessions during a load

ASSUME HistoryConstants ==
    /\ Kinds \subseteq {"load", "fork"}
    /\ {MaxLoad, MaxReload, MaxWrite, MaxRace, MaxRewrite, MaxOther, MaxForeign} \subseteq Nat

\* Entries are numbered in the order in which OMP wrote them.
Numbered(s) ==
    /\ s \in Seq(Values(s))
    /\ \A i, j \in 1 .. Len(s) : i < j => s[i].id < s[j].id
    /\ \A i \in 1 .. Len(s) : s[i].id \in Nat

\* A tool's id belongs to its call and then to its result, or to one of them: no
\* id is called or answered twice.
WellPaired(h) ==
    /\ \A i \in 1 .. Len(h) : h[i].id # 0 /\ h[i].kind \in {"text", "call", "result", "note"}
    /\ \A i, j \in 1 .. Len(h) :
           i < j /\ h[i].val = h[j].val /\ {h[i].kind, h[j].kind} \subseteq {"call", "result"} =>
               h[i].kind = "call" /\ h[j].kind = "result"

ASSUME HistoryFiles == \A h \in Histories : Numbered(h)

VARIABLES
    disk,    \* the session file: entries [id, kind, val, more]
    torn,    \* the last entry is only half written
    load,    \* the load under way: [phase, kind, loaded, planned]
    plan,    \* its plan: [units, size]; seenKeys are the ids of the units
    match,   \* the ReplayMatcher
    replay,  \* OMP's replay: [hist, at, chunk]
    tail,    \* the SessionTailer
    shown,   \* the pager's transcript: [id, by]
    count    \* the bounded counters

historyVars == <<disk, torn, load, plan, match, replay, tail, shown, count>>

IsNote(e) == e.kind = "note"
Ids(s) == {s[i].id : i \in 1 .. Len(s)}
Size == 2 * Len(disk) - (IF torn THEN 1 ELSE 0)
WholeLines == SubSeq(disk, 1, Size \div 2)
Shown(s, how) == [i \in 1 .. Len(s) |-> [id |-> s[i].id, by |-> how]]
Notes(s) == Only(s, {e \in Values(s) : IsNote(e)})

NoMatch == [active |-> FALSE, cursor |-> 1, mid |-> 0, tools |-> {}, pend |-> 0, sid |-> "none"]
NoTail == [attached |-> FALSE, file |-> FALSE, offset |-> 0, pending |-> 0, seen |-> {}, skip |-> FALSE]

-----------------------------------------------------------------------------
(* The plan and the matcher.                                                 *)

\* A tool id that an entry before the i-th announced.
Announced(s, i) == \E j \in 1 .. i - 1 : s[j].kind \in {"call", "result"} /\ s[j].val = s[i].val

\* The first frame that the replay of a unit is predicted to have.
Sig(s, i) ==
    CASE s[i].kind = "text" -> [u |-> "chunk", val |-> s[i].val]
      [] s[i].kind = "call" -> [u |-> "tool_call", val |-> s[i].val]
      [] s[i].kind = "result" -> [u |-> IF Announced(s, i) THEN "tool_call_update" ELSE "tool_call",
                                  val |-> s[i].val]
      [] OTHER -> [u |-> "none", val |-> 0]

\* ReplayMatcher.match: the first unit at or after the cursor, or 0.
firstMatch(sig) ==
    LET found == {i \in match.cursor .. Len(plan.units) : Sig(plan.units, i) = sig}
    IN  IF found = {} THEN 0 ELSE First(found)

\* The frame is forwarded behind the notes N; it shows its entry if it is the
\* entry's first.
Forward(N, f) ==
    shown' = shown \o Shown(N, "unit") \o (IF f.first THEN <<[id |-> f.mid, by |-> "frame"]>> ELSE <<>>)

\* advanceTo: the notes before the matched unit go first.
advanceTo(idx, f, m) ==
    /\ match' = [m EXCEPT !.cursor = idx + 1, !.sid = f.sid]
    /\ Forward(Notes(SubSeq(plan.units, match.cursor, idx - 1)), f)

passThrough(f, m) ==
    /\ match' = m
    /\ Forward(<<>>, f)

\* Defect: a second chunk of a message is matched like a first one.
observeChunk_EveryChunk(f) ==
    LET idx == firstMatch([u |-> "chunk", val |-> f.val])
    IN  IF idx # 0
        THEN advanceTo(idx, f, [match EXCEPT !.mid = f.mid])
        ELSE passThrough(f, [match EXCEPT !.mid = f.mid])

\* observe, chunks: the same messageId continues the current message.
observeChunk(f) ==
    LET idx == firstMatch([u |-> "chunk", val |-> f.val])
    IN  IF f.mid = match.mid
        THEN passThrough(f, match)
        ELSE IF idx # 0
        THEN advanceTo(idx, f, [match EXCEPT !.mid = f.mid])
        ELSE passThrough(f, [match EXCEPT !.mid = f.mid])

\* observe, tool calls and their updates.
observeTool(f) ==
    LET idx == firstMatch([u |-> f.u, val |-> f.val])
        seen == [match EXCEPT !.tools = @ \cup {f.val}]
        result == idx # 0 /\ plan.units[idx].kind = "result" /\ f.u = "tool_call"
    IN  IF f.u = "tool_call_update" /\ f.val = match.pend
        THEN passThrough(f, [match EXCEPT !.pend = 0])
        ELSE IF f.val \in match.tools
        THEN passThrough(f, match)
        ELSE IF idx # 0
        THEN advanceTo(idx, f, IF result THEN [seen EXCEPT !.pend = f.val] ELSE seen)
        ELSE passThrough(f, seen)

\* observe, an update of a session: a matcher that knows its session ignores
\* the others.
observe(f) ==
    IF ~match.active \/ (match.sid # "none" /\ match.sid # f.sid)
    THEN passThrough(f, match)
    ELSE IF f.u = "chunk" THEN observeChunk(f) ELSE observeTool(f)

-----------------------------------------------------------------------------
(* The request and its response.                                             *)

\* buildReplayPlan reads the file: a half line does not parse.
ReadFile(kind) ==
    /\ load.phase = "none"
    /\ count.load < MaxLoad
    /\ tail.attached => kind = "load" /\ count.reload < MaxReload
    /\ torn => count.race < MaxRace
    /\ count' = [count EXCEPT !.load = @ + 1, !.reload = @ + (IF tail.attached THEN 1 ELSE 0),
                              !.race = @ + (IF torn THEN 1 ELSE 0)]
    /\ load' = [phase |-> "read", kind |-> kind, loaded |-> FALSE, planned |-> FALSE]
    /\ plan' = [units |-> WholeLines, size |-> 0]
    /\ shown' = <<>>
    /\ UNCHANGED <<disk, torn, match, replay, tail>>

\* ... and asks for its size; the matcher is armed and the request goes out.
StatFile ==
    /\ load.phase = "read"
    /\ load' = [load EXCEPT !.phase = "sent", !.planned = TRUE]
    /\ plan' = [plan EXCEPT !.size = Size]
    /\ match' = [NoMatch EXCEPT !.active = TRUE, !.sid = IF load.kind = "fork" THEN "none" ELSE "own"]
    /\ UNCHANGED <<disk, torn, replay, tail, shown, count>>

\* The file cannot be read: the request goes out without a plan.
PlanUnreadable ==
    /\ load.phase = "read"
    /\ load' = [load EXCEPT !.phase = "sent"]
    /\ plan' = [units |-> <<>>, size |-> 0]
    /\ UNCHANGED <<disk, torn, match, replay, tail, shown, count>>

\* Defect: the keys of the plan are not remembered.
attach_Unseeded ==
    IF tail.attached
    THEN UNCHANGED tail
    ELSE tail' = [NoTail EXCEPT !.attached = TRUE]

\* SessionTailer.attach: nothing when it is on this session already; the
\* plan's keys are taken as seen.
attach ==
    IF tail.attached
    THEN UNCHANGED tail
    ELSE IF ~load.planned
    THEN tail' = [NoTail EXCEPT !.attached = TRUE]
    ELSE IF load.kind = "load"
    THEN tail' = [NoTail EXCEPT !.attached = TRUE, !.seen = Ids(plan.units),
                                !.file = TRUE, !.offset = plan.size]
    ELSE tail' = [NoTail EXCEPT !.attached = TRUE, !.seen = Ids(plan.units), !.skip = TRUE]

\* The response: what is queued is flushed, and the tailer attaches.
LoadAnswered ==
    /\ load.phase = "replaying" /\ replay.at > Len(replay.hist)
    /\ load' = [load EXCEPT !.phase = "none", !.loaded = TRUE]
    /\ match' = NoMatch
    /\ shown' = IF match.active
                THEN shown \o Shown(Notes(SubSeq(plan.units, match.cursor, Len(plan.units))), "unit")
                ELSE shown
    /\ attach
    /\ UNCHANGED <<disk, torn, plan, replay, count>>

\* The load is refused.
LoadFailed ==
    /\ load.phase = "sent"
    /\ load' = [load EXCEPT !.phase = "none"]
    /\ match' = NoMatch
    /\ UNCHANGED <<disk, torn, plan, replay, tail, shown, count>>

\* A response to another request: the matcher takes it for its own end.
OtherResponse ==
    /\ load.phase \in {"sent", "replaying"}
    /\ count.other < MaxOther
    /\ count' = [count EXCEPT !.other = @ + 1]
    /\ match' = [match EXCEPT !.active = FALSE]
    /\ UNCHANGED <<disk, torn, load, plan, replay, tail, shown>>

-----------------------------------------------------------------------------
(* The tailer.                                                               *)

\* Defect: an incomplete last line is dropped, not kept for the next read.
readNewLines_DropsRest(t) ==
    LET o == IF Size < t.offset THEN 0 ELSE t.offset
    IN  [lines |-> SubSeq(disk, (o + 1) \div 2 + 1, Size \div 2),
         tail |-> [t EXCEPT !.offset = Size, !.pending = 0]]

\* readNewLines: the complete lines between the offset and the end.  The line
\* the offset is in is good if `pending' holds its first half.
readNewLines(t) ==
    LET o == IF Size < t.offset THEN 0 ELSE t.offset
        rest == (o + 1) \div 2                  \* the line a torn read is in
        whole == /\ o % 2 = 1 /\ o = t.offset
                 /\ t.pending = disk[rest].id
        from == IF whole THEN rest ELSE rest + 1
    IN  [lines |-> SubSeq(disk, from, Size \div 2),
         tail |-> [t EXCEPT !.offset = Size,
                            !.pending = IF Size = o THEN (IF o = t.offset THEN t.pending ELSE 0)
                                        ELSE IF Size % 2 = 1 THEN disk[Len(disk)].id ELSE 0]]

\* poll: find the file (a fork's is skipped to its end), read, and emit the
\* notes that were not seen.
Poll ==
    /\ tail.attached /\ load.phase # "read"
    /\ LET t == IF tail.file THEN tail
                ELSE [tail EXCEPT !.file = TRUE, !.skip = FALSE,
                                  !.offset = IF tail.skip THEN Size ELSE tail.offset]
           r == readNewLines(t)
           new == Only(r.lines, {e \in Values(r.lines) : IsNote(e) /\ e.id \notin t.seen})
       IN  /\ tail' = [r.tail EXCEPT !.seen = @ \cup Ids(new)]
           /\ shown' = shown \o Shown(new, "tail")
    /\ UNCHANGED <<disk, torn, load, plan, match, replay, count>>

\* The file is not there when it is polled: it is looked for again.
PollMissing ==
    /\ tail.attached /\ tail.file /\ load.phase # "read"
    /\ tail' = [tail EXCEPT !.file = FALSE]
    /\ UNCHANGED <<disk, torn, load, plan, match, replay, shown, count>>

-----------------------------------------------------------------------------
(* OMP.                                                                      *)

NewNote == [id |-> Last(Ids(disk) \cup {0}) + 1, kind |-> "note", val |-> 0, more |-> 0]

\* A write whose place the adapter cannot know yet.
Racing == load.phase = "read" \/ (load.kind = "fork" /\ load.phase # "none") \/ tail.skip

WriteNote(half) ==
    /\ ~torn
    /\ load.phase # "none" \/ tail.attached
    /\ count.write < MaxWrite
    /\ Racing => count.race < MaxRace
    /\ count' = [count EXCEPT !.write = @ + 1, !.race = @ + IF Racing THEN 1 ELSE 0]
    /\ disk' = Append(disk, NewNote)
    /\ torn' = half
    /\ UNCHANGED <<load, plan, match, replay, tail, shown>>

FinishNote ==
    /\ torn
    /\ torn' = FALSE
    /\ UNCHANGED <<disk, load, plan, match, replay, tail, shown, count>>

\* OMP migrates or sanitizes the file when it loads it: an entry is gone.
Rewrite(i) ==
    /\ load.phase = "sent" /\ ~torn
    /\ count.rewrite < MaxRewrite
    /\ ~IsNote(disk[i])
    /\ count' = [count EXCEPT !.rewrite = @ + 1]
    /\ disk' = SubSeq(disk, 1, i - 1) \o SubSeq(disk, i + 1, Len(disk))
    /\ UNCHANGED <<torn, load, plan, match, replay, tail, shown>>

StartReplay ==
    /\ load.phase = "sent"
    /\ load' = [load EXCEPT !.phase = "replaying"]
    /\ replay' = [hist |-> Only(WholeLines, {e \in Values(WholeLines) : ~IsNote(e)}), at |-> 1, chunk |-> 1]
    /\ UNCHANGED <<disk, torn, plan, match, tail, shown, count>>

\* The frames an entry replays as.
Frames(h, i) ==
    LET f(u, v, first) == [u |-> u, val |-> v, mid |-> h[i].id, first |-> first, sid |-> "own"]
    IN  CASE h[i].kind = "text" /\ h[i].more = 0 -> <<f("chunk", h[i].val, TRUE)>>
          [] h[i].kind = "text" /\ h[i].more # 0 -> <<f("chunk", h[i].val, TRUE), f("chunk", h[i].more, FALSE)>>
          [] h[i].kind = "call" -> <<f("tool_call", h[i].val, TRUE)>>
          [] h[i].kind = "result" /\ Announced(h, i) -> <<f("tool_call_update", h[i].val, TRUE)>>
          [] OTHER -> <<f("tool_call", h[i].val, TRUE), f("tool_call_update", h[i].val, FALSE)>>

\* The next frame of the replay.
ReplayFrame ==
    /\ load.phase = "replaying" /\ replay.at <= Len(replay.hist)
    /\ LET fs == Frames(replay.hist, replay.at)
       IN  /\ observe(fs[replay.chunk])
           /\ replay' = IF replay.chunk = Len(fs)
                        THEN [replay EXCEPT !.at = @ + 1, !.chunk = 1]
                        ELSE [replay EXCEPT !.chunk = @ + 1]
    /\ UNCHANGED <<disk, torn, load, plan, tail, count>>

\* A frame of a turn that still runs in another session.
ForeignFrame(v) ==
    /\ load.phase \in {"sent", "replaying"}
    /\ count.foreign < MaxForeign
    /\ count' = [count EXCEPT !.foreign = @ + 1]
    /\ observe([u |-> "chunk", val |-> v, mid |-> -1, first |-> FALSE, sid |-> "foreign"])
    /\ UNCHANGED <<disk, torn, load, plan, replay, tail>>

-----------------------------------------------------------------------------
Vals == UNION {{h[i].val : i \in 1 .. Len(h)} : h \in Histories}

HistoryInit ==
    /\ disk \in Histories
    /\ torn = FALSE
    /\ load = [phase |-> "none", kind |-> "load", loaded |-> FALSE, planned |-> FALSE]
    /\ plan = [units |-> <<>>, size |-> 0]
    /\ match = NoMatch
    /\ replay = [hist |-> <<>>, at |-> 1, chunk |-> 1]
    /\ tail = NoTail
    /\ shown = <<>>
    /\ count = [load |-> 0, reload |-> 0, write |-> 0, race |-> 0, rewrite |-> 0, other |-> 0, foreign |-> 0]

HistoryNext ==
    \/ \E kind \in Kinds : ReadFile(kind)
    \/ StatFile
    \/ PlanUnreadable
    \/ LoadAnswered
    \/ LoadFailed
    \/ OtherResponse
    \/ Poll
    \/ PollMissing
    \/ \E half \in BOOLEAN : WriteNote(half)
    \/ FinishNote
    \/ \E i \in 1 .. Len(disk) : Rewrite(i)
    \/ StartReplay
    \/ ReplayFrame
    \/ \E v \in Vals : ForeignFrame(v)

HistorySpec == HistoryInit /\ [][HistoryNext]_historyVars

\* The timer polls, OMP finishes the lines it writes and answers the load.
FairHistory ==
    /\ HistorySpec
    /\ WF_historyVars(Poll) /\ WF_historyVars(FinishNote)
    /\ WF_historyVars(StatFile) /\ WF_historyVars(StartReplay)
    /\ WF_historyVars(ReplayFrame) /\ WF_historyVars(LoadAnswered)

-----------------------------------------------------------------------------
(* Properties.                                                               *)

ShownNotes == {i \in 1 .. Len(shown) : shown[i].by # "frame"}

\* A note is in the transcript at most once: what the replay placed the tailer
\* does not repeat ("so the tailer never re-emits history the plan already
\* placed", adapter.mjs:1314), over torn lines, failed loads and a file that
\* comes and goes.
ShownOnce == \A i, j \in ShownNotes : shown[i].id = shown[j].id => i = j

UnitAt(i) == shown[i].by = "unit"
FrameAt(i) == shown[i].by = "frame"
EntryOf(i) == CHOOSE e \in {disk[k] : k \in 1 .. Len(disk)} : e.id = shown[i].id
IsUpdate(i) == EntryOf(i).kind = "result" /\ \E k \in 1 .. Len(disk) :
                   disk[k].kind = "call" /\ disk[k].val = EntryOf(i).val

\* The replay puts a note where it was written (the order of ids): behind every
\* message before it and, unless that message is the result of a tool call that
\* was replayed, before the message after it.  Equal texts, messages of several
\* chunks and frames of other sessions do not move it.  (A fork learns the id
\* of its session from the first frame, which may be one of another session;
\* a file that OMP rewrites while loading is not the one that was planned.)
InPlace ==
    load.kind = "load" /\ count.rewrite = 0 => \A i, j \in 1 .. Len(shown) :
        UnitAt(i) /\ FrameAt(j) =>
            /\ i < j => shown[i].id < shown[j].id
            /\ j < i /\ ~IsUpdate(j) => shown[j].id < shown[i].id

\* "queues each synthesized unit until the first replay frame of the entry that
\* originally followed it arrives, emitting the queued units just before that
\* frame" (adapter.mjs:1187-1189).
BeforeNext ==
    \A i, j \in 1 .. Len(shown) :
        UnitAt(i) /\ FrameAt(j) /\ j < i => shown[j].id < shown[i].id

\* "anything left flushes when the load response arrives" (adapter.mjs:1605).
FlushedByLoad ==
    load.loaded /\ load.planned =>
        Ids(Notes(plan.units)) \subseteq {shown[i].id : i \in 1 .. Len(shown)}

\* A complete note the tailer has not seen is behind its offset, or the line it
\* is in: "start tailing where the plan stopped reading" (adapter.mjs:996), "Full
\* rewrite (load-migration/sanitize): rescan" (:1027), a forked file holds "the
\* source's history - already covered by the plan's seenKeys" (:1064).
NothingSkipped ==
    tail.attached /\ tail.file /\ load.phase = "none" =>
        \A k \in 1 .. Len(WholeLines) :
            IsNote(disk[k]) /\ disk[k].id \notin tail.seen =>
                \/ 2 * (k - 1) >= tail.offset
                \/ tail.offset = 2 * k - 1 /\ tail.pending = disk[k].id

\* So it is as long as OMP neither writes between the adapter's read of the
\* file, its question for the size and the attach, nor rewrites the file: half
\* lines, failed loads and forks lose no note.
NothingSkippedUnraced == count.race = 0 /\ count.rewrite = 0 => NothingSkipped

\* The transcript of a tailed session catches up with the notes of its file,
\* whenever OMP stops writing them, unless OMP wrote or answered something else
\* while a plan was read or replayed.
NoteShown ==
    tail.attached ~>
        \/ \A k \in 1 .. Len(disk) : IsNote(disk[k]) => \E i \in 1 .. Len(shown) : shown[i].id = disk[k].id
        \/ count.race > 0 \/ count.rewrite > 0 \/ count.other > 0
=============================================================================
