# Verification of the grok-pi bridge and of the shell's leader

grok-omp puts the Grok pager (a terminal interface written in Rust, `src/crates/`) in
front of OMP, another coding agent. The two speak ACP, JSON-RPC lines over pipes, but
not the same dialect: the pager expects the extensions of its own agent (`x.ai/*`), and
OMP does not have them. `src/bridge/adapter.mjs`, class `ExtSurface` and the pumps of
`runLive`, sits between them and makes up the difference: it is the product's own code.

The crates are the upstream program. The part of them where processes and threads meet
is the *leader* of `xai-grok-shell`: one background process per machine that several
pagers share, each over a Unix socket. It is elected with a lock file, takes requests of
every client to one agent, and lets clients attach to a session whose turn is running.

This directory holds TLA+ modules of the adapter's stateful parts and of the leader, the
TLC configurations that check them, and TLAPS proofs of the safety properties of all of
them.

## 1. Inventory

| Part | State | Operations | What makes it correct | Module |
|---|---|---|---|---|
| Virtual prompt queue | `held`, `running`, `inFlightPrompts`, `internalIds`, `turns`; the pager's queue pane of each session | prompt, send-now, /vibe, interject, compact, plan toggle, `queue/*`, responses, session new, load, resume, fork | every request answered once; no prompt cuts a tracked turn unasked; the pane of the session never hides a prompt | `PromptQueue`, `TurnSlot` |
| Subagent synthesis | `subagents`, `finishedSubagents`, `subagentSeq` | tool call start and updates, turn end, session switch | rows, registry and cancel answer agree; a row ends, once, and not before its jobs | `Subagents` |
| Session tailer and replay | `SessionTailer` (offset, pending, seen), `ReplayMatcher`, plan | load, fork, poll, replayed frames | a note of the file is shown, once, in its place | `SessionHistory` |
| Vibe workers | `vibeWorkers`, `finishedSubagents` | roster updates, lifecycle entries, resume | rows show what became of the worker | `VibeWorkers` |
| Catalog prefetch | `prefetch`, `prefetchSids`, held `initialize` | initialize, session/new, timer, updates | initialize is answered; the throwaway session goes and is not seen | `CatalogPrefetch` |
| Elicitation bridge and the pager's cards | `bridgedElicits`, `elicitIds`; the three cards of the pager | `elicitation/create`, `elicitation/complete`, the pager's answers | answered once, approved only by the user, the answer is the user's | `Elicitation`, `FormAnswers` |
| Leader connection | the client's read and write tasks, `run_client_session`, the socket | register, write and read of frames, shutdown | frames in order and without a gap, or the connection ends and both know | `LeaderWire` |
| Leader requests | `pending_requests`, `agent_busy`, `ModelSwitchTracker`, `default_model`, the relaunch drain | forward, answer, disconnect, relaunch | the newest model choice holds; busy is exact; a relaunch spares what it promised to | `LeaderRequests` |
| Session attach | `gateway_enabled`, `load_live_buffer`, `load_replay_max_seq`, `interaction_requests`, `updates.jsonl` | emit, attach (flush, replay, delta, gate), routing, interactions | a viewer sees every event once and in order, and the interaction that waits | `SessionAttach` |
| Leader election | the lock file and its flock, the pid in it, the socket file, the loop of `connect_or_spawn` | connect, spawn, acquire, evict, shut down | one leader; clients end with a connection or an error | `LeaderElection` |
| Command catalog waiters | `commands`, `commandsWaiters` | commands/list, its timer, catalog updates | each waiter answered once | planned |
| Provider login | `ompLogin` (phase, lines) | connect, output scan, code, cancel, exit | the phase never goes back | planned |
| Live pumps, worktrees, tape, usage, launcher, speech shim, the other crates | see PROJECT.json | | | not modelled |

How they interact, in the bridge. One JavaScript thread runs everything: a line of the
pager or of OMP, a timer or a promise's callback is handled to its end, `drainExt`
included, before the next. A handler is therefore one atomic action, and the hard
behaviour is between handlers: the pager and OMP are concurrent processes, a response
may come long after the state it was asked in (session switched, turn cut, card
retracted), and the session file is written by OMP while the adapter reads it. The parts
share the session switch (`resetQueue`), `finishedSubagents` (subagents and workers), and
the queue's turn end, which finishes subagents.

How they interact, in the leader. Clients and leaders are processes: they share the lock
file and the socket file, and may crash between any two system calls. Inside the leader
every connection has a session task, which turns frames into events for one main loop;
the loop talks to the agent over two channels; a session runs in an actor of its own and
hands what it emits to a persistence actor, while attaches run on the agent's thread.
An action is what happens between two awaits (or, for flags another thread reads, between
two of their accesses), or one system call where processes meet.

The hazards are listed in PROJECT.json, each at the line where it bites.

## 2. Modules

Each module's header says what is abstracted; `map` in PROJECT.json gives the lines of
every definition. Definitions named `X_Y` above a definition `X`, marked "Defect", are
plausible bugs of `X`; each property is shown to fail under one of them.

The bridge:

* `TurnSlot` is abstract: prompts are dispatched into one slot, the slot is freed by its
  own prompt's answer or by leaving the session, and late answers leave it alone.
* `PromptQueue` implements it (`TurnSlotKept`). `omp` is the set of requests sent to OMP
  and not answered; responses come in any order. An adapter id `xai-int-N` is `-N`, a
  pager id is positive, 0 is null. OMP's rule that a second prompt cuts the running turn
  is `Deliver`, the only external definition with an effect. A request carries the
  text OMP is sent and the entry the text that is shown, because an edit changes both.
  The pager keeps the last `queue/changed` of every session (`pane`). `session/new` and
  `fork` capture the session before `resetQueue`, so the empty snapshot goes to the session
  entered (`NewAnswered`); `load` and `resume` reset first, so it goes to the session left
  (`LoadAnswered`). `leftover` is history: the session was entered by a load and the queue
  has not changed since.
* `Subagents` extends the slot with tool calls. It has both of OMP's task modes: calls
  that return at their end, and calls that return at once and leave jobs running.
* `SessionHistory` has the file as a sequence of entries, sizes in half lines (so that a
  line can be half written), the plan, the matcher and the tailer. Its operators
  `observe*`, `firstMatch` and `advanceTo` are the matcher's algorithm.
* `VibeWorkers` has the two channels that report on a worker, the wire and the file.
* `CatalogPrefetch` has the adapter's task queue: frames, promise callbacks and the timer.
* `FormAnswers` holds the pure conversions of the elicitation bridge (form to question
  card, response to content); `Elicitation` the protocol of OMP, adapter and pager over
  three FIFO pipes. The pager's side (a card per kind, replacement, parking behind a
  waiting URL card, retraction, the response of the question card) is translated from
  the pager's Rust code.

The leader:

* `LeaderWire` is one connection. A frame is a length and its data, written by two calls
  and read by two; `part` says how far the newest frame has come, so that the leader's
  `select!` can drop a read between them. Registration, the wait for a ready agent, the
  shutdown with its ten yields and its drain, and the client's reaction are actions.
* `LeaderRequests` is the main loop with several clients. A request is `<<client, n>>`,
  which is what the namespaced id says. `choices` and `owed` are history: the model
  choices forwarded with their fate, and what was in flight when a relaunch was accepted.
* `SessionAttach` has the session actor, the attaches and the main loop as interleaved
  threads. The emit is three steps (persist, read the gate, forward); the attach is a
  program counter over gate, flush, replay, second flush, delta and answer, with its
  early returns. `dark`, `straddled`, `over` and `since` are history for the properties.
* `LeaderElection` has inodes, so that a path and a lock can part: `path` is the inode
  the lock path names, `holder` the flock of each inode. Clients run `connect_or_spawn`
  and leaders `run_leader`, a system call at a time. Timers may elapse at any time.

The four compose by what they leave open: `LeaderElection` ends with a connection,
`LeaderWire` carries it, and `LeaderRequests` and `SessionAttach` take what it delivers,
in order and without a gap, as `LeaderWire` shows.

`Filters` has the few operators on sequences and sets of numbers that the history and the
forms share. They are written out, where the community modules have the same
(`SelectSeq`, `Min`), because the proofs need their definitions as functions.

`MC*` give the constants TLC needs. The theorems about a module `M`, and the invariants
that only they need, are in `MProofs`: `PromptQueue`, `Subagents`, `VibeWorkers`,
`LeaderWire`, `LeaderRequests`, `LeaderElection` and `SessionAttach` have one each.
`BridgeProofs` has those of `Elicitation`, `CatalogPrefetch` and `SessionHistory`, which
share the lemmas about filtered sequences; the names of `CatalogPrefetch` and
`SessionHistory` carry a prefix (`PrefetchSpec`, `HistorySpec`) for that reason.

## 3. Runs

Deadlock is not checked: the pager may stop sending, a leader may have nothing to do, and
the bounded counters end.

| Run | Bounds | States | Shows |
|---|---|---|---|
| `queue_safety` | 5 requests, 2 internal ids, 2 sessions with returns to the first, 2 texts | 736,000 | no request lost or answered twice; slot, pane and text consistent; no unasked cut; implements `TurnSlot` |
| `queue_answers` | 4 requests, 1 text, all operations, requests that cross a switch | 86,000 | a dispatched prompt is answered in the end |
| `subagents_rows` | 2 calls, 3 turns, 1 switch, 3 rows | 254,000 | rows, registry and cancel agree; a row ends once, with its jobs, and in the end |
| `history_notes` | 3 files, 2 loads, 2 notes, 1 race, 1 rewrite, 1 foreign frame and response | 122,000 | notes in place, once, none lost without a race |
| `vibe_rows` | 2 workers, 4 entries, 3 updates, 2 switches, symmetric | 616,000 | rows show the truth when both channels are drained; answers agree |
| `prefetch_ends` | 3 updates | 1,158 | initialize answered once, throwaway session closed and deleted |
| `elicit_cards` | 2 elicitations, 5 forms | 411,000 | answered once and in the end; accept is the user's; no card left over; picks and texts come back |
| `leader_wire` | 4 frames up, 4 messages down | 11,384 | frames in order without a gap, none passed over before a shutdown, each arrives or the client knows |
| `leader_requests` | 2 clients with 2 and 1 requests, 2 models, symmetric | 2,553,000 | the default model is the newest choice not refused; busy is exact; a relaunch waits |
| `session_attach` | 2 clients, 2 events or interactions, buffer of 2, symmetric | 1,594,000 | every event once and in order; misses only behind a shut gate; cards agree |
| `leader_election` | 2 clients of 2 versions, 2 leaders, 2 spawns, 1 eviction, 1 fault | 479,000 | one leader and its socket until a lock file is unlinked; every client ends |
| `election_split` | 3 leaders of one version, the same | - | refuted: never two leaders |

Why the bounds are enough. The queue's interesting cases need a running turn, a cut one,
two held entries to reorder, and a request over a switch; a return is new, prompt, new,
load, prompt. That is five requests and two sessions; the two internal ids allow an interjection beside a compaction. A third
subagent row is needed for a call that is tracked again after a switch. In the history a
note is lost or moved by one misplaced match, so files have two equal texts, a message of
two chunks, a call with its result, and an orphan result; two loads allow a failed one
and a retry. Two workers let the log and the wire interleave over different subjects.
Two elicitations are what replacement and parking need. A prefetch is one of a kind. On
the wire a frame skipped or swallowed shows with the next one or two. Switches that
overtake each other are two of one client; the other client is there to leave with a
request in flight; the proofs cover every number. Two clients that attach overlap in the
gate, and two events straddle it. In the election two clients race to spawn, and the
fault hits the winner; the split needs a leader that leaves, one that has its inode open,
and one more that creates the next.

Conditions in the properties, each with its reason in the module's comment: `PaneFresh`
allows the snapshot of an earlier visit after a load, while nothing is held or running;
`NeverOverrun` is about the turns in `inFlightPrompts`, which a switch empties; `InPlace`
excepts results of announced calls, forks and rewritten files; `NothingSkippedUnraced`
excepts writes between read and size; `TruthShown` is stated where the wire outruns the
poll (`WireFirst`: the poll is a 400 ms timer, the wire a pipe) and before a switch;
`RunsWhileJobsRun` and `GivenUpEnds` speak of the first session; `TypedKept` of
a text typed in place of an option. `WireOrder`, `MissedOnlyDark` and `CardsAgree` except
a client whose buffer overflowed (`over`); `WireOrder` allows the repetition of an event
that a replay read in the middle of its emit (`straddled`); `MissedOnlyDark` allows what
was emitted behind a shut gate (`dark`), and says that nothing else is missed.
`CrashesNeverSplit` and `SocketKept` hold until a leader has unlinked the lock file, which
is the finding below.

Fairness. The adapter handles what it has read and its timers fire: an event loop never
starves a ready callback. The pager reads its pipe. OMP is assumed to answer prompts
(`Responds`), to finish the line it is writing, and to close a session it opened; where
the adapter has a timeout because OMP may not answer (`session/new`), no fairness of OMP
is assumed. `Subagents` assumes that OMP gives up or returns its calls and answers its
turns. In `LeaderWire` the tasks of both ends run and the leader's agent becomes
ready. In `LeaderElection` processes
that have not crashed or hung run; nobody need crash, hang or stop. No fairness is
assumed of the user.

`LeaderElection` is as on Linux. Elsewhere `confirmed_flock_holder` is `None`, so a leader
that hangs with the lock is never evicted and its clients wait in the loop of
`connect_or_spawn` without end (`ZombieAction::Clear`): `ClientsEnd` is for Linux only.

## 4. Findings

`NoSplitBrain` is refuted by `election_split`. `LeaderLock::drop` (`leader/lock.rs`) unlinks
the lock file by its path, and `try_acquire` does not compare the inode it locked with the
one at the path. A leader shuts down while a second process has the file open: the second
locks the old inode, a third creates and locks a new one, and both serve.
`leader/mod.rs:1969` says that the lock yields "exactly one client that evicts and spawns, so
no split-brain". No crash is needed. `CrashesNeverSplit` is what remains true.

### Known deviations without a run

Defined in the modules, refuted by TLC with the bounds given, and kept for who changes
this code. The first group contradicts a text of the repository.

| Statement | Text | Refuted with | What happens |
|---|---|---|---|
| `HeldDrains` (PromptQueue) | `adapter.mjs:3620`, `3098` | 3 prompts | nothing releases a held prompt when a turn settles |
| `NothingSkipped` (SessionHistory) | `adapter.mjs:996` | 1 load, 1 raced note; a rewrite; a fork with a note written while it is loaded | the size is asked after the content was read and tailing starts at it: what OMP writes between is in neither; a file that grew back is read from the middle |
| `KnownAcrossResume` (VibeWorkers) | `specs/vibe-mode.md:78` | 1 worker, 1 switch | the response of a load clears the worker records its own replay has just filled |
| `PrefetchHidden` (CatalogPrefetch) | `adapter.mjs:3925` | the timer before session/new is answered | the session is closed, but its updates go to the pager |
| `TypedWritten` (Elicitation) | `specs/interaction.md:50` | 1 elicitation, a multi-select | text typed beside picked options is dropped |
| `LostOnlyByFault` (LeaderWire) | `leader/client.rs:41`; `xai-grok-mcp/src/acp_transport.rs:97` on such reads: "must never be raced in a `select!`" | 1 frame, 1 message | the session's `select!` drops `read_message` after the length was read: the next length is taken from the data, and the connection ends |
| `OnlyAnotherReplaces` (SessionAttach) | pager `acp_handler/interactions.rs:90` | 1 client, 1 interaction | an interaction delivered by the buffer and again by the cache replaces itself: the pager answers the first copy "cancelled" |
| `NoGapBeforeGate` (SessionAttach) | `replay.rs:355` | 1 client, 1 event | the session actor runs on another thread: what it emits between the last flush and the gate is in neither the delta nor the live stream |
| `PaneAfterSwitch` (PromptQueue) | `adapter.mjs:3834`, `3812` | new, prompt, new, load of the first | `load` and `resume` reset the queue (2337) before they replace the session (2340): the empty snapshot goes to the session left, and the one entered shows the queue of its last visit until the next change |
| `EveryTurnSpared` (PromptQueue) | `adapter.mjs:2214` | the same and a prompt | the reset forgets the turn that still runs in the session left; after a return the next prompt is not held and cuts it |
| `NoViewParks` (Elicitation) | pager `acp_handler/interactions.rs:115`, `243`, `routing.rs:136`, test `tests/interactions.rs:598` | 1 elicitation | "leave the reverse-request unanswered", not an error; but a dropped `response_tx` is `RecvFailed` (`xai-acp-lib/src/channel.rs:53`), which goes out as an error, and the adapter cancels OMP's request |
| `QueueScope` (PromptQueue) | | 2 sessions, operation `vibe_rest` | the follow-up of a /vibe takes the slot of the next session; `queue_safety` leaves `vibe_rest` out for this reason |
| `TurnsThisSession` (PromptQueue) | | 2 sessions, `compact` | an internal turn of the session left is counted in the next |
| `FinishedWithTurn` (Subagents) | | 2 turns | tasks of a cut turn run on until the next turn ends |
| `BeforeNext` (SessionHistory) | | a call, a note, its result | the note comes behind the result |
| `FlushedByLoad` (SessionHistory) | | `MaxOther = 1` | the response of another request drops the queued notes |
| `ShownOnce` (SessionHistory) | | `MaxReload = 1` | loading the tailed session shows a note twice |
| `ClosedOnce` (CatalogPrefetch) | | 3 updates | commands and session/new in one chunk: closed twice, harmlessly |
| `CompleteCloses` (Elicitation) | | 1 URL elicitation | consent between elicit_complete and interaction_resolved leaves a waiting card |
| `PickedKept`, `TypedKept` (Elicitation) | | two untitled properties, or a boolean or number with titled choices | answers on the wrong key; false, or nothing, for the constant |

## 5. Proofs

A theorem holds for every value of the constants under the module's `ASSUME`, which bounds
nothing: natural numbers for bounds, and values kept apart (`"no worker"` is no worker, a
call is no number, the empty text is not typed, a process is a client or a leader).
Unless the text says otherwise the theorem has no other hypothesis. The inductive
invariants hold in TLC too with the bounds of the module's run, where it can evaluate them
(`Explained` quantifies over histories).

| Module | Theorem | States | For |
|---|---|---|---|
| `PromptQueueProofs` | `TypeCorrect`, `RequestsKept` | `TypeOK`, `NoRequestLost` | any pager |
| | `SlotIsLive`, `PaneIsFresh`, `TextIsShown` | `RunningIsLive`, `PaneFresh`, `SentAsShown` | any pager |
| | `QueueImplementsSlot` | the refinement of `TurnSlot` | any pager |
| | `NoTurnOverrun` | `NeverOverrun` | an orderly pager |
| `SubagentsProofs` | `RowsAlwaysAgree`, `RowsEndOnce`, `JobsKeepTheRow` | `RowsAgree`, `FinishIsFinal`, `RunsWhileJobsRun` | any set of calls |
| `VibeWorkersProofs` | `AnswersNeverContradict` | `AnswersAgree` | any set of workers |
| | `RowsShowTruth` | `TruthShown` | where the wire outruns the poll |
| `BridgeProofs` | `HeldAnswerIsWatched`, `LearnedSessionStaysHidden` | `HeldIsWatched`, `LearnedStaysHidden` | any number of updates |
| | `OneAnswerEach`, `OnlyTheUserAccepts`, `ShownIsAwaited` | `AnsweredOnce`, `AcceptIsUsers`, `CardsAreAwaited` | any forms, any number of elicitations |
| | `PicksKept`, `TextsKept` | `PickedKept`, `TypedKept` | forms that are `WellFormed` |
| | `NoNoteSkipped` | `NothingSkippedUnraced` | any files |
| | `NoNoteTwice` | `ShownOnce` | while the tailed session is not loaded again |
| | `NotesInPlace` | `InPlace` | files that are `WellPaired` |
| `LeaderWireProofs` | `FramesInOrder`, `NothingIsDropped` | `NoFrameSkipped`, `NothingDropped` | any traffic |
| `LeaderRequestsProofs` | `NewestChoiceKept`, `BusyIsExact`, `RelaunchWaits` | `NewestChoice`, `BusyExact`, `RelaunchSpares` | any clients (infinite sets too), models and bounds |
| `SessionAttachProofs` | `WireOrderHolds`, `MissedOnlyDarkHolds`, `CardsAgreeHold` | `WireOrder`, `MissedOnlyDark`, `CardsAgree` | any clients, events and interactions |
| `LeaderElectionProofs` | `CrashesLeaveOneLeader`, `SocketStays` | `CrashesNeverSplit`, `SocketKept` | any finite set of processes |

### PromptQueue

`NoRequestLost` is not inductive: answering a response could answer a client whose entry
is also held, or whose id a second request carries. `Custody` adds that ids at OMP, held
and internal are distinct (`AgentIdsDistinct`), were issued (`IdsIssued`), that an
internal record is there exactly while its request is at OMP (`InternalsAtAgent`), what
an entry and a record look like (`EntryShapes`), and that no pager request has two
holders (`OneHolder`). The argument: each action is one of a few moves of custody (a
request joins the queue, joins OMP, leaves, is answered), each a lemma (`JoinHeld`,
`JoinSent`, `Leave`, `Respond`, `Rearranged`, `Emptied`, ...) over sets of holders, and
`Kept<Action>` shows that an action is that move. `KeptNext` puts them together.

The slot is a second layer, on top of custody (`SlotHolds`). As far as the slot goes, every
action is one of five kinds of step: nothing happens to it (`Stays`), a prompt is sent and
takes it (`Sends`), its prompt settles (`Settles`), another answer comes (`Late`), or the
session is left (`Leaves`). `Step` says which kind, and what the queue, the records and the
pane hold afterwards; `StepNext` shows it action by action, `SlotStep` that such a step
keeps `SlotKept`, and `TurnStep` that it is a step of `TurnSlot` or none. `SlotKept` adds
to the three properties that a held entry would be sent as it is shown (`AsTyped`), or
an edit could part text and pane, and that internal records match their requests
(`RecordsMatch`). Of the panes it keeps their shape (one per session) and `PaneFresh`: a
step either broadcasts to the current session and ends a leftover, or leaves queue, slot
and panes alone, or is one of the two switches, after which the queue is empty.

`NoTurnOverrun` assumes `Orderly`, the pager of the run `queue_safety`: it addresses its
current session and sends no `/vibe` with a prompt. With the other pagers it is false; that
is `QueueScope` among the known deviations. It is about turns the adapter tracks: while the
slot is empty no tracked turn of the current session runs uncut, so a prompt not held cuts
none of them. Of a turn that a switch made it forget it is false (`EveryTurnSpared`).

### Subagents

`IInv` is `TypeOK`, `RowsAgree` and three parts that neither property states. `OwnRows`:
two tracked calls have two rows, or a finish would touch the row of another. `CallsBegin`:
an open call belongs to a turn that was not answered. `FirstSession`: until a session is
left, the one turn that is not cut is the slot's and its open calls are tracked as what
they are, or a turn's end could finish a call that is about to dispatch jobs. The lemmas
follow the observers of the code: on a frame an observer does nothing, spawns a row,
notes something on it, or finishes it.

### VibeWorkers

`AnswersAgree` follows from `Kept`: every record is in one of the forms that
`finishVibeWorker`, `ensureVibeWorker` and the revocation leave it in, and a worker that is
not known agrees vacuously after `resetQueue`.

`RowsShowTruth` is `WireFirst => (Spec => []TruthShown)`, and `TruthShown` speaks of the
session before a switch. What a row should show depends on the whole log. The invariant
`Explained` therefore says that some history `h`, a truth for each length of the log,
explains the file, every update on the wire and every row; each action extends `h` or
leaves it, and at the end of the log `h` is the truth.

### CatalogPrefetch

`CatalogInv` is `CatalogTypes`, `CatalogPhases` (what the timer, the held answer and the
pipes are before, during and after the prefetch) and `CatalogIds` (an id that was learned
is hidden once the prefetch is over, and nothing was forwarded before).

### Elicitation

The properties compare ends of three pipes. `IInv` is `TypeOK`, `OneOfEach` (one open card
of a kind, one parked, one waiting), and `\E st : Staged(st)`: each elicitation has a stage
(none, asked, carded or rawed, shown or failing, over) that says what each pipe, the pager
and the adapter may hold of it. The parts that make it inductive: a request that is
`bridged` has a card coming, a card shown or an answer under way, and a card nobody waits
for is followed in the pipe by its retraction. What the user typed and picked does not
matter here, so these three theorems hold for every form.

`PicksKept` and `TextsKept` are about what was typed and picked. `Faithful` carries it
through the protocol: a reply that accepts a form, and the answer OMP was sent for it, are
the `Response` and the `Content` of what the user said to that very form. The rest is about
the conversions, which filter sequences. What a filter returns (`Filtered`: a sequence of
members of S, all of them, in their order, and none twice if none was) is proved by
induction over the length, from the library's theorem that `<` on the naturals is well
founded, applied to the set of lengths for which the claim fails (`Smallest`,
`Induction`); no theorem with an operator as parameter is used. The hypothesis is
`WellFormed`: keys and question texts tell the properties of a form apart, labels tell the
choices of a property apart, no label is "Other", booleans and numbers have no choices.
Without it the two are false; those are the last line of the known deviations. TLC
evaluates it on the forms of the run.

### SessionHistory

Three invariants, each with a condition of its own, over `HistoryTypes` (entries are
numbered in the order they were written, which is the module's assumption about the files
OMP starts from).

* Unless OMP raced or rewrote (`UnracedInv`): what was read is the file until its size is
  asked for (`ReadKnown`); from then on the plan is the file up to the plan's size
  (`PlanKnown`), so an offset there skips nothing; and every note the tailer has not seen,
  half written ones included, is ahead of its offset (`Ahead`, which a poll keeps). A
  forked file that is still to be skipped to its end holds only what was seen
  (`SkipKnown`).
* Until the tailed session is loaded again (`OnceInv`): the notes shown during a replay are
  those before the matcher's cursor, and what is shown after it the tailer has seen.
  Loading the tailed session does show a note twice (section 4), so the condition stays.
* Unless OMP rewrote (`LaidInv`), for a load: only notes were written since the plan was
  read (`PlanIsPrefix`); OMP replays the messages of that file in their order
  (`ReplayKnown`); what is shown was passed by the cursor and what is to be replayed was
  not (`Passed`); and the matcher follows the replay (`Follows`): every message replayed so
  far is before the cursor, tool results excepted, the current message is the one whose
  id it remembers, and the tool ids it knows were replayed.

The heart of `NotesInPlace` is `MatchesItself`: the first unit at or after the cursor whose
signature is the one of a message's first frame is the unit of that very message. An
earlier unit with the same signature would be a message that was replayed and is not
before the cursor, so the result of an announced call (`Follows`), and then the ids of
two results would be equal, which `WellPaired` excludes: a tool id belongs to its call and
then to its result, or to one of them. That is the hypothesis; OMP makes a fresh id for
every call. TLC evaluates it on the files of the run. Equal texts need no hypothesis.


### LeaderWire

`IInv` is `TypeOK`, `Phases`, `Upwards` (what is unread continues what was reported, and
how much of the newest frame has come) and `Downwards`, stated over `Pending`, the line
followed by the out queue: numbered up to the newest message, with the greeting in front and a
shutdown at most at the end. A dropped read leaves `Upwards` true because the connection
ends before the next frame is reported.

### LeaderRequests

None of the three is inductive. `NewestChoice` needs to know that the tracker's confirmed
model is a choice of the history, that what is outstanding is exactly what is open, that
sequence numbers are unique and not above the counter, and that a newest one exists among
any switches outstanding (`Kept`): then `DefaultModel` is the newest open choice or, with
none open, the confirmed one, and a refusal or a late answer moves neither past it.
`BusyExact` needs that an id is not sent twice (`Issued`), or the set at the agent would
not grow with the count. `RelaunchSpares` needs `BusyExact`: the drain reads the flag and
not the requests. The lemmas are about the tracker's operations, one per operation, and
the cardinality of what is in flight; each action is then one step.

### SessionAttach

`IInv` has seventeen parts. They account for every event between the session and a viewer.
`SessionInv` and `ReachedInv`: one that the session is done with was emitted behind a shut
gate, was routed before the viewer subscribed, or is on the wire, in the viewer's buffer or
shown. `CoverInv`: what the client's replay reached is shown or on the wire to it.
`LiveInv`, `RepInv`, `LogInv`, `LoadingInv` and `InInv` are the order: of live events on the
wire, of a replay and what is live after it (equal only for an event that a replay read in
the middle of its emit), and of what a viewer that loads, or has loaded, was shown.
`TaskInv`, `LifeInv`, `AnswerInv`, `RequestInv` and `OutInv` say where in an attach a client
can be while any of this is under way: one request, one answer, and nothing to it after
the answer. `OpenInv`, `CardInv` and `BufferInv` do the same for interactions: an open one
is in the cache or on the wire, and what a card or a buffer holds is open or is followed by
its resolution. A client whose buffer overflowed is left out, as in the properties.

### LeaderElection

`IInv` is `TypeOK`, `OneInode` (a process has one inode at most, open or locked, and locks
what it opened) and `OneLockFile` (until a lock file is unlinked every open or locked
inode is the one at the path, and a leader past `try_acquire` holds it). `OneInode` must be
kept after an unlink too, since it is what limits the inodes in use: there is always a free
one for `open_lock_file` to create (`FreeInode`, by the pigeonhole principle).
`OneServesUntilUnlinked` states the part of `CrashesNeverSplit` a user would ask for. The
condition cannot be dropped: `election_split` refutes the rest.

### Only model-checked

* All liveness (`DispatchedIsAnswered`, `GivenUpEnds`, `NoteShown`, `Initialized`,
  `OrphanGone`, `Settles`, `FrameArrives`, `ClientsEnd`): it needs fairness and `ENABLED`.
* `InPlace` for a file that OMP rewrites while loading, `ShownOnce` after a reload and
  `NothingSkipped` with a race are false (section 4), not unproved.

Every safety property of a passing run is stated by a theorem.

## 6. Not modelled

In the bridge: the window of `buildReplayPlan` (parent chain, compaction, dangling
calls), worker transcripts and async results, the answers that only read files, git
worktrees, usage sums, the launcher, the speech shim, tape recording. In the leader:
reconnect cursors, child sessions, events that are not persisted, the activity of sessions
and subagents (`agent_activity`), and the control requests that only read.

Smaller abstractions inside the modules: in `Subagents` a turn stops as cancelled exactly
when a later prompt cut it, so the user's own `session/cancel` (`adapter.mjs:2672`) is not
exercised. In `SessionHistory` a load fails only before OMP answered it; a failed stat,
which makes the offset 0 (`adapter.mjs:1068`), and short reads are left out. In
`CatalogPrefetch` the session's file is deleted in the step of the close's answer and not in
the callback of its promise. In `SessionAttach` an event is any that is forwarded live; the
user's own chunks are not (`suppress_live_user_echo`, `updates.rs:445`). In `LeaderElection`
a client does not crash and is not cancelled while it holds the lock (`LeaderLock::drop`,
`lock.rs:270`); leaders do and are.

The rest of the crates
is the upstream agent, which OMP takes the place of, and the pager's drawing and input:
by far most of the lines of this repository, and not the subject here. PROJECT.json gives
the reason for each.

## 7. Plan

Order: the parts whose failures a user meets first came first (queue, rows, history,
workers), then start-up and dialogs, then the process that several pagers share. Next:

1. `CommandCatalog`: commands/list waiters over timers, updates and session switches.
2. `ProviderLogin`: phases of `ompLogin` under output chunks, code, cancel and exit.
3. `ReplayPlan`: the window of `buildReplayPlan` as an operator over entry trees, checked
   against a reference, and composed with `SessionHistory`.
4. Worker transcripts and async results in `VibeWorkers`; reconnect cursors in
   `SessionAttach`.
5. `CircuitBreaker` (`src/crates/common/xai-circuit-breaker`), a small machine with proofs.
6. Proofs: the safety part of what the modules above will state. Liveness stays with TLC.
