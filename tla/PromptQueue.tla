---------------------------- MODULE PromptQueue ----------------------------
(***************************************************************************)
(* The virtual prompt queue of the grok-pi bridge (src/bridge/adapter.mjs, *)
(* class ExtSurface).  The adapter sits between the pager (the TUI, an ACP *)
(* client) and OMP (the coding agent, an ACP server).  OMP cancels a       *)
(* running turn when a second session/prompt reaches the same session, so  *)
(* the adapter keeps the extra prompts in `held'.                          *)
(*                                                                         *)
(* The adapter is one JavaScript thread: each line of the pager or of OMP  *)
(* is handled to completion (handler, then drainExt), so a handler is one  *)
(* atomic action.  The two peers are concurrent: the pager sends anything  *)
(* at any time, and OMP answers what it was sent in any order.  `omp' is   *)
(* the set of requests emitted to OMP whose response the adapter has not   *)
(* read: both pipes and the agent itself.                                  *)
(*                                                                         *)
(* Ids.  A pager request id is a positive integer, an adapter id           *)
(* "xai-int-N" is -N, and 0 is JavaScript's null or undefined.  An entry's *)
(* queueId is abstracted to its agentId: the two are created together.     *)
(***************************************************************************)
EXTENDS Integers, Sequences, FiniteSets

CONSTANTS
    MaxReq,      \* bound: requests the pager sends
    MaxInt,      \* bound: adapter-internal ids
    MaxSession,  \* bound: sessions, stored or new, that the pager hears of
    Texts,       \* prompt texts the pager types
    PagerOps,    \* the operations this instance's pager uses
    Crossing     \* may the pager still address a session it has left?

Ops == {"prompt", "send_now", "vibe", "vibe_rest", "interject", "compact", "plan",
        "remove", "reorder", "clear", "edit", "promote", "new", "load"}

ASSUME QueueConstants ==
    /\ MaxReq \in Nat /\ MaxInt \in Nat /\ MaxSession \in Nat
    /\ Texts # {}
    /\ PagerOps \subseteq Ops
    /\ Crossing \in BOOLEAN

VARIABLES
    session,     \* the adapter's current session: 0, or its number
    known,       \* sessions are numbered as the pager hears of them: 1 .. known
    held,        \* the held prompts, in queue order
    running,     \* the prompt the adapter believes OMP is answering
    inFlight,    \* inFlightPrompts: agent ids of prompts not yet settled
    internal,    \* internalIds: adapter-internal id -> its record
    internalSeq, \* the last adapter-internal id handed out
    turns,       \* settled turns counted for x.ai/session/info
    pane,        \* session -> the queue the pager shows: its last queue/changed
    leftover,    \* history: no snapshot since a load entered the session
    omp,         \* requests at OMP (either pipe included), not yet answered
    nreq,        \* requests the pager has sent
    answers      \* how many responses each pager request has received

paneVars == <<pane, leftover>>
queueVars == <<session, known, held, running, inFlight, internal, internalSeq, turns, paneVars>>
vars == <<queueVars, omp, nreq, answers>>

Clients    == 1 .. MaxReq
Internals  == { -n : n \in 1 .. MaxInt }
AgentIds   == Clients \cup Internals
Sessions   == 0 .. MaxSession
Kinds      == {"prompt", "interjection", "compact"}

Entries == [agent: AgentIds, client: Clients \cup {0}, kind: Kinds,
            sid: Sessions, text: Texts, body: Texts]
Records == [kind: Kinds \cup {"vibeMode", "internal"}, client: Clients \cup {0},
            follow: {<<>>} \cup { <<e>> : e \in Entries }]

\* What OMP was asked.  `cut' says whether OMP has cancelled the turn because a
\* later prompt reached its session: "no", cut by a send-now, or overrun by a
\* prompt that should have been held.
Requests == [id: AgentIds, op: {"prompt", "set_mode", "new", "load"}, sid: Sessions,
             body: Texts, cut: {"no", "sent_now", "overrun"}]

NoTurn == [agent |-> 0]
Idle == running = NoTurn

Put(f, k, v) == [x \in DOMAIN f \cup {k} |-> IF x = k THEN v ELSE f[x]]
Drop(f, k)   == [x \in DOMAIN f \ {k} |-> f[x]]
RemoveIndex(s, i) == [j \in 1 .. Len(s) - 1 |-> IF j < i THEN s[j] ELSE s[j + 1]]

-----------------------------------------------------------------------------
(* OMP, modelled from how the adapter uses it: a prompt that reaches a       *)
(* session cancels the turn that runs there.                                 *)
Deliver(requests, e, how) ==
    { IF m.op = "prompt" /\ m.sid = e.sid /\ m.cut = "no"
        THEN [m EXCEPT !.cut = how] ELSE m : m \in requests }
      \cup {[id |-> e.agent, op |-> "prompt", sid |-> e.sid, body |-> e.body, cut |-> "no"]}

\* A request that is no prompt has no text to speak of.
AnyText == CHOOSE t \in Texts : TRUE
Ask(id, op, sid) ==
    omp' = omp \cup {[id |-> id, op |-> op, sid |-> sid, body |-> AnyText, cut |-> "no"]}

-----------------------------------------------------------------------------
(* Helpers of the handlers.                                                  *)

Snapshot(entries, run) ==
    [entries |-> [i \in 1 .. Len(entries) |-> <<entries[i].agent, entries[i].text>>],
     running |-> run]

\* queue/changed names the adapter's session s; without a session nothing is sent.
Painted(s, entries, run) ==
    IF s = 0 THEN pane ELSE [pane EXCEPT ![s] = Snapshot(entries, run)]

broadcastQueue ==
    /\ pane' = Painted(session, held', running')
    /\ leftover' = FALSE

\* internalIds once e is dispatched: a pager's prompt keeps the pager's own id.
Recorded(records, e) ==
    IF e.client # e.agent
      THEN Put(records, e.agent, [kind |-> e.kind, client |-> e.client, follow |-> <<>>])
      ELSE records

\* dispatchEntry, on the agent's requests and the internal ids of the moment.
\* `how' tells what the dispatch means for a turn still running in e's session.
dispatchEntry(e, how, records, requests) ==
    /\ internal' = Recorded(records, e)
    /\ inFlight' = inFlight \cup {e.agent}
    /\ running' = [agent |-> e.agent, text |-> e.text]
    /\ omp' = Deliver(requests, e, how)

\* Defect: the running turn is not looked at.
holdOrDispatch_Eager(e, records, requests) ==
    /\ dispatchEntry(e, "overrun", records, requests)
    /\ UNCHANGED held

\* Hold the entry behind the running turn, or dispatch it when there is none.
holdOrDispatch(e, records, requests) ==
    \/ /\ ~Idle
       /\ held' = Append(held, e)
       /\ internal' = records
       /\ omp' = requests
       /\ UNCHANGED <<running, inFlight>>
    \/ /\ Idle
       /\ dispatchEntry(e, "overrun", records, requests)
       /\ UNCHANGED held

\* The number of answers cancelHeld sends to request c when the entries at the
\* positions I leave the queue unsent; an interjection has no client to answer.
Cancelled(c, I) == Cardinality({i \in I : held[i].client = c})
\* Defect: an entry that leaves the queue unsent is not answered.
cancelHeld_Silent(I) == answers

cancelHeld(I) == [c \in Clients |-> answers[c] + Cancelled(c, I)]

answer(c) == [answers EXCEPT ![c] = @ + 1]

\* Defects for the mutation runs: any response frees the slot; no repaint.
settleTurn_Any(id) ==
    /\ inFlight' = inFlight \ {id}
    /\ turns' = turns + 1
    /\ running' = NoTurn
    /\ pane' = Painted(session, held, NoTurn)
    /\ leftover' = FALSE
settleTurn_NoBroadcast(id) ==
    /\ inFlight' = inFlight \ {id}
    /\ turns' = turns + 1
    /\ running' = IF running.agent = id THEN NoTurn ELSE running
    /\ UNCHANGED paneVars

\* settleTurn: only the prompt that holds the slot releases it.
settleTurn(id) ==
    /\ inFlight' = inFlight \ {id}
    /\ turns' = turns + 1
    /\ \/ /\ running.agent # id
          /\ UNCHANGED <<running, paneVars>>
       \/ /\ running.agent = id
          /\ running' = NoTurn
          /\ pane' = Painted(session, held, NoTurn)
          /\ leftover' = FALSE

-----------------------------------------------------------------------------
(* Requests and notifications of the pager.                                  *)

NewRequest == nreq < MaxReq /\ nreq' = nreq + 1
NewInternal == internalSeq < MaxInt /\ internalSeq' = internalSeq + 1
PagerSids == {s \in Sessions \ {0} : IF Crossing THEN s <= known ELSE s = session}

PromptEntry(sid, t) ==
    [agent |-> nreq + 1, client |-> nreq + 1, kind |-> "prompt", sid |-> sid, text |-> t, body |-> t]
\* Defect: the entry is queued without an agent id.
InternalEntry_NoId(kind, c, sid, t) ==
    [agent |-> 0, client |-> c, kind |-> kind, sid |-> sid, text |-> t, body |-> t]

InternalEntry(kind, c, sid, t) ==
    [agent |-> -(internalSeq + 1), client |-> c, kind |-> kind, sid |-> sid, text |-> t, body |-> t]

Prompt(sid, t) ==
    /\ "prompt" \in PagerOps
    /\ NewRequest
    /\ holdOrDispatch(PromptEntry(sid, t), internal, omp)
    /\ broadcastQueue
    /\ UNCHANGED <<session, known, internalSeq, turns, answers>>

\* session/prompt with _meta.sendNow: OMP's implicit cancel is what is wanted.
PromptSendNow(sid, t) ==
    /\ "send_now" \in PagerOps
    /\ NewRequest
    /\ dispatchEntry(PromptEntry(sid, t), "sent_now", internal, omp)
    /\ UNCHANGED held
    /\ broadcastQueue
    /\ UNCHANGED <<session, known, internalSeq, turns, answers>>

\* The /vibe passthrough: set_mode first; with an argument, the prompt follows
\* the mode's answer under the pager's own request id.
VibePrompt(sid, t, rest) ==
    /\ (IF rest THEN "vibe_rest" ELSE "vibe") \in PagerOps
    /\ NewRequest
    /\ NewInternal
    /\ internal' = Put(internal, -(internalSeq + 1),
                       [kind |-> "vibeMode", client |-> nreq + 1,
                        follow |-> IF rest THEN <<PromptEntry(sid, t)>> ELSE <<>>])
    /\ Ask(-(internalSeq + 1), "set_mode", sid)
    /\ UNCHANGED <<session, known, held, running, inFlight, turns, paneVars, answers>>

\* x.ai/interject is answered {status: "queued"} at once.
Interject(sid, t) ==
    /\ "interject" \in PagerOps
    /\ NewRequest
    /\ NewInternal
    /\ holdOrDispatch(InternalEntry("interjection", 0, sid, t), internal, omp)
    /\ broadcastQueue
    /\ answers' = answer(nreq + 1)
    /\ UNCHANGED <<session, known, turns>>

\* x.ai/compact_conversation is answered when the /compact turn settles.
Compact(sid, t) ==
    /\ "compact" \in PagerOps
    /\ NewRequest
    /\ NewInternal
    /\ holdOrDispatch(InternalEntry("compact", nreq + 1, sid, t), internal, omp)
    /\ broadcastQueue
    /\ UNCHANGED <<session, known, turns, answers>>

TogglePlanMode ==
    /\ "plan" \in PagerOps
    /\ NewInternal
    /\ internal' = Put(internal, -(internalSeq + 1), [kind |-> "internal", client |-> 0, follow |-> <<>>])
    /\ Ask(-(internalSeq + 1), "set_mode", session)
    /\ UNCHANGED <<session, known, held, running, inFlight, turns, paneVars, nreq, answers>>

\* session/new and session/fork are forwarded under the pager's id.
NewSession ==
    /\ "new" \in PagerOps
    /\ NewRequest
    /\ Ask(nreq + 1, "new", 0)
    /\ UNCHANGED <<queueVars, answers>>

\* session/load and session/resume too: of a stored session the pager had not
\* opened, or of one that it has left (or is in).
LoadSession(sid) ==
    /\ "load" \in PagerOps
    /\ NewRequest
    /\ known' = IF sid > known THEN sid ELSE known
    /\ Ask(nreq + 1, "load", sid)
    /\ UNCHANGED <<session, held, running, inFlight, internal, internalSeq, turns, paneVars, answers>>

\* queue/*: the mutations act on the held entry the pager names; an id that is
\* no longer held changes nothing.
QueueRemove(i) ==
    /\ "remove" \in PagerOps
    /\ held' = RemoveIndex(held, i)
    /\ answers' = cancelHeld({i})
    /\ UNCHANGED <<session, known, running, inFlight, internal, internalSeq, turns, omp, nreq>>
    /\ broadcastQueue

QueueClear ==
    /\ "clear" \in PagerOps
    /\ held # <<>>
    /\ held' = <<>>
    /\ answers' = cancelHeld(DOMAIN held)
    /\ UNCHANGED <<session, known, running, inFlight, internal, internalSeq, turns, omp, nreq>>
    /\ broadcastQueue

\* queue/reorder: a stable sort by the rank the pager's orderedIds give; an
\* entry it does not name ranks last.
StableSort(p, rank) ==
    \A i, j \in DOMAIN held : i < j =>
        \/ rank[p[i]] < rank[p[j]]
        \/ rank[p[i]] = rank[p[j]] /\ p[i] < p[j]

Shuffles(n) ==
    {p \in [1 .. n -> 1 .. n] : /\ \A i, j \in 1 .. n : p[i] = p[j] => i = j
                               /\ \A j \in 1 .. n : \E i \in 1 .. n : p[i] = j}

QueueReorder(rank) ==
    /\ "reorder" \in PagerOps
    /\ \E p \in Shuffles(Len(held)) :
          /\ StableSort(p, rank)
          /\ held' = [i \in DOMAIN held |-> held[p[i]]]
    /\ UNCHANGED <<session, known, running, inFlight, internal, internalSeq, turns, omp, nreq, answers>>
    /\ broadcastQueue

\* Defect: only the text that is shown changes.
Edited_ShownOnly(e, t) == [e EXCEPT !.text = t]

\* Both copies of the text change: the one shown and the one OMP will be sent.
Edited(e, t) == [e EXCEPT !.text = t, !.body = t]

QueueEdit(i, t) ==
    /\ "edit" \in PagerOps
    /\ held' = [held EXCEPT ![i] = Edited(@, t)]
    /\ UNCHANGED <<session, known, running, inFlight, internal, internalSeq, turns, omp, nreq, answers>>
    /\ broadcastQueue

\* queue/interject: promote a held entry now, with its text or a new one.
QueueInterject(i, t) ==
    /\ "promote" \in PagerOps
    /\ held' = RemoveIndex(held, i)
    /\ dispatchEntry(Edited(held[i], t), "sent_now", internal, omp)
    /\ broadcastQueue
    /\ UNCHANGED <<session, known, internalSeq, turns, nreq, answers>>

-----------------------------------------------------------------------------
(* Responses of OMP: handleAgentResponse, then observeToClient.              *)

\* Defect: the reset forgets the running prompt.
resetQueue_KeepsSlot(m) ==
    /\ answers' = [c \in Clients |->
                     answers[c] + Cancelled(c, DOMAIN held) + (IF c = m.id THEN 1 ELSE 0)]
    /\ held' = <<>>
    /\ inFlight' = {}
    /\ turns' = 0
    /\ UNCHANGED running

\* resetQueue, with the answer m that is forwarded.
resetQueue(m) ==
    /\ answers' = [c \in Clients |->
                     answers[c] + Cancelled(c, DOMAIN held) + (IF c = m.id THEN 1 ELSE 0)]
    /\ held' = <<>>
    /\ running' = NoTurn
    /\ inFlight' = {}
    /\ turns' = 0

\* The error of a session/new, load, resume or fork: forwarded.
SwitchFailed(m) ==
    /\ m.op \in {"new", "load"}
    /\ answers' = answer(m.id)
    /\ omp' = omp \ {m}
    /\ UNCHANGED <<queueVars, nreq>>

\* The result of session/new or fork carries the session's id: the session is
\* captured first, so the snapshot of resetQueue goes to the session entered and
\* the one that is left keeps its last one.
NewAnswered(m) ==
    /\ m.op = "new"
    /\ \E s \in Sessions : s = known + 1 /\ session' = s /\ known' = s
    /\ resetQueue(m)
    /\ pane' = Painted(session', <<>>, NoTurn)
    /\ leftover' = FALSE
    /\ omp' = omp \ {m}
    /\ UNCHANGED <<internal, internalSeq, nreq>>

\* The result of session/load or resume: resetQueue runs before the session is
\* replaced, so its snapshot goes to the session that is left, and the one that
\* is entered keeps the snapshot of its last visit.
LoadAnswered(m) ==
    /\ m.op = "load"
    /\ session' = m.sid
    /\ resetQueue(m)
    /\ pane' = Painted(session, <<>>, NoTurn)
    /\ leftover' = (m.sid # session)
    /\ omp' = omp \ {m}
    /\ UNCHANGED <<known, internal, internalSeq, nreq>>

\* Defect: the pager request behind the turn is forgotten.
InternalTurnAnswered_Mute(m) ==
    /\ m.id \in DOMAIN internal
    /\ internal[m.id].kind \in Kinds
    /\ internal' = Drop(internal, m.id)
    /\ settleTurn(m.id)
    /\ omp' = omp \ {m}
    /\ UNCHANGED <<session, known, held, internalSeq, nreq, answers>>

\* An adapter-internal prompt (interjection, compact) settled: consumed, and
\* the pager request behind it, if any, is answered.
InternalTurnAnswered(m) ==
    /\ m.id \in DOMAIN internal
    /\ internal[m.id].kind \in Kinds
    /\ internal' = Drop(internal, m.id)
    /\ settleTurn(m.id)
    /\ answers' = IF internal[m.id].client = 0 THEN answers ELSE answer(internal[m.id].client)
    /\ omp' = omp \ {m}
    /\ UNCHANGED <<session, known, held, internalSeq, nreq>>

\* set_mode of a /vibe: its error, or its success with no prompt behind it,
\* settles the pager's request; else the follow-up prompt enters the queue.
VibeModeAnswered(m) ==
    /\ m.id \in DOMAIN internal
    /\ internal[m.id].kind = "vibeMode"
    /\ \/ /\ internal' = Drop(internal, m.id)
          /\ omp' = omp \ {m}
          /\ answers' = answer(internal[m.id].client)
          /\ UNCHANGED <<held, running, inFlight, paneVars>>
       \/ /\ internal[m.id].follow # <<>>
          /\ holdOrDispatch(internal[m.id].follow[1], Drop(internal, m.id), omp \ {m})
          /\ broadcastQueue
          /\ UNCHANGED answers
    /\ UNCHANGED <<session, known, internalSeq, turns, nreq>>

\* Any other adapter-internal request: consumed.
InternalAnswered(m) ==
    /\ m.id \in DOMAIN internal
    /\ internal[m.id].kind = "internal"
    /\ internal' = Drop(internal, m.id)
    /\ omp' = omp \ {m}
    /\ UNCHANGED <<session, known, held, running, inFlight, internalSeq, turns, paneVars, nreq, answers>>

\* A pager prompt settled: the turn settles and the response passes through.
PromptAnswered(m) ==
    /\ m.op = "prompt"
    /\ m.id \notin DOMAIN internal
    /\ m.id \in inFlight
    /\ settleTurn(m.id)
    /\ answers' = answer(m.id)
    /\ omp' = omp \ {m}
    /\ UNCHANGED <<session, known, held, internal, internalSeq, nreq>>

\* A pager prompt whose session was left before it settled: only forwarded.
LatePromptAnswered(m) ==
    /\ m.op = "prompt"
    /\ m.id \notin DOMAIN internal
    /\ m.id \notin inFlight
    /\ answers' = answer(m.id)
    /\ omp' = omp \ {m}
    /\ UNCHANGED <<queueVars, nreq>>

AgentResponse(m) ==
    \/ SwitchFailed(m)
    \/ NewAnswered(m)
    \/ LoadAnswered(m)
    \/ InternalTurnAnswered(m)
    \/ VibeModeAnswered(m)
    \/ InternalAnswered(m)
    \/ PromptAnswered(m)
    \/ LatePromptAnswered(m)

-----------------------------------------------------------------------------
Init ==
    /\ session = 0
    /\ known = 0
    /\ held = <<>>
    /\ running = NoTurn
    /\ inFlight = {}
    /\ internal = [x \in {} |-> 0]
    /\ internalSeq = 0
    /\ turns = 0
    /\ pane = [s \in 1 .. MaxSession |-> Snapshot(<<>>, NoTurn)]
    /\ leftover = FALSE
    /\ omp = {}
    /\ nreq = 0
    /\ answers = [c \in Clients |-> 0]

PagerRequest ==
    \/ NewSession
    \/ TogglePlanMode
    \/ \E sid \in Sessions \ {0} : sid <= known + 1 /\ LoadSession(sid)
    \/ \E t \in Texts, sid \in PagerSids :
          \/ Prompt(sid, t)
          \/ PromptSendNow(sid, t)
          \/ \E rest \in BOOLEAN : VibePrompt(sid, t, rest)
          \/ Interject(sid, t)
          \/ Compact(sid, t)

QueueMutation ==
    \/ QueueClear
    \/ \E rank \in [DOMAIN held -> 1 .. Len(held)] : QueueReorder(rank)
    \/ \E i \in DOMAIN held :
          \/ QueueRemove(i)
          \/ \E t \in Texts : QueueEdit(i, t) \/ QueueInterject(i, t)

Next == PagerRequest \/ QueueMutation \/ \E m \in omp : AgentResponse(m)

Spec == Init /\ [][Next]_vars

\* OMP answers every request it is sent, in the end; the adapter reads it.
Responds == \A id \in AgentIds : WF_vars(\E m \in omp : m.id = id /\ AgentResponse(m))
FairSpec == Spec /\ Responds

-----------------------------------------------------------------------------
(* Properties.                                                               *)

TypeOK ==
    /\ session \in Sessions
    /\ known \in Sessions
    /\ held \in Seq(Entries)
    /\ running \in {NoTurn} \cup [agent: AgentIds, text: Texts]
    /\ inFlight \subseteq AgentIds
    /\ DOMAIN internal \subseteq Internals
    /\ \A a \in DOMAIN internal : internal[a] \in Records
    /\ internalSeq \in 0 .. MaxInt
    /\ turns \in Nat
    /\ omp \subseteq Requests
    /\ nreq \in 0 .. MaxReq
    /\ answers \in [Clients -> Nat]

\* The pager request whose answer waits for the response with this id.
ClientOf(id) == IF id \in DOMAIN internal THEN internal[id].client ELSE id

HeldFor(c) == \E i \in DOMAIN held : held[i].client = c
AtAgent(c) == \E m \in omp : ClientOf(m.id) = c
Waiting(c) == HeldFor(c) \/ AtAgent(c)

\* Whatever the queue operations, the send-nows and the session switches do
\* to a prompt while OMP answers it, each pager request is answered exactly
\* once: while unanswered it is held or waits for a response of OMP, and once
\* answered it is in neither place, so it is never answered again.  (cancelHeld,
\* handleAgentResponse and resetQueue share that duty.)
NoRequestLost ==
    \A c \in 1 .. nreq :
        \/ answers[c] = 0 /\ Waiting(c)
        \/ answers[c] = 1 /\ ~Waiting(c)

\* The adapter never sends OMP a prompt that cuts a running turn unless the
\* user asked for it (send-now): the reason the queue exists (adapter.mjs:2214).
\* It speaks of the turns the adapter tracks (inFlightPrompts): resetQueue forgets
\* a turn that still runs in the session that is left, and the first prompt after
\* a load of that session may cut it.
NeverOverrun == \A m \in omp : m.cut = "overrun" => m.id \notin inFlight

\* The same of every turn, also of one whose session was left and loaded again:
\* "OMP cancels a running turn when a second session/prompt arrives, so the
\* adapter holds extra prompts" (adapter.mjs:2214).
EveryTurnSpared == \A m \in omp : m.cut # "overrun"

\* The slot never outlives its turn: the running prompt is still at OMP, not
\* cut by a later one, and its response will be recognised (inFlightPrompts).
RunningIsLive ==
    ~Idle => \E m \in omp : /\ m.id = running.agent
                            /\ m.op = "prompt"
                            /\ m.cut = "no"
                            /\ m.id \in inFlight

\* The queue pane of the current session, repainted only by queue/changed, shows
\* the queue whatever order of visits, responses and edits led here.  The one
\* exception: a load or resume returns to a session without a snapshot for it,
\* and the pane keeps what an earlier visit left there.  That ends with the first
\* change of the queue, so a prompt that is held or running is never hidden.
PaneFresh ==
    session # 0 => IF leftover THEN held = <<>> /\ Idle
                               ELSE pane[session] = Snapshot(held, running)

\* "Drop all queue state on a session switch" (adapter.mjs:3834) and "the virtual
\* queue snapshot the pager's queue pane repaints on" (3812), taken together: the
\* session that was switched to shows the queue.
PaneAfterSwitch == session # 0 => pane[session] = Snapshot(held, running)

\* The text OMP works on is the text the pane shows as running, however often
\* the entry was edited while it was held (queue/edit, queue/interject).
SentAsShown ==
    ~Idle => \A m \in omp : m.id = running.agent => m.body = running.text

\* The queue implements the slot of TurnSlot, whatever it holds, promotes or
\* resets: a prompt cut by a send-now settles late and leaves the slot alone,
\* and only the slot's own prompt or a session switch frees it (settleTurn).
Turn == INSTANCE TurnSlot WITH
    Turns <- AgentIds,
    slot <- running.agent,
    sent <- {m.id : m \in {r \in omp : r.op = "prompt"}}
TurnSlotKept == Turn!TurnSpec

\* A prompt that was dispatched is answered to the pager in the end, also one
\* that a send-now cut or whose session was left.
DispatchedIsAnswered ==
    \A c \in Clients :
        (\E m \in omp : m.op = "prompt" /\ ClientOf(m.id) = c) ~> answers[c] = 1

\* "Hold extra prompts client-side and drain FIFO when the turn settles"
\* (adapter.mjs:3098): a held prompt does not stay held for ever.
HeldDrains == \A c \in Clients : HeldFor(c) ~> ~HeldFor(c)

\* "A new session replaces the queue scope" (adapter.mjs:2297): the slot and
\* the queue only hold prompts of the current session.
QueueScope ==
    /\ \A i \in DOMAIN held : held[i].sid = session
    /\ \A m \in omp : m.id = running.agent => m.sid = session

\* "reset queue + usage scope" (adapter.mjs:2325): turns counts the turns of
\* the current session only.
TurnsThisSession == [][turns' > turns => \A m \in omp \ omp' : m.sid = session]_vars
=============================================================================
