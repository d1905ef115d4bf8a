--------------------------- MODULE SessionAttach ---------------------------
(***************************************************************************)
(* Clients that attach to a session whose turn is running.  Three threads  *)
(* meet here: the session actor, which persists an event and forwards it   *)
(* if gateway_enabled; the agent, where an attach shuts that gate, replays *)
(* the file to the client that loads, and opens the gate again; and the    *)
(* main loop of the leader, which holds live messages back from a client   *)
(* until its attach is answered.                                           *)
(*                                                                         *)
(* Events are numbered by event_seq, and the file holds them in order, so  *)
(* the count `disk' stands for it.                                         *)
(* A client that reconnects is another member of Clients, and its pager    *)
(* keeps one question card per session.  A busy session stays resident     *)
(* when its last viewer leaves.  Not here: reconnect cursors, events that  *)
(* are not persisted, and child sessions.                                  *)
(***************************************************************************)
EXTENDS Integers, Sequences, FiniteSets

CONSTANTS
    Clients,       \* connections to the leader
    Interactions,  \* blocking requests of the agent, by tool_call_id
    None,          \* no card, no client
    MaxTraffic,    \* bound: events and interactions of the turn
    MaxBuffered    \* MAX_BUFFERED_LIVE_PER_LOAD

ASSUME AttachAssumption ==
    None \notin Interactions \union Clients /\ MaxTraffic \in Nat /\ MaxBuffered \in Nat

VARIABLES
    emitted,   \* events handed to the persistence actor
    emitting,  \* the session actor has persisted an event, not yet read the gate
    disk,      \* events in updates.jsonl
    gate,      \* gateway_enabled
    requests,  \* acp_tx: attach requests on their way to the agent
    task,      \* attach_session of each client
    wire,      \* response_rx of the leader
    conn,      \* clients: "out", "loading", "in", "gone"
    buffer,    \* load_live_buffer
    cutoff,    \* load_replay_max_seq
    cache,     \* interaction_requests
    open,      \* PendingInteractions of the session
    view,      \* the pager of each client
    dark,      \* history: events the session read a shut gate for
    straddled, \* history: events a replay read in the middle of their emit
    passed,    \* history: the newest live event the leader has routed
    since,     \* history: `passed' when the client subscribed
    over,      \* history: clients whose buffer overflowed
    fate       \* history: who ended an interaction

sessionVars == <<emitted, emitting, disk, dark, straddled>>
leaderVars == <<conn, buffer, cutoff, cache, passed, since, over>>
vars == <<sessionVars, gate, requests, task, wire, leaderVars, open, view, fate>>

\* The messages of the agent: an event as it happens, a line of the replay for
\* client c, the answer to its attach, and an interaction asked and resolved.
Live(e) == [kind |-> "live", of |-> e, to |-> None]
Rep(e, c) == [kind |-> "rep", of |-> e, to |-> c]
Answer(kind, c) == [kind |-> kind, of |-> None, to |-> c]
Asked(i) == [kind |-> "ask", of |-> i, to |-> None]
Resolved(i) == [kind |-> "res", of |-> i, to |-> None]

IsAnswer(m) == m.kind \in {"result", "error"}

\* `upTo' is how far the replay of the task reaches, `barrier' what the flush
\* it waits for must write.
Idle == [pc |-> "idle", replay |-> FALSE, upTo |-> 0, barrier |-> 0]

EmptyView == [log |-> <<>>, high |-> 0, card |-> None, said |-> <<>>]

Init ==
    /\ emitted = 0 /\ emitting = FALSE /\ disk = 0 /\ dark = {} /\ straddled = {}
    /\ gate = TRUE
    /\ requests = <<>> /\ wire = <<>>
    /\ task = [c \in Clients |-> Idle]
    /\ conn = [c \in Clients |-> "out"]
    /\ buffer = [c \in Clients |-> <<>>]
    /\ cutoff = [c \in Clients |-> 0]
    /\ cache = {} /\ open = {}
    /\ view = [c \in Clients |-> EmptyView]
    /\ passed = 0 /\ since = [c \in Clients |-> 0] /\ over = {}
    /\ fate = [i \in Interactions |-> "none"]

-----------------------------------------------------------------------------
(***************************************************************************)
(* The session actor and its persistence actor.                            *)
(***************************************************************************)
Traffic == emitted + Cardinality({i \in Interactions : fate[i] # "none"})

\* emit_notification_direct, up to the load of gateway_enabled ...
Persist ==
    /\ ~emitting /\ Traffic < MaxTraffic
    /\ emitted' = emitted + 1 /\ emitting' = TRUE
    /\ UNCHANGED <<disk, dark, straddled, gate, requests, task, wire, leaderVars, open, view, fate>>

\* ... and from there.
Forward ==
    /\ emitting
    /\ emitting' = FALSE
    /\ IF gate THEN wire' = Append(wire, Live(emitted)) /\ UNCHANGED dark
               ELSE dark' = dark \union {emitted} /\ UNCHANGED wire
    /\ UNCHANGED <<emitted, disk, straddled, gate, requests, task, leaderVars, open, view, fate>>

Write ==
    /\ disk < emitted
    /\ disk' = disk + 1
    /\ UNCHANGED <<emitted, emitting, dark, straddled, gate, requests, task, wire, leaderVars, open, view, fate>>

\* An interaction is sent and registered whatever the gate says.
Ask(i) ==
    /\ fate[i] = "none" /\ Traffic < MaxTraffic
    /\ fate' = [fate EXCEPT ![i] = "asked"]
    /\ open' = open \union {i}
    /\ wire' = Append(wire, Asked(i))
    /\ UNCHANGED <<sessionVars, gate, requests, task, leaderVars, view>>

\* PendingInteractionGuard::drop: the first answer, or the end of the turn.
Resolve(i, by) ==
    /\ open' = open \ {i}
    /\ fate' = [fate EXCEPT ![i] = by]
    /\ wire' = Append(wire, Resolved(i))

Withdraw(i) ==
    /\ i \in open
    /\ Resolve(i, "agent")
    /\ UNCHANGED <<sessionVars, gate, requests, task, leaderVars, view>>

TakeAnswer(c) ==
    /\ view[c].said # <<>>
    /\ view' = [view EXCEPT ![c] = [@ EXCEPT !.said = Tail(view[c].said)]]
    /\ LET answer == Head(view[c].said)
       IN  IF answer[1] \in open THEN Resolve(answer[1], answer[2])
                                 ELSE UNCHANGED <<open, fate, wire>>
    /\ UNCHANGED <<sessionVars, gate, requests, task, leaderVars>>

-----------------------------------------------------------------------------
(***************************************************************************)
(* attach_session and replay_transcript_gate, on the agent's thread.       *)
(***************************************************************************)
Step(c, pc, upTo, barrier) ==
    task' = [task EXCEPT ![c] =
                [pc |-> pc, replay |-> task[c].replay, upTo |-> upTo, barrier |-> barrier]]

Goto(c, pc) == Step(c, pc, task[c].upTo, task[c].barrier)

Attach ==
    /\ requests # <<>>
    /\ LET c == Head(requests)[1]
           replay == Head(requests)[2]
       IN  /\ task' = [task EXCEPT ![c] = [Idle EXCEPT !.pc = "attach", !.replay = replay]]
           /\ gate' = (gate /\ ~replay)
    /\ requests' = Tail(requests)
    /\ UNCHANGED <<sessionVars, wire, leaderVars, open, view, fate>>

\* The events of the file after the first `from', for client c.
Lines(c, from) == [k \in 1..(disk - from) |-> Rep(from + k, c)]

Straddles == straddled' = straddled \union {e \in {disk} : emitting /\ e = emitted}

\* The reconnect flush has ended: acked, failed or after its 5 s, so it
\* promises nothing.  What the file holds now is sent line by line; nothing
\* the others do meanwhile depends on how many lines are out.
Replay(c) ==
    /\ task[c].pc = "attach" /\ task[c].replay
    /\ Step(c, "replayed", disk, 0)
    /\ wire' = wire \o Lines(c, 0)
    /\ Straddles
    /\ UNCHANGED <<emitted, emitting, disk, dark, gate, requests, leaderVars, open, view, fate>>

\* session/resume, or a load that asks for no replay.
NoReplay(c) ==
    /\ task[c].pc = "attach" /\ ~task[c].replay
    /\ Goto(c, "open")
    /\ UNCHANGED <<sessionVars, gate, requests, wire, leaderVars, open, view, fate>>

\* One of the early returns between the flush and the replay.
AttachFails(c) ==
    /\ task[c].pc = "attach"
    /\ Goto(c, "idle")
    /\ wire' = Append(wire, Answer("error", c))
    /\ UNCHANGED <<sessionVars, gate, requests, leaderVars, open, view, fate>>

\* flush_session: the session actor answers FlushComplete between two events,
\* and the persistence actor acks it after what was queued before.
BeginFlush(c) ==
    /\ task[c].pc = "replayed" /\ ~emitting
    /\ Step(c, "delta", task[c].upTo, emitted)
    /\ UNCHANGED <<sessionVars, gate, requests, wire, leaderVars, open, view, fate>>

\* Defect: the delta is read without waiting for the ack.
Flushed_Unasked(c) == TRUE

Flushed(c) == disk >= task[c].barrier

\* replay_session_updates_from_offset_enqueue.
Delta(c) ==
    /\ task[c].pc = "delta" /\ Flushed(c)
    /\ Step(c, "open", disk, task[c].barrier)
    /\ wire' = wire \o Lines(c, task[c].upTo)
    /\ Straddles
    /\ UNCHANGED <<emitted, emitting, disk, dark, gate, requests, leaderVars, open, view, fate>>

\* "Post-replay flush failed, skipping delta replay".  A session actor that
\* does not answer in 5 s is not in the middle of an emit.
NoDelta(c) ==
    /\ task[c].pc = "delta" \/ (task[c].pc = "replayed" /\ ~emitting)
    /\ Step(c, "open", task[c].upTo, 0)
    /\ UNCHANGED <<sessionVars, gate, requests, wire, leaderVars, open, view, fate>>

OpenGate(c) ==
    /\ task[c].pc = "open"
    /\ Goto(c, "respond")
    /\ gate' = TRUE
    /\ UNCHANGED <<sessionVars, requests, wire, leaderVars, open, view, fate>>

Respond(c) ==
    /\ task[c].pc = "respond"
    /\ Goto(c, "idle")
    /\ wire' = Append(wire, Answer("result", c))
    /\ UNCHANGED <<sessionVars, gate, requests, leaderVars, open, view, fate>>

-----------------------------------------------------------------------------
(***************************************************************************)
(* The pager: a live event that is not newer than the newest one applied   *)
(* is dropped, and a card that another takes the place of is answered.     *)
(***************************************************************************)
ShowCard(v, i) ==
    [v EXCEPT !.card = i,
              !.said = IF v.card = None THEN @ ELSE Append(@, <<v.card, "pager">>)]

Receive(v, m) ==
    CASE m.kind = "live" -> IF m.of > v.high
                            THEN [v EXCEPT !.log = Append(@, m), !.high = m.of] ELSE v
      [] m.kind \in {"rep", "result", "error"} -> [v EXCEPT !.log = Append(@, m)]
      [] m.kind = "ask" -> ShowCard(v, m.of)
      [] m.kind = "res" -> [v EXCEPT !.card = IF @ = m.of THEN None ELSE @]

\* The user of client c answers the card.
UserAnswers(c) ==
    /\ conn[c] = "in" /\ view[c].card # None
    /\ view' = [view EXCEPT ![c] =
          [@ EXCEPT !.card = None, !.said = Append(view[c].said, <<view[c].card, "user">>)]]
    /\ UNCHANGED <<sessionVars, gate, requests, task, wire, leaderVars, open, fate>>

-----------------------------------------------------------------------------
(***************************************************************************)
(* The leader's main loop.                                                 *)
(***************************************************************************)
Subscribers == {c \in Clients : conn[c] \in {"loading", "in"}}

RequestAttach(c, replay) ==
    /\ conn[c] = "out"
    /\ conn' = [conn EXCEPT ![c] = "loading"]
    /\ requests' = Append(requests, <<c, replay>>)
    /\ since' = [since EXCEPT ![c] = passed]
    /\ UNCHANGED <<sessionVars, gate, task, wire, buffer, cutoff, cache, passed, over, open, view, fate>>

Disconnect(c) ==
    /\ conn[c] \in {"loading", "in"}
    /\ conn' = [conn EXCEPT ![c] = "gone"]
    /\ buffer' = [buffer EXCEPT ![c] = <<>>]
    /\ cutoff' = [cutoff EXCEPT ![c] = 0]
    /\ view' = [view EXCEPT ![c] = EmptyView]
    /\ UNCHANGED <<sessionVars, gate, requests, task, wire, cache, passed, since, over, open, fate>>

\* A replayed event goes to its client only.
RouteReplay ==
    /\ wire # <<>> /\ Head(wire).kind = "rep"
    /\ wire' = Tail(wire)
    /\ LET m == Head(wire)
           c == m.to
       IN  IF c \in Subscribers
           THEN /\ view' = [view EXCEPT ![c] = Receive(@, m)]
                /\ cutoff' = [cutoff EXCEPT ![c] = IF m.of > @ THEN m.of ELSE @]
           ELSE UNCHANGED <<view, cutoff>>
    /\ UNCHANGED <<sessionVars, gate, requests, task, conn, buffer, cache, passed, since, over, open, fate>>

Buffers(c) == conn[c] = "loading" /\ Len(buffer[c]) < MaxBuffered

\* Anything else goes to every subscriber, now or after its attach.
RouteLive ==
    /\ wire # <<>> /\ Head(wire).kind \in {"live", "ask", "res"}
    /\ wire' = Tail(wire)
    /\ LET m == Head(wire)
       IN  /\ cache' = CASE m.kind = "ask" -> cache \union {m.of}
                         [] m.kind = "res" -> cache \ {m.of}
                         [] m.kind = "live" -> cache
           /\ passed' = IF m.kind = "live" THEN m.of ELSE passed
           /\ buffer' = [c \in Clients |->
                            IF Buffers(c) THEN Append(buffer[c], m) ELSE buffer[c]]
           /\ view' = [c \in Clients |->
                            IF c \in Subscribers /\ ~Buffers(c)
                            THEN Receive(view[c], m) ELSE view[c]]
           /\ over' = over \union {c \in Clients : conn[c] = "loading" /\ ~Buffers(c)}
    /\ UNCHANGED <<sessionVars, gate, requests, task, conn, cutoff, since, open, fate>>

\* Defect: what the replay covered is sent again.
Covered_Never(c, m) == FALSE

\* A buffered live event that the replay has sent already.
Covered(c, m) == m.kind = "live" /\ m.of <= cutoff[c]

\* Defect: a client that attaches is not sent the interactions that wait.
Cached_Forgotten == {<<>>}

\* The interactions that wait, in the order of a HashMap.
Cached ==
    {[k \in DOMAIN s |-> Asked(s[k])] :
        s \in {t \in [1..Cardinality(cache) -> cache] : \A i \in cache : \E k \in DOMAIN t : t[k] = i}}

\* What the pager of c makes of the messages ms, less those that are covered,
\* after each of them.
After(c, ms) ==
    LET after[k \in 0..Len(ms)] ==
            IF k = 0 THEN view[c]
            ELSE IF Covered(c, ms[k]) THEN after[k - 1] ELSE Receive(after[k - 1], ms[k])
    IN  after

RouteResponse ==
    /\ wire # <<>> /\ IsAnswer(Head(wire))
    /\ wire' = Tail(wire)
    /\ LET c == Head(wire).to
       IN  \/ /\ conn[c] # "loading"
              /\ UNCHANGED <<conn, buffer, cutoff, view>>
           \/ /\ conn[c] = "loading"
              /\ conn' = [conn EXCEPT ![c] = "in"]
              /\ buffer' = [buffer EXCEPT ![c] = <<>>]
              /\ cutoff' = [cutoff EXCEPT ![c] = 0]
              /\ \E asks \in Cached :
                    LET ms == <<Head(wire)>> \o buffer[c] \o asks
                    IN  view' = [view EXCEPT ![c] = After(c, ms)[Len(ms)]]
    /\ UNCHANGED <<sessionVars, gate, requests, task, cache, passed, since, over, open, fate>>

Route == RouteReplay \/ RouteLive \/ RouteResponse

AttachTask(c) ==
    \/ Replay(c) \/ NoReplay(c)
    \/ BeginFlush(c) \/ Delta(c) \/ NoDelta(c) \/ OpenGate(c) \/ Respond(c)

Next ==
    \/ Persist \/ Forward \/ Write
    \/ \E i \in Interactions : Ask(i) \/ Withdraw(i)
    \/ Attach
    \/ \E c \in Clients :
          \/ AttachTask(c) \/ AttachFails(c)
          \/ TakeAnswer(c) \/ UserAnswers(c)
          \/ RequestAttach(c, TRUE) \/ RequestAttach(c, FALSE) \/ Disconnect(c)
    \/ Route

Spec == Init /\ [][Next]_vars

-----------------------------------------------------------------------------
(***************************************************************************)
(* Properties.                                                             *)
(***************************************************************************)
\* Where the log of client c holds an event.
Events(c) == {k \in DOMAIN view[c].log : ~IsAnswer(view[c].log[k])}

Missing(c) == (1..emitted) \ {view[c].log[k].of : k \in Events(c)}

\* "The client wire order is [unicast replay] -> [load response] -> [buffered
\* live]": unless its buffer overflowed, a client that attaches is shown every
\* event once and in its order, and none that is live before the answer.  Only
\* an event that a replay read in the middle of its emit may be shown again.
WireOrder ==
    \A c \in Clients \ over :
        /\ \A j, k \in Events(c) : j < k =>
              \/ view[c].log[j].of < view[c].log[k].of
              \/ view[c].log[j].of = view[c].log[k].of /\ view[c].log[j].of \in straddled
        /\ conn[c] = "loading" =>
              \A k \in DOMAIN view[c].log : view[c].log[k].kind = "rep"

\* When nothing is on its way, an event a viewer does not have is one that the
\* session emitted while the gate was shut, or that was routed before the
\* viewer subscribed; and none that its own replay reached or its own flush
\* had promised.
MissedOnlyDark ==
    wire = <<>> /\ ~emitting =>
        \A c \in Clients \ over : conn[c] = "in" =>
            \A e \in Missing(c) :
                /\ e \in dark \/ e <= since[c]
                /\ e > task[c].upTo /\ e > task[c].barrier

\* When nothing is on its way, every viewer shows the interaction that waits
\* and no other, whether it was asked before, during or after the attach.
CardsAgree ==
    wire = <<>> /\ (\A c \in Clients : view[c].said = <<>>) =>
        \A c \in Clients \ over : conn[c] = "in" =>
            open = {view[c].card} \ {None}

\* "The response is sent later when the user submits, cancels, or is replaced
\* by another question": a pager answers a card by itself only for another.
OnlyAnotherReplaces ==
    \A i \in Interactions :
        fate[i] = "pager" => \E j \in Interactions \ {i} : fate[j] # "none"

\* "Intentionally sync (not async) so no prompt task can make progress before
\* the gate flips": a client whose load succeeded misses nothing the session
\* emitted before the answer.
NoGapBeforeGate ==
    \A c \in Clients :
        (task[c].pc = "respond" /\ task[c].barrier > 0)
        => \A e \in dark : e <= task[c].upTo
=============================================================================
