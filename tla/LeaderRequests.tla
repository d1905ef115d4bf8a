--------------------------- MODULE LeaderRequests ---------------------------
(***************************************************************************)
(* The requests of several clients through the main loop of one leader     *)
(* process (run_leader_server in leader/server.rs): it forwards them to    *)
(* the agent under a namespaced id, counts the ones in flight, follows     *)
(* each client's choice of model, routes the answers back, and waits for   *)
(* an idle agent before a relaunch.                                        *)
(*                                                                         *)
(* A request is named <<client, n>>, which is what the namespaced id says; *)
(* it asks for a model or, when its model is NoModel, for something else.  *)
(* A client that reconnects is another member of Clients: ClientId::new    *)
(* never repeats.  LeaderWire models how frames reach the loop, and        *)
(* SessionAttach what the loop does about sessions.  The leader runs with  *)
(* --no-exit-on-disconnect, as spawn_leader_subprocess starts it.          *)
(***************************************************************************)
EXTENDS Integers, Sequences, FiniteSets

CONSTANTS
    Clients,   \* connections, one per ClientId
    Models,    \* the models a client may ask for
    NoModel,   \* an Option<String> that is None
    MaxAsk     \* bound: the requests each client sends

ASSUME ModelsAssumption == NoModel \notin Models
ASSUME BoundsAssumption == MaxAsk \in [Clients -> Nat]

VARIABLES
    asked,     \* how many requests each client has sent
    known,     \* clients: "no", "in", "reg", "out"
    track,     \* ModelSwitchTracker of each client
    model,     \* capabilities.default_model of each client
    pending,   \* pending_requests
    busy,      \* agent_busy
    atAgent,   \* requests the agent has and has not answered
    respq,     \* response_rx
    choices,   \* history: the model choices forwarded and what became of them
    drain,     \* spawn_relaunch_drain: "off", "wait", "flush", "down"
    graced,    \* the drain gave up waiting for an idle agent
    owed       \* history: what was in flight when the relaunch was accepted

modelVars == <<track, model, choices>>
drainVars == <<drain, graced, owed>>
vars == <<asked, known, track, model, pending, busy, atAgent, respq,
          choices, drain, graced, owed>>

MaybeModel == Models \union {NoModel}

-----------------------------------------------------------------------------
(***************************************************************************)
(* ModelSwitchTracker.  `outstanding' is a Vec searched by request id and  *)
(* by the largest seq, both unique, so a set stands for it.                *)
(***************************************************************************)
NewTracker ==
    [confirmed |-> NoModel, confirmedSeq |-> 0, nextSeq |-> 0, outstanding |-> {}]

SeedConfirmed(t, seed) == [t EXCEPT !.confirmed = seed, !.confirmedSeq = 0]

RecordForward(t, n, m) ==
    [t EXCEPT !.nextSeq = @ + 1,
              !.outstanding = @ \union {[req |-> n, seq |-> t.nextSeq + 1, model |-> m]}]

Outstanding(t, n) == {o \in t.outstanding : o.req = n}

\* Defect: the answer that comes last wins.
Resolve_LastAnswer(t, o, accepted) ==
    LET left == [t EXCEPT !.outstanding = @ \ {o}]
    IN  IF accepted THEN [left EXCEPT !.confirmed = o.model, !.confirmedSeq = o.seq] ELSE left

\* fn resolve, for a switch that is outstanding.
Resolve(t, o, accepted) ==
    LET left == [t EXCEPT !.outstanding = @ \ {o}]
    IN  IF accepted /\ o.seq > t.confirmedSeq
        THEN [left EXCEPT !.confirmed = o.model, !.confirmedSeq = o.seq]
        ELSE left

Later(t) == {o \in t.outstanding : o.seq > t.confirmedSeq}

DefaultModel(t) ==
    IF Later(t) = {} THEN t.confirmed
    ELSE (CHOOSE o \in Later(t) : \A p \in Later(t) : p.seq <= o.seq).model

-----------------------------------------------------------------------------
Init ==
    /\ asked = [c \in Clients |-> 0]
    /\ known = [c \in Clients |-> "no"]
    /\ track = [c \in Clients |-> NewTracker]
    /\ model = [c \in Clients |-> NoModel]
    /\ pending = 0
    /\ busy = FALSE
    /\ atAgent = {}
    /\ respq = <<>>
    /\ choices = [c \in Clients |-> {}]
    /\ drain = "off"
    /\ graced = FALSE
    /\ owed = {}

-----------------------------------------------------------------------------
(***************************************************************************)
(* The main loop.  The session task of a client sends it Registered, then  *)
(* the client's messages, then Disconnected.                               *)
(***************************************************************************)
\* LeaderServerPoll::Accept
Accept(c) ==
    /\ drain # "down" /\ known[c] = "no"
    /\ known' = [known EXCEPT ![c] = "in"]
    /\ UNCHANGED <<asked, modelVars, pending, busy, atAgent, respq, drainVars>>

\* ServerEvent::Registered; the client's capabilities name any model or none.
Registered(c, seed) ==
    /\ drain # "down" /\ known[c] = "in"
    /\ known' = [known EXCEPT ![c] = "reg"]
    /\ track' = [track EXCEPT ![c] = SeedConfirmed(@, seed)]
    /\ model' = [model EXCEPT ![c] = seed]
    /\ choices' = [choices EXCEPT ![c] = {[seq |-> 0, model |-> seed, fate |-> "taken"]}]
    /\ UNCHANGED <<asked, pending, busy, atAgent, respq, drainVars>>

Chosen(c, t, m) ==
    choices' = [choices EXCEPT ![c] =
        @ \union {[seq |-> t.nextSeq + 1, model |-> m, fate |-> "open"]}]

\* ServerEvent::Message with an ACP request.
Forward(c, m) ==
    LET n == asked[c] + 1
        t == RecordForward(track[c], n, m)
    IN  /\ drain # "down" /\ known[c] = "reg" /\ asked[c] < MaxAsk[c]
        /\ asked' = [asked EXCEPT ![c] = n]
        /\ \/ m = NoModel /\ UNCHANGED modelVars
           \/ /\ m # NoModel
              /\ track' = [track EXCEPT ![c] = t]
              /\ model' = [model EXCEPT ![c] = DefaultModel(t)]
              /\ Chosen(c, track[c], m)
        /\ pending' = pending + 1
        /\ busy' = TRUE
        /\ atAgent' = atAgent \union {<<c, n>>}
        /\ UNCHANGED <<known, respq, drainVars>>

\* ServerEvent::Disconnected.  The requests in flight stay counted.
Disconnected(c) ==
    /\ drain # "down" /\ known[c] \in {"in", "reg"}
    /\ known' = [known EXCEPT ![c] = "out"]
    /\ UNCHANGED <<asked, modelVars, pending, busy, atAgent, respq, drainVars>>

\* The agent answers what it was asked, in any order, with a result or an error.
Answer(r, ok) ==
    /\ r \in atAgent
    /\ atAgent' = atAgent \ {r}
    /\ respq' = Append(respq, [req |-> r, ok |-> ok])
    /\ UNCHANGED <<asked, known, modelVars, pending, busy, drainVars>>

Fate(h, o, ok) ==
    IF h.seq = o.seq THEN [h EXCEPT !.fate = IF ok THEN "taken" ELSE "refused"] ELSE h

\* The part of the response handler that is about the model of client c.
ResolveSwitch(c, n, ok) ==
    \/ /\ Outstanding(track[c], n) = {}
       /\ UNCHANGED modelVars
    \/ \E o \in Outstanding(track[c], n) :
          LET t == Resolve(track[c], o, ok)
          IN  /\ track' = [track EXCEPT ![c] = t]
              /\ model' = [model EXCEPT ![c] = DefaultModel(t)]
              /\ choices' = [choices EXCEPT ![c] = {Fate(h, o, ok) : h \in @}]

\* Defects: the answer to a client that has gone is not counted; any answer
\* clears agent_busy.
Response_Orphaned ==
    /\ drain # "down" /\ respq # <<>>
    /\ respq' = Tail(respq)
    /\ LET c == Head(respq).req[1]
       IN  \/ /\ known[c] = "out"
              /\ UNCHANGED <<pending, busy, modelVars>>
           \/ /\ known[c] # "out"
              /\ pending' = IF pending = 0 THEN 0 ELSE pending - 1
              /\ busy' = (pending' > 0)
              /\ ResolveSwitch(c, Head(respq).req[2], Head(respq).ok)
    /\ UNCHANGED <<asked, known, atAgent, drainVars>>

Response_Clears ==
    /\ drain # "down" /\ respq # <<>>
    /\ respq' = Tail(respq)
    /\ pending' = IF pending = 0 THEN 0 ELSE pending - 1
    /\ busy' = FALSE
    /\ UNCHANGED <<asked, known, modelVars, atAgent, drainVars>>

\* LeaderServerPoll::Response for a namespaced id.
Response ==
    /\ drain # "down" /\ respq # <<>>
    /\ respq' = Tail(respq)
    /\ pending' = IF pending = 0 THEN 0 ELSE pending - 1
    /\ busy' = (pending' > 0)
    /\ LET c == Head(respq).req[1]
       IN  \/ known[c] = "out" /\ UNCHANGED modelVars
           \/ known[c] # "out" /\ ResolveSwitch(c, Head(respq).req[2], Head(respq).ok)
    /\ UNCHANGED <<asked, known, atAgent, drainVars>>

-----------------------------------------------------------------------------
(***************************************************************************)
(* A relaunch: decide_relaunch_for_update accepts one, spawn_relaunch_drain *)
(* waits for an idle agent or RELAUNCH_GRACE, flushes and cancels.  The    *)
(* other test for idleness, agent_activity, only makes it wait longer.  A  *)
(* shutdown for another reason has no drain and is left out.               *)
(***************************************************************************)
InFlight == atAgent \union {respq[i].req : i \in DOMAIN respq}

Relaunch ==
    /\ drain = "off"
    /\ drain' = "wait"
    /\ owed' = InFlight
    /\ UNCHANGED <<asked, known, modelVars, pending, busy, atAgent, respq, graced>>

DrainIdle ==
    /\ drain = "wait" /\ ~busy
    /\ drain' = "flush"
    /\ UNCHANGED <<asked, known, modelVars, pending, busy, atAgent, respq, graced, owed>>

\* Busy is agent_busy or agent_activity.
GraceElapsed ==
    /\ drain = "wait"
    /\ drain' = "flush" /\ graced' = TRUE
    /\ UNCHANGED <<asked, known, modelVars, pending, busy, atAgent, respq, owed>>

\* cancel(): the loop resets agent_busy, broadcasts the shutdown and ends.
Cancelled ==
    /\ drain = "flush"
    /\ drain' = "down"
    /\ busy' = (busy /\ pending = 0)
    /\ UNCHANGED <<asked, known, modelVars, pending, atAgent, respq, graced, owed>>

Next ==
    \/ \E c \in Clients :
          \/ Accept(c) \/ Disconnected(c)
          \/ \E m \in MaybeModel : Registered(c, m) \/ Forward(c, m)
    \/ \E r \in atAgent, ok \in BOOLEAN : Answer(r, ok)
    \/ Response
    \/ Relaunch \/ DrainIdle \/ GraceElapsed \/ Cancelled

Spec == Init /\ [][Next]_vars

-----------------------------------------------------------------------------
(***************************************************************************)
(* Properties.                                                             *)
(***************************************************************************)
Switch == [req : Nat, seq : Nat, model : Models]
Tracker == [confirmed : MaybeModel, confirmedSeq : Nat, nextSeq : Nat,
            outstanding : SUBSET Switch]
Choice == [seq : Nat, model : MaybeModel, fate : {"open", "taken", "refused"}]
Request == Clients \X Nat

\* The variables of the loop have the types of the Rust structures they model.
TypeOK ==
    /\ asked \in [Clients -> Nat]
    /\ known \in [Clients -> {"no", "in", "reg", "out"}]
    /\ track \in [Clients -> Tracker]
    /\ model \in [Clients -> MaybeModel]
    /\ pending \in Nat /\ busy \in BOOLEAN
    /\ atAgent \in SUBSET Request
    /\ respq \in Seq([req : Request, ok : BOOLEAN])
    /\ choices \in [Clients -> SUBSET Choice]
    /\ drain \in {"off", "wait", "flush", "down"} /\ graced \in BOOLEAN
    /\ owed \in SUBSET Request

\* "A response that arrives late or is rejected never restores a model older
\* than the client's most recent choice": the default model of a client is
\* its newest choice that the agent has not refused, and the model it
\* registered with when there is none, whatever the order of the answers.
NewestChoice ==
    \A c \in Clients : \A h \in choices[c] :
        (/\ h.fate # "refused"
         /\ \A g \in choices[c] : g.seq > h.seq => g.fate = "refused")
        => model[c] = h.model

\* agent_busy is exact: it is set while the agent owes the loop an answer,
\* also the answer to a client that has gone, and no longer.  A count that
\* drifts makes every later relaunch wait out its grace, or cut a turn short.
BusyExact ==
    drain # "down" =>
        /\ pending = Cardinality(atAgent) + Len(respq)
        /\ busy <=> pending > 0

\* A relaunch that did not run out of grace has waited for every request
\* that was in flight when it was accepted.
RelaunchSpares ==
    drain \in {"flush", "down"} /\ ~graced => owed \intersect InFlight = {}
=============================================================================
