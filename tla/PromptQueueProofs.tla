------------------------- MODULE PromptQueueProofs -------------------------
(***************************************************************************)
(* Proofs about PromptQueue, for every number of requests and sessions.    *)
(* The first half follows the requests: type correctness, and that no      *)
(* pager request is lost or answered twice.  The second half is about the  *)
(* slot: the running prompt is at OMP and uncut, the pane shows the queue, *)
(* OMP works on the text that is shown, and the queue implements TurnSlot; *)
(* and for a pager that addresses its current session only, no turn is cut *)
(* that the user did not cut.                                              *)
(***************************************************************************)
EXTENDS PromptQueue, FiniteSetTheorems, TLAPS

-----------------------------------------------------------------------------
(* The strengthening that makes NoRequestLost inductive: who may hold which  *)
(* id, and that no pager request has two holders.                            *)

AgentIdsDistinct ==
    /\ \A m, n \in omp : m.id = n.id => m = n
    /\ \A i, j \in DOMAIN held : held[i].agent = held[j].agent => i = j
    /\ \A i \in DOMAIN held : \A m \in omp : m.id # held[i].agent

IdsIssued ==
    /\ \A m \in omp : -internalSeq <= m.id /\ m.id <= nreq
    /\ \A i \in DOMAIN held : /\ -internalSeq <= held[i].agent
                              /\ held[i].agent <= nreq
                              /\ held[i].client <= nreq
    /\ \A a \in DOMAIN internal : internal[a].client <= nreq
    /\ \A c \in Clients : c > nreq => answers[c] = 0

InternalsAtAgent ==
    /\ \A m \in omp : m.id < 0 => m.id \in DOMAIN internal
    /\ \A m \in omp : m.op \in {"new", "load"} => m.id > 0
    /\ \A a \in DOMAIN internal : \E m \in omp : m.id = a

EntryShapes ==
    /\ \A i \in DOMAIN held : held[i].agent > 0 => held[i].client = held[i].agent
    /\ \A a \in DOMAIN internal :
          /\ internal[a].kind = "vibeMode" => internal[a].client > 0
          /\ internal[a].kind = "internal" => internal[a].client = 0
          /\ internal[a].follow # <<>> =>
                /\ internal[a].kind = "vibeMode"
                /\ internal[a].follow[1] \in Entries
                /\ internal[a].follow[1].agent = internal[a].client
                /\ internal[a].follow[1].client = internal[a].client

OneHolder ==
    /\ \A i, j \in DOMAIN held : held[i].client = held[j].client /\ held[i].client > 0 => i = j
    /\ \A i \in DOMAIN held : \A m \in omp : held[i].client > 0 => ClientOf(m.id) # held[i].client
    /\ \A m, n \in omp : ClientOf(m.id) = ClientOf(n.id) /\ ClientOf(m.id) > 0 => m = n

\* The inductive invariant behind NoRequestLost.
Custody ==
    /\ TypeOK
    /\ AgentIdsDistinct
    /\ IdsIssued
    /\ InternalsAtAgent
    /\ EntryShapes
    /\ OneHolder
    /\ NoRequestLost

-----------------------------------------------------------------------------
(* The strengthening behind the properties of the slot, which needs Custody  *)
(* too.                                                                      *)

\* What is held, or waits for a mode, will be sent as it is shown.
AsTyped ==
    /\ \A i \in DOMAIN held : held[i].body = held[i].text
    /\ \A a \in DOMAIN internal : internal[a].follow # <<>> =>
          internal[a].follow[1].body = internal[a].follow[1].text

\* The record of an internal id says whether a turn answers it, and only a turn
\* is ever cut.
RecordsMatch ==
    \A m \in omp :
        /\ m.id \in DOMAIN internal => (internal[m.id].kind \in Kinds <=> m.op = "prompt")
        /\ m.op # "prompt" => m.cut = "no"

\* The panes are a function of the session, and the current one is fresh.
PaneShape == pane = [s \in 1 .. MaxSession |-> pane[s]]
PaneKept == PaneShape /\ PaneFresh

SlotKept == RunningIsLive /\ PaneKept /\ SentAsShown /\ AsTyped /\ RecordsMatch

\* Behind NeverOverrun, for a pager that addresses its current session only
\* and sends no /vibe with a prompt: the queue holds prompts of this session,
\* and a turn of this session that the adapter tracks and that OMP has not
\* cancelled has the slot.
InScope ==
    /\ \A i \in DOMAIN held : held[i].sid = session
    /\ \A a \in DOMAIN internal : internal[a].follow = <<>>
    /\ \A m \in omp : m.op = "prompt" /\ m.sid = session /\ m.cut = "no" /\ m.id \in inFlight
                          => m.id = running.agent
    /\ NeverOverrun

-----------------------------------------------------------------------------
(* Facts about the operators of the model.                                   *)

\* RemoveIndex removes one position and keeps every other element, once.
LEMMA RemoveIndexFacts ==
    ASSUME NEW S, NEW s \in Seq(S), NEW i \in DOMAIN s
    PROVE  /\ RemoveIndex(s, i) \in Seq(S)
           /\ Len(RemoveIndex(s, i)) = Len(s) - 1
           /\ DOMAIN RemoveIndex(s, i) = 1 .. Len(s) - 1
           /\ \A j \in DOMAIN RemoveIndex(s, i) :
                 /\ j < i => j \in DOMAIN s /\ RemoveIndex(s, i)[j] = s[j]
                 /\ j >= i => j + 1 \in DOMAIN s /\ RemoveIndex(s, i)[j] = s[j + 1]
<1>1. Len(s) \in Nat /\ DOMAIN s = 1 .. Len(s) /\ i \in 1 .. Len(s)
  OBVIOUS
<1>2. \A j \in 1 .. Len(s) : s[j] \in S
  OBVIOUS
<1>3. Len(s) - 1 \in Nat
  BY <1>1
<1>4. RemoveIndex(s, i) \in [1 .. Len(s) - 1 -> S]
  BY <1>1, <1>2 DEF RemoveIndex
<1>5. RemoveIndex(s, i) \in Seq(S) /\ Len(RemoveIndex(s, i)) = Len(s) - 1
  BY <1>3, <1>4
<1> QED
  BY <1>1, <1>4, <1>5 DEF RemoveIndex

\* A prompt delivered to OMP joins the requests there; it may mark another one
\* as cut and leaves its id and its operation alone.
LEMMA DeliverFacts ==
    ASSUME NEW R \in SUBSET Requests, NEW e \in Entries,
           NEW how \in {"sent_now", "overrun"}
    PROVE  /\ Deliver(R, e, how) \subseteq Requests
           /\ \A m \in Deliver(R, e, how) :
                 \/ m.id = e.agent /\ m.op = "prompt"
                 \/ \E n \in R : m.id = n.id /\ m.op = n.op
           /\ \A n \in R : \E m \in Deliver(R, e, how) : m.id = n.id /\ m.op = n.op
           /\ \E m \in Deliver(R, e, how) : m.id = e.agent
<1> DEFINE Mark(m) == IF m.op = "prompt" /\ m.sid = e.sid /\ m.cut = "no"
                        THEN [m EXCEPT !.cut = how] ELSE m
           new == [id |-> e.agent, op |-> "prompt", sid |-> e.sid, body |-> e.body, cut |-> "no"]
<1>1. Deliver(R, e, how) = { Mark(m) : m \in R } \cup {new}
  BY DEF Deliver
<1>2. \A m \in R : Mark(m) \in Requests /\ Mark(m).id = m.id /\ Mark(m).op = m.op
  BY DEF Requests
<1>3. new \in Requests /\ new.id = e.agent /\ new.op = "prompt"
  BY DEF Requests, Entries
<1> HIDE DEF Mark, new
<1> QED
  BY <1>1, <1>2, <1>3

\* Two requests at OMP with one id stay the same request after a delivery of a
\* prompt with another id.
LEMMA DeliverDistinct ==
    ASSUME NEW R \in SUBSET Requests, NEW e \in Entries, NEW how,
           \A m, n \in R : m.id = n.id => m = n,
           \A m \in R : m.id # e.agent
    PROVE  \A m, n \in Deliver(R, e, how) : m.id = n.id => m = n
<1> DEFINE Mark(m) == IF m.op = "prompt" /\ m.sid = e.sid /\ m.cut = "no"
                        THEN [m EXCEPT !.cut = how] ELSE m
           new == [id |-> e.agent, op |-> "prompt", sid |-> e.sid, body |-> e.body, cut |-> "no"]
<1>1. Deliver(R, e, how) = { Mark(m) : m \in R } \cup {new}
  BY DEF Deliver
<1>2. \A m \in R : Mark(m).id = m.id
  BY DEF Requests
<1>3. new.id = e.agent
  OBVIOUS
<1> HIDE DEF Mark, new
<1>4. ASSUME NEW x \in Deliver(R, e, how), NEW y \in Deliver(R, e, how), x.id = y.id
      PROVE  x = y
  <2>1. CASE x = new
    BY <2>1, <1>1, <1>2, <1>3, <1>4
  <2>2. CASE y = new
    BY <2>2, <1>1, <1>2, <1>3, <1>4
  <2>3. CASE x # new /\ y # new
    <3>1. PICK m \in R : x = Mark(m)
      BY <2>3, <1>1
    <3>2. PICK n \in R : y = Mark(n)
      BY <2>3, <1>1
    <3> QED
      BY <3>1, <3>2, <1>2, <1>4
  <2> QED
    BY <2>1, <2>2, <2>3
<1> QED
  BY <1>4

-----------------------------------------------------------------------------
(* The custody invariant of a queue h, requests R at OMP and internal ids I, *)
(* when n pager requests and k internal ids were handed out.  Stated on      *)
(* values, so that a handler's intermediate states can be reasoned about.    *)

Owner(I, id) == IF id \in DOMAIN I THEN I[id].client ELSE id

Waits(h, R, I, c) ==
    \/ \E i \in DOMAIN h : h[i].client = c
    \/ \E m \in R : Owner(I, m.id) = c

Typed(h, R, I) ==
    /\ h \in Seq(Entries)
    /\ R \in SUBSET Requests
    /\ DOMAIN I \subseteq Internals
    /\ \A a \in DOMAIN I : I[a] \in Records

Distinct(h, R) ==
    /\ \A m1, m2 \in R : m1.id = m2.id => m1 = m2
    /\ \A i, j \in DOMAIN h : h[i].agent = h[j].agent => i = j
    /\ \A i \in DOMAIN h : \A m \in R : m.id # h[i].agent

Issued(h, R, I, n, k) ==
    /\ \A m \in R : -k <= m.id /\ m.id <= n
    /\ \A i \in DOMAIN h : -k <= h[i].agent /\ h[i].agent <= n /\ h[i].client <= n
    /\ \A a \in DOMAIN I : I[a].client <= n

Internally(R, I) ==
    /\ \A m \in R : m.id < 0 => m.id \in DOMAIN I
    /\ \A m \in R : m.op \in {"new", "load"} => m.id > 0
    /\ \A a \in DOMAIN I : \E m \in R : m.id = a

Shapes(h, I) ==
    /\ \A i \in DOMAIN h : h[i].agent > 0 => h[i].client = h[i].agent
    /\ \A a \in DOMAIN I :
          /\ I[a].kind = "vibeMode" => I[a].client > 0
          /\ I[a].kind = "internal" => I[a].client = 0
          /\ I[a].follow # <<>> => /\ I[a].kind = "vibeMode"
                                   /\ I[a].follow[1] \in Entries
                                   /\ I[a].follow[1].agent = I[a].client
                                   /\ I[a].follow[1].client = I[a].client

Single(h, R, I) ==
    /\ \A i, j \in DOMAIN h : h[i].client = h[j].client /\ h[i].client > 0 => i = j
    /\ \A i \in DOMAIN h : \A m \in R : h[i].client > 0 => Owner(I, m.id) # h[i].client
    /\ \A m1, m2 \in R : Owner(I, m1.id) = Owner(I, m2.id) /\ Owner(I, m1.id) > 0 => m1 = m2

Keeps(h, R, I, n, k) ==
    /\ Typed(h, R, I)
    /\ Distinct(h, R)
    /\ Issued(h, R, I, n, k)
    /\ Internally(R, I)
    /\ Shapes(h, I)
    /\ Single(h, R, I)

\* An entry that may join the queue or be dispatched: its agent id is in use
\* nowhere and nothing else answers its client.
Joins(e, h, R, I, n, k) ==
    /\ e \in Entries
    /\ -k <= e.agent /\ e.agent <= n /\ e.client <= n
    /\ e.agent > 0 => e.client = e.agent
    /\ \A i \in DOMAIN h : h[i].agent # e.agent
    /\ \A m \in R : m.id # e.agent
    /\ e.client > 0 => ~Waits(h, R, I, e.client)

\* Holding an entry keeps custody, and its client waits.
LEMMA JoinHeld ==
    ASSUME NEW h, NEW R, NEW I, NEW n \in 0 .. MaxReq, NEW k \in 0 .. MaxInt, NEW e,
           Keeps(h, R, I, n, k), Joins(e, h, R, I, n, k)
    PROVE  /\ Keeps(Append(h, e), R, I, n, k)
           /\ \A c \in Clients : Waits(Append(h, e), R, I, c) <=> Waits(h, R, I, c) \/ c = e.client
<1> DEFINE g == Append(h, e)
<1>1. /\ h \in Seq(Entries) /\ e \in Entries
      /\ Len(h) \in Nat /\ DOMAIN h = 1 .. Len(h)
  BY DEF Keeps, Typed, Joins
<1>2. /\ g \in Seq(Entries) /\ DOMAIN g = 1 .. Len(h) + 1
      /\ \A i \in DOMAIN h : i \in DOMAIN g /\ g[i] = h[i]
      /\ g[Len(h) + 1] = e
      /\ \A i \in DOMAIN g : i \in DOMAIN h \/ i = Len(h) + 1
      /\ Len(h) + 1 \in DOMAIN g
  BY <1>1
<1> HIDE DEF g
<1>3. Typed(g, R, I)
  BY <1>2 DEF Keeps, Typed
<1>4. Distinct(g, R)
  BY <1>2 DEF Keeps, Distinct, Joins
<1>5. Issued(g, R, I, n, k)
  BY <1>2 DEF Keeps, Issued, Joins
<1>6. Internally(R, I) /\ Shapes(g, I)
  BY <1>2 DEF Keeps, Shapes, Joins
<1>7. Single(g, R, I)
  BY <1>2 DEF Keeps, Single, Joins, Waits
<1>8. \A c \in Clients : Waits(g, R, I, c) <=> Waits(h, R, I, c) \/ c = e.client
  BY <1>2 DEF Waits
<1> QED
  BY <1>3, <1>4, <1>5, <1>6, <1>7, <1>8 DEF Keeps, g

\* Dispatching an entry keeps custody, and its client waits.
LEMMA JoinSent ==
    ASSUME NEW h, NEW R, NEW I, NEW n \in 0 .. MaxReq, NEW k \in 0 .. MaxInt, NEW e,
           NEW how \in {"sent_now", "overrun"},
           Keeps(h, R, I, n, k), Joins(e, h, R, I, n, k)
    PROVE  /\ Keeps(h, Deliver(R, e, how), Recorded(I, e), n, k)
           /\ \A c \in Clients : Waits(h, Deliver(R, e, how), Recorded(I, e), c)
                                    <=> Waits(h, R, I, c) \/ c = e.client
<1> DEFINE Q == Deliver(R, e, how)
<1>1. /\ R \in SUBSET Requests /\ e \in Entries /\ h \in Seq(Entries)
      /\ \A m1, m2 \in R : m1.id = m2.id => m1 = m2
      /\ \A m \in R : m.id # e.agent
  BY DEF Keeps, Typed, Joins, Distinct
<1>2. /\ Q \subseteq Requests
      /\ \A m \in Q : \/ m.id = e.agent /\ m.op = "prompt"
                      \/ \E r \in R : m.id = r.id /\ m.op = r.op
      /\ \A r \in R : \E m \in Q : m.id = r.id /\ m.op = r.op
      /\ \E m \in Q : m.id = e.agent
  BY <1>1, DeliverFacts
<1>3. \A m1, m2 \in Q : m1.id = m2.id => m1 = m2
  BY <1>1, DeliverDistinct
<1> HIDE DEF Q
<1>4. e.agent \in AgentIds /\ e.client \in Clients \cup {0} /\ e.kind \in Kinds
  BY <1>1 DEF Entries
<1>5. e.agent \notin DOMAIN I
  BY <1>1 DEF Keeps, Internally
<1>6. e.client # e.agent => e.agent \in Internals /\ e.agent < 0
  BY <1>4, QueueConstants DEF Joins, AgentIds, Clients, Internals
<1> DEFINE J == Recorded(I, e)
<1>7. /\ \A a \in DOMAIN I : a \in DOMAIN J /\ J[a] = I[a]
      /\ \A a \in DOMAIN J : a \in DOMAIN I \/ (a = e.agent /\ e.client # e.agent)
      /\ e.client # e.agent => /\ e.agent \in DOMAIN J
                               /\ J[e.agent] = [kind |-> e.kind, client |-> e.client, follow |-> <<>>]
  BY <1>5 DEF Put, Recorded
<1> HIDE DEF J
<1>8. Owner(J, e.agent) = e.client
  BY <1>5, <1>7 DEF Owner
<1>9. \A r \in R : Owner(J, r.id) = Owner(I, r.id)
  BY <1>1, <1>7 DEF Owner
<1>10. e.client # e.agent => J[e.agent] \in Records /\ J[e.agent].client = e.client /\ J[e.agent].follow = <<>>
                              /\ J[e.agent].kind \in Kinds
  BY <1>4, <1>7 DEF Records
<1>11. Typed(h, Q, J)
  BY <1>2, <1>6, <1>7, <1>10 DEF Keeps, Typed
<1>12. Distinct(h, Q)
  BY <1>2, <1>3 DEF Keeps, Distinct, Joins
<1>13. Issued(h, Q, J, n, k)
  BY <1>2, <1>7, <1>10 DEF Keeps, Issued, Joins
<1>14. Internally(Q, J)
  <2>1. \A m \in Q : m.id < 0 => m.id \in DOMAIN J
    BY <1>2, <1>4, <1>7, QueueConstants DEF Keeps, Internally, Joins, Clients
  <2>2. \A m \in Q : m.op \in {"new", "load"} => m.id > 0
    BY <1>2 DEF Keeps, Internally
  <2>3. \A a \in DOMAIN J : \E m \in Q : m.id = a
    BY <1>2, <1>7 DEF Keeps, Internally
  <2> QED
    BY <2>1, <2>2, <2>3 DEF Internally
<1>15. Shapes(h, J)
  BY <1>7, <1>10 DEF Keeps, Shapes, Kinds
<1>16. \A m \in Q : \/ m.id = e.agent /\ Owner(J, m.id) = e.client
                    \/ \E r \in R : m.id = r.id /\ Owner(J, m.id) = Owner(I, r.id)
  BY <1>2, <1>8, <1>9
<1>17. Single(h, Q, J)
  <2>1. \A i \in DOMAIN h : \A m \in Q : h[i].client > 0 => Owner(J, m.id) # h[i].client
    BY <1>16 DEF Keeps, Single, Joins, Waits
  <2>2. \A m1, m2 \in Q : Owner(J, m1.id) = Owner(J, m2.id) /\ Owner(J, m1.id) > 0 => m1.id = m2.id
    BY <1>16 DEF Keeps, Single, Joins, Waits
  <2> QED
    BY <2>1, <2>2, <1>3 DEF Keeps, Single
<1>18. ASSUME NEW c \in Clients
       PROVE  Waits(h, Q, J, c) <=> Waits(h, R, I, c) \/ c = e.client
  BY <1>2, <1>8, <1>9, <1>16 DEF Waits
<1> QED
  BY <1>11, <1>12, <1>13, <1>14, <1>15, <1>17, <1>18 DEF Keeps, Q, J

\* An entry that leaves the queue keeps custody of the rest; it may then join
\* OMP's requests, and its client waits nowhere else.
LEMMA Leave ==
    ASSUME NEW h, NEW R, NEW I, NEW n \in 0 .. MaxReq, NEW k \in 0 .. MaxInt,
           NEW i \in DOMAIN h, Keeps(h, R, I, n, k)
    PROVE  /\ Keeps(RemoveIndex(h, i), R, I, n, k)
           /\ Joins(h[i], RemoveIndex(h, i), R, I, n, k)
           /\ \A c \in Clients : Waits(RemoveIndex(h, i), R, I, c) <=> Waits(h, R, I, c) /\ c # h[i].client
<1> DEFINE g == RemoveIndex(h, i)
           Old(j) == IF j < i THEN j ELSE j + 1
<1>1. /\ h \in Seq(Entries) /\ Len(h) \in Nat /\ DOMAIN h = 1 .. Len(h)
      /\ h[i] \in Entries
  BY DEF Keeps, Typed
<1>2. /\ g \in Seq(Entries) /\ DOMAIN g = 1 .. Len(h) - 1
      /\ \A j \in DOMAIN g : /\ j < i => j \in DOMAIN h /\ g[j] = h[j]
                             /\ j >= i => j + 1 \in DOMAIN h /\ g[j] = h[j + 1]
  BY <1>1, RemoveIndexFacts
<1>3. /\ \A j \in DOMAIN g : Old(j) \in DOMAIN h /\ Old(j) # i /\ g[j] = h[Old(j)]
      /\ \A j1, j2 \in DOMAIN g : Old(j1) = Old(j2) => j1 = j2
  BY <1>1, <1>2
<1>4. \A x \in DOMAIN h : x # i => \E j \in DOMAIN g : x = Old(j)
  <2> SUFFICES ASSUME NEW x \in DOMAIN h, x # i
               PROVE  \E j \in DOMAIN g : x = Old(j)
    OBVIOUS
  <2>1. CASE x < i
    BY <2>1, <1>1, <1>2
  <2>2. CASE x > i
    <3>1. x - 1 \in DOMAIN g /\ Old(x - 1) = x
      BY <2>2, <1>1, <1>2
    <3> QED
      BY <3>1
  <2> QED
    BY <2>1, <2>2, <1>1
<1> HIDE DEF g, Old
<1>5. Typed(g, R, I)
  BY <1>2 DEF Keeps, Typed
<1>6. Distinct(g, R)
  BY <1>3 DEF Keeps, Distinct
<1>7. Issued(g, R, I, n, k) /\ Internally(R, I) /\ Shapes(g, I)
  BY <1>3 DEF Keeps, Issued, Shapes
<1>8. Single(g, R, I)
  BY <1>3 DEF Keeps, Single
<1>9. /\ \A j \in DOMAIN g : g[j].agent # h[i].agent
      /\ \A m \in R : m.id # h[i].agent
  BY <1>3 DEF Keeps, Distinct
<1>10. h[i].client > 0 => ~Waits(g, R, I, h[i].client)
  BY <1>3 DEF Keeps, Single, Waits
<1>11. Joins(h[i], g, R, I, n, k)
  BY <1>1, <1>9, <1>10 DEF Joins, Keeps, Issued, Shapes
<1>12. ASSUME NEW c \in Clients
       PROVE  Waits(g, R, I, c) <=> Waits(h, R, I, c) /\ c # h[i].client
  <2>1. c > 0
    BY QueueConstants DEF Clients
  <2>2. Waits(g, R, I, c) => Waits(h, R, I, c) /\ c # h[i].client
    BY <2>1, <1>3, <1>10 DEF Waits
  <2>3. Waits(h, R, I, c) /\ c # h[i].client => Waits(g, R, I, c)
    BY <1>3, <1>4 DEF Waits
  <2> QED
    BY <2>2, <2>3
<1> QED
  BY <1>5, <1>6, <1>7, <1>8, <1>11, <1>12 DEF Keeps, g

\* A response leaves OMP's requests: the rest keeps custody, and its client
\* waits nowhere else.
LEMMA Respond ==
    ASSUME NEW h, NEW R, NEW I, NEW n \in 0 .. MaxReq, NEW k \in 0 .. MaxInt,
           NEW m \in R, Keeps(h, R, I, n, k)
    PROVE  /\ Keeps(h, R \ {m}, Drop(I, m.id), n, k)
           /\ \A c \in Clients :
                 Waits(h, R \ {m}, Drop(I, m.id), c) <=> Waits(h, R, I, c) /\ c # Owner(I, m.id)
<1> DEFINE Q == R \ {m}
           J == Drop(I, m.id)
<1>1. /\ DOMAIN J = DOMAIN I \ {m.id}
      /\ \A a \in DOMAIN J : J[a] = I[a]
  BY DEF Drop
<1>2. \A r \in Q : r \in R /\ r.id # m.id
  BY DEF Keeps, Distinct
<1>3. \A r \in R : r # m => r \in Q
  OBVIOUS
<1> HIDE DEF Q, J
<1>4. \A r \in Q : Owner(J, r.id) = Owner(I, r.id)
  BY <1>1, <1>2 DEF Owner
<1>5. Typed(h, Q, J) /\ Distinct(h, Q) /\ Issued(h, Q, J, n, k) /\ Shapes(h, J)
  BY <1>1, <1>2 DEF Keeps, Typed, Distinct, Issued, Shapes
<1>6. Internally(Q, J)
  BY <1>1, <1>2, <1>3 DEF Keeps, Internally
<1>7. Single(h, Q, J)
  BY <1>2, <1>4 DEF Keeps, Single
<1>8. ASSUME NEW c \in Clients
      PROVE  Waits(h, Q, J, c) <=> Waits(h, R, I, c) /\ c # Owner(I, m.id)
  <2>1. c > 0
    BY QueueConstants DEF Clients
  <2>2. Waits(h, Q, J, c) => Waits(h, R, I, c) /\ c # Owner(I, m.id)
    BY <2>1, <1>2, <1>4 DEF Waits, Keeps, Single
  <2>3. Waits(h, R, I, c) /\ c # Owner(I, m.id) => Waits(h, Q, J, c)
    BY <1>3, <1>4 DEF Waits
  <2> QED
    BY <2>2, <2>3
<1> QED
  BY <1>5, <1>6, <1>7, <1>8 DEF Keeps, Q, J

\* A set_mode request goes to OMP under an internal id, with its record: its
\* client waits.
LEMMA AskedMode ==
    ASSUME NEW h, NEW R, NEW I, NEW n \in 0 .. MaxReq, NEW k \in 0 .. MaxInt,
           NEW m \in Requests, NEW rec \in Records,
           Keeps(h, R, I, n, k),
           -k <= m.id, m.id <= n,
           \A r \in R : r.id # m.id,
           \A i \in DOMAIN h : h[i].agent # m.id,
           m.id \in Internals, m.id < 0, m.op \notin {"new", "load"},
           rec.client <= n,
           rec.kind = "vibeMode" => rec.client > 0,
           rec.kind = "internal" => rec.client = 0,
           rec.follow # <<>> => /\ rec.kind = "vibeMode"
                                /\ rec.follow[1] \in Entries
                                /\ rec.follow[1].agent = rec.client
                                /\ rec.follow[1].client = rec.client,
           rec.client > 0 => ~Waits(h, R, I, rec.client)
    PROVE  /\ Keeps(h, R \cup {m}, Put(I, m.id, rec), n, k)
           /\ \A c \in Clients :
                 Waits(h, R \cup {m}, Put(I, m.id, rec), c) <=> Waits(h, R, I, c) \/ c = rec.client
<1> DEFINE Q == R \cup {m}
<1>1. /\ \A r \in Q : r \in R \/ r = m
      /\ m \in Q
      /\ \A r \in R : r \in Q
  OBVIOUS
<1> HIDE DEF Q
<1>2. m.id \notin DOMAIN I
  BY DEF Keeps, Internally
<1> DEFINE J == Put(I, m.id, rec)
<1>3. /\ \A a \in DOMAIN I : a \in DOMAIN J /\ J[a] = I[a]
      /\ \A a \in DOMAIN J : a \in DOMAIN I \/ a = m.id
      /\ m.id \in DOMAIN J /\ J[m.id] = rec
  BY <1>2 DEF Put
<1> HIDE DEF J
<1>4. /\ \A r \in R : Owner(J, r.id) = Owner(I, r.id)
      /\ Owner(J, m.id) = rec.client
  BY <1>3 DEF Owner
<1>5. Typed(h, Q, J)
  BY <1>1, <1>3 DEF Keeps, Typed
<1>6. Distinct(h, Q)
  BY <1>1 DEF Keeps, Distinct
<1>7. Issued(h, Q, J, n, k)
  BY <1>1, <1>3 DEF Keeps, Issued
<1>8. Internally(Q, J)
  BY <1>1, <1>3 DEF Keeps, Internally
<1>9. Shapes(h, J)
  BY <1>3 DEF Keeps, Shapes
<1>10. Single(h, Q, J)
  BY <1>1, <1>4 DEF Keeps, Single, Waits
<1>11. ASSUME NEW c \in Clients
       PROVE  Waits(h, Q, J, c) <=> Waits(h, R, I, c) \/ c = rec.client
  BY <1>1, <1>4 DEF Waits
<1> QED
  BY <1>5, <1>6, <1>7, <1>8, <1>9, <1>10, <1>11 DEF Keeps, Q, J

\* A session switch goes to OMP under the pager's own id, which then waits.
LEMMA AskedSwitch ==
    ASSUME NEW h, NEW R, NEW I, NEW n \in 0 .. MaxReq, NEW k \in 0 .. MaxInt,
           NEW m \in Requests,
           Keeps(h, R, I, n, k),
           -k <= m.id, m.id <= n,
           \A r \in R : r.id # m.id,
           \A i \in DOMAIN h : h[i].agent # m.id,
           m.id > 0, ~Waits(h, R, I, m.id)
    PROVE  /\ Keeps(h, R \cup {m}, I, n, k)
           /\ \A c \in Clients :
                 Waits(h, R \cup {m}, I, c) <=> Waits(h, R, I, c) \/ c = m.id
<1> DEFINE Q == R \cup {m}
<1>1. /\ \A r \in Q : r \in R \/ r = m
      /\ m \in Q
      /\ \A r \in R : r \in Q
  OBVIOUS
<1> HIDE DEF Q
<1>2. m.id \notin DOMAIN I
  BY DEF Keeps, Internally
<1> DEFINE J == I
<1>3. m.id \in Int /\ ~(m.id < 0)
  BY QueueConstants DEF Requests, AgentIds, Clients, Internals
<1>4. Owner(I, m.id) = m.id
  BY <1>2 DEF Owner
<1>5. Typed(h, Q, J)
  BY <1>1, <1>3 DEF Keeps, Typed
<1>6. Distinct(h, Q)
  BY <1>1 DEF Keeps, Distinct
<1>7. Issued(h, Q, J, n, k)
  BY <1>1, <1>3 DEF Keeps, Issued
<1>8. Internally(Q, J)
  BY <1>1, <1>3 DEF Keeps, Internally
<1>9. Shapes(h, J)
  BY <1>3 DEF Keeps, Shapes
<1>10. Single(h, Q, J)
  BY <1>1, <1>4 DEF Keeps, Single, Waits
<1>11. ASSUME NEW c \in Clients
       PROVE  Waits(h, Q, J, c) <=> Waits(h, R, I, c) \/ c = m.id
  BY <1>1, <1>4 DEF Waits
<1> QED
  BY <1>5, <1>6, <1>7, <1>8, <1>9, <1>10, <1>11 DEF Keeps, Q, J

\* Handing out more ids keeps custody.
LEMMA Later ==
    ASSUME NEW h, NEW R, NEW I, NEW n \in Nat, NEW k \in Nat, NEW n2 \in Nat, NEW k2 \in Nat,
           n <= n2, k <= k2, Keeps(h, R, I, n, k)
    PROVE  Keeps(h, R, I, n2, k2)
<1>0. AgentIds \subseteq Int /\ Clients \cup {0} \subseteq Int
  BY QueueConstants DEF AgentIds, Clients, Internals
<1>1. /\ \A m \in R : m.id \in Int
      /\ \A i \in DOMAIN h : h[i].agent \in Int /\ h[i].client \in Int
      /\ \A a \in DOMAIN I : I[a].client \in Int
  <2>1. \A m \in Requests : m.id \in Int
    BY <1>0 DEF Requests
  <2>2. \A e \in Entries : e.agent \in Int /\ e.client \in Int
    BY <1>0 DEF Entries
  <2>3. \A r \in Records : r.client \in Int
    BY <1>0 DEF Records
  <2> QED
    BY <2>1, <2>2, <2>3 DEF Keeps, Typed
<1>2. Issued(h, R, I, n2, k2)
  BY <1>1 DEF Keeps, Issued
<1> QED
  BY <1>2 DEF Keeps

\* A queue with the same entries in another order, or with edited texts, keeps
\* custody and the same clients waiting.
LEMMA Rearranged ==
    ASSUME NEW h, NEW R, NEW I, NEW n, NEW k, NEW g \in Seq(Entries),
           NEW p \in [DOMAIN h -> DOMAIN h],
           Keeps(h, R, I, n, k),
           DOMAIN g = DOMAIN h,
           \A i, j \in DOMAIN h : p[i] = p[j] => i = j,
           \A j \in DOMAIN h : \E i \in DOMAIN h : p[i] = j,
           \A i \in DOMAIN h : g[i].agent = h[p[i]].agent /\ g[i].client = h[p[i]].client
    PROVE  /\ Keeps(g, R, I, n, k)
           /\ \A c \in Clients : Waits(g, R, I, c) <=> Waits(h, R, I, c)
<1>1. Typed(g, R, I) /\ Internally(R, I)
  BY DEF Keeps, Typed
<1>2. Distinct(g, R)
  BY DEF Keeps, Distinct
<1> DEFINE D == DOMAIN h
<1>3. /\ DOMAIN g = D /\ DOMAIN h = D
      /\ \A i \in D : p[i] \in D
      /\ \A i, j \in D : p[i] = p[j] => i = j
      /\ \A j \in D : \E i \in D : p[i] = j
      /\ \A i \in D : g[i].agent = h[p[i]].agent /\ g[i].client = h[p[i]].client
  OBVIOUS
<1> HIDE DEF D
<1>4. Issued(g, R, I, n, k) /\ Shapes(g, I)
  <2>1. Issued(h, R, I, n, k) /\ Shapes(h, I)
    BY DEF Keeps
  <2>2. ASSUME NEW i \in D
        PROVE  /\ -k <= g[i].agent /\ g[i].agent <= n /\ g[i].client <= n
               /\ g[i].agent > 0 => g[i].client = g[i].agent
    <3>1. PICK j \in D : j = p[i]
      BY <1>3
    <3>2. g[i].agent = h[j].agent /\ g[i].client = h[j].client
      BY <1>3, <3>1
    <3>3. /\ -k <= h[j].agent /\ h[j].agent <= n /\ h[j].client <= n
          /\ h[j].agent > 0 => h[j].client = h[j].agent
      BY <2>1, <1>3 DEF Issued, Shapes
    <3> QED
      BY <3>2, <3>3
  <2> QED
    BY <2>1, <2>2, <1>3 DEF Issued, Shapes
<1>5. Single(g, R, I)
  <2>1. Single(h, R, I)
    BY DEF Keeps
  <2>2. ASSUME NEW i \in D, NEW j \in D, g[i].client = g[j].client, g[i].client > 0
        PROVE  i = j
    <3>1. PICK x \in D : x = p[i]
      BY <1>3
    <3>2. PICK y \in D : y = p[j]
      BY <1>3
    <3>3. h[x].client = h[y].client /\ h[x].client > 0
      BY <1>3, <2>2, <3>1, <3>2
    <3>4. x = y
      BY ONLY <2>1, <3>3, <1>3, x \in D, y \in D DEF Single
    <3> QED
      BY <3>1, <3>2, <3>4, <1>3
  <2>3. ASSUME NEW i \in D, NEW m \in R, g[i].client > 0
        PROVE  Owner(I, m.id) # g[i].client
    <3>1. p[i] \in D /\ h[p[i]].client = g[i].client
      BY <1>3
    <3> QED
      BY <2>1, <2>3, <3>1, <1>3 DEF Single
  <2> QED
    BY <2>1, <2>2, <2>3, <1>3 DEF Single
<1>6. ASSUME NEW c \in Clients
      PROVE  Waits(g, R, I, c) <=> Waits(h, R, I, c)
  <2>1. ASSUME NEW i \in D, g[i].client = c PROVE \E j \in D : h[j].client = c
    BY <2>1, <1>3
  <2>2. ASSUME NEW j \in D, h[j].client = c PROVE \E i \in D : g[i].client = c
    <3>1. PICK i \in D : p[i] = j
      BY <1>3
    <3> QED
      BY <2>2, <3>1, <1>3
  <2> QED
    BY <2>1, <2>2, <1>3 DEF Waits
<1> QED
  BY <1>1, <1>2, <1>4, <1>5, <1>6 DEF Keeps

\* An emptied queue keeps custody of what is at OMP.
LEMMA Emptied ==
    ASSUME NEW h, NEW R, NEW I, NEW n, NEW k, Keeps(h, R, I, n, k)
    PROVE  /\ Keeps(<<>>, R, I, n, k)
           /\ \A c \in Clients : Waits(<<>>, R, I, c) <=>
                 Waits(h, R, I, c) /\ ~(\E i \in DOMAIN h : h[i].client = c)
<1>1. <<>> \in Seq(Entries) /\ DOMAIN <<>> = {}
  OBVIOUS
<1>2. Keeps(<<>>, R, I, n, k)
  BY <1>1 DEF Keeps, Typed, Distinct, Issued, Shapes, Single
<1>3. ASSUME NEW c \in Clients
      PROVE  Waits(<<>>, R, I, c) <=> Waits(h, R, I, c) /\ ~(\E i \in DOMAIN h : h[i].client = c)
  <2>1. c > 0
    BY QueueConstants DEF Clients
  <2> QED
    BY <1>1, <2>1 DEF Waits, Keeps, Single
<1> QED
  BY <1>2, <1>3

-----------------------------------------------------------------------------
(* Custody of the state, in the form the lemmas use.                         *)

Misc(s, kn, run, fl, k, t, n, ans) ==
    /\ s \in Sessions
    /\ kn \in Sessions
    /\ run \in {NoTurn} \cup [agent: AgentIds, text: Texts]
    /\ fl \subseteq AgentIds
    /\ k \in 0 .. MaxInt
    /\ t \in Nat
    /\ n \in 0 .. MaxReq
    /\ ans \in [Clients -> Nat]

\* The ledger: an issued request waits unanswered or was answered once.
Ledger(h, R, I, n, ans) ==
    \A c \in Clients :
        /\ c <= n => \/ ans[c] = 0 /\ Waits(h, R, I, c)
                     \/ ans[c] = 1 /\ ~Waits(h, R, I, c)
        /\ c > n => ans[c] = 0

\* Custody, in the three parts the lemmas speak of.
LEMMA CustodySplit ==
    Custody <=> /\ Misc(session, known, running, inFlight, internalSeq, turns, nreq, answers)
                /\ Keeps(held, omp, internal, nreq, internalSeq)
                /\ Ledger(held, omp, internal, nreq, answers)
<1>1. \A id : ClientOf(id) = Owner(internal, id)
  BY DEF ClientOf, Owner
<1>2. \A c : Waiting(c) <=> Waits(held, omp, internal, c)
  BY <1>1 DEF Waiting, HeldFor, AtAgent, Waits
<1>3. TypeOK <=> /\ Misc(session, known, running, inFlight, internalSeq, turns, nreq, answers)
                 /\ Typed(held, omp, internal)
  BY DEF TypeOK, Misc, Typed
<1>4. ASSUME TypeOK
      PROVE  /\ AgentIdsDistinct <=> Distinct(held, omp)
             /\ InternalsAtAgent <=> Internally(omp, internal)
             /\ EntryShapes <=> Shapes(held, internal)
             /\ OneHolder <=> Single(held, omp, internal)
  BY <1>1 DEF AgentIdsDistinct, Distinct, InternalsAtAgent, Internally, EntryShapes, Shapes,
              OneHolder, Single
<1>5. ASSUME TypeOK
      PROVE  IdsIssued /\ NoRequestLost <=> /\ Issued(held, omp, internal, nreq, internalSeq)
                                            /\ Ledger(held, omp, internal, nreq, answers)
  <2>1. nreq \in 0 .. MaxReq
    BY <1>5 DEF TypeOK
  <2>2. \A c : c \in 1 .. nreq <=> c \in Clients /\ c <= nreq
    BY <2>1, QueueConstants DEF Clients
  <2>3. NoRequestLost /\ (\A c \in Clients : c > nreq => answers[c] = 0)
          <=> Ledger(held, omp, internal, nreq, answers)
    BY <2>2, <1>2 DEF NoRequestLost, Ledger
  <2> QED
    BY <2>3 DEF IdsIssued, Issued
<1> QED
  BY <1>3, <1>4, <1>5 DEF Custody, Keeps

\* The invariant the induction runs on: Custody, split.
Kept ==
    /\ Misc(session, known, running, inFlight, internalSeq, turns, nreq, answers)
    /\ Keeps(held, omp, internal, nreq, internalSeq)
    /\ Ledger(held, omp, internal, nreq, answers)

\* cancelHeld on one entry answers its client once, and nobody else.
LEMMA CancelledOne ==
    ASSUME NEW i \in DOMAIN held, NEW c \in Clients
    PROVE  Cancelled(c, {i}) = IF held[i].client = c THEN 1 ELSE 0
<1>1. CASE held[i].client = c
  <2>1. {j \in {i} : held[j].client = c} = {i}
    BY <1>1
  <2> QED
    BY <1>1, <2>1, FS_Singleton DEF Cancelled
<1>2. CASE held[i].client # c
  <2>1. {j \in {i} : held[j].client = c} = {}
    BY <1>2
  <2> QED
    BY <1>2, <2>1, FS_EmptySet DEF Cancelled
<1> QED
  BY <1>1, <1>2

\* cancelHeld on the whole queue answers each client it holds exactly once.
LEMMA CancelledAll ==
    ASSUME Keeps(held, omp, internal, nreq, internalSeq), NEW c \in Clients
    PROVE  Cancelled(c, DOMAIN held) = IF \E i \in DOMAIN held : held[i].client = c THEN 1 ELSE 0
<1>1. c > 0
  BY QueueConstants DEF Clients
<1>2. CASE \E i \in DOMAIN held : held[i].client = c
  <2>1. PICK i \in DOMAIN held : held[i].client = c
    BY <1>2
  <2>2. {j \in DOMAIN held : held[j].client = c} = {i}
    BY <2>1, <1>1 DEF Keeps, Single
  <2> QED
    BY <1>2, <2>2, FS_Singleton DEF Cancelled
<1>3. CASE ~(\E i \in DOMAIN held : held[i].client = c)
  <2>1. {j \in DOMAIN held : held[j].client = c} = {}
    BY <1>3
  <2> QED
    BY <1>3, <2>1, FS_EmptySet DEF Cancelled
<1> QED
  BY <1>2, <1>3

\* What dispatchEntry does to custody.
LEMMA Dispatched ==
    ASSUME NEW h, NEW e, NEW I, NEW R, NEW n \in 0 .. MaxReq, NEW k \in 0 .. MaxInt,
           NEW how \in {"sent_now", "overrun"},
           Keeps(h, R, I, n, k), Joins(e, h, R, I, n, k),
           inFlight \subseteq AgentIds,
           dispatchEntry(e, how, I, R)
    PROVE  /\ Keeps(h, omp', internal', n, k)
           /\ \A c \in Clients : Waits(h, omp', internal', c) <=> Waits(h, R, I, c) \/ c = e.client
           /\ running' \in {NoTurn} \cup [agent: AgentIds, text: Texts]
           /\ inFlight' \subseteq AgentIds
<1>1. e.agent \in AgentIds /\ e.text \in Texts
  BY DEF Joins, Entries
<1>2. /\ running' \in {NoTurn} \cup [agent: AgentIds, text: Texts]
      /\ inFlight' \subseteq AgentIds
  BY <1>1 DEF dispatchEntry
<1>3. omp' = Deliver(R, e, how) /\ internal' = Recorded(I, e)
  BY DEF dispatchEntry
<1>4. /\ Keeps(h, Deliver(R, e, how), Recorded(I, e), n, k)
      /\ \A c \in Clients : Waits(h, Deliver(R, e, how), Recorded(I, e), c)
                              <=> Waits(h, R, I, c) \/ c = e.client
  BY JoinSent
<1> QED
  BY <1>2, <1>3, <1>4

\* What holding or dispatching an entry does to custody.
LEMMA HeldOrDispatched ==
    ASSUME NEW e, NEW I, NEW R, NEW n \in 0 .. MaxReq, NEW k \in 0 .. MaxInt,
           Keeps(held, R, I, n, k), Joins(e, held, R, I, n, k),
           running \in {NoTurn} \cup [agent: AgentIds, text: Texts],
           inFlight \subseteq AgentIds,
           holdOrDispatch(e, I, R)
    PROVE  /\ Keeps(held', omp', internal', n, k)
           /\ \A c \in Clients : Waits(held', omp', internal', c) <=> Waits(held, R, I, c) \/ c = e.client
           /\ running' \in {NoTurn} \cup [agent: AgentIds, text: Texts]
           /\ inFlight' \subseteq AgentIds
<1>1. CASE held' = Append(held, e) /\ internal' = I /\ omp' = R /\ UNCHANGED <<running, inFlight>>
  <2>1. /\ Keeps(Append(held, e), R, I, n, k)
        /\ \A c \in Clients : Waits(Append(held, e), R, I, c) <=> Waits(held, R, I, c) \/ c = e.client
    BY JoinHeld
  <2> QED
    BY <1>1, <2>1
<1>2. CASE dispatchEntry(e, "overrun", I, R) /\ held' = held
  BY <1>2, Dispatched
<1> QED
  BY <1>1, <1>2 DEF holdOrDispatch

-----------------------------------------------------------------------------
(* One lemma per action: it keeps the invariant.                             *)

\* The ids handed out next are in use nowhere.
LEMMA FreshIds ==
    ASSUME Kept
    PROVE  /\ nreq \in Nat /\ internalSeq \in Nat
           /\ \A i \in DOMAIN held : held[i].agent # nreq + 1 /\ held[i].agent # -(internalSeq + 1)
           /\ \A m \in omp : m.id # nreq + 1 /\ m.id # -(internalSeq + 1)
           /\ ~Waits(held, omp, internal, nreq + 1)
<1>1. nreq \in Nat /\ internalSeq \in Nat
  BY QueueConstants DEF Kept, Misc
<1>2. \A m \in omp : m.id \in Int
  <2>1. AgentIds \subseteq Int
    BY QueueConstants DEF AgentIds, Clients, Internals
  <2> QED
    BY <2>1 DEF Kept, Keeps, Typed, Requests
<1>3. \A i \in DOMAIN held : held[i].agent \in Int /\ held[i].client \in Int
  <2>1. AgentIds \subseteq Int /\ Clients \cup {0} \subseteq Int
    BY QueueConstants DEF AgentIds, Clients, Internals
  <2>2. \A e \in Entries : e.agent \in Int /\ e.client \in Int
    BY <2>1 DEF Entries
  <2> QED
    BY <2>2 DEF Kept, Keeps, Typed
<1>4. \A m \in omp : m.id # nreq + 1 /\ m.id # -(internalSeq + 1)
  BY <1>1, <1>2 DEF Kept, Keeps, Issued
<1>5. \A i \in DOMAIN held : /\ held[i].agent # nreq + 1
                             /\ held[i].agent # -(internalSeq + 1)
                             /\ held[i].client # nreq + 1
  BY <1>1, <1>3 DEF Kept, Keeps, Issued
<1>6. \A a \in DOMAIN internal : internal[a].client # nreq + 1
  <2>1. \A r \in Records : r.client \in Int
    BY QueueConstants DEF Records, Clients
  <2> QED
    BY <1>1, <2>1 DEF Kept, Keeps, Typed, Issued
<1>7. \A m \in omp : Owner(internal, m.id) # nreq + 1
  BY <1>4, <1>6 DEF Owner
<1> QED
  BY <1>1, <1>4, <1>5, <1>7 DEF Waits

\* A prompt of the pager may join the queue.
LEMMA PromptJoins ==
    ASSUME Kept, nreq < MaxReq, NEW sid \in Sessions, NEW t \in Texts
    PROVE  /\ Joins(PromptEntry(sid, t), held, omp, internal, nreq + 1, internalSeq)
           /\ Keeps(held, omp, internal, nreq + 1, internalSeq)
           /\ nreq + 1 \in 0 .. MaxReq /\ internalSeq \in 0 .. MaxInt
           /\ PromptEntry(sid, t).client = nreq + 1
<1>1. nreq + 1 \in Clients /\ nreq + 1 \in 0 .. MaxReq /\ nreq \in Nat /\ internalSeq \in 0 .. MaxInt
  BY QueueConstants DEF Kept, Misc, Clients
<1>2. PromptEntry(sid, t) \in Entries /\ PromptEntry(sid, t).agent = nreq + 1
       /\ PromptEntry(sid, t).client = nreq + 1
  BY <1>1 DEF PromptEntry, Entries, AgentIds, Kinds
<1>3. Keeps(held, omp, internal, nreq + 1, internalSeq)
  BY <1>1, QueueConstants, Later DEF Kept
<1> QED
  BY <1>1, <1>2, <1>3, FreshIds, QueueConstants DEF Joins

\* An entry under an internal id may join the queue.
LEMMA InternalJoins ==
    ASSUME Kept, nreq < MaxReq, internalSeq < MaxInt, NEW sid \in Sessions, NEW t \in Texts,
           NEW kind \in Kinds, NEW c \in {0, nreq + 1}
    PROVE  /\ Joins(InternalEntry(kind, c, sid, t), held, omp, internal, nreq + 1, internalSeq + 1)
           /\ Keeps(held, omp, internal, nreq + 1, internalSeq + 1)
           /\ nreq + 1 \in 0 .. MaxReq /\ internalSeq + 1 \in 0 .. MaxInt
           /\ InternalEntry(kind, c, sid, t).client = c
<1>1. /\ nreq + 1 \in Clients /\ nreq + 1 \in 0 .. MaxReq /\ nreq \in Nat
      /\ internalSeq + 1 \in 0 .. MaxInt /\ internalSeq \in Nat
      /\ -(internalSeq + 1) \in Internals
  BY QueueConstants DEF Kept, Misc, Clients, Internals
<1>2. /\ InternalEntry(kind, c, sid, t) \in Entries
      /\ InternalEntry(kind, c, sid, t).agent = -(internalSeq + 1)
      /\ InternalEntry(kind, c, sid, t).client = c
  BY <1>1 DEF InternalEntry, Entries, AgentIds
<1>3. Keeps(held, omp, internal, nreq + 1, internalSeq + 1)
  BY <1>1, QueueConstants, Later DEF Kept
<1> QED
  BY <1>1, <1>2, <1>3, FreshIds, QueueConstants DEF Joins

\* The pager addresses sessions that exist.
LEMMA PagerSession == ASSUME Kept PROVE PagerSids \subseteq Sessions
  BY QueueConstants DEF Kept, Misc, PagerSids, Sessions

\* A prompt is held or dispatched: its request starts to wait.
LEMMA KeptPrompt ==
    ASSUME Kept, NEW sid \in PagerSids, NEW t \in Texts, Prompt(sid, t)
    PROVE  Kept'
<1>1. /\ nreq < MaxReq /\ nreq' = nreq + 1 /\ holdOrDispatch(PromptEntry(sid, t), internal, omp)
      /\ UNCHANGED <<session, known, internalSeq, turns, answers>> /\ sid \in Sessions
  BY PagerSession DEF Prompt, NewRequest
<1>2. /\ Keeps(held', omp', internal', nreq + 1, internalSeq)
      /\ \A c \in Clients : Waits(held', omp', internal', c) <=> Waits(held, omp, internal, c) \/ c = nreq + 1
      /\ running' \in {NoTurn} \cup [agent: AgentIds, text: Texts]
      /\ inFlight' \subseteq AgentIds
      /\ nreq + 1 \in 0 .. MaxReq
  BY <1>1, PromptJoins, HeldOrDispatched DEF Kept, Misc
<1>3. Ledger(held', omp', internal', nreq', answers')
  BY <1>1, <1>2, FreshIds, QueueConstants DEF Kept, Ledger, Misc, Clients
<1> QED
  BY <1>1, <1>2, <1>3 DEF Kept, Misc

\* A send-now prompt is dispatched past the queue.
LEMMA KeptPromptSendNow ==
    ASSUME Kept, NEW sid \in PagerSids, NEW t \in Texts, PromptSendNow(sid, t)
    PROVE  Kept'
<1>1. /\ nreq < MaxReq /\ nreq' = nreq + 1 /\ dispatchEntry(PromptEntry(sid, t), "sent_now", internal, omp)
      /\ UNCHANGED <<session, known, internalSeq, turns, answers, held>> /\ sid \in Sessions
  BY PagerSession DEF PromptSendNow, NewRequest
<1>2. /\ Keeps(held, omp', internal', nreq + 1, internalSeq)
      /\ \A c \in Clients : Waits(held, omp', internal', c) <=> Waits(held, omp, internal, c) \/ c = nreq + 1
      /\ running' \in {NoTurn} \cup [agent: AgentIds, text: Texts]
      /\ inFlight' \subseteq AgentIds
      /\ nreq + 1 \in 0 .. MaxReq
  BY <1>1, PromptJoins, Dispatched DEF Kept, Misc
<1>3. Ledger(held', omp', internal', nreq', answers')
  BY <1>1, <1>2, FreshIds, QueueConstants DEF Kept, Ledger, Misc, Clients
<1> QED
  BY <1>1, <1>2, <1>3 DEF Kept, Misc

\* An interjection joins the queue and its request is answered at once.
LEMMA KeptInterject ==
    ASSUME Kept, NEW sid \in PagerSids, NEW t \in Texts, Interject(sid, t)
    PROVE  Kept'
<1>1. /\ nreq < MaxReq /\ nreq' = nreq + 1 /\ internalSeq < MaxInt /\ internalSeq' = internalSeq + 1
      /\ holdOrDispatch(InternalEntry("interjection", 0, sid, t), internal, omp)
      /\ answers' = [answers EXCEPT ![nreq + 1] = @ + 1]
      /\ UNCHANGED <<session, known, turns>> /\ sid \in Sessions
  BY PagerSession DEF Interject, NewRequest, NewInternal, answer
<1>2. /\ Keeps(held', omp', internal', nreq + 1, internalSeq + 1)
      /\ \A c \in Clients : Waits(held', omp', internal', c) <=> Waits(held, omp, internal, c) \/ c = 0
      /\ running' \in {NoTurn} \cup [agent: AgentIds, text: Texts]
      /\ inFlight' \subseteq AgentIds
      /\ nreq + 1 \in 0 .. MaxReq /\ internalSeq + 1 \in 0 .. MaxInt
  BY <1>1, InternalJoins, HeldOrDispatched DEF Kept, Misc, Kinds
<1>3. Ledger(held', omp', internal', nreq', answers') /\ answers' \in [Clients -> Nat]
  BY <1>1, <1>2, FreshIds, QueueConstants DEF Kept, Ledger, Misc, Clients
<1> QED
  BY <1>1, <1>2, <1>3 DEF Kept, Misc

\* A compaction joins the queue under an internal id; its request waits.
LEMMA KeptCompact ==
    ASSUME Kept, NEW sid \in PagerSids, NEW t \in Texts, Compact(sid, t)
    PROVE  Kept'
<1>1. /\ nreq < MaxReq /\ nreq' = nreq + 1 /\ internalSeq < MaxInt /\ internalSeq' = internalSeq + 1
      /\ holdOrDispatch(InternalEntry("compact", nreq + 1, sid, t), internal, omp)
      /\ UNCHANGED <<session, known, turns, answers>> /\ sid \in Sessions
  BY PagerSession DEF Compact, NewRequest, NewInternal
<1>2. /\ Keeps(held', omp', internal', nreq + 1, internalSeq + 1)
      /\ \A c \in Clients : Waits(held', omp', internal', c) <=> Waits(held, omp, internal, c) \/ c = nreq + 1
      /\ running' \in {NoTurn} \cup [agent: AgentIds, text: Texts]
      /\ inFlight' \subseteq AgentIds
      /\ nreq + 1 \in 0 .. MaxReq /\ internalSeq + 1 \in 0 .. MaxInt
  BY <1>1, InternalJoins, HeldOrDispatched DEF Kept, Misc, Kinds
<1>3. Ledger(held', omp', internal', nreq', answers')
  BY <1>1, <1>2, FreshIds, QueueConstants DEF Kept, Ledger, Misc, Clients
<1> QED
  BY <1>1, <1>2, <1>3 DEF Kept, Misc

\* The ranges of the ids handed out next.
LEMMA IdRanges ==
    ASSUME Kept
    PROVE  /\ nreq \in 0 .. MaxReq /\ nreq \in Nat /\ session \in Sessions
           /\ internalSeq \in 0 .. MaxInt /\ internalSeq \in Nat
           /\ nreq < MaxReq => nreq + 1 \in Clients /\ nreq + 1 \in 0 .. MaxReq
           /\ internalSeq < MaxInt => /\ internalSeq + 1 \in 0 .. MaxInt
                                      /\ -(internalSeq + 1) \in Internals
<1>1. nreq \in 0 .. MaxReq /\ internalSeq \in 0 .. MaxInt /\ session \in Sessions
  BY DEF Kept, Misc
<1> QED
  BY <1>1, QueueConstants DEF Clients, Internals

\* There is a text.
LEMMA AText == AnyText \in Texts
  BY QueueConstants DEF AnyText

\* The request behind /vibe waits for the mode's answer.
LEMMA KeptVibePrompt ==
    ASSUME Kept, NEW sid \in PagerSids, NEW t \in Texts, NEW rest \in BOOLEAN, VibePrompt(sid, t, rest)
    PROVE  Kept'
<1> DEFINE e == PromptEntry(sid, t)
           rec == [kind |-> "vibeMode", client |-> nreq + 1, follow |-> IF rest THEN <<e>> ELSE <<>>]
           m == [id |-> -(internalSeq + 1), op |-> "set_mode", sid |-> sid, body |-> AnyText, cut |-> "no"]
<1>1. /\ nreq < MaxReq /\ nreq' = nreq + 1 /\ internalSeq < MaxInt /\ internalSeq' = internalSeq + 1
      /\ internal' = Put(internal, m.id, rec)
      /\ omp' = omp \cup {m}
      /\ UNCHANGED <<session, known, held, running, inFlight, turns, answers>> /\ sid \in Sessions
  BY PagerSession DEF VibePrompt, NewRequest, NewInternal, Ask
<1>3. e \in Entries /\ e.agent = nreq + 1 /\ e.client = nreq + 1
  BY <1>1, IdRanges DEF PromptEntry, Entries, AgentIds, Kinds
<1> HIDE DEF e
<1>4. /\ rec \in Records /\ rec.client = nreq + 1 /\ rec.kind = "vibeMode"
      /\ rec.follow # <<>> => rec.follow[1] = e
  BY <1>1, <1>3, IdRanges DEF Records
<1>5. m \in Requests /\ m.id = -(internalSeq + 1) /\ m.op = "set_mode"
  BY <1>1, IdRanges, AText DEF Requests, AgentIds
<1> HIDE DEF rec, m
<1>6. Keeps(held, omp, internal, nreq + 1, internalSeq + 1)
  BY <1>1, IdRanges, Later DEF Kept
<1>7. /\ Keeps(held, omp \cup {m}, Put(internal, m.id, rec), nreq + 1, internalSeq + 1)
      /\ \A c \in Clients : Waits(held, omp \cup {m}, Put(internal, m.id, rec), c)
                              <=> Waits(held, omp, internal, c) \/ c = nreq + 1
  <2>1. /\ nreq + 1 \in 0 .. MaxReq /\ internalSeq + 1 \in 0 .. MaxInt
        /\ -(internalSeq + 1) <= m.id /\ m.id <= nreq + 1
        /\ m.id \in Internals /\ m.id < 0 /\ m.op \notin {"new", "load"}
    BY <1>1, <1>5, IdRanges
  <2>2. /\ \A r \in omp : r.id # m.id
        /\ \A i \in DOMAIN held : held[i].agent # m.id
        /\ ~Waits(held, omp, internal, rec.client)
    BY <1>4, <1>5, FreshIds
  <2>3. /\ rec.client <= nreq + 1
        /\ rec.client > 0 /\ rec.kind # "internal"
        /\ rec.follow # <<>> => /\ rec.kind = "vibeMode"
                                /\ rec.follow[1] \in Entries
                                /\ rec.follow[1].agent = rec.client
                                /\ rec.follow[1].client = rec.client
    BY <1>3, <1>4, IdRanges
  <2> DEFINE n == nreq + 1
             k == internalSeq + 1
  <2>4. /\ n \in 0 .. MaxReq /\ k \in 0 .. MaxInt /\ Keeps(held, omp, internal, n, k)
        /\ -k <= m.id /\ m.id <= n /\ rec.client <= n /\ rec.client = n
    BY <1>4, <1>6, <2>1, <2>3
  <2> HIDE DEF n, k
  <2>5. /\ m \in Requests /\ rec \in Records
        /\ m.id \in Internals /\ m.id < 0 /\ m.op \notin {"new", "load"}
        /\ rec.kind = "vibeMode" => rec.client > 0
        /\ rec.kind = "internal" => rec.client = 0
        /\ rec.client > 0 => ~Waits(held, omp, internal, rec.client)
    BY <1>4, <1>5, <2>1, <2>2, <2>3
  <2>6. /\ Keeps(held, omp \cup {m}, Put(internal, m.id, rec), n, k)
        /\ \A c \in Clients : Waits(held, omp \cup {m}, Put(internal, m.id, rec), c)
                                <=> Waits(held, omp, internal, c) \/ c = rec.client
    BY <2>2, <2>3, <2>4, <2>5, AskedMode
  <2> QED
    BY <2>4, <2>6 DEF n, k
<1>8. /\ Keeps(held', omp', internal', nreq', internalSeq')
      /\ \A c \in Clients : Waits(held', omp', internal', c)
                              <=> Waits(held, omp, internal, c) \/ c = nreq + 1
  BY <1>1, <1>7
<1>9. Ledger(held', omp', internal', nreq', answers')
  <2>1. nreq \in Nat /\ nreq' = nreq + 1 /\ answers' = answers /\ Clients \subseteq Nat
    BY <1>1, IdRanges, QueueConstants DEF Clients
  <2>2. Ledger(held, omp, internal, nreq, answers)
    BY DEF Kept
  <2> QED
    BY <2>1, <2>2, <1>8, FreshIds DEF Ledger
<1> QED
  BY <1>1, <1>8, <1>9, IdRanges DEF Kept, Misc

\* Toggling plan mode makes nobody wait.
LEMMA KeptTogglePlanMode ==
    ASSUME Kept, TogglePlanMode
    PROVE  Kept'
<1> DEFINE rec == [kind |-> "internal", client |-> 0, follow |-> <<>>]
           m == [id |-> -(internalSeq + 1), op |-> "set_mode", sid |-> session, body |-> AnyText, cut |-> "no"]
<1>1. /\ internalSeq < MaxInt /\ internalSeq' = internalSeq + 1
      /\ internal' = Put(internal, m.id, rec)
      /\ omp' = omp \cup {m}
      /\ UNCHANGED <<session, known, held, running, inFlight, turns, nreq, answers>>
  BY DEF TogglePlanMode, NewInternal, Ask
<1>3. rec \in Records /\ rec.client = 0 /\ rec.kind = "internal" /\ rec.follow = <<>>
  BY DEF Records
<1>4. m \in Requests /\ m.id = -(internalSeq + 1) /\ m.op = "set_mode"
  BY <1>1, IdRanges, AText DEF Requests, AgentIds
<1> HIDE DEF rec, m
<1>5. Keeps(held, omp, internal, nreq, internalSeq + 1)
  BY <1>1, IdRanges, Later DEF Kept
<1>6. /\ Keeps(held, omp \cup {m}, Put(internal, m.id, rec), nreq, internalSeq + 1)
      /\ \A c \in Clients : Waits(held, omp \cup {m}, Put(internal, m.id, rec), c)
                              <=> Waits(held, omp, internal, c) \/ c = 0
  <2>1. /\ nreq \in 0 .. MaxReq /\ internalSeq + 1 \in 0 .. MaxInt
        /\ -(internalSeq + 1) <= m.id /\ m.id <= nreq
        /\ m.id \in Internals /\ m.id < 0 /\ m.op \notin {"new", "load"}
        /\ rec.client <= nreq /\ rec \in Records /\ m \in Requests
    BY <1>1, <1>3, <1>4, IdRanges
  <2>2. /\ \A r \in omp : r.id # m.id
        /\ \A i \in DOMAIN held : held[i].agent # m.id
    BY <1>4, FreshIds
  <2>3. /\ rec.kind = "vibeMode" => rec.client > 0
        /\ rec.kind = "internal" => rec.client = 0
        /\ rec.client > 0 => ~Waits(held, omp, internal, rec.client)
        /\ rec.follow # <<>> => /\ rec.kind = "vibeMode"
                                /\ rec.follow[1] \in Entries
                                /\ rec.follow[1].agent = rec.client
                                /\ rec.follow[1].client = rec.client
    BY ONLY <1>3
  <2>4. /\ Keeps(held, omp \cup {m}, Put(internal, m.id, rec), nreq, internalSeq + 1)
        /\ \A c \in Clients : Waits(held, omp \cup {m}, Put(internal, m.id, rec), c)
                                <=> Waits(held, omp, internal, c) \/ c = rec.client
    BY ONLY <1>5, <2>1, <2>2, <2>3, AskedMode
  <2> QED
    BY <1>3, <2>4
<1>7. /\ Keeps(held', omp', internal', nreq', internalSeq')
      /\ \A c \in Clients : Waits(held', omp', internal', c) <=> Waits(held, omp, internal, c)
  BY <1>1, <1>6, QueueConstants DEF Clients
<1>8. Ledger(held', omp', internal', nreq', answers')
  BY <1>1, <1>7 DEF Kept, Ledger
<1> QED
  BY <1>1, <1>7, <1>8, IdRanges DEF Kept, Misc

\* A session switch waits under the pager's own id.
LEMMA KeptSwitchSession ==
    ASSUME Kept, NEW op \in {"new", "load"}, NEW s \in Sessions, Ask(nreq + 1, op, s),
           NewRequest, known' \in Sessions,
           UNCHANGED <<session, held, running, inFlight, internal, internalSeq, turns, answers>>
    PROVE  Kept'
<1> DEFINE m == [id |-> nreq + 1, op |-> op, sid |-> s, body |-> AnyText, cut |-> "no"]
<1>1. /\ nreq < MaxReq /\ nreq' = nreq + 1
      /\ omp' = omp \cup {m}
      /\ UNCHANGED <<session, held, running, inFlight, internal, internalSeq, turns, answers>>
  BY DEF NewRequest, Ask
<1>2. m \in Requests /\ m.id = nreq + 1
  BY <1>1, IdRanges, AText DEF Requests, AgentIds
<1> HIDE DEF m
<1>3. Keeps(held, omp, internal, nreq + 1, internalSeq)
  BY <1>1, IdRanges, Later DEF Kept
<1>4. /\ Keeps(held, omp \cup {m}, internal, nreq + 1, internalSeq)
      /\ \A c \in Clients : Waits(held, omp \cup {m}, internal, c)
                              <=> Waits(held, omp, internal, c) \/ c = nreq + 1
  <2>1. /\ nreq + 1 \in 0 .. MaxReq /\ internalSeq \in 0 .. MaxInt
        /\ -internalSeq <= m.id /\ m.id <= nreq + 1 /\ m.id > 0
    BY <1>1, <1>2, IdRanges
  <2>2. /\ \A r \in omp : r.id # m.id
        /\ \A i \in DOMAIN held : held[i].agent # m.id
        /\ ~Waits(held, omp, internal, m.id)
    BY <1>2, FreshIds
  <2> QED
    BY <1>2, <1>3, <2>1, <2>2, AskedSwitch
<1>5. /\ Keeps(held', omp', internal', nreq', internalSeq')
      /\ \A c \in Clients : Waits(held', omp', internal', c)
                              <=> Waits(held, omp, internal, c) \/ c = nreq + 1
  BY <1>1, <1>4
<1>6. Ledger(held', omp', internal', nreq', answers')
  <2>1. nreq \in Nat /\ nreq' = nreq + 1 /\ answers' = answers /\ Clients \subseteq Nat
    BY <1>1, IdRanges, QueueConstants DEF Clients
  <2>2. Ledger(held, omp, internal, nreq, answers)
    BY DEF Kept
  <2> QED
    BY <2>1, <2>2, <1>5, FreshIds DEF Ledger
<1> QED
  BY <1>1, <1>5, <1>6, IdRanges DEF Kept, Misc

\* session/new and fork, ...
LEMMA KeptNewSession ==
    ASSUME Kept, NewSession
    PROVE  Kept'
<1>1. 0 \in Sessions /\ known \in Sessions
  BY QueueConstants DEF Sessions, Kept, Misc
<1> QED
  BY <1>1, KeptSwitchSession DEF NewSession, queueVars

\* ... load and resume.
LEMMA KeptLoadSession ==
    ASSUME Kept, NEW sid \in Sessions, LoadSession(sid)
    PROVE  Kept'
<1>1. known' \in Sessions
  BY DEF LoadSession, Kept, Misc
<1> QED
  BY <1>1, KeptSwitchSession DEF LoadSession

\* queue/remove answers the request of the entry it removes.
LEMMA KeptQueueRemove ==
    ASSUME Kept, NEW i \in DOMAIN held, QueueRemove(i)
    PROVE  Kept'
<1>1. /\ held' = RemoveIndex(held, i) /\ answers' = cancelHeld({i})
      /\ UNCHANGED <<session, known, running, inFlight, internal, internalSeq, turns, omp, nreq>>
  BY DEF QueueRemove
<1>2. /\ Keeps(held', omp', internal', nreq', internalSeq')
      /\ \A c \in Clients : Waits(held', omp', internal', c)
                              <=> Waits(held, omp, internal, c) /\ c # held[i].client
  BY <1>1, IdRanges, Leave DEF Kept
<1>3. \A c \in Clients : answers'[c] = answers[c] + (IF held[i].client = c THEN 1 ELSE 0)
  BY <1>1, CancelledOne DEF cancelHeld
<1>4. \A c \in Clients : held[i].client = c => Waits(held, omp, internal, c) /\ c <= nreq
  BY DEF Waits, Kept, Keeps, Issued
<1>5. answers \in [Clients -> Nat] /\ DOMAIN answers' = Clients
  BY <1>1 DEF Kept, Misc, cancelHeld
<1>6. answers' \in [Clients -> Nat]
  <2>1. \A c \in Clients : answers'[c] \in Nat
    BY <1>3, <1>5
  <2>2. answers' = [c \in Clients |-> answers'[c]]
    BY <1>1 DEF cancelHeld
  <2> QED
    BY <2>1, <2>2
<1>7. Ledger(held', omp', internal', nreq', answers')
  <2>1. Ledger(held, omp, internal, nreq, answers) /\ nreq' = nreq /\ nreq \in Nat /\ Clients \subseteq Nat
    BY <1>1, IdRanges, QueueConstants DEF Kept, Clients
  <2> QED
    BY <2>1, <1>2, <1>3, <1>4, <1>5 DEF Ledger
<1> QED
  BY <1>1, <1>2, <1>6, <1>7 DEF Kept, Misc

\* queue/clear answers every request it drops, once.
LEMMA KeptQueueClear ==
    ASSUME Kept, QueueClear
    PROVE  Kept'
<1>1. /\ held' = <<>> /\ answers' = cancelHeld(DOMAIN held)
      /\ UNCHANGED <<session, known, running, inFlight, internal, internalSeq, turns, omp, nreq>>
  BY DEF QueueClear
<1>2. /\ Keeps(held', omp', internal', nreq', internalSeq')
      /\ \A c \in Clients : Waits(held', omp', internal', c)
             <=> Waits(held, omp, internal, c) /\ ~(\E i \in DOMAIN held : held[i].client = c)
  BY <1>1, Emptied DEF Kept
<1>3. \A c \in Clients : answers'[c] = answers[c] + (IF \E i \in DOMAIN held : held[i].client = c THEN 1 ELSE 0)
  BY <1>1, CancelledAll DEF cancelHeld, Kept
<1>4. \A c \in Clients : (\E i \in DOMAIN held : held[i].client = c)
                            => Waits(held, omp, internal, c) /\ c <= nreq
  BY DEF Waits, Kept, Keeps, Issued
<1>5. answers \in [Clients -> Nat]
  BY DEF Kept, Misc
<1>6. answers' \in [Clients -> Nat]
  <2>1. \A c \in Clients : answers'[c] \in Nat
    BY <1>3, <1>5
  <2>2. answers' = [c \in Clients |-> answers'[c]]
    BY <1>1 DEF cancelHeld
  <2> QED
    BY <2>1, <2>2
<1>7. Ledger(held', omp', internal', nreq', answers')
  <2>1. Ledger(held, omp, internal, nreq, answers) /\ nreq' = nreq /\ nreq \in Nat /\ Clients \subseteq Nat
    BY <1>1, IdRanges, QueueConstants DEF Kept, Clients
  <2> QED
    BY <2>1, <1>2, <1>3, <1>4, <1>5 DEF Ledger
<1> QED
  BY <1>1, <1>2, <1>6, <1>7 DEF Kept, Misc

\* queue/reorder loses and duplicates nothing.
LEMMA KeptQueueReorder ==
    ASSUME Kept, NEW rank, QueueReorder(rank)
    PROVE  Kept'
<1>1. /\ \E p \in Shuffles(Len(held)) : held' = [i \in DOMAIN held |-> held[p[i]]]
      /\ UNCHANGED <<session, known, running, inFlight, internal, internalSeq, turns, omp, nreq, answers>>
  BY DEF QueueReorder
<1>2. PICK p \in Shuffles(Len(held)) : held' = [i \in DOMAIN held |-> held[p[i]]]
  BY <1>1
<1>3. held \in Seq(Entries) /\ DOMAIN held = 1 .. Len(held) /\ Len(held) \in Nat
  BY DEF Kept, Keeps, Typed
<1>4. /\ p \in [DOMAIN held -> DOMAIN held]
      /\ \A i, j \in DOMAIN held : p[i] = p[j] => i = j
      /\ \A j \in DOMAIN held : \E i \in DOMAIN held : p[i] = j
  BY <1>3 DEF Shuffles
<1>5. /\ held' \in [1 .. Len(held) -> Entries] /\ held' \in Seq(Entries)
      /\ DOMAIN held' = DOMAIN held
      /\ \A i \in DOMAIN held : held'[i].agent = held[p[i]].agent /\ held'[i].client = held[p[i]].client
  BY <1>2, <1>3, <1>4
<1>6. /\ Keeps(held', omp, internal, nreq, internalSeq)
      /\ \A c \in Clients : Waits(held', omp, internal, c) <=> Waits(held, omp, internal, c)
  BY <1>4, <1>5, Rearranged DEF Kept
<1>7. Ledger(held', omp', internal', nreq', answers')
  BY <1>1, <1>6 DEF Kept, Ledger
<1> QED
  BY <1>1, <1>6, <1>7 DEF Kept, Misc

\* An edit keeps an entry's ids.
LEMMA EditedFacts ==
    ASSUME NEW e \in Entries, NEW t \in Texts
    PROVE  /\ Edited(e, t) \in Entries
           /\ Edited(e, t).agent = e.agent
           /\ Edited(e, t).client = e.client
  BY DEF Edited, Entries

\* queue/edit keeps who waits.
LEMMA KeptQueueEdit ==
    ASSUME Kept, NEW i \in DOMAIN held, NEW t \in Texts, QueueEdit(i, t)
    PROVE  Kept'
<1>1. /\ held' = [held EXCEPT ![i] = Edited(held[i], t)]
      /\ UNCHANGED <<session, known, running, inFlight, internal, internalSeq, turns, omp, nreq, answers>>
  BY DEF QueueEdit
<1>2. held \in Seq(Entries) /\ DOMAIN held = 1 .. Len(held) /\ Len(held) \in Nat /\ held[i] \in Entries
  BY DEF Kept, Keeps, Typed
<1>3. /\ Edited(held[i], t) \in Entries
      /\ Edited(held[i], t).agent = held[i].agent
      /\ Edited(held[i], t).client = held[i].client
  BY <1>2, EditedFacts
<1>4. /\ held' \in Seq(Entries) /\ DOMAIN held' = DOMAIN held
      /\ held'[i] = Edited(held[i], t)
      /\ \A j \in DOMAIN held : j # i => held'[j] = held[j]
  BY <1>1, <1>2, <1>3
<1> DEFINE p == [j \in DOMAIN held |-> j]
<1>5. /\ p \in [DOMAIN held -> DOMAIN held]
      /\ \A x, y \in DOMAIN held : p[x] = p[y] => x = y
      /\ \A y \in DOMAIN held : \E x \in DOMAIN held : p[x] = y
      /\ \A j \in DOMAIN held : held'[j].agent = held[p[j]].agent /\ held'[j].client = held[p[j]].client
  BY <1>3, <1>4
<1> HIDE DEF p
<1>6. /\ Keeps(held', omp, internal, nreq, internalSeq)
      /\ \A c \in Clients : Waits(held', omp, internal, c) <=> Waits(held, omp, internal, c)
  BY <1>4, <1>5, Rearranged DEF Kept
<1>7. Ledger(held', omp', internal', nreq', answers')
  BY <1>1, <1>6 DEF Kept, Ledger
<1> QED
  BY <1>1, <1>6, <1>7 DEF Kept, Misc

\* queue/interject moves a request from the queue to OMP.
LEMMA KeptQueueInterject ==
    ASSUME Kept, NEW i \in DOMAIN held, NEW t \in Texts, QueueInterject(i, t)
    PROVE  Kept'
<1> DEFINE e == Edited(held[i], t)
           g == RemoveIndex(held, i)
<1>1. /\ held' = g /\ dispatchEntry(e, "sent_now", internal, omp)
      /\ UNCHANGED <<session, known, internalSeq, turns, nreq, answers>>
  BY DEF QueueInterject
<1>2. /\ Keeps(g, omp, internal, nreq, internalSeq)
      /\ Joins(held[i], g, omp, internal, nreq, internalSeq)
      /\ \A c \in Clients : Waits(g, omp, internal, c) <=> Waits(held, omp, internal, c) /\ c # held[i].client
  BY IdRanges, Leave DEF Kept
<1>3. e \in Entries /\ e.agent = held[i].agent /\ e.client = held[i].client
  BY <1>2, EditedFacts DEF Joins
<1> HIDE DEF e, g
<1>4. Joins(e, g, omp, internal, nreq, internalSeq)
  BY <1>2, <1>3 DEF Joins
<1>5. /\ Keeps(g, omp', internal', nreq, internalSeq)
      /\ \A c \in Clients : Waits(g, omp', internal', c) <=> Waits(g, omp, internal, c) \/ c = e.client
      /\ running' \in {NoTurn} \cup [agent: AgentIds, text: Texts]
      /\ inFlight' \subseteq AgentIds
  BY <1>1, <1>2, <1>4, IdRanges, Dispatched DEF Kept, Misc
<1>6. \A c \in Clients : Waits(held', omp', internal', c) <=> Waits(held, omp, internal, c)
  <2>1. \A c \in Clients : c = e.client => Waits(held, omp, internal, c)
    BY <1>3 DEF Waits
  <2> QED
    BY <1>1, <1>2, <1>3, <1>5, <2>1
<1>7. Ledger(held', omp', internal', nreq', answers')
  BY <1>1, <1>6 DEF Kept, Ledger
<1> QED
  BY <1>1, <1>5, <1>7 DEF Kept, Misc
-----------------------------------------------------------------------------
(* The responses of OMP.                                                     *)

\* Custody reads only the domain and the values of the internal ids.
LEMMA SameRecords ==
    ASSUME NEW h, NEW R, NEW I, NEW J, NEW n, NEW k,
           DOMAIN J = DOMAIN I, \A a \in DOMAIN I : J[a] = I[a],
           Keeps(h, R, J, n, k)
    PROVE  /\ Keeps(h, R, I, n, k)
           /\ \A c \in Clients : Waits(h, R, I, c) <=> Waits(h, R, J, c)
<1>1. \A id : Owner(J, id) = Owner(I, id)
  BY DEF Owner
<1>2. Typed(h, R, I) /\ Distinct(h, R) /\ Issued(h, R, I, n, k) /\ Internally(R, I)
  BY DEF Keeps, Typed, Issued, Internally
<1>3. Shapes(h, I)
  BY DEF Keeps, Shapes
<1>4. Single(h, R, I)
  BY <1>1 DEF Keeps, Single
<1>5. \A c \in Clients : Waits(h, R, I, c) <=> Waits(h, R, J, c)
  BY <1>1 DEF Waits
<1> QED
  BY <1>2, <1>3, <1>4, <1>5 DEF Keeps

\* Whom a response answers: the request's own id, or its record's client.
LEMMA OwnerFacts ==
    ASSUME Kept, NEW m \in omp
    PROVE  /\ m.id \in DOMAIN internal =>
                 /\ Owner(internal, m.id) = internal[m.id].client
                 /\ internal[m.id] \in Records
                 /\ internal[m.id].client \in Clients \cup {0}
           /\ m.id \notin DOMAIN internal => Owner(internal, m.id) = m.id /\ m.id \in Clients
           /\ \A c \in Clients : c = Owner(internal, m.id) => Waits(held, omp, internal, c) /\ c <= nreq
<1>1. Typed(held, omp, internal) /\ Internally(omp, internal) /\ Issued(held, omp, internal, nreq, internalSeq)
  BY DEF Kept, Keeps
<1>2. m.id \in DOMAIN internal => /\ Owner(internal, m.id) = internal[m.id].client
                                  /\ internal[m.id] \in Records
                                  /\ internal[m.id].client \in Clients \cup {0}
  BY <1>1 DEF Typed, Owner, Records
<1>3. m.id \notin DOMAIN internal => Owner(internal, m.id) = m.id /\ m.id \in Clients
  <2>1. m.id \in AgentIds
    BY <1>1 DEF Typed, Requests
  <2>2. \A a \in Internals : a < 0
    BY QueueConstants DEF Internals
  <2> QED
    BY <1>1, <2>1, <2>2 DEF AgentIds, Internally, Owner
<1>4. ASSUME NEW c \in Clients, c = Owner(internal, m.id)
      PROVE  Waits(held, omp, internal, c) /\ c <= nreq
  BY <1>1, <1>4 DEF Waits, Owner, Issued
<1> QED
  BY <1>2, <1>3, <1>4

\* Custody after a response under an internal id ...
LEMMA InternalResponse ==
    ASSUME Kept, NEW m \in omp
    PROVE  /\ Keeps(held, omp \ {m}, Drop(internal, m.id), nreq, internalSeq)
           /\ \A c \in Clients : Waits(held, omp \ {m}, Drop(internal, m.id), c)
                                   <=> Waits(held, omp, internal, c) /\ c # Owner(internal, m.id)
  BY IdRanges, Respond DEF Kept

\* ... and under the pager's own id.
LEMMA PagerResponse ==
    ASSUME Kept, NEW m \in omp, m.id \notin DOMAIN internal
    PROVE  /\ Keeps(held, omp \ {m}, internal, nreq, internalSeq)
           /\ \A c \in Clients : Waits(held, omp \ {m}, internal, c)
                                   <=> Waits(held, omp, internal, c) /\ c # m.id
<1> DEFINE J == Drop(internal, m.id)
<1>1. DOMAIN J = DOMAIN internal /\ \A a \in DOMAIN internal : J[a] = internal[a]
  BY DEF Drop
<1>2. /\ Keeps(held, omp \ {m}, J, nreq, internalSeq)
      /\ \A c \in Clients : Waits(held, omp \ {m}, J, c)
                              <=> Waits(held, omp, internal, c) /\ c # Owner(internal, m.id)
  BY InternalResponse
<1>3. Owner(internal, m.id) = m.id
  BY DEF Owner
<1> HIDE DEF J
<1>4. /\ Keeps(held, omp \ {m}, internal, nreq, internalSeq)
      /\ \A c \in Clients : Waits(held, omp \ {m}, internal, c) <=> Waits(held, omp \ {m}, J, c)
  BY <1>1, <1>2, SameRecords
<1> QED
  BY <1>2, <1>3, <1>4

\* Answering the one request that stops waiting keeps the ledger.
LEMMA AnsweredOnce ==
    ASSUME Kept, NEW c0 \in Clients, c0 <= nreq, Waits(held, omp, internal, c0),
           answers' = [answers EXCEPT ![c0] = @ + 1],
           NEW R, NEW I,
           \A c \in Clients : Waits(held, R, I, c) <=> Waits(held, omp, internal, c) /\ c # c0
    PROVE  /\ Ledger(held, R, I, nreq, answers')
           /\ answers' \in [Clients -> Nat]
<1>1. /\ nreq \in Nat /\ answers \in [Clients -> Nat] /\ Clients \subseteq Nat
      /\ Ledger(held, omp, internal, nreq, answers)
  BY IdRanges, QueueConstants DEF Kept, Misc, Clients
<1>2. /\ answers' \in [Clients -> Nat]
      /\ answers'[c0] = answers[c0] + 1
      /\ \A c \in Clients : c # c0 => answers'[c] = answers[c]
  BY <1>1
<1>3. answers[c0] = 0
  BY <1>1 DEF Ledger
<1>4. Ledger(held, R, I, nreq, answers')
  BY <1>1, <1>2, <1>3 DEF Ledger
<1> QED
  BY <1>2, <1>4

\* settleTurn keeps the types of what it assigns.
LEMMA Settled ==
    ASSUME Kept, NEW id, settleTurn(id)
    PROVE  /\ running' \in {NoTurn} \cup [agent: AgentIds, text: Texts]
           /\ inFlight' \subseteq AgentIds
           /\ turns' \in Nat
<1>1. /\ running \in {NoTurn} \cup [agent: AgentIds, text: Texts]
      /\ inFlight \subseteq AgentIds /\ turns \in Nat
  BY DEF Kept, Misc
<1>2. inFlight' \subseteq AgentIds /\ turns' \in Nat
  BY <1>1 DEF settleTurn
<1>3. running' = running \/ running' = NoTurn
  BY DEF settleTurn
<1> QED
  BY <1>1, <1>2, <1>3

\* A late prompt's response is forwarded: one answer, nothing else.
LEMMA KeptLatePromptAnswered ==
    ASSUME Kept, NEW m \in omp, LatePromptAnswered(m)
    PROVE  Kept'
<1>1. /\ m.id \notin DOMAIN internal /\ omp' = omp \ {m}
      /\ answers' = [answers EXCEPT ![m.id] = @ + 1]
      /\ UNCHANGED <<session, known, held, running, inFlight, internal, internalSeq, turns, nreq>>
  BY DEF LatePromptAnswered, answer, queueVars
<1>2. m.id \in Clients /\ m.id <= nreq /\ Waits(held, omp, internal, m.id)
  BY <1>1, OwnerFacts
<1>3. /\ Keeps(held, omp \ {m}, internal, nreq, internalSeq)
      /\ \A c \in Clients : Waits(held, omp \ {m}, internal, c)
                              <=> Waits(held, omp, internal, c) /\ c # m.id
  BY <1>1, PagerResponse
<1>4. nreq \in Nat /\ answers \in [Clients -> Nat] /\ Ledger(held, omp, internal, nreq, answers)
  BY IdRanges DEF Kept, Misc
<1>5. /\ Ledger(held, omp \ {m}, internal, nreq, answers')
      /\ answers' \in [Clients -> Nat]
  BY <1>1, <1>2, <1>3, <1>4, AnsweredOnce
<1>6. Keeps(held', omp', internal', nreq', internalSeq') /\ Ledger(held', omp', internal', nreq', answers')
  BY <1>1, <1>3, <1>5
<1> QED
  BY <1>1, <1>5, <1>6 DEF Kept, Misc

\* A prompt's response settles its turn and is forwarded.
LEMMA KeptPromptAnswered ==
    ASSUME Kept, NEW m \in omp, PromptAnswered(m)
    PROVE  Kept'
<1>1. /\ m.id \notin DOMAIN internal /\ omp' = omp \ {m} /\ settleTurn(m.id)
      /\ answers' = [answers EXCEPT ![m.id] = @ + 1]
      /\ UNCHANGED <<session, known, held, internal, internalSeq, nreq>>
  BY DEF PromptAnswered, answer
<1>2. m.id \in Clients /\ m.id <= nreq /\ Waits(held, omp, internal, m.id)
  BY <1>1, OwnerFacts
<1>3. /\ Keeps(held, omp \ {m}, internal, nreq, internalSeq)
      /\ \A c \in Clients : Waits(held, omp \ {m}, internal, c)
                              <=> Waits(held, omp, internal, c) /\ c # m.id
  BY <1>1, PagerResponse
<1>4. nreq \in Nat /\ answers \in [Clients -> Nat] /\ Ledger(held, omp, internal, nreq, answers)
  BY IdRanges DEF Kept, Misc
<1>5. /\ Ledger(held, omp \ {m}, internal, nreq, answers')
      /\ answers' \in [Clients -> Nat]
  BY <1>1, <1>2, <1>3, <1>4, AnsweredOnce
<1>6. Keeps(held', omp', internal', nreq', internalSeq') /\ Ledger(held', omp', internal', nreq', answers')
  BY <1>1, <1>3, <1>5
<1>7. /\ running' \in {NoTurn} \cup [agent: AgentIds, text: Texts]
      /\ inFlight' \subseteq AgentIds /\ turns' \in Nat
  BY <1>1, Settled
<1> QED
  BY <1>1, <1>5, <1>6, <1>7 DEF Kept, Misc

\* An internal request whose record names no client: nobody stops waiting.
LEMMA KeptInternalAnswered ==
    ASSUME Kept, NEW m \in omp, InternalAnswered(m)
    PROVE  Kept'
<1>1. /\ m.id \in DOMAIN internal /\ omp' = omp \ {m} /\ internal' = Drop(internal, m.id)
      /\ UNCHANGED <<session, known, held, running, inFlight, internalSeq, turns, nreq, answers>>
  BY DEF InternalAnswered
<1>2. Owner(internal, m.id) = 0
  <2>1. internal[m.id].kind = "internal" => internal[m.id].client = 0
    BY <1>1 DEF Kept, Keeps, Shapes
  <2> QED
    BY <1>1, <2>1, OwnerFacts DEF InternalAnswered
<1>3. /\ Keeps(held, omp \ {m}, Drop(internal, m.id), nreq, internalSeq)
      /\ \A c \in Clients : Waits(held, omp \ {m}, Drop(internal, m.id), c)
                              <=> Waits(held, omp, internal, c)
  <2>1. \A c \in Clients : c # 0
    BY QueueConstants DEF Clients
  <2> QED
    BY <1>2, <2>1, InternalResponse
<1>4. Keeps(held', omp', internal', nreq', internalSeq')
  BY <1>1, <1>3
<1>5. Ledger(held', omp', internal', nreq', answers')
  BY <1>1, <1>3 DEF Kept, Ledger
<1> QED
  BY <1>1, <1>4, <1>5 DEF Kept, Misc

\* An interjection or a compaction settled: its client, if any, is answered.
LEMMA KeptInternalTurnAnswered ==
    ASSUME Kept, NEW m \in omp, InternalTurnAnswered(m)
    PROVE  Kept'
<1> DEFINE c0 == internal[m.id].client
<1>1. /\ m.id \in DOMAIN internal /\ omp' = omp \ {m} /\ internal' = Drop(internal, m.id)
      /\ settleTurn(m.id)
      /\ answers' = IF c0 = 0 THEN answers ELSE [answers EXCEPT ![c0] = @ + 1]
      /\ UNCHANGED <<session, known, held, internalSeq, nreq>>
  BY DEF InternalTurnAnswered, answer
<1>2. /\ Owner(internal, m.id) = c0 /\ c0 \in Clients \cup {0}
      /\ c0 \in Clients => Waits(held, omp, internal, c0) /\ c0 <= nreq
  BY <1>1, OwnerFacts
<1> HIDE DEF c0
<1>3. /\ Keeps(held, omp \ {m}, Drop(internal, m.id), nreq, internalSeq)
      /\ \A c \in Clients : Waits(held, omp \ {m}, Drop(internal, m.id), c)
                              <=> Waits(held, omp, internal, c) /\ c # c0
  BY <1>2, InternalResponse
<1>4. nreq \in Nat /\ answers \in [Clients -> Nat] /\ Ledger(held, omp, internal, nreq, answers)
  BY IdRanges DEF Kept, Misc
<1>5. \A c \in Clients : c # 0
  BY QueueConstants DEF Clients
<1>6. /\ Ledger(held, omp \ {m}, Drop(internal, m.id), nreq, answers')
      /\ answers' \in [Clients -> Nat]
  <2>1. CASE c0 = 0
    BY <2>1, <1>1, <1>3, <1>4, <1>5 DEF Ledger
  <2>2. CASE c0 # 0
    <3>1. /\ c0 \in Clients /\ answers' = [answers EXCEPT ![c0] = @ + 1]
          /\ c0 <= nreq /\ Waits(held, omp, internal, c0)
      BY <2>2, <1>1, <1>2
    <3> QED
      BY ONLY Kept, <3>1, <1>3, AnsweredOnce
  <2> QED
    BY <2>1, <2>2
<1>7. Keeps(held', omp', internal', nreq', internalSeq') /\ Ledger(held', omp', internal', nreq', answers')
  BY <1>1, <1>3, <1>6
<1>8. /\ running' \in {NoTurn} \cup [agent: AgentIds, text: Texts]
      /\ inFlight' \subseteq AgentIds /\ turns' \in Nat
  BY <1>1, Settled
<1> QED
  BY <1>1, <1>6, <1>7, <1>8 DEF Kept, Misc

\* A /vibe mode answer settles the request or turns it into a queue entry.
LEMMA KeptVibeModeAnswered ==
    ASSUME Kept, NEW m \in omp, VibeModeAnswered(m)
    PROVE  Kept'
<1> DEFINE c0 == internal[m.id].client
           e == internal[m.id].follow[1]
           R == omp \ {m}
           I == Drop(internal, m.id)
<1>1. /\ m.id \in DOMAIN internal /\ internal[m.id].kind = "vibeMode"
      /\ UNCHANGED <<session, known, internalSeq, turns, nreq>>
  BY DEF VibeModeAnswered
<1>2. /\ Keeps(held, R, I, nreq, internalSeq)
      /\ \A c \in Clients : Waits(held, R, I, c) <=> Waits(held, omp, internal, c) /\ c # Owner(internal, m.id)
  BY InternalResponse
<1>3. /\ Owner(internal, m.id) = c0 /\ c0 \in Clients /\ Waits(held, omp, internal, c0) /\ c0 <= nreq
  <2>1. c0 > 0
    BY <1>1 DEF Kept, Keeps, Shapes
  <2>2. Owner(internal, m.id) = c0 /\ c0 \in Clients \cup {0}
    BY <1>1, OwnerFacts
  <2>3. c0 \in Clients
    BY <2>1, <2>2
  <2> QED
    BY <2>2, <2>3, OwnerFacts
<1>4. nreq \in 0 .. MaxReq /\ nreq \in Nat /\ internalSeq \in 0 .. MaxInt /\ internalSeq \in Nat
  BY IdRanges
<1>5. /\ answers \in [Clients -> Nat] /\ Ledger(held, omp, internal, nreq, answers)
      /\ running \in {NoTurn} \cup [agent: AgentIds, text: Texts]
      /\ inFlight \subseteq AgentIds /\ session \in Sessions /\ turns \in Nat
  BY DEF Kept, Misc
<1>6. CASE /\ internal' = I /\ omp' = R /\ answers' = [answers EXCEPT ![c0] = @ + 1]
           /\ UNCHANGED <<held, running, inFlight>>
  <2> HIDE DEF R, I, c0
  <2>1. /\ Ledger(held, R, I, nreq, answers')
        /\ answers' \in [Clients -> Nat]
    <3>1. \A c \in Clients : Waits(held, R, I, c) <=> Waits(held, omp, internal, c) /\ c # c0
      BY <1>2, <1>3
    <3> QED
      BY ONLY Kept, <1>3, <1>6, <3>1, AnsweredOnce
  <2>2. Keeps(held', omp', internal', nreq', internalSeq') /\ Ledger(held', omp', internal', nreq', answers')
    BY <1>1, <1>2, <1>6, <2>1
  <2> QED
    BY <1>1, <1>4, <1>5, <1>6, <2>1, <2>2 DEF Kept, Misc
<1>7. CASE /\ internal[m.id].follow # <<>>
           /\ holdOrDispatch(e, I, R)
           /\ UNCHANGED answers
  <2>1. e \in Entries /\ e.agent = c0 /\ e.client = c0
    BY <1>1, <1>7 DEF Kept, Keeps, Shapes
  <2>2. c0 \in Int /\ c0 > 0
    BY <1>3, QueueConstants DEF Clients
  <2>3. \A i \in DOMAIN held : held[i].agent # c0
    BY <1>3, <2>2 DEF Kept, Keeps, Shapes, Single
  <2>4. \A r \in R : r.id # c0
    <3>1. SUFFICES ASSUME NEW r \in omp, r.id = c0, r # m PROVE FALSE
      OBVIOUS
    <3>2. r.id \notin DOMAIN internal
      <4>1. \A a \in Internals : a < 0
        BY QueueConstants DEF Internals
      <4> QED
        BY <3>1, <4>1, <2>2 DEF Kept, Keeps, Typed
    <3>3. Owner(internal, r.id) = c0
      BY <3>1, <3>2 DEF Owner
    <3> QED
      BY <3>1, <3>3, <1>3, <2>2 DEF Kept, Keeps, Single
  <2>5. ~Waits(held, R, I, c0)
    BY <1>2, <1>3
  <2>6. -internalSeq <= c0
    BY <2>2, <1>4
  <2> HIDE DEF R, I, c0, e
  <2>7. Joins(e, held, R, I, nreq, internalSeq)
    BY <2>1, <2>2, <2>3, <2>4, <2>5, <2>6, <1>3 DEF Joins
  <2>8. /\ Keeps(held', omp', internal', nreq, internalSeq)
        /\ \A c \in Clients : Waits(held', omp', internal', c) <=> Waits(held, R, I, c) \/ c = e.client
        /\ running' \in {NoTurn} \cup [agent: AgentIds, text: Texts]
        /\ inFlight' \subseteq AgentIds
    BY <1>2, <1>4, <1>5, <1>7, <2>7, HeldOrDispatched
  <2>9. \A c \in Clients : Waits(held', omp', internal', c) <=> Waits(held, omp, internal, c)
    BY <2>8, <2>1, <1>2, <1>3
  <2>10. Ledger(held', omp', internal', nreq', answers')
    BY <1>1, <1>5, <1>7, <2>9 DEF Ledger
  <2> QED
    BY <1>1, <1>4, <1>5, <1>7, <2>8, <2>10 DEF Kept, Misc
<1> QED
  BY <1>6, <1>7 DEF VibeModeAnswered, answer

\* A switch's response is forwarded; a result cancels what is held, and each
\* of those requests is answered once.
LEMMA KeptSwitchAnswered ==
    ASSUME Kept, NEW m \in omp, SwitchFailed(m) \/ NewAnswered(m) \/ LoadAnswered(m)
    PROVE  Kept'
<1>1. /\ m.op \in {"new", "load"} /\ omp' = omp \ {m}
      /\ UNCHANGED <<internal, internalSeq, nreq>>
  BY DEF SwitchFailed, NewAnswered, LoadAnswered, queueVars
<1>2. m.id \notin DOMAIN internal
  <2>1. m.id > 0 /\ DOMAIN internal \subseteq Internals
    BY <1>1 DEF Kept, Keeps, Internally, Typed
  <2>2. \A a \in Internals : ~(a > 0)
    BY QueueConstants DEF Internals
  <2> QED
    BY <2>1, <2>2
<1>3. m.id \in Clients /\ m.id <= nreq /\ Waits(held, omp, internal, m.id)
  BY <1>2, OwnerFacts
<1>4. /\ Keeps(held, omp \ {m}, internal, nreq, internalSeq)
      /\ \A c \in Clients : Waits(held, omp \ {m}, internal, c)
                              <=> Waits(held, omp, internal, c) /\ c # m.id
  BY <1>2, PagerResponse
<1>5. /\ nreq \in Nat /\ answers \in [Clients -> Nat] /\ Ledger(held, omp, internal, nreq, answers)
      /\ session \in Sessions /\ Clients \subseteq Nat
  BY IdRanges, QueueConstants DEF Kept, Misc, Clients
<1>6. CASE /\ answers' = [answers EXCEPT ![m.id] = @ + 1]
           /\ UNCHANGED <<session, known, held, running, inFlight, turns>>
  <2>1. /\ Ledger(held, omp \ {m}, internal, nreq, answers')
        /\ answers' \in [Clients -> Nat]
    BY <1>3, <1>4, <1>5, <1>6, AnsweredOnce
  <2>2. Keeps(held', omp', internal', nreq', internalSeq') /\ Ledger(held', omp', internal', nreq', answers')
    BY <1>1, <1>4, <1>6, <2>1
  <2> QED
    BY <1>1, <1>6, <2>1, <2>2 DEF Kept, Misc
<1>7. CASE /\ session' \in Sessions /\ known' \in Sessions
           /\ answers' = [c \in Clients |->
                            answers[c] + Cancelled(c, DOMAIN held) + (IF c = m.id THEN 1 ELSE 0)]
           /\ held' = <<>> /\ running' = NoTurn /\ inFlight' = {} /\ turns' = 0
  <2> DEFINE HasHeld(c) == \E i \in DOMAIN held : held[i].client = c
  <2>1. /\ Keeps(<<>>, omp \ {m}, internal, nreq, internalSeq)
        /\ \A c \in Clients : Waits(<<>>, omp \ {m}, internal, c) <=>
              Waits(held, omp \ {m}, internal, c) /\ ~HasHeld(c)
    BY <1>4, Emptied
  <2>2. \A c \in Clients : answers'[c] = answers[c] + (IF HasHeld(c) THEN 1 ELSE 0)
                                                    + (IF c = m.id THEN 1 ELSE 0)
    BY <1>7, CancelledAll DEF Kept
  <2>3. \A c \in Clients : HasHeld(c) => Waits(held, omp, internal, c) /\ c <= nreq
    BY DEF Waits, Kept, Keeps, Issued
  <2>4. ~HasHeld(m.id)
    <3>1. Owner(internal, m.id) = m.id /\ m.id > 0
      BY <1>2, <1>3, QueueConstants DEF Owner, Clients
    <3> QED
      BY <3>1 DEF Kept, Keeps, Single
  <2> HIDE DEF HasHeld
  <2>5. answers' \in [Clients -> Nat]
    <3>1. \A c \in Clients : answers'[c] \in Nat
      BY <2>2, <1>5
    <3>2. answers' = [c \in Clients |-> answers'[c]]
      BY <1>7
    <3> QED
      BY <3>1, <3>2
  <2>6. ASSUME NEW c \in Clients
        PROVE  /\ c <= nreq => \/ answers'[c] = 0 /\ Waits(<<>>, omp \ {m}, internal, c)
                               \/ answers'[c] = 1 /\ ~Waits(<<>>, omp \ {m}, internal, c)
               /\ c > nreq => answers'[c] = 0
    <3>1. /\ c <= nreq => \/ answers[c] = 0 /\ Waits(held, omp, internal, c)
                          \/ answers[c] = 1 /\ ~Waits(held, omp, internal, c)
          /\ c > nreq => answers[c] = 0
          /\ nreq \in Nat /\ c \in Nat
      <4>1. Ledger(held, omp, internal, nreq, answers) /\ nreq \in Nat /\ c \in Nat
        BY <1>5
      <4> QED
        BY ONLY <4>1, c \in Clients DEF Ledger
    <3>2. CASE HasHeld(c)
      <4>1. c # m.id /\ c <= nreq /\ answers[c] = 0 /\ answers'[c] = 1
        BY <3>1, <3>2, <2>2, <2>3, <2>4
      <4>2. ~Waits(<<>>, omp \ {m}, internal, c)
        BY <3>2, <2>1
      <4> QED
        BY ONLY <4>1, <4>2, <3>1
    <3>3. CASE c = m.id
      <4>1. ~HasHeld(c) /\ answers[c] = 0 /\ answers'[c] = 1
        BY <3>1, <3>3, <1>3, <2>2, <2>4
      <4>2. ~Waits(<<>>, omp \ {m}, internal, c)
        BY <3>3, <1>4, <2>1
      <4>3. c <= nreq
        BY <3>3, <1>3
      <4> QED
        BY ONLY <4>1, <4>2, <4>3, <3>1
    <3>4. CASE ~HasHeld(c) /\ c # m.id
      <4>1. answers'[c] = answers[c]
        BY <3>4, <2>2, <1>5
      <4> QED
        BY <4>1, <3>1, <3>4, <1>4, <2>1
    <3> QED
      BY <3>2, <3>3, <3>4
  <2>7. Keeps(held', omp', internal', nreq', internalSeq') /\ Ledger(held', omp', internal', nreq', answers')
    BY <1>1, <1>7, <2>1, <2>6 DEF Ledger
  <2> QED
    BY <1>1, <1>7, <2>5, <2>7 DEF Kept, Misc
<1>8. CASE SwitchFailed(m)
  BY <1>6, <1>8 DEF SwitchFailed, answer, queueVars
<1>9. CASE NewAnswered(m)
  BY <1>7, <1>9 DEF NewAnswered, resetQueue
<1>10. CASE LoadAnswered(m)
  <2>1. m.sid \in Sessions /\ known \in Sessions
    BY DEF Kept, Keeps, Typed, Requests, Misc
  <2> QED
    BY <1>7, <1>10, <2>1 DEF LoadAnswered, resetQueue
<1> QED
  BY <1>8, <1>9, <1>10

-----------------------------------------------------------------------------
(* The induction, and the theorems.                                          *)

\* The queue starts empty and nothing was asked.
LEMMA KeptInit == Init => Kept
<1> SUFFICES ASSUME Init PROVE Kept
  OBVIOUS
<1>1. /\ session = 0 /\ known = 0 /\ held = <<>> /\ running = NoTurn /\ inFlight = {}
      /\ DOMAIN internal = {} /\ internalSeq = 0 /\ turns = 0 /\ omp = {} /\ nreq = 0
      /\ answers = [c \in Clients |-> 0]
  BY DEF Init
<1>2. DOMAIN held = {} /\ held \in Seq(Entries)
  BY <1>1
<1>3. Misc(session, known, running, inFlight, internalSeq, turns, nreq, answers)
  BY <1>1, QueueConstants DEF Misc, Sessions
<1>4. Keeps(held, omp, internal, nreq, internalSeq)
  BY <1>1, <1>2 DEF Keeps, Typed, Distinct, Issued, Internally, Shapes, Single
<1>5. \A c \in Clients : c > 0 /\ answers[c] = 0
  BY <1>1, QueueConstants DEF Clients
<1>6. Ledger(held, omp, internal, nreq, answers)
  BY <1>1, <1>5, QueueConstants DEF Ledger, Clients
<1> QED
  BY <1>3, <1>4, <1>6 DEF Kept

\* Every step of the pager and of OMP keeps the invariant.
LEMMA KeptNext == Kept /\ [Next]_vars => Kept'
<1> SUFFICES ASSUME Kept, [Next]_vars PROVE Kept'
  OBVIOUS
<1>1. CASE PagerRequest
  BY <1>1, KeptNewSession, KeptLoadSession, KeptTogglePlanMode, KeptPrompt, KeptPromptSendNow,
     KeptVibePrompt, KeptInterject, KeptCompact DEF PagerRequest
<1>2. CASE QueueMutation
  BY <1>2, KeptQueueClear, KeptQueueReorder, KeptQueueRemove, KeptQueueEdit, KeptQueueInterject
     DEF QueueMutation
<1>3. CASE \E m \in omp : AgentResponse(m)
  BY <1>3, KeptSwitchAnswered, KeptInternalTurnAnswered, KeptVibeModeAnswered, KeptInternalAnswered,
     KeptPromptAnswered, KeptLatePromptAnswered DEF AgentResponse
<1>4. CASE UNCHANGED vars
  BY <1>4 DEF vars, queueVars, Kept
<1> QED
  BY <1>1, <1>2, <1>3, <1>4 DEF Next

\* The custody invariant holds of every behaviour of the queue: the ids at OMP,
\* in the queue and in internalIds are distinct and issued, and no pager
\* request has two holders (adapter.mjs: holdOrDispatch, dispatchEntry,
\* cancelHeld, settleTurn, handleAgentResponse, resetQueue).
THEOREM CustodyHolds == Spec => []Custody
<1>1. Kept => Custody
  BY CustodySplit DEF Kept
<1> QED
  BY <1>1, KeptInit, KeptNext, PTL DEF Spec

\* Every variable keeps its type, for any number of requests and sessions.
THEOREM TypeCorrect == Spec => []TypeOK
<1>1. Custody => TypeOK
  BY DEF Custody
<1> QED
  BY <1>1, CustodyHolds, PTL

\* For any number of prompts, edits, promotions, cancellations and session
\* switches, no pager request is lost and none is answered twice.
THEOREM RequestsKept == Spec => []NoRequestLost
<1>1. Custody => NoRequestLost
  BY DEF Custody
<1> QED
  BY <1>1, CustodyHolds, PTL
-----------------------------------------------------------------------------
(***************************************************************************)
(* The slot.  Each action does one of five things to it (`Moves'); the     *)
(* invariants of the slot and the refinement are proved from that.         *)
(***************************************************************************)
\* The turns at OMP.
Prompts == {m \in omp : m.op = "prompt"}

\* Where the session of an entry may come from.
From(e) ==
    \/ e.sid \in PagerSids
    \/ \E i \in DOMAIN held : e.sid = held[i].sid
    \/ \E a \in DOMAIN internal : internal[a].follow # <<>> /\ e.sid = internal[a].follow[1].sid

\* The step leaves the slot and the turns at OMP alone, ...
Stays == Prompts' = Prompts /\ UNCHANGED <<running, inFlight, session>>

\* ... sends the entry e, which takes the slot, ...
Sends(e, how) ==
    /\ e.body = e.text /\ From(e) /\ (how = "overrun" => Idle)
    /\ \A m \in Prompts : m.id # e.agent
    /\ Prompts' = Deliver(Prompts, e, how)
    /\ running' = [agent |-> e.agent, text |-> e.text]
    /\ inFlight' = inFlight \cup {e.agent}
    /\ UNCHANGED session

\* ... settles the turn m, ...
Settles(m) ==
    /\ Prompts' = Prompts \ {m}
    /\ running' = IF running.agent = m.id THEN NoTurn ELSE running
    /\ inFlight' = inFlight \ {m.id}
    /\ UNCHANGED session

\* ... forwards the answer of a turn of a session that was left, ...
Late(m) ==
    /\ m.id \notin inFlight
    /\ Prompts' = Prompts \ {m}
    /\ UNCHANGED <<running, inFlight, session>>

\* ... or leaves the session.
Leaves ==
    /\ Prompts' = Prompts
    /\ running' = NoTurn
    /\ inFlight' = {}

Moves ==
    \/ Stays
    \/ \E e \in Entries, how \in {"sent_now", "overrun"} : Sends(e, how)
    \/ \E m \in Prompts : Settles(m) \/ Late(m)
    \/ Leaves

\* What the queue and the records hold after a step.
Queues == \A i \in DOMAIN held' :
             held'[i].body = held'[i].text /\ From(held'[i]) /\ UNCHANGED session

Follows ==
    \A a \in DOMAIN internal' : internal'[a].follow # <<>> =>
        /\ internal'[a].follow[1].body = internal'[a].follow[1].text
        /\ "vibe_rest" \in PagerOps \/ (a \in DOMAIN internal /\ internal'[a] = internal[a])

\* What every step of the queue does.
Step == Moves /\ Queues /\ Follows /\ PaneKept' /\ RecordsMatch'

-----------------------------------------------------------------------------
(***************************************************************************)
(* Deliveries.                                                             *)
(***************************************************************************)
\* What Deliver makes of a request: the new prompt, or one it had, perhaps marked.
Marked(m, R, e, how) ==
    \/ m.id = e.agent /\ m.op = "prompt" /\ m.sid = e.sid /\ m.cut = "no"
    \/ \E n \in R : /\ m.id = n.id /\ m.op = n.op /\ m.sid = n.sid
                    /\ m.op # "prompt" => m.cut = n.cut
                    /\ m.sid # e.sid => m.cut = n.cut
                    /\ m.op = "prompt" /\ m.sid = e.sid => m.cut # "no"
                    /\ m.cut = n.cut \/ (n.cut = "no" /\ n.op = "prompt"
                                            /\ n.sid = e.sid /\ m.cut = how)

\* A delivery marks turns of the entry's session as cut and adds the entry.
LEMMA DeliverMarks ==
    ASSUME NEW R \in SUBSET Requests, NEW e \in Entries, NEW how \in {"sent_now", "overrun"}
    PROVE  /\ \E m \in Deliver(R, e, how) : /\ m.id = e.agent /\ m.op = "prompt"
                                            /\ m.cut = "no" /\ m.body = e.body
           /\ \A m \in Deliver(R, e, how) : Marked(m, R, e, how)
<1> DEFINE Mark(m) == IF m.op = "prompt" /\ m.sid = e.sid /\ m.cut = "no"
                        THEN [m EXCEPT !.cut = how] ELSE m
           new == [id |-> e.agent, op |-> "prompt", sid |-> e.sid, body |-> e.body, cut |-> "no"]
<1>1. Deliver(R, e, how) = { Mark(m) : m \in R } \cup {new}
    BY DEF Deliver
<1>2. new.id = e.agent /\ new.op = "prompt" /\ new.sid = e.sid /\ new.cut = "no" /\ new.body = e.body
    OBVIOUS
<1>3. ASSUME NEW n \in R
      PROVE  /\ Mark(n).id = n.id /\ Mark(n).op = n.op /\ Mark(n).sid = n.sid
             /\ Mark(n).op # "prompt" => Mark(n).cut = n.cut
             /\ Mark(n).sid # e.sid => Mark(n).cut = n.cut
             /\ Mark(n).op = "prompt" /\ Mark(n).sid = e.sid => Mark(n).cut # "no"
             /\ Mark(n).cut = n.cut \/ (n.cut = "no" /\ n.op = "prompt"
                                           /\ n.sid = e.sid /\ Mark(n).cut = how)
    <2>1. n \in Requests
        OBVIOUS
    <2>2. CASE n.op = "prompt" /\ n.sid = e.sid /\ n.cut = "no"
        <3>1. Mark(n) = [n EXCEPT !.cut = how]
            BY <2>2
        <3>2. /\ Mark(n).id = n.id /\ Mark(n).op = n.op /\ Mark(n).sid = n.sid
              /\ Mark(n).cut = how
            BY <2>1, <3>1 DEF Requests
        <3> QED BY <2>2, <3>2
    <2>3. CASE ~(n.op = "prompt" /\ n.sid = e.sid /\ n.cut = "no")
        BY <2>3
    <2> QED BY <2>2, <2>3
<1> HIDE DEF Mark, new
<1> QED BY <1>1, <1>2, <1>3 DEF Marked

\* A delivery adds the id of its entry and loses none.
LEMMA DeliverIds ==
    ASSUME NEW R \in SUBSET Requests, NEW e \in Entries, NEW how \in {"sent_now", "overrun"}
    PROVE  {m.id : m \in Deliver(R, e, how)} = {m.id : m \in R} \cup {e.agent}
<1> DEFINE Mark(m) == IF m.op = "prompt" /\ m.sid = e.sid /\ m.cut = "no"
                        THEN [m EXCEPT !.cut = how] ELSE m
           new == [id |-> e.agent, op |-> "prompt", sid |-> e.sid, body |-> e.body, cut |-> "no"]
<1>1. Deliver(R, e, how) = { Mark(m) : m \in R } \cup {new}
    BY DEF Deliver
<1>2. new.id = e.agent
    OBVIOUS
<1>3. \A m \in R : Mark(m).id = m.id
    BY DEF Requests
<1> HIDE DEF Mark, new
<1> QED BY <1>1, <1>2, <1>3

\* Only turns are marked, so a delivery is one among the turns.
LEMMA DeliverPrompts ==
    ASSUME NEW R \in SUBSET Requests, NEW e \in Entries, NEW how \in {"sent_now", "overrun"}
    PROVE  {m \in Deliver(R, e, how) : m.op = "prompt"}
             = Deliver({m \in R : m.op = "prompt"}, e, how)
<1> DEFINE Mark(m) == IF m.op = "prompt" /\ m.sid = e.sid /\ m.cut = "no"
                        THEN [m EXCEPT !.cut = how] ELSE m
           new == [id |-> e.agent, op |-> "prompt", sid |-> e.sid, body |-> e.body, cut |-> "no"]
           P == {m \in R : m.op = "prompt"}
<1>1. Deliver(R, e, how) = { Mark(m) : m \in R } \cup {new}
    BY DEF Deliver
<1>2. Deliver(P, e, how) = { Mark(m) : m \in P } \cup {new}
    BY DEF Deliver
<1>3. \A m \in R : Mark(m).op = m.op
    BY DEF Requests
<1>4. new.op = "prompt"
    OBVIOUS
<1> HIDE DEF Mark, new
<1> QED BY <1>1, <1>2, <1>3, <1>4

-----------------------------------------------------------------------------
(***************************************************************************)
(* The parts of a step.                                                    *)
(***************************************************************************)
\* No turn has the id of an idle slot.
LEMMA SlotFacts ==
    ASSUME Kept
    PROVE  /\ Idle <=> running.agent = 0
           /\ ~Idle => running.agent \in AgentIds
           /\ 0 \notin AgentIds
           /\ omp \subseteq Requests /\ Prompts \subseteq Requests
           /\ \A m \in omp : m.id \in AgentIds
           /\ \A m, n \in omp : m.id = n.id => m = n
<1>1. 0 \notin AgentIds
    BY QueueConstants DEF AgentIds, Clients, Internals
<1>2. running \in {NoTurn} \cup [agent: AgentIds, text: Texts]
    BY DEF Kept, Misc
<1>3. omp \subseteq Requests /\ \A m, n \in omp : m.id = n.id => m = n
    BY DEF Kept, Keeps, Typed, Distinct
<1>4. \A m \in Requests : m.id \in AgentIds
    BY DEF Requests
<1>5. Idle <=> running.agent = 0
    <2>1. NoTurn.agent = 0
        BY DEF NoTurn
    <2>2. CASE running = NoTurn
        BY <2>1, <2>2 DEF Idle
    <2>3. CASE running \in [agent: AgentIds, text: Texts]
        <3>1. running.agent \in AgentIds
            BY <2>3
        <3>2. running # NoTurn
            BY <1>1, <2>1, <3>1
        <3> QED BY <1>1, <3>1, <3>2 DEF Idle
    <2> QED BY <1>2, <2>2, <2>3
<1>6. ~Idle => running.agent \in AgentIds
    BY <1>2 DEF Idle
<1> QED BY <1>1, <1>3, <1>4, <1>5, <1>6 DEF Prompts

\* The records after a dispatch match the requests at OMP.
LEMMA DispatchMatches ==
    ASSUME NEW R \in SUBSET Requests, NEW I, NEW e \in Entries,
           NEW how \in {"sent_now", "overrun"},
           \A m \in R : /\ m.id \in DOMAIN I => (I[m.id].kind \in Kinds <=> m.op = "prompt")
                        /\ m.op # "prompt" => m.cut = "no",
           \A m \in R : m.id # e.agent,
           e.client = e.agent => e.agent \notin DOMAIN I,
           omp' = Deliver(R, e, how), internal' = Recorded(I, e)
    PROVE  RecordsMatch'
<1> SUFFICES ASSUME NEW m \in omp'
             PROVE  /\ m.id \in DOMAIN internal' =>
                          (internal'[m.id].kind \in Kinds <=> m.op = "prompt")
                    /\ m.op # "prompt" => m.cut = "no"
    BY DEF RecordsMatch
<1>1. \/ m.id = e.agent /\ m.op = "prompt"
      \/ \E n \in R : m.id = n.id /\ m.op = n.op /\ (m.op # "prompt" => m.cut = n.cut)
    <2>1. m \in Deliver(R, e, how)
        OBVIOUS
    <2>2. Marked(m, R, e, how)
        BY <2>1, DeliverMarks
    <2> QED BY <2>2 DEF Marked
<1>2. e.kind \in Kinds
    BY DEF Entries
<1>3. CASE e.client = e.agent
    <2>1. internal' = I /\ e.agent \notin DOMAIN I
        BY <1>3 DEF Recorded
    <2> QED BY <1>1, <2>1
<1>4. CASE e.client # e.agent
    <2> DEFINE rec == [kind |-> e.kind, client |-> e.client, follow |-> <<>>]
    <2>1. /\ DOMAIN internal' = DOMAIN I \cup {e.agent}
          /\ \A x \in DOMAIN internal' : internal'[x] = IF x = e.agent THEN rec ELSE I[x]
        BY <1>4 DEF Recorded, Put
    <2>2. rec.kind \in Kinds
        BY <1>2
    <2> HIDE DEF rec
    <2>3. CASE m.id = e.agent /\ m.op = "prompt"
        BY <2>1, <2>2, <2>3
    <2>4. CASE \E n \in R : m.id = n.id /\ m.op = n.op /\ (m.op # "prompt" => m.cut = n.cut)
        <3>1. PICK n \in R : m.id = n.id /\ m.op = n.op /\ (m.op # "prompt" => m.cut = n.cut)
            BY <2>4
        <3>2. m.id # e.agent
            BY <3>1
        <3>3. m.id \in DOMAIN internal' => m.id \in DOMAIN I /\ internal'[m.id] = I[m.id]
            BY <2>1, <3>2
        <3> QED BY <3>1, <3>3
    <2> QED BY <1>1, <2>3, <2>4
<1> QED BY <1>3, <1>4

-----------------------------------------------------------------------------
(***************************************************************************)
(* The pane.                                                               *)
(***************************************************************************)
\* queue/changed repaints the session it names, and no other.
LEMMA PaintedFacts ==
    ASSUME PaneShape, NEW s \in Sessions, NEW h, NEW run
    PROVE  /\ Painted(s, h, run) = [x \in 1 .. MaxSession |-> Painted(s, h, run)[x]]
           /\ s # 0 => Painted(s, h, run)[s] = Snapshot(h, run)
<1> DEFINE v == Snapshot(h, run)
<1>1. s # 0 => s \in 1 .. MaxSession
    BY QueueConstants DEF Sessions
<1>2. Painted(s, h, run) = IF s = 0 THEN pane ELSE [pane EXCEPT ![s] = v]
    BY DEF Painted
<1> HIDE DEF v
<1>3. CASE s = 0
    BY <1>2, <1>3 DEF PaneShape
<1>4. CASE s # 0
    <2>1. Painted(s, h, run) = [pane EXCEPT ![s] = v]
        BY <1>2, <1>4
    <2>2. DOMAIN pane = 1 .. MaxSession
        BY DEF PaneShape
    <2> QED BY <1>1, <1>4, <2>1, <2>2 DEF v
<1> QED BY <1>3, <1>4

\* A handler that ends with the broadcast leaves a fresh pane.
LEMMA PaneBroadcast ==
    ASSUME Kept, PaneKept, broadcastQueue, UNCHANGED session
    PROVE  PaneKept'
<1>1. session \in Sessions
    BY DEF Kept, Misc
<1>2. pane' = Painted(session, held', running') /\ leftover' = FALSE
    BY DEF broadcastQueue
<1>3. PaneShape' /\ (session # 0 => pane'[session] = Snapshot(held', running'))
    BY <1>1, <1>2, PaintedFacts DEF PaneKept, PaneShape
<1> QED BY <1>2, <1>3 DEF PaneKept, PaneFresh, Snapshot

\* One that leaves the queue and the session alone needs none.
LEMMA PaneSame ==
    ASSUME PaneKept, UNCHANGED <<session, held, running, paneVars>>
    PROVE  PaneKept'
BY DEF PaneKept, PaneShape, PaneFresh, paneVars, Idle, Snapshot

\* dispatchEntry, on requests R and records I that lost no turn.
LEMMA DispatchSends ==
    ASSUME Kept, RecordsMatch, AsTyped, PaneKept, NEW R, R \subseteq omp, \A m \in omp \ R : m.op # "prompt",
           NEW I, DOMAIN I \subseteq DOMAIN internal, \A a \in DOMAIN I : I[a] = internal[a],
           NEW e \in Entries, NEW how \in {"sent_now", "overrun"}, how = "overrun" => Idle,
           e.body = e.text, From(e), \A m \in R : m.id # e.agent,
           e.client = e.agent => e.agent \notin DOMAIN I,
           dispatchEntry(e, how, I, R), broadcastQueue, UNCHANGED session, Queues
    PROVE  Step
<1>1. R \in SUBSET Requests /\ Prompts = {m \in R : m.op = "prompt"}
    BY DEF Kept, Keeps, Typed, Prompts
<1>2. omp' = Deliver(R, e, how) /\ internal' = Recorded(I, e)
    BY DEF dispatchEntry
<1>3. Prompts' = Deliver(Prompts, e, how)
    <2>1. Prompts' = {m \in omp' : m.op = "prompt"}
        BY DEF Prompts
    <2> QED BY <1>1, <1>2, <2>1, DeliverPrompts
<1>4. Sends(e, how)
    BY <1>1, <1>3 DEF Sends, dispatchEntry
<1>5. RecordsMatch'
    <2>1. \A m \in R : /\ m.id \in DOMAIN I => (I[m.id].kind \in Kinds <=> m.op = "prompt")
                       /\ m.op # "prompt" => m.cut = "no"
        BY DEF RecordsMatch
    <2> QED BY <1>1, <1>2, <2>1, DispatchMatches
<1>6. PaneKept'
    BY PaneBroadcast
<1>7. Follows
    <2> SUFFICES ASSUME NEW a \in DOMAIN internal', internal'[a].follow # <<>>
                 PROVE  /\ internal'[a].follow[1].body = internal'[a].follow[1].text
                        /\ a \in DOMAIN internal /\ internal'[a] = internal[a]
        BY DEF Follows
    <2>1. a \in DOMAIN I /\ internal'[a] = I[a]
        <3>1. CASE e.client = e.agent
            BY <1>2, <3>1 DEF Recorded
        <3>2. CASE e.client # e.agent
            <4> DEFINE rec == [kind |-> e.kind, client |-> e.client, follow |-> <<>>]
            <4>1. /\ DOMAIN internal' = DOMAIN I \cup {e.agent}
                  /\ \A x \in DOMAIN internal' : internal'[x] = IF x = e.agent THEN rec ELSE I[x]
                BY <1>2, <3>2 DEF Recorded, Put
            <4>2. rec.follow = <<>>
                OBVIOUS
            <4> HIDE DEF rec
            <4> QED BY <4>1, <4>2
        <3> QED BY <3>1, <3>2
    <2> QED BY <2>1 DEF AsTyped
<1> QED BY <1>4, <1>5, <1>6, <1>7 DEF Step, Moves

\* A step that changes neither the records nor the requests at OMP.
LEMMA QuietStep ==
    ASSUME RecordsMatch, AsTyped, UNCHANGED <<omp, internal, running, inFlight, session>>,
           PaneKept', Queues
    PROVE  Step
<1>1. Stays
    BY DEF Stays, Prompts
<1>2. RecordsMatch' /\ Follows
    BY DEF RecordsMatch, Follows, AsTyped
<1> QED BY <1>1, <1>2 DEF Step, Moves

\* The queue keeps what it held.
LEMMA SameQueue ==
    ASSUME AsTyped, UNCHANGED <<held, session>>
    PROVE  Queues
BY DEF Queues, From, AsTyped

\* holdOrDispatch, on the same.
LEMMA HoldsOrSends ==
    ASSUME Kept, RecordsMatch, AsTyped, PaneKept, NEW R, R \subseteq omp, \A m \in omp \ R : m.op # "prompt",
           NEW I, DOMAIN I \subseteq DOMAIN internal, \A a \in DOMAIN I : I[a] = internal[a],
           NEW e \in Entries, e.body = e.text, From(e), \A m \in R : m.id # e.agent,
           e.client = e.agent => e.agent \notin DOMAIN I,
           holdOrDispatch(e, I, R), broadcastQueue, UNCHANGED session
    PROVE  Step
<1>1. CASE /\ ~Idle /\ held' = Append(held, e) /\ internal' = I /\ omp' = R
           /\ UNCHANGED <<running, inFlight>>
    <2>1. Stays
        BY <1>1 DEF Stays, Prompts
    <2>2. RecordsMatch' /\ Follows
        BY <1>1 DEF RecordsMatch, Follows, AsTyped
    <2>3. PaneKept'
        BY PaneBroadcast
    <2>4. Queues
        <3>1. held \in Seq(Entries)
            BY DEF Kept, Keeps, Typed
        <3>2. \A i \in DOMAIN held' : held'[i] = e \/ (i \in DOMAIN held /\ held'[i] = held[i])
            BY <1>1, <3>1
        <3>3. \A i \in DOMAIN held : From(held[i])
            BY DEF From
        <3> QED BY <3>2, <3>3 DEF Queues, AsTyped
    <2> QED BY <2>1, <2>2, <2>3, <2>4 DEF Step, Moves
<1>2. CASE Idle /\ dispatchEntry(e, "overrun", I, R) /\ held' = held
    <2>1. Queues
        BY <1>2, SameQueue
    <2> QED BY <1>2, <2>1, DispatchSends
<1> QED BY <1>1, <1>2 DEF holdOrDispatch

-----------------------------------------------------------------------------
(***************************************************************************)
(* The requests of the pager.                                              *)
(***************************************************************************)
LEMMA StepPrompt ==
    ASSUME Kept, RecordsMatch, AsTyped, PaneKept, NEW sid \in PagerSids, NEW t \in Texts,
           Prompt(sid, t) \/ PromptSendNow(sid, t)
    PROVE  Step
<1> DEFINE e == PromptEntry(sid, t)
<1>1. nreq < MaxReq /\ sid \in Sessions /\ broadcastQueue /\ UNCHANGED session
    BY PagerSession DEF Prompt, PromptSendNow, NewRequest
<1>2. e \in Entries /\ \A m \in omp : m.id # e.agent
    BY <1>1, PromptJoins DEF Joins
<1>3. e.body = e.text /\ e.sid = sid /\ e.agent = nreq + 1
    BY DEF PromptEntry
<1>4. nreq + 1 \notin DOMAIN internal
    BY FreshIds DEF Kept, Keeps, Internally
<1>5. From(e)
    BY <1>3 DEF From
<1> HIDE DEF e
<1>6. CASE holdOrDispatch(e, internal, omp)
    BY <1>1, <1>2, <1>3, <1>4, <1>5, <1>6, HoldsOrSends
<1>7. CASE dispatchEntry(e, "sent_now", internal, omp) /\ held' = held
    <2>1. Queues
        BY <1>1, <1>7, SameQueue
    <2> QED BY <1>1, <1>2, <1>3, <1>4, <1>5, <1>7, <2>1, DispatchSends
<1> QED BY <1>6, <1>7 DEF Prompt, PromptSendNow, e

LEMMA StepInternal ==
    ASSUME Kept, RecordsMatch, AsTyped, PaneKept, NEW sid \in PagerSids, NEW t \in Texts,
           Interject(sid, t) \/ Compact(sid, t)
    PROVE  Step
<1>1. /\ nreq < MaxReq /\ internalSeq < MaxInt /\ sid \in Sessions /\ broadcastQueue
      /\ UNCHANGED session
    BY PagerSession DEF Interject, Compact, NewRequest, NewInternal
<1>2. ASSUME NEW kind \in Kinds, NEW c \in {0, nreq + 1},
             holdOrDispatch(InternalEntry(kind, c, sid, t), internal, omp)
      PROVE  Step
    <2> DEFINE e == InternalEntry(kind, c, sid, t)
    <2>1. e \in Entries /\ \A m \in omp : m.id # e.agent
        BY <1>1, InternalJoins DEF Joins
    <2>2. e.body = e.text /\ e.sid = sid /\ e.agent = -(internalSeq + 1)
        BY DEF InternalEntry
    <2>3. -(internalSeq + 1) \notin DOMAIN internal
        BY FreshIds DEF Kept, Keeps, Internally
    <2>4. From(e)
        BY <2>2 DEF From
    <2>5. holdOrDispatch(e, internal, omp)
        BY <1>2
    <2> HIDE DEF e
    <2> QED BY <1>1, <2>1, <2>2, <2>3, <2>4, <2>5, HoldsOrSends
<1>3. "interjection" \in Kinds /\ "compact" \in Kinds
    BY DEF Kinds
<1> QED BY <1>2, <1>3 DEF Interject, Compact

\* A request that is not a prompt goes to OMP.
LEMMA AskedFacts ==
    ASSUME NEW id, NEW op, op # "prompt", NEW sid, Ask(id, op, sid)
    PROVE  /\ Prompts' = Prompts
           /\ \A m \in omp' : m \in omp \/ (m.id = id /\ m.op = op /\ m.cut = "no")
<1> DEFINE r == [id |-> id, op |-> op, sid |-> sid, body |-> AnyText, cut |-> "no"]
<1>1. omp' = omp \cup {r}
    BY DEF Ask
<1>2. r.id = id /\ r.op = op /\ r.cut = "no"
    OBVIOUS
<1> HIDE DEF r
<1> QED BY <1>1, <1>2 DEF Prompts

\* set_mode is asked under a new internal id.
LEMMA ModeAsked ==
    ASSUME Kept, RecordsMatch, AsTyped, PaneKept, NEW rec, NEW sid,
           rec.kind \notin Kinds,
           rec.follow # <<>> => /\ rec.follow[1].body = rec.follow[1].text
                                /\ "vibe_rest" \in PagerOps,
           internal' = Put(internal, -(internalSeq + 1), rec),
           Ask(-(internalSeq + 1), "set_mode", sid),
           UNCHANGED <<session, held, running, inFlight, paneVars>>
    PROVE  Step
<1> DEFINE k == -(internalSeq + 1)
<1>1. /\ Prompts' = Prompts
      /\ \A m \in omp' : m \in omp \/ (m.id = k /\ m.op = "set_mode" /\ m.cut = "no")
    BY AskedFacts
<1>2. /\ DOMAIN internal' = DOMAIN internal \cup {k}
      /\ \A x \in DOMAIN internal' : internal'[x] = IF x = k THEN rec ELSE internal[x]
    BY DEF Put
<1>3. \A m \in omp : m.id # k
    BY FreshIds
<1> HIDE DEF k
<1>4. RecordsMatch'
    <2> SUFFICES ASSUME NEW m \in omp'
                 PROVE  /\ m.id \in DOMAIN internal' =>
                              (internal'[m.id].kind \in Kinds <=> m.op = "prompt")
                        /\ m.op # "prompt" => m.cut = "no"
        BY DEF RecordsMatch
    <2>1. CASE m \in omp
        <3>1. m.id \in DOMAIN internal' => m.id \in DOMAIN internal /\ internal'[m.id] = internal[m.id]
            BY <1>2, <1>3, <2>1
        <3> QED BY <2>1, <3>1 DEF RecordsMatch
    <2>2. CASE m.id = k /\ m.op = "set_mode" /\ m.cut = "no"
        BY <1>2, <2>2
    <2> QED BY <1>1, <2>1, <2>2
<1>5. Follows
    BY <1>2 DEF Follows, AsTyped
<1>6. Queues /\ PaneKept'
    BY SameQueue, PaneSame
<1>7. Stays
    BY <1>1 DEF Stays
<1> QED BY <1>4, <1>5, <1>6, <1>7 DEF Step, Moves

LEMMA StepVibePrompt ==
    ASSUME Kept, RecordsMatch, AsTyped, PaneKept, NEW sid \in PagerSids, NEW t \in Texts,
           NEW rest \in BOOLEAN, VibePrompt(sid, t, rest)
    PROVE  Step
<1> DEFINE e == PromptEntry(sid, t)
           rec == [kind |-> "vibeMode", client |-> nreq + 1, follow |-> IF rest THEN <<e>> ELSE <<>>]
<1>1. rec.kind \notin Kinds
    BY DEF Kinds
<1>2. e.body = e.text
    BY DEF PromptEntry
<1>3. rec.follow # <<>> => rec.follow[1].body = rec.follow[1].text /\ "vibe_rest" \in PagerOps
    <2>1. CASE rest
        <3>1. rec.follow[1] = e /\ "vibe_rest" \in PagerOps
            BY <2>1 DEF VibePrompt
        <3> QED BY <1>2, <3>1
    <2>2. CASE ~rest
        BY <2>2
    <2> QED BY <2>1, <2>2
<1>4. /\ internal' = Put(internal, -(internalSeq + 1), rec)
      /\ Ask(-(internalSeq + 1), "set_mode", sid)
      /\ UNCHANGED <<session, held, running, inFlight, paneVars>>
    BY DEF VibePrompt
<1> HIDE DEF rec
<1> QED BY <1>1, <1>3, <1>4, ModeAsked

LEMMA StepTogglePlanMode ==
    ASSUME Kept, RecordsMatch, AsTyped, PaneKept, TogglePlanMode
    PROVE  Step
<1> DEFINE rec == [kind |-> "internal", client |-> 0, follow |-> <<>>]
<1>1. rec.kind \notin Kinds /\ rec.follow = <<>>
    BY DEF Kinds
<1>2. /\ internal' = Put(internal, -(internalSeq + 1), rec)
      /\ Ask(-(internalSeq + 1), "set_mode", session)
      /\ UNCHANGED <<session, held, running, inFlight, paneVars>>
    BY DEF TogglePlanMode
<1> HIDE DEF rec
<1> QED BY <1>1, <1>2, ModeAsked

LEMMA StepSwitchSession ==
    ASSUME Kept, RecordsMatch, AsTyped, PaneKept,
           NewSession \/ \E sid \in Sessions : LoadSession(sid)
    PROVE  Step
<1>1. PICK op \in {"new", "load"}, sid \in Sessions : Ask(nreq + 1, op, sid)
    <2>1. 0 \in Sessions
        BY QueueConstants DEF Sessions
    <2> QED BY <2>1 DEF NewSession, LoadSession
<1>2. UNCHANGED <<session, held, running, inFlight, internal, paneVars>>
    BY DEF NewSession, LoadSession, queueVars
<1>3. /\ Prompts' = Prompts
      /\ \A m \in omp' : m \in omp \/ (m.id = nreq + 1 /\ m.op = op /\ m.cut = "no")
    BY <1>1, AskedFacts
<1>4. nreq + 1 \notin DOMAIN internal
    BY FreshIds DEF Kept, Keeps, Internally
<1>5. RecordsMatch' /\ Follows
    BY <1>2, <1>3, <1>4 DEF RecordsMatch, Follows, AsTyped
<1>6. Stays /\ Queues /\ PaneKept'
    BY <1>2, <1>3, SameQueue, PaneSame DEF Stays
<1> QED BY <1>5, <1>6 DEF Step, Moves

-----------------------------------------------------------------------------
(***************************************************************************)
(* The queue operations.                                                   *)
(***************************************************************************)
LEMMA RemovedFrom ==
    ASSUME Kept, NEW i \in DOMAIN held
    PROVE  \A j \in DOMAIN RemoveIndex(held, i) :
              \E x \in DOMAIN held : RemoveIndex(held, i)[j] = held[x]
<1>1. held \in Seq(Entries) /\ i \in Int
    BY DEF Kept, Keeps, Typed
<1>2. /\ DOMAIN RemoveIndex(held, i) = 1 .. Len(held) - 1
      /\ \A j \in DOMAIN RemoveIndex(held, i) :
            /\ j < i => j \in DOMAIN held /\ RemoveIndex(held, i)[j] = held[j]
            /\ j >= i => j + 1 \in DOMAIN held /\ RemoveIndex(held, i)[j] = held[j + 1]
    BY <1>1, RemoveIndexFacts
<1> TAKE j \in DOMAIN RemoveIndex(held, i)
<1>3. j < i \/ j >= i
    BY <1>1, <1>2
<1> QED BY <1>2, <1>3

LEMMA StepQueueRemove ==
    ASSUME Kept, RecordsMatch, AsTyped, PaneKept, NEW i \in DOMAIN held, QueueRemove(i)
    PROVE  Step
<1>1. /\ held' = RemoveIndex(held, i) /\ broadcastQueue
      /\ UNCHANGED <<omp, internal, running, inFlight, session>>
    BY DEF QueueRemove
<1>2. \A j \in DOMAIN held' : \E x \in DOMAIN held : held'[j] = held[x]
    BY <1>1, RemovedFrom
<1>3. Queues
    BY <1>1, <1>2 DEF Queues, From, AsTyped
<1>4. PaneKept'
    BY <1>1, PaneBroadcast
<1> QED BY <1>1, <1>3, <1>4, QuietStep

LEMMA StepQueueClear ==
    ASSUME Kept, RecordsMatch, AsTyped, PaneKept, QueueClear
    PROVE  Step
<1>1. /\ held' = <<>> /\ broadcastQueue
      /\ UNCHANGED <<omp, internal, running, inFlight, session>>
    BY DEF QueueClear
<1>2. Queues /\ PaneKept'
    BY <1>1, PaneBroadcast DEF Queues
<1> QED BY <1>1, <1>2, QuietStep

LEMMA StepQueueReorder ==
    ASSUME Kept, RecordsMatch, AsTyped, PaneKept, NEW rank, QueueReorder(rank)
    PROVE  Step
<1>1. PICK p \in Shuffles(Len(held)) : held' = [j \in DOMAIN held |-> held[p[j]]]
    BY DEF QueueReorder
<1>2. /\ broadcastQueue
      /\ UNCHANGED <<omp, internal, running, inFlight, session>>
    BY DEF QueueReorder
<1>3. DOMAIN held = 1 .. Len(held)
    BY DEF Kept, Keeps, Typed
<1>4. \A j \in DOMAIN held' : \E x \in DOMAIN held : held'[j] = held[x]
    BY <1>1, <1>3 DEF Shuffles
<1>5. Queues
    BY <1>2, <1>4 DEF Queues, From, AsTyped
<1>6. PaneKept'
    BY <1>2, PaneBroadcast
<1> QED BY <1>2, <1>5, <1>6, QuietStep

\* An edit changes both copies of the text and keeps the session.
LEMMA EditedText ==
    ASSUME NEW e \in Entries, NEW t
    PROVE  Edited(e, t).text = t /\ Edited(e, t).body = t /\ Edited(e, t).sid = e.sid
BY DEF Edited, Entries

LEMMA StepQueueEdit ==
    ASSUME Kept, RecordsMatch, AsTyped, PaneKept, NEW i \in DOMAIN held, NEW t \in Texts, QueueEdit(i, t)
    PROVE  Step
<1>1. /\ held' = [held EXCEPT ![i] = Edited(held[i], t)] /\ broadcastQueue
      /\ UNCHANGED <<omp, internal, running, inFlight, session>>
    BY DEF QueueEdit
<1>2. held[i] \in Entries
    BY DEF Kept, Keeps, Typed
<1>3. Edited(held[i], t).text = Edited(held[i], t).body /\ Edited(held[i], t).sid = held[i].sid
    BY <1>2, EditedText
<1>4. \A j \in DOMAIN held' : j \in DOMAIN held /\ held'[j] \in {held[j], Edited(held[i], t)}
    BY <1>1
<1>5. Queues
    BY <1>1, <1>3, <1>4 DEF Queues, From, AsTyped
<1>6. PaneKept'
    BY <1>1, PaneBroadcast
<1> QED BY <1>1, <1>5, <1>6, QuietStep

LEMMA StepQueueInterject ==
    ASSUME Kept, RecordsMatch, AsTyped, PaneKept, NEW i \in DOMAIN held, NEW t \in Texts,
           QueueInterject(i, t)
    PROVE  Step
<1> DEFINE e == Edited(held[i], t)
<1>1. /\ held' = RemoveIndex(held, i) /\ dispatchEntry(e, "sent_now", internal, omp)
      /\ broadcastQueue /\ UNCHANGED session
    BY DEF QueueInterject
<1>2. held[i] \in Entries /\ \A m \in omp : m.id # held[i].agent
    BY DEF Kept, Keeps, Typed, Distinct
<1>3. e \in Entries /\ e.agent = held[i].agent /\ e.body = e.text /\ e.sid = held[i].sid
    BY <1>2, EditedFacts, EditedText
<1>4. held[i].agent \notin DOMAIN internal
    BY <1>2 DEF Kept, Keeps, Internally
<1>5. From(e)
    BY <1>3 DEF From
<1>6. \A j \in DOMAIN held' : \E x \in DOMAIN held : held'[j] = held[x]
    BY <1>1, RemovedFrom
<1>7. Queues
    BY <1>1, <1>6 DEF Queues, From, AsTyped
<1> HIDE DEF e
<1> QED BY <1>1, <1>2, <1>3, <1>4, <1>5, <1>7, DispatchSends

-----------------------------------------------------------------------------
(***************************************************************************)
(* The responses of OMP.                                                   *)
(***************************************************************************)
\* A response that leaves the queue alone takes its record with it.
LEMMA ResponseFacts ==
    ASSUME RecordsMatch, AsTyped, NEW m \in omp, omp' = omp \ {m},
           internal' \in {internal, Drop(internal, m.id)}
    PROVE  /\ RecordsMatch' /\ Follows
           /\ m.op = "prompt" => m \in Prompts /\ Prompts' = Prompts \ {m}
           /\ m.op # "prompt" => Prompts' = Prompts
<1>1. /\ DOMAIN internal' \subseteq DOMAIN internal
      /\ \A a \in DOMAIN internal' : internal'[a] = internal[a]
    BY DEF Drop
<1> QED BY <1>1 DEF RecordsMatch, Follows, AsTyped, Prompts

\* settleTurn frees the slot if the turn has it, and the pane stays fresh.
LEMMA SettledFacts ==
    ASSUME Kept, PaneKept, NEW m, settleTurn(m.id), UNCHANGED <<session, held>>
    PROVE  /\ PaneKept' /\ inFlight' = inFlight \ {m.id}
           /\ running' = IF running.agent = m.id THEN NoTurn ELSE running
<1>1. CASE running.agent # m.id
    BY <1>1, PaneSame DEF settleTurn
<1>2. CASE running.agent = m.id
    <2>1. broadcastQueue /\ running' = NoTurn
        BY <1>2 DEF settleTurn, broadcastQueue
    <2> QED BY <1>2, <2>1, PaneBroadcast DEF settleTurn
<1> QED BY <1>1, <1>2

LEMMA StepTurnAnswered ==
    ASSUME Kept, RecordsMatch, AsTyped, PaneKept, NEW m \in omp,
           InternalTurnAnswered(m) \/ PromptAnswered(m)
    PROVE  Step
<1>1. m.op = "prompt"
    BY DEF InternalTurnAnswered, PromptAnswered, RecordsMatch
<1>2. /\ omp' = omp \ {m} /\ internal' \in {internal, Drop(internal, m.id)}
      /\ settleTurn(m.id) /\ UNCHANGED <<session, held>>
    BY DEF InternalTurnAnswered, PromptAnswered
<1>3. RecordsMatch' /\ Follows /\ m \in Prompts /\ Prompts' = Prompts \ {m}
    BY <1>1, <1>2, ResponseFacts
<1>4. PaneKept' /\ Queues
    BY <1>2, SettledFacts, SameQueue
<1>5. Settles(m)
    BY <1>2, <1>3, SettledFacts DEF Settles
<1> QED BY <1>3, <1>4, <1>5 DEF Step, Moves

LEMMA StepLatePromptAnswered ==
    ASSUME RecordsMatch, AsTyped, PaneKept, NEW m \in omp, LatePromptAnswered(m)
    PROVE  Step
<1>1. /\ m.op = "prompt" /\ m.id \notin inFlight /\ omp' = omp \ {m}
      /\ UNCHANGED <<session, held, running, inFlight, internal, paneVars>>
    BY DEF LatePromptAnswered, queueVars
<1>2. RecordsMatch' /\ Follows /\ m \in Prompts /\ Prompts' = Prompts \ {m}
    BY <1>1, ResponseFacts
<1>3. PaneKept' /\ Queues
    BY <1>1, SameQueue, PaneSame
<1>4. Late(m)
    BY <1>1, <1>2 DEF Late
<1> QED BY <1>2, <1>3, <1>4 DEF Step, Moves

LEMMA StepInternalAnswered ==
    ASSUME RecordsMatch, AsTyped, PaneKept, NEW m \in omp, InternalAnswered(m)
    PROVE  Step
<1>1. /\ m.id \in DOMAIN internal /\ internal[m.id].kind = "internal" /\ omp' = omp \ {m}
      /\ internal' = Drop(internal, m.id)
      /\ UNCHANGED <<session, held, running, inFlight, paneVars>>
    BY DEF InternalAnswered
<1>2. m.op # "prompt"
    BY <1>1 DEF RecordsMatch, Kinds
<1>3. RecordsMatch' /\ Follows /\ Prompts' = Prompts
    BY <1>1, <1>2, ResponseFacts
<1>4. PaneKept' /\ Queues /\ Stays
    BY <1>1, <1>3, SameQueue, PaneSame DEF Stays
<1> QED BY <1>3, <1>4 DEF Step, Moves

LEMMA StepVibeModeAnswered ==
    ASSUME Kept, RecordsMatch, AsTyped, PaneKept, NEW m \in omp, VibeModeAnswered(m)
    PROVE  Step
<1> DEFINE c == internal[m.id].client
           e == internal[m.id].follow[1]
           R == omp \ {m}
           I == Drop(internal, m.id)
<1>1. m.id \in DOMAIN internal /\ internal[m.id].kind = "vibeMode" /\ UNCHANGED session
    BY DEF VibeModeAnswered
<1>2. m.op # "prompt"
    BY <1>1 DEF RecordsMatch, Kinds
<1>3. CASE internal' = I /\ omp' = R /\ UNCHANGED <<held, running, inFlight, paneVars>>
    <2>1. RecordsMatch' /\ Follows /\ Prompts' = Prompts
        BY <1>2, <1>3, ResponseFacts
    <2>2. PaneKept' /\ Queues /\ Stays
        BY <1>1, <1>3, <2>1, SameQueue, PaneSame DEF Stays
    <2> QED BY <2>1, <2>2 DEF Step, Moves
<1>4. CASE internal[m.id].follow # <<>> /\ holdOrDispatch(e, I, R) /\ broadcastQueue
    <2>1. e \in Entries /\ e.agent = c /\ e.client = c /\ c > 0 /\ e.body = e.text
        BY <1>1, <1>4 DEF Kept, Keeps, Shapes, AsTyped
    <2>2. From(e)
        BY <1>1, <1>4 DEF From
    <2>3. c \in Int /\ c \notin DOMAIN internal
        <3>1. c \in Clients \cup {0}
            BY <1>1, OwnerFacts
        <3>2. Clients \cup {0} \subseteq Int /\ \A a \in Internals : a < 0
            BY QueueConstants DEF Clients, Internals
        <3> QED BY <2>1, <3>1, <3>2 DEF Kept, Keeps, Typed
    <2>4. Owner(internal, m.id) = c
        BY <1>1 DEF Owner
    <2>5. \A r \in R : r.id # e.agent
        <3> SUFFICES ASSUME NEW r \in omp, r.id = c, r # m PROVE FALSE
            BY <2>1
        <3>1. Owner(internal, r.id) = c
            BY <2>3 DEF Owner
        <3> QED BY <2>1, <2>4, <3>1 DEF Kept, Keeps, Single
    <2>6. /\ R \subseteq omp /\ \A r \in omp \ R : r.op # "prompt"
          /\ DOMAIN I \subseteq DOMAIN internal /\ \A a \in DOMAIN I : I[a] = internal[a]
        BY <1>2 DEF Drop
    <2>7. e.agent \notin DOMAIN I
        BY <2>1, <2>3, <2>6
    <2> HIDE DEF e, R, I, c
    <2> QED BY <1>1, <1>4, <2>1, <2>2, <2>5, <2>6, <2>7, HoldsOrSends
<1> QED BY <1>3, <1>4 DEF VibeModeAnswered

\* The session entered by session/new is repainted.  The one that a load enters is
\* not (the snapshot goes to the session left), unless they are the same.
LEMMA PaneSwitched ==
    ASSUME Kept, PaneKept, NEW m \in omp, NewAnswered(m) \/ LoadAnswered(m)
    PROVE  PaneKept'
<1>1. held' = <<>> /\ running' = NoTurn
    BY DEF NewAnswered, LoadAnswered, resetQueue
<1>2. session \in Sessions /\ m.sid \in Sessions
    BY DEF Kept, Misc, Keeps, Typed, Requests
<1>3. CASE NewAnswered(m)
    <2>1. /\ session' \in Sessions /\ leftover' = FALSE
          /\ pane' = Painted(session', <<>>, NoTurn)
        BY <1>3 DEF NewAnswered
    <2>2. PaneShape' /\ (session' # 0 => pane'[session'] = Snapshot(<<>>, NoTurn))
        BY <2>1, PaintedFacts DEF PaneKept, PaneShape
    <2> QED BY <1>1, <2>1, <2>2 DEF PaneKept, PaneFresh, Snapshot
<1>4. CASE LoadAnswered(m)
    <2>1. /\ session' = m.sid /\ leftover' = (m.sid # session)
          /\ pane' = Painted(session, <<>>, NoTurn)
        BY <1>4 DEF LoadAnswered
    <2>2. PaneShape' /\ (session # 0 => pane'[session] = Snapshot(<<>>, NoTurn))
        BY <1>2, <2>1, PaintedFacts DEF PaneKept, PaneShape
    <2>3. CASE m.sid = session
        BY <1>1, <2>1, <2>2, <2>3 DEF PaneKept, PaneFresh, Snapshot
    <2>4. CASE m.sid # session
        <3>1. leftover' /\ Idle'
            BY <1>1, <2>1, <2>4 DEF Idle, NoTurn
        <3> QED BY <1>1, <2>2, <3>1 DEF PaneKept, PaneFresh
    <2> QED BY <2>3, <2>4
<1> QED BY <1>3, <1>4

LEMMA StepSwitchAnswered ==
    ASSUME Kept, RecordsMatch, AsTyped, PaneKept, NEW m \in omp,
           SwitchFailed(m) \/ NewAnswered(m) \/ LoadAnswered(m)
    PROVE  Step
<1>1. m.op \in {"new", "load"} /\ omp' = omp \ {m} /\ internal' = internal
    BY DEF SwitchFailed, NewAnswered, LoadAnswered, queueVars
<1>2. RecordsMatch' /\ Follows /\ Prompts' = Prompts
    BY <1>1, ResponseFacts
<1>3. CASE SwitchFailed(m)
    <2>1. UNCHANGED <<session, held, running, inFlight, paneVars>>
        BY <1>3 DEF SwitchFailed, queueVars
    <2>2. PaneKept' /\ Queues /\ Stays
        BY <1>2, <2>1, SameQueue, PaneSame DEF Stays
    <2> QED BY <1>2, <2>2 DEF Step, Moves
<1>4. CASE NewAnswered(m) \/ LoadAnswered(m)
    <2>1. held' = <<>> /\ running' = NoTurn /\ inFlight' = {}
        BY <1>4 DEF NewAnswered, LoadAnswered, resetQueue
    <2>2. PaneKept' /\ Queues /\ Leaves
        BY <1>2, <1>4, <2>1, PaneSwitched DEF Queues, Leaves
    <2> QED BY <1>2, <2>2 DEF Step, Moves
<1> QED BY <1>3, <1>4

\* Every step of the queue is one of the five.
LEMMA StepNext ==
    ASSUME Kept, SlotKept, [Next]_vars
    PROVE  Step
<1>1. RecordsMatch /\ AsTyped /\ PaneKept
    BY DEF SlotKept
<1>2. CASE PagerRequest
    BY <1>1, <1>2, StepPrompt, StepInternal, StepVibePrompt, StepTogglePlanMode, StepSwitchSession
       DEF PagerRequest
<1>3. CASE QueueMutation
    BY <1>1, <1>3, StepQueueClear, StepQueueReorder, StepQueueRemove, StepQueueEdit,
       StepQueueInterject DEF QueueMutation
<1>4. CASE \E m \in omp : AgentResponse(m)
    BY <1>1, <1>4, StepSwitchAnswered, StepTurnAnswered, StepVibeModeAnswered,
       StepInternalAnswered, StepLatePromptAnswered DEF AgentResponse
<1>5. CASE UNCHANGED vars
    <2>1. UNCHANGED <<session, held, running, inFlight, internal, paneVars, omp>>
        BY <1>5 DEF vars, queueVars
    <2>2. PaneKept' /\ Queues
        BY <1>1, <2>1, SameQueue, PaneSame
    <2> QED BY <1>1, <2>1, <2>2, QuietStep
<1> QED BY <1>2, <1>3, <1>4, <1>5 DEF Next

-----------------------------------------------------------------------------
(***************************************************************************)
(* The invariants of the slot.                                             *)
(***************************************************************************)
\* The running turn is at OMP, uncut, expected, and as it is shown.
LiveTurn(m) ==
    m.id = running.agent /\ m.cut = "no" /\ m.id \in inFlight /\ m.body = running.text
LiveSlot == ~Idle => \E m \in Prompts : LiveTurn(m)

LEMMA LiveKept ==
    ASSUME Kept, LiveSlot, Moves
    PROVE  LiveSlot'
<1> SUFFICES ASSUME ~Idle' PROVE (\E m \in Prompts : LiveTurn(m))'
    BY DEF LiveSlot
<1>0. running' # NoTurn
    BY DEF Idle, NoTurn
<1>1. CASE Stays
    <2>1. ~Idle /\ UNCHANGED <<running, inFlight>> /\ Prompts' = Prompts
        BY <1>0, <1>1 DEF Stays, Idle
    <2>2. PICK m \in Prompts : LiveTurn(m)
        BY <2>1 DEF LiveSlot
    <2> QED BY <2>1, <2>2 DEF LiveTurn
<1>2. CASE \E e \in Entries, how \in {"sent_now", "overrun"} : Sends(e, how)
    <2>1. PICK e \in Entries, how \in {"sent_now", "overrun"} : Sends(e, how)
        BY <1>2
    <2>2. Prompts \in SUBSET Requests
        BY SlotFacts
    <2>3. PICK m \in Deliver(Prompts, e, how) : m.id = e.agent /\ m.cut = "no" /\ m.body = e.body
        BY <2>2, DeliverMarks
    <2>4. /\ m \in Prompts' /\ running'.agent = e.agent /\ running'.text = e.text
          /\ e.body = e.text /\ e.agent \in inFlight'
        BY <2>1, <2>3 DEF Sends
    <2> QED BY <2>3, <2>4 DEF LiveTurn
<1>3. CASE \E m \in Prompts : Settles(m) \/ Late(m)
    <2>1. PICK m \in Prompts : Settles(m) \/ Late(m)
        BY <1>3
    <2>2. running' = running /\ Prompts' = Prompts \ {m}
        BY <1>0, <2>1 DEF Settles, Late
    <2>3. ~Idle
        BY <1>0, <2>2 DEF Idle
    <2>4. PICK n \in Prompts : LiveTurn(n)
        BY <2>3 DEF LiveSlot
    <2>5. n.id # m.id /\ n.id \in inFlight'
        <3>1. CASE Late(m)
            BY <2>4, <3>1 DEF Late, LiveTurn
        <3>2. CASE Settles(m)
            <4>1. running.agent # m.id
                BY <1>0, <3>2 DEF Settles
            <4> QED BY <2>4, <3>2, <4>1 DEF Settles, LiveTurn
        <3> QED BY <2>1, <3>1, <3>2
    <2> QED BY <2>2, <2>4, <2>5 DEF LiveTurn
<1>4. CASE Leaves
    BY <1>0, <1>4 DEF Leaves
<1> QED BY <1>1, <1>2, <1>3, <1>4 DEF Moves

LEMMA SlotStep ==
    ASSUME Kept, Kept', SlotKept, Step
    PROVE  SlotKept'
<1>1. LiveSlot
    BY DEF SlotKept, RunningIsLive, SentAsShown, LiveSlot, LiveTurn, Prompts
<1>2. LiveSlot'
    BY <1>1, LiveKept DEF Step
<1>3. \A m, n \in omp' : m.id = n.id => m = n
    BY DEF Kept, Keeps, Distinct
<1>4. RunningIsLive'
    BY <1>2 DEF RunningIsLive, LiveSlot, LiveTurn, Prompts
<1>5. SentAsShown'
    BY <1>2, <1>3 DEF SentAsShown, LiveSlot, LiveTurn, Prompts
<1>6. AsTyped'
    BY DEF Step, Queues, Follows, AsTyped
<1> QED BY <1>4, <1>5, <1>6 DEF SlotKept, Step

LEMMA SlotInit ==
    ASSUME Init
    PROVE  SlotKept
<1>1. Idle /\ omp = {} /\ DOMAIN held = {} /\ DOMAIN internal = {}
    BY DEF Init, Idle
<1>2. PaneKept
    BY DEF Init, PaneKept, PaneShape, PaneFresh
<1> QED BY <1>1, <1>2 DEF SlotKept, RunningIsLive, SentAsShown, AsTyped, RecordsMatch

\* The inductive invariant of the slot and the panes: the running prompt is at OMP
\* with the text that is shown, and the pane of the current session is the queue,
\* or what an earlier visit left while the queue is empty (resetQueue on a load).
THEOREM SlotHolds == Spec => [](Kept /\ SlotKept)
<1>1. Init => Kept /\ SlotKept
    BY KeptInit, SlotInit
<1>2. (Kept /\ SlotKept) /\ [Next]_vars => (Kept /\ SlotKept)'
    BY KeptNext, StepNext, SlotStep
<1> QED BY <1>1, <1>2, PTL DEF Spec

\* Whatever is held, promoted, edited, cancelled or settled, in any order: the
\* running prompt is at OMP, nothing has cut it, and its response will free the
\* slot.
THEOREM SlotIsLive == Spec => []RunningIsLive
<1>1. SlotKept => RunningIsLive
    BY DEF SlotKept
<1> QED BY <1>1, SlotHolds, PTL

\* For any number of sessions and of visits to each: the pane of the current
\* session shows the queue, except from a load or resume until the first change
\* of the queue, and while it does not there is nothing to show.
THEOREM PaneIsFresh == Spec => []PaneFresh
<1>1. SlotKept => PaneFresh
    BY DEF SlotKept, PaneKept
<1> QED BY <1>1, SlotHolds, PTL

\* OMP works on the text that the pane shows as running, also after edits.
THEOREM TextIsShown == Spec => []SentAsShown
<1>1. SlotKept => SentAsShown
    BY DEF SlotKept
<1> QED BY <1>1, SlotHolds, PTL

-----------------------------------------------------------------------------
(***************************************************************************)
(* The refinement of TurnSlot.                                             *)
(***************************************************************************)
TurnIds == {m.id : m \in {r \in omp : r.op = "prompt"}}

LEMMA TurnStep ==
    ASSUME Kept, SlotKept, Step
    PROVE  [Turn!TurnNext]_(Turn!turnVars)
<1>1. TurnIds = {m.id : m \in Prompts} /\ TurnIds' = {m.id : m \in Prompts'}
    BY DEF TurnIds, Prompts
<1>2. \A m, n \in Prompts : m.id = n.id => m = n
    BY SlotFacts DEF Prompts
<1>3. \A m \in Prompts : m.id \in AgentIds
    BY SlotFacts DEF Prompts
<1>4. NoTurn.agent = 0
    BY DEF NoTurn
<1>5. CASE Stays
    <2>1. running'.agent = running.agent /\ TurnIds' = TurnIds
        BY <1>1, <1>5 DEF Stays
    <2> QED BY <2>1 DEF Turn!turnVars, TurnIds
<1>6. CASE \E e \in Entries, how \in {"sent_now", "overrun"} : Sends(e, how)
    <2>1. PICK e \in Entries, how \in {"sent_now", "overrun"} : Sends(e, how)
        BY <1>6
    <2>2. Prompts \in SUBSET Requests /\ e.agent \in AgentIds
        BY SlotFacts DEF Entries
    <2>3. {m.id : m \in Deliver(Prompts, e, how)} = {m.id : m \in Prompts} \cup {e.agent}
        BY <2>2, DeliverIds
    <2>4. TurnIds' = TurnIds \cup {e.agent} /\ e.agent \notin TurnIds /\ running'.agent = e.agent
        BY <1>1, <2>1, <2>3 DEF Sends
    <2>5. Turn!Dispatch(e.agent)
        BY <2>4 DEF Turn!Dispatch, TurnIds
    <2> QED BY <2>2, <2>5 DEF Turn!TurnNext
<1>7. CASE \E m \in Prompts : Settles(m) \/ Late(m)
    <2>1. PICK m \in Prompts : Settles(m) \/ Late(m)
        BY <1>7
    <2>2. TurnIds' = TurnIds \ {m.id} /\ m.id \in TurnIds /\ m.id \in AgentIds
        BY <1>1, <1>2, <1>3, <2>1 DEF Settles, Late
    <2>3. CASE running.agent = m.id
        <3>1. m.id \in inFlight
            <4>1. ~Idle
                BY <1>3, <2>3, SlotFacts
            <4> QED BY <2>3, <4>1 DEF SlotKept, RunningIsLive
        <3>2. running'.agent = 0
            BY <1>4, <2>1, <2>3, <3>1 DEF Settles, Late
        <3>3. Turn!SettleOwn(m.id)
            BY <2>2, <2>3, <3>2 DEF Turn!SettleOwn, TurnIds
        <3> QED BY <2>2, <3>3 DEF Turn!TurnNext
    <2>4. CASE running.agent # m.id
        <3>1. running' = running
            BY <2>1, <2>4 DEF Settles, Late
        <3>2. Turn!SettleLate(m.id)
            BY <2>2, <2>4, <3>1 DEF Turn!SettleLate, TurnIds
        <3> QED BY <2>2, <3>2 DEF Turn!TurnNext
    <2> QED BY <2>3, <2>4
<1>8. CASE Leaves
    <2>1. running'.agent = 0 /\ TurnIds' = TurnIds
        BY <1>1, <1>4, <1>8 DEF Leaves
    <2>2. Turn!Leave
        BY <2>1 DEF Turn!Leave, TurnIds
    <2> QED BY <2>2 DEF Turn!TurnNext
<1> QED BY <1>5, <1>6, <1>7, <1>8 DEF Step, Moves

\* The queue implements the slot of TurnSlot for every number of prompts: a
\* prompt takes the slot when it is dispatched, and only its own settling or a
\* session switch frees it.
THEOREM QueueImplementsSlot == Spec => TurnSlotKept
<1>1. Init => Turn!TurnInit
    BY DEF Init, NoTurn, Turn!TurnInit
<1>2. Kept /\ SlotKept /\ [Next]_vars => [Turn!TurnNext]_(Turn!turnVars)
    BY StepNext, TurnStep
<1> QED BY <1>1, <1>2, SlotHolds, PTL DEF Spec, TurnSlotKept, Turn!TurnSpec

-----------------------------------------------------------------------------
(***************************************************************************)
(* No turn is cut that the user did not cut.                               *)
(***************************************************************************)
\* The pager addresses its current session, and its /vibe carries no prompt.
Orderly == ~Crossing /\ "vibe_rest" \notin PagerOps

\* A turn that the adapter tracks is not overrun, and if it is of this session and
\* uncut it has the slot.
Placed(m) ==
    m.id \in inFlight => /\ m.cut # "overrun"
                         /\ m.sid = session /\ m.cut = "no" => m.id = running.agent

LEMMA PlacedKept ==
    ASSUME Kept, Orderly, InScope, Moves
    PROVE  \A m \in Prompts' : Placed(m)'
<1>1. \A m \in Prompts : Placed(m)
    BY DEF InScope, NeverOverrun, Placed, Prompts
<1>2. \A m, n \in Prompts : m.id = n.id => m = n
    BY SlotFacts DEF Prompts
<1>3. ASSUME NEW e \in Entries, From(e) PROVE e.sid = session
    BY <1>3 DEF From, Orderly, PagerSids, InScope
<1>4. CASE Stays
    BY <1>1, <1>4 DEF Stays, Placed
<1>5. CASE \E e \in Entries, how \in {"sent_now", "overrun"} : Sends(e, how)
    <2>1. PICK e \in Entries, how \in {"sent_now", "overrun"} : Sends(e, how)
        BY <1>5
    <2>2. /\ e.sid = session /\ session' = session /\ running'.agent = e.agent
          /\ inFlight' = inFlight \cup {e.agent}
          /\ Prompts' = Deliver(Prompts, e, how) /\ Prompts \in SUBSET Requests
        BY <1>3, <2>1, SlotFacts DEF Sends
    <2>3. ASSUME NEW n \in Prompts, n.sid = session, n.cut = "no", n.id \in inFlight
          PROVE  how # "overrun"
        <3>1. n.id = running.agent /\ n.id \in AgentIds
            BY <1>1, <2>3, SlotFacts DEF Placed, Prompts
        <3>2. ~Idle
            BY <3>1, SlotFacts
        <3> QED BY <2>1, <3>2 DEF Sends
    <2> SUFFICES ASSUME NEW m \in Deliver(Prompts, e, how) PROVE Placed(m)'
        BY <2>2
    <2>4. Marked(m, Prompts, e, how)
        BY <2>2, DeliverMarks
    <2>5. CASE m.id = e.agent /\ m.op = "prompt" /\ m.sid = e.sid /\ m.cut = "no"
        BY <2>2, <2>5 DEF Placed
    <2>6. ASSUME NEW n \in Prompts, m.id = n.id, m.op = n.op, m.sid = n.sid,
                 m.sid # e.sid => m.cut = n.cut,
                 m.op = "prompt" /\ m.sid = e.sid => m.cut # "no",
                 m.cut = n.cut \/ (n.cut = "no" /\ n.op = "prompt"
                                     /\ n.sid = e.sid /\ m.cut = how)
          PROVE  Placed(m)'
        <3> SUFFICES ASSUME m.id \in inFlight'
                     PROVE  m.cut # "overrun" /\ ~(m.sid = session /\ m.cut = "no")
            BY <2>2 DEF Placed
        <3>1. n.id \in inFlight /\ n.op = "prompt"
            BY <2>1, <2>2, <2>6 DEF Sends, Prompts
        <3>2. n.cut # "overrun"
            BY <1>1, <3>1 DEF Placed
        <3> QED BY <2>2, <2>3, <2>6, <3>1, <3>2
    <2> QED BY <2>4, <2>5, <2>6 DEF Marked
<1>6. CASE \E m \in Prompts : Settles(m) \/ Late(m)
    <2>1. PICK m \in Prompts : Settles(m) \/ Late(m)
        BY <1>6
    <2>2. Prompts' = Prompts \ {m} /\ session' = session /\ inFlight' \subseteq inFlight
        BY <2>1 DEF Settles, Late
    <2>3. running' = running \/ running.agent = m.id
        BY <2>1 DEF Settles, Late
    <2> SUFFICES ASSUME NEW n \in Prompts, n # m PROVE Placed(n)'
        BY <2>2
    <2>4. n.id # m.id /\ Placed(n)
        BY <1>1, <1>2
    <2> QED BY <2>2, <2>3, <2>4 DEF Placed
<1>7. CASE Leaves
    BY <1>7 DEF Leaves, Placed
<1> QED BY <1>4, <1>5, <1>6, <1>7 DEF Moves

LEMMA ScopeStep ==
    ASSUME Kept, Orderly, InScope, Step
    PROVE  InScope'
<1>1. \A m \in Prompts' : Placed(m)'
    BY PlacedKept DEF Step
<1>2. \A m \in omp' : m.op = "prompt" => m \in Prompts'
    BY DEF Prompts
<1>3. \A m \in omp' : /\ m.op = "prompt" /\ m.sid = session' /\ m.cut = "no" /\ m.id \in inFlight'
                       => m.id = running'.agent
    BY <1>1, <1>2 DEF Placed
<1>4. NeverOverrun'
    BY <1>1, <1>2 DEF NeverOverrun, Placed, Step, RecordsMatch
<1>5. \A i \in DOMAIN held' : held'[i].sid = session'
    BY DEF Step, Queues, From, Orderly, PagerSids, InScope
<1>6. \A a \in DOMAIN internal' : internal'[a].follow = <<>>
    BY DEF Step, Follows, Orderly, InScope
<1> QED BY <1>3, <1>4, <1>5, <1>6 DEF InScope

\* For a pager that addresses its current session only and whose /vibe carries
\* no prompt, no prompt of the adapter cuts a turn it tracks except a send-now.
THEOREM NoTurnOverrun == Orderly => (Spec => []NeverOverrun)
<1> SUFFICES ASSUME Orderly PROVE Spec => []NeverOverrun
    OBVIOUS
<1>1. Init => InScope
    BY DEF Init, InScope, NeverOverrun
<1>2. Kept /\ SlotKept /\ InScope /\ [Next]_vars => InScope'
    BY StepNext, ScopeStep
<1>3. InScope => NeverOverrun
    BY DEF InScope
<1> QED BY <1>1, <1>2, <1>3, SlotHolds, PTL DEF Spec
=============================================================================
