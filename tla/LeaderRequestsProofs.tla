------------------------ MODULE LeaderRequestsProofs ------------------------
(***************************************************************************)
(* For any number of clients, models and requests: agent_busy is exact, a  *)
(* relaunch spares what was in flight, and a client's default model is its *)
(* newest choice that was not refused.                                     *)
(*                                                                         *)
(* The first lemmas are about ModelSwitchTracker alone; then one step per  *)
(* action shows that IInv is inductive.                                    *)
(***************************************************************************)
EXTENDS LeaderRequests, FiniteSetTheorems, SequenceTheorems, TLAPS

-----------------------------------------------------------------------------
(***************************************************************************)
(* The strengthening that makes the properties inductive.                  *)
(***************************************************************************)
\* What a client's tracker, default model and history of choices have to do
\* with one another.  The last part says that a newest one exists among any
\* of the switches outstanding.
Kept(t, m, history) ==
    /\ m = DefaultModel(t)
    /\ [seq |-> t.confirmedSeq, model |-> t.confirmed, fate |-> "taken"] \in history
    /\ \A h, g \in history : h.seq = g.seq => h = g
    /\ \A h \in history : h.seq <= t.nextSeq
    /\ \A h \in history : h.fate = "taken" => h.seq <= t.confirmedSeq
    /\ \A h \in history : h.fate = "open" => \E o \in t.outstanding : o.seq = h.seq
    /\ \A o \in t.outstanding : [seq |-> o.seq, model |-> o.model, fate |-> "open"] \in history
    /\ \A o, p \in t.outstanding : o.seq = p.seq => o = p
    /\ \A S \in SUBSET t.outstanding :
          S # {} => \E o \in S : \A p \in S : p.seq <= o.seq

ChoicesKept ==
    \A c \in Clients :
        /\ known[c] \in {"no", "in"} => track[c] = NewTracker /\ choices[c] = {}
        /\ known[c] = "reg" => choices[c] # {}
        /\ choices[c] # {} => Kept(track[c], model[c], choices[c])

\* Request ids are not reused.
Issued ==
    /\ IsFiniteSet(atAgent)
    /\ \A r \in InFlight \union owed : r[2] <= asked[r[1]]

IInv == TypeOK /\ ChoicesKept /\ Issued /\ BusyExact /\ RelaunchSpares

-----------------------------------------------------------------------------
(***************************************************************************)
(* The tracker.                                                            *)
(***************************************************************************)
HasNewest(t) ==
    \A S \in SUBSET t.outstanding :
        S # {} => \E o \in S : \A p \in S : p.seq <= o.seq

\* The model default_model names is one a client may have: the newest switch
\* that is outstanding, or the model confirmed last.
LEMMA DefaultModelType ==
    ASSUME NEW t \in Tracker, HasNewest(t)
    PROVE  DefaultModel(t) \in MaybeModel
<1>1. CASE Later(t) = {}
    BY <1>1 DEF DefaultModel, Tracker
<1>2. CASE Later(t) # {}
    <2>1. Later(t) \subseteq t.outstanding /\ t.outstanding \subseteq Switch
        BY DEF Later, Tracker
    <2>2. \E o \in Later(t) : \A p \in Later(t) : p.seq <= o.seq
        BY <1>2, <2>1 DEF HasNewest
    <2>3. (CHOOSE o \in Later(t) : \A p \in Later(t) : p.seq <= o.seq) \in Later(t)
        BY <2>2
    <2> QED BY <1>2, <2>1, <2>3 DEF DefaultModel, Switch, MaybeModel
<1> QED BY <1>1, <1>2

\* A tracker with another counter and other switches is a tracker.
LEMMA TrackerUpdate ==
    ASSUME NEW t \in Tracker, NEW a \in Nat, NEW b \in SUBSET Switch
    PROVE  [t EXCEPT !.nextSeq = a, !.outstanding = b] \in Tracker
BY DEF Tracker

\* What seed_confirmed changes in a tracker.
LEMMA SeedFields ==
    ASSUME NEW t \in Tracker, NEW seed \in MaybeModel
    PROVE  LET t2 == SeedConfirmed(t, seed)
           IN  /\ t2 \in Tracker /\ t2.confirmed = seed /\ t2.confirmedSeq = 0
               /\ t2.nextSeq = t.nextSeq /\ t2.outstanding = t.outstanding
BY DEF SeedConfirmed, Tracker

\* record_forward keeps what the tracker, the default model and the choices
\* have to do with one another: the new switch is newer than all others.
LEMMA KeptByForward ==
    ASSUME NEW t \in Tracker, NEW history \in SUBSET Choice, NEW d,
           Kept(t, d, history), NEW n \in Nat, NEW m \in Models
    PROVE  LET t2 == RecordForward(t, n, m)
               h2 == history \union {[seq |-> t.nextSeq + 1, model |-> m, fate |-> "open"]}
           IN  /\ t2 \in Tracker /\ h2 \in SUBSET Choice
               /\ HasNewest(t2) /\ Kept(t2, DefaultModel(t2), h2)
<1> DEFINE o2 == [req |-> n, seq |-> t.nextSeq + 1, model |-> m]
           t2 == RecordForward(t, n, m)
           g2 == [seq |-> t.nextSeq + 1, model |-> m, fate |-> "open"]
           h2 == history \union {g2}
<1>1. /\ t2.confirmed = t.confirmed /\ t2.confirmedSeq = t.confirmedSeq
      /\ t2.nextSeq = t.nextSeq + 1 /\ t2.outstanding = t.outstanding \union {o2}
    BY DEF RecordForward, Tracker
<1>2. o2 \in Switch /\ g2 \in Choice /\ t.nextSeq \in Nat
    BY DEF Tracker, Switch, Choice, MaybeModel
<1>3. t2 \in Tracker
    <2>1. t.nextSeq + 1 \in Nat /\ t.outstanding \union {o2} \in SUBSET Switch
        BY <1>2 DEF Tracker
    <2>2. t2 = [t EXCEPT !.nextSeq = t.nextSeq + 1,
                         !.outstanding = t.outstanding \union {o2}]
        BY DEF RecordForward
    <2> HIDE DEF o2, t2
    <2> QED BY <2>1, <2>2, TrackerUpdate
<1>4. h2 \in SUBSET Choice
    BY <1>2
<1>5. \A h \in history : h.seq <= t.nextSeq /\ h.seq \in Nat
    BY DEF Kept, Choice
<1>6. \A o \in t.outstanding : o.seq <= t.nextSeq /\ o.seq \in Nat
    <2> SUFFICES ASSUME NEW o \in t.outstanding PROVE o.seq <= t.nextSeq /\ o.seq \in Nat
        OBVIOUS
    <2>1. [seq |-> o.seq, model |-> o.model, fate |-> "open"] \in history
        BY DEF Kept
    <2> QED BY <2>1, <1>5
<1>7. HasNewest(t2)
    <2> SUFFICES ASSUME NEW S \in SUBSET t2.outstanding, S # {}
                 PROVE  \E o \in S : \A p \in S : p.seq <= o.seq
        BY DEF HasNewest
    <2>1. CASE o2 \in S
        <3>1. \A p \in S : p.seq <= o2.seq
            <4> SUFFICES ASSUME NEW p \in S PROVE p.seq <= o2.seq
                OBVIOUS
            <4>1. CASE p = o2
                BY <4>1, <1>2
            <4>2. CASE p \in t.outstanding
                BY <4>2, <1>6, <1>2
            <4> QED BY <4>1, <4>2, <1>1
        <3> QED BY <2>1, <3>1
    <2>2. CASE o2 \notin S
        <3>1. S \in SUBSET t.outstanding
            BY <2>2, <1>1
        <3> QED BY <3>1 DEF Kept
    <2> QED BY <2>1, <2>2
<1>8. Kept(t2, DefaultModel(t2), h2)
    <2>1. [seq |-> t2.confirmedSeq, model |-> t2.confirmed, fate |-> "taken"] \in h2
        BY <1>1 DEF Kept
    <2>2. \A h, g \in h2 : h.seq = g.seq => h = g
        <3>1. \A h \in history : h.seq # g2.seq
            BY <1>5, <1>2
        <3> QED BY <3>1 DEF Kept
    <2>3. \A h \in h2 : h.seq <= t2.nextSeq
        BY <1>1, <1>2, <1>5
    <2>4. \A h \in h2 : h.fate = "taken" => h.seq <= t2.confirmedSeq
        BY <1>1 DEF Kept
    <2>5. \A h \in h2 : h.fate = "open" => \E o \in t2.outstanding : o.seq = h.seq
        <3> SUFFICES ASSUME NEW h \in h2, h.fate = "open"
                     PROVE  \E o \in t2.outstanding : o.seq = h.seq
            OBVIOUS
        <3>1. CASE h \in history
            BY <3>1, <1>1 DEF Kept
        <3>2. CASE h = g2
            <4>1. o2 \in t2.outstanding /\ o2.seq = h.seq
                BY <3>2, <1>1
            <4> QED BY <4>1
        <3> QED BY <3>1, <3>2
    <2>6. \A o \in t2.outstanding : [seq |-> o.seq, model |-> o.model, fate |-> "open"] \in h2
        <3> SUFFICES ASSUME NEW o \in t2.outstanding
                     PROVE  [seq |-> o.seq, model |-> o.model, fate |-> "open"] \in h2
            OBVIOUS
        <3>1. CASE o \in t.outstanding
            BY <3>1 DEF Kept
        <3>2. CASE o = o2
            BY <3>2
        <3> QED BY <3>1, <3>2, <1>1
    <2>7. \A o, p \in t2.outstanding : o.seq = p.seq => o = p
        <3>1. \A o \in t.outstanding : o.seq # o2.seq
            BY <1>6, <1>2
        <3> QED BY <3>1, <1>1 DEF Kept
    <2> QED BY <2>1, <2>2, <2>3, <2>4, <2>5, <2>6, <2>7, <1>7 DEF Kept, HasNewest
<1> QED BY <1>3, <1>4, <1>7, <1>8

\* What resolve changes in the tracker.
LEMMA ResolveFields ==
    ASSUME NEW t \in Tracker, NEW o \in t.outstanding, NEW ok \in BOOLEAN
    PROVE  LET t2 == Resolve(t, o, ok)
               wins == ok /\ o.seq > t.confirmedSeq
           IN  /\ t2 \in Tracker
               /\ t2.outstanding = t.outstanding \ {o}
               /\ t2.nextSeq = t.nextSeq
               /\ wins => t2.confirmed = o.model /\ t2.confirmedSeq = o.seq
               /\ ~wins => t2.confirmed = t.confirmed /\ t2.confirmedSeq = t.confirmedSeq
<1>1. o \in Switch /\ o.seq \in Nat /\ o.model \in MaybeModel
    BY DEF Tracker, Switch, MaybeModel
<1>2. CASE ok /\ o.seq > t.confirmedSeq
    BY <1>1, <1>2 DEF Resolve, Tracker
<1>3. CASE ~(ok /\ o.seq > t.confirmedSeq)
    BY <1>1, <1>3 DEF Resolve, Tracker
<1> QED BY <1>2, <1>3

\* So does resolve, whatever the order of the answers.
LEMMA KeptByResolve ==
    ASSUME NEW t \in Tracker, NEW history \in SUBSET Choice, NEW d,
           Kept(t, d, history), NEW o \in t.outstanding, NEW ok \in BOOLEAN
    PROVE  LET t2 == Resolve(t, o, ok)
               h2 == {Fate(h, o, ok) : h \in history}
           IN  /\ t2 \in Tracker /\ h2 \in SUBSET Choice
               /\ HasNewest(t2) /\ Kept(t2, DefaultModel(t2), h2)
<1> DEFINE t2 == Resolve(t, o, ok)
           F(h) == Fate(h, o, ok)
           h2 == {F(h) : h \in history}
           open == [seq |-> o.seq, model |-> o.model, fate |-> "open"]
           taken == [seq |-> t.confirmedSeq, model |-> t.confirmed, fate |-> "taken"]
           wins == ok /\ o.seq > t.confirmedSeq
<1>1. /\ t2 \in Tracker /\ t2.outstanding = t.outstanding \ {o} /\ t2.nextSeq = t.nextSeq
      /\ wins => t2.confirmed = o.model /\ t2.confirmedSeq = o.seq
      /\ ~wins => t2.confirmed = t.confirmed /\ t2.confirmedSeq = t.confirmedSeq
    BY ResolveFields
<1>2. o \in Switch /\ o.seq \in Nat /\ t.confirmedSeq \in Nat /\ t.nextSeq \in Nat
    BY DEF Tracker, Switch
<1>3. \A h \in history : /\ h \in Choice /\ h.seq \in Nat /\ F(h) \in Choice
                         /\ F(h).seq = h.seq /\ F(h).model = h.model
                         /\ h.seq # o.seq => F(h) = h
                         /\ h.seq = o.seq => F(h).fate = (IF ok THEN "taken" ELSE "refused")
    BY DEF Fate, Choice
<1>4. h2 \in SUBSET Choice
    BY <1>3
<1>5. open \in history /\ taken \in history
    BY DEF Kept
<1>6. t.confirmedSeq # o.seq
    <2>1. open.seq = o.seq /\ taken.seq = t.confirmedSeq /\ open.fate # taken.fate
        OBVIOUS
    <2> QED BY <1>5, <2>1 DEF Kept
<1>7. HasNewest(t2)
    <2> SUFFICES ASSUME NEW S \in SUBSET t2.outstanding, S # {}
                 PROVE  \E p \in S : \A q \in S : q.seq <= p.seq
        BY DEF HasNewest
    <2>1. S \in SUBSET t.outstanding
        BY <1>1
    <2> QED BY <2>1 DEF Kept
<1>8. [seq |-> t2.confirmedSeq, model |-> t2.confirmed, fate |-> "taken"] \in h2
    <2>1. CASE wins
        <3>1. F(open) = [seq |-> o.seq, model |-> o.model, fate |-> "taken"]
            BY <2>1 DEF Fate
        <3> QED BY <3>1, <2>1, <1>1, <1>5
    <2>2. CASE ~wins
        <3>1. F(taken) = taken
            BY <1>3, <1>5, <1>6
        <3>2. taken \in h2
            BY <3>1, <1>5
        <3> QED BY <3>2, <2>2, <1>1
    <2> QED BY <2>1, <2>2
<1>9. \A h, g \in h2 : h.seq = g.seq => h = g
    <2> SUFFICES ASSUME NEW h \in history, NEW g \in history, F(h).seq = F(g).seq
                 PROVE  F(h) = F(g)
        OBVIOUS
    <2>1. h.seq = g.seq
        BY <1>3
    <2> QED BY <2>1 DEF Kept
<1>10. \A h \in h2 : h.seq <= t2.nextSeq
    <2> SUFFICES ASSUME NEW h \in history PROVE F(h).seq <= t2.nextSeq
        OBVIOUS
    <2> QED BY <1>1, <1>3 DEF Kept
<1>11. \A h \in h2 : h.fate = "taken" => h.seq <= t2.confirmedSeq
    <2> SUFFICES ASSUME NEW h \in history, F(h).fate = "taken"
                 PROVE  F(h).seq <= t2.confirmedSeq
        OBVIOUS
    <2>1. CASE h.seq = o.seq
        <3>1. ok /\ F(h).seq = o.seq
            BY <2>1, <1>3
        <3>2. CASE wins
            <4>1. t2.confirmedSeq = o.seq
                BY <3>2, <1>1
            <4> HIDE DEF t2, F
            <4>2. o.seq <= t2.confirmedSeq
                BY <4>1, <1>2
            <4> QED BY <3>1, <4>2
        <3>3. CASE ~wins
            <4>1. ~(o.seq > t.confirmedSeq)
                BY <3>1, <3>3
            <4>2. t2.confirmedSeq = t.confirmedSeq
                BY <3>3, <1>1
            <4> HIDE DEF t2, F
            <4>3. o.seq <= t2.confirmedSeq
                BY <4>1, <4>2, <1>2
            <4> QED BY <3>1, <4>3
        <3> QED BY <3>2, <3>3
    <2>2. CASE h.seq # o.seq
        <3>1. h.seq <= t.confirmedSeq
            BY <2>2, <1>3 DEF Kept
        <3> QED BY <3>1, <1>1, <1>2, <1>3
    <2> QED BY <2>1, <2>2
<1>12. \A h \in h2 : h.fate = "open" => \E p \in t2.outstanding : p.seq = h.seq
    <2> SUFFICES ASSUME NEW h \in history, F(h).fate = "open"
                 PROVE  \E p \in t2.outstanding : p.seq = F(h).seq
        OBVIOUS
    <2>1. h.seq # o.seq /\ F(h) = h
        BY <1>3
    <2>2. PICK p \in t.outstanding : p.seq = h.seq
        BY <2>1 DEF Kept
    <2> QED BY <2>1, <2>2, <1>1
<1>13. \A p \in t2.outstanding : [seq |-> p.seq, model |-> p.model, fate |-> "open"] \in h2
    <2> SUFFICES ASSUME NEW p \in t2.outstanding
                 PROVE  [seq |-> p.seq, model |-> p.model, fate |-> "open"] \in h2
        OBVIOUS
    <2> DEFINE e == [seq |-> p.seq, model |-> p.model, fate |-> "open"]
    <2>1. p \in t.outstanding /\ p # o
        BY <1>1
    <2>2. p.seq # o.seq
        BY <2>1 DEF Kept
    <2>3. e \in history
        BY <2>1 DEF Kept
    <2>4. F(e) = e
        BY <1>3, <2>2, <2>3
    <2> QED BY <2>3, <2>4
<1>14. \A p, q \in t2.outstanding : p.seq = q.seq => p = q
    BY <1>1 DEF Kept
<1>15. Kept(t2, DefaultModel(t2), h2)
    BY <1>7, <1>8, <1>9, <1>10, <1>11, <1>12, <1>13, <1>14 DEF Kept, HasNewest
<1> QED BY <1>1, <1>4, <1>7, <1>15

-----------------------------------------------------------------------------
(***************************************************************************)
(* The requests in flight.                                                 *)
(***************************************************************************)
Answers == [req : Request, ok : BOOLEAN]

\* What the loop takes off response_rx was in flight.
LEMMA InFlightTail ==
    ASSUME NEW q \in Seq(Answers), q # <<>>
    PROVE  /\ Tail(q) \in Seq(Answers) /\ Len(Tail(q)) = Len(q) - 1
           /\ Head(q) \in Answers
           /\ {Tail(q)[i].req : i \in DOMAIN Tail(q)} \subseteq {q[i].req : i \in DOMAIN q}
<1>1. /\ Len(q) \in Nat /\ Len(q) > 0 /\ DOMAIN q = 1..Len(q)
      /\ Tail(q) \in Seq(Answers) /\ Head(q) \in Answers /\ Len(Tail(q)) = Len(q) - 1
    BY HeadTailProperties, EmptySeq, LenProperties
<1>2. \A i \in DOMAIN Tail(q) : i + 1 \in DOMAIN q /\ Tail(q)[i] = q[i + 1]
    BY <1>1, HeadTailProperties, LenProperties
<1>3. {Tail(q)[i].req : i \in DOMAIN Tail(q)} \subseteq {q[i].req : i \in DOMAIN q}
    BY <1>2
<1> QED BY <1>1, <1>3

\* An answer of the agent moves a request from the agent to response_rx.
LEMMA InFlightAppend ==
    ASSUME NEW q \in Seq(Answers), NEW a \in Answers
    PROVE  /\ Append(q, a) \in Seq(Answers) /\ Len(Append(q, a)) = Len(q) + 1
           /\ {Append(q, a)[i].req : i \in DOMAIN Append(q, a)}
                \subseteq {q[i].req : i \in DOMAIN q} \union {a.req}
<1>1. /\ Append(q, a) \in Seq(Answers) /\ Len(Append(q, a)) = Len(q) + 1
      /\ Len(q) \in Nat /\ DOMAIN q = 1..Len(q) /\ DOMAIN Append(q, a) = 1..(Len(q) + 1)
      /\ \A i \in 1..Len(q) : Append(q, a)[i] = q[i]
      /\ Append(q, a)[Len(q) + 1] = a
    BY AppendProperties, LenProperties
<1>2. \A i \in DOMAIN Append(q, a) :
         (i \in DOMAIN q /\ Append(q, a)[i] = q[i]) \/ Append(q, a)[i] = a
    BY <1>1
<1> QED BY <1>1, <1>2

\* Requests are in flight, and nothing else.
LEMMA InFlightType ==
    ASSUME TypeOK
    PROVE  InFlight \subseteq Request
<1>1. \A i \in DOMAIN respq : respq[i] \in Answers
    <2>1. respq \in Seq(Answers)
        BY DEF TypeOK, Answers
    <2> QED BY <2>1, LenProperties, ElementOfSeq
<1>2. \A i \in DOMAIN respq : respq[i].req \in Request
    BY <1>1 DEF Answers
<1> QED BY <1>2 DEF TypeOK, InFlight

\* Nothing is in flight when nothing is counted.
LEMMA NothingCounted ==
    ASSUME TypeOK, Issued, pending = Cardinality(atAgent) + Len(respq), pending = 0
    PROVE  InFlight = {}
<1>1. Cardinality(atAgent) \in Nat /\ (Cardinality(atAgent) = 0 <=> atAgent = {})
    BY FS_CardinalityType, FS_EmptySet DEF Issued
<1>2. Len(respq) \in Nat /\ DOMAIN respq = 1..Len(respq)
    BY LenProperties DEF TypeOK
<1>3. Cardinality(atAgent) = 0 /\ Len(respq) = 0
    BY <1>1, <1>2
<1>4. DOMAIN respq = {}
    BY <1>2, <1>3
<1> QED BY <1>1, <1>3, <1>4 DEF InFlight

-----------------------------------------------------------------------------
(***************************************************************************)
(* The inductive invariant.                                                *)
(***************************************************************************)
\* An idle loop with no clients satisfies the invariant.
LEMMA InitIInv == Init => IInv
<1> SUFFICES ASSUME Init PROVE IInv
    OBVIOUS
<1>1. NewTracker \in Tracker /\ NoModel \in MaybeModel
    BY DEF NewTracker, Tracker, MaybeModel
<1>2. <<>> \in Seq([req : Request, ok : BOOLEAN]) /\ Len(<<>>) = 0 /\ DOMAIN <<>> = {}
    BY EmptySeq
<1>3. TypeOK
    BY <1>1, <1>2 DEF Init, TypeOK
<1>4. ChoicesKept
    BY DEF Init, ChoicesKept
<1>5. InFlight = {} /\ owed = {}
    BY <1>2 DEF Init, InFlight
<1>6. Issued /\ BusyExact
    BY <1>2, <1>5, FS_EmptySet DEF Init, Issued, BusyExact
<1>7. RelaunchSpares
    BY DEF Init, RelaunchSpares
<1> QED BY <1>3, <1>4, <1>6, <1>7 DEF IInv

\* A step that touches neither the clients' state nor their choices keeps
\* what these have to do with one another.
LEMMA ChoicesUntouched ==
    ASSUME ChoicesKept, UNCHANGED <<known, modelVars>>
    PROVE  ChoicesKept'
BY DEF ChoicesKept, modelVars

\* A connection that comes or goes is not in the way of any answer.
LEMMA ConnectionStep ==
    ASSUME IInv, NEW c \in Clients, Accept(c) \/ Disconnected(c)
    PROVE  IInv'
<1> USE DEF modelVars, drainVars
<1>0. UNCHANGED <<asked, track, model, choices, pending, busy, atAgent, respq,
                  drain, graced, owed>>
    BY DEF Accept, Disconnected
<1>1. known' \in [Clients -> {"no", "in", "reg", "out"}]
    BY DEF Accept, Disconnected, IInv, TypeOK
<1>2. TypeOK'
    BY <1>0, <1>1 DEF IInv, TypeOK
<1>3. ChoicesKept'
    <2> SUFFICES ASSUME NEW e \in Clients
                 PROVE  /\ known'[e] \in {"no", "in"} => track[e] = NewTracker /\ choices[e] = {}
                        /\ known'[e] = "reg" => choices[e] # {}
                        /\ choices[e] # {} => Kept(track[e], model[e], choices[e])
        BY <1>0 DEF ChoicesKept
    <2>1. CASE known'[e] = known[e]
        BY <2>1 DEF IInv, ChoicesKept
    <2>2. CASE known[e] = "no" /\ known'[e] = "in"
        BY <2>2 DEF IInv, ChoicesKept
    <2>3. CASE known'[e] = "out"
        BY <2>3 DEF IInv, ChoicesKept
    <2> QED BY <2>1, <2>2, <2>3 DEF Accept, Disconnected, IInv, TypeOK
<1>4. InFlight' = InFlight
    BY <1>0 DEF InFlight
<1>5. Issued' /\ BusyExact' /\ RelaunchSpares'
    BY <1>0, <1>4 DEF IInv, Issued, BusyExact, RelaunchSpares
<1> QED BY <1>2, <1>3, <1>5 DEF IInv

\* The model a client registers with is its first choice.
LEMMA RegisteredStep ==
    ASSUME IInv, NEW c \in Clients, NEW seed \in MaybeModel, Registered(c, seed)
    PROVE  IInv'
<1> USE DEF drainVars
<1> DEFINE first == [seq |-> 0, model |-> seed, fate |-> "taken"]
           t2 == SeedConfirmed(track[c], seed)
<1>0. /\ UNCHANGED <<asked, pending, busy, atAgent, respq, drain, graced, owed>>
      /\ known[c] = "in" /\ known' = [known EXCEPT ![c] = "reg"]
      /\ track' = [track EXCEPT ![c] = t2] /\ model' = [model EXCEPT ![c] = seed]
      /\ choices' = [choices EXCEPT ![c] = {first}]
    BY DEF Registered
<1>1. track[c] = NewTracker /\ NewTracker \in Tracker
    BY <1>0 DEF IInv, ChoicesKept, TypeOK
<1>2. /\ t2 \in Tracker /\ t2.confirmed = seed /\ t2.confirmedSeq = 0
      /\ t2.nextSeq = 0 /\ t2.outstanding = {}
    <2>1. /\ t2 \in Tracker /\ t2.confirmed = seed /\ t2.confirmedSeq = 0
          /\ t2.nextSeq = track[c].nextSeq /\ t2.outstanding = track[c].outstanding
        BY <1>1, SeedFields
    <2>2. track[c].nextSeq = 0 /\ track[c].outstanding = {}
        BY <1>1 DEF NewTracker
    <2> QED BY <2>1, <2>2
<1> HIDE DEF t2
<1>a. first \in Choice
    BY DEF Choice
<1>3. TypeOK'
    BY <1>0, <1>2, <1>a DEF IInv, TypeOK
<1>4. Kept(t2, seed, {first})
    <2>1. DefaultModel(t2) = seed
        BY <1>2 DEF DefaultModel, Later
    <2> QED BY <1>2, <2>1 DEF Kept
<1>5. ChoicesKept'
    <2> SUFFICES ASSUME NEW e \in Clients
                 PROVE  /\ known'[e] \in {"no", "in"} => track'[e] = NewTracker /\ choices'[e] = {}
                        /\ known'[e] = "reg" => choices'[e] # {}
                        /\ choices'[e] # {} => Kept(track'[e], model'[e], choices'[e])
        BY DEF ChoicesKept
    <2>1. CASE e = c
        <3>1. /\ known'[e] = "reg" /\ track'[e] = t2 /\ model'[e] = seed
              /\ choices'[e] = {first}
            BY <2>1, <1>0 DEF IInv, TypeOK
        <3> QED BY <3>1, <1>4
    <2>2. CASE e # c
        <3>1. /\ known'[e] = known[e] /\ track'[e] = track[e] /\ model'[e] = model[e]
              /\ choices'[e] = choices[e]
            BY <2>2, <1>0 DEF IInv, TypeOK
        <3> QED BY <3>1 DEF IInv, ChoicesKept
    <2> QED BY <2>1, <2>2
<1>6. InFlight' = InFlight
    BY <1>0 DEF InFlight
<1>7. Issued' /\ BusyExact' /\ RelaunchSpares'
    BY <1>0, <1>6 DEF IInv, Issued, BusyExact, RelaunchSpares
<1> QED BY <1>3, <1>5, <1>7 DEF IInv

\* A request that is forwarded has an id that was not in flight before.
LEMMA ForwardStep ==
    ASSUME IInv, NEW c \in Clients, NEW m \in MaybeModel, Forward(c, m)
    PROVE  IInv'
<1> USE DEF drainVars
<1> DEFINE n == asked[c] + 1
           r == <<c, n>>
           t2 == RecordForward(track[c], n, m)
           h2 == choices[c] \union {[seq |-> track[c].nextSeq + 1, model |-> m, fate |-> "open"]}
<1>0. /\ UNCHANGED <<known, respq, drain, graced, owed>>
      /\ drain # "down" /\ known[c] = "reg"
      /\ asked' = [asked EXCEPT ![c] = n] /\ pending' = pending + 1 /\ busy' = TRUE
      /\ atAgent' = atAgent \union {r}
    BY DEF Forward
<1>1. n \in Nat /\ r \in Request /\ asked' \in [Clients -> Nat]
    BY <1>0 DEF IInv, TypeOK, Request
<1>2. track[c] \in Tracker /\ choices[c] \in SUBSET Choice /\ choices[c] # {}
      /\ Kept(track[c], model[c], choices[c])
    BY <1>0 DEF IInv, TypeOK, ChoicesKept
<1>3. /\ ChoicesKept' /\ track' \in [Clients -> Tracker]
      /\ model' \in [Clients -> MaybeModel] /\ choices' \in [Clients -> SUBSET Choice]
    <2>1. CASE UNCHANGED modelVars
        BY <2>1, <1>0, ChoicesUntouched DEF IInv, TypeOK, modelVars
    <2>2. CASE /\ m # NoModel /\ track' = [track EXCEPT ![c] = t2]
               /\ model' = [model EXCEPT ![c] = DefaultModel(t2)]
               /\ choices' = [choices EXCEPT ![c] = h2]
        <3>1. m \in Models
            BY <2>2 DEF MaybeModel
        <3>2. /\ t2 \in Tracker /\ h2 \in SUBSET Choice
              /\ HasNewest(t2) /\ Kept(t2, DefaultModel(t2), h2)
            BY <3>1, <1>1, <1>2, KeptByForward
        <3>3. DefaultModel(t2) \in MaybeModel
            BY <3>2, DefaultModelType
        <3> HIDE DEF t2, h2, n
        <3>4. h2 # {}
            BY DEF h2
        <3>5. ASSUME NEW e \in Clients
              PROVE  /\ known'[e] \in {"no", "in"} => track'[e] = NewTracker /\ choices'[e] = {}
                     /\ known'[e] = "reg" => choices'[e] # {}
                     /\ choices'[e] # {} => Kept(track'[e], model'[e], choices'[e])
            <4>1. CASE e = c
                <5>1. /\ track'[e] = t2 /\ model'[e] = DefaultModel(t2)
                      /\ choices'[e] = h2 /\ known'[e] = "reg"
                    BY <4>1, <2>2, <1>0 DEF IInv, TypeOK
                <5> QED BY <5>1, <3>2, <3>4
            <4>2. CASE e # c
                <5>1. /\ known'[e] = known[e] /\ track'[e] = track[e]
                      /\ model'[e] = model[e] /\ choices'[e] = choices[e]
                    BY <4>2, <2>2, <1>0 DEF IInv, TypeOK
                <5> QED BY <5>1 DEF IInv, ChoicesKept
            <4> QED BY <4>1, <4>2
        <3>6. ChoicesKept'
            BY <3>5 DEF ChoicesKept
        <3> QED BY <2>2, <3>2, <3>3, <3>6 DEF IInv, TypeOK
    <2> QED BY <2>1, <2>2 DEF Forward, Chosen
<1>4. TypeOK'
    <2>1. /\ known' \in [Clients -> {"no", "in", "reg", "out"}]
          /\ pending' \in Nat /\ busy' \in BOOLEAN
          /\ respq' \in Seq([req : Request, ok : BOOLEAN])
          /\ drain' \in {"off", "wait", "flush", "down"} /\ graced' \in BOOLEAN
          /\ owed' \in SUBSET Request
        BY <1>0 DEF IInv, TypeOK
    <2>2. atAgent' \in SUBSET Request
        BY <1>0, <1>1 DEF IInv, TypeOK
    <2> HIDE DEF r, n
    <2> QED BY <2>1, <2>2, <1>1, <1>3 DEF TypeOK
<1>5. r \notin InFlight /\ r \notin owed
    BY <1>1 DEF IInv, Issued, TypeOK
<1>6. InFlight' = InFlight \union {r}
    BY <1>0 DEF InFlight
<1>7. Issued'
    <2>1. IsFiniteSet(atAgent')
        BY <1>0, FS_AddElement DEF IInv, Issued
    <2>2. ASSUME NEW q \in InFlight \union owed
          PROVE  q[2] <= asked'[q[1]]
        <3>1. q \in Request /\ q[2] <= asked[q[1]]
            <4>1. q \in Request
                BY <2>2, InFlightType DEF IInv, TypeOK
            <4> QED BY <4>1 DEF IInv, Issued
        <3>2. q[1] \in Clients /\ q[2] \in Nat
            BY <3>1 DEF Request
        <3>3. asked'[q[1]] \in Nat /\ asked[q[1]] \in Nat /\ asked[q[1]] <= asked'[q[1]]
            BY <3>2, <1>0, <1>1 DEF IInv, TypeOK
        <3> QED BY <3>1, <3>2, <3>3
    <2>3. r[2] <= asked'[r[1]]
        BY <1>0, <1>1 DEF IInv, TypeOK
    <2> QED BY <2>1, <2>2, <2>3, <1>0, <1>6 DEF Issued
<1>8. BusyExact'
    <2>1. Cardinality(atAgent') = Cardinality(atAgent) + 1 /\ Cardinality(atAgent) \in Nat
        BY <1>0, <1>5, FS_AddElement, FS_CardinalityType DEF IInv, Issued, InFlight
    <2>2. Len(respq) \in Nat /\ pending = Cardinality(atAgent) + Len(respq)
        BY <1>0, LenProperties DEF IInv, TypeOK, BusyExact
    <2> QED BY <1>0, <2>1, <2>2 DEF BusyExact
<1>9. RelaunchSpares'
    BY <1>0, <1>5, <1>6 DEF IInv, RelaunchSpares
<1> QED BY <1>3, <1>4, <1>7, <1>8, <1>9 DEF IInv

\* An answer of the agent stays in flight until the loop takes it.
LEMMA AnswerStep ==
    ASSUME IInv, NEW r \in atAgent, NEW ok \in BOOLEAN, Answer(r, ok)
    PROVE  IInv'
<1> USE DEF drainVars
<1> DEFINE a == [req |-> r, ok |-> ok]
<1>0. /\ UNCHANGED <<asked, known, modelVars, pending, busy, drain, graced, owed>>
      /\ atAgent' = atAgent \ {r} /\ respq' = Append(respq, a)
    BY DEF Answer
<1>1. respq \in Seq(Answers) /\ r \in Request /\ a \in Answers
    BY DEF IInv, TypeOK, Answers
<1>2. /\ respq' \in Seq(Answers) /\ Len(respq') = Len(respq) + 1
      /\ {respq'[i].req : i \in DOMAIN respq'} \subseteq {respq[i].req : i \in DOMAIN respq} \union {r}
    <2>1. a.req = r
        OBVIOUS
    <2> HIDE DEF a
    <2> QED BY <1>0, <1>1, <2>1, InFlightAppend
<1>3. TypeOK'
    BY <1>0, <1>2 DEF IInv, TypeOK, modelVars, Answers
<1>4. ChoicesKept'
    BY <1>0, ChoicesUntouched DEF IInv
<1>5. InFlight' \subseteq InFlight
    BY <1>0, <1>2 DEF InFlight
<1>6. /\ IsFiniteSet(atAgent') /\ Cardinality(atAgent') = Cardinality(atAgent) - 1
      /\ Cardinality(atAgent) \in Nat
    BY <1>0, FS_RemoveElement, FS_CardinalityType DEF IInv, Issued
<1>7. Issued'
    BY <1>0, <1>5, <1>6 DEF IInv, Issued
<1>8. BusyExact'
    <2>1. Len(respq) \in Nat
        BY <1>1, LenProperties
    <2> QED BY <1>0, <1>2, <1>6, <2>1 DEF IInv, BusyExact
<1>9. RelaunchSpares'
    BY <1>0, <1>5 DEF IInv, RelaunchSpares
<1> QED BY <1>3, <1>4, <1>7, <1>8, <1>9 DEF IInv

\* The part of a response that is about the model of a client.
LEMMA ResolveStep ==
    ASSUME IInv, NEW c \in Clients, NEW n \in Nat, NEW ok \in BOOLEAN,
           ResolveSwitch(c, n, ok), known[c] # "out", known' = known
    PROVE  /\ ChoicesKept' /\ track' \in [Clients -> Tracker]
           /\ model' \in [Clients -> MaybeModel] /\ choices' \in [Clients -> SUBSET Choice]
<1>1. CASE UNCHANGED modelVars
    BY <1>1, ChoicesUntouched DEF IInv, TypeOK, modelVars
<1>2. ASSUME NEW o \in Outstanding(track[c], n),
             track' = [track EXCEPT ![c] = Resolve(track[c], o, ok)],
             model' = [model EXCEPT ![c] = DefaultModel(Resolve(track[c], o, ok))],
             choices' = [choices EXCEPT ![c] = {Fate(h, o, ok) : h \in choices[c]}]
      PROVE  /\ ChoicesKept' /\ track' \in [Clients -> Tracker]
             /\ model' \in [Clients -> MaybeModel] /\ choices' \in [Clients -> SUBSET Choice]
    <2> DEFINE t2 == Resolve(track[c], o, ok)
               h2 == {Fate(h, o, ok) : h \in choices[c]}
    <2>1. o \in track[c].outstanding
        BY DEF Outstanding
    <2>2. known[c] = "reg"
        <3>1. CASE known[c] \in {"no", "in"}
            <4>1. track[c] = NewTracker
                BY <3>1 DEF IInv, ChoicesKept
            <4> QED BY <4>1, <2>1 DEF NewTracker
        <3> QED BY <3>1 DEF IInv, TypeOK
    <2>3. /\ track[c] \in Tracker /\ choices[c] \in SUBSET Choice /\ choices[c] # {}
          /\ Kept(track[c], model[c], choices[c])
        BY <2>2 DEF IInv, TypeOK, ChoicesKept
    <2>4. /\ t2 \in Tracker /\ h2 \in SUBSET Choice
          /\ HasNewest(t2) /\ Kept(t2, DefaultModel(t2), h2)
        BY <2>1, <2>3, KeptByResolve
    <2>5. DefaultModel(t2) \in MaybeModel
        BY <2>4, DefaultModelType
    <2>6. h2 # {}
        BY <2>3
    <2> HIDE DEF t2, h2
    <2>7. ASSUME NEW e \in Clients
          PROVE  /\ known'[e] \in {"no", "in"} => track'[e] = NewTracker /\ choices'[e] = {}
                 /\ known'[e] = "reg" => choices'[e] # {}
                 /\ choices'[e] # {} => Kept(track'[e], model'[e], choices'[e])
        <3>1. CASE e = c
            <4>1. /\ track'[e] = t2 /\ model'[e] = DefaultModel(t2)
                  /\ choices'[e] = h2 /\ known'[e] = "reg"
                BY <3>1, <1>2, <2>2 DEF IInv, TypeOK, t2, h2
            <4> QED BY <4>1, <2>4, <2>6
        <3>2. CASE e # c
            <4>1. /\ known'[e] = known[e] /\ track'[e] = track[e]
                  /\ model'[e] = model[e] /\ choices'[e] = choices[e]
                BY <3>2, <1>2 DEF IInv, TypeOK
            <4> QED BY <4>1 DEF IInv, ChoicesKept
        <3> QED BY <3>1, <3>2
    <2>8. ChoicesKept'
        BY <2>7 DEF ChoicesKept
    <2>9. /\ track' = [track EXCEPT ![c] = t2] /\ choices' = [choices EXCEPT ![c] = h2]
          /\ model' = [model EXCEPT ![c] = DefaultModel(t2)]
        BY <1>2 DEF t2, h2
    <2> QED BY <2>4, <2>5, <2>8, <2>9 DEF IInv, TypeOK
<1> QED BY <1>1, <1>2 DEF ResolveSwitch

\* Every answer is counted once, whoever is left to read it.
LEMMA ResponseStep ==
    ASSUME IInv, Response
    PROVE  IInv'
<1> USE DEF drainVars
<1>0. /\ UNCHANGED <<asked, known, atAgent, drain, graced, owed>>
      /\ drain # "down" /\ respq # <<>> /\ respq' = Tail(respq)
      /\ pending' = (IF pending = 0 THEN 0 ELSE pending - 1)
      /\ busy' = (pending' > 0)
    BY DEF Response
<1>1. respq \in Seq(Answers)
    BY DEF IInv, TypeOK, Answers
<1>2. /\ respq' \in Seq(Answers) /\ Len(respq') = Len(respq) - 1 /\ Head(respq) \in Answers
      /\ {respq'[i].req : i \in DOMAIN respq'} \subseteq {respq[i].req : i \in DOMAIN respq}
    BY <1>0, <1>1, InFlightTail
<1>3. /\ Head(respq).req[1] \in Clients /\ Head(respq).req[2] \in Nat
      /\ Head(respq).ok \in BOOLEAN
    BY <1>2 DEF Answers, Request
<1>4. /\ ChoicesKept' /\ track' \in [Clients -> Tracker]
      /\ model' \in [Clients -> MaybeModel] /\ choices' \in [Clients -> SUBSET Choice]
    <2>1. CASE UNCHANGED modelVars
        BY <2>1, <1>0, ChoicesUntouched DEF IInv, TypeOK, modelVars
    <2>2. CASE /\ known[Head(respq).req[1]] # "out"
               /\ ResolveSwitch(Head(respq).req[1], Head(respq).req[2], Head(respq).ok)
        BY <2>2, <1>0, <1>3, ResolveStep
    <2> QED BY <2>1, <2>2 DEF Response
<1>5. /\ Cardinality(atAgent) \in Nat /\ Len(respq) \in Nat /\ Len(respq) > 0
      /\ pending = Cardinality(atAgent) + Len(respq)
    <2>1. Cardinality(atAgent) \in Nat
        BY FS_CardinalityType DEF IInv, Issued
    <2>2. Len(respq) \in Nat /\ Len(respq) > 0
        BY <1>0, <1>1, LenProperties, EmptySeq
    <2> QED BY <2>1, <2>2, <1>0 DEF IInv, BusyExact
<1>6. pending' = pending - 1 /\ pending' \in Nat /\ busy' \in BOOLEAN
    BY <1>0, <1>5
<1>7. TypeOK'
    BY <1>0, <1>2, <1>4, <1>6 DEF IInv, TypeOK, Answers
<1>8. InFlight' \subseteq InFlight
    BY <1>0, <1>2 DEF InFlight
<1>9. Issued' /\ RelaunchSpares'
    BY <1>0, <1>8 DEF IInv, Issued, RelaunchSpares
<1>10. BusyExact'
    <2>1. pending' = Cardinality(atAgent') + Len(respq')
        <3>1. Cardinality(atAgent') = Cardinality(atAgent)
            BY <1>0
        <3> QED BY <3>1, <1>2, <1>5, <1>6
    <2>2. busy' <=> pending' > 0
        BY <1>0
    <2> QED BY <2>1, <2>2 DEF BusyExact
<1> QED BY <1>4, <1>7, <1>9, <1>10 DEF IInv

\* A relaunch moves on only when nothing is counted, or when it gives up.
LEMMA RelaunchStep ==
    ASSUME IInv, Relaunch \/ DrainIdle \/ GraceElapsed \/ Cancelled
    PROVE  IInv'
<1>0. UNCHANGED <<asked, known, modelVars, pending, atAgent, respq>>
    BY DEF Relaunch, DrainIdle, GraceElapsed, Cancelled
<1>1. ChoicesKept' /\ InFlight' = InFlight
    BY <1>0, ChoicesUntouched DEF IInv, InFlight
<1>2. TypeOK'
    <2>1. /\ drain' \in {"off", "wait", "flush", "down"} /\ graced' \in BOOLEAN
          /\ busy' \in BOOLEAN /\ owed' \in SUBSET Request
        <3>1. drain' \in {"off", "wait", "flush", "down"} /\ graced' \in BOOLEAN
            BY DEF Relaunch, DrainIdle, GraceElapsed, Cancelled, IInv, TypeOK
        <3>2. busy' \in BOOLEAN
            BY DEF Relaunch, DrainIdle, GraceElapsed, Cancelled, IInv, TypeOK
        <3>3. owed' \in SUBSET Request
            BY InFlightType DEF Relaunch, DrainIdle, GraceElapsed, Cancelled, IInv, TypeOK
        <3> QED BY <3>1, <3>2, <3>3
    <2> QED BY <2>1, <1>0 DEF IInv, TypeOK, modelVars
<1>3. Issued'
    BY <1>0, <1>1 DEF Relaunch, DrainIdle, GraceElapsed, Cancelled, IInv, Issued
<1>4. BusyExact'
    BY <1>0 DEF Relaunch, DrainIdle, GraceElapsed, Cancelled, IInv, BusyExact
<1>5. RelaunchSpares'
    <2>1. CASE Relaunch
        BY <2>1 DEF Relaunch, RelaunchSpares
    <2>2. CASE DrainIdle
        <3>1. pending = 0 /\ pending = Cardinality(atAgent) + Len(respq)
            BY <2>2 DEF DrainIdle, IInv, BusyExact, TypeOK
        <3>2. InFlight = {}
            BY <3>1, NothingCounted DEF IInv
        <3> QED BY <3>2, <1>1 DEF RelaunchSpares
    <2>3. CASE GraceElapsed
        BY <2>3 DEF GraceElapsed, RelaunchSpares
    <2>4. CASE Cancelled
        BY <2>4, <1>1 DEF Cancelled, IInv, RelaunchSpares
    <2> QED BY <2>1, <2>2, <2>3, <2>4
<1> QED BY <1>1, <1>2, <1>3, <1>4, <1>5 DEF IInv

\* The invariant is inductive.
LEMMA NextIInv == IInv /\ [Next]_vars => IInv'
<1> SUFFICES ASSUME IInv, [Next]_vars PROVE IInv'
    OBVIOUS
<1>1. ASSUME NEW c \in Clients, Accept(c) \/ Disconnected(c) PROVE IInv'
    BY <1>1, ConnectionStep
<1>2. ASSUME NEW c \in Clients, NEW m \in MaybeModel, Registered(c, m) PROVE IInv'
    BY <1>2, RegisteredStep
<1>3. ASSUME NEW c \in Clients, NEW m \in MaybeModel, Forward(c, m) PROVE IInv'
    BY <1>3, ForwardStep
<1>4. ASSUME NEW r \in atAgent, NEW ok \in BOOLEAN, Answer(r, ok) PROVE IInv'
    BY <1>4, AnswerStep
<1>5. CASE Response
    BY <1>5, ResponseStep
<1>6. CASE Relaunch \/ DrainIdle \/ GraceElapsed \/ Cancelled
    BY <1>6, RelaunchStep
<1>7. CASE UNCHANGED vars
    <2>1. UNCHANGED <<known, modelVars>> /\ InFlight' = InFlight
        BY <1>7 DEF vars, modelVars, InFlight
    <2>2. ChoicesKept'
        BY <2>1, ChoicesUntouched DEF IInv
    <2>3. TypeOK' /\ Issued' /\ BusyExact' /\ RelaunchSpares'
        BY <1>7, <2>1 DEF vars, IInv, TypeOK, Issued, BusyExact, RelaunchSpares
    <2> QED BY <2>2, <2>3 DEF IInv
<1> QED BY <1>1, <1>2, <1>3, <1>4, <1>5, <1>6, <1>7 DEF Next

\* The inductive invariant holds of every behaviour of the leader's loop.
THEOREM InvariantHolds == Spec => []IInv
<1>1. Init => IInv
    BY InitIInv
<1>2. IInv /\ [Next]_vars => IInv'
    BY NextIInv
<1> QED BY <1>1, <1>2, PTL DEF Spec

\* agent_busy is exact, for any number of clients and requests.
THEOREM BusyIsExact == Spec => []BusyExact
<1>1. IInv => BusyExact
    BY DEF IInv
<1> QED BY <1>1, InvariantHolds, PTL

\* A relaunch that did not run out of grace has waited for every request
\* that was in flight when it was accepted.
THEOREM RelaunchWaits == Spec => []RelaunchSpares
<1>1. IInv => RelaunchSpares
    BY DEF IInv
<1> QED BY <1>1, InvariantHolds, PTL

\* The default model of a client is its newest choice that was not refused.
LEMMA NewestByKept == IInv => NewestChoice
<1> SUFFICES ASSUME IInv, NEW c \in Clients, NEW h \in choices[c],
                    h.fate # "refused",
                    \A g \in choices[c] : g.seq > h.seq => g.fate = "refused"
             PROVE  model[c] = h.model
    BY DEF NewestChoice
<1> DEFINE t == track[c]
           taken == [seq |-> t.confirmedSeq, model |-> t.confirmed, fate |-> "taken"]
<1>1. /\ t \in Tracker /\ choices[c] \in SUBSET Choice
      /\ Kept(t, model[c], choices[c])
    BY DEF IInv, TypeOK, ChoicesKept
<1> HIDE DEF t
<1>2. h \in Choice /\ h.seq \in Nat /\ t.confirmedSeq \in Nat
    BY <1>1 DEF Choice, Tracker
<1>3. taken \in choices[c] /\ model[c] = DefaultModel(t)
    BY <1>1 DEF Kept
<1>4. t.confirmedSeq <= h.seq
    <2>1. ~(t.confirmedSeq > h.seq)
        BY <1>3
    <2> QED BY <2>1, <1>2
<1>5. CASE Later(t) = {}
    <2>1. h.fate # "open" \/ h.seq <= t.confirmedSeq
        <3> SUFFICES ASSUME h.fate = "open" PROVE h.seq <= t.confirmedSeq
            OBVIOUS
        <3>1. PICK o \in t.outstanding : o.seq = h.seq
            BY <1>1 DEF Kept
        <3>2. ~(o.seq > t.confirmedSeq)
            BY <1>5 DEF Later
        <3> QED BY <3>1, <3>2, <1>2
    <2>2. h.seq <= t.confirmedSeq
        BY <2>1, <1>1, <1>2 DEF Kept, Choice
    <2>3. h.seq = taken.seq
        BY <2>2, <1>2, <1>4
    <2>4. h = taken
        BY <2>3, <1>1, <1>3 DEF Kept
    <2> QED BY <2>4, <1>3, <1>5 DEF DefaultModel
<1>6. CASE Later(t) # {}
    <2> DEFINE o == CHOOSE p \in Later(t) : \A q \in Later(t) : q.seq <= p.seq
               g == [seq |-> o.seq, model |-> o.model, fate |-> "open"]
    <2>1. \E p \in Later(t) : \A q \in Later(t) : q.seq <= p.seq
        BY <1>1, <1>6 DEF Kept, Later
    <2>2. o \in Later(t) /\ \A q \in Later(t) : q.seq <= o.seq
        BY <2>1
    <2>3. DefaultModel(t) = o.model
        BY <1>6 DEF DefaultModel
    <2> HIDE DEF o
    <2>4. o \in t.outstanding /\ o.seq > t.confirmedSeq /\ o.seq \in Nat
        BY <2>2, <1>1 DEF Later, Tracker, Switch
    <2>5. g \in choices[c]
        BY <2>4, <1>1 DEF Kept
    <2>6. o.seq <= h.seq
        <3>1. ~(g.seq > h.seq)
            BY <2>5
        <3> QED BY <3>1, <2>4, <1>2
    <2>7. h.fate = "open"
        <3>1. h.fate = "taken" => h.seq <= t.confirmedSeq
            BY <1>1 DEF Kept
        <3>2. h.fate # "taken"
            BY <3>1, <2>4, <2>6, <1>2
        <3> QED BY <3>2, <1>2 DEF Choice
    <2>8. PICK p \in t.outstanding : p.seq = h.seq
        BY <2>7, <1>1 DEF Kept
    <2>9. p \in Later(t)
        BY <2>8, <2>4, <2>6, <1>2 DEF Later
    <2>10. h.seq <= o.seq
        BY <2>2, <2>8, <2>9
    <2>11. h.seq = g.seq
        BY <2>6, <2>10, <2>4, <1>2
    <2>12. h = g
        BY <2>5, <2>11, <1>1 DEF Kept
    <2> QED BY <2>3, <2>12, <1>3
<1> QED BY <1>5, <1>6

\* "A response that arrives late or is rejected never restores a model older
\* than the client's most recent choice", for any number of switches
\* outstanding and any order of the answers.
THEOREM NewestChoiceKept == Spec => []NewestChoice
BY InvariantHolds, NewestByKept, PTL
=============================================================================
