------------------------ MODULE SessionAttachProofs ------------------------
(***************************************************************************)
(* Proofs about SessionAttach: for any number of clients, events and       *)
(* interactions, a viewer is shown every event once and in its order,      *)
(* misses only what was emitted behind a shut gate, and agrees with the    *)
(* session about the interaction that waits.                               *)
(***************************************************************************)
EXTENDS SessionAttach, FiniteSetTheorems, WellFoundedInduction, TLAPS

Message ==
    [kind : {"live"}, of : Nat \ {0}, to : {None}]
        \union [kind : {"rep"}, of : Nat \ {0}, to : Clients]
        \union [kind : {"result", "error"}, of : {None}, to : Clients]
        \union [kind : {"ask", "res"}, of : Interactions, to : {None}]

Task ==
    [pc : {"idle", "attach", "replayed", "delta", "open", "respond"},
     replay : BOOLEAN, upTo : Nat, barrier : Nat]

View ==
    [log : Seq(Message), high : Nat, card : Interactions \union {None},
     said : Seq(Interactions \X {"user", "pager"})]

TypeOK ==
    /\ emitted \in Nat /\ emitting \in BOOLEAN /\ disk \in Nat
    /\ dark \in SUBSET Nat /\ straddled \in SUBSET Nat
    /\ gate \in BOOLEAN
    /\ requests \in Seq(Clients \X BOOLEAN)
    /\ task \in [Clients -> Task]
    /\ wire \in Seq(Message)
    /\ conn \in [Clients -> {"out", "loading", "in", "gone"}]
    /\ buffer \in [Clients -> Seq(Message)]
    /\ cutoff \in [Clients -> Nat]
    /\ cache \in SUBSET Interactions /\ IsFiniteSet(cache)
    /\ open \in SUBSET Interactions
    /\ view \in [Clients -> View]
    /\ passed \in Nat /\ since \in [Clients -> Nat] /\ over \in SUBSET Clients
    /\ fate \in [Interactions -> {"none", "asked", "agent", "user", "pager"}]

Pos(s) == 1..Len(s)

Has(s, m) == \E k \in Pos(s) : s[k] = m

IsEvent(m) == m.kind \in {"live", "rep"}

Shows(v, e) == \E k \in Pos(v.log) : IsEvent(v.log[k]) /\ v.log[k].of = e

\* The session actor is done with event e.
Forwarded(e) == e \in 1..emitted /\ ~(emitting /\ e = emitted)

Requested(c) == \E k \in Pos(requests) : requests[k][1] = c

NothingTo(c) == \A k \in Pos(wire) : wire[k].to # c

\* An event of a replay and one that is live after it.
Follows(e, f) == e < f \/ (e = f /\ e \in straddled)

Increasing(s, kind) ==
    \A j, k \in Pos(s) :
        j < k /\ s[j].kind = kind /\ s[k].kind = kind => s[j].of < s[k].of

-----------------------------------------------------------------------------
SessionInv ==
    /\ disk <= emitted
    /\ passed <= emitted /\ (emitting => passed < emitted)
    /\ \A e \in Nat : Forwarded(e) => e \in dark \/ e <= passed \/ Has(wire, Live(e))

LiveInv ==
    /\ Increasing(wire, "live")
    /\ \A k \in Pos(wire) : wire[k].kind = "live" =>
          passed < wire[k].of /\ Forwarded(wire[k].of)

RequestInv ==
    \A j, k \in Pos(requests) : j < k => requests[j][1] # requests[k][1]

LifeInv ==
    \A c \in Clients :
        /\ conn[c] \in {"out", "in"} => ~Requested(c) /\ task[c].pc = "idle"
        /\ conn[c] \in {"out", "in"} \/ Requested(c) => NothingTo(c)
        /\ Requested(c) => task[c].pc = "idle"
        /\ conn[c] = "out" \/ Requested(c) \/ task[c].pc = "attach" => task[c].upTo = 0

AnswerInv ==
    \A k \in Pos(wire) : IsAnswer(wire[k]) =>
        /\ task[wire[k].to].pc = "idle"
        /\ \A j \in Pos(wire) : k < j => wire[j].to # wire[k].to

TaskInv ==
    \A c \in Clients :
        /\ task[c].upTo <= disk
        /\ emitting => task[c].upTo < emitted \/ emitted \in straddled
        /\ task[c].pc # "delta" => task[c].barrier <= task[c].upTo

RepInv ==
    \A k \in Pos(wire) : wire[k].kind = "rep" =>
        /\ wire[k].of <= task[wire[k].to].upTo
        /\ \A j \in Pos(wire) : k < j =>
              /\ wire[j].kind = "rep" /\ wire[j].to = wire[k].to => wire[k].of < wire[j].of
              /\ wire[j].kind = "live" => Follows(wire[k].of, wire[j].of)

\* What follows event e, which client c has been sent by its replay.
Replayed(c, e) ==
    /\ e <= task[c].upTo
    /\ \A j \in Pos(wire) :
          /\ wire[j].kind = "rep" /\ wire[j].to = c => e < wire[j].of
          /\ wire[j].kind = "live" => Follows(e, wire[j].of)

LogInv ==
    \A c \in Clients \ over : \A k \in Pos(view[c].log) :
        view[c].log[k].kind = "rep" => Replayed(c, view[c].log[k].of)

CoverInv ==
    \A c \in Subscribers \ over :
        \A e \in 1..task[c].upTo : Shows(view[c], e) \/ Has(wire, Rep(e, c))

OutInv ==
    \A c \in Clients \ over :
        /\ conn[c] # "loading" => buffer[c] = <<>>
        /\ conn[c] \in {"out", "gone"} => view[c] = EmptyView
        /\ conn[c] \in {"out", "gone"} => cutoff[c] = 0

LoadingInv ==
    \A c \in Clients \ over : conn[c] = "loading" =>
        /\ view[c].high = 0 /\ view[c].card = None
        /\ \A k \in Pos(view[c].log) :
              view[c].log[k].kind = "rep" /\ view[c].log[k].of <= cutoff[c]
        /\ Increasing(view[c].log, "rep")
        /\ \A e \in 1..cutoff[c] : Shows(view[c], e)
        /\ Increasing(buffer[c], "live")
        /\ \A k \in Pos(buffer[c]) :
              /\ buffer[c][k].kind \in {"live", "ask", "res"}
              /\ buffer[c][k].kind = "live" => buffer[c][k].of <= passed

Ordered(v) ==
    /\ \A j, k \in Pos(v.log) : j < k /\ IsEvent(v.log[j]) /\ IsEvent(v.log[k]) =>
          Follows(v.log[j].of, v.log[k].of)
    /\ \A k \in Pos(v.log) : v.log[k].kind = "live" => v.log[k].of <= v.high
    /\ \A k \in Pos(v.log) : IsEvent(v.log[k]) \/ IsAnswer(v.log[k])

InInv ==
    \A c \in Clients \ over : conn[c] = "in" =>
        Ordered(view[c]) /\ view[c].high <= passed

ReachedInv ==
    \A c \in Subscribers \ over : \A e \in Nat : Forwarded(e) =>
        \/ e \in dark \/ e <= since[c]
        \/ Has(wire, Live(e)) \/ Has(buffer[c], Live(e)) \/ Shows(view[c], e)

OpenInv ==
    /\ \A i \in open : fate[i] = "asked" /\ (i \in cache \/ Has(wire, Asked(i)))
    /\ \A i \in Interactions : Has(wire, Resolved(i)) => fate[i] \notin {"none", "asked"}
    /\ \A i \in cache : i \in open \/ Has(wire, Resolved(i))
    /\ \A k \in Pos(wire) : wire[k].kind = "ask" =>
          wire[k].of \in open \/ \E n \in Pos(wire) : k < n /\ wire[n] = Resolved(wire[k].of)

Says(v, i) == \E k \in Pos(v.said) : v.said[k][1] = i

CardInv ==
    \A c \in Clients \ over : conn[c] = "in" =>
        /\ view[c].card # None => view[c].card \in open \/ Has(wire, Resolved(view[c].card))
        /\ \A i \in open : view[c].card = i \/ Says(view[c], i) \/ Has(wire, Asked(i))

BufferInv ==
    \A c \in Clients \ over : \A k \in Pos(buffer[c]) : buffer[c][k].kind = "ask" =>
        \/ buffer[c][k].of \in open \/ Has(wire, Resolved(buffer[c][k].of))
        \/ \E n \in Pos(buffer[c]) : k < n /\ buffer[c][n] = Resolved(buffer[c][k].of)

IInv ==
    /\ TypeOK /\ SessionInv /\ LiveInv /\ RequestInv /\ LifeInv /\ AnswerInv /\ TaskInv
    /\ RepInv /\ LogInv /\ CoverInv /\ OutInv /\ LoadingInv /\ InInv /\ ReachedInv
    /\ OpenInv /\ CardInv /\ BufferInv

-----------------------------------------------------------------------------
(***************************************************************************)
(* Messages and sequences.                                                 *)
(***************************************************************************)

\* What a message of each kind says, and to whom.
LEMMA MessageFacts ==
    ASSUME NEW m \in Message
    PROVE  /\ m.kind \in {"live", "rep", "result", "error", "ask", "res"}
           /\ m.kind = "live" => m.of \in Nat \ {0} /\ m.to = None /\ m = Live(m.of)
           /\ m.kind = "rep" => m.of \in Nat \ {0} /\ m.to \in Clients /\ m = Rep(m.of, m.to)
           /\ m.kind \in {"result", "error"} => m.to \in Clients
           /\ m.kind = "ask" => m.of \in Interactions /\ m.to = None /\ m = Asked(m.of)
           /\ m.kind = "res" => m.of \in Interactions /\ m.to = None /\ m = Resolved(m.of)
<1>1. CASE m \in [kind : {"live"}, of : Nat \ {0}, to : {None}]
    BY <1>1 DEF Live
<1>2. CASE m \in [kind : {"rep"}, of : Nat \ {0}, to : Clients]
    BY <1>2 DEF Rep
<1>3. CASE m \in [kind : {"result", "error"}, of : {None}, to : Clients]
    BY <1>3
<1>4. CASE m \in [kind : {"ask", "res"}, of : Interactions, to : {None}]
    BY <1>4 DEF Asked, Resolved
<1> QED BY <1>1, <1>2, <1>3, <1>4 DEF Message

\* The messages the agent sends are messages.
LEMMA Made ==
    /\ \A e \in Nat \ {0} : Live(e) \in Message /\ Live(e).kind = "live" /\ Live(e).of = e
                          /\ Live(e).to = None
    /\ \A e \in Nat \ {0}, c \in Clients :
          Rep(e, c) \in Message /\ Rep(e, c).kind = "rep" /\ Rep(e, c).of = e /\ Rep(e, c).to = c
    /\ \A kind \in {"result", "error"}, c \in Clients :
          Answer(kind, c) \in Message /\ Answer(kind, c).kind = kind /\ Answer(kind, c).to = c
    /\ \A i \in Interactions :
          /\ Asked(i) \in Message /\ Asked(i).kind = "ask" /\ Asked(i).of = i /\ Asked(i).to = None
          /\ Resolved(i) \in Message /\ Resolved(i).kind = "res" /\ Resolved(i).of = i
          /\ Resolved(i).to = None
BY DEF Live, Rep, Answer, Asked, Resolved, Message

\* r is s with t put behind it; s with m put behind it; s without its head.
Joins(s, t, r) ==
    /\ r \in Seq(Message) /\ Len(r) = Len(s) + Len(t)
    /\ \A k \in Pos(s) : k \in Pos(r) /\ r[k] = s[k]
    /\ \A k \in Pos(t) : Len(s) + k \in Pos(r) /\ r[Len(s) + k] = t[k]
    /\ \A k \in Pos(r) : k \notin Pos(s) =>
          k > Len(s) /\ k - Len(s) \in Pos(t) /\ r[k] = t[k - Len(s)]

Appends(s, m, r) ==
    /\ r \in Seq(Message) /\ Len(r) = Len(s) + 1
    /\ \A k \in Pos(s) : k \in Pos(r) /\ r[k] = s[k] /\ k < Len(s) + 1
    /\ Len(s) + 1 \in Pos(r) /\ r[Len(s) + 1] = m
    /\ \A k \in Pos(r) : k \in Pos(s) \/ (k = Len(s) + 1 /\ r[k] = m)

Drops(s, r) ==
    /\ r \in Seq(Message) /\ Head(s) \in Message /\ 1 \in Pos(s) /\ Head(s) = s[1]
    /\ \A k \in Pos(r) : k + 1 \in Pos(s) /\ r[k] = s[k + 1] /\ 1 < k + 1
    /\ \A k \in Pos(s) : k # 1 => k - 1 \in Pos(r) /\ r[k - 1] = s[k]

LEMMA Joined ==
    ASSUME NEW s \in Seq(Message), NEW t \in Seq(Message)
    PROVE  Joins(s, t, s \o t)
BY DEF Joins, Pos

LEMMA Appended ==
    ASSUME NEW s \in Seq(Message), NEW m \in Message
    PROVE  Appends(s, m, Append(s, m))
BY DEF Appends, Pos

LEMMA Dropped ==
    ASSUME NEW s \in Seq(Message), s # <<>>
    PROVE  Drops(s, Tail(s))
BY DEF Drops, Pos

\* What each of them holds.
LEMMA HasJoined ==
    ASSUME NEW s, NEW t, NEW r, Joins(s, t, r), NEW m
    PROVE  /\ Has(s, m) => Has(r, m)
           /\ Has(t, m) => Has(r, m)
           /\ Has(r, m) => Has(s, m) \/ Has(t, m)
<1>1. ASSUME Has(s, m) PROVE Has(r, m)
    BY <1>1 DEF Has, Joins
<1>2. ASSUME Has(t, m) PROVE Has(r, m)
    BY <1>2 DEF Has, Joins
<1>3. ASSUME Has(r, m) PROVE Has(s, m) \/ Has(t, m)
    BY <1>3 DEF Has, Joins
<1> QED BY <1>1, <1>2, <1>3

LEMMA HasAppended ==
    ASSUME NEW s, NEW n, NEW r, Appends(s, n, r), NEW m
    PROVE  /\ Has(s, m) => Has(r, m)
           /\ Has(r, n)
           /\ Has(r, m) => Has(s, m) \/ m = n
BY DEF Has, Appends

LEMMA HasDropped ==
    ASSUME NEW s, NEW r, Drops(s, r), NEW m
    PROVE  /\ Has(r, m) => Has(s, m)
           /\ Has(s, m) => m = Head(s) \/ Has(r, m)
<1>1. ASSUME Has(r, m) PROVE Has(s, m)
    BY <1>1 DEF Has, Drops
<1>2. ASSUME Has(s, m), m # Head(s) PROVE Has(r, m)
    BY <1>2 DEF Has, Drops
<1> QED BY <1>1, <1>2

-----------------------------------------------------------------------------
(***************************************************************************)
(* Induction over the natural numbers, for sets of numbers.                *)
(***************************************************************************)
Below == {p \in Nat \X Nat : p[1] < p[2]}

LEMMA Smallest ==
    ASSUME NEW S \in SUBSET Nat, S # {}
    PROVE  \E n \in S : \A m \in S : n <= m
<1>1. IsWellFoundedOn(Below, Nat)
    BY NatLessThanWellFounded DEF OpToRel, Below
<1>2. \A x, y \in Nat : x < y => <<x, y>> \in Below
    BY DEF Below
<1>3. PICK x \in S : \A y \in S : ~(<<y, x>> \in Below)
    BY <1>1, WFMin
<1>4. \A m \in S : x \in Nat /\ m \in Nat /\ ~(m < x)
    BY <1>2, <1>3
<1>5. \A m \in S : x <= m
    BY <1>4
<1> QED BY <1>5

LEMMA Induction ==
    ASSUME NEW S \in SUBSET Nat, 0 \in S, \A n \in S : n + 1 \in S
    PROVE  S = Nat
<1> SUFFICES ASSUME Nat \ S # {} PROVE FALSE
    OBVIOUS
<1>1. PICK n \in Nat \ S : \A m \in Nat \ S : n <= m
    BY Smallest
<1>2. n # 0 /\ n - 1 \in Nat
    BY <1>1
<1>3. n - 1 \in S
    BY <1>1, <1>2
<1> QED BY <1>1, <1>3

-----------------------------------------------------------------------------
(***************************************************************************)
(* The pager: what a view is after one message, and after the flush of the *)
(* buffer and the cache.                                                   *)
(***************************************************************************)
Takes(v, m, w) ==
    /\ w \in View
    /\ \/ m.kind = "live" /\ m.of <= v.high /\ w.log = v.log /\ w.high = v.high
       \/ m.kind = "live" /\ m.of > v.high /\ Appends(v.log, m, w.log) /\ w.high = m.of
       \/ /\ m.kind \in {"rep", "result", "error"}
          /\ Appends(v.log, m, w.log) /\ w.high = v.high
       \/ m.kind \in {"ask", "res"} /\ w.log = v.log /\ w.high = v.high
    /\ m.kind = "ask" => w.card = m.of /\ (v.card # None => Says(w, v.card))
    /\ m.kind = "res" => w.card = IF v.card = m.of THEN None ELSE v.card
    /\ m.kind \notin {"ask", "res"} => w.card = v.card
    /\ \A i \in Interactions : Says(v, i) => Says(w, i)

LEMMA Received ==
    ASSUME NEW v \in View, NEW m \in Message
    PROVE  Takes(v, m, Receive(v, m))
<1> DEFINE w == Receive(v, m)
<1>1. /\ v.log \in Seq(Message) /\ v.high \in Nat /\ v.card \in Interactions \union {None}
      /\ v.said \in Seq(Interactions \X {"user", "pager"})
      /\ v = [log |-> v.log, high |-> v.high, card |-> v.card, said |-> v.said]
    BY DEF View
<1>2. Appends(v.log, m, Append(v.log, m)) /\ Append(v.log, m) \in Seq(Message)
    BY <1>1, Appended
<1>3. CASE m.kind = "live"
    <2>1. m.of \in Nat
        BY <1>3, MessageFacts
    <2>2. CASE m.of > v.high
        <3>1. w = [log |-> Append(v.log, m), high |-> m.of, card |-> v.card, said |-> v.said]
            BY <1>1, <1>3, <2>2 DEF Receive
        <3>2. w \in View
            BY <1>1, <1>2, <2>1, <3>1 DEF View
        <3> HIDE DEF w
        <3>3. w.log = Append(v.log, m) /\ w.high = m.of /\ w.card = v.card /\ w.said = v.said
            BY <3>1
        <3> QED BY <1>2, <1>3, <2>2, <3>2, <3>3 DEF Takes, Says, w
    <2>3. CASE ~(m.of > v.high)
        <3>1. w = v /\ m.of <= v.high
            BY <1>1, <1>3, <2>1, <2>3 DEF Receive
        <3> QED BY <1>3, <3>1 DEF Takes
    <2> QED BY <2>2, <2>3
<1>4. CASE m.kind \in {"rep", "result", "error"}
    <2>1. w = [log |-> Append(v.log, m), high |-> v.high, card |-> v.card, said |-> v.said]
        BY <1>1, <1>4 DEF Receive
    <2>2. w \in View
        BY <1>1, <1>2, <2>1 DEF View
    <2> HIDE DEF w
    <2>3. w.log = Append(v.log, m) /\ w.high = v.high /\ w.card = v.card /\ w.said = v.said
        BY <2>1
    <2> QED BY <1>2, <1>4, <2>2, <2>3 DEF Takes, Says, w
<1>5. CASE m.kind = "ask"
    <2> DEFINE said == IF v.card = None THEN v.said ELSE Append(v.said, <<v.card, "pager">>)
    <2>1. m.of \in Interactions
        BY <1>5, MessageFacts
    <2>2. w = [log |-> v.log, high |-> v.high, card |-> m.of, said |-> said]
        BY <1>1, <1>5 DEF Receive, ShowCard
    <2>3. /\ said \in Seq(Interactions \X {"user", "pager"})
          /\ \A i : (\E k \in Pos(v.said) : v.said[k][1] = i) => \E k \in Pos(said) : said[k][1] = i
          /\ v.card # None => \E k \in Pos(said) : said[k][1] = v.card
        <3>1. CASE v.card = None
            BY <1>1, <3>1
        <3>2. CASE v.card # None
            <4>1. <<v.card, "pager">> \in Interactions \X {"user", "pager"}
                BY <1>1, <3>2
            <4>2. said = Append(v.said, <<v.card, "pager">>)
                BY <3>2
            <4>3. /\ said \in Seq(Interactions \X {"user", "pager"})
                  /\ \A k \in Pos(v.said) : k \in Pos(said) /\ said[k] = v.said[k]
                  /\ Len(v.said) + 1 \in Pos(said) /\ said[Len(v.said) + 1] = <<v.card, "pager">>
                BY <1>1, <4>1, <4>2 DEF Pos
            <4> HIDE DEF said
            <4>4. said[Len(v.said) + 1][1] = v.card
                BY <4>3
            <4> QED BY <4>3, <4>4
        <3> QED BY <3>1, <3>2
    <2> HIDE DEF w, said
    <2>4. w.log = v.log /\ w.high = v.high /\ w.card = m.of /\ w.said = said
        BY <2>2
    <2>5. w \in View
        BY <1>1, <2>1, <2>2, <2>3 DEF View
    <2> QED BY <1>5, <2>3, <2>4, <2>5 DEF Takes, Says, w
<1>6. CASE m.kind = "res"
    <2> DEFINE card == IF v.card = m.of THEN None ELSE v.card
    <2>1. w = [log |-> v.log, high |-> v.high, card |-> card, said |-> v.said]
        BY <1>1, <1>6 DEF Receive
    <2>2. card \in Interactions \union {None}
        BY <1>1
    <2>3. w \in View
        BY <1>1, <2>1, <2>2 DEF View
    <2> HIDE DEF w
    <2>4. w.log = v.log /\ w.high = v.high /\ w.card = card /\ w.said = v.said
        BY <2>1
    <2> QED BY <1>6, <2>3, <2>4 DEF Takes, Says, w
<1> QED BY <1>3, <1>4, <1>5, <1>6, MessageFacts

\* What a view shows stays shown, and an event put in the log is shown.
LEMMA StillShown ==
    ASSUME NEW v, NEW m, NEW w, Takes(v, m, w), NEW e, Shows(v, e)
    PROVE  Shows(w, e)
<1>1. CASE w.log = v.log
    BY <1>1 DEF Shows
<1>2. CASE Appends(v.log, m, w.log)
    BY <1>2 DEF Shows, Appends
<1> QED BY <1>1, <1>2 DEF Takes

LEMMA NowShown ==
    ASSUME NEW v, NEW m, NEW w, Appends(v.log, m, w.log), IsEvent(m)
    PROVE  Shows(w, m.of)
BY DEF Shows, Appends

\* A live event keeps the log in order if it follows every replayed one.
LEMMA OrderKept ==
    ASSUME NEW v \in View, NEW m \in Message, NEW w, Takes(v, m, w), Ordered(v),
           m.kind # "rep",
           m.kind = "live" =>
               \A k \in Pos(v.log) : v.log[k].kind = "rep" => Follows(v.log[k].of, m.of)
    PROVE  Ordered(w)
<1>1. CASE w.log = v.log /\ w.high = v.high
    BY <1>1 DEF Ordered
<1>2. CASE m.kind = "live" /\ m.of > v.high /\ Appends(v.log, m, w.log) /\ w.high = m.of
    <2>1. v.log \in Seq(Message) /\ v.high \in Nat /\ m.of \in Nat /\ Len(v.log) \in Nat
        BY <1>2, MessageFacts DEF View
    <2>2. \A k \in Pos(v.log) : v.log[k] \in Message
        BY <2>1 DEF Pos
    <2>3. \A k \in Pos(v.log) : IsEvent(v.log[k]) => Follows(v.log[k].of, m.of)
        <3> SUFFICES ASSUME NEW k \in Pos(v.log), v.log[k].kind = "live"
                     PROVE  Follows(v.log[k].of, m.of)
            BY <1>2 DEF IsEvent
        <3>1. v.log[k].of \in Nat /\ v.log[k].of <= v.high
            BY <2>2, MessageFacts DEF Ordered
        <3> QED BY <1>2, <2>1, <3>1 DEF Follows
    <2>4. ASSUME NEW j \in Pos(w.log), NEW k \in Pos(w.log), j < k,
                 IsEvent(w.log[j]), IsEvent(w.log[k])
          PROVE  Follows(w.log[j].of, w.log[k].of)
        <3>1. j \in Pos(v.log)
            BY <1>2, <2>1, <2>4 DEF Appends, Pos
        <3>2. CASE k \in Pos(v.log)
            BY <1>2, <2>4, <3>1, <3>2 DEF Ordered, Appends
        <3>3. CASE w.log[k] = m
            BY <1>2, <2>3, <2>4, <3>1, <3>3 DEF Appends
        <3> QED BY <1>2, <3>2, <3>3 DEF Appends
    <2>5. ASSUME NEW k \in Pos(w.log), w.log[k].kind = "live" PROVE w.log[k].of <= w.high
        <3>1. CASE k \in Pos(v.log)
            <4>1. v.log[k].of \in Nat /\ v.log[k].of <= v.high /\ w.log[k] = v.log[k]
                BY <1>2, <2>2, <2>5, <3>1, MessageFacts DEF Ordered, Appends
            <4> QED BY <1>2, <2>1, <4>1
        <3>2. CASE w.log[k] = m
            BY <1>2, <2>1, <3>2
        <3> QED BY <1>2, <3>1, <3>2 DEF Appends
    <2>6. \A k \in Pos(w.log) : IsEvent(w.log[k]) \/ IsAnswer(w.log[k])
        BY <1>2 DEF Ordered, Appends, IsEvent
    <2> QED BY <2>4, <2>5, <2>6 DEF Ordered
<1>3. CASE m.kind \in {"result", "error"} /\ Appends(v.log, m, w.log) /\ w.high = v.high
    <2>1. Len(v.log) \in Nat /\ ~IsEvent(m) /\ m.kind # "live"
        BY <1>3 DEF View, IsEvent
    <2>2. ASSUME NEW j \in Pos(w.log), NEW k \in Pos(w.log), j < k,
                 IsEvent(w.log[j]), IsEvent(w.log[k])
          PROVE  Follows(w.log[j].of, w.log[k].of)
        <3>1. /\ j \in Pos(v.log) /\ w.log[j] = v.log[j]
              /\ k \in Pos(v.log) /\ w.log[k] = v.log[k]
            BY <1>3, <2>1, <2>2 DEF Appends
        <3> QED BY <2>2, <3>1 DEF Ordered
    <2>3. ASSUME NEW k \in Pos(w.log), w.log[k].kind = "live" PROVE w.log[k].of <= w.high
        <3>1. k \in Pos(v.log) /\ w.log[k] = v.log[k]
            BY <1>3, <2>1, <2>3 DEF Appends
        <3> QED BY <1>3, <2>3, <3>1 DEF Ordered
    <2>4. \A k \in Pos(w.log) : IsEvent(w.log[k]) \/ IsAnswer(w.log[k])
        BY <1>3 DEF Ordered, Appends, IsAnswer
    <2> QED BY <2>2, <2>3, <2>4 DEF Ordered
<1> QED BY <1>1, <1>2, <1>3, MessageFacts DEF Takes

\* A function that is what After defines; After is one.
IsAfter(f, c, ms, n) ==
    f = [k \in 0..n |->
            IF k = 0 THEN view[c]
            ELSE IF Covered(c, ms[k]) THEN f[k - 1] ELSE Receive(f[k - 1], ms[k])]

LEMMA AfterExists ==
    ASSUME NEW c, NEW ms, NEW n \in Nat
    PROVE  \E f : IsAfter(f, c, ms, n)
<1> DEFINE S == {i \in Nat : \E f : IsAfter(f, c, ms, i)}
<1>1. 0 \in S
    <2> DEFINE f == [k \in 0..0 |-> view[c]]
    <2>1. f = [k \in 0..0 |->
                  IF k = 0 THEN view[c]
                  ELSE IF Covered(c, ms[k]) THEN f[k - 1] ELSE Receive(f[k - 1], ms[k])]
        OBVIOUS
    <2> QED BY <2>1 DEF IsAfter
<1>2. ASSUME NEW i \in S PROVE i + 1 \in S
    <2>1. PICK f : IsAfter(f, c, ms, i)
        OBVIOUS
    <2> DEFINE Next1(h, k) == IF Covered(c, ms[k]) THEN h[k - 1] ELSE Receive(h[k - 1], ms[k])
               g == [k \in 0..(i + 1) |-> IF k = 0 THEN view[c] ELSE Next1(f, k)]
    <2>2. \A k \in 0..i : g[k] = f[k]
        BY <2>1 DEF IsAfter
    <2>3. \A k \in 0..(i + 1) : k # 0 => k - 1 \in 0..i
        OBVIOUS
    <2>4. g = [k \in 0..(i + 1) |->
                  IF k = 0 THEN view[c]
                  ELSE IF Covered(c, ms[k]) THEN g[k - 1] ELSE Receive(g[k - 1], ms[k])]
        BY <2>2, <2>3, Zenon
    <2>5. \E h : IsAfter(h, c, ms, i + 1)
        BY <2>4 DEF IsAfter
    <2>6. i + 1 \in Nat
        OBVIOUS
    <2> QED BY <2>5, <2>6
<1> HIDE DEF S
<1>3. S = Nat
    <2>1. S \in SUBSET Nat
        BY DEF S
    <2> QED BY <1>1, <1>2, <2>1, Induction
<1> QED BY <1>3 DEF S

LEMMA AfterIs ==
    ASSUME NEW c, NEW ms, Len(ms) \in Nat
    PROVE  IsAfter(After(c, ms), c, ms, Len(ms))
<1>1. \E f : IsAfter(f, c, ms, Len(ms))
    BY AfterExists
<1>2. After(c, ms) = CHOOSE f : IsAfter(f, c, ms, Len(ms))
    BY DEF After, IsAfter
<1> QED BY <1>1, <1>2

\* The views of the pager of c while it is sent ms.
FlushOf(c, ms, f) ==
    /\ f[0] = view[c]
    /\ \A k \in 0..Len(ms) : f[k] \in View
    /\ \A k \in 1..Len(ms) :
          IF Covered(c, ms[k]) THEN f[k] = f[k - 1] ELSE Takes(f[k - 1], ms[k], f[k])

LEMMA Flushes ==
    ASSUME NEW c, view[c] \in View, NEW ms \in Seq(Message)
    PROVE  FlushOf(c, ms, After(c, ms))
<1>1. Len(ms) \in Nat /\ \A k \in 1..Len(ms) : ms[k] \in Message
    OBVIOUS
<1>2. PICK f : f = After(c, ms)
    OBVIOUS
<1>3. IsAfter(f, c, ms, Len(ms))
    BY <1>1, <1>2, AfterIs
<1>4. f[0] = view[c]
    BY <1>1, <1>3 DEF IsAfter
<1>5. \A k \in 1..Len(ms) :
          f[k] = IF Covered(c, ms[k]) THEN f[k - 1] ELSE Receive(f[k - 1], ms[k])
    <2> SUFFICES ASSUME NEW k \in 1..Len(ms)
                 PROVE  f[k] = IF Covered(c, ms[k]) THEN f[k - 1] ELSE Receive(f[k - 1], ms[k])
        OBVIOUS
    <2>1. k \in 0..Len(ms) /\ k # 0
        BY <1>1
    <2> QED BY <1>3, <2>1 DEF IsAfter
<1> DEFINE S == {k \in Nat : k <= Len(ms) => f[k] \in View}
<1>6. 0 \in S
    BY <1>4
<1>7. ASSUME NEW k \in S PROVE k + 1 \in S
    <2> SUFFICES ASSUME k + 1 <= Len(ms) PROVE f[k + 1] \in View
        OBVIOUS
    <2>1. k + 1 \in 1..Len(ms) /\ k <= Len(ms) /\ (k + 1) - 1 = k
        BY <1>1
    <2>2. f[k] \in View /\ ms[k + 1] \in Message
        BY <1>1, <2>1
    <2>3. f[k + 1] = IF Covered(c, ms[k + 1]) THEN f[k] ELSE Receive(f[k], ms[k + 1])
        BY <1>5, <2>1
    <2>4. Takes(f[k], ms[k + 1], Receive(f[k], ms[k + 1]))
        BY <2>2, Received
    <2> QED BY <2>2, <2>3, <2>4 DEF Takes
<1> HIDE DEF S
<1>8. S = Nat
    <2>1. S \in SUBSET Nat
        BY DEF S
    <2> QED BY <1>6, <1>7, <2>1, Induction
<1>9. \A k \in 0..Len(ms) : f[k] \in View
    BY <1>1, <1>8 DEF S
<1>10. ASSUME NEW k \in 1..Len(ms)
       PROVE  IF Covered(c, ms[k]) THEN f[k] = f[k - 1] ELSE Takes(f[k - 1], ms[k], f[k])
    <2>1. f[k - 1] \in View /\ ms[k] \in Message
        BY <1>1, <1>9
    <2>2. Takes(f[k - 1], ms[k], Receive(f[k - 1], ms[k]))
        BY <2>1, Received
    <2> QED BY <1>5, <2>2
<1> QED BY <1>2, <1>4, <1>9, <1>10 DEF FlushOf

\* What the log of the pager of c is after k messages of ms.
FlushedLog(c, ms, k, v) ==
    /\ Ordered(v)
    /\ \A j \in Pos(v.log) : v.log[j].kind = "rep" => Has(view[c].log, v.log[j])
    /\ v.high = 0 \/ \E j \in 1..k : ms[j].kind = "live" /\ ms[j].of = v.high
    /\ \A e \in Nat : Shows(view[c], e) => Shows(v, e)
    /\ \A j \in 1..k : ms[j].kind = "live" => Shows(v, ms[j].of)

\* The flush shows every buffered event, in order, and none that the replay
\* has shown.
LEMMA FlushLog ==
    ASSUME NEW c, NEW ms \in Seq(Message), NEW f, FlushOf(c, ms, f),
           cutoff[c] \in Nat, view[c].high = 0,
           \A k \in Pos(view[c].log) :
               view[c].log[k].kind = "rep" /\ view[c].log[k].of <= cutoff[c],
           Increasing(view[c].log, "rep"),
           \A e \in 1..cutoff[c] : Shows(view[c], e),
           Increasing(ms, "live"), \A k \in Pos(ms) : ms[k].kind # "rep"
    PROVE  FlushedLog(c, ms, Len(ms), f[Len(ms)])
<1>1. /\ Len(ms) \in Nat /\ \A k \in 1..Len(ms) : ms[k] \in Message
      /\ f[0] = view[c] /\ view[c] \in View
    BY DEF FlushOf
<1>2. view[c].log \in Seq(Message) /\ \A k \in Pos(view[c].log) : view[c].log[k] \in Message
    BY <1>1 DEF View, Pos
<1> DEFINE S == {k \in Nat : k <= Len(ms) => FlushedLog(c, ms, k, f[k])}
<1>3. 0 \in S
    <2>1. Ordered(view[c])
        <3>1. \A j, k \in Pos(view[c].log) : j < k => view[c].log[j].of < view[c].log[k].of
            BY DEF Increasing
        <3>2. \A k \in Pos(view[c].log) : view[c].log[k].kind # "live"
            OBVIOUS
        <3> QED BY <3>1, <3>2 DEF Ordered, Follows, IsEvent
    <2>2. \A j \in Pos(view[c].log) : Has(view[c].log, view[c].log[j])
        BY DEF Has
    <2> QED BY <1>1, <2>1, <2>2 DEF FlushedLog
<1>4. ASSUME NEW k \in S PROVE k + 1 \in S
    <2> SUFFICES ASSUME k + 1 <= Len(ms) PROVE FlushedLog(c, ms, k + 1, f[k + 1])
        OBVIOUS
    <2> DEFINE m == ms[k + 1]
    <2>1. /\ k \in Nat /\ k + 1 \in 1..Len(ms) /\ k \in 0..Len(ms) /\ (k + 1) - 1 = k
          /\ k + 1 \in Pos(ms)
        BY <1>1 DEF Pos
    <2>2. FlushedLog(c, ms, k, f[k]) /\ f[k] \in View /\ m \in Message /\ m.kind # "rep"
        BY <1>1, <2>1 DEF FlushOf
    <2>3. \A j \in 1..(k + 1) : j \in 1..k \/ j = k + 1
        BY <2>1
    <2>4. \A j \in 1..k : j \in 1..(k + 1) /\ j \in Pos(ms) /\ j < k + 1
        BY <2>1 DEF Pos
    <2> HIDE DEF m, S
    <2>5. CASE Covered(c, m)
        <3>1. f[k + 1] = f[k]
            BY <2>1, <2>5 DEF FlushOf, m
        <3>2. m.of \in Nat \ {0} /\ m.of <= cutoff[c]
            BY <2>2, <2>5, MessageFacts DEF Covered
        <3>3. Shows(view[c], m.of)
            BY <3>2
        <3>4. Shows(f[k], m.of)
            BY <2>2, <3>2, <3>3 DEF FlushedLog
        <3>5. \A j \in 1..(k + 1) : ms[j].kind = "live" => Shows(f[k], ms[j].of)
            BY <2>2, <2>3, <3>4 DEF FlushedLog, m
        <3> QED BY <2>2, <2>4, <3>1, <3>5 DEF FlushedLog
    <2>6. CASE ~Covered(c, m)
        <3>1. Takes(f[k], m, f[k + 1])
            BY <2>1, <2>6 DEF FlushOf, m
        <3>2. m.kind = "live" => m.of \in Nat \ {0} /\ m.of > cutoff[c]
            BY <2>2, <2>6, MessageFacts DEF Covered
        <3>3. m.kind = "live" =>
                \A j \in Pos(f[k].log) : f[k].log[j].kind = "rep" => Follows(f[k].log[j].of, m.of)
            <4> SUFFICES ASSUME m.kind = "live", NEW j \in Pos(f[k].log), f[k].log[j].kind = "rep"
                         PROVE  Follows(f[k].log[j].of, m.of)
                OBVIOUS
            <4>1. Has(view[c].log, f[k].log[j])
                BY <2>2 DEF FlushedLog
            <4>2. PICK n \in Pos(view[c].log) : view[c].log[n] = f[k].log[j]
                BY <4>1 DEF Has
            <4>3. f[k].log[j].of \in Nat /\ f[k].log[j].of <= cutoff[c]
                BY <1>2, <4>2, MessageFacts
            <4> QED BY <3>2, <4>3 DEF Follows
        <3>4. Ordered(f[k + 1])
            BY <2>2, <3>1, <3>3, OrderKept DEF FlushedLog
        <3>5. m.kind = "live" => m.of > f[k].high
            <4> SUFFICES ASSUME m.kind = "live" PROVE m.of > f[k].high
                OBVIOUS
            <4>1. CASE f[k].high = 0
                BY <3>2, <4>1
            <4>2. ASSUME NEW j \in 1..k, ms[j].kind = "live", ms[j].of = f[k].high
                  PROVE  m.of > f[k].high
                <5>1. ms[j].of < m.of
                    BY <2>1, <2>4, <4>2 DEF Increasing, m
                <5> QED BY <2>2, <3>2, <4>2, <5>1 DEF View
            <4> QED BY <2>2, <4>1, <4>2 DEF FlushedLog
        <3>6. \A j \in Pos(f[k + 1].log) : f[k + 1].log[j].kind = "rep" =>
                  Has(view[c].log, f[k + 1].log[j])
            <4>1. CASE f[k + 1].log = f[k].log
                BY <2>2, <4>1 DEF FlushedLog
            <4>2. CASE Appends(f[k].log, m, f[k + 1].log)
                BY <2>2, <4>2 DEF FlushedLog, Appends
            <4> QED BY <3>1, <4>1, <4>2 DEF Takes
        <3>7. f[k + 1].high = 0 \/ \E j \in 1..(k + 1) : ms[j].kind = "live" /\ ms[j].of = f[k + 1].high
            <4>1. CASE f[k + 1].high = f[k].high
                BY <2>2, <2>4, <4>1 DEF FlushedLog
            <4>2. CASE m.kind = "live" /\ f[k + 1].high = m.of
                <5>1. k + 1 \in 1..(k + 1)
                    BY <2>1
                <5> QED BY <4>2, <5>1 DEF m
            <4> QED BY <3>1, <4>1, <4>2 DEF Takes
        <3>8. \A e \in Nat : Shows(f[k], e) => Shows(f[k + 1], e)
            BY <3>1, StillShown
        <3>9. m.kind = "live" => Shows(f[k + 1], m.of)
            <4> SUFFICES ASSUME m.kind = "live" PROVE Shows(f[k + 1], m.of)
                OBVIOUS
            <4>1. Appends(f[k].log, m, f[k + 1].log)
                BY <2>2, <3>1, <3>2, <3>5 DEF Takes, View
            <4> QED BY <4>1, NowShown DEF IsEvent
        <3>10. \A j \in 1..(k + 1) : ms[j].kind = "live" => Shows(f[k + 1], ms[j].of)
            <4> SUFFICES ASSUME NEW j \in 1..k, ms[j].kind = "live"
                         PROVE  Shows(f[k + 1], ms[j].of)
                BY <2>3, <3>9 DEF m
            <4>1. ms[j].of \in Nat
                BY <1>1, <2>4, MessageFacts DEF Pos
            <4> QED BY <2>2, <3>8, <4>1 DEF FlushedLog
        <3> QED BY <2>2, <3>4, <3>6, <3>7, <3>8, <3>10 DEF FlushedLog
    <2> QED BY <2>5, <2>6
<1> HIDE DEF S
<1>5. S = Nat
    <2>1. S \in SUBSET Nat
        BY DEF S
    <2> QED BY <1>3, <1>4, <2>1, Induction
<1> QED BY <1>1, <1>5 DEF S

\* The card of the pager after k messages of ms.
FlushedCard(ms, k, v) ==
    /\ v.card # None =>
          \E j \in 1..k : /\ ms[j] = Asked(v.card)
                          /\ \A n \in 1..k : j < n => ms[n] # Resolved(v.card)
    /\ \A j \in 1..k : ms[j].kind = "ask" =>
          \/ v.card = ms[j].of \/ Says(v, ms[j].of)
          \/ \E n \in 1..k : j < n /\ ms[n] = Resolved(ms[j].of)

\* After the flush the pager shows the last interaction of it that is not
\* resolved, and has answered the others.
LEMMA FlushCards ==
    ASSUME NEW c, NEW ms \in Seq(Message), NEW f, FlushOf(c, ms, f), view[c].card = None
    PROVE  FlushedCard(ms, Len(ms), f[Len(ms)])
<1>1. /\ Len(ms) \in Nat /\ \A k \in 1..Len(ms) : ms[k] \in Message
      /\ f[0] = view[c] /\ view[c] \in View
    BY DEF FlushOf
<1> DEFINE S == {k \in Nat : k <= Len(ms) => FlushedCard(ms, k, f[k])}
<1>2. 0 \in S
    BY <1>1 DEF FlushedCard
<1>3. ASSUME NEW k \in S PROVE k + 1 \in S
    <2> SUFFICES ASSUME k + 1 <= Len(ms) PROVE FlushedCard(ms, k + 1, f[k + 1])
        OBVIOUS
    <2> DEFINE m == ms[k + 1]
    <2>1. k \in Nat /\ k + 1 \in 1..Len(ms) /\ k \in 0..Len(ms) /\ (k + 1) - 1 = k
        BY <1>1
    <2>2. FlushedCard(ms, k, f[k]) /\ f[k] \in View /\ m \in Message
        BY <1>1, <2>1 DEF FlushOf
    <2>3. k + 1 \in 1..(k + 1) /\ \A j \in 1..(k + 1) : j \in 1..k \/ j = k + 1
        BY <2>1
    <2>4. \A j \in 1..k : j \in 1..(k + 1) /\ j < k + 1 /\ ms[j] \in Message
        BY <1>1, <2>1
    <2>5. \A n \in 1..(k + 1) : ~(k + 1 < n)
        BY <2>1
    <2> HIDE DEF m, S
    <2>6. CASE m.kind \notin {"ask", "res"}
        <3>1. f[k + 1].card = f[k].card /\ \A i \in Interactions : Says(f[k], i) => Says(f[k + 1], i)
            BY <2>1, <2>6 DEF FlushOf, Takes, m
        <3>2. \A i \in Interactions : m # Resolved(i)
            BY <2>6, Made
        <3>3. f[k].card # None => f[k].card \in Interactions
            BY <2>2 DEF View
        <3>4. \A j \in 1..k : ms[j].kind = "ask" => ms[j].of \in Interactions
            BY <2>4, MessageFacts
        <3>5. f[k + 1].card # None =>
                \E j \in 1..(k + 1) : /\ ms[j] = Asked(f[k + 1].card)
                                      /\ \A n \in 1..(k + 1) : j < n => ms[n] # Resolved(f[k + 1].card)
            BY <2>2, <2>3, <2>4, <3>1, <3>2, <3>3 DEF FlushedCard, m
        <3>6. \A j \in 1..(k + 1) : ms[j].kind = "ask" =>
                \/ f[k + 1].card = ms[j].of \/ Says(f[k + 1], ms[j].of)
                \/ \E n \in 1..(k + 1) : j < n /\ ms[n] = Resolved(ms[j].of)
            BY <2>2, <2>3, <2>4, <2>6, <3>1, <3>4 DEF FlushedCard, m
        <3> QED BY <3>5, <3>6 DEF FlushedCard
    <2>7. CASE m.kind = "ask"
        <3>1. Takes(f[k], m, f[k + 1])
            BY <2>1, <2>7 DEF FlushOf, Covered, m
        <3>2. m.of \in Interactions /\ m = Asked(m.of) /\ f[k + 1].card = m.of
            BY <2>2, <2>7, <3>1, MessageFacts DEF Takes
        <3>3. ASSUME NEW j \in 1..k, ms[j].kind = "ask"
              PROVE  \/ Says(f[k + 1], ms[j].of)
                     \/ \E n \in 1..(k + 1) : j < n /\ ms[n] = Resolved(ms[j].of)
            <4>1. ms[j].of \in Interactions /\ ms[j].of # None
                BY <2>4, <3>3, MessageFacts, AttachAssumption
            <4>2. CASE f[k].card = ms[j].of
                BY <2>7, <3>1, <4>1, <4>2 DEF Takes
            <4>3. CASE Says(f[k], ms[j].of)
                BY <3>1, <4>1, <4>3 DEF Takes
            <4> QED BY <2>2, <2>4, <3>3, <4>2, <4>3 DEF FlushedCard
        <3>4. \A j \in 1..(k + 1) : ms[j].kind = "ask" =>
                \/ f[k + 1].card = ms[j].of \/ Says(f[k + 1], ms[j].of)
                \/ \E n \in 1..(k + 1) : j < n /\ ms[n] = Resolved(ms[j].of)
            BY <2>3, <3>2, <3>3 DEF m
        <3> QED BY <2>3, <2>5, <3>2, <3>4 DEF FlushedCard, m
    <2>8. CASE m.kind = "res"
        <3>1. Takes(f[k], m, f[k + 1])
            BY <2>1, <2>8 DEF FlushOf, Covered, m
        <3>2. /\ m.of \in Interactions /\ m = Resolved(m.of)
              /\ f[k + 1].card = IF f[k].card = m.of THEN None ELSE f[k].card
              /\ \A i \in Interactions : Says(f[k], i) => Says(f[k + 1], i)
            BY <2>2, <2>8, <3>1, MessageFacts DEF Takes
        <3>3. \A i \in Interactions : m = Resolved(i) => i = m.of
            BY Made
        <3>4. f[k + 1].card # None =>
                \E j \in 1..(k + 1) : /\ ms[j] = Asked(f[k + 1].card)
                                      /\ \A n \in 1..(k + 1) : j < n => ms[n] # Resolved(f[k + 1].card)
            <4> SUFFICES ASSUME f[k + 1].card # None
                         PROVE  \E j \in 1..(k + 1) :
                                    /\ ms[j] = Asked(f[k + 1].card)
                                    /\ \A n \in 1..(k + 1) : j < n => ms[n] # Resolved(f[k + 1].card)
                OBVIOUS
            <4>1. f[k + 1].card = f[k].card /\ f[k].card # m.of /\ f[k].card \in Interactions
                BY <2>2, <3>2 DEF View
            <4>2. PICK j \in 1..k : /\ ms[j] = Asked(f[k].card)
                                    /\ \A n \in 1..k : j < n => ms[n] # Resolved(f[k].card)
                BY <2>2, <4>1 DEF FlushedCard
            <4>3. m # Resolved(f[k].card)
                BY <3>3, <4>1
            <4> QED BY <2>3, <2>4, <4>1, <4>2, <4>3 DEF m
        <3>5. ASSUME NEW j \in 1..(k + 1), ms[j].kind = "ask"
              PROVE  \/ f[k + 1].card = ms[j].of \/ Says(f[k + 1], ms[j].of)
                     \/ \E n \in 1..(k + 1) : j < n /\ ms[n] = Resolved(ms[j].of)
            <4>1. j \in 1..k
                BY <2>3, <2>8, <3>5 DEF m
            <4>2. ms[j].of \in Interactions
                BY <2>4, <3>5, <4>1, MessageFacts
            <4>3. CASE f[k].card = ms[j].of
                BY <2>3, <2>4, <3>2, <4>1, <4>3 DEF m
            <4>4. CASE Says(f[k], ms[j].of)
                BY <3>2, <4>2, <4>4
            <4> QED BY <2>2, <2>4, <3>5, <4>1, <4>3, <4>4 DEF FlushedCard
        <3> QED BY <3>4, <3>5 DEF FlushedCard
    <2> QED BY <2>6, <2>7, <2>8
<1> HIDE DEF S
<1>4. S = Nat
    <2>1. S \in SUBSET Nat
        BY DEF S
    <2> QED BY <1>2, <1>3, <2>1, Induction
<1> QED BY <1>1, <1>4 DEF S

-----------------------------------------------------------------------------
(***************************************************************************)
(* What the larger actions do.                                             *)
(***************************************************************************)

\* A step is one of these.
LEMMA NextCases ==
    ASSUME [Next]_vars
    PROVE  \/ UNCHANGED vars
           \/ Persist \/ Forward \/ Write \/ Attach \/ RouteReplay \/ RouteLive \/ RouteResponse
           \/ \E i \in Interactions : Ask(i) \/ Withdraw(i)
           \/ \E c \in Clients :
                 \/ Replay(c) \/ NoReplay(c) \/ AttachFails(c) \/ BeginFlush(c) \/ Delta(c)
                 \/ NoDelta(c) \/ OpenGate(c) \/ Respond(c) \/ TakeAnswer(c) \/ UserAnswers(c)
                 \/ (\E replay \in BOOLEAN : RequestAttach(c, replay)) \/ Disconnect(c)
BY DEF Next, Route, AttachTask

\* The lines of the file are messages to the client, numbered as in the file.
LEMMA LinesAre ==
    ASSUME disk \in Nat, NEW c \in Clients, NEW from \in Nat, from <= disk
    PROVE  /\ Lines(c, from) \in Seq(Message) /\ Len(Lines(c, from)) = disk - from
           /\ \A k \in Pos(Lines(c, from)) :
                 /\ Lines(c, from)[k] = Rep(from + k, c)
                 /\ from + k \in Nat \ {0} /\ from < from + k /\ from + k <= disk
<1>1. disk - from \in Nat
    OBVIOUS
<1>2. \A k \in 1..(disk - from) : from + k \in Nat \ {0} /\ from < from + k /\ from + k <= disk
    BY <1>1
<1>3. \A k \in 1..(disk - from) : Rep(from + k, c) \in Message
    BY <1>2, Made
<1>4. Lines(c, from) \in Seq(Message) /\ Len(Lines(c, from)) = disk - from
    BY <1>1, <1>3 DEF Lines
<1>5. \A k \in 1..(disk - from) : Lines(c, from)[k] = Rep(from + k, c)
    BY DEF Lines
<1> QED BY <1>2, <1>4, <1>5 DEF Pos

\* The messages a client is sent with the answer m: the buffer and the cache.
Flushing(c, m, ms) ==
    /\ ms \in Seq(Message) /\ 1 \in Pos(ms) /\ ms[1] = m
    /\ \A k \in Pos(ms) :
          \/ k = 1
          \/ k - 1 \in Pos(buffer[c]) /\ ms[k] = buffer[c][k - 1]
          \/ k > 1 + Len(buffer[c]) /\ ms[k].kind = "ask" /\ ms[k].of \in cache
    /\ \A k \in Pos(buffer[c]) : k + 1 \in Pos(ms) /\ ms[k + 1] = buffer[c][k]
    /\ \A i \in cache : \E k \in Pos(ms) : k > 1 + Len(buffer[c]) /\ ms[k] = Asked(i)

LEMMA FlushingIs ==
    ASSUME TypeOK, NEW c \in Clients, NEW m \in Message, NEW asks \in Cached
    PROVE  Flushing(c, m, <<m>> \o buffer[c] \o asks)
<1>1. /\ buffer[c] \in Seq(Message) /\ cache \subseteq Interactions
      /\ Cardinality(cache) \in Nat /\ Len(buffer[c]) \in Nat
    BY FS_CardinalityType DEF TypeOK
<1>2. PICK s \in [1..Cardinality(cache) -> cache] :
          /\ asks = [k \in 1..Cardinality(cache) |-> Asked(s[k])]
          /\ \A i \in cache : \E k \in 1..Cardinality(cache) : s[k] = i
    BY DEF Cached
<1>3. PICK n \in Nat : n = Cardinality(cache)
    BY <1>1
<1>4. PICK b \in Nat : b = Len(buffer[c])
    BY <1>1
<1>5. \A k \in 1..n : s[k] \in cache /\ Asked(s[k]) \in Message /\ asks[k] = Asked(s[k])
    BY <1>1, <1>2, <1>3, Made
<1>6. asks \in Seq(Message) /\ Len(asks) = n
    BY <1>2, <1>3, <1>5
<1>7. PICK one : one = <<m>>
    OBVIOUS
<1>8. one \in Seq(Message) /\ Len(one) = 1 /\ one[1] = m
    BY <1>7
<1>9. PICK head : head = one \o buffer[c]
    OBVIOUS
<1>10. Joins(one, buffer[c], head)
    BY <1>1, <1>7, <1>8, <1>9, Joined
<1>11. PICK ms : ms = head \o asks
    OBVIOUS
<1>12. Joins(head, asks, ms)
    BY <1>6, <1>10, <1>11, Joined DEF Joins
<1>13. /\ head \in Seq(Message) /\ Len(head) = 1 + b /\ head[1] = m
       /\ \A k \in 2..(b + 1) : head[k] = buffer[c][k - 1]
       /\ \A k \in 1..b : head[k + 1] = buffer[c][k]
    BY <1>4, <1>7, <1>8, <1>10 DEF Joins, Pos
<1>14. /\ ms \in Seq(Message) /\ Len(ms) = 1 + b + n
       /\ \A k \in 1..(1 + b) : ms[k] = head[k]
       /\ \A k \in 1..n : ms[1 + b + k] = asks[k]
    BY <1>6, <1>12, <1>13 DEF Joins, Pos
<1>15. ASSUME NEW k \in Pos(ms)
       PROVE  \/ k = 1
              \/ k - 1 \in Pos(buffer[c]) /\ ms[k] = buffer[c][k - 1]
              \/ k > 1 + Len(buffer[c]) /\ ms[k].kind = "ask" /\ ms[k].of \in cache
    <2>1. CASE k <= 1 + b
        BY <1>4, <1>13, <1>14, <2>1 DEF Pos
    <2>2. CASE k > 1 + b
        <3>1. PICK j \in 1..n : k = 1 + b + j
            <4>1. k - (1 + b) \in 1..n /\ k = 1 + b + (k - (1 + b))
                BY <1>14, <2>2 DEF Pos
            <4> QED BY <4>1
        <3>2. ms[k] = Asked(s[j]) /\ s[j] \in Interactions
            BY <1>1, <1>5, <1>14, <3>1
        <3> QED BY <1>4, <1>5, <2>2, <3>2, Made
    <2> QED BY <1>14, <2>1, <2>2 DEF Pos
<1>16. \A k \in Pos(buffer[c]) : k + 1 \in Pos(ms) /\ ms[k + 1] = buffer[c][k]
    BY <1>4, <1>13, <1>14 DEF Pos
<1>17. ASSUME NEW i \in cache
       PROVE  \E k \in Pos(ms) : k > 1 + Len(buffer[c]) /\ ms[k] = Asked(i)
    <2>1. PICK j \in 1..n : s[j] = i
        BY <1>2, <1>3
    <2>2. 1 + b + j \in Pos(ms) /\ 1 + b + j > 1 + b /\ ms[1 + b + j] = Asked(i)
        BY <1>5, <1>14, <2>1 DEF Pos
    <2> QED BY <1>4, <2>2
<1>18. 1 \in Pos(ms) /\ ms[1] = m
    BY <1>13, <1>14 DEF Pos
<1>19. Flushing(c, m, ms)
    BY <1>14, <1>15, <1>16, <1>17, <1>18 DEF Flushing
<1> QED BY <1>7, <1>9, <1>11, <1>19

\* An answer lets the client in and flushes its buffer.
LetsIn(c) ==
    /\ conn[c] = "loading"
    /\ conn' = [conn EXCEPT ![c] = "in"]
    /\ buffer' = [buffer EXCEPT ![c] = <<>>]
    /\ cutoff' = [cutoff EXCEPT ![c] = 0]
    /\ \E ms, f : /\ Flushing(c, wire[1], ms) /\ FlushOf(c, ms, f)
                  /\ view' = [view EXCEPT ![c] = f[Len(ms)]]

LEMMA RouteResponseDoes ==
    ASSUME TypeOK, RouteResponse
    PROVE  /\ Drops(wire, wire') /\ IsAnswer(wire[1]) /\ wire[1].to \in Clients
           /\ \/ conn[wire[1].to] # "loading" /\ UNCHANGED <<conn, buffer, cutoff, view>>
              \/ LetsIn(wire[1].to)
           /\ UNCHANGED <<sessionVars, gate, requests, task, cache, passed, since, over, open, fate>>
<1>1. wire \in Seq(Message) /\ wire # <<>> /\ wire' = Tail(wire)
    BY DEF TypeOK, RouteResponse
<1>2. Drops(wire, wire')
    BY <1>1, Dropped
<1>3. Head(wire) = wire[1] /\ wire[1] \in Message /\ IsAnswer(wire[1])
    BY <1>2 DEF Drops, RouteResponse
<1>4. wire[1].to \in Clients
    BY <1>3, MessageFacts DEF IsAnswer
<1> DEFINE c == wire[1].to
<1>5. \/ conn[c] # "loading" /\ UNCHANGED <<conn, buffer, cutoff, view>>
      \/ LetsIn(c)
    <2> SUFFICES ASSUME ~(conn[c] # "loading" /\ UNCHANGED <<conn, buffer, cutoff, view>>)
                 PROVE  LetsIn(c)
        OBVIOUS
    <2>1. /\ conn[c] = "loading"
          /\ conn' = [conn EXCEPT ![c] = "in"]
          /\ buffer' = [buffer EXCEPT ![c] = <<>>]
          /\ cutoff' = [cutoff EXCEPT ![c] = 0]
          /\ \E asks \in Cached : LET ms == <<wire[1]>> \o buffer[c] \o asks
                                  IN  view' = [view EXCEPT ![c] = After(c, ms)[Len(ms)]]
        BY <1>3 DEF RouteResponse
    <2>2. PICK asks \in Cached : LET ms == <<wire[1]>> \o buffer[c] \o asks
                                 IN  view' = [view EXCEPT ![c] = After(c, ms)[Len(ms)]]
        BY <2>1
    <2>3. PICK ms : ms = <<wire[1]>> \o buffer[c] \o asks
        OBVIOUS
    <2>4. Flushing(c, wire[1], ms)
        BY <1>3, <1>4, <2>3, FlushingIs
    <2>5. ms \in Seq(Message) /\ view[c] \in View
        BY <1>4, <2>4 DEF Flushing, TypeOK
    <2>6. FlushOf(c, ms, After(c, ms))
        BY <2>5, Flushes
    <2>7. view' = [view EXCEPT ![c] = After(c, ms)[Len(ms)]]
        BY <2>2, <2>3
    <2> QED BY <2>1, <2>4, <2>6, <2>7 DEF LetsIn
<1> QED BY <1>2, <1>3, <1>4, <1>5 DEF RouteResponse

\* A replayed event is taken by its client if it is still there.
LEMMA RouteReplayDoes ==
    ASSUME TypeOK, RouteReplay
    PROVE  /\ Drops(wire, wire') /\ wire[1] \in Message /\ wire[1].kind = "rep"
           /\ wire[1].to \in Clients /\ wire[1].of \in Nat \ {0}
           /\ view' \in [Clients -> View] /\ cutoff' \in [Clients -> Nat]
           /\ \A c \in Clients :
                 IF c = wire[1].to /\ c \in Subscribers
                 THEN /\ Takes(view[c], wire[1], view'[c])
                      /\ cutoff'[c] = IF wire[1].of > cutoff[c] THEN wire[1].of ELSE cutoff[c]
                 ELSE view'[c] = view[c] /\ cutoff'[c] = cutoff[c]
           /\ UNCHANGED <<sessionVars, gate, requests, task, conn, buffer, cache, passed, since, over, open, fate>>
<1>1. /\ wire \in Seq(Message) /\ wire # <<>> /\ wire' = Tail(wire)
      /\ view \in [Clients -> View] /\ cutoff \in [Clients -> Nat]
    BY DEF TypeOK, RouteReplay
<1>2. Drops(wire, wire')
    BY <1>1, Dropped
<1>3. Head(wire) = wire[1] /\ wire[1] \in Message /\ wire[1].kind = "rep"
    BY <1>2 DEF Drops, RouteReplay
<1>4. wire[1].to \in Clients /\ wire[1].of \in Nat \ {0}
    BY <1>3, MessageFacts
<1> DEFINE d == wire[1].to
<1>5. CASE d \in Subscribers
    <2>1. /\ view' = [view EXCEPT ![d] = Receive(view[d], wire[1])]
          /\ cutoff' = [cutoff EXCEPT ![d] = IF wire[1].of > cutoff[d] THEN wire[1].of ELSE cutoff[d]]
        BY <1>3, <1>5 DEF RouteReplay
    <2>2. Takes(view[d], wire[1], Receive(view[d], wire[1]))
        BY <1>1, <1>3, <1>4, Received
    <2>3. Receive(view[d], wire[1]) \in View
        BY <2>2 DEF Takes
    <2>4. view' \in [Clients -> View] /\ cutoff' \in [Clients -> Nat]
        BY <1>1, <1>4, <2>1, <2>3
    <2>5. view'[d] = Receive(view[d], wire[1])
        BY <1>1, <1>4, <2>1
    <2>6. \A c \in Clients : c # d => view'[c] = view[c] /\ cutoff'[c] = cutoff[c]
        BY <1>1, <2>1
    <2>7. cutoff'[d] = IF wire[1].of > cutoff[d] THEN wire[1].of ELSE cutoff[d]
        BY <1>1, <1>4, <2>1
    <2>8. \A c \in Clients :
              IF c = d /\ c \in Subscribers
              THEN /\ Takes(view[c], wire[1], view'[c])
                   /\ cutoff'[c] = IF wire[1].of > cutoff[c] THEN wire[1].of ELSE cutoff[c]
              ELSE view'[c] = view[c] /\ cutoff'[c] = cutoff[c]
        BY <1>5, <2>2, <2>5, <2>6, <2>7
    <2> QED BY <1>2, <1>3, <1>4, <2>4, <2>8 DEF RouteReplay
<1>6. CASE d \notin Subscribers
    <2>1. UNCHANGED <<view, cutoff>>
        BY <1>3, <1>6 DEF RouteReplay
    <2>2. \A c \in Clients : ~(c = d /\ c \in Subscribers)
        BY <1>6
    <2> QED BY <1>1, <1>2, <1>3, <1>4, <2>1, <2>2 DEF RouteReplay
<1> QED BY <1>5, <1>6

\* A live message reaches a client in its view, in its buffer or not at all.
LEMMA RouteLiveDoes ==
    ASSUME TypeOK, RouteLive
    PROVE  /\ Drops(wire, wire') /\ wire[1] \in Message /\ wire[1].kind \in {"live", "ask", "res"}
           /\ cache' = CASE wire[1].kind = "ask" -> cache \union {wire[1].of}
                         [] wire[1].kind = "res" -> cache \ {wire[1].of}
                         [] wire[1].kind = "live" -> cache
           /\ passed' = IF wire[1].kind = "live" THEN wire[1].of ELSE passed
           /\ view' \in [Clients -> View] /\ buffer' \in [Clients -> Seq(Message)]
           /\ over \subseteq over' /\ over' \subseteq Clients
           /\ \A c \in Clients : conn[c] # "loading" => buffer'[c] = buffer[c]
           /\ \A c \in Clients : conn[c] \notin {"loading", "in"} => view'[c] = view[c]
           /\ \A c \in Clients \ over' : conn[c] = "loading" =>
                 Appends(buffer[c], wire[1], buffer'[c]) /\ view'[c] = view[c]
           /\ \A c \in Clients : conn[c] = "in" => Takes(view[c], wire[1], view'[c])
           /\ UNCHANGED <<sessionVars, gate, requests, task, conn, cutoff, since, open, fate>>
<1>1. /\ wire \in Seq(Message) /\ wire # <<>> /\ wire' = Tail(wire)
      /\ view \in [Clients -> View] /\ buffer \in [Clients -> Seq(Message)] /\ over \subseteq Clients
    BY DEF TypeOK, RouteLive
<1>2. Drops(wire, wire')
    BY <1>1, Dropped
<1>3. Head(wire) = wire[1] /\ wire[1] \in Message /\ wire[1].kind \in {"live", "ask", "res"}
    BY <1>2 DEF Drops, RouteLive
<1> DEFINE m == wire[1]
<1>4. /\ cache' = CASE m.kind = "ask" -> cache \union {m.of}
                    [] m.kind = "res" -> cache \ {m.of}
                    [] m.kind = "live" -> cache
      /\ passed' = IF m.kind = "live" THEN m.of ELSE passed
    BY <1>3 DEF RouteLive
<1>5. buffer' = [c \in Clients |-> IF Buffers(c) THEN Append(buffer[c], m) ELSE buffer[c]]
    BY <1>3 DEF RouteLive
<1>6. view' = [c \in Clients |->
                  IF c \in Subscribers /\ ~Buffers(c) THEN Receive(view[c], m) ELSE view[c]]
    BY <1>3 DEF RouteLive
<1>7. over' = over \union {c \in Clients : conn[c] = "loading" /\ ~Buffers(c)}
    BY DEF RouteLive
<1>8. \A c \in Clients : Takes(view[c], m, Receive(view[c], m))
    BY <1>1, <1>3, Received
<1>9. \A c \in Clients : Appends(buffer[c], m, Append(buffer[c], m))
    BY <1>1, <1>3, Appended
<1> HIDE DEF m
<1>10. view' \in [Clients -> View]
    <2>1. \A c \in Clients : Receive(view[c], m) \in View /\ view[c] \in View
        BY <1>1, <1>8 DEF Takes
    <2> QED BY <1>6, <2>1
<1>11. buffer' \in [Clients -> Seq(Message)]
    <2>1. \A c \in Clients : Append(buffer[c], m) \in Seq(Message) /\ buffer[c] \in Seq(Message)
        BY <1>1, <1>9 DEF Appends
    <2> QED BY <1>5, <2>1
<1>12. over \subseteq over' /\ over' \subseteq Clients
    BY <1>1, <1>7
<1>13. \A c \in Clients : conn[c] # "loading" => buffer'[c] = buffer[c]
    BY <1>5 DEF Buffers
<1>14. \A c \in Clients : conn[c] \notin {"loading", "in"} => view'[c] = view[c]
    BY <1>6 DEF Subscribers
<1>15. ASSUME NEW c \in Clients \ over', conn[c] = "loading"
       PROVE  Appends(buffer[c], m, buffer'[c]) /\ view'[c] = view[c]
    <2>1. Buffers(c)
        BY <1>7, <1>15
    <2> QED BY <1>5, <1>6, <1>9, <2>1
<1>16. ASSUME NEW c \in Clients, conn[c] = "in" PROVE Takes(view[c], m, view'[c])
    <2>1. view'[c] = Receive(view[c], m)
        BY <1>6, <1>16 DEF Subscribers, Buffers
    <2> QED BY <1>8, <2>1
<1> QED BY <1>2, <1>3, <1>4, <1>10, <1>11, <1>12, <1>13, <1>14, <1>15, <1>16 DEF RouteLive, m

\* A view with other answers on their way, and one whose card is answered.
LEMMA ViewUpdate ==
    ASSUME NEW u \in View, NEW s \in Seq(Interactions \X {"user", "pager"})
    PROVE  /\ LET v == [u EXCEPT !.said = s]
              IN  /\ v \in View /\ v.log = u.log /\ v.high = u.high /\ v.card = u.card
                  /\ v.said = s
           /\ LET v == [u EXCEPT !.card = None, !.said = s]
              IN  /\ v \in View /\ v.log = u.log /\ v.high = u.high /\ v.card = None
                  /\ v.said = s
BY DEF View

\* The session takes an answer, which ends its interaction if that is open.
LEMMA TakeAnswerDoes ==
    ASSUME TypeOK, NEW c \in Clients, TakeAnswer(c)
    PROVE  \E i \in Interactions, by \in {"user", "pager"} :
              /\ view' \in [Clients -> View]
              /\ \A d \in Clients : d # c => view'[d] = view[d]
              /\ view'[c].log = view[c].log /\ view'[c].high = view[c].high
              /\ view'[c].card = view[c].card
              /\ \A j \in Interactions : Says(view[c], j) => j = i \/ Says(view'[c], j)
              /\ \/ i \in open /\ Resolve(i, by)
                 \/ i \notin open /\ UNCHANGED <<open, fate, wire>>
              /\ UNCHANGED <<sessionVars, gate, requests, task, leaderVars>>
<1>1. /\ view \in [Clients -> View] /\ view[c] \in View
      /\ view[c].said \in Seq(Interactions \X {"user", "pager"}) /\ view[c].said # <<>>
    BY DEF TypeOK, TakeAnswer, View
<1> DEFINE said == view[c].said
           v == [view[c] EXCEPT !.said = Tail(said)]
<1>2. view' = [view EXCEPT ![c] = v]
    BY Zenon DEF TakeAnswer
<1>3. PICK answer \in Interactions \X {"user", "pager"} : answer = Head(said) /\ answer = said[1]
    BY <1>1
<1>4. answer[1] \in Interactions /\ answer[2] \in {"user", "pager"}
    OBVIOUS
<1>5. v \in View /\ v.log = view[c].log /\ v.high = view[c].high /\ v.card = view[c].card
      /\ v.said = Tail(said)
    <2>1. Tail(said) \in Seq(Interactions \X {"user", "pager"})
        BY <1>1
    <2> QED BY <1>1, <2>1, ViewUpdate
<1>6. \A k \in Pos(said) : k # 1 => k - 1 \in Pos(Tail(said)) /\ Tail(said)[k - 1] = said[k]
    BY <1>1 DEF Pos
<1> HIDE DEF v
<1>7. \A j \in Interactions : Says(view[c], j) => j = answer[1] \/ Says(v, j)
    <2> SUFFICES ASSUME NEW j \in Interactions, Says(view[c], j), j # answer[1] PROVE Says(v, j)
        OBVIOUS
    <2>1. PICK k \in Pos(said) : said[k][1] = j
        BY DEF Says
    <2>2. k # 1
        BY <1>3, <2>1
    <2>3. k - 1 \in Pos(v.said) /\ v.said[k - 1] = said[k]
        BY <1>5, <1>6, <2>2
    <2>4. v.said[k - 1][1] = j
        BY <2>1, <2>3
    <2> QED BY <2>3, <2>4 DEF Says
<1>8. view'[c] = v /\ view' \in [Clients -> View] /\ \A d \in Clients : d # c => view'[d] = view[d]
    BY <1>1, <1>2, <1>5
<1>9. \/ answer[1] \in open /\ Resolve(answer[1], answer[2])
      \/ answer[1] \notin open /\ UNCHANGED <<open, fate, wire>>
    BY <1>3 DEF TakeAnswer
<1>10. UNCHANGED <<sessionVars, gate, requests, task, leaderVars>>
    BY DEF TakeAnswer
<1> QED BY <1>4, <1>5, <1>7, <1>8, <1>9, <1>10

\* The user answers the card, which is then said and no longer shown.
LEMMA UserAnswersDoes ==
    ASSUME TypeOK, NEW c \in Clients, UserAnswers(c)
    PROVE  /\ view' \in [Clients -> View]
           /\ \A d \in Clients : d # c => view'[d] = view[d]
           /\ view'[c].log = view[c].log /\ view'[c].high = view[c].high
           /\ view'[c].card = None /\ Says(view'[c], view[c].card)
           /\ \A j \in Interactions : Says(view[c], j) => Says(view'[c], j)
<1>1. /\ view \in [Clients -> View] /\ view[c] \in View
      /\ view[c].said \in Seq(Interactions \X {"user", "pager"}) /\ view[c].card \in Interactions
    BY DEF TypeOK, UserAnswers, View
<1> DEFINE answer == <<view[c].card, "user">>
           v == [view[c] EXCEPT !.card = None, !.said = Append(view[c].said, answer)]
<1>2. view' = [view EXCEPT ![c] = v]
    BY Zenon DEF UserAnswers
<1>3. answer \in Interactions \X {"user", "pager"} /\ answer[1] = view[c].card
    BY <1>1
<1> HIDE DEF answer
<1>4. /\ v \in View /\ v.log = view[c].log /\ v.high = view[c].high /\ v.card = None
      /\ v.said = Append(view[c].said, answer)
    <2>1. Append(view[c].said, answer) \in Seq(Interactions \X {"user", "pager"})
        BY <1>1, <1>3
    <2> QED BY <1>1, <2>1, ViewUpdate
<1> HIDE DEF v
<1>5. /\ \A k \in Pos(view[c].said) : k \in Pos(v.said) /\ v.said[k] = view[c].said[k]
      /\ Len(view[c].said) + 1 \in Pos(v.said) /\ v.said[Len(view[c].said) + 1] = answer
    BY <1>1, <1>3, <1>4 DEF Pos
<1>6. Says(v, view[c].card) /\ \A j \in Interactions : Says(view[c], j) => Says(v, j)
    BY <1>3, <1>5 DEF Says
<1>7. view'[c] = v /\ view' \in [Clients -> View] /\ \A d \in Clients : d # c => view'[d] = view[d]
    BY <1>1, <1>2, <1>4
<1> QED BY <1>4, <1>6, <1>7

\* The attach of client c, and of no other, goes on.
TaskGoes(c, pc, upTo, barrier) ==
    /\ task' \in [Clients -> Task]
    /\ \A d \in Clients : d # c => task'[d] = task[d]
    /\ task'[c].pc = pc /\ task'[c].upTo = upTo /\ task'[c].barrier = barrier

PCs == {"idle", "attach", "replayed", "delta", "open", "respond"}

LEMMA TaskPut ==
    ASSUME task \in [Clients -> Task], NEW c \in Clients, NEW v \in Task,
           task' = [task EXCEPT ![c] = v]
    PROVE  TaskGoes(c, v.pc, v.upTo, v.barrier)
BY DEF TaskGoes

LEMMA StepDoes ==
    ASSUME TypeOK, NEW c \in Clients, NEW pc \in PCs, NEW upTo \in Nat, NEW barrier \in Nat,
           Step(c, pc, upTo, barrier)
    PROVE  TaskGoes(c, pc, upTo, barrier)
<1>1. task \in [Clients -> Task] /\ task[c].replay \in BOOLEAN
    BY DEF TypeOK, Task
<1>2. PICK v : v = [pc |-> pc, replay |-> task[c].replay, upTo |-> upTo, barrier |-> barrier]
    OBVIOUS
<1>3. v \in Task /\ v.pc = pc /\ v.upTo = upTo /\ v.barrier = barrier
    BY <1>1, <1>2 DEF Task, PCs
<1>4. task' = [task EXCEPT ![c] = v]
    BY <1>2 DEF Step
<1>5. TaskGoes(c, v.pc, v.upTo, v.barrier)
    BY <1>1, <1>3, <1>4, TaskPut
<1> QED BY <1>3, <1>5

LEMMA TaskDoes ==
    ASSUME TypeOK, NEW c \in Clients
    PROVE  /\ \A pc \in PCs : Goto(c, pc) => TaskGoes(c, pc, task[c].upTo, task[c].barrier)
           /\ Replay(c) => TaskGoes(c, "replayed", disk, 0)
           /\ BeginFlush(c) => TaskGoes(c, "delta", task[c].upTo, emitted)
           /\ Delta(c) => TaskGoes(c, "open", disk, task[c].barrier)
           /\ NoDelta(c) => TaskGoes(c, "open", task[c].upTo, 0)
<1>1. task[c].upTo \in Nat /\ task[c].barrier \in Nat /\ disk \in Nat /\ emitted \in Nat
    BY DEF TypeOK, Task
<1>2. "replayed" \in PCs /\ "delta" \in PCs /\ "open" \in PCs
    BY DEF PCs
<1> QED BY <1>1, <1>2, StepDoes DEF Goto, Replay, BeginFlush, Delta, NoDelta

\* The agent starts the attach that was requested first.
LEMMA AttachDoes ==
    ASSUME TypeOK, Attach
    PROVE  /\ requests[1][1] \in Clients /\ 1 \in Pos(requests)
           /\ TaskGoes(requests[1][1], "attach", 0, 0)
           /\ gate' \in BOOLEAN /\ requests' \in Seq(Clients \X BOOLEAN)
           /\ \A k \in Pos(requests') : k + 1 \in Pos(requests) /\ requests'[k] = requests[k + 1]
           /\ \A k \in Pos(requests) : k # 1 => k - 1 \in Pos(requests') /\ requests'[k - 1] = requests[k]
           /\ UNCHANGED <<sessionVars, wire, leaderVars, open, view, fate>>
<1>1. /\ requests \in Seq(Clients \X BOOLEAN) /\ requests # <<>> /\ requests' = Tail(requests)
      /\ task \in [Clients -> Task] /\ gate \in BOOLEAN
    BY DEF TypeOK, Attach
<1>2. PICK r \in Clients \X BOOLEAN : r = Head(requests) /\ r = requests[1]
    BY <1>1
<1>3. r[1] \in Clients /\ r[2] \in BOOLEAN
    OBVIOUS
<1>4. PICK v : v = [Idle EXCEPT !.pc = "attach", !.replay = r[2]]
    OBVIOUS
<1>5. v \in Task /\ v.pc = "attach" /\ v.upTo = 0 /\ v.barrier = 0
    BY <1>3, <1>4 DEF Idle, Task
<1>6. task' = [task EXCEPT ![r[1]] = v] /\ gate' = (gate /\ ~r[2])
    BY <1>2, <1>4, Zenon DEF Attach
<1>7. TaskGoes(r[1], v.pc, v.upTo, v.barrier)
    BY <1>1, <1>3, <1>5, <1>6, TaskPut
<1>8. gate' \in BOOLEAN
    BY <1>6
<1>9. /\ requests' \in Seq(Clients \X BOOLEAN) /\ 1 \in Pos(requests)
      /\ \A k \in Pos(requests') : k + 1 \in Pos(requests) /\ requests'[k] = requests[k + 1]
      /\ \A k \in Pos(requests) : k # 1 => k - 1 \in Pos(requests') /\ requests'[k - 1] = requests[k]
    BY <1>1 DEF Pos
<1> QED BY <1>2, <1>3, <1>5, <1>7, <1>8, <1>9 DEF Attach

\* A client asks to attach.
LEMMA RequestAttachDoes ==
    ASSUME TypeOK, NEW c \in Clients, NEW replay \in BOOLEAN, RequestAttach(c, replay)
    PROVE  /\ requests' \in Seq(Clients \X BOOLEAN)
           /\ \A k \in Pos(requests) : k \in Pos(requests') /\ requests'[k] = requests[k]
           /\ \A k \in Pos(requests') : k \in Pos(requests) \/ requests'[k][1] = c
           /\ \A j, k \in Pos(requests') : j < k => j \in Pos(requests)
<1>1. requests \in Seq(Clients \X BOOLEAN) /\ requests' = Append(requests, <<c, replay>>)
    BY DEF TypeOK, RequestAttach
<1>2. PICK r \in Clients \X BOOLEAN : r = <<c, replay>>
    OBVIOUS
<1>3. /\ requests' \in Seq(Clients \X BOOLEAN)
      /\ \A k \in Pos(requests) : k \in Pos(requests') /\ requests'[k] = requests[k]
      /\ \A k \in Pos(requests') : k \in Pos(requests) \/ requests'[k] = r
      /\ \A j, k \in Pos(requests') : j < k => j \in Pos(requests)
    BY <1>1, <1>2 DEF Pos
<1>4. r[1] = c
    BY <1>2
<1> QED BY <1>3, <1>4

\* The agent sends something: a message, or the lines of the file after `from'.
New(k) == k \in Pos(wire') \ Pos(wire)

Grows ==
    /\ wire' \in Seq(Message)
    /\ \A k \in Pos(wire) : k \in Pos(wire') /\ wire'[k] = wire[k]
    /\ \A k \in Pos(wire') : k \in Pos(wire) \/ New(k)
    /\ \A k \in Pos(wire'), j \in Pos(wire) : New(k) => j < k

Sends(m) ==
    /\ Grows /\ Has(wire', m)
    /\ \A k \in Pos(wire') : New(k) => wire'[k] = m
    /\ \A j, k \in Pos(wire') : New(j) /\ New(k) => j = k

SendsLines(c, from) ==
    /\ Grows
    /\ \A k \in Pos(wire') : New(k) =>
          /\ wire'[k].kind = "rep" /\ wire'[k].to = c /\ wire'[k].of \in Nat
          /\ from < wire'[k].of /\ wire'[k].of <= disk
    /\ \A j, k \in Pos(wire') : New(j) /\ New(k) /\ j < k => wire'[j].of < wire'[k].of
    /\ \A e \in Nat : from < e /\ e <= disk => Has(wire', Rep(e, c))

LEMMA GrowsHas ==
    ASSUME Grows, NEW m, Has(wire, m)
    PROVE  Has(wire', m)
BY DEF Grows, Has

LEMMA SendsIs ==
    ASSUME TypeOK, NEW m \in Message, wire' = Append(wire, m)
    PROVE  Sends(m)
<1>1. Appends(wire, m, wire') /\ Len(wire) \in Nat
    BY Appended DEF TypeOK
<1>2. Len(wire) + 1 \notin Pos(wire)
    BY <1>1 DEF Pos
<1>3. Has(wire', m)
    BY <1>1, HasAppended
<1>4. \A j, k \in Pos(wire') : New(j) /\ New(k) => j = k
    BY <1>1 DEF Appends, New
<1>5. Grows
    BY <1>1 DEF Appends, Grows, New
<1> QED BY <1>1, <1>3, <1>4, <1>5 DEF Sends, Appends, New

LEMMA SendsLinesIs ==
    ASSUME TypeOK, NEW c \in Clients, NEW from \in Nat, from <= disk,
           wire' = wire \o Lines(c, from)
    PROVE  SendsLines(c, from)
<1>1. wire \in Seq(Message) /\ disk \in Nat
    BY DEF TypeOK
<1>2. PICK ls : ls = Lines(c, from)
    OBVIOUS
<1>3. /\ ls \in Seq(Message) /\ Len(ls) = disk - from
      /\ \A k \in Pos(ls) : /\ ls[k] = Rep(from + k, c)
                            /\ from + k \in Nat \ {0} /\ from < from + k /\ from + k <= disk
    BY <1>1, <1>2, LinesAre
<1>4. Joins(wire, ls, wire')
    BY <1>1, <1>2, <1>3, Joined
<1>5. PICK n \in Nat : n = Len(wire)
    BY <1>1
<1>6. \A k \in Pos(wire') : New(k) => k > n /\ k - n \in Pos(ls) /\ wire'[k] = ls[k - n]
    BY <1>4, <1>5 DEF Joins, New
<1>7. \A k \in Pos(wire), j \in Pos(wire') : New(j) => k < j
    BY <1>5, <1>6 DEF Pos
<1>8. Grows
    BY <1>4, <1>7 DEF Joins, Grows, New
<1>9. \A k \in Pos(ls) : ls[k].kind = "rep" /\ ls[k].to = c /\ ls[k].of = from + k
    BY <1>3, Made
<1>10. ASSUME NEW k \in Pos(wire'), New(k)
       PROVE  /\ wire'[k].kind = "rep" /\ wire'[k].to = c /\ wire'[k].of \in Nat
              /\ from < wire'[k].of /\ wire'[k].of <= disk
              /\ wire'[k].of = from + (k - n)
    <2>1. k - n \in Pos(ls) /\ wire'[k] = ls[k - n]
        BY <1>6, <1>10
    <2> QED BY <1>3, <1>9, <2>1
<1>11. ASSUME NEW j \in Pos(wire'), NEW k \in Pos(wire'), New(j), New(k), j < k
       PROVE  wire'[j].of < wire'[k].of
    <2>1. wire'[j].of = from + (j - n) /\ wire'[k].of = from + (k - n)
        BY <1>10, <1>11
    <2> QED BY <1>11, <2>1 DEF Pos
<1>12. ASSUME NEW e \in Nat, from < e, e <= disk PROVE Has(wire', Rep(e, c))
    <2>1. e - from \in Pos(ls) /\ from + (e - from) = e
        BY <1>1, <1>3, <1>12 DEF Pos
    <2>2. ls[e - from] = Rep(e, c)
        BY <1>3, <2>1
    <2>3. Has(ls, Rep(e, c))
        BY <2>1, <2>2 DEF Has
    <2> QED BY <1>4, <2>3, HasJoined
<1> QED BY <1>8, <1>10, <1>11, <1>12 DEF SendsLines

LEMMA SendsDoes ==
    ASSUME IInv
    PROVE  /\ Forward /\ gate => Sends(Live(emitted))
           /\ \A i \in Interactions : Ask(i) => Sends(Asked(i))
           /\ \A i \in Interactions : \A by : Resolve(i, by) => Sends(Resolved(i))
           /\ \A c \in Clients :
                 /\ AttachFails(c) => Sends(Answer("error", c))
                 /\ Respond(c) => Sends(Answer("result", c))
                 /\ Replay(c) => SendsLines(c, 0)
                 /\ Delta(c) => SendsLines(c, task[c].upTo)
<1>1. TypeOK /\ \A c \in Clients : task[c].upTo \in Nat /\ task[c].upTo <= disk
    BY DEF IInv, TypeOK, Task, TaskInv
<1>2. Forward /\ gate => Sends(Live(emitted))
    <2> SUFFICES ASSUME Forward, gate PROVE Sends(Live(emitted))
        OBVIOUS
    <2>1. emitted \in Nat \ {0}
        BY DEF IInv, TypeOK, SessionInv, Forward
    <2>2. wire' = Append(wire, Live(emitted))
        BY DEF Forward
    <2> QED BY <1>1, <2>1, <2>2, Made, SendsIs
<1>3. \A i \in Interactions : Ask(i) => Sends(Asked(i))
    BY <1>1, Made, SendsIs DEF Ask
<1>4. \A i \in Interactions : \A by : Resolve(i, by) => Sends(Resolved(i))
    BY <1>1, Made, SendsIs DEF Resolve
<1>5. ASSUME NEW c \in Clients
      PROVE  /\ AttachFails(c) => Sends(Answer("error", c))
             /\ Respond(c) => Sends(Answer("result", c))
    BY <1>1, Made, SendsIs DEF AttachFails, Respond
<1>6. ASSUME NEW c \in Clients
      PROVE  /\ Replay(c) => SendsLines(c, 0)
             /\ Delta(c) => SendsLines(c, task[c].upTo)
    <2>1. 0 \in Nat /\ 0 <= disk
        BY <1>1 DEF TypeOK
    <2> QED BY <1>1, <2>1, SendsLinesIs DEF Replay, Delta
<1> QED BY <1>2, <1>3, <1>4, <1>5, <1>6

-----------------------------------------------------------------------------
(***************************************************************************)
(* Every step keeps every part of the invariant.                           *)
(***************************************************************************)
LEMMA KeepsType ==
    ASSUME IInv, [Next]_vars
    PROVE  TypeOK'
<1> USE DEF sessionVars, leaderVars
<1>1. TypeOK
    BY DEF IInv
<1>2. CASE UNCHANGED vars
    BY <1>1, <1>2 DEF TypeOK, vars
<1>3. CASE Persist
    BY <1>1, <1>3 DEF TypeOK, Persist
<1>4. CASE Forward
    <2>1. wire' \in Seq(Message)
        BY <1>1, <1>4, SendsDoes DEF Forward, Sends, Grows, TypeOK
    <2> QED BY <1>1, <1>4, <2>1 DEF TypeOK, Forward
<1>5. CASE Write
    BY <1>1, <1>5 DEF TypeOK, Write
<1>6. CASE Attach
    BY <1>1, <1>6, AttachDoes DEF TypeOK, TaskGoes
<1>7. CASE RouteReplay
    BY <1>1, <1>7, RouteReplayDoes DEF TypeOK, Drops
<1>8. CASE RouteLive
    <2>1. /\ wire' \in Seq(Message) /\ wire[1] \in Message
          /\ wire[1].kind \in {"live", "ask", "res"}
          /\ cache' = CASE wire[1].kind = "ask" -> cache \union {wire[1].of}
                        [] wire[1].kind = "res" -> cache \ {wire[1].of}
                        [] wire[1].kind = "live" -> cache
          /\ passed' = IF wire[1].kind = "live" THEN wire[1].of ELSE passed
          /\ view' \in [Clients -> View] /\ buffer' \in [Clients -> Seq(Message)]
          /\ over' \subseteq Clients
          /\ UNCHANGED <<sessionVars, gate, requests, task, conn, cutoff, since, open, fate>>
        BY <1>1, <1>8, RouteLiveDoes DEF Drops
    <2>2. passed' \in Nat
        BY <1>1, <2>1, MessageFacts DEF TypeOK
    <2>3. cache \in SUBSET Interactions /\ IsFiniteSet(cache)
        BY <1>1 DEF TypeOK
    <2>4. cache' \in SUBSET Interactions /\ IsFiniteSet(cache')
        <3>1. CASE wire[1].kind = "ask"
            <4>1. cache' = cache \union {wire[1].of} /\ wire[1].of \in Interactions
                BY <2>1, <3>1, MessageFacts
            <4> QED BY <2>3, <4>1, FS_AddElement
        <3>2. CASE wire[1].kind = "res"
            <4>1. cache' = cache \ {wire[1].of}
                BY <2>1, <3>2
            <4> QED BY <2>3, <4>1, FS_RemoveElement
        <3>3. CASE wire[1].kind = "live"
            <4>1. cache' = cache
                BY <2>1, <3>3
            <4> QED BY <2>3, <4>1
        <3> QED BY <2>1, <3>1, <3>2, <3>3
    <2> QED BY <1>1, <2>1, <2>2, <2>4 DEF TypeOK
<1>9. CASE RouteResponse
    <2>1. /\ wire' \in Seq(Message)
          /\ UNCHANGED <<sessionVars, gate, requests, task, cache, passed, since, over, open, fate>>
        BY <1>1, <1>9, RouteResponseDoes DEF Drops
    <2>2. CASE UNCHANGED <<conn, buffer, cutoff, view>>
        BY <1>1, <2>1, <2>2 DEF TypeOK
    <2>3. ASSUME NEW c \in Clients, LetsIn(c) PROVE TypeOK'
        <3>1. PICK ms, f : /\ Flushing(c, wire[1], ms) /\ FlushOf(c, ms, f)
                           /\ view' = [view EXCEPT ![c] = f[Len(ms)]]
            BY <2>3 DEF LetsIn
        <3>2. f[Len(ms)] \in View
            <4>1. Len(ms) \in 0..Len(ms)
                BY <3>1 DEF Flushing
            <4> QED BY <3>1, <4>1 DEF FlushOf
        <3>3. view' \in [Clients -> View]
            BY <1>1, <3>1, <3>2 DEF TypeOK
        <3>4. conn' \in [Clients -> {"out", "loading", "in", "gone"}]
            BY <1>1, <2>3 DEF TypeOK, LetsIn
        <3>5. buffer' \in [Clients -> Seq(Message)] /\ cutoff' \in [Clients -> Nat]
            BY <1>1, <2>3 DEF TypeOK, LetsIn
        <3> QED BY <1>1, <2>1, <3>3, <3>4, <3>5 DEF TypeOK
    <2> QED BY <1>1, <1>9, <2>2, <2>3, RouteResponseDoes
<1>10. ASSUME NEW i \in Interactions, Ask(i) PROVE TypeOK'
    <2>1. wire' \in Seq(Message)
        BY <1>10, SendsDoes DEF Sends, Grows
    <2> QED BY <1>1, <1>10, <2>1 DEF TypeOK, Ask
<1>11. ASSUME NEW i \in Interactions, Withdraw(i) PROVE TypeOK'
    <2>1. wire' \in Seq(Message)
        BY <1>11, SendsDoes DEF Sends, Grows, Withdraw
    <2> QED BY <1>1, <1>11, <2>1 DEF TypeOK, Withdraw, Resolve
<1>12. ASSUME NEW c \in Clients, Replay(c) \/ Delta(c) PROVE TypeOK'
    <2>1. wire' \in Seq(Message)
        BY <1>12, SendsDoes DEF SendsLines, Grows
    <2>2. task' \in [Clients -> Task]
        BY <1>1, <1>12, TaskDoes DEF TaskGoes
    <2>3. straddled' \in SUBSET Nat
        BY <1>1, <1>12 DEF TypeOK, Replay, Delta, Straddles
    <2> QED BY <1>1, <1>12, <2>1, <2>2, <2>3 DEF TypeOK, Replay, Delta
<1>13. ASSUME NEW c \in Clients, AttachFails(c) \/ Respond(c) PROVE TypeOK'
    <2>1. wire' \in Seq(Message)
        BY <1>13, SendsDoes DEF Sends, Grows
    <2>2. task' \in [Clients -> Task]
        BY <1>1, <1>13, TaskDoes DEF TaskGoes, PCs, AttachFails, Respond
    <2> QED BY <1>1, <1>13, <2>1, <2>2 DEF TypeOK, AttachFails, Respond
<1>14. ASSUME NEW c \in Clients, NoReplay(c) \/ OpenGate(c) PROVE TypeOK'
    <2>1. task' \in [Clients -> Task]
        BY <1>1, <1>14, TaskDoes DEF TaskGoes, PCs, NoReplay, OpenGate
    <2> QED BY <1>1, <1>14, <2>1 DEF TypeOK, NoReplay, OpenGate
<1>15. ASSUME NEW c \in Clients, BeginFlush(c) \/ NoDelta(c) PROVE TypeOK'
    <2>1. task' \in [Clients -> Task]
        BY <1>1, <1>15, TaskDoes DEF TaskGoes
    <2> QED BY <1>1, <1>15, <2>1 DEF TypeOK, BeginFlush, NoDelta
<1>16. ASSUME NEW c \in Clients, TakeAnswer(c) PROVE TypeOK'
    <2>1. PICK i \in Interactions, by \in {"user", "pager"} :
              /\ view' \in [Clients -> View]
              /\ \/ i \in open /\ Resolve(i, by)
                 \/ i \notin open /\ UNCHANGED <<open, fate, wire>>
              /\ UNCHANGED <<sessionVars, gate, requests, task, leaderVars>>
        BY <1>1, <1>16, TakeAnswerDoes
    <2>2. wire' \in Seq(Message)
        BY <1>1, <2>1, SendsDoes DEF Sends, Grows, TypeOK
    <2>3. open' \in SUBSET Interactions
        BY <1>1, <2>1 DEF TypeOK, Resolve
    <2>4. fate' \in [Interactions -> {"none", "asked", "agent", "user", "pager"}]
        BY <1>1, <2>1 DEF TypeOK, Resolve
    <2> QED BY <1>1, <2>1, <2>2, <2>3, <2>4 DEF TypeOK
<1>17. ASSUME NEW c \in Clients, UserAnswers(c) PROVE TypeOK'
    BY <1>1, <1>17, UserAnswersDoes DEF TypeOK, UserAnswers
<1>18. ASSUME NEW c \in Clients, NEW replay \in BOOLEAN, RequestAttach(c, replay) PROVE TypeOK'
    <2>1. requests' \in Seq(Clients \X BOOLEAN)
        BY <1>1, <1>18, RequestAttachDoes
    <2> QED BY <1>1, <1>18, <2>1 DEF TypeOK, RequestAttach
<1>19. ASSUME NEW c \in Clients, Disconnect(c) PROVE TypeOK'
    <2>1. EmptyView \in View
        BY DEF EmptyView, View
    <2>2. view' \in [Clients -> View]
        BY <1>1, <1>19, <2>1 DEF TypeOK, Disconnect
    <2>3. buffer' \in [Clients -> Seq(Message)] /\ cutoff' \in [Clients -> Nat]
        BY <1>1, <1>19 DEF TypeOK, Disconnect
    <2>4. conn' \in [Clients -> {"out", "loading", "in", "gone"}]
        BY <1>1, <1>19 DEF TypeOK, Disconnect
    <2> QED BY <1>1, <1>19, <2>2, <2>3, <2>4 DEF TypeOK, Disconnect
<1> QED BY NextCases, <1>2, <1>3, <1>4, <1>5, <1>6, <1>7, <1>8, <1>9, <1>10, <1>11, <1>12,
           <1>13, <1>14, <1>15, <1>16, <1>17, <1>18, <1>19

\* No step but these five changes what the session has emitted, written and
\* forwarded, or what is live on the wire.
LEMMA Quiet ==
    ASSUME IInv, [Next]_vars, ~Persist, ~Forward, ~Write, ~RouteLive
    PROVE  /\ UNCHANGED <<emitted, emitting, disk, dark, passed>>
           /\ \A e \in Nat : Has(wire, Live(e)) => Has(wire', Live(e))
<1> USE DEF sessionVars, leaderVars
<1>1. TypeOK
    BY DEF IInv
<1>2. CASE UNCHANGED vars
    BY <1>2 DEF vars
<1>3. CASE Attach
    BY <1>1, <1>3, AttachDoes
<1>4. ASSUME Drops(wire, wire'), wire[1].kind # "live"
      PROVE  \A e \in Nat : Has(wire, Live(e)) => Has(wire', Live(e))
    <2> SUFFICES ASSUME NEW e \in Nat, Has(wire, Live(e)) PROVE Has(wire', Live(e))
        OBVIOUS
    <2>1. Head(wire) = wire[1] /\ Live(e).kind = "live"
        BY <1>4 DEF Drops, Live
    <2> QED BY <1>4, <2>1, HasDropped
<1>5. CASE RouteReplay
    BY <1>1, <1>4, <1>5, RouteReplayDoes
<1>6. CASE RouteResponse
    <2>1. wire[1].kind # "live" /\ Drops(wire, wire')
        BY <1>1, <1>6, RouteResponseDoes DEF IsAnswer
    <2> QED BY <1>1, <1>4, <1>6, <2>1, RouteResponseDoes
<1>7. ASSUME Grows PROVE \A e \in Nat : Has(wire, Live(e)) => Has(wire', Live(e))
    BY <1>7, GrowsHas
<1>8. ASSUME NEW i \in Interactions, Ask(i) \/ Withdraw(i)
      PROVE  /\ UNCHANGED <<emitted, emitting, disk, dark, passed>>
             /\ \A e \in Nat : Has(wire, Live(e)) => Has(wire', Live(e))
    <2>1. Grows
        BY <1>8, SendsDoes DEF Sends, Withdraw
    <2> QED BY <1>7, <1>8, <2>1 DEF Ask, Withdraw
<1>9. ASSUME NEW c \in Clients, Replay(c) \/ Delta(c) \/ AttachFails(c) \/ Respond(c)
      PROVE  /\ UNCHANGED <<emitted, emitting, disk, dark, passed>>
             /\ \A e \in Nat : Has(wire, Live(e)) => Has(wire', Live(e))
    <2>1. Grows
        BY <1>9, SendsDoes DEF Sends, SendsLines
    <2> QED BY <1>7, <1>9, <2>1 DEF Replay, Delta, AttachFails, Respond
<1>10. ASSUME NEW c \in Clients, TakeAnswer(c)
       PROVE  /\ UNCHANGED <<emitted, emitting, disk, dark, passed>>
              /\ \A e \in Nat : Has(wire, Live(e)) => Has(wire', Live(e))
    <2>1. PICK i \in Interactions, by \in {"user", "pager"} :
              /\ \/ i \in open /\ Resolve(i, by)
                 \/ i \notin open /\ UNCHANGED <<open, fate, wire>>
              /\ UNCHANGED <<sessionVars, gate, requests, task, leaderVars>>
        BY <1>1, <1>10, TakeAnswerDoes
    <2>2. Grows \/ wire' = wire
        BY <2>1, SendsDoes DEF Sends
    <2> QED BY <1>7, <2>1, <2>2
<1>11. ASSUME NEW c \in Clients,
              NoReplay(c) \/ BeginFlush(c) \/ NoDelta(c) \/ OpenGate(c) \/ UserAnswers(c)
              \/ (\E replay \in BOOLEAN : RequestAttach(c, replay)) \/ Disconnect(c)
       PROVE  UNCHANGED <<emitted, emitting, disk, dark, passed, wire>>
    BY <1>11 DEF NoReplay, BeginFlush, NoDelta, OpenGate, UserAnswers, RequestAttach, Disconnect
<1> QED BY NextCases, <1>2, <1>3, <1>5, <1>6, <1>8, <1>9, <1>10, <1>11

LEMMA KeepsSession ==
    ASSUME IInv, [Next]_vars
    PROVE  SessionInv'
<1> USE DEF sessionVars, leaderVars
<1>1. TypeOK /\ SessionInv /\ LiveInv
    BY DEF IInv
<1>2. CASE ~Persist /\ ~Forward /\ ~Write /\ ~RouteLive
    BY <1>1, <1>2, Quiet DEF SessionInv, Forwarded
<1>3. CASE Persist
    <2>1. \A e \in Nat : Forwarded(e)' => Forwarded(e)
        BY <1>1, <1>3 DEF TypeOK, Persist, Forwarded
    <2> QED BY <1>1, <1>3, <2>1 DEF TypeOK, SessionInv, Persist
<1>4. CASE Forward
    <2>1. \A e \in Nat : Forwarded(e)' => Forwarded(e) \/ e = emitted
        BY <1>1, <1>4 DEF TypeOK, Forward, Forwarded
    <2>2. CASE gate
        <3>1. /\ \A m : Has(wire, m) => Has(wire', m)
              /\ Has(wire', Live(emitted))
            BY <1>4, <2>2, SendsDoes, GrowsHas DEF Sends
        <3> QED BY <1>1, <1>4, <2>1, <2>2, <3>1 DEF TypeOK, SessionInv, Forward
    <2>3. CASE ~gate
        BY <1>1, <1>4, <2>1, <2>3 DEF TypeOK, SessionInv, Forward
    <2> QED BY <2>2, <2>3
<1>5. CASE Write
    BY <1>1, <1>5 DEF TypeOK, SessionInv, Write, Forwarded
<1>6. CASE RouteLive
    <2>1. /\ Drops(wire, wire') /\ wire[1] \in Message /\ 1 \in Pos(wire) /\ Head(wire) = wire[1]
          /\ passed' = IF wire[1].kind = "live" THEN wire[1].of ELSE passed
          /\ UNCHANGED <<emitted, emitting, disk, dark>>
        BY <1>1, <1>6, RouteLiveDoes DEF Drops
    <2>2. \A e \in Nat : Forwarded(e)' <=> Forwarded(e)
        BY <2>1 DEF Forwarded
    <2>3. CASE wire[1].kind # "live"
        <3>1. \A e \in Nat : Has(wire, Live(e)) => Has(wire', Live(e))
            <4> SUFFICES ASSUME NEW e \in Nat, Has(wire, Live(e)) PROVE Has(wire', Live(e))
                OBVIOUS
            <4>1. Live(e).kind = "live"
                BY DEF Live
            <4> QED BY <2>1, <2>3, <4>1, HasDropped
        <3> QED BY <1>1, <2>1, <2>2, <2>3, <3>1 DEF SessionInv
    <2>4. CASE wire[1].kind = "live"
        <3>1. /\ passed' = wire[1].of /\ passed < wire[1].of /\ Forwarded(wire[1].of)
              /\ wire[1].of \in Nat /\ passed \in Nat /\ emitted \in Nat
            BY <1>1, <2>1, <2>4, MessageFacts DEF LiveInv, TypeOK
        <3>2. passed' <= emitted /\ (emitting => passed' < emitted)
            BY <3>1 DEF Forwarded
        <3>3. ASSUME NEW e \in Nat, Forwarded(e)
              PROVE  e \in dark \/ e <= passed' \/ Has(wire', Live(e))
            <4>1. CASE e \in dark \/ e <= passed
                BY <3>1, <4>1
            <4>2. CASE Has(wire, Live(e))
                <5>1. Live(e) = wire[1] \/ Has(wire', Live(e))
                    BY <2>1, <4>2, HasDropped
                <5>2. Live(e).of = e
                    BY DEF Live
                <5> QED BY <3>1, <5>1, <5>2
            <4> QED BY <1>1, <3>3, <4>1, <4>2 DEF SessionInv
        <3> QED BY <1>1, <2>1, <2>2, <3>2, <3>3 DEF SessionInv
    <2> QED BY <2>3, <2>4
<1> QED BY <1>2, <1>3, <1>4, <1>5, <1>6

\* Only Forward sends live events.
LEMMA WireSteps ==
    ASSUME IInv, [Next]_vars, ~Forward
    PROVE  \/ wire' = wire
           \/ Drops(wire, wire')
           \/ Grows /\ \A k \in Pos(wire') : New(k) => wire'[k].kind # "live"
<1> USE DEF sessionVars, leaderVars
<1>1. TypeOK
    BY DEF IInv
<1>2. CASE UNCHANGED vars \/ Persist \/ Write \/ Attach
    BY <1>2 DEF vars, Persist, Write, Attach
<1>3. CASE RouteReplay \/ RouteLive \/ RouteResponse
    BY <1>1, <1>3, RouteReplayDoes, RouteLiveDoes, RouteResponseDoes
<1>4. ASSUME NEW i \in Interactions, Sends(Asked(i)) \/ Sends(Resolved(i))
      PROVE  Grows /\ \A k \in Pos(wire') : New(k) => wire'[k].kind # "live"
    BY <1>4, Made DEF Sends
<1>5. ASSUME NEW i \in Interactions, Ask(i) \/ Withdraw(i)
      PROVE  Grows /\ \A k \in Pos(wire') : New(k) => wire'[k].kind # "live"
    BY <1>4, <1>5, SendsDoes DEF Withdraw
<1>6. ASSUME NEW c \in Clients, AttachFails(c) \/ Respond(c)
      PROVE  Grows /\ \A k \in Pos(wire') : New(k) => wire'[k].kind # "live"
    <2>1. Sends(Answer("error", c)) \/ Sends(Answer("result", c))
        BY <1>6, SendsDoes
    <2> QED BY <2>1, Made DEF Sends
<1>7. ASSUME NEW c \in Clients, Replay(c) \/ Delta(c)
      PROVE  Grows /\ \A k \in Pos(wire') : New(k) => wire'[k].kind # "live"
    BY <1>7, SendsDoes DEF SendsLines
<1>8. ASSUME NEW c \in Clients, TakeAnswer(c)
      PROVE  \/ wire' = wire
             \/ Grows /\ \A k \in Pos(wire') : New(k) => wire'[k].kind # "live"
    <2>1. PICK i \in Interactions, by \in {"user", "pager"} :
              Resolve(i, by) \/ UNCHANGED <<open, fate, wire>>
        BY <1>1, <1>8, TakeAnswerDoes
    <2> QED BY <1>4, <2>1, SendsDoes
<1>9. ASSUME NEW c \in Clients,
             NoReplay(c) \/ BeginFlush(c) \/ NoDelta(c) \/ OpenGate(c) \/ UserAnswers(c)
             \/ (\E replay \in BOOLEAN : RequestAttach(c, replay)) \/ Disconnect(c)
      PROVE  wire' = wire
    BY <1>9 DEF NoReplay, BeginFlush, NoDelta, OpenGate, UserAnswers, RequestAttach, Disconnect
<1> QED BY NextCases, <1>2, <1>3, <1>5, <1>6, <1>7, <1>8, <1>9

LEMMA DropsIncreasing ==
    ASSUME NEW s, NEW r, Drops(s, r), NEW kind, Increasing(s, kind)
    PROVE  Increasing(r, kind)
<1> SUFFICES ASSUME NEW j \in Pos(r), NEW k \in Pos(r), j < k, r[j].kind = kind, r[k].kind = kind
             PROVE  r[j].of < r[k].of
    BY DEF Increasing
<1>1. /\ j + 1 \in Pos(s) /\ k + 1 \in Pos(s) /\ j + 1 < k + 1
      /\ r[j] = s[j + 1] /\ r[k] = s[k + 1]
    BY DEF Drops, Pos
<1> QED BY <1>1 DEF Increasing

LEMMA KeepsLive ==
    ASSUME IInv, [Next]_vars
    PROVE  LiveInv'
<1> USE DEF sessionVars, leaderVars
<1>1. TypeOK /\ SessionInv /\ LiveInv
    BY DEF IInv
<1>2. \A k \in Pos(wire) : wire[k] \in Message /\ (wire[k].kind = "live" => wire[k].of \in Nat)
    BY <1>1, MessageFacts DEF TypeOK, Pos
<1>3. CASE Persist
    <2>1. \A e \in Nat : Forwarded(e) => Forwarded(e)'
        BY <1>1, <1>3 DEF TypeOK, Persist, Forwarded
    <2>2. wire' = wire /\ passed' = passed
        BY <1>3 DEF Persist
    <2> QED BY <1>1, <1>2, <2>1, <2>2 DEF LiveInv
<1>4. CASE Forward
    <2>1. \A e \in Nat : Forwarded(e) => Forwarded(e)' /\ e < emitted
        BY <1>1, <1>4 DEF TypeOK, Forward, Forwarded
    <2>2. /\ passed' = passed /\ passed < emitted /\ emitted \in Nat \ {0} /\ emitted' = emitted
          /\ Forwarded(emitted)'
        BY <1>1, <1>4 DEF TypeOK, Forward, SessionInv, Forwarded
    <2>3. CASE ~gate
        <3>1. wire' = wire
            BY <1>4, <2>3 DEF Forward
        <3> QED BY <1>1, <1>2, <2>1, <2>2, <3>1 DEF LiveInv
    <2>4. CASE gate
        <3>1. Sends(Live(emitted)) /\ Live(emitted).of = emitted
            BY <1>4, <2>2, <2>4, SendsDoes, Made
        <3>2. ASSUME NEW j \in Pos(wire'), NEW k \in Pos(wire'), j < k,
                     wire'[j].kind = "live", wire'[k].kind = "live"
              PROVE  wire'[j].of < wire'[k].of
            <4>1. j \in Pos(wire)
                <5> SUFFICES ASSUME New(j) PROVE FALSE
                    BY DEF New
                <5>1. CASE k \in Pos(wire)
                    <6>1. k < j
                        BY <3>1, <5>1 DEF Sends, Grows
                    <6> QED BY <3>2, <6>1 DEF Pos
                <5>2. CASE New(k)
                    BY <3>1, <3>2, <5>2 DEF Sends, Pos
                <5> QED BY <5>1, <5>2 DEF New
            <4>2. wire'[j] = wire[j] /\ wire[j].of \in Nat /\ Forwarded(wire[j].of)
                BY <1>1, <1>2, <3>1, <3>2, <4>1 DEF Sends, Grows, LiveInv
            <4>3. CASE k \in Pos(wire)
                <5>1. wire'[k] = wire[k]
                    BY <3>1, <4>3 DEF Sends, Grows
                <5> QED BY <1>1, <3>2, <4>1, <4>2, <4>3, <5>1 DEF LiveInv, Increasing
            <4>4. CASE New(k)
                BY <2>1, <3>1, <4>2, <4>4 DEF Sends
            <4> QED BY <4>3, <4>4 DEF New
        <3>3. ASSUME NEW k \in Pos(wire'), wire'[k].kind = "live"
              PROVE  (passed < wire[k].of /\ Forwarded(wire[k].of))'
            <4>1. CASE k \in Pos(wire)
                <5>1. wire'[k] = wire[k]
                    BY <3>1, <4>1 DEF Sends, Grows
                <5> QED BY <1>1, <1>2, <2>1, <2>2, <3>3, <4>1, <5>1 DEF LiveInv
            <4>2. CASE New(k)
                <5>1. wire'[k].of = emitted
                    BY <3>1, <4>2 DEF Sends
                <5> QED BY <2>2, <5>1 DEF Forwarded
            <4> QED BY <4>1, <4>2 DEF New
        <3> QED BY <3>2, <3>3 DEF LiveInv, Increasing
    <2> QED BY <2>3, <2>4
<1>5. CASE RouteLive
    <2>1. /\ Drops(wire, wire') /\ wire[1] \in Message /\ 1 \in Pos(wire)
          /\ passed' = IF wire[1].kind = "live" THEN wire[1].of ELSE passed
          /\ UNCHANGED <<emitted, emitting>>
        BY <1>1, <1>5, RouteLiveDoes DEF Drops
    <2>2. Increasing(wire, "live")'
        BY <1>1, <2>1, DropsIncreasing DEF LiveInv
    <2>3. ASSUME NEW k \in Pos(wire'), wire'[k].kind = "live"
          PROVE  (passed < wire[k].of /\ Forwarded(wire[k].of))'
        <3>1. k + 1 \in Pos(wire) /\ wire'[k] = wire[k + 1] /\ 1 < k + 1
            BY <2>1 DEF Drops
        <3>2. passed < wire'[k].of /\ Forwarded(wire'[k].of)
            BY <1>1, <2>3, <3>1 DEF LiveInv
        <3>3. wire[1].kind = "live" => wire[1].of < wire'[k].of
            BY <1>1, <2>1, <2>3, <3>1 DEF LiveInv, Increasing
        <3> QED BY <2>1, <3>2, <3>3 DEF Forwarded
    <2> QED BY <2>2, <2>3 DEF LiveInv
<1>6. CASE ~Persist /\ ~Forward /\ ~RouteLive
    <2>1. UNCHANGED <<emitted, emitting, passed>>
        BY <1>6, Quiet DEF Write
    <2>2. CASE wire' = wire
        BY <1>1, <2>1, <2>2 DEF LiveInv, Forwarded
    <2>3. CASE Drops(wire, wire')
        <3>1. Increasing(wire, "live")'
            BY <1>1, <2>3, DropsIncreasing DEF LiveInv
        <3> QED BY <1>1, <2>1, <2>3, <3>1 DEF LiveInv, Forwarded, Drops
    <2>4. CASE Grows /\ \A k \in Pos(wire') : New(k) => wire'[k].kind # "live"
        <3>1. \A k \in Pos(wire') : wire'[k].kind = "live" => k \in Pos(wire) /\ wire'[k] = wire[k]
            BY <2>4 DEF Grows
        <3> QED BY <1>1, <2>1, <3>1 DEF LiveInv, Increasing, Forwarded
    <2> QED BY <1>6, <2>2, <2>3, <2>4, WireSteps
<1> QED BY <1>3, <1>4, <1>5, <1>6

\* The steps that leave the attaches alone, and those that do not replay.
LEMMA NoTask ==
    ASSUME IInv, [Next]_vars, ~Attach,
           \A c \in Clients : /\ ~Replay(c) /\ ~NoReplay(c) /\ ~AttachFails(c) /\ ~BeginFlush(c)
                              /\ ~Delta(c) /\ ~NoDelta(c) /\ ~OpenGate(c) /\ ~Respond(c)
    PROVE  UNCHANGED <<task, straddled>>
<1> USE DEF sessionVars, leaderVars
<1>1. TypeOK
    BY DEF IInv
<1>2. CASE UNCHANGED vars \/ Persist \/ Forward \/ Write
    BY <1>2 DEF vars, Persist, Forward, Write
<1>3. CASE RouteReplay \/ RouteLive \/ RouteResponse
    BY <1>3 DEF RouteReplay, RouteLive, RouteResponse
<1>4. CASE \E i \in Interactions : Ask(i) \/ Withdraw(i)
    BY <1>4 DEF Ask, Withdraw
<1>5. CASE \E c \in Clients : TakeAnswer(c) \/ UserAnswers(c) \/ Disconnect(c)
                              \/ \E replay \in BOOLEAN : RequestAttach(c, replay)
    BY <1>5 DEF TakeAnswer, UserAnswers, RequestAttach, Disconnect
<1> QED BY NextCases, <1>2, <1>3, <1>4, <1>5

LEMMA KeepsTask ==
    ASSUME IInv, [Next]_vars
    PROVE  TaskInv'
<1> USE DEF sessionVars, leaderVars
<1>1. TypeOK /\ SessionInv /\ TaskInv
    BY DEF IInv
<1>2. /\ emitted \in Nat /\ disk \in Nat /\ disk <= emitted /\ (emitting => emitted > 0)
      /\ \A d \in Clients : task[d].upTo \in Nat /\ task[d].barrier \in Nat
    BY <1>1 DEF TypeOK, SessionInv, Task
<1>3. CASE Persist
    BY <1>1, <1>2, <1>3 DEF TaskInv, Persist
<1>4. CASE Forward
    BY <1>1, <1>4 DEF TaskInv, Forward
<1>5. CASE Write
    BY <1>1, <1>2, <1>5 DEF TaskInv, Write
<1>6. ASSUME NEW c \in Clients, NEW pc, NEW upTo \in Nat, NEW barrier \in Nat,
             TaskGoes(c, pc, upTo, barrier), UNCHANGED <<disk, emitted, emitting>>,
             straddled \subseteq straddled', upTo <= disk,
             emitting => upTo < emitted \/ emitted \in straddled',
             pc # "delta" => barrier <= upTo
      PROVE  TaskInv'
    <2> SUFFICES ASSUME NEW d \in Clients
                 PROVE  /\ task'[d].upTo <= disk
                        /\ emitting => task'[d].upTo < emitted \/ emitted \in straddled'
                        /\ task'[d].pc # "delta" => task'[d].barrier <= task'[d].upTo
        BY <1>6 DEF TaskInv
    <2>1. CASE d = c
        BY <1>6, <2>1 DEF TaskGoes
    <2>2. CASE d # c
        BY <1>1, <1>6, <2>2 DEF TaskGoes, TaskInv
    <2> QED BY <2>1, <2>2
<1>7. CASE Attach
    <2>1. /\ requests[1][1] \in Clients /\ TaskGoes(requests[1][1], "attach", 0, 0)
          /\ UNCHANGED <<disk, emitted, emitting, straddled>>
        BY <1>1, <1>7, AttachDoes
    <2>2. 0 \in Nat /\ 0 <= disk /\ (emitting => 0 < emitted) /\ 0 <= 0
        BY <1>2
    <2> QED BY <1>6, <2>1, <2>2
<1>8. ASSUME NEW c \in Clients, Replay(c) \/ Delta(c) PROVE TaskInv'
    <2>1. /\ straddled \subseteq straddled' /\ UNCHANGED <<disk, emitted, emitting>>
          /\ emitting => disk < emitted \/ emitted \in straddled'
        BY <1>2, <1>8 DEF Replay, Delta, Straddles
    <2>2. CASE Replay(c)
        BY <1>1, <1>2, <1>6, <2>1, <2>2, TaskDoes
    <2>3. CASE Delta(c)
        <3>1. task[c].barrier <= disk
            BY <1>2, <2>3 DEF Delta, Flushed
        <3> QED BY <1>1, <1>2, <1>6, <2>1, <2>3, <3>1, TaskDoes
    <2> QED BY <1>8, <2>2, <2>3
<1>9. ASSUME NEW c \in Clients, NoReplay(c) \/ AttachFails(c) \/ OpenGate(c) \/ Respond(c)
      PROVE  TaskInv'
    <2>1. PICK pc \in {"idle", "open", "respond"} : Goto(c, pc)
        BY <1>9 DEF NoReplay, AttachFails, OpenGate, Respond
    <2>2. TaskGoes(c, pc, task[c].upTo, task[c].barrier)
        BY <1>1, <2>1, TaskDoes DEF PCs
    <2>3. task[c].pc # "delta" /\ UNCHANGED <<disk, emitted, emitting, straddled>>
        BY <1>9 DEF NoReplay, AttachFails, OpenGate, Respond
    <2>4. /\ task[c].upTo <= disk /\ (emitting => task[c].upTo < emitted \/ emitted \in straddled)
          /\ task[c].barrier <= task[c].upTo
        BY <1>1, <2>3 DEF TaskInv
    <2> QED BY <1>2, <1>6, <2>2, <2>3, <2>4
<1>10. ASSUME NEW c \in Clients, BeginFlush(c) \/ NoDelta(c) PROVE TaskInv'
    <2>1. UNCHANGED <<disk, emitted, emitting, straddled>>
        BY <1>10 DEF BeginFlush, NoDelta
    <2>2. task[c].upTo <= disk /\ (emitting => task[c].upTo < emitted \/ emitted \in straddled)
        BY <1>1 DEF TaskInv
    <2>3. CASE BeginFlush(c)
        <3>1. TaskGoes(c, "delta", task[c].upTo, emitted)
            BY <1>1, <2>3, TaskDoes
        <3> QED BY <1>2, <1>6, <2>1, <2>2, <3>1
    <2>4. CASE NoDelta(c)
        <3>1. TaskGoes(c, "open", task[c].upTo, 0)
            BY <1>1, <2>4, TaskDoes
        <3> QED BY <1>2, <1>6, <2>1, <2>2, <3>1
    <2> QED BY <1>10, <2>3, <2>4
<1>11. CASE /\ UNCHANGED <<task, straddled>> /\ ~Persist /\ ~Forward /\ ~Write
    <2>1. UNCHANGED <<disk, emitted, emitting>>
        BY <1>11, Quiet DEF RouteLive
    <2> QED BY <1>1, <1>11, <2>1 DEF TaskInv
<1> QED BY <1>3, <1>4, <1>5, <1>7, <1>8, <1>9, <1>10, <1>11, NoTask

\* The wire after a step of the session, the pager or the leader's loop.
Plain ==
    \/ wire' = wire
    \/ Drops(wire, wire')
    \/ Grows /\ \A k \in Pos(wire') : New(k) => wire'[k].to = None /\ ~IsAnswer(wire'[k])

LEMMA PlainSteps ==
    ASSUME IInv, [Next]_vars, ~Attach, \A c \in Clients : ~AttachTask(c) /\ ~AttachFails(c)
    PROVE  Plain
<1> USE DEF sessionVars, leaderVars
<1>1. TypeOK
    BY DEF IInv
<1>2. CASE UNCHANGED vars \/ Persist \/ Write
    BY <1>2 DEF Plain, vars, Persist, Write
<1>3. CASE RouteReplay \/ RouteLive \/ RouteResponse
    BY <1>1, <1>3, RouteReplayDoes, RouteLiveDoes, RouteResponseDoes DEF Plain
<1>4. CASE Forward
    <2>1. CASE gate
        <3>1. emitted \in Nat \ {0}
            BY <1>4 DEF IInv, TypeOK, SessionInv, Forward
        <3>2. Sends(Live(emitted)) /\ Live(emitted).to = None /\ ~IsAnswer(Live(emitted))
            BY <1>4, <2>1, <3>1, SendsDoes, Made DEF IsAnswer
        <3> QED BY <3>2 DEF Plain, Sends
    <2>2. CASE ~gate
        BY <1>4, <2>2 DEF Plain, Forward
    <2> QED BY <2>1, <2>2
<1>5. ASSUME NEW i \in Interactions, Sends(Asked(i)) \/ Sends(Resolved(i)) PROVE Plain
    BY <1>5, Made DEF Plain, Sends, IsAnswer
<1>6. ASSUME NEW i \in Interactions, Ask(i) \/ Withdraw(i) PROVE Plain
    BY <1>5, <1>6, SendsDoes DEF Withdraw
<1>7. ASSUME NEW c \in Clients, TakeAnswer(c) PROVE Plain
    <2>1. PICK i \in Interactions, by \in {"user", "pager"} :
              Resolve(i, by) \/ UNCHANGED <<open, fate, wire>>
        BY <1>1, <1>7, TakeAnswerDoes
    <2> QED BY <1>5, <2>1, SendsDoes DEF Plain
<1>8. ASSUME NEW c \in Clients,
             UserAnswers(c) \/ (\E replay \in BOOLEAN : RequestAttach(c, replay)) \/ Disconnect(c)
      PROVE  Plain
    BY <1>8 DEF Plain, UserAnswers, RequestAttach, Disconnect
<1> QED BY NextCases, <1>2, <1>3, <1>4, <1>6, <1>7, <1>8 DEF AttachTask

\* What a plain step leaves on the wire for a client.
LEMMA PlainKeeps ==
    ASSUME IInv, Plain
    PROVE  /\ \A c \in Clients : NothingTo(c) => NothingTo(c)'
           /\ task' = task => AnswerInv'
<1>1. TypeOK /\ AnswerInv /\ None \notin Clients
    BY AttachAssumption DEF IInv
<1>2. \A k \in Pos(wire) : wire[k] \in Message /\ (IsAnswer(wire[k]) => wire[k].to \in Clients)
    BY <1>1, MessageFacts DEF TypeOK, Pos, IsAnswer
<1>3. CASE wire' = wire
    BY <1>1, <1>3 DEF NothingTo, AnswerInv
<1>4. CASE Drops(wire, wire')
    <2>1. \A k \in Pos(wire') : k + 1 \in Pos(wire) /\ wire'[k] = wire[k + 1]
        BY <1>4 DEF Drops
    <2>2. ASSUME task' = task, NEW k \in Pos(wire'), IsAnswer(wire'[k])
          PROVE  /\ task[wire'[k].to].pc = "idle"
                 /\ \A j \in Pos(wire') : k < j => wire'[j].to # wire'[k].to
        <3>1. \A j \in Pos(wire') : k < j => k + 1 < j + 1
            BY DEF Pos
        <3> QED BY <1>1, <2>1, <2>2, <3>1 DEF AnswerInv
    <2> QED BY <2>1, <2>2 DEF NothingTo, AnswerInv
<1>5. CASE Grows /\ \A k \in Pos(wire') : New(k) => wire'[k].to = None /\ ~IsAnswer(wire'[k])
    <2>1. \A c \in Clients : NothingTo(c) => NothingTo(c)'
        BY <1>1, <1>5 DEF NothingTo, Grows
    <2>2. ASSUME task' = task, NEW k \in Pos(wire'), IsAnswer(wire'[k])
          PROVE  /\ task[wire'[k].to].pc = "idle"
                 /\ \A j \in Pos(wire') : k < j => wire'[j].to # wire'[k].to
        <3>1. k \in Pos(wire) /\ wire'[k] = wire[k]
            BY <1>5, <2>2 DEF Grows
        <3> QED BY <1>1, <1>2, <1>5, <2>2, <3>1 DEF AnswerInv, Grows
    <2> QED BY <2>1, <2>2 DEF AnswerInv
<1> QED BY <1>3, <1>4, <1>5 DEF Plain

LEMMA KeepsRequests ==
    ASSUME IInv, [Next]_vars
    PROVE  RequestInv'
<1> USE DEF sessionVars, leaderVars
<1>1. TypeOK /\ RequestInv /\ LifeInv
    BY DEF IInv
<1>2. CASE Attach
    <2>1. \A k \in Pos(requests') : k + 1 \in Pos(requests) /\ requests'[k] = requests[k + 1]
        BY <1>1, <1>2, AttachDoes
    <2>2. \A j, k \in Pos(requests') : j < k => j + 1 < k + 1
        BY DEF Pos
    <2> QED BY <1>1, <2>1, <2>2 DEF RequestInv
<1>3. ASSUME NEW c \in Clients, NEW replay \in BOOLEAN, RequestAttach(c, replay) PROVE RequestInv'
    <2>1. /\ \A k \in Pos(requests) : k \in Pos(requests') /\ requests'[k] = requests[k]
          /\ \A k \in Pos(requests') : k \in Pos(requests) \/ requests'[k][1] = c
          /\ \A j, k \in Pos(requests') : j < k => j \in Pos(requests)
        BY <1>1, <1>3, RequestAttachDoes
    <2>2. \A k \in Pos(requests) : requests[k][1] # c
        BY <1>1, <1>3 DEF LifeInv, RequestAttach, Requested
    <2> QED BY <1>1, <2>1, <2>2 DEF RequestInv
<1>4. CASE UNCHANGED requests
    BY <1>1, <1>4 DEF RequestInv
<1>5. CASE \E c \in Clients : AttachTask(c) \/ AttachFails(c) \/ TakeAnswer(c) \/ UserAnswers(c)
                              \/ Disconnect(c)
    BY <1>4, <1>5 DEF AttachTask, Replay, NoReplay, BeginFlush, Delta, NoDelta, OpenGate, Respond,
                      AttachFails, TakeAnswer, UserAnswers, Disconnect
<1>6. CASE UNCHANGED vars \/ Persist \/ Forward \/ Write \/ RouteReplay \/ RouteLive \/ RouteResponse
    BY <1>4, <1>6 DEF vars, Persist, Forward, Write, RouteReplay, RouteLive, RouteResponse
<1>7. CASE \E i \in Interactions : Ask(i) \/ Withdraw(i)
    BY <1>4, <1>7 DEF Ask, Withdraw
<1> QED BY NextCases, <1>2, <1>3, <1>5, <1>6, <1>7 DEF AttachTask

\* An attach that is under way sends to its own client, which is loading or
\* gone and has no answer yet.
LEMMA UnderWay ==
    ASSUME IInv, NEW c \in Clients, task[c].pc # "idle"
    PROVE  /\ conn[c] \notin {"out", "in"} /\ ~Requested(c)
           /\ \A k \in Pos(wire) : IsAnswer(wire[k]) => wire[k].to # c
BY DEF IInv, LifeInv, AnswerInv

LEMMA KeepsLife ==
    ASSUME IInv, [Next]_vars
    PROVE  LifeInv' /\ AnswerInv'
<1> USE DEF sessionVars, leaderVars
<1>1. TypeOK /\ RequestInv /\ LifeInv /\ AnswerInv /\ None \notin Clients
    BY AttachAssumption DEF IInv
<1>2. \A k \in Pos(wire) : wire[k] \in Message /\ (IsAnswer(wire[k]) => wire[k].to \in Clients)
    BY <1>1, MessageFacts DEF TypeOK, Pos, IsAnswer
<1>3. CASE Plain /\ UNCHANGED <<conn, requests, task>>
    <2>1. AnswerInv' /\ \A c \in Clients : NothingTo(c) => NothingTo(c)'
        BY <1>3, PlainKeeps
    <2>2. \A c \in Clients : Requested(c)' <=> Requested(c)
        BY <1>3 DEF Requested
    <2> QED BY <1>1, <1>3, <2>1, <2>2 DEF LifeInv
<1>4. CASE Attach
    <2>1. PICK c \in Clients :
              /\ c = requests[1][1] /\ 1 \in Pos(requests) /\ TaskGoes(c, "attach", 0, 0)
              /\ \A k \in Pos(requests') : k + 1 \in Pos(requests) /\ requests'[k] = requests[k + 1]
              /\ wire' = wire /\ conn' = conn
        BY <1>1, <1>4, AttachDoes
    <2>2. Requested(c)
        BY <2>1 DEF Requested
    <2>3. ~Requested(c)'
        <3>1. \A k \in Pos(requests') : 1 < k + 1
            BY DEF Pos
        <3> QED BY <1>1, <2>1, <3>1 DEF RequestInv, Requested
    <2>4. \A d \in Clients : Requested(d)' => Requested(d)
        BY <2>1 DEF Requested
    <2>5. conn[c] \notin {"out", "in"} /\ NothingTo(c)
        BY <1>1, <2>1, <2>2 DEF LifeInv
    <2>6. LifeInv'
        <3> SUFFICES ASSUME NEW d \in Clients
                     PROVE  (/\ conn[d] \in {"out", "in"} => ~Requested(d) /\ task[d].pc = "idle"
                             /\ conn[d] \in {"out", "in"} \/ Requested(d) => NothingTo(d)
                             /\ Requested(d) => task[d].pc = "idle"
                             /\ conn[d] = "out" \/ Requested(d) \/ task[d].pc = "attach"
                                   => task[d].upTo = 0)'
            BY DEF LifeInv
        <3>1. CASE d = c
            <4>1. conn'[d] \notin {"out", "in"} /\ ~Requested(d)' /\ task'[d].upTo = 0
                BY <2>1, <2>3, <2>5, <3>1 DEF TaskGoes
            <4> QED BY <4>1
        <3>2. CASE d # c
            BY <1>1, <2>1, <2>4, <3>2 DEF LifeInv, TaskGoes, NothingTo
        <3> QED BY <3>1, <3>2
    <2>7. AnswerInv'
        <3>1. \A k \in Pos(wire) : IsAnswer(wire[k]) => wire[k].to # c
            BY <2>5 DEF NothingTo
        <3> QED BY <1>1, <1>2, <2>1, <3>1 DEF AnswerInv, TaskGoes
    <2> QED BY <2>6, <2>7
<1>5. ASSUME NEW c \in Clients, task[c].pc # "idle",
             NEW pc, NEW upTo, NEW barrier, TaskGoes(c, pc, upTo, barrier), pc # "attach",
             UNCHANGED <<conn, requests>>, wire' = wire \/ Grows,
             \A k \in Pos(wire') : New(k) => wire'[k].to = c
      PROVE  LifeInv'
    <2>1. \A d \in Clients : d # c /\ NothingTo(d) => NothingTo(d)'
        BY <1>5 DEF NothingTo, Grows
    <2>2. conn[c] \notin {"out", "in"} /\ ~Requested(c)
        BY <1>5, UnderWay
    <2>3. \A d \in Clients : Requested(d)' <=> Requested(d)
        BY <1>5 DEF Requested
    <2> SUFFICES ASSUME NEW d \in Clients
                 PROVE  (/\ conn[d] \in {"out", "in"} => ~Requested(d) /\ task[d].pc = "idle"
                         /\ conn[d] \in {"out", "in"} \/ Requested(d) => NothingTo(d)
                         /\ Requested(d) => task[d].pc = "idle"
                         /\ conn[d] = "out" \/ Requested(d) \/ task[d].pc = "attach"
                               => task[d].upTo = 0)'
        BY DEF LifeInv
    <2>4. CASE d = c
        <3>1. conn'[d] \notin {"out", "in"} /\ ~Requested(d)' /\ task'[d].pc # "attach"
            BY <1>5, <2>2, <2>3, <2>4 DEF TaskGoes
        <3> QED BY <3>1
    <2>5. CASE d # c
        BY <1>1, <1>5, <2>1, <2>3, <2>5 DEF LifeInv, TaskGoes
    <2> QED BY <2>4, <2>5
<1>6. ASSUME NEW c \in Clients, NoReplay(c) \/ OpenGate(c) \/ BeginFlush(c) \/ NoDelta(c)
      PROVE  LifeInv' /\ AnswerInv'
    <2>1. PICK pc, upTo, barrier :
              pc \in {"open", "respond", "delta"} /\ TaskGoes(c, pc, upTo, barrier)
        BY <1>1, <1>6, TaskDoes DEF PCs, NoReplay, OpenGate
    <2>2. task[c].pc # "idle" /\ UNCHANGED <<conn, requests, wire>>
        BY <1>6 DEF NoReplay, OpenGate, BeginFlush, NoDelta
    <2>3. LifeInv'
        BY <1>5, <2>1, <2>2 DEF New
    <2>4. \A k \in Pos(wire) : IsAnswer(wire[k]) => wire[k].to # c
        BY <2>2, UnderWay
    <2> QED BY <1>1, <1>2, <2>1, <2>2, <2>3, <2>4 DEF AnswerInv, TaskGoes
<1>7. ASSUME NEW c \in Clients, Replay(c) \/ Delta(c) PROVE LifeInv' /\ AnswerInv'
    <2>1. PICK pc, upTo, barrier : pc \in {"replayed", "open"} /\ TaskGoes(c, pc, upTo, barrier)
        BY <1>1, <1>7, TaskDoes
    <2>2. task[c].pc # "idle" /\ UNCHANGED <<conn, requests>>
        BY <1>7 DEF Replay, Delta
    <2>3. /\ Grows
          /\ \A k \in Pos(wire') : New(k) => wire'[k].to = c /\ ~IsAnswer(wire'[k])
        BY <1>7, SendsDoes DEF SendsLines, IsAnswer
    <2>4. LifeInv'
        BY <1>5, <2>1, <2>2, <2>3
    <2>5. \A k \in Pos(wire) : IsAnswer(wire[k]) => wire[k].to # c
        BY <2>2, UnderWay
    <2>6. ASSUME NEW k \in Pos(wire'), IsAnswer(wire'[k])
          PROVE  /\ task'[wire'[k].to].pc = "idle"
                 /\ \A j \in Pos(wire') : k < j => wire'[j].to # wire'[k].to
        <3>1. k \in Pos(wire) /\ wire'[k] = wire[k]
            BY <2>3, <2>6 DEF Grows
        <3>2. wire[k].to # c /\ wire[k].to \in Clients
            BY <1>2, <2>5, <2>6, <3>1
        <3> QED BY <1>1, <2>1, <2>3, <2>6, <3>1, <3>2 DEF AnswerInv, TaskGoes, Grows
    <2> QED BY <2>4, <2>6 DEF AnswerInv
<1>8. ASSUME NEW c \in Clients, AttachFails(c) \/ Respond(c) PROVE LifeInv' /\ AnswerInv'
    <2>1. TaskGoes(c, "idle", task[c].upTo, task[c].barrier)
        BY <1>1, <1>8, TaskDoes DEF PCs, AttachFails, Respond
    <2>2. task[c].pc # "idle" /\ UNCHANGED <<conn, requests>>
        BY <1>8 DEF AttachFails, Respond
    <2>3. PICK kind \in {"error", "result"} : Sends(Answer(kind, c))
        BY <1>8, SendsDoes
    <2>4. Answer(kind, c).to = c
        BY Made
    <2>5. LifeInv'
        BY <1>5, <2>1, <2>2, <2>3, <2>4 DEF Sends
    <2>6. \A k \in Pos(wire) : IsAnswer(wire[k]) => wire[k].to # c
        BY <2>2, UnderWay
    <2>7. ASSUME NEW k \in Pos(wire'), IsAnswer(wire'[k])
          PROVE  /\ task'[wire'[k].to].pc = "idle"
                 /\ \A j \in Pos(wire') : k < j => wire'[j].to # wire'[k].to
        <3>1. CASE k \in Pos(wire)
            <4>1. wire'[k] = wire[k] /\ wire[k].to # c /\ wire[k].to \in Clients
                BY <1>2, <2>3, <2>6, <2>7, <3>1 DEF Sends, Grows
            <4>2. task'[wire[k].to].pc = "idle"
                BY <1>1, <2>1, <2>7, <3>1, <4>1 DEF AnswerInv, TaskGoes
            <4>3. ASSUME NEW j \in Pos(wire'), k < j PROVE wire'[j].to # wire[k].to
                <5>1. CASE j \in Pos(wire)
                    BY <1>1, <2>3, <2>7, <3>1, <4>1, <4>3, <5>1 DEF AnswerInv, Sends, Grows
                <5>2. CASE New(j)
                    BY <2>3, <2>4, <4>1, <5>2 DEF Sends
                <5> QED BY <2>3, <5>1, <5>2 DEF Sends, Grows
            <4> QED BY <4>1, <4>2, <4>3
        <3>2. CASE New(k)
            <4>1. wire'[k].to = c
                BY <2>3, <2>4, <3>2 DEF Sends
            <4>2. \A j \in Pos(wire') : ~(k < j)
                <5> SUFFICES ASSUME NEW j \in Pos(wire'), k < j PROVE FALSE
                    OBVIOUS
                <5>1. CASE j \in Pos(wire)
                    <6>1. j < k
                        BY <2>3, <3>2, <5>1 DEF Sends, Grows
                    <6> QED BY <6>1 DEF Pos
                <5>2. CASE New(j)
                    BY <2>3, <3>2, <5>2 DEF Sends, Pos
                <5> QED BY <2>3, <5>1, <5>2 DEF Sends, Grows
            <4> QED BY <2>1, <4>1, <4>2 DEF TaskGoes
        <3> QED BY <2>3, <3>1, <3>2 DEF Sends, Grows
    <2> QED BY <2>5, <2>7 DEF AnswerInv
<1>9. ASSUME NEW c \in Clients, NEW replay \in BOOLEAN, RequestAttach(c, replay)
      PROVE  LifeInv' /\ AnswerInv'
    <2>1. \A d \in Clients : Requested(d)' => Requested(d) \/ d = c
        BY <1>1, <1>9, RequestAttachDoes DEF Requested
    <2>2. /\ conn[c] = "out" /\ conn'[c] = "loading" /\ UNCHANGED <<task, wire>>
          /\ \A d \in Clients : d # c => conn'[d] = conn[d]
        BY <1>1, <1>9 DEF RequestAttach, TypeOK
    <2>3. NothingTo(c) /\ task[c].pc = "idle" /\ task[c].upTo = 0
        BY <1>1, <2>2 DEF LifeInv
    <2>4. LifeInv'
        <3> SUFFICES ASSUME NEW d \in Clients
                     PROVE  (/\ conn[d] \in {"out", "in"} => ~Requested(d) /\ task[d].pc = "idle"
                             /\ conn[d] \in {"out", "in"} \/ Requested(d) => NothingTo(d)
                             /\ Requested(d) => task[d].pc = "idle"
                             /\ conn[d] = "out" \/ Requested(d) \/ task[d].pc = "attach"
                                   => task[d].upTo = 0)'
            BY DEF LifeInv
        <3>1. CASE d = c
            BY <2>2, <2>3, <3>1 DEF NothingTo
        <3>2. CASE d # c
            BY <1>1, <2>1, <2>2, <3>2 DEF LifeInv, NothingTo
        <3> QED BY <3>1, <3>2
    <2> QED BY <1>1, <2>2, <2>4 DEF AnswerInv
<1>10. ASSUME NEW c \in Clients, Disconnect(c) PROVE LifeInv' /\ AnswerInv'
    <2>1. /\ conn'[c] = "gone" /\ conn[c] # "out" /\ UNCHANGED <<task, wire, requests>>
          /\ \A d \in Clients : d # c => conn'[d] = conn[d]
        BY <1>1, <1>10 DEF Disconnect, TypeOK
    <2>2. \A d \in Clients : Requested(d)' <=> Requested(d)
        BY <2>1 DEF Requested
    <2>3. \A d \in Clients : NothingTo(d)' <=> NothingTo(d)
        BY <2>1 DEF NothingTo
    <2>4. \A d \in Clients : conn'[d] \in {"out", "in"} => conn'[d] = conn[d]
        BY <2>1
    <2>5. LifeInv'
        BY <1>1, <2>1, <2>2, <2>3, <2>4 DEF LifeInv
    <2> QED BY <1>1, <2>1, <2>5 DEF AnswerInv
<1>11. CASE RouteResponse
    <2>1. PICK c \in Clients :
              /\ Drops(wire, wire') /\ IsAnswer(wire[1]) /\ c = wire[1].to /\ 1 \in Pos(wire)
              /\ (conn' = conn \/ LetsIn(c)) /\ UNCHANGED <<requests, task>>
        BY <1>1, <1>11, RouteResponseDoes DEF Drops
    <2>2. CASE conn' = conn
        BY <1>3, <2>1, <2>2 DEF Plain
    <2>3. CASE LetsIn(c)
        <3>1. AnswerInv' /\ \A d \in Clients : NothingTo(d) => NothingTo(d)'
            BY <2>1, PlainKeeps DEF Plain
        <3>2. task[c].pc = "idle" /\ ~Requested(c)
            BY <1>1, <2>1 DEF AnswerInv, LifeInv, NothingTo
        <3>3. NothingTo(c)'
            <4> SUFFICES ASSUME NEW k \in Pos(wire') PROVE wire'[k].to # c
                BY DEF NothingTo
            <4>1. k + 1 \in Pos(wire) /\ wire'[k] = wire[k + 1] /\ 1 < k + 1
                BY <2>1 DEF Drops
            <4> QED BY <1>1, <2>1, <4>1 DEF AnswerInv
        <3>4. \A d \in Clients : Requested(d)' <=> Requested(d)
            BY <2>1 DEF Requested
        <3>5. /\ conn'[c] = "in" /\ conn[c] = "loading"
              /\ \A d \in Clients : d # c => conn'[d] = conn[d]
            BY <1>1, <2>1, <2>3 DEF LetsIn, TypeOK
        <3>6. LifeInv'
            <4> SUFFICES ASSUME NEW d \in Clients
                         PROVE  (/\ conn[d] \in {"out", "in"} => ~Requested(d) /\ task[d].pc = "idle"
                                 /\ conn[d] \in {"out", "in"} \/ Requested(d) => NothingTo(d)
                                 /\ Requested(d) => task[d].pc = "idle"
                                 /\ conn[d] = "out" \/ Requested(d) \/ task[d].pc = "attach"
                                       => task[d].upTo = 0)'
                BY DEF LifeInv
            <4>1. CASE d = c
                BY <2>1, <3>2, <3>3, <3>4, <3>5, <4>1
            <4>2. CASE d # c
                BY <1>1, <2>1, <3>1, <3>4, <3>5, <4>2 DEF LifeInv
            <4> QED BY <4>1, <4>2
        <3> QED BY <3>1, <3>6
    <2> QED BY <2>1, <2>2, <2>3
<1>12. CASE /\ ~Attach /\ ~RouteResponse
            /\ \A c \in Clients : /\ ~AttachTask(c) /\ ~AttachFails(c) /\ ~Disconnect(c)
                                  /\ \A replay \in BOOLEAN : ~RequestAttach(c, replay)
    <2>1. Plain
        BY <1>12, PlainSteps
    <2>2. CASE UNCHANGED vars \/ Persist \/ Forward \/ Write \/ RouteReplay \/ RouteLive
        BY <1>3, <2>1, <2>2 DEF vars, Persist, Forward, Write, RouteReplay, RouteLive
    <2>3. CASE \E i \in Interactions : Ask(i) \/ Withdraw(i)
        BY <1>3, <2>1, <2>3 DEF Ask, Withdraw
    <2>4. CASE \E c \in Clients : TakeAnswer(c) \/ UserAnswers(c)
        BY <1>3, <2>1, <2>4 DEF TakeAnswer, UserAnswers
    <2> QED BY <1>12, <2>2, <2>3, <2>4, NextCases DEF AttachTask
<1> QED BY <1>4, <1>6, <1>7, <1>8, <1>9, <1>10, <1>11, <1>12 DEF AttachTask

\* What a step does to the wire and to how far the replays reach.
More(c) ==
    /\ SendsLines(c, task[c].upTo) /\ task'[c].upTo = disk
    /\ \A d \in Clients : d # c => task'[d].upTo = task[d].upTo
    /\ straddled \subseteq straddled'

NoMore == (\A c \in Clients : task'[c].upTo = task[c].upTo) /\ straddled' = straddled

SendsOther == Grows /\ \A k \in Pos(wire') : New(k) => wire'[k].kind \notin {"live", "rep"}

LEMMA Sending ==
    ASSUME IInv, [Next]_vars
    PROVE  \/ \E c \in Clients : More(c)
           \/ NoMore /\ wire' = wire
           \/ NoMore /\ (RouteReplay \/ RouteLive \/ RouteResponse) /\ Drops(wire, wire')
           \/ NoMore /\ SendsOther
           \/ NoMore /\ Forward /\ Sends(Live(emitted))
<1> USE DEF sessionVars, leaderVars
<1>1. TypeOK /\ LifeInv
    BY DEF IInv
<1>2. ASSUME NEW c \in Clients, Replay(c) \/ Delta(c) PROVE More(c)
    <2>1. TaskGoes(c, "replayed", disk, 0) \/ TaskGoes(c, "open", disk, task[c].barrier)
        BY <1>1, <1>2, TaskDoes
    <2>2. SendsLines(c, task[c].upTo)
        <3>1. Replay(c) => task[c].upTo = 0
            BY <1>1 DEF LifeInv, Replay
        <3> QED BY <1>2, <3>1, SendsDoes
    <2>3. straddled \subseteq straddled'
        BY <1>2 DEF Replay, Delta, Straddles
    <2> QED BY <2>1, <2>2, <2>3 DEF More, TaskGoes
<1>3. CASE Attach
    <2>1. PICK c \in Clients :
              /\ c = requests[1][1] /\ 1 \in Pos(requests) /\ TaskGoes(c, "attach", 0, 0)
              /\ UNCHANGED <<wire, straddled>>
        BY <1>1, <1>3, AttachDoes
    <2>2. task[c].upTo = 0
        BY <1>1, <2>1 DEF LifeInv, Requested
    <2> QED BY <2>1, <2>2 DEF NoMore, TaskGoes
<1>4. ASSUME NEW c \in Clients,
             NoReplay(c) \/ AttachFails(c) \/ BeginFlush(c) \/ NoDelta(c) \/ OpenGate(c) \/ Respond(c)
      PROVE  NoMore
    <2>1. \E pc, barrier : TaskGoes(c, pc, task[c].upTo, barrier)
        BY <1>1, <1>4, TaskDoes DEF PCs, NoReplay, AttachFails, OpenGate, Respond
    <2>2. straddled' = straddled
        BY <1>4 DEF NoReplay, AttachFails, BeginFlush, NoDelta, OpenGate, Respond
    <2> QED BY <2>1, <2>2 DEF NoMore, TaskGoes
<1>5. ASSUME NEW c \in Clients, NoReplay(c) \/ BeginFlush(c) \/ NoDelta(c) \/ OpenGate(c)
      PROVE  wire' = wire
    BY <1>5 DEF NoReplay, BeginFlush, NoDelta, OpenGate
<1>6. ASSUME NEW c \in Clients, AttachFails(c) \/ Respond(c) PROVE SendsOther
    <2>1. PICK kind \in {"error", "result"} : Sends(Answer(kind, c))
        BY <1>6, SendsDoes
    <2> QED BY <2>1, Made DEF Sends, SendsOther
<1>7. ASSUME ~Attach,
             \A c \in Clients : /\ ~Replay(c) /\ ~NoReplay(c) /\ ~AttachFails(c) /\ ~BeginFlush(c)
                                /\ ~Delta(c) /\ ~NoDelta(c) /\ ~OpenGate(c) /\ ~Respond(c)
      PROVE  NoMore
    BY <1>7, NoTask DEF NoMore
<1>8. ASSUME NEW i \in Interactions, Sends(Asked(i)) \/ Sends(Resolved(i)) PROVE SendsOther
    BY <1>8, Made DEF SendsOther, Sends
<1>9. ASSUME NEW i \in Interactions, Ask(i) \/ Withdraw(i) PROVE SendsOther
    BY <1>8, <1>9, SendsDoes DEF Withdraw
<1>10. ASSUME NEW c \in Clients, TakeAnswer(c) PROVE SendsOther \/ wire' = wire
    <2>1. PICK i \in Interactions, by \in {"user", "pager"} :
              Resolve(i, by) \/ UNCHANGED <<open, fate, wire>>
        BY <1>1, <1>10, TakeAnswerDoes
    <2> QED BY <1>8, <2>1, SendsDoes
<1>11. CASE Forward
    BY <1>11, SendsDoes DEF Forward, NoMore
<1>12. CASE RouteReplay \/ RouteLive \/ RouteResponse
    <2>1. NoMore
        BY <1>12 DEF NoMore, RouteReplay, RouteLive, RouteResponse
    <2> QED BY <1>1, <1>12, <2>1, RouteReplayDoes, RouteLiveDoes, RouteResponseDoes
<1>13. CASE UNCHANGED vars \/ Persist \/ Write
    BY <1>13 DEF vars, Persist, Write, NoMore
<1>14. ASSUME NEW c \in Clients,
              UserAnswers(c) \/ (\E replay \in BOOLEAN : RequestAttach(c, replay)) \/ Disconnect(c)
       PROVE  wire' = wire
    BY <1>14 DEF UserAnswers, RequestAttach, Disconnect
<1> QED BY NextCases, <1>2, <1>3, <1>4, <1>5, <1>6, <1>7, <1>9, <1>10, <1>11, <1>12, <1>13, <1>14

\* A replayed event does not overtake one that follows it.
LEMMA LiveFollows ==
    ASSUME IInv, Forward, NEW c \in Clients, NEW e \in Nat, e <= task[c].upTo
    PROVE  Follows(e, emitted)
<1>1. /\ task[c].upTo \in Nat /\ task[c].upTo <= disk /\ disk \in Nat /\ emitted \in Nat
      /\ disk <= emitted /\ (task[c].upTo < emitted \/ emitted \in straddled)
    BY DEF IInv, TypeOK, Task, TaskInv, SessionInv, Forward
<1> QED BY <1>1 DEF Follows

LEMMA ReplayedKept ==
    ASSUME IInv, [Next]_vars, NEW c \in Clients, NEW e \in Nat, Replayed(c, e)
    PROVE  Replayed(c, e)'
<1>1. /\ TypeOK /\ e <= task[c].upTo /\ task[c].upTo \in Nat
      /\ \A j \in Pos(wire) :
            /\ wire[j].kind = "rep" /\ wire[j].to = c => e < wire[j].of
            /\ wire[j].kind = "live" => Follows(e, wire[j].of)
    BY DEF IInv, Replayed, TypeOK, Task
<1>2. straddled \subseteq straddled' /\ e <= task'[c].upTo
    <2>1. task[c].upTo <= disk /\ disk \in Nat
        BY DEF IInv, TypeOK, TaskInv
    <2> QED BY <1>1, <2>1, Sending DEF More, NoMore
<1> SUFFICES ASSUME NEW j \in Pos(wire')
             PROVE  (/\ wire[j].kind = "rep" /\ wire[j].to = c => e < wire[j].of
                     /\ wire[j].kind = "live" => Follows(e, wire[j].of))'
    BY <1>2 DEF Replayed
<1>3. ASSUME NEW k \in Pos(wire), wire'[j] = wire[k]
      PROVE  (/\ wire[j].kind = "rep" /\ wire[j].to = c => e < wire[j].of
              /\ wire[j].kind = "live" => Follows(e, wire[j].of))'
    BY <1>1, <1>2, <1>3 DEF Follows
<1>4. ASSUME NEW d \in Clients, More(d), New(j)
      PROVE  (/\ wire[j].kind = "rep" /\ wire[j].to = c => e < wire[j].of
              /\ wire[j].kind = "live" => Follows(e, wire[j].of))'
    BY <1>1, <1>4 DEF More, SendsLines
<1>5. ASSUME SendsOther, New(j) PROVE wire'[j].kind \notin {"live", "rep"}
    BY <1>5 DEF SendsOther
<1>6. ASSUME Forward, Sends(Live(emitted)), New(j)
      PROVE  (/\ wire[j].kind = "rep" /\ wire[j].to = c => e < wire[j].of
              /\ wire[j].kind = "live" => Follows(e, wire[j].of))'
    <2>1. Follows(e, emitted) /\ Live(emitted).of = emitted /\ Live(emitted).kind = "live"
        BY <1>1, <1>6, LiveFollows DEF Live
    <2>2. wire'[j] = Live(emitted)
        BY <1>6 DEF Sends
    <2> QED BY <1>2, <2>1, <2>2 DEF Follows
<1>7. CASE wire' = wire
    BY <1>3, <1>7
<1>8. CASE Drops(wire, wire')
    BY <1>3, <1>8 DEF Drops
<1>9. CASE Grows
    <2>1. j \in Pos(wire) => wire'[j] = wire[j]
        BY <1>9 DEF Grows
    <2>2. CASE j \in Pos(wire)
        BY <1>3, <2>1, <2>2
    <2>3. CASE New(j)
        <3>1. Drops(wire, wire') \/ wire' = wire \/ SendsOther
              \/ (Forward /\ Sends(Live(emitted))) \/ \E d \in Clients : More(d)
            BY Sending
        <3> QED BY <1>4, <1>5, <1>6, <1>7, <1>8, <2>3, <3>1
    <2> QED BY <1>9, <2>2, <2>3 DEF Grows
<1> QED BY Sending, <1>7, <1>8, <1>9 DEF More, SendsLines, SendsOther, Sends

LEMMA KeepsRep ==
    ASSUME IInv, [Next]_vars
    PROVE  RepInv'
<1>1. TypeOK /\ RepInv /\ straddled \subseteq straddled'
    BY Sending DEF IInv, More, NoMore
<1>2. \A k \in Pos(wire) : wire[k].kind = "rep" => wire[k].to \in Clients /\ wire[k].of \in Nat
    BY <1>1, MessageFacts DEF TypeOK, Pos
<1>3. \A c \in Clients : \A e \in Nat : e <= task[c].upTo => e <= task'[c].upTo
    <2> SUFFICES ASSUME NEW c \in Clients, NEW e \in Nat, e <= task[c].upTo
                 PROVE  e <= task'[c].upTo
        OBVIOUS
    <2>1. task[c].upTo <= disk /\ disk \in Nat /\ task[c].upTo \in Nat
        BY DEF IInv, TypeOK, TaskInv, Task
    <2> QED BY <2>1, Sending DEF More, NoMore
<1>4. ASSUME NEW j \in Pos(wire'), NEW k \in Pos(wire'), k < j, wire'[k].kind = "rep",
             NEW j1 \in Pos(wire), NEW k1 \in Pos(wire), k1 < j1,
             wire'[j] = wire[j1], wire'[k] = wire[k1]
      PROVE  (/\ wire[j].kind = "rep" /\ wire[j].to = wire[k].to => wire[k].of < wire[j].of
              /\ wire[j].kind = "live" => Follows(wire[k].of, wire[j].of))'
    <2>1. /\ wire[j1].kind = "rep" /\ wire[j1].to = wire[k1].to => wire[k1].of < wire[j1].of
          /\ wire[j1].kind = "live" => Follows(wire[k1].of, wire[j1].of)
        BY <1>1, <1>4 DEF RepInv
    <2> QED BY <1>1, <1>4, <2>1 DEF Follows
<1>5. ASSUME NEW k \in Pos(wire'), NEW k1 \in Pos(wire), wire'[k] = wire[k1], wire'[k].kind = "rep"
      PROVE  (wire[k].of <= task[wire[k].to].upTo)'
    BY <1>1, <1>2, <1>3, <1>5 DEF RepInv
<1>6. CASE wire' = wire
    BY <1>4, <1>5, <1>6 DEF RepInv
<1>7. CASE Drops(wire, wire')
    <2>1. \A k \in Pos(wire') : k + 1 \in Pos(wire) /\ wire'[k] = wire[k + 1]
        BY <1>7 DEF Drops
    <2>2. \A j, k \in Pos(wire') : k < j => k + 1 < j + 1
        BY DEF Pos
    <2> QED BY <1>4, <1>5, <2>1, <2>2 DEF RepInv
<1>8. ASSUME NEW k \in Pos(wire), NEW j \in Pos(wire'), New(j), wire[k].kind = "rep",
             Grows, \/ SendsOther \/ (Forward /\ Sends(Live(emitted)))
                    \/ \E c \in Clients : More(c)
      PROVE  (/\ wire[j].kind = "rep" /\ wire[j].to = wire[k].to => wire[k].of < wire[j].of
              /\ wire[j].kind = "live" => Follows(wire[k].of, wire[j].of))'
    <2>1. wire'[k] = wire[k] /\ wire[k].to \in Clients /\ wire[k].of \in Nat
          /\ wire[k].of <= task[wire[k].to].upTo
        BY <1>1, <1>2, <1>8 DEF Grows, RepInv
    <2>2. CASE SendsOther
        BY <1>8, <2>2 DEF SendsOther
    <2>3. CASE Forward /\ Sends(Live(emitted))
        <3>1. /\ Follows(wire[k].of, emitted)
              /\ Live(emitted).of = emitted /\ Live(emitted).kind = "live"
            BY <2>1, <2>3, LiveFollows DEF Live
        <3>2. wire'[j] = Live(emitted)
            BY <1>8, <2>3 DEF Sends
        <3> QED BY <1>1, <2>1, <3>1, <3>2 DEF Follows
    <2>4. ASSUME NEW c \in Clients, More(c), wire'[j].to = wire'[k].to
          PROVE  wire'[j].kind = "rep" /\ wire'[k].of < wire'[j].of
        <3>1. wire'[j].kind = "rep" /\ wire'[j].to = c /\ wire'[j].of \in Nat
              /\ task[c].upTo < wire'[j].of
            BY <1>8, <2>4 DEF More, SendsLines
        <3>2. task[c].upTo \in Nat
            BY <1>1 DEF TypeOK, Task
        <3> QED BY <2>1, <2>4, <3>1, <3>2
    <2>5. ASSUME NEW c \in Clients, More(c) PROVE wire'[j].kind = "rep"
        BY <1>8, <2>5 DEF More, SendsLines
    <2> QED BY <1>8, <2>2, <2>3, <2>4, <2>5
<1>9. ASSUME NEW k \in Pos(wire'), wire'[k].kind = "rep", New(k),
             \/ SendsOther \/ (Forward /\ Sends(Live(emitted)))
             \/ \E c \in Clients : More(c)
      PROVE  (/\ wire[k].of <= task[wire[k].to].upTo
              /\ \A j \in Pos(wire) : k < j => wire[j].kind = "rep" /\ wire[k].of < wire[j].of)'
    <2>1. PICK c \in Clients : More(c)
        BY <1>9, Made DEF SendsOther, Sends, Live
    <2>2. ASSUME NEW j \in Pos(wire'), k < j PROVE wire'[j].kind = "rep" /\ wire'[k].of < wire'[j].of
        <3>1. New(j)
            <4> SUFFICES ASSUME j \in Pos(wire) PROVE FALSE
                BY DEF New
            <4>1. j < k
                BY <1>9, <2>1 DEF More, SendsLines, Grows
            <4> QED BY <2>2, <4>1 DEF Pos
        <3> QED BY <1>9, <2>1, <2>2, <3>1 DEF More, SendsLines
    <2>3. wire'[k].to = c /\ wire'[k].of <= disk
        BY <1>9, <2>1 DEF More, SendsLines
    <2> QED BY <2>1, <2>2, <2>3 DEF More
<1>10. CASE Grows /\ \/ SendsOther \/ (Forward /\ Sends(Live(emitted)))
                     \/ \E c \in Clients : More(c)
    <2> SUFFICES ASSUME NEW k \in Pos(wire'), wire'[k].kind = "rep"
                 PROVE  (/\ wire[k].of <= task[wire[k].to].upTo
                         /\ \A j \in Pos(wire) : k < j =>
                              /\ wire[j].kind = "rep" /\ wire[j].to = wire[k].to
                                    => wire[k].of < wire[j].of
                              /\ wire[j].kind = "live" => Follows(wire[k].of, wire[j].of))'
        BY DEF RepInv
    <2>1. CASE k \in Pos(wire)
        <3>1. wire'[k] = wire[k]
            BY <1>10, <2>1 DEF Grows
        <3>2. \A j \in Pos(wire') : j \in Pos(wire) \/ New(j)
            BY <1>10 DEF Grows
        <3>3. \A j \in Pos(wire) : wire'[j] = wire[j]
            BY <1>10 DEF Grows
        <3> QED BY <1>4, <1>5, <1>8, <1>10, <2>1, <3>1, <3>2, <3>3
    <2>2. CASE New(k)
        BY <1>9, <1>10, <2>2
    <2> QED BY <1>10, <2>1, <2>2 DEF Grows
<1> QED BY Sending, <1>6, <1>7, <1>10 DEF More, SendsLines, SendsOther, Sends

\* What a step does to client c: nothing but to its card and its answers; it
\* leaves; it asks to attach; it is sent a line of the replay; a live message
\* is buffered for it or sent to it; its attach is answered.
Rests(c) ==
    /\ conn'[c] = conn[c] /\ buffer'[c] = buffer[c] /\ cutoff'[c] = cutoff[c]
    /\ view'[c].log = view[c].log /\ view'[c].high = view[c].high
    /\ view'[c] = view[c] \/ TakeAnswer(c) \/ UserAnswers(c)
    /\ RouteLive => c \notin Subscribers

Leaves(c) ==
    conn'[c] = "gone" /\ buffer'[c] = <<>> /\ cutoff'[c] = 0 /\ view'[c] = EmptyView

Starts(c) ==
    /\ conn[c] = "out" /\ conn'[c] = "loading" /\ since'[c] = passed
    /\ buffer'[c] = buffer[c] /\ cutoff'[c] = cutoff[c] /\ view'[c] = view[c]
    /\ UNCHANGED <<sessionVars, task, wire, open, fate, cache>>

SentLine(c) ==
    /\ RouteReplay /\ wire[1].to = c /\ conn[c] \in {"loading", "in"} /\ conn'[c] = conn[c]
    /\ buffer'[c] = buffer[c]
    /\ cutoff'[c] = IF wire[1].of > cutoff[c] THEN wire[1].of ELSE cutoff[c]
    /\ Takes(view[c], wire[1], view'[c])

Buffered(c) ==
    /\ RouteLive /\ conn[c] = "loading" /\ conn'[c] = conn[c] /\ cutoff'[c] = cutoff[c]
    /\ view'[c] = view[c] /\ Appends(buffer[c], wire[1], buffer'[c])

SentLive(c) ==
    /\ RouteLive /\ conn[c] = "in" /\ conn'[c] = conn[c] /\ cutoff'[c] = cutoff[c]
    /\ buffer'[c] = buffer[c] /\ Takes(view[c], wire[1], view'[c])

Answered(c) ==
    /\ RouteResponse /\ wire[1].to = c /\ conn[c] = "loading"
    /\ conn'[c] = "in" /\ buffer'[c] = <<>> /\ cutoff'[c] = 0
    /\ \E ms, f : Flushing(c, wire[1], ms) /\ FlushOf(c, ms, f) /\ view'[c] = f[Len(ms)]

LEMMA Sees ==
    ASSUME IInv, [Next]_vars, NEW c \in Clients \ over'
    PROVE  /\ c \notin over
           /\ \/ Rests(c) \/ Leaves(c) \/ Starts(c) \/ SentLine(c)
              \/ Buffered(c) \/ SentLive(c) \/ Answered(c)
           /\ ~Starts(c) => since'[c] = since[c]
<1> USE DEF sessionVars, leaderVars
<1>1. TypeOK
    BY DEF IInv
<1>2. CASE RouteLive
    <2>1. /\ over \subseteq over'
          /\ conn[c] # "loading" => buffer'[c] = buffer[c]
          /\ conn[c] \notin {"loading", "in"} => view'[c] = view[c]
          /\ conn[c] = "loading" => Appends(buffer[c], wire[1], buffer'[c]) /\ view'[c] = view[c]
          /\ conn[c] = "in" => Takes(view[c], wire[1], view'[c])
          /\ UNCHANGED <<conn, cutoff, since>>
        BY <1>1, <1>2, RouteLiveDoes
    <2>2. CASE conn[c] = "loading"
        BY <1>2, <2>1, <2>2 DEF Buffered
    <2>3. CASE conn[c] = "in"
        BY <1>2, <2>1, <2>3 DEF SentLive
    <2>4. CASE conn[c] \notin {"loading", "in"}
        BY <1>2, <2>1, <2>4 DEF Rests, Subscribers
    <2> QED BY <2>1, <2>2, <2>3, <2>4
<1>3. CASE RouteReplay
    <2>1. /\ IF c = wire[1].to /\ c \in Subscribers
             THEN /\ Takes(view[c], wire[1], view'[c])
                  /\ cutoff'[c] = IF wire[1].of > cutoff[c] THEN wire[1].of ELSE cutoff[c]
             ELSE view'[c] = view[c] /\ cutoff'[c] = cutoff[c]
          /\ UNCHANGED <<conn, buffer, since, over>>
        BY <1>1, <1>3, RouteReplayDoes
    <2>2. ~RouteLive
        BY <1>3 DEF RouteReplay, RouteLive
    <2>3. CASE c = wire[1].to /\ c \in Subscribers
        BY <1>3, <2>1, <2>3 DEF SentLine, Subscribers
    <2>4. CASE ~(c = wire[1].to /\ c \in Subscribers)
        BY <2>1, <2>2, <2>4 DEF Rests
    <2> QED BY <2>1, <2>3, <2>4
<1>4. CASE RouteResponse
    <2>1. /\ wire[1].to \in Clients /\ UNCHANGED <<since, over>>
          /\ UNCHANGED <<conn, buffer, cutoff, view>> \/ LetsIn(wire[1].to)
        BY <1>1, <1>4, RouteResponseDoes
    <2>2. ~RouteLive
        BY <1>4 DEF RouteResponse, RouteLive, IsAnswer
    <2>3. CASE UNCHANGED <<conn, buffer, cutoff, view>>
        BY <2>1, <2>2, <2>3 DEF Rests
    <2>4. CASE LetsIn(wire[1].to) /\ c # wire[1].to
        <3>1. /\ conn'[c] = conn[c] /\ buffer'[c] = buffer[c] /\ cutoff'[c] = cutoff[c]
              /\ view'[c] = view[c]
            BY <1>1, <2>1, <2>4 DEF LetsIn, TypeOK
        <3> QED BY <2>1, <2>2, <3>1 DEF Rests
    <2>5. CASE LetsIn(wire[1].to) /\ c = wire[1].to
        <3>1. conn[c] = "loading" /\ conn'[c] = "in" /\ buffer'[c] = <<>> /\ cutoff'[c] = 0
            BY <1>1, <2>5 DEF LetsIn, TypeOK
        <3>2. PICK ms, f : /\ Flushing(c, wire[1], ms) /\ FlushOf(c, ms, f)
                           /\ view' = [view EXCEPT ![c] = f[Len(ms)]]
            BY <2>5 DEF LetsIn
        <3>3. view'[c] = f[Len(ms)]
            BY <1>1, <3>2 DEF TypeOK
        <3> QED BY <1>4, <2>1, <2>5, <3>1, <3>2, <3>3 DEF Answered
    <2> QED BY <2>1, <2>3, <2>4, <2>5
<1>5. ASSUME UNCHANGED <<conn, buffer, cutoff, since, over, wire>> \/ UNCHANGED leaderVars, ~RouteLive,
             \/ view'[c] = view[c]
             \/ /\ TakeAnswer(c) \/ UserAnswers(c)
                /\ view'[c].log = view[c].log /\ view'[c].high = view[c].high
      PROVE  c \notin over /\ Rests(c) /\ since'[c] = since[c]
    BY <1>5 DEF Rests
<1>6. CASE UNCHANGED vars \/ Persist \/ Forward \/ Write \/ Attach
    <2>1. UNCHANGED leaderVars /\ UNCHANGED view
        BY <1>6 DEF vars, Persist, Forward, Write, Attach
    <2>2. CASE ~RouteLive
        BY <1>5, <2>1, <2>2
    <2> QED BY <1>2, <2>2
<1>7. CASE \E i \in Interactions : Ask(i) \/ Withdraw(i)
    <2>1. UNCHANGED leaderVars /\ UNCHANGED view
        BY <1>7 DEF Ask, Withdraw
    <2>2. CASE ~RouteLive
        BY <1>5, <2>1, <2>2
    <2> QED BY <1>2, <2>2
<1>8. CASE \E d \in Clients : AttachTask(d) \/ AttachFails(d)
    <2>1. UNCHANGED leaderVars /\ UNCHANGED view
        BY <1>8 DEF AttachTask, Replay, NoReplay, BeginFlush, Delta, NoDelta, OpenGate, Respond,
                    AttachFails
    <2>2. CASE ~RouteLive
        BY <1>5, <2>1, <2>2
    <2> QED BY <1>2, <2>2
<1>9. ASSUME NEW d \in Clients, TakeAnswer(d) \/ UserAnswers(d), ~RouteLive
      PROVE  c \notin over /\ Rests(c) /\ since'[c] = since[c]
    <2>1. UNCHANGED leaderVars
        BY <1>9 DEF TakeAnswer, UserAnswers
    <2>2. /\ d # c => view'[c] = view[c]
          /\ d = c => view'[c].log = view[c].log /\ view'[c].high = view[c].high
        BY <1>1, <1>9, TakeAnswerDoes, UserAnswersDoes
    <2> QED BY <1>5, <1>9, <2>1, <2>2
<1>10. ASSUME NEW d \in Clients, NEW replay \in BOOLEAN, RequestAttach(d, replay), ~RouteLive
       PROVE  c \notin over /\ (Rests(c) \/ Starts(c)) /\ (~Starts(c) => since'[c] = since[c])
    <2>1. /\ UNCHANGED <<sessionVars, task, wire, buffer, cutoff, cache, over, open, view, fate>>
          /\ conn[d] = "out" /\ conn'[d] = "loading" /\ since'[d] = passed
          /\ d # c => conn'[c] = conn[c] /\ since'[c] = since[c]
        BY <1>1, <1>10 DEF RequestAttach, TypeOK
    <2> QED BY <1>10, <2>1 DEF Rests, Starts
<1>11. ASSUME NEW d \in Clients, Disconnect(d), ~RouteLive
       PROVE  c \notin over /\ (Rests(c) \/ Leaves(c)) /\ since'[c] = since[c]
    <2>1. /\ UNCHANGED <<since, over>>
          /\ conn'[d] = "gone" /\ buffer'[d] = <<>> /\ cutoff'[d] = 0 /\ view'[d] = EmptyView
          /\ d # c => /\ conn'[c] = conn[c] /\ buffer'[c] = buffer[c] /\ cutoff'[c] = cutoff[c]
                      /\ view'[c] = view[c]
        BY <1>1, <1>11 DEF Disconnect, TypeOK
    <2> QED BY <1>11, <2>1 DEF Rests, Leaves
<1> QED BY NextCases, <1>2, <1>3, <1>4, <1>6, <1>7, <1>8, <1>9, <1>10, <1>11 DEF AttachTask

\* The log of a client whose attach has been answered.
LEMMA AnsweredLog ==
    ASSUME IInv, NEW c \in Clients \ over, Answered(c)
    PROVE  /\ Ordered(view'[c]) /\ view'[c].high <= passed
           /\ \A k \in Pos(view'[c].log) :
                 view'[c].log[k].kind = "rep" => Has(view[c].log, view'[c].log[k])
           /\ \A e \in Nat : Shows(view[c], e) => Shows(view'[c], e)
           /\ \A e \in Nat : Has(buffer[c], Live(e)) => Shows(view'[c], e)
<1>1. PICK ms, f : Flushing(c, wire[1], ms) /\ FlushOf(c, ms, f) /\ view'[c] = f[Len(ms)]
    BY DEF Answered
<1>2. /\ ms \in Seq(Message) /\ 1 \in Pos(ms) /\ ms[1] = wire[1] /\ passed \in Nat
      /\ \A k \in Pos(ms) : \/ k = 1
                            \/ k - 1 \in Pos(buffer[c]) /\ ms[k] = buffer[c][k - 1]
                            \/ k > 1 + Len(buffer[c]) /\ ms[k].kind = "ask"
    BY <1>1 DEF Flushing, IInv, TypeOK
<1>3. /\ view[c].high = 0
      /\ \A k \in Pos(view[c].log) :
            view[c].log[k].kind = "rep" /\ view[c].log[k].of <= cutoff[c]
      /\ Increasing(view[c].log, "rep")
      /\ \A e \in 1..cutoff[c] : Shows(view[c], e)
      /\ Increasing(buffer[c], "live")
      /\ \A k \in Pos(buffer[c]) :
            /\ buffer[c][k].kind \in {"live", "ask", "res"}
            /\ buffer[c][k].kind = "live" => buffer[c][k].of <= passed
    BY DEF Answered, IInv, LoadingInv
<1>4. cutoff[c] \in Nat /\ buffer[c] \in Seq(Message)
    BY DEF IInv, TypeOK
<1>5. wire[1].kind \in {"result", "error"}
    <2>1. Head(wire) = wire[1]
        BY DEF Answered, RouteResponse, IInv, TypeOK
    <2> QED BY <2>1 DEF Answered, RouteResponse, IsAnswer
<1>6. \A k \in Pos(ms) : ms[k].kind # "rep"
    BY <1>2, <1>3, <1>5
<1>7. \A k \in Pos(ms) : ms[k].kind = "live" => k - 1 \in Pos(buffer[c]) /\ ms[k] = buffer[c][k - 1]
    BY <1>2, <1>5
<1>8. Increasing(ms, "live")
    <2> SUFFICES ASSUME NEW j \in Pos(ms), NEW k \in Pos(ms), j < k,
                        ms[j].kind = "live", ms[k].kind = "live"
                 PROVE  ms[j].of < ms[k].of
        BY DEF Increasing
    <2>1. j - 1 < k - 1
        BY DEF Pos
    <2> QED BY <1>3, <1>7, <2>1 DEF Increasing
<1>9. FlushedLog(c, ms, Len(ms), f[Len(ms)])
    BY <1>1, <1>2, <1>3, <1>4, <1>6, <1>8, FlushLog
<1>10. view'[c].high <= passed
    <2>1. CASE view'[c].high = 0
        BY <1>2, <2>1
    <2>2. ASSUME NEW j \in 1..Len(ms), ms[j].kind = "live", ms[j].of = view'[c].high
          PROVE  view'[c].high <= passed
        BY <1>3, <1>7, <2>2 DEF Pos
    <2> QED BY <1>1, <1>9, <2>1, <2>2 DEF FlushedLog
<1>11. ASSUME NEW e \in Nat, Has(buffer[c], Live(e)) PROVE Shows(view'[c], e)
    <2>1. PICK k \in Pos(buffer[c]) : buffer[c][k] = Live(e)
        BY <1>11 DEF Has
    <2>2. k + 1 \in 1..Len(ms) /\ ms[k + 1] = Live(e)
        BY <1>1, <2>1 DEF Flushing, Pos
    <2>3. Live(e).kind = "live" /\ Live(e).of = e
        BY DEF Live
    <2>4. \A j \in 1..Len(ms) : ms[j].kind = "live" => Shows(view'[c], ms[j].of)
        BY <1>1, <1>9 DEF FlushedLog
    <2> QED BY <2>2, <2>3, <2>4
<1> QED BY <1>1, <1>9, <1>10, <1>11 DEF FlushedLog

\* A subscriber goes on showing what it shows.
LEMMA ShowsKept ==
    ASSUME IInv, [Next]_vars, NEW c \in Clients \ over', ~Leaves(c), NEW e \in Nat, Shows(view[c], e)
    PROVE  Shows(view'[c], e)
<1>1. c \notin over
    BY Sees
<1>2. CASE view'[c].log = view[c].log
    BY <1>2 DEF Shows
<1>3. CASE Takes(view[c], wire[1], view'[c])
    BY <1>3, StillShown
<1>4. CASE Answered(c)
    BY <1>1, <1>4, AnsweredLog
<1> QED BY Sees, <1>2, <1>3, <1>4 DEF Rests, Starts, SentLine, Buffered, SentLive

LEMMA KeepsOut ==
    ASSUME IInv, [Next]_vars
    PROVE  OutInv'
<1> SUFFICES ASSUME NEW c \in Clients \ over'
             PROVE  (/\ conn[c] # "loading" => buffer[c] = <<>>
                     /\ conn[c] \in {"out", "gone"} => view[c] = EmptyView
                     /\ conn[c] \in {"out", "gone"} => cutoff[c] = 0)'
    BY DEF OutInv
<1>1. c \notin over
    BY Sees
<1>2. /\ conn[c] # "loading" => buffer[c] = <<>>
      /\ conn[c] \in {"out", "gone"} => view[c] = EmptyView /\ cutoff[c] = 0
    BY <1>1 DEF IInv, OutInv
<1>3. CASE Rests(c)
    <2>1. conn[c] \in {"out", "gone"} => view'[c] = view[c]
        <3> SUFFICES ASSUME conn[c] \in {"out", "gone"} PROVE view'[c] = view[c]
            OBVIOUS
        <3>1. view[c].said = <<>>
            BY <1>2 DEF EmptyView
        <3> QED BY <1>3, <3>1 DEF Rests, TakeAnswer, UserAnswers
    <2> QED BY <1>2, <1>3, <2>1 DEF Rests
<1>4. CASE Leaves(c)
    BY <1>4 DEF Leaves
<1>5. CASE Starts(c) \/ Buffered(c)
    BY <1>2, <1>5 DEF Starts, Buffered
<1>6. CASE SentLine(c) \/ SentLive(c)
    BY <1>2, <1>6 DEF SentLine, SentLive
<1>7. CASE Answered(c)
    BY <1>7 DEF Answered
<1> QED BY Sees, <1>3, <1>4, <1>5, <1>6, <1>7

LEMMA KeepsLog ==
    ASSUME IInv, [Next]_vars
    PROVE  LogInv'
<1> SUFFICES ASSUME NEW c \in Clients \ over', NEW k \in Pos(view'[c].log), NEW m,
                    m = view'[c].log[k], m.kind = "rep"
             PROVE  Replayed(c, m.of)'
    BY DEF LogInv, Replayed
<1>1. c \notin over
    BY Sees
<1>2. TypeOK /\ view[c].log \in Seq(Message) /\ LogInv /\ RepInv
    BY DEF IInv, TypeOK, View
<1>3. ASSUME Has(view[c].log, m) PROVE Replayed(c, m.of)'
    <2>1. PICK j \in Pos(view[c].log) : view[c].log[j] = m
        BY <1>3 DEF Has
    <2>2. m.of \in Nat
        BY <1>2, <2>1, MessageFacts DEF Pos
    <2>3. Replayed(c, m.of)
        BY <1>1, <1>2, <2>1 DEF LogInv
    <2> QED BY <2>2, <2>3, ReplayedKept
<1>4. CASE view'[c].log = view[c].log
    BY <1>3, <1>4 DEF Has
<1>5. CASE Leaves(c)
    BY <1>5 DEF Leaves, EmptyView, Pos
<1>6. CASE SentLine(c)
    <2>1. Takes(view[c], wire[1], view'[c]) /\ RouteReplay /\ wire[1].to = c
        BY <1>6 DEF SentLine
    <2>2. /\ Drops(wire, wire') /\ wire[1].kind = "rep" /\ wire[1].of \in Nat \ {0}
          /\ 1 \in Pos(wire) /\ task' = task /\ straddled' = straddled
        BY <1>2, <2>1, RouteReplayDoes DEF Drops, sessionVars
    <2>3. Appends(view[c].log, wire[1], view'[c].log)
        BY <2>1, <2>2 DEF Takes
    <2>4. Has(view[c].log, m) \/ m = wire[1]
        BY <2>3 DEF Appends, Has
    <2>5. m = wire[1] => Replayed(c, m.of)'
        <3>1. wire[1].of <= task[c].upTo
            BY <1>2, <2>1, <2>2 DEF RepInv
        <3>2. ASSUME NEW j \in Pos(wire'), wire'[j].kind = "rep", wire'[j].to = c
              PROVE  wire[1].of < wire'[j].of
            <4>1. j + 1 \in Pos(wire) /\ 1 < j + 1 /\ wire'[j] = wire[j + 1]
                BY <2>2 DEF Drops
            <4> QED BY <1>2, <2>1, <2>2, <3>2, <4>1 DEF RepInv
        <3>3. ASSUME NEW j \in Pos(wire'), wire'[j].kind = "live"
              PROVE  Follows(wire[1].of, wire'[j].of)
            <4>1. j + 1 \in Pos(wire) /\ 1 < j + 1 /\ wire'[j] = wire[j + 1]
                BY <2>2 DEF Drops
            <4> QED BY <1>2, <2>1, <2>2, <3>3, <4>1 DEF RepInv
        <3> QED BY <2>2, <3>1, <3>2, <3>3 DEF Replayed, Follows
    <2> QED BY <1>3, <2>4, <2>5
<1>7. CASE SentLive(c)
    <2>1. Takes(view[c], wire[1], view'[c]) /\ wire[1].kind \in {"live", "ask", "res"}
        BY <1>2, <1>7, RouteLiveDoes DEF SentLive
    <2>2. Has(view[c].log, m)
        BY <2>1 DEF Takes, Appends, Has
    <2> QED BY <1>3, <2>2
<1>8. CASE Answered(c)
    BY <1>1, <1>3, <1>8, AnsweredLog
<1> QED BY Sees, <1>4, <1>5, <1>6, <1>7, <1>8 DEF Rests, Starts, Buffered

LEMMA KeepsCover ==
    ASSUME IInv, [Next]_vars
    PROVE  CoverInv'
<1> SUFFICES ASSUME NEW c \in Clients \ over', conn'[c] \in {"loading", "in"},
                    NEW e \in 1..task'[c].upTo
             PROVE  Shows(view'[c], e) \/ Has(wire', Rep(e, c))
    BY DEF CoverInv, Subscribers
<1>1. c \notin over /\ ~Leaves(c)
    BY Sees DEF Leaves
<1>2. TypeOK /\ LifeInv /\ CoverInv /\ task[c].upTo \in Nat /\ disk \in Nat
    BY DEF IInv, TypeOK, Task
<1>3. task'[c].upTo \in Nat
    BY KeepsType DEF TypeOK, Task
<1>4. e \in Nat \ {0} /\ e <= task'[c].upTo
    BY <1>3
<1>5. CASE Starts(c)
    <2>1. task[c].upTo = 0 /\ task' = task
        BY <1>2, <1>5 DEF Starts, LifeInv
    <2> QED BY <1>4, <2>1
<1>6. CASE ~Starts(c)
    <2>1. c \in Subscribers
        BY <1>1, <1>6, Sees DEF Subscribers, Rests, SentLine, Buffered, SentLive, Answered
    <2>2. ASSUME e <= task[c].upTo PROVE Shows(view'[c], e) \/ Has(wire', Rep(e, c))
        <3>1. e \in 1..task[c].upTo
            BY <1>2, <1>4, <2>2
        <3>2. Shows(view[c], e) \/ Has(wire, Rep(e, c))
            BY <1>1, <1>2, <2>1, <3>1 DEF CoverInv
        <3>3. CASE Shows(view[c], e)
            BY <1>1, <1>4, <3>3, ShowsKept
        <3>4. CASE Has(wire, Rep(e, c)) /\ wire' = wire
            BY <3>4
        <3>5. CASE Has(wire, Rep(e, c)) /\ Grows
            BY <3>5, GrowsHas
        <3>6. CASE /\ Has(wire, Rep(e, c)) /\ (RouteReplay \/ RouteLive \/ RouteResponse)
                   /\ Drops(wire, wire')
            <4>1. CASE Head(wire) # Rep(e, c)
                BY <3>6, <4>1, HasDropped
            <4>2. CASE Head(wire) = Rep(e, c)
                <5>1. Rep(e, c).kind = "rep" /\ Rep(e, c).to = c /\ Rep(e, c).of = e
                    BY <1>4, Made
                <5>2. wire[1] = Rep(e, c) /\ RouteReplay
                    BY <3>6, <4>2, <5>1 DEF Drops, RouteLive, RouteResponse, IsAnswer
                <5>3. Takes(view[c], wire[1], view'[c])
                    BY <1>2, <2>1, <5>1, <5>2, RouteReplayDoes
                <5>4. Appends(view[c].log, wire[1], view'[c].log) /\ IsEvent(wire[1])
                    BY <5>1, <5>2, <5>3 DEF Takes, IsEvent
                <5> QED BY <5>1, <5>2, <5>4, NowShown
            <4> QED BY <4>1, <4>2
        <3> QED BY <3>2, <3>3, <3>4, <3>5, <3>6, Sending DEF More, SendsLines, SendsOther, Sends
    <2>3. ASSUME ~(e <= task[c].upTo) PROVE Has(wire', Rep(e, c))
        <3>1. PICK d \in Clients : More(d)
            BY <1>4, <2>3, Sending DEF NoMore
        <3>2. d = c
            BY <1>4, <2>3, <3>1 DEF More
        <3>3. task[c].upTo < e /\ e <= disk
            BY <1>2, <1>4, <2>3, <3>1, <3>2 DEF More
        <3> QED BY <1>4, <3>1, <3>2, <3>3 DEF More, SendsLines
    <2> QED BY <2>2, <2>3
<1> QED BY <1>5, <1>6

\* The leader never routes an older live event.
LEMMA PassedGrows ==
    ASSUME IInv, [Next]_vars
    PROVE  /\ passed \in Nat /\ passed' \in Nat /\ passed <= passed'
           /\ RouteLive =>
                 /\ wire[1] \in Message /\ wire[1].kind \in {"live", "ask", "res"}
                 /\ Drops(wire, wire') /\ 1 \in Pos(wire) /\ Head(wire) = wire[1]
                 /\ wire[1].kind = "live" =>
                       wire[1].of \in Nat /\ passed < wire[1].of /\ passed' = wire[1].of
<1>1. TypeOK /\ LiveInv /\ passed \in Nat /\ passed' \in Nat
    BY KeepsType DEF IInv, TypeOK
<1>2. CASE RouteLive
    <2>1. /\ Drops(wire, wire') /\ wire[1] \in Message /\ wire[1].kind \in {"live", "ask", "res"}
          /\ passed' = IF wire[1].kind = "live" THEN wire[1].of ELSE passed
          /\ 1 \in Pos(wire) /\ Head(wire) = wire[1]
        BY <1>1, <1>2, RouteLiveDoes DEF Drops
    <2>2. wire[1].kind = "live" => wire[1].of \in Nat /\ passed < wire[1].of
        BY <1>1, <2>1, MessageFacts DEF LiveInv
    <2> QED BY <1>1, <2>1, <2>2
<1>3. CASE ~RouteLive
    <2>1. passed' = passed
        BY <1>3, Quiet DEF Persist, Forward, Write, leaderVars
    <2> QED BY <1>1, <1>3, <2>1
<1> QED BY <1>2, <1>3

LEMMA KeepsLoading ==
    ASSUME IInv, [Next]_vars
    PROVE  LoadingInv'
<1> DEFINE Good(v, b, cut, p) ==
        /\ v.high = 0 /\ v.card = None
        /\ \A k \in Pos(v.log) : v.log[k].kind = "rep" /\ v.log[k].of <= cut
        /\ Increasing(v.log, "rep")
        /\ \A e \in 1..cut : Shows(v, e)
        /\ Increasing(b, "live")
        /\ \A k \in Pos(b) : /\ b[k].kind \in {"live", "ask", "res"}
                             /\ b[k].kind = "live" => b[k].of <= p
<1> SUFFICES ASSUME NEW c \in Clients \ over', conn'[c] = "loading"
             PROVE  Good(view'[c], buffer'[c], cutoff'[c], passed')
    BY DEF LoadingInv
<1>1. c \notin over
    BY Sees
<1>2. TypeOK /\ conn[c] = "loading" => Good(view[c], buffer[c], cutoff[c], passed)
    BY <1>1 DEF IInv, LoadingInv
<1>3. /\ TypeOK /\ buffer[c] \in Seq(Message) /\ view[c].log \in Seq(Message) /\ cutoff[c] \in Nat
      /\ \A k \in Pos(buffer[c]) : buffer[c][k].kind = "live" => buffer[c][k].of \in Nat
      /\ \A k \in Pos(view[c].log) : view[c].log[k].kind = "rep" => view[c].log[k].of \in Nat
    BY MessageFacts DEF IInv, TypeOK, View, Pos
<1>4. passed \in Nat /\ passed' \in Nat /\ passed <= passed'
    BY PassedGrows
<1>5. CASE Rests(c)
    <2>1. conn[c] = "loading" /\ view'[c].card = view[c].card
        BY <1>3, <1>5, TakeAnswerDoes DEF Rests, UserAnswers
    <2>2. Good(view[c], buffer[c], cutoff[c], passed)
        BY <1>2, <1>3, <2>1
    <2>3. \A e : Shows(view[c], e) => Shows(view'[c], e)
        BY <1>5 DEF Rests, Shows
    <2> QED BY <1>3, <1>4, <1>5, <2>1, <2>2, <2>3 DEF Rests
<1>6. CASE Starts(c)
    <2>1. view'[c] = EmptyView /\ buffer'[c] = <<>> /\ cutoff'[c] = 0
        BY <1>1, <1>6 DEF Starts, IInv, OutInv
    <2> QED BY <2>1 DEF EmptyView, Pos, Increasing
<1>7. CASE Buffered(c)
    <2>1. /\ Good(view[c], buffer[c], cutoff[c], passed)
          /\ view'[c] = view[c] /\ cutoff'[c] = cutoff[c] /\ Appends(buffer[c], wire[1], buffer'[c])
        BY <1>2, <1>3, <1>7 DEF Buffered
    <2>2. /\ wire[1].kind \in {"live", "ask", "res"}
          /\ wire[1].kind = "live" =>
                wire[1].of \in Nat /\ passed < wire[1].of /\ passed' = wire[1].of
        BY <1>7, PassedGrows DEF Buffered
    <2>3. Increasing(buffer'[c], "live")
        <3> SUFFICES ASSUME NEW j \in Pos(buffer'[c]), NEW k \in Pos(buffer'[c]), j < k,
                            buffer'[c][j].kind = "live", buffer'[c][k].kind = "live"
                     PROVE  buffer'[c][j].of < buffer'[c][k].of
            BY DEF Increasing
        <3>1. j \in Pos(buffer[c]) /\ buffer'[c][j] = buffer[c][j]
            BY <1>3, <2>1 DEF Appends, Pos
        <3>2. CASE k \in Pos(buffer[c])
            BY <2>1, <3>1, <3>2 DEF Appends, Increasing
        <3>3. CASE buffer'[c][k] = wire[1]
            BY <1>3, <1>4, <2>1, <2>2, <3>1, <3>3
        <3> QED BY <2>1, <3>2, <3>3 DEF Appends
    <2>4. \A k \in Pos(buffer'[c]) : /\ buffer'[c][k].kind \in {"live", "ask", "res"}
                                     /\ buffer'[c][k].kind = "live" => buffer'[c][k].of <= passed'
        BY <1>3, <1>4, <2>1, <2>2 DEF Appends
    <2> QED BY <2>1, <2>3, <2>4
<1>8. CASE SentLine(c)
    <2>1. /\ Good(view[c], buffer[c], cutoff[c], passed) /\ buffer'[c] = buffer[c]
          /\ RouteReplay /\ wire[1].to = c /\ Takes(view[c], wire[1], view'[c])
          /\ cutoff'[c] = IF wire[1].of > cutoff[c] THEN wire[1].of ELSE cutoff[c]
        BY <1>2, <1>3, <1>8 DEF SentLine
    <2>2. /\ wire[1].kind = "rep" /\ wire[1].of \in Nat \ {0} /\ 1 \in Pos(wire)
        BY <1>3, <2>1, RouteReplayDoes DEF Drops
    <2>3. /\ Appends(view[c].log, wire[1], view'[c].log)
          /\ view'[c].high = view[c].high /\ view'[c].card = view[c].card
        BY <2>1, <2>2 DEF Takes
    <2>4. \A k \in Pos(view[c].log) : view[c].log[k].of < wire[1].of
        BY <1>1, <2>1, <2>2 DEF IInv, LogInv, Replayed
    <2>5. cutoff'[c] \in Nat /\ cutoff[c] <= cutoff'[c] /\ wire[1].of <= cutoff'[c]
        BY <1>3, <2>1, <2>2
    <2>6. \A k \in Pos(view'[c].log) :
              view'[c].log[k].kind = "rep" /\ view'[c].log[k].of <= cutoff'[c]
        <3> SUFFICES ASSUME NEW k \in Pos(view'[c].log)
                     PROVE  view'[c].log[k].kind = "rep" /\ view'[c].log[k].of <= cutoff'[c]
            OBVIOUS
        <3>1. CASE k \in Pos(view[c].log)
            <4>1. /\ view'[c].log[k] = view[c].log[k] /\ view[c].log[k].kind = "rep"
                  /\ view[c].log[k].of \in Nat /\ view[c].log[k].of <= cutoff[c]
                BY <1>3, <2>1, <2>3, <3>1 DEF Appends
            <4> QED BY <1>3, <2>5, <4>1
        <3>2. CASE view'[c].log[k] = wire[1]
            BY <2>2, <2>5, <3>2
        <3> QED BY <2>3, <3>1, <3>2 DEF Appends
    <2>7. Increasing(view'[c].log, "rep")
        <3> SUFFICES ASSUME NEW j \in Pos(view'[c].log), NEW k \in Pos(view'[c].log), j < k
                     PROVE  view'[c].log[j].of < view'[c].log[k].of
            BY DEF Increasing
        <3>1. j \in Pos(view[c].log) /\ view'[c].log[j] = view[c].log[j]
            BY <1>3, <2>3 DEF Appends, Pos
        <3>2. CASE k \in Pos(view[c].log)
            BY <2>1, <2>3, <3>1, <3>2 DEF Appends, Increasing
        <3>3. CASE view'[c].log[k] = wire[1]
            BY <2>4, <3>1, <3>3
        <3> QED BY <2>3, <3>2, <3>3 DEF Appends
    <2>8. ASSUME NEW e \in 1..cutoff'[c] PROVE Shows(view'[c], e)
        <3>1. e \in Nat \ {0}
            BY <2>5
        <3>2. CASE Shows(view[c], e)
            BY <2>1, <3>2, StillShown
        <3>3. CASE e = wire[1].of
            BY <2>2, <2>3, <3>3, NowShown DEF IsEvent
        <3>4. CASE e # wire[1].of /\ ~Shows(view[c], e)
            <4>1. e < wire[1].of
                <5>1. ~(e <= cutoff[c])
                    BY <1>3, <2>1, <3>1, <3>4
                <5> QED BY <1>3, <2>1, <2>2, <2>8, <3>1, <3>4, <5>1
            <4>2. wire[1].of <= task[c].upTo /\ task[c].upTo \in Nat
                BY <2>1, <2>2 DEF IInv, RepInv, TypeOK, Task
            <4>3. e \in 1..task[c].upTo
                BY <2>2, <3>1, <4>1, <4>2
            <4>4. c \in Subscribers \ over
                BY <1>1, <1>8 DEF SentLine, Subscribers
            <4>5. Has(wire, Rep(e, c))
                BY <3>4, <4>3, <4>4 DEF IInv, CoverInv
            <4>6. PICK k \in Pos(wire) : wire[k] = Rep(e, c)
                BY <4>5 DEF Has
            <4>7. wire[k].kind = "rep" /\ wire[k].to = c /\ wire[k].of = e
                BY <3>1, <4>6, Made
            <4>8. k # 1 /\ k > 1
                BY <3>4, <4>7 DEF Pos
            <4>9. wire[1].of < e
                BY <2>1, <2>2, <4>7, <4>8 DEF IInv, RepInv
            <4> QED BY <2>2, <3>1, <4>1, <4>9
        <3> QED BY <3>2, <3>3, <3>4
    <2>9. \A k \in Pos(buffer[c]) : buffer[c][k].kind = "live" => buffer[c][k].of <= passed'
        BY <1>3, <1>4, <2>1
    <2> QED BY <2>1, <2>3, <2>6, <2>7, <2>8, <2>9
<1> HIDE DEF Good
<1> QED BY Sees, <1>5, <1>6, <1>7, <1>8 DEF Leaves, SentLive, Answered

LEMMA KeepsIn ==
    ASSUME IInv, [Next]_vars
    PROVE  InInv'
<1>1. ASSUME NEW v, Ordered(v) PROVE Ordered(v)'
    <2>1. straddled \subseteq straddled'
        BY Sending DEF More, NoMore
    <2> QED BY <1>1, <2>1 DEF Ordered, Follows
<1> SUFFICES ASSUME NEW c \in Clients \ over', conn'[c] = "in"
             PROVE  Ordered(view'[c]) /\ view'[c].high <= passed'
    BY <1>1 DEF InInv, Ordered, Follows
<1>2. c \notin over
    BY Sees
<1>3. /\ TypeOK /\ conn[c] = "in" => Ordered(view[c]) /\ view[c].high <= passed
      /\ view[c] \in View /\ view[c].high \in Nat
    BY <1>2 DEF IInv, InInv, TypeOK, View
<1>4. passed \in Nat /\ passed' \in Nat /\ passed <= passed' /\ TypeOK
    BY PassedGrows DEF IInv
<1>5. CASE Rests(c)
    BY <1>3, <1>4, <1>5 DEF Rests, Ordered
<1>6. CASE SentLine(c)
    <2>1. wire[1].to = c /\ 1 \in Pos(wire) /\ conn[c] = "in"
        BY <1>4, <1>6, RouteReplayDoes DEF SentLine, Drops
    <2> QED BY <2>1 DEF IInv, LifeInv, NothingTo
<1>7. CASE SentLive(c)
    <2>1. /\ Takes(view[c], wire[1], view'[c]) /\ conn[c] = "in"
          /\ wire[1] \in Message /\ wire[1].kind \in {"live", "ask", "res"} /\ 1 \in Pos(wire)
          /\ wire[1].kind = "live" =>
                wire[1].of \in Nat /\ passed < wire[1].of /\ passed' = wire[1].of
        BY <1>7, PassedGrows DEF SentLive
    <2>2. wire[1].kind = "live" =>
              \A k \in Pos(view[c].log) :
                  view[c].log[k].kind = "rep" => Follows(view[c].log[k].of, wire[1].of)
        BY <1>2, <2>1 DEF IInv, LogInv, Replayed
    <2>3. Ordered(view'[c])
        BY <1>3, <1>4, <2>1, <2>2, OrderKept
    <2>4. view'[c].high <= passed'
        BY <1>3, <1>4, <2>1 DEF Takes
    <2> QED BY <2>3, <2>4
<1>8. CASE Answered(c)
    <2>1. Ordered(view'[c]) /\ view'[c].high <= passed
        BY <1>2, <1>8, AnsweredLog
    <2>2. view'[c].high \in Nat
        BY KeepsType DEF TypeOK, View
    <2> QED BY <1>4, <2>1, <2>2
<1> QED BY Sees, <1>5, <1>6, <1>7, <1>8 DEF Leaves, Starts, Buffered

LEMMA KeepsReached ==
    ASSUME IInv, [Next]_vars
    PROVE  ReachedInv'
<1> SUFFICES ASSUME NEW c \in Clients \ over', conn'[c] \in {"loading", "in"},
                    NEW e \in Nat, Forwarded(e)'
             PROVE  \/ e \in dark' \/ e <= since'[c]
                    \/ Has(wire', Live(e)) \/ Has(buffer'[c], Live(e)) \/ Shows(view'[c], e)
    BY DEF ReachedInv, Subscribers
<1>1. c \notin over /\ ~Leaves(c)
    BY Sees DEF Leaves
<1>2. TypeOK /\ SessionInv /\ ReachedInv /\ emitted \in Nat
    BY DEF IInv, TypeOK
<1>3. Live(e).kind = "live" /\ Live(e).of = e
    BY DEF Live
<1>4. CASE Forward /\ e = emitted
    BY <1>4, SendsDoes DEF Forward, Sends
<1>5. CASE Forwarded(e)
    <2>1. dark \subseteq dark'
        <3>1. CASE Forward
            BY <3>1 DEF Forward
        <3>2. CASE ~Forward
            BY <3>2, Quiet DEF Persist, Write, RouteLive, sessionVars
        <3> QED BY <3>1, <3>2
    <2>2. CASE Starts(c)
        BY <1>2, <1>5, <2>2 DEF Starts, SessionInv, sessionVars
    <2>3. CASE ~Starts(c)
        <3>1. c \in Subscribers /\ since'[c] = since[c]
            BY <1>1, <2>3, Sees DEF Subscribers, Rests, SentLine, Buffered, SentLive, Answered
        <3>2. \/ e \in dark \/ e <= since[c]
              \/ Has(wire, Live(e)) \/ Has(buffer[c], Live(e)) \/ Shows(view[c], e)
            BY <1>1, <1>2, <1>5, <3>1 DEF ReachedInv
        <3>3. CASE Shows(view[c], e)
            BY <1>1, <3>3, ShowsKept
        <3>4. CASE Has(buffer[c], Live(e))
            <4>1. CASE buffer'[c] = buffer[c]
                BY <3>4, <4>1
            <4>2. CASE Appends(buffer[c], wire[1], buffer'[c])
                BY <3>4, <4>2, HasAppended
            <4>3. CASE Answered(c)
                BY <1>1, <3>4, <4>3, AnsweredLog
            <4> QED BY <1>1, <2>3, Sees, <4>1, <4>2, <4>3 DEF Rests, SentLine, Buffered, SentLive
        <3>5. CASE Has(wire, Live(e))
            <4>1. CASE RouteLive
                <5>1. /\ wire[1] \in Message /\ Drops(wire, wire') /\ Head(wire) = wire[1]
                      /\ wire[1].kind = "live" => passed < wire[1].of /\ passed \in Nat
                    BY <4>1, PassedGrows
                <5>2. CASE wire[1] # Live(e)
                    BY <3>5, <5>1, <5>2, HasDropped
                <5>3. CASE wire[1] = Live(e) /\ Buffered(c)
                    BY <5>3, HasAppended DEF Buffered
                <5>4. CASE wire[1] = Live(e) /\ SentLive(c)
                    <6>1. view[c].high <= passed /\ view[c].high \in Nat
                        BY <1>1, <5>4 DEF SentLive, IInv, InInv, TypeOK, View
                    <6>2. e > view[c].high
                        BY <1>3, <5>1, <5>4, <6>1
                    <6>3. Appends(view[c].log, wire[1], view'[c].log)
                        BY <1>3, <5>4, <6>1, <6>2 DEF SentLive, Takes
                    <6> QED BY <1>3, <5>4, <6>3, NowShown DEF IsEvent
                <5>5. ~Answered(c) /\ ~SentLine(c) /\ ~Rests(c)
                    BY <3>1, <4>1 DEF Answered, SentLine, Rests, RouteLive, RouteReplay,
                                      RouteResponse, IsAnswer
                <5> QED BY <1>1, <2>3, Sees, <5>2, <5>3, <5>4, <5>5
            <4>2. CASE Persist \/ Write
                BY <3>5, <4>2 DEF Persist, Write
            <4>3. CASE Forward
                BY <3>5, <4>3, SendsDoes, GrowsHas DEF Forward, Sends
            <4>4. CASE ~Persist /\ ~Write /\ ~Forward /\ ~RouteLive
                BY <3>5, <4>4, Quiet
            <4> QED BY <4>1, <4>2, <4>3, <4>4
        <3> QED BY <2>1, <3>1, <3>2, <3>3, <3>4, <3>5
    <2> QED BY <2>2, <2>3
<1>6. Forwarded(e) \/ (Forward /\ e = emitted)
    <2>1. CASE Persist
        BY <1>2, <2>1 DEF Persist, Forwarded
    <2>2. CASE Forward
        BY <1>2, <2>2 DEF Forward, Forwarded
    <2>3. CASE Write \/ RouteLive
        BY <2>3 DEF Write, RouteLive, Forwarded, sessionVars
    <2>4. CASE ~Persist /\ ~Write /\ ~Forward /\ ~RouteLive
        BY <2>4, Quiet DEF Forwarded
    <2> QED BY <2>1, <2>2, <2>3, <2>4
<1> QED BY <1>4, <1>5, <1>6

\* What a step does to the interactions: nothing, one is asked, one ends, or
\* the leader routes a live message.
Silent ==
    /\ UNCHANGED <<open, fate, cache>>
    /\ \/ wire' = wire
       \/ Drops(wire, wire') /\ wire[1].kind \notin {"ask", "res"}
       \/ Grows /\ \A k \in Pos(wire') : New(k) => wire'[k].kind \notin {"ask", "res"}

Ends(i) ==
    /\ i \in open /\ open' = open \ {i} /\ cache' = cache /\ Sends(Resolved(i))
    /\ fate'[i] \notin {"none", "asked"}
    /\ \A j \in Interactions : j # i => fate'[j] = fate[j]

Begins(i) ==
    /\ i \notin open /\ open' = open \union {i} /\ cache' = cache /\ Sends(Asked(i))
    /\ fate[i] = "none" /\ fate'[i] = "asked"
    /\ \A j \in Interactions : j # i => fate'[j] = fate[j]

LEMMA Talks ==
    ASSUME IInv, [Next]_vars
    PROVE  \/ Silent \/ RouteLive
           \/ \E i \in Interactions : Ends(i) \/ Begins(i)
<1> USE DEF sessionVars, leaderVars
<1>1. TypeOK
    BY DEF IInv
<1>2. CASE UNCHANGED vars \/ Persist \/ Write \/ Attach
    BY <1>2 DEF vars, Persist, Write, Attach, Silent
<1>3. CASE Forward
    <2>1. UNCHANGED <<open, fate, cache>> /\ (gate \/ wire' = wire)
        BY <1>3 DEF Forward
    <2>2. gate => Sends(Live(emitted)) /\ Live(emitted).kind = "live"
        BY <1>3, SendsDoes DEF Live
    <2> QED BY <2>1, <2>2 DEF Silent, Sends
<1>4. CASE RouteReplay
    BY <1>1, <1>4, RouteReplayDoes DEF Silent
<1>5. CASE RouteResponse
    BY <1>1, <1>5, RouteResponseDoes DEF Silent, IsAnswer
<1>6. ASSUME NEW i \in Interactions, NEW by \in {"agent", "user", "pager"}, i \in open,
             Resolve(i, by), cache' = cache
      PROVE  Ends(i)
    BY <1>1, <1>6, SendsDoes DEF Ends, Resolve, TypeOK
<1>7. ASSUME NEW i \in Interactions, Ask(i) PROVE Begins(i)
    <2>1. i \notin open
        BY <1>7 DEF IInv, OpenInv, Ask
    <2> QED BY <1>1, <1>7, <2>1, SendsDoes DEF Begins, Ask, TypeOK
<1>8. ASSUME NEW i \in Interactions, Withdraw(i) PROVE Ends(i)
    BY <1>6, <1>8 DEF Withdraw
<1>9. ASSUME NEW c \in Clients, TakeAnswer(c) PROVE Silent \/ \E i \in Interactions : Ends(i)
    <2>1. PICK i \in Interactions, by \in {"user", "pager"} :
              /\ \/ i \in open /\ Resolve(i, by)
                 \/ i \notin open /\ UNCHANGED <<open, fate, wire>>
              /\ UNCHANGED cache
        BY <1>1, <1>9, TakeAnswerDoes
    <2> QED BY <1>6, <2>1 DEF Silent
<1>10. ASSUME NEW c \in Clients, Replay(c) \/ Delta(c) PROVE Silent
    <2>1. UNCHANGED <<open, fate, cache>>
        BY <1>10 DEF Replay, Delta
    <2> QED BY <1>10, <2>1, SendsDoes DEF Silent, SendsLines
<1>11. ASSUME NEW c \in Clients, AttachFails(c) \/ Respond(c) PROVE Silent
    <2>1. UNCHANGED <<open, fate, cache>>
        BY <1>11 DEF AttachFails, Respond
    <2>2. PICK kind \in {"error", "result"} : Sends(Answer(kind, c))
        BY <1>11, SendsDoes
    <2>3. Answer(kind, c).kind \notin {"ask", "res"}
        BY Made
    <2> QED BY <2>1, <2>2, <2>3 DEF Silent, Sends
<1>12. ASSUME NEW c \in Clients,
              NoReplay(c) \/ BeginFlush(c) \/ NoDelta(c) \/ OpenGate(c) \/ UserAnswers(c)
              \/ (\E replay \in BOOLEAN : RequestAttach(c, replay)) \/ Disconnect(c)
       PROVE  Silent
    BY <1>12 DEF NoReplay, BeginFlush, NoDelta, OpenGate, UserAnswers, RequestAttach, Disconnect,
                 Silent
<1> QED BY NextCases, <1>2, <1>3, <1>4, <1>5, <1>7, <1>8, <1>9, <1>10, <1>11, <1>12

\* A silent step asks and resolves nothing.
LEMMA SilentWire ==
    ASSUME Silent, NEW i \in Interactions, NEW m, m = Asked(i) \/ m = Resolved(i)
    PROVE  Has(wire', m) <=> Has(wire, m)
<1>1. m.kind \in {"ask", "res"}
    BY Made
<1>2. CASE wire' = wire
    BY <1>2
<1>3. CASE Drops(wire, wire') /\ wire[1].kind \notin {"ask", "res"}
    <2>1. Head(wire) = wire[1]
        BY <1>3 DEF Drops
    <2> QED BY <1>1, <1>3, <2>1, HasDropped
<1>4. CASE Grows /\ \A k \in Pos(wire') : New(k) => wire'[k].kind \notin {"ask", "res"}
    BY <1>1, <1>4 DEF Grows, Has
<1> QED BY <1>2, <1>3, <1>4 DEF Silent

\* What a message that is sent adds to the wire.
LEMMA SentHas ==
    ASSUME NEW n, Sends(n), NEW m
    PROVE  Has(wire', m) <=> (Has(wire, m) \/ m = n)
BY DEF Sends, Grows, Has

\* An interaction that was asked is open or resolved on the wire, until that
\* is routed.
Pending(i) == i \in open \/ Has(wire, Resolved(i))

LEMMA PendingKept ==
    ASSUME IInv, [Next]_vars, NEW i \in Interactions, Pending(i)
    PROVE  Pending(i)' \/ (RouteLive /\ wire[1] = Resolved(i))
<1>1. CASE Silent
    BY <1>1, SilentWire DEF Silent, Pending
<1>2. CASE RouteLive
    <2>1. open' = open /\ Drops(wire, wire') /\ Head(wire) = wire[1]
        BY <1>2, PassedGrows DEF RouteLive
    <2> QED BY <1>2, <2>1, HasDropped DEF Pending
<1>3. ASSUME NEW j \in Interactions, Ends(j) \/ Begins(j) PROVE Pending(i)'
    <2>1. Has(wire, Resolved(i)) => Has(wire', Resolved(i))
        BY <1>3, SentHas DEF Ends, Begins
    <2>2. Ends(j) /\ i = j => Has(wire', Resolved(i))
        BY SentHas DEF Ends
    <2> QED BY <1>3, <2>1, <2>2 DEF Ends, Begins, Pending
<1> QED BY Talks, <1>1, <1>2, <1>3

\* A question on its way to the pagers stays there until it is routed.
LEMMA AskedKept ==
    ASSUME IInv, [Next]_vars, NEW i \in Interactions, i \in open'
    PROVE  /\ Has(wire, Asked(i)) => Has(wire', Asked(i)) \/ (RouteLive /\ wire[1] = Asked(i))
           /\ i \in open \/ Has(wire', Asked(i))
<1>1. CASE Silent
    BY <1>1, SilentWire DEF Silent
<1>2. CASE RouteLive
    <2>1. open' = open /\ Drops(wire, wire') /\ Head(wire) = wire[1]
        BY <1>2, PassedGrows DEF RouteLive
    <2> QED BY <1>2, <2>1, HasDropped
<1>3. ASSUME NEW j \in Interactions, Ends(j) \/ Begins(j)
      PROVE  /\ Has(wire, Asked(i)) => Has(wire', Asked(i))
             /\ i \in open \/ Has(wire', Asked(i))
    BY <1>3, SentHas DEF Ends, Begins
<1> QED BY Talks, <1>1, <1>2, <1>3

LEMMA KeepsOpen ==
    ASSUME IInv, [Next]_vars
    PROVE  OpenInv'
<1>1. /\ TypeOK /\ open \subseteq Interactions /\ cache \subseteq Interactions
      /\ \A i \in open : fate[i] = "asked" /\ (i \in cache \/ Has(wire, Asked(i)))
      /\ \A i \in Interactions : Has(wire, Resolved(i)) => fate[i] \notin {"none", "asked"}
      /\ \A i \in cache : Pending(i)
      /\ \A k \in Pos(wire) : wire[k].kind = "ask" =>
            wire[k].of \in open \/ \E n \in Pos(wire) : k < n /\ wire[n] = Resolved(wire[k].of)
    BY DEF IInv, OpenInv, TypeOK, Pending
<1>2. open' \subseteq Interactions /\ cache' \subseteq Interactions
    BY KeepsType DEF TypeOK
<1>3. \A k \in Pos(wire) : wire[k] \in Message /\ (wire[k].kind = "ask" => wire[k].of \in Interactions)
    BY <1>1, MessageFacts DEF TypeOK, Pos
<1>4. \A i \in Interactions : RouteLive /\ wire[1] = Resolved(i) => cache' = cache \ {i}
    <2> SUFFICES ASSUME NEW i \in Interactions, RouteLive, wire[1] = Resolved(i)
                 PROVE  cache' = cache \ {i}
        OBVIOUS
    <2>1. wire[1].kind = "res" /\ wire[1].of = i
        BY Made
    <2> QED BY <1>1, <2>1, RouteLiveDoes
<1>5. \A i \in Interactions : RouteLive /\ wire[1] = Asked(i) => i \in cache'
    <2> SUFFICES ASSUME NEW i \in Interactions, RouteLive, wire[1] = Asked(i)
                 PROVE  i \in cache'
        OBVIOUS
    <2>1. wire[1].kind = "ask" /\ wire[1].of = i
        BY Made
    <2> QED BY <1>1, <2>1, RouteLiveDoes
<1>6. ASSUME NEW i \in open' PROVE fate'[i] = "asked" /\ (i \in cache' \/ Has(wire', Asked(i)))
    <2>1. i \in Interactions
        BY <1>2
    <2>2. CASE Silent
        BY <1>1, <2>2, <2>1, SilentWire DEF Silent
    <2>3. ASSUME NEW j \in Interactions, Ends(j) \/ Begins(j)
          PROVE  fate'[i] = "asked" /\ (i \in cache' \/ Has(wire', Asked(i)))
        <3>1. \A m : Has(wire, m) => Has(wire', m)
            BY <2>3, SentHas DEF Ends, Begins
        <3>2. CASE i \in open
            <4>1. i # j /\ fate'[i] = fate[i] /\ cache' = cache
                BY <1>6, <2>1, <2>3, <3>2 DEF Ends, Begins
            <4> QED BY <1>1, <3>1, <3>2, <4>1
        <3>3. CASE i \notin open
            <4>1. i = j /\ Begins(j)
                BY <1>6, <2>3, <3>3 DEF Ends, Begins
            <4> QED BY <4>1, SentHas DEF Begins
        <3> QED BY <3>2, <3>3
    <2>4. CASE RouteLive
        <3>1. fate' = fate /\ open' = open
            BY <2>4 DEF RouteLive
        <3>2. CASE Has(wire, Asked(i))
            BY <1>1, <1>5, <1>6, <2>1, <3>1, <3>2, AskedKept
        <3>3. CASE i \in cache
            <4>1. fate[i] = "asked"
                BY <1>1, <1>6, <3>1
            <4>2. wire[1] # Resolved(i)
                <5>1. 1 \in Pos(wire)
                    BY <2>4, PassedGrows
                <5> QED BY <1>1, <2>1, <4>1, <5>1 DEF Has
            <4>3. wire[1].kind = "res" => wire[1].of # i
                BY <2>4, <4>2, PassedGrows, MessageFacts
            <4>4. i \in cache'
                BY <1>1, <2>4, <3>3, <4>3, RouteLiveDoes
            <4> QED BY <3>1, <4>1, <4>4
        <3> QED BY <1>1, <1>6, <3>1, <3>2, <3>3
    <2> QED BY Talks, <2>2, <2>3, <2>4
<1>7. ASSUME NEW i \in Interactions, Has(wire', Resolved(i)) PROVE fate'[i] \notin {"none", "asked"}
    <2>1. CASE Silent
        BY <1>1, <1>7, <2>1, SilentWire DEF Silent
    <2>2. ASSUME NEW j \in Interactions, Ends(j) PROVE fate'[i] \notin {"none", "asked"}
        <3>1. CASE i = j
            BY <2>2, <3>1 DEF Ends
        <3>2. CASE i # j
            <4>1. Resolved(i) # Resolved(j)
                BY <3>2, Made
            <4> QED BY <1>1, <1>7, <2>2, <3>2, <4>1, SentHas DEF Ends
        <3> QED BY <3>1, <3>2
    <2>3. ASSUME NEW j \in Interactions, Begins(j) PROVE fate'[i] \notin {"none", "asked"}
        <3>1. Resolved(i) # Asked(j)
            <4>1. Resolved(i).kind = "res" /\ Asked(j).kind = "ask"
                BY Made
            <4> QED BY <4>1
        <3>2. Has(wire, Resolved(i))
            BY <1>7, <2>3, <3>1, SentHas DEF Begins
        <3> QED BY <1>1, <2>3, <3>2 DEF Begins
    <2>4. CASE RouteLive
        <3>1. Drops(wire, wire') /\ fate' = fate
            BY <2>4, PassedGrows DEF RouteLive
        <3> QED BY <1>1, <1>7, <3>1, HasDropped
    <2> QED BY Talks, <2>1, <2>2, <2>3, <2>4
<1>8. ASSUME NEW k \in Pos(wire), wire[k].kind = "ask" PROVE Pending(wire[k].of)
    BY <1>1, <1>8 DEF Pending, Has
<1>9. ASSUME NEW i \in cache' PROVE Pending(i)'
    <2>1. i \in Interactions
        BY <1>2
    <2>2. CASE i \in cache
        BY <1>1, <1>4, <1>9, <2>1, <2>2, PendingKept
    <2>3. CASE i \notin cache
        <3>1. RouteLive
            BY <1>9, <2>3, Talks DEF Silent, Ends, Begins
        <3>2. wire[1].kind = "ask" /\ wire[1].of = i
            <4>1. /\ cache' = CASE wire[1].kind = "ask" -> cache \union {wire[1].of}
                                [] wire[1].kind = "res" -> cache \ {wire[1].of}
                                [] wire[1].kind = "live" -> cache
                  /\ wire[1].kind \in {"live", "ask", "res"}
                BY <1>1, <3>1, RouteLiveDoes
            <4> QED BY <1>9, <2>3, <4>1
        <3>3. 1 \in Pos(wire) /\ wire[1] # Resolved(i)
            <4>1. Resolved(i).kind = "res"
                BY <2>1, Made
            <4> QED BY <3>1, <3>2, <4>1, PassedGrows
        <3>4. Pending(i)
            BY <1>8, <3>2, <3>3
        <3> QED BY <2>1, <3>3, <3>4, PendingKept
    <2> QED BY <2>2, <2>3
<1>10. ASSUME NEW k \in Pos(wire'), wire'[k].kind = "ask"
       PROVE  wire'[k].of \in open' \/ \E n \in Pos(wire') : k < n /\ wire'[n] = Resolved(wire'[k].of)
    <2>1. CASE Silent /\ wire' = wire
        BY <1>1, <1>10, <2>1 DEF Silent
    <2>2. CASE open' = open /\ Drops(wire, wire')
        <3>1. k + 1 \in Pos(wire) /\ wire'[k] = wire[k + 1]
            BY <2>2 DEF Drops
        <3>2. CASE wire'[k].of \in open
            BY <2>2, <3>2
        <3>3. ASSUME NEW n \in Pos(wire), k + 1 < n, wire[n] = Resolved(wire'[k].of)
              PROVE  \E p \in Pos(wire') : k < p /\ wire'[p] = Resolved(wire'[k].of)
            <4>1. n - 1 \in Pos(wire') /\ wire'[n - 1] = wire[n] /\ k < n - 1
                BY <2>2, <3>3 DEF Drops, Pos
            <4> QED BY <3>3, <4>1
        <3> QED BY <1>1, <1>10, <3>1, <3>2, <3>3
    <2>3. CASE Grows /\ k \in Pos(wire) /\ open \subseteq open'
        <3>1. wire'[k] = wire[k]
            BY <2>3 DEF Grows
        <3>2. wire[k].of \in open \/ \E n \in Pos(wire) : k < n /\ wire[n] = Resolved(wire[k].of)
            BY <1>1, <1>10, <2>3, <3>1
        <3> QED BY <2>3, <3>1, <3>2 DEF Grows
    <2>4. ASSUME NEW i \in Interactions, Ends(i)
          PROVE  wire'[k].of \in open' \/ \E n \in Pos(wire') : k < n /\ wire'[n] = Resolved(wire'[k].of)
        <3>1. k \in Pos(wire) /\ wire'[k] = wire[k]
            <4>1. Resolved(i).kind = "res"
                BY Made
            <4> QED BY <1>10, <2>4, <4>1 DEF Ends, Sends, Grows
        <3>2. CASE wire[k].of = i
            <4>1. PICK n \in Pos(wire') : wire'[n] = Resolved(i)
                BY <2>4 DEF Ends, Sends, Has
            <4>2. n \notin Pos(wire)
                <5> SUFFICES ASSUME n \in Pos(wire) PROVE FALSE
                    OBVIOUS
                <5>1. Has(wire, Resolved(i))
                    BY <2>4, <4>1 DEF Ends, Sends, Grows, Has
                <5> QED BY <1>1, <2>4, <5>1 DEF Ends
            <4>3. k < n
                BY <2>4, <3>1, <4>2 DEF Ends, Sends, Grows
            <4> QED BY <3>1, <3>2, <4>1, <4>3
        <3>3. CASE wire[k].of # i
            <4>1. wire[k].of \in open \/ \E n \in Pos(wire) : k < n /\ wire[n] = Resolved(wire[k].of)
                BY <1>1, <1>10, <3>1
            <4> QED BY <2>4, <3>1, <3>3, <4>1 DEF Ends, Sends, Grows
        <3> QED BY <3>2, <3>3
    <2>5. ASSUME NEW i \in Interactions, Begins(i)
          PROVE  wire'[k].of \in open' \/ \E n \in Pos(wire') : k < n /\ wire'[n] = Resolved(wire'[k].of)
        <3>1. Grows /\ open \subseteq open' /\ i \in open' /\ (New(k) => wire'[k] = Asked(i))
            BY <2>5 DEF Begins, Sends
        <3>2. New(k) => wire'[k].of = i
            BY <3>1, Made
        <3> QED BY <2>3, <3>1, <3>2 DEF Grows
    <2>6. CASE RouteLive
        BY <2>2, <2>6, PassedGrows DEF RouteLive
    <2>7. CASE Silent
        <3>1. CASE Grows /\ \A n \in Pos(wire') : New(n) => wire'[n].kind \notin {"ask", "res"}
            BY <1>10, <2>3, <2>7, <3>1 DEF Grows, Silent
        <3> QED BY <2>1, <2>2, <2>7, <3>1 DEF Silent
    <2> QED BY Talks, <2>4, <2>5, <2>6, <2>7
<1> QED BY <1>6, <1>7, <1>9, <1>10 DEF OpenInv, Pending

\* A question that is routed is open, or its end is still on the wire.
LEMMA RoutedAsk ==
    ASSUME IInv, [Next]_vars, RouteLive, NEW i \in Interactions, wire[1] = Asked(i)
    PROVE  Pending(i)'
<1>1. 1 \in Pos(wire) /\ wire[1].kind = "ask" /\ wire[1].of = i
    BY PassedGrows, Made
<1>2. Pending(i)
    BY <1>1 DEF IInv, OpenInv, Pending, Has
<1>3. wire[1] # Resolved(i)
    <2>1. Resolved(i).kind = "res"
        BY Made
    <2> QED BY <1>1, <2>1
<1> QED BY <1>2, <1>3, PendingKept

LEMMA KeepsBuffer ==
    ASSUME IInv, [Next]_vars
    PROVE  BufferInv'
<1> SUFFICES ASSUME NEW c \in Clients \ over', NEW k \in Pos(buffer'[c]), NEW i,
                    buffer'[c][k].kind = "ask", i = buffer'[c][k].of
             PROVE  Pending(i)' \/ \E n \in Pos(buffer'[c]) : k < n /\ buffer'[c][n] = Resolved(i)
    BY DEF BufferInv, Pending
<1>1. c \notin over /\ TypeOK /\ buffer[c] \in Seq(Message)
    BY Sees DEF IInv, TypeOK
<1>2. i \in Interactions /\ buffer'[c][k] = Asked(i)
    <2>1. buffer'[c][k] \in Message
        BY KeepsType DEF TypeOK, Pos
    <2> QED BY <2>1, MessageFacts
<1>3. ASSUME k \in Pos(buffer[c]), buffer[c][k] = buffer'[c][k]
      PROVE  \/ Pending(i)' \/ (RouteLive /\ wire[1] = Resolved(i))
             \/ \E n \in Pos(buffer[c]) : k < n /\ buffer[c][n] = Resolved(i)
    <2>1. Pending(i) \/ \E n \in Pos(buffer[c]) : k < n /\ buffer[c][n] = Resolved(i)
        BY <1>1, <1>3 DEF IInv, BufferInv, Pending
    <2> QED BY <1>2, <2>1, PendingKept
<1>4. CASE buffer'[c] = <<>>
    BY <1>4 DEF Pos
<1>5. CASE buffer'[c] = buffer[c] /\ conn[c] # "loading"
    <2>1. buffer[c] = <<>>
        BY <1>1, <1>5 DEF IInv, OutInv
    <2> QED BY <1>5, <2>1 DEF Pos
<1>6. CASE buffer'[c] = buffer[c] /\ conn[c] = "loading"
    <2>1. ~RouteLive
        BY <1>6, Sees DEF Rests, Leaves, Starts, SentLine, Buffered, SentLive, Answered, Subscribers,
                          RouteLive, RouteReplay, RouteResponse, IsAnswer, leaderVars
    <2> QED BY <1>3, <1>6, <2>1
<1>7. CASE Buffered(c)
    <2>1. Appends(buffer[c], wire[1], buffer'[c]) /\ RouteLive
        BY <1>7 DEF Buffered
    <2>2. CASE k \in Pos(buffer[c])
        <3>1. buffer'[c][k] = buffer[c][k] /\ k < Len(buffer[c]) + 1
            BY <2>1, <2>2 DEF Appends
        <3>2. Len(buffer[c]) + 1 \in Pos(buffer'[c]) /\ buffer'[c][Len(buffer[c]) + 1] = wire[1]
            BY <2>1 DEF Appends
        <3>3. \A n \in Pos(buffer[c]) : n \in Pos(buffer'[c]) /\ buffer'[c][n] = buffer[c][n]
            BY <2>1 DEF Appends
        <3> QED BY <1>3, <2>2, <3>1, <3>2, <3>3
    <2>3. CASE buffer'[c][k] = wire[1]
        BY <1>2, <2>1, <2>3, RoutedAsk
    <2> QED BY <2>1, <2>2, <2>3 DEF Appends
<1> QED BY Sees, <1>4, <1>5, <1>6, <1>7 DEF Rests, Leaves, Starts, SentLine, SentLive, Answered

\* The card of a client whose attach has been answered.
LEMMA AnsweredCard ==
    ASSUME IInv, NEW c \in Clients \ over, Answered(c)
    PROVE  /\ view'[c].card # None => Pending(view'[c].card)
           /\ \A i \in open : view'[c].card = i \/ Says(view'[c], i) \/ Has(wire, Asked(i))
<1>1. PICK ms, f : Flushing(c, wire[1], ms) /\ FlushOf(c, ms, f) /\ view'[c] = f[Len(ms)]
    BY DEF Answered
<1>2. /\ ms \in Seq(Message) /\ ms[1] = wire[1]
      /\ \A k \in Pos(ms) : \/ k = 1
                            \/ k - 1 \in Pos(buffer[c]) /\ ms[k] = buffer[c][k - 1]
                            \/ k > 1 + Len(buffer[c]) /\ ms[k].kind = "ask" /\ ms[k].of \in cache
      /\ \A k \in Pos(buffer[c]) : k + 1 \in Pos(ms) /\ ms[k + 1] = buffer[c][k]
      /\ \A i \in cache : \E k \in Pos(ms) : k > 1 + Len(buffer[c]) /\ ms[k] = Asked(i)
    BY <1>1 DEF Flushing
<1>3. FlushedCard(ms, Len(ms), view'[c])
    <2>1. view[c].card = None
        BY DEF Answered, IInv, LoadingInv
    <2> QED BY <1>1, <1>2, <2>1, FlushCards
<1>4. /\ open \subseteq Interactions /\ cache \subseteq Interactions /\ buffer[c] \in Seq(Message)
      /\ \A i \in cache : Pending(i)
      /\ \A i \in open : i \in cache \/ Has(wire, Asked(i))
    BY DEF IInv, TypeOK, OpenInv, Pending
<1>5. wire[1].kind \in {"result", "error"}
    <2>1. Head(wire) = wire[1]
        BY DEF Answered, RouteResponse, IInv, TypeOK
    <2> QED BY <2>1 DEF Answered, RouteResponse, IsAnswer
<1>6. ASSUME view'[c].card # None PROVE Pending(view'[c].card)
    <2>1. PICK i : i = view'[c].card
        OBVIOUS
    <2>2. PICK j \in 1..Len(ms) : ms[j] = Asked(i) /\ \A n \in 1..Len(ms) : j < n => ms[n] # Resolved(i)
        BY <1>3, <1>6, <2>1 DEF FlushedCard
    <2>3. ms[j].kind = "ask" /\ ms[j].of = i
        BY <2>2 DEF Asked
    <2>4. j # 1
        BY <1>2, <1>5, <2>3
    <2>5. CASE ms[j].of \in cache
        BY <1>4, <2>1, <2>3, <2>5
    <2>6. CASE j - 1 \in Pos(buffer[c]) /\ ms[j] = buffer[c][j - 1]
        <3>1. \/ Pending(i)
              \/ \E n \in Pos(buffer[c]) : j - 1 < n /\ buffer[c][n] = Resolved(i)
            BY <2>3, <2>6 DEF IInv, BufferInv, Pending
        <3>2. \A n \in Pos(buffer[c]) : j - 1 < n => buffer[c][n] # Resolved(i)
            <4> SUFFICES ASSUME NEW n \in Pos(buffer[c]), j - 1 < n, buffer[c][n] = Resolved(i)
                         PROVE  FALSE
                OBVIOUS
            <4>1. n + 1 \in 1..Len(ms) /\ j < n + 1 /\ ms[n + 1] = Resolved(i)
                BY <1>2 DEF Pos
            <4> QED BY <2>2, <4>1
        <3> QED BY <2>1, <3>1, <3>2
    <2> QED BY <1>2, <2>4, <2>5, <2>6 DEF Pos
<1>7. ASSUME NEW i \in open, i \in cache PROVE view'[c].card = i \/ Says(view'[c], i)
    <2>1. PICK k \in Pos(ms) : k > 1 + Len(buffer[c]) /\ ms[k] = Asked(i)
        BY <1>2, <1>7
    <2>2. ms[k].kind = "ask" /\ ms[k].of = i /\ k \in 1..Len(ms)
        BY <2>1 DEF Asked, Pos
    <2>3. ASSUME NEW n \in 1..Len(ms), k < n PROVE ms[n] # Resolved(i)
        <3>1. n # 1 /\ n - 1 \notin Pos(buffer[c])
            BY <1>4, <2>1, <2>3 DEF Pos
        <3>2. ms[n].kind = "ask"
            BY <1>2, <3>1 DEF Pos
        <3> QED BY <3>2 DEF Resolved
    <2> QED BY <1>3, <2>2, <2>3 DEF FlushedCard
<1> QED BY <1>4, <1>6, <1>7

LEMMA KeepsCard ==
    ASSUME IInv, [Next]_vars
    PROVE  CardInv'
<1> SUFFICES ASSUME NEW c \in Clients \ over', conn'[c] = "in"
             PROVE  /\ \A i \in Interactions : view'[c].card = i => Pending(i)'
                    /\ \A i \in open' : view'[c].card = i \/ Says(view'[c], i) \/ Has(wire', Asked(i))
    <2>1. \A c \in Clients : view'[c].card # None => view'[c].card \in Interactions
        BY KeepsType DEF TypeOK, View
    <2> QED BY <2>1 DEF CardInv, Pending
<1>1. /\ c \notin over /\ TypeOK /\ open \subseteq Interactions /\ open' \subseteq Interactions
      /\ None \notin Interactions
    BY Sees, KeepsType, AttachAssumption DEF IInv, TypeOK
<1>2. ASSUME conn[c] = "in"
      PROVE  /\ \A i \in Interactions : view[c].card = i => Pending(i)
             /\ \A i \in open : view[c].card = i \/ Says(view[c], i) \/ Has(wire, Asked(i))
    BY <1>1, <1>2 DEF IInv, CardInv, Pending
<1>3. CASE Rests(c)
    <2>1. conn[c] = "in" /\ ~RouteLive
        BY <1>3 DEF Rests, Subscribers
    <2>2. \A i \in Interactions : view[c].card = i => Pending(i)'
        BY <1>2, <2>1, PendingKept
    <2>3. CASE view'[c] = view[c]
        BY <1>1, <1>2, <2>1, <2>2, <2>3, AskedKept
    <2>4. CASE TakeAnswer(c)
        <3>1. PICK a \in Interactions, by \in {"user", "pager"} :
                  /\ view'[c].card = view[c].card
                  /\ \A j \in Interactions : Says(view[c], j) => j = a \/ Says(view'[c], j)
                  /\ \/ a \in open /\ Resolve(a, by)
                     \/ a \notin open /\ UNCHANGED <<open, fate, wire>>
            BY <1>1, <2>4, TakeAnswerDoes
        <3>2. a \notin open'
            BY <3>1 DEF Resolve
        <3> QED BY <1>1, <1>2, <2>1, <2>2, <3>1, <3>2, AskedKept
    <2>5. CASE UserAnswers(c)
        <3>1. /\ view'[c].card = None /\ Says(view'[c], view[c].card)
              /\ \A j \in Interactions : Says(view[c], j) => Says(view'[c], j)
            BY <1>1, <2>5, UserAnswersDoes
        <3> QED BY <1>1, <1>2, <2>1, <3>1, AskedKept
    <2> QED BY <1>3, <2>3, <2>4, <2>5 DEF Rests
<1>4. CASE SentLine(c)
    <2>1. wire[1].to = c /\ 1 \in Pos(wire) /\ conn[c] = "in"
        BY <1>1, <1>4, RouteReplayDoes DEF SentLine, Drops
    <2> QED BY <2>1 DEF IInv, LifeInv, NothingTo
<1>5. CASE SentLive(c)
    <2>1. /\ RouteLive /\ conn[c] = "in" /\ Takes(view[c], wire[1], view'[c])
          /\ wire[1] \in Message /\ wire[1].kind \in {"live", "ask", "res"} /\ 1 \in Pos(wire)
          /\ open' = open
        BY <1>5, PassedGrows DEF SentLive, RouteLive
    <2>2. \A i \in Interactions : Says(view[c], i) => Says(view'[c], i)
        BY <2>1 DEF Takes
    <2>3. CASE wire[1].kind = "live"
        <3>1. view'[c].card = view[c].card
            BY <2>1, <2>3 DEF Takes
        <3>2. \A i \in Interactions : wire[1] # Resolved(i) /\ wire[1] # Asked(i)
            BY <2>3, Made
        <3> QED BY <1>1, <1>2, <2>1, <2>2, <3>1, <3>2, AskedKept, PendingKept
    <2>4. CASE wire[1].kind = "ask"
        <3>1. PICK a \in Interactions : wire[1] = Asked(a) /\ view'[c].card = a
            BY <2>1, <2>4, MessageFacts DEF Takes
        <3>2. view[c].card # None => Says(view'[c], view[c].card)
            BY <2>1, <2>4 DEF Takes
        <3>3. Pending(a)'
            BY <2>1, <3>1, RoutedAsk
        <3>4. \A i \in Interactions : Asked(i) = Asked(a) => i = a
            BY Made
        <3>5. ASSUME NEW i \in open'
              PROVE  view'[c].card = i \/ Says(view'[c], i) \/ Has(wire', Asked(i))
            <4>1. view[c].card = i \/ Says(view[c], i) \/ Has(wire, Asked(i))
                BY <1>2, <2>1, <3>5
            <4>2. i \in Interactions /\ i # None
                BY <1>1, <3>5
            <4> QED BY <2>2, <3>1, <3>2, <3>4, <3>5, <4>1, <4>2, AskedKept
        <3> QED BY <3>1, <3>3, <3>5
    <2>5. CASE wire[1].kind = "res"
        <3>1. PICK a \in Interactions : wire[1] = Resolved(a) /\ wire[1].of = a
            BY <2>1, <2>5, MessageFacts
        <3>2. view'[c].card = IF view[c].card = a THEN None ELSE view[c].card
            BY <2>1, <2>5, <3>1 DEF Takes
        <3>3. a \notin open
            BY <2>1, <3>1 DEF IInv, OpenInv, Has
        <3>4. \A i \in Interactions : wire[1] # Asked(i)
            BY <2>5, Made
        <3>5. \A i \in Interactions : i # a => wire[1] # Resolved(i)
            BY <3>1, Made
        <3>6. ASSUME NEW i \in Interactions, view'[c].card = i PROVE Pending(i)'
            <4>1. i # a /\ view[c].card = i
                BY <1>1, <3>2, <3>6
            <4> QED BY <1>2, <2>1, <3>5, <4>1, PendingKept
        <3>7. ASSUME NEW i \in open'
              PROVE  view'[c].card = i \/ Says(view'[c], i) \/ Has(wire', Asked(i))
            <4>1. view[c].card = i \/ Says(view[c], i) \/ Has(wire, Asked(i))
                BY <1>2, <2>1, <3>7
            <4>2. i \in Interactions /\ i # a
                BY <1>1, <2>1, <3>3, <3>7
            <4> QED BY <2>2, <3>2, <3>4, <3>7, <4>1, <4>2, AskedKept
        <3> QED BY <3>6, <3>7
    <2> QED BY <2>1, <2>3, <2>4, <2>5
<1>6. CASE Answered(c)
    <2>1. ~RouteLive /\ open' = open
        BY <1>6 DEF Answered, RouteResponse, RouteLive, IsAnswer
    <2>2. /\ view'[c].card # None => Pending(view'[c].card)
          /\ \A i \in open : view'[c].card = i \/ Says(view'[c], i) \/ Has(wire, Asked(i))
        BY <1>1, <1>6, AnsweredCard
    <2>3. \A i \in Interactions : view'[c].card = i => Pending(i)'
        BY <1>1, <2>1, <2>2, PendingKept
    <2> QED BY <1>1, <2>1, <2>2, <2>3, AskedKept
<1> QED BY Sees, <1>3, <1>4, <1>5, <1>6 DEF Leaves, Starts, Buffered

-----------------------------------------------------------------------------
(***************************************************************************)
(* The theorems.                                                           *)
(***************************************************************************)
LEMMA Initially ==
    ASSUME Init
    PROVE  IInv
<1>1. /\ wire = <<>> /\ requests = <<>> /\ emitted = 0 /\ emitting = FALSE /\ disk = 0 /\ passed = 0
      /\ cache = {} /\ open = {} /\ over = {} /\ straddled = {} /\ dark = {}
      /\ \A c \in Clients : /\ task[c] = Idle /\ conn[c] = "out" /\ buffer[c] = <<>>
                            /\ cutoff[c] = 0 /\ view[c] = EmptyView /\ since[c] = 0
    BY DEF Init
<1>2. Idle \in Task /\ Idle.pc = "idle" /\ Idle.upTo = 0 /\ Idle.barrier = 0
    BY DEF Idle, Task
<1>3. EmptyView \in View /\ EmptyView.log = <<>> /\ EmptyView.card = None
    BY DEF EmptyView, View
<1>4. \A m : ~Has(wire, m)
    BY <1>1 DEF Has, Pos
<1>5. Pos(wire) = {} /\ Pos(requests) = {} /\ \A c \in Clients : Pos(view[c].log) = {} /\ Pos(buffer[c]) = {}
    BY <1>1, <1>3 DEF Pos
<1>6. TypeOK
    <2>1. IsFiniteSet(cache)
        BY <1>1, FS_EmptySet
    <2>2. task \in [Clients -> Task] /\ view \in [Clients -> View]
        BY <1>2, <1>3 DEF Init
    <2>3. /\ conn \in [Clients -> {"out", "loading", "in", "gone"}]
          /\ buffer \in [Clients -> Seq(Message)] /\ cutoff \in [Clients -> Nat]
          /\ since \in [Clients -> Nat]
          /\ fate \in [Interactions -> {"none", "asked", "agent", "user", "pager"}]
        BY DEF Init
    <2>4. gate \in BOOLEAN /\ wire \in Seq(Message) /\ requests \in Seq(Clients \X BOOLEAN)
        BY <1>1 DEF Init
    <2> QED BY <1>1, <2>1, <2>2, <2>3, <2>4 DEF TypeOK
<1>7. SessionInv /\ LiveInv /\ RequestInv
    BY <1>1, <1>5 DEF SessionInv, Forwarded, LiveInv, Increasing, RequestInv
<1>8. LifeInv /\ AnswerInv /\ TaskInv
    BY <1>1, <1>2, <1>5 DEF LifeInv, Requested, NothingTo, AnswerInv, TaskInv
<1>9. RepInv /\ LogInv
    BY <1>5 DEF RepInv, LogInv
<1>10. Subscribers = {}
    BY <1>1 DEF Subscribers
<1>11. CoverInv /\ ReachedInv
    BY <1>10 DEF CoverInv, ReachedInv
<1>12. OutInv /\ LoadingInv /\ InInv /\ CardInv
    BY <1>1 DEF OutInv, LoadingInv, InInv, CardInv
<1>13. OpenInv /\ BufferInv
    BY <1>1, <1>4, <1>5 DEF OpenInv, BufferInv
<1> QED BY <1>6, <1>7, <1>8, <1>9, <1>11, <1>12, <1>13 DEF IInv

LEMMA StepKeeps ==
    ASSUME IInv, [Next]_vars
    PROVE  IInv'
BY KeepsType, KeepsSession, KeepsLive, KeepsRequests, KeepsLife, KeepsTask, KeepsRep, KeepsLog,
   KeepsCover, KeepsOut, KeepsLoading, KeepsIn, KeepsReached, KeepsOpen, KeepsCard, KeepsBuffer
   DEF IInv

\* The state of the session, the attaches, the wire and the pagers always has
\* the form the three properties below follow from.
THEOREM InvariantHolds == Spec => []IInv
<1>1. Init => IInv
    BY Initially
<1>2. IInv /\ [Next]_vars => IInv'
    BY StepKeeps
<1> QED BY <1>1, <1>2, PTL DEF Spec

\* The client wire order: whatever the number of clients that attach, the
\* length of the turn and the points at which a flush fails, a client whose
\* buffer did not overflow is shown the events in order, once unless a replay
\* read the event in the middle of its emit, and nothing live before the
\* answer to its attach.
THEOREM WireOrderHolds == Spec => []WireOrder
<1>1. IInv => WireOrder
    <2> SUFFICES ASSUME IInv, NEW c \in Clients \ over
                 PROVE  /\ \A j, k \in Events(c) : j < k =>
                              \/ view[c].log[j].of < view[c].log[k].of
                              \/ /\ view[c].log[j].of = view[c].log[k].of
                                 /\ view[c].log[j].of \in straddled
                        /\ conn[c] = "loading" =>
                              \A k \in DOMAIN view[c].log : view[c].log[k].kind = "rep"
        BY DEF WireOrder
    <2>1. /\ conn[c] \in {"out", "loading", "in", "gone"}
          /\ view[c].log \in Seq(Message) /\ DOMAIN view[c].log = Pos(view[c].log)
        BY DEF IInv, TypeOK, View, Pos
    <2>2. CASE conn[c] \in {"out", "gone"}
        <3>1. view[c] = EmptyView
            BY <2>2 DEF IInv, OutInv
        <3>2. Pos(view[c].log) = {}
            BY <3>1 DEF EmptyView, Pos
        <3> QED BY <2>1, <2>2, <3>2 DEF Events
    <2>3. CASE conn[c] = "loading"
        BY <2>1, <2>3 DEF IInv, LoadingInv, Increasing, Events
    <2>4. CASE conn[c] = "in"
        <3>1. Ordered(view[c])
            BY <2>4 DEF IInv, InInv
        <3>2. \A k \in Events(c) : k \in Pos(view[c].log) /\ IsEvent(view[c].log[k])
            BY <2>1, <3>1 DEF Events, Ordered
        <3> QED BY <2>4, <3>1, <3>2 DEF Ordered, Follows
    <2> QED BY <2>1, <2>2, <2>3, <2>4
<1> QED BY <1>1, InvariantHolds, PTL

\* When nothing is on its way, a viewer lacks only events that the session
\* emitted behind a shut gate or that were routed before it subscribed, and
\* none that its own replay reached or its own flush had promised.
THEOREM MissedOnlyDarkHolds == Spec => []MissedOnlyDark
<1>1. IInv => MissedOnlyDark
    <2> SUFFICES ASSUME IInv, wire = <<>>, ~emitting, NEW c \in Clients \ over, conn[c] = "in",
                        NEW e \in Missing(c)
                 PROVE  /\ e \in dark \/ e <= since[c]
                        /\ e > task[c].upTo /\ e > task[c].barrier
        BY DEF MissedOnlyDark
    <2>1. /\ view[c].log \in Seq(Message) /\ DOMAIN view[c].log = Pos(view[c].log)
          /\ emitted \in Nat /\ task[c].upTo \in Nat /\ task[c].barrier \in Nat
        BY DEF IInv, TypeOK, View, Pos, Task
    <2>2. e \in 1..emitted /\ e \in Nat \ {0}
        BY <2>1 DEF Missing
    <2>3. ~Shows(view[c], e)
        BY <2>1 DEF Missing, Events, Shows, IsEvent, IsAnswer
    <2>4. c \in Subscribers \ over /\ Forwarded(e)
        BY <2>2 DEF Subscribers, Forwarded
    <2>5. \A m : ~Has(wire, m)
        BY DEF Has, Pos
    <2>6. \A m : ~Has(buffer[c], m)
        BY DEF IInv, OutInv, Has, Pos
    <2>7. e \in dark \/ e <= since[c]
        BY <2>2, <2>3, <2>4, <2>5, <2>6 DEF IInv, ReachedInv
    <2>8. ~(e \in 1..task[c].upTo)
        BY <2>3, <2>4, <2>5 DEF IInv, CoverInv
    <2>9. e > task[c].upTo
        BY <2>1, <2>2, <2>8
    <2>10. task[c].barrier <= task[c].upTo
        BY DEF IInv, LifeInv, TaskInv
    <2> QED BY <2>1, <2>2, <2>7, <2>9, <2>10
<1> QED BY <1>1, InvariantHolds, PTL

\* When nothing is on its way, every viewer whose buffer did not overflow
\* shows the interaction that waits and no other.
THEOREM CardsAgreeHold == Spec => []CardsAgree
<1>1. IInv => CardsAgree
    <2> SUFFICES ASSUME IInv, wire = <<>>, \A c \in Clients : view[c].said = <<>>,
                        NEW c \in Clients \ over, conn[c] = "in"
                 PROVE  open = {view[c].card} \ {None}
        BY DEF CardsAgree
    <2>1. \A m : ~Has(wire, m)
        BY DEF Has, Pos
    <2>2. \A i : ~Says(view[c], i)
        BY DEF Says, Pos
    <2>3. view[c].card # None => view[c].card \in open
        BY <2>1 DEF IInv, CardInv
    <2>4. \A i \in open : view[c].card = i /\ i # None
        BY <2>1, <2>2, AttachAssumption DEF IInv, CardInv, TypeOK
    <2> QED BY <2>3, <2>4
<1> QED BY <1>1, InvariantHolds, PTL

=============================================================================
