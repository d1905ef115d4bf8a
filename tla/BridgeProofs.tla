--------------------------- MODULE BridgeProofs ---------------------------
(***************************************************************************)
(* Proofs about three parts of the bridge between OMP and the pager, in    *)
(* this order.                                                             *)
(*                                                                         *)
(* Elicitation, for any number of elicitations, any forms and any texts:   *)
(* OMP's request is answered at most once, an accept is the user's, once   *)
(* the pipes are empty the cards that are shown are those OMP waits for,   *)
(* and what the user picked and typed comes back.  The invariant gives     *)
(* each elicitation a stage, from "none" to "over", and says what each     *)
(* pipe may hold of it there.                                              *)
(*                                                                         *)
(* CatalogPrefetch, for any number of updates.                             *)
(*                                                                         *)
(* SessionHistory, for any session files and any number of loads, writes   *)
(* and frames: no note is skipped, none is shown twice, and the replay     *)
(* puts each where it was written.                                         *)
(*                                                                         *)
(* They share the lemmas about filtered sequences and the induction those  *)
(* need.                                                                   *)
(***************************************************************************)
EXTENDS Elicitation, CatalogPrefetch, SessionHistory, WellFoundedInduction, TLAPS

-----------------------------------------------------------------------------
(* What makes the properties inductive.                                      *)

Places == {"none", "open", "parked", "waiting", "closed"}
Chosen(f) == [Questions(f) -> UNION {Selections(f.props[i]) : i \in Questions(f)}]
Responses == {NoResponse} \cup UNION {{Response(f, s) : s \in Chosen(f)} : f \in Forms}
Outcomes == {"approved", "cancelled", "abandoned", "accept", "decline", "cancel", "accepted",
             "chat_about_this", "skip_interview", "error"}
InboxMessages == [m: {"create", "complete"}, e: Elicits]
ScreenMessages == [m: {"card", "raw", "done", "gone"}, e: Elicits]
Replies == [e: Elicits, raw: BOOLEAN, outcome: Outcomes, response: Responses]
Sayings == [what: {"nothing", "yes", "no"}, answers: {<<>>} \cup UNION {Chosen(f) : f \in Forms}]

TypeOK ==
    /\ req \in [Elicits -> Requests \cup {NoRequest}]
    /\ inbox \in Seq(InboxMessages)
    /\ screen \in Seq(ScreenMessages)
    /\ replies \in Seq(Replies)
    /\ bridged \subseteq Elicits /\ ids \subseteq bridged
    /\ card \in [Elicits -> Places]
    /\ said \in [Elicits -> Sayings]
    /\ DOMAIN got = Elicits /\ got = [e \in Elicits |-> got[e]]

\* The pager shows one card of a kind, parks and waits for one URL card, and
\* shows none while one waits.
OneOfEach ==
    \A d, e \in Elicits :
        /\ card[d] = "open" /\ card[e] = "open" /\ Kind(d) = Kind(e) => d = e
        /\ card[d] \in {"parked", "waiting"} => Kind(d) = "url"
        /\ card[d] = "parked" /\ card[e] = "parked" => d = e
        /\ card[d] = "waiting" /\ card[e] = "waiting" => d = e
        /\ card[d] = "waiting" /\ card[e] = "open" => Kind(e) # "url"

\* How far an elicitation has come; st gives it for each.
Stages == {"none", "asked", "carded", "rawed", "shown", "failing", "over"}

Named(q, i, m, e) == q[i].m = m /\ q[i].e = e
Holds(q, m, e) == \E i \in 1 .. Len(q) : Named(q, i, m, e)
HasReply(q, e) == \E i \in 1 .. Len(q) : q[i].raw = FALSE /\ q[i].e = e

\* A card that is under way is followed by its retraction.
Retracted(q, e) ==
    \A i \in 1 .. Len(q) : Named(q, i, "card", e) => \E j \in i + 1 .. Len(q) : Named(q, j, "gone", e)

\* A message m is under way once, and in its stage.
Single(q, m, stage, st) ==
    \A i \in 1 .. Len(q) : q[i].m = m =>
        /\ st[q[i].e] = stage
        /\ \A j \in 1 .. Len(q) : Named(q, j, m, q[i].e) => j = i

\* The error to a raw request is under way once; an answer comes when the card
\* is gone, and is an approval only if the user said so.
Approvals == {"approved", "accept", "accepted"}
Replied(q, st, sd) ==
    \A i \in 1 .. Len(q) :
        /\ q[i].raw = TRUE =>
              /\ st[q[i].e] = "failing"
              /\ \A j \in 1 .. Len(q) : q[j].raw = TRUE /\ q[j].e = q[i].e => j = i
        /\ q[i].raw = FALSE =>
              /\ st[q[i].e] = "over"
              /\ q[i].outcome \in Approvals => sd[q[i].e].what = "yes"

\* What is known of an elicitation in its stage.
StagedCard(stage, e) ==
    /\ stage = "none" <=> req[e] = NoRequest
    /\ stage = "shown" <=> card[e] \in {"open", "parked"}
    /\ stage \notin {"shown", "over"} => card[e] = "none"
    /\ stage # "over" => said[e].what = "nothing"

\* A request that is not answered is one the user, or an answer under way, will
\* answer; a card nobody waits for will be retracted.
StagedAnswer(stage, e) ==
    /\ e \in bridged =>
          /\ got[e] = <<>>
          /\ stage \in {"carded", "shown", "over"}
          /\ stage = "carded" => Holds(screen, "card", e)
          /\ stage = "over" => HasReply(replies, e)
    /\ e \notin bridged =>
          /\ stage \in {"none", "asked", "rawed", "failing"} => got[e] = <<>>
          /\ stage = "carded" => Retracted(screen, e)
          /\ stage = "shown" => Holds(screen, "gone", e)
    /\ got[e] # <<>> => got[e] = <<got[e][1]>> /\ (got[e][1].action = "accept" => said[e].what = "yes")

Staged(st) ==
    /\ st \in [Elicits -> Stages]
    /\ Single(inbox, "create", "asked", st)
    /\ Single(screen, "card", "carded", st)
    /\ Single(screen, "raw", "rawed", st)
    /\ Replied(replies, st, said)
    /\ \A e \in Elicits : StagedCard(st[e], e) /\ StagedAnswer(st[e], e)

-----------------------------------------------------------------------------
(***************************************************************************)
(* The pipes: what a message at the end, and the loss of the head, do to   *)
(* what is known of a pipe.                                                *)
(***************************************************************************)
LEMMA Pushed ==
    ASSUME NEW S, NEW p \in Seq(S), NEW x \in S, NEW r, r = p \o <<x>>
    PROVE  /\ r \in Seq(S) /\ Len(r) = Len(p) + 1 /\ Len(p) \in Nat
           /\ r[Len(r)] = x
           /\ \A i \in 1 .. Len(p) : r[i] = p[i]
           /\ \A i \in 1 .. Len(r) : i \in 1 .. Len(p) \/ i = Len(r)
<1>1. /\ r \in Seq(S) /\ Len(r) = Len(p) + 1 /\ Len(p) \in Nat
      /\ \A i \in 1 .. Len(p) : r[i] = p[i]
    OBVIOUS
<1>2. r[Len(r)] = x
    OBVIOUS
<1>3. \A i \in 1 .. Len(r) : i \in 1 .. Len(p) \/ i = Len(r)
    BY <1>1
<1> QED BY <1>1, <1>2, <1>3

LEMMA Popped ==
    ASSUME NEW S, NEW p \in Seq(S), p # <<>>, NEW r, r = Tail(p)
    PROVE  /\ r \in Seq(S) /\ Len(r) = Len(p) - 1 /\ Len(p) \in Nat \ {0}
           /\ Head(p) = p[1] /\ Head(p) \in S
           /\ \A i \in 1 .. Len(r) : r[i] = p[i + 1] /\ i + 1 \in 1 .. Len(p)
           /\ \A i \in 1 .. Len(p) : i = 1 \/ (i - 1 \in 1 .. Len(r) /\ r[i - 1] = p[i])
<1>1. /\ r \in Seq(S) /\ Len(r) = Len(p) - 1 /\ Len(p) \in Nat \ {0}
      /\ Head(p) = p[1] /\ Head(p) \in S
      /\ \A i \in 1 .. Len(r) : r[i] = p[i + 1]
    OBVIOUS
<1>2. \A i \in 1 .. Len(r) : i + 1 \in 1 .. Len(p)
    BY <1>1
<1>3. ASSUME NEW i \in 1 .. Len(p), i # 1
      PROVE  i - 1 \in 1 .. Len(r) /\ r[i - 1] = p[i]
    <2>1. i - 1 \in 1 .. Len(r) /\ (i - 1) + 1 = i
        BY <1>1, <1>3
    <2> QED BY <1>1, <2>1
<1> QED BY <1>1, <1>2, <1>3

\* What a pipe q with a message more, or less, than p says of d as p does.
Keeps(p, q, d) ==
    /\ Holds(p, "card", d) => Holds(q, "card", d)
    /\ Holds(p, "gone", d) => Holds(q, "gone", d)
    /\ Retracted(p, d) => Retracted(q, d)

LEMMA HoldsPush ==
    ASSUME NEW S, NEW p \in Seq(S), NEW x \in S, NEW r, r = p \o <<x>>, NEW m, NEW d
    PROVE  /\ Holds(p, m, d) => Holds(r, m, d)
           /\ x.m = m /\ x.e = d => Holds(r, m, d)
           /\ Holds(r, m, d) => Holds(p, m, d) \/ (x.m = m /\ x.e = d)
<1>1. /\ Len(r) = Len(p) + 1 /\ Len(p) \in Nat /\ r[Len(r)] = x
      /\ \A i \in 1 .. Len(p) : r[i] = p[i]
      /\ \A i \in 1 .. Len(r) : i \in 1 .. Len(p) \/ i = Len(r)
    BY Pushed
<1>2. \A i \in 1 .. Len(p) : i \in 1 .. Len(r)
    BY <1>1
<1>3. Len(r) \in 1 .. Len(r)
    BY <1>1
<1> QED BY <1>1, <1>2, <1>3, Zenon DEF Holds, Named

LEMMA HoldsPop ==
    ASSUME NEW S, NEW p \in Seq(S), p # <<>>, NEW r, r = Tail(p), NEW m, NEW d
    PROVE  /\ Holds(r, m, d) => Holds(p, m, d)
           /\ Holds(p, m, d) => Holds(r, m, d) \/ (p[1].m = m /\ p[1].e = d)
<1>1. /\ \A i \in 1 .. Len(r) : r[i] = p[i + 1] /\ i + 1 \in 1 .. Len(p)
      /\ \A i \in 1 .. Len(p) : i = 1 \/ (i - 1 \in 1 .. Len(r) /\ r[i - 1] = p[i])
    BY Popped
<1>2. ASSUME NEW i \in 1 .. Len(r), Named(r, i, m, d)
      PROVE  Named(p, i + 1, m, d) /\ i + 1 \in 1 .. Len(p)
    BY <1>1, <1>2, Zenon DEF Named
<1>3. ASSUME NEW i \in 1 .. Len(p), Named(p, i, m, d), ~(p[1].m = m /\ p[1].e = d)
      PROVE  Named(r, i - 1, m, d) /\ i - 1 \in 1 .. Len(r)
    BY <1>1, <1>3, Zenon DEF Named
<1> QED BY <1>2, <1>3, Zenon DEF Holds

LEMMA RetractedPush ==
    ASSUME NEW S, NEW p \in Seq(S), NEW x \in S, NEW r, r = p \o <<x>>, NEW d
    PROVE  /\ Retracted(p, d) /\ ~(x.m = "card" /\ x.e = d) => Retracted(r, d)
           /\ x.m = "gone" /\ x.e = d => Retracted(r, d)
<1>1. /\ Len(r) = Len(p) + 1 /\ Len(p) \in Nat /\ r[Len(r)] = x
      /\ \A i \in 1 .. Len(p) : r[i] = p[i]
      /\ \A i \in 1 .. Len(r) : i \in 1 .. Len(p) \/ i = Len(r)
    BY Pushed
<1>2. \A i \in 1 .. Len(p) : \A j \in i + 1 .. Len(p) : j \in i + 1 .. Len(r) /\ j \in 1 .. Len(p)
    BY <1>1
<1>3. \A i \in 1 .. Len(p) : Len(r) \in i + 1 .. Len(r)
    BY <1>1
<1>4. ASSUME Retracted(p, d), ~(x.m = "card" /\ x.e = d)
      PROVE  Retracted(r, d)
    <2>1. SUFFICES ASSUME NEW i \in 1 .. Len(r), Named(r, i, "card", d)
                   PROVE  \E j \in i + 1 .. Len(r) : Named(r, j, "gone", d)
        BY DEF Retracted
    <2>2. i \in 1 .. Len(p) /\ Named(p, i, "card", d)
        BY <1>1, <1>4, <2>1, Zenon DEF Named
    <2>3. PICK j \in i + 1 .. Len(p) : Named(p, j, "gone", d)
        BY <1>4, <2>2, Zenon DEF Retracted
    <2> QED BY <1>1, <1>2, <2>2, <2>3, Zenon DEF Named
<1>5. ASSUME x.m = "gone", x.e = d
      PROVE  Retracted(r, d)
    <2>1. x.m # "card"
        BY <1>5
    <2> QED BY <1>1, <1>3, <1>5, <2>1, Zenon DEF Retracted, Named
<1> QED BY <1>4, <1>5

LEMMA RetractedPop ==
    ASSUME NEW S, NEW p \in Seq(S), p # <<>>, NEW r, r = Tail(p), NEW d, Retracted(p, d)
    PROVE  /\ Retracted(r, d)
           /\ p[1].m = "card" /\ p[1].e = d => Holds(r, "gone", d)
<1>1. /\ Len(r) = Len(p) - 1 /\ Len(p) \in Nat \ {0}
      /\ \A i \in 1 .. Len(r) : r[i] = p[i + 1] /\ i + 1 \in 1 .. Len(p)
      /\ \A i \in 1 .. Len(p) : i = 1 \/ (i - 1 \in 1 .. Len(r) /\ r[i - 1] = p[i])
    BY Popped
<1>2. ASSUME NEW i \in 1 .. Len(r), Named(r, i, "card", d)
      PROVE  \E j \in i + 1 .. Len(r) : Named(r, j, "gone", d)
    <2>1. PICK j \in (i + 1) + 1 .. Len(p) : Named(p, j, "gone", d)
        BY <1>1, <1>2, Zenon DEF Retracted, Named
    <2>2. j - 1 \in i + 1 .. Len(r) /\ j \in 1 .. Len(p) /\ j # 1
        BY <1>1, <2>1
    <2> QED BY <1>1, <2>1, <2>2, Zenon DEF Named
<1>3. ASSUME p[1].m = "card", p[1].e = d
      PROVE  Holds(r, "gone", d)
    <2>1. Named(p, 1, "card", d) /\ 1 \in 1 .. Len(p)
        BY <1>1, <1>3 DEF Named
    <2>2. PICK j \in 1 + 1 .. Len(p) : Named(p, j, "gone", d)
        BY <2>1, Zenon DEF Retracted
    <2>3. j \in 1 .. Len(p) /\ j # 1
        BY <1>1, <2>2
    <2> QED BY <1>1, <2>2, <2>3, Zenon DEF Holds, Named
<1> QED BY <1>2, <1>3 DEF Retracted

LEMMA KeepsPush ==
    ASSUME NEW S, NEW p \in Seq(S), NEW x \in S, NEW r, r = p \o <<x>>, NEW d, ~(x.m = "card" /\ x.e = d)
    PROVE  Keeps(p, r, d)
BY HoldsPush, RetractedPush, Zenon DEF Keeps

LEMMA KeepsPop ==
    ASSUME NEW S, NEW p \in Seq(S), p # <<>>, NEW r, r = Tail(p), NEW d,
           p[1].e # d \/ (p[1].m # "card" /\ p[1].m # "gone")
    PROVE  Keeps(p, r, d)
<1>1. Holds(p, "card", d) => Holds(r, "card", d)
    BY HoldsPop, Zenon
<1>2. Holds(p, "gone", d) => Holds(r, "gone", d)
    BY HoldsPop, Zenon
<1>3. Retracted(p, d) => Retracted(r, d)
    BY RetractedPop
<1> QED BY <1>1, <1>2, <1>3 DEF Keeps

\* A message is under way in no stage but its own.
LEMMA SingleStage ==
    ASSUME NEW q, NEW m, NEW stage, NEW st, Single(q, m, stage, st), NEW d
    PROVE  Holds(q, m, d) => st[d] = stage
BY Zenon DEF Single, Holds, Named

\* The stages of the others do not matter.
LEMMA SingleMove ==
    ASSUME NEW q, \A i \in 1 .. Len(q) : q[i].e \in Elicits,
           NEW m, NEW stage, NEW st, NEW t, Single(q, m, stage, st),
           \A d \in Elicits : t[d] = st[d] \/ st[d] # stage \/ ~Holds(q, m, d)
    PROVE  Single(q, m, stage, t)
<1> SUFFICES ASSUME NEW i \in 1 .. Len(q), q[i].m = m
             PROVE  t[q[i].e] = stage /\ \A j \in 1 .. Len(q) : Named(q, j, m, q[i].e) => j = i
    BY DEF Single
<1>1. Holds(q, m, q[i].e)
    BY Zenon DEF Holds, Named
<1>2. st[q[i].e] = stage /\ \A j \in 1 .. Len(q) : Named(q, j, m, q[i].e) => j = i
    BY Zenon DEF Single
<1>3. t[q[i].e] = st[q[i].e]
    BY <1>1, <1>2, Zenon
<1> QED BY <1>2, <1>3

LEMMA SinglePush ==
    ASSUME NEW S, NEW p \in Seq(S), NEW x \in S, NEW r, r = p \o <<x>>,
           NEW m, NEW stage, NEW st, Single(p, m, stage, st),
           x.m = m => st[x.e] = stage /\ ~Holds(p, m, x.e)
    PROVE  Single(r, m, stage, st)
<1>1. /\ Len(r) = Len(p) + 1 /\ Len(p) \in Nat /\ r[Len(r)] = x
      /\ \A i \in 1 .. Len(p) : r[i] = p[i]
      /\ \A i \in 1 .. Len(r) : i \in 1 .. Len(p) \/ i = Len(r)
    BY Pushed
<1> SUFFICES ASSUME NEW i \in 1 .. Len(r), r[i].m = m
             PROVE  /\ st[r[i].e] = stage
                    /\ \A j \in 1 .. Len(r) : Named(r, j, m, r[i].e) => j = i
    BY DEF Single
<1>2. CASE i \in 1 .. Len(p)
    <2>1. st[r[i].e] = stage /\ \A j \in 1 .. Len(p) : Named(p, j, m, r[i].e) => j = i
        BY <1>1, <1>2, Zenon DEF Single
    <2>2. Holds(p, m, r[i].e)
        BY <1>1, <1>2, Zenon DEF Holds, Named
    <2>3. ~Named(r, Len(r), m, r[i].e)
        BY <1>1, <2>2, Zenon DEF Named
    <2> QED BY <1>1, <2>1, <2>3, Zenon DEF Named
<1>3. CASE i = Len(r)
    <2>1. x.m = m /\ r[i] = x
        BY <1>1, <1>3
    <2>2. st[x.e] = stage /\ ~Holds(p, m, x.e)
        BY <2>1
    <2>3. ASSUME NEW j \in 1 .. Len(r), Named(r, j, m, r[i].e), j # i
          PROVE  FALSE
        <3>1. j \in 1 .. Len(p)
            BY <1>1, <1>3, <2>3
        <3> QED BY <1>1, <2>1, <2>2, <2>3, <3>1, Zenon DEF Holds, Named
    <2> QED BY <2>1, <2>2, <2>3, Zenon
<1> QED BY <1>1, <1>2, <1>3

LEMMA SingleTaken ==
    ASSUME NEW S, NEW p \in Seq(S), p # <<>>, NEW r, r = Tail(p),
           NEW m, NEW stage, NEW st, Single(p, m, stage, st), p[1].m = m
    PROVE  st[p[1].e] = stage /\ ~Holds(r, m, p[1].e)
<1>1. /\ Len(p) \in Nat \ {0}
      /\ \A i \in 1 .. Len(r) : r[i] = p[i + 1] /\ i + 1 \in 1 .. Len(p) /\ i \in Nat
    BY Popped
<1>2. 1 \in 1 .. Len(p)
    BY <1>1
<1>3. st[p[1].e] = stage /\ \A j \in 1 .. Len(p) : Named(p, j, m, p[1].e) => j = 1
    BY <1>1, <1>2, Zenon DEF Single
<1>4. ASSUME NEW i \in 1 .. Len(r), Named(r, i, m, p[1].e)
      PROVE  FALSE
    <2>1. i + 1 = 1
        BY <1>1, <1>3, <1>4, Zenon DEF Named
    <2> QED BY <2>1
<1> QED BY <1>1, <1>3, <1>4, Zenon DEF Holds

LEMMA SinglePop ==
    ASSUME NEW S, NEW p \in Seq(S), p # <<>>, NEW r, r = Tail(p),
           NEW m, NEW stage, NEW st, Single(p, m, stage, st)
    PROVE  Single(r, m, stage, st)
<1>1. /\ Len(r) = Len(p) - 1 /\ Len(p) \in Nat \ {0}
      /\ \A i \in 1 .. Len(r) : r[i] = p[i + 1] /\ i + 1 \in 1 .. Len(p)
    BY Popped
<1>2. ASSUME NEW i \in 1 .. Len(r), r[i].m = m
      PROVE  /\ st[r[i].e] = stage
             /\ \A j \in 1 .. Len(r) : Named(r, j, m, r[i].e) => j = i
    <2>0. i + 1 \in 1 .. Len(p) /\ p[i + 1] = r[i]
        BY <1>1, Zenon
    <2>1. st[r[i].e] = stage /\ \A j \in 1 .. Len(p) : Named(p, j, m, r[i].e) => j = i + 1
        BY <1>2, <2>0 DEF Single
    <2>2. ASSUME NEW j \in 1 .. Len(r), Named(r, j, m, r[i].e)
          PROVE  j = i
        <3>1. j + 1 = i + 1
            BY <1>1, <2>1, <2>2, Zenon DEF Named
        <3> QED BY <3>1
    <2> QED BY <2>1, <2>2
<1> QED BY <1>2, Zenon DEF Single

-----------------------------------------------------------------------------
(***************************************************************************)
(* The replies.                                                            *)
(***************************************************************************)
HasRaw(q, e) == \E i \in 1 .. Len(q) : q[i].raw = TRUE /\ q[i].e = e

LEMMA RepliedStage ==
    ASSUME NEW q, NEW st, NEW sd, Replied(q, st, sd), NEW d
    PROVE  /\ HasReply(q, d) => st[d] = "over"
           /\ HasRaw(q, d) => st[d] = "failing"
<1>1. ASSUME HasReply(q, d) PROVE st[d] = "over"
    <2>1. PICK i \in 1 .. Len(q) : q[i].raw = FALSE /\ q[i].e = d
        BY <1>1, Zenon DEF HasReply
    <2>2. st[q[i].e] = "over" /\ q[i].e = d
        BY <2>1, Zenon DEF Replied
    <2> QED BY <2>2
<1>2. ASSUME HasRaw(q, d) PROVE st[d] = "failing"
    <2>1. PICK i \in 1 .. Len(q) : q[i].raw = TRUE /\ q[i].e = d
        BY <1>2, Zenon DEF HasRaw
    <2>2. st[q[i].e] = "failing" /\ q[i].e = d
        BY <2>1, Zenon DEF Replied
    <2> QED BY <2>2
<1> QED BY <1>1, <1>2

LEMMA RepliedMove ==
    ASSUME NEW q, \A i \in 1 .. Len(q) : q[i].e \in Elicits,
           NEW st, NEW sd, NEW t, NEW td, Replied(q, st, sd),
           \A d \in Elicits : \/ (t[d] = st[d] /\ td[d].what = sd[d].what)
                             \/ st[d] \notin {"failing", "over"}
                             \/ (~HasReply(q, d) /\ ~HasRaw(q, d))
    PROVE  Replied(q, t, td)
<1> SUFFICES ASSUME NEW i \in 1 .. Len(q)
             PROVE  /\ q[i].raw = TRUE =>
                          /\ t[q[i].e] = "failing"
                          /\ \A j \in 1 .. Len(q) : q[j].raw = TRUE /\ q[j].e = q[i].e => j = i
                    /\ q[i].raw = FALSE =>
                          /\ t[q[i].e] = "over"
                          /\ q[i].outcome \in Approvals => td[q[i].e].what = "yes"
    BY DEF Replied
<1>1. /\ q[i].raw = TRUE => HasRaw(q, q[i].e)
      /\ q[i].raw = FALSE => HasReply(q, q[i].e)
    BY Zenon DEF HasRaw, HasReply
<1>2. ASSUME q[i].raw = TRUE
      PROVE  /\ t[q[i].e] = "failing"
             /\ \A j \in 1 .. Len(q) : q[j].raw = TRUE /\ q[j].e = q[i].e => j = i
    <2>0. HasRaw(q, q[i].e)
        BY <1>1, <1>2, Zenon
    <2>1. t[q[i].e] = st[q[i].e]
        BY <2>0, RepliedStage
    <2>2. /\ st[q[i].e] = "failing"
          /\ \A j \in 1 .. Len(q) : q[j].raw = TRUE /\ q[j].e = q[i].e => j = i
        BY <1>2, Zenon DEF Replied
    <2> QED BY <2>1, <2>2, Zenon
<1>3. ASSUME q[i].raw = FALSE
      PROVE  t[q[i].e] = "over" /\ (q[i].outcome \in Approvals => td[q[i].e].what = "yes")
    <2>0. HasReply(q, q[i].e)
        BY <1>1, <1>3, Zenon
    <2>1. t[q[i].e] = st[q[i].e] /\ td[q[i].e].what = sd[q[i].e].what
        BY <2>0, RepliedStage
    <2>2. st[q[i].e] = "over" /\ (q[i].outcome \in Approvals => sd[q[i].e].what = "yes")
        BY <1>3, Zenon DEF Replied
    <2> QED BY <2>1, <2>2, Zenon
<1> QED BY <1>2, <1>3, Zenon

LEMMA HasReplyPush ==
    ASSUME NEW S, NEW p \in Seq(S), NEW x \in S, NEW r, r = p \o <<x>>, NEW d
    PROVE  HasReply(p, d) => HasReply(r, d)
<1>1. /\ Len(r) = Len(p) + 1 /\ Len(p) \in Nat /\ r[Len(r)] = x
      /\ \A i \in 1 .. Len(p) : r[i] = p[i]
    BY Pushed
<1>2. \A i \in 1 .. Len(p) : i \in 1 .. Len(r)
    BY <1>1
<1> QED BY <1>1, <1>2, Zenon DEF HasReply

LEMMA HasReplyLast ==
    ASSUME NEW S, NEW p \in Seq(S), NEW x \in S, NEW r, r = p \o <<x>>, x.raw = FALSE
    PROVE  HasReply(r, x.e)
<1>1. Len(r) \in 1 .. Len(r) /\ r[Len(r)] = x
    BY Pushed
<1> QED BY <1>1, Zenon DEF HasReply

LEMMA HasReplyPop ==
    ASSUME NEW S, NEW p \in Seq(S), p # <<>>, NEW r, r = Tail(p), NEW d, HasReply(p, d), p[1].e # d
    PROVE  HasReply(r, d)
<1>1. /\ \A i \in 1 .. Len(p) : i = 1 \/ (i - 1 \in 1 .. Len(r) /\ r[i - 1] = p[i])
    BY Popped
<1>2. PICK i \in 1 .. Len(p) : p[i].raw = FALSE /\ p[i].e = d
    BY Zenon DEF HasReply
<1>3. i - 1 \in 1 .. Len(r) /\ r[i - 1] = p[i]
    BY <1>1, <1>2, Zenon
<1> QED BY <1>2, <1>3, Zenon DEF HasReply

LEMMA RepliedPush ==
    ASSUME NEW S, NEW p \in Seq(S), NEW x \in S, NEW r, r = p \o <<x>>,
           NEW st, NEW sd, Replied(p, st, sd),
           x.raw = TRUE => st[x.e] = "failing" /\ ~HasRaw(p, x.e),
           x.raw = FALSE => st[x.e] = "over" /\ (x.outcome \in Approvals => sd[x.e].what = "yes")
    PROVE  Replied(r, st, sd)
<1>1. /\ Len(r) = Len(p) + 1 /\ Len(p) \in Nat /\ r[Len(r)] = x
      /\ \A i \in 1 .. Len(p) : r[i] = p[i]
      /\ \A i \in 1 .. Len(r) : i \in 1 .. Len(p) \/ i = Len(r)
    BY Pushed
<1> SUFFICES ASSUME NEW i \in 1 .. Len(r)
             PROVE  /\ r[i].raw = TRUE =>
                          /\ st[r[i].e] = "failing"
                          /\ \A j \in 1 .. Len(r) : r[j].raw = TRUE /\ r[j].e = r[i].e => j = i
                    /\ r[i].raw = FALSE =>
                          /\ st[r[i].e] = "over"
                          /\ r[i].outcome \in Approvals => sd[r[i].e].what = "yes"
    BY DEF Replied
<1>2. CASE i \in 1 .. Len(p)
    <2>1. r[i].raw = TRUE => st[r[i].e] = "failing" /\ HasRaw(p, r[i].e)
        BY <1>1, <1>2, Zenon DEF Replied, HasRaw
    <2>2. r[i].raw = FALSE => st[r[i].e] = "over" /\ (r[i].outcome \in Approvals => sd[r[i].e].what = "yes")
        BY <1>1, <1>2, Zenon DEF Replied
    <2>3. ASSUME r[i].raw = TRUE, NEW j \in 1 .. Len(r), r[j].raw = TRUE, r[j].e = r[i].e
          PROVE  j = i
        <3>1. j # Len(r)
            BY <1>1, <2>1, <2>3, Zenon
        <3>2. j \in 1 .. Len(p)
            BY <1>1, <3>1, Zenon
        <3>3. \A k \in 1 .. Len(p) : p[k].raw = TRUE /\ p[k].e = p[i].e => k = i
            BY <1>1, <1>2, <2>3, Zenon DEF Replied
        <3> QED BY <1>1, <1>2, <2>3, <3>2, <3>3, Zenon
    <2> QED BY <2>1, <2>2, <2>3, Zenon
<1>3. CASE i = Len(r)
    <2>1. r[i] = x
        BY <1>1, <1>3
    <2>2. ASSUME x.raw = TRUE, NEW j \in 1 .. Len(r), r[j].raw = TRUE, r[j].e = x.e, j # i
          PROVE  FALSE
        <3>1. j \in 1 .. Len(p) /\ p[j] = r[j]
            BY <1>1, <1>3, <2>2, Zenon
        <3>2. HasRaw(p, x.e)
            BY <2>2, <3>1, Zenon DEF HasRaw
        <3> QED BY <2>2, <3>2, Zenon
    <2> QED BY <2>1, <2>2, Zenon
<1> QED BY <1>1, <1>2, <1>3, Zenon

LEMMA RepliedPop ==
    ASSUME NEW S, NEW p \in Seq(S), p # <<>>, NEW r, r = Tail(p), NEW st, NEW sd, Replied(p, st, sd)
    PROVE  /\ Replied(r, st, sd)
           /\ p[1].raw = TRUE => st[p[1].e] = "failing" /\ ~HasRaw(r, p[1].e)
           /\ p[1].raw = FALSE =>
                 st[p[1].e] = "over" /\ (p[1].outcome \in Approvals => sd[p[1].e].what = "yes")
<1>1. /\ Len(r) = Len(p) - 1 /\ Len(p) \in Nat \ {0}
      /\ \A i \in 1 .. Len(r) : r[i] = p[i + 1] /\ i + 1 \in 1 .. Len(p)
    BY Popped
<1>2. ASSUME NEW i \in 1 .. Len(r)
      PROVE  /\ r[i].raw = TRUE =>
                    /\ st[r[i].e] = "failing"
                    /\ \A j \in 1 .. Len(r) : r[j].raw = TRUE /\ r[j].e = r[i].e => j = i
             /\ r[i].raw = FALSE =>
                    /\ st[r[i].e] = "over"
                    /\ r[i].outcome \in Approvals => sd[r[i].e].what = "yes"
    <2>0. i + 1 \in 1 .. Len(p) /\ p[i + 1] = r[i]
        BY <1>1, Zenon
    <2>9. PICK k \in 1 .. Len(p) : k = i + 1
        BY <2>0
    <2>1. /\ r[i].raw = TRUE =>
                 /\ st[r[i].e] = "failing"
                 /\ \A j \in 1 .. Len(p) : p[j].raw = TRUE /\ p[j].e = r[i].e => j = i + 1
          /\ r[i].raw = FALSE =>
                 /\ st[r[i].e] = "over"
                 /\ r[i].outcome \in Approvals => sd[r[i].e].what = "yes"
        <3>1. p[k] = r[i]
            BY <2>0, <2>9, Zenon
        <3>2. /\ p[k].raw = TRUE =>
                     /\ st[p[k].e] = "failing"
                     /\ \A j \in 1 .. Len(p) : p[j].raw = TRUE /\ p[j].e = p[k].e => j = k
              /\ p[k].raw = FALSE =>
                     /\ st[p[k].e] = "over"
                     /\ p[k].outcome \in Approvals => sd[p[k].e].what = "yes"
            BY <2>9, Zenon DEF Replied
        <3> QED BY <2>9, <3>1, <3>2, Zenon
    <2>2. ASSUME r[i].raw = TRUE, NEW j \in 1 .. Len(r), r[j].raw = TRUE, r[j].e = r[i].e
          PROVE  j = i
        <3>1. j + 1 = i + 1
            BY <1>1, <2>1, <2>2, Zenon
        <3> QED BY <3>1
    <2> QED BY <2>1, <2>2, Zenon
<1>3. 1 \in 1 .. Len(p)
    BY <1>1
<1>4. /\ p[1].raw = TRUE =>
            /\ st[p[1].e] = "failing"
            /\ \A j \in 1 .. Len(p) : p[j].raw = TRUE /\ p[j].e = p[1].e => j = 1
      /\ p[1].raw = FALSE =>
            st[p[1].e] = "over" /\ (p[1].outcome \in Approvals => sd[p[1].e].what = "yes")
    BY <1>3, Zenon DEF Replied
<1>5. ASSUME p[1].raw = TRUE, NEW i \in 1 .. Len(r), r[i].raw = TRUE, r[i].e = p[1].e
      PROVE  FALSE
    <2>1. i + 1 = 1
        <3>1. i + 1 \in 1 .. Len(p) /\ p[i + 1] = r[i]
            BY <1>1, Zenon
        <3>2. p[i + 1].raw = TRUE /\ p[i + 1].e = p[1].e
            BY <1>5, <3>1, Zenon
        <3>3. \A j \in 1 .. Len(p) : p[j].raw = TRUE /\ p[j].e = p[1].e => j = 1
            BY <1>4, <1>5, Zenon
        <3> QED BY <3>1, <3>2, <3>3, Zenon
    <2> QED BY <2>1
<1>6. Replied(r, st, sd)
    BY <1>2, Zenon DEF Replied
<1>7. ASSUME p[1].raw = TRUE PROVE ~HasRaw(r, p[1].e)
    BY <1>5, <1>7, Zenon DEF HasRaw
<1> QED BY <1>4, <1>6, <1>7, Zenon

-----------------------------------------------------------------------------
(***************************************************************************)
(* Requests, cards, and what a step leaves alone.                          *)
(***************************************************************************)
LEMMA KindFacts ==
    ASSUME TypeOK, NEW e \in Elicits
    PROVE  /\ req[e] # NoRequest => Kind(e) \in {"plan", "url", "ask"}
           /\ Kind(e) = "ask" => Form(e) \in Forms
           /\ req[e] = NoRequest => Kind(e) = "none"
<1>1. req[e] \in Requests \/ req[e] = NoRequest
    BY DEF TypeOK
<1> QED BY <1>1 DEF Requests, NoRequest, Kind, Form

\* An accept is the translation of an approval.
LEMMA AcceptFacts ==
    ASSUME NEW kind \in {"plan", "url", "ask"}, NEW outcome, Action(kind, outcome) = "accept"
    PROVE  outcome \in Approvals
BY DEF Action, Approvals

LEMMA RefusalFacts ==
    ASSUME NEW e, NEW outcome \in Refusals(e)
    PROVE  outcome \in Outcomes \ Approvals
<1>1. CASE Kind(e) = "plan"
    BY <1>1 DEF Refusals, Approvals, Outcomes
<1>2. CASE Kind(e) = "url"
    BY <1>2 DEF Refusals, Approvals, Outcomes
<1>3. CASE Kind(e) = "ask"
    BY <1>3 DEF Refusals, Approvals, Outcomes
<1>4. CASE Kind(e) \notin {"plan", "url", "ask"}
    BY <1>4 DEF Refusals, Approvals, Outcomes
<1> QED BY <1>1, <1>2, <1>3, <1>4

\* The replies as records.
LEMMA ReplyFacts ==
    ASSUME NEW e \in Elicits, NEW raw \in BOOLEAN, NEW outcome \in Outcomes, NEW response \in Responses, NEW x,
           x = [e |-> e, raw |-> raw, outcome |-> outcome, response |-> response]
    PROVE  x \in Replies /\ x.e = e /\ x.raw = raw /\ x.outcome = outcome
BY DEF Replies

\* What the pager sends for an answer: one reply, with one of these outcomes.
OneReply(q, e, outcomes) ==
    \E x \in Replies : q = <<x>> /\ x.e = e /\ x.raw = FALSE /\ x.outcome \in outcomes

LEMMA ReplyRecord ==
    ASSUME NEW e \in Elicits, NEW outcomes \in SUBSET Outcomes, NEW outcome \in outcomes
    PROVE  OneReply(Reply(e, outcome), e, outcomes)
<1>0. PICK x : x = [e |-> e, raw |-> FALSE, outcome |-> outcome, response |-> NoResponse]
    BY Zenon
<1>1. NoResponse \in Responses /\ outcome \in Outcomes
    BY DEF Responses
<1>2. x \in Replies /\ x.e = e /\ x.raw = FALSE /\ x.outcome = outcome
    <2>1. PICK raw \in BOOLEAN : raw = FALSE
        BY Zenon
    <2>2. x = [e |-> e, raw |-> raw, outcome |-> outcome, response |-> NoResponse]
        BY <1>0, <2>1, Zenon
    <2>3. x \in Replies /\ x.e = e /\ x.raw = raw /\ x.outcome = outcome
        BY <1>1, <2>1, <2>2, ReplyFacts
    <2> QED BY <2>1, <2>3, Zenon
<1>3. Reply(e, outcome) = <<x>>
    BY <1>0, Zenon DEF Reply
<1>4. x.outcome \in outcomes
    BY <1>2, Zenon
<1> QED BY <1>2, <1>3, <1>4, Zenon DEF OneReply

LEMMA CancelRecord ==
    ASSUME NEW e \in Elicits
    PROVE  OneReply(Cancels(e), e, Outcomes \ Approvals)
<1>1. PICK o \in Outcomes \ Approvals : Cancels(e) = Reply(e, o)
    BY DEF Cancels, Outcomes, Approvals
<1>2. OneReply(Reply(e, o), e, Outcomes \ Approvals)
    BY ReplyRecord
<1> QED BY <1>1, <1>2, Zenon

LEMMA ErrorRecord ==
    ASSUME NEW e \in Elicits
    PROVE  OneReply(Reply(e, "error"), e, Outcomes \ Approvals)
<1>1. PICK o \in Outcomes \ Approvals : o = "error"
    BY DEF Outcomes, Approvals
<1>2. OneReply(Reply(e, o), e, Outcomes \ Approvals)
    BY ReplyRecord
<1> QED BY <1>1, <1>2, Zenon

\* A card that does not wait closes alone; one that waits makes room for the
\* parked one.
LEMMA ClosedAlone ==
    ASSUME TypeOK, NEW e \in Elicits, card[e] # "waiting", Set(Closed(e))
    PROVE  /\ card' \in [Elicits -> Places] /\ card'[e] = "closed"
           /\ \A x \in Elicits : x # e => card'[x] = card[x]
BY DEF TypeOK, Set, Closed, Places

LEMMA ClosedWaiting ==
    ASSUME TypeOK, NEW e \in Elicits, card[e] = "waiting", Set(Closed(e))
    PROVE  /\ card' \in [Elicits -> Places] /\ card'[e] = "closed"
           /\ \A x \in Elicits : x # e /\ ~(Kind(x) = "url" /\ card[x] = "parked") => card'[x] = card[x]
           /\ \A x \in Elicits : Kind(x) = "url" /\ card[x] = "parked" => card'[x] = "open"
BY DEF TypeOK, Set, Closed, Places, At

\* An elicitation that a step does not touch.
LEMMA Untouched ==
    ASSUME NEW d \in Elicits, NEW s, StagedCard(s, d), StagedAnswer(s, d),
           req'[d] = req[d], card'[d] = card[d], said'[d] = said[d], got'[d] = got[d],
           d \in bridged' <=> d \in bridged,
           Keeps(screen, screen', d), HasReply(replies, d) => HasReply(replies', d)
    PROVE  StagedCard(s, d)' /\ StagedAnswer(s, d)'
<1>1. StagedCard(s, d)'
    BY DEF StagedCard
<1>2. StagedAnswer(s, d)'
    BY DEF StagedAnswer, Keeps
<1> QED BY <1>1, <1>2

LEMMA SameKeeps ==
    ASSUME NEW q, NEW d
    PROVE  Keeps(q, q, d)
BY DEF Keeps

\* Every message is about an elicitation.
LEMMA InboxFacts ==
    ASSUME NEW q \in Seq(InboxMessages)
    PROVE  \A i \in 1 .. Len(q) : q[i].e \in Elicits
<1>1. \A i \in 1 .. Len(q) : q[i] \in InboxMessages
    OBVIOUS
<1> QED BY <1>1 DEF InboxMessages

LEMMA ScreenFacts ==
    ASSUME NEW q \in Seq(ScreenMessages)
    PROVE  \A i \in 1 .. Len(q) : q[i].e \in Elicits
<1>1. \A i \in 1 .. Len(q) : q[i] \in ScreenMessages
    OBVIOUS
<1> QED BY <1>1 DEF ScreenMessages

LEMMA RepliesFacts ==
    ASSUME NEW q \in Seq(Replies)
    PROVE  \A i \in 1 .. Len(q) : q[i].e \in Elicits
<1>1. \A i \in 1 .. Len(q) : q[i] \in Replies
    OBVIOUS
<1> QED BY <1>1 DEF Replies

LEMMA PipeFacts ==
    ASSUME TypeOK
    PROVE  /\ \A i \in 1 .. Len(inbox) : inbox[i].e \in Elicits
           /\ \A i \in 1 .. Len(screen) : screen[i].e \in Elicits
           /\ \A i \in 1 .. Len(replies) : replies[i].e \in Elicits
BY InboxFacts, ScreenFacts, RepliesFacts DEF TypeOK

\* OMP is sent its first answer.
LEMMA FirstAnswer ==
    ASSUME TypeOK, NEW e \in Elicits, NEW a, got[e] = <<>>, got' = [got EXCEPT ![e] = Append(@, a)]
    PROVE  /\ DOMAIN got' = Elicits /\ got' = [d \in Elicits |-> got'[d]]
           /\ \A d \in Elicits : d # e => got'[d] = got[d]
           /\ got'[e] = <<got'[e][1]>> /\ got'[e][1] = a
<1>1. Append(<<>>, a) = <<a>> /\ <<a>>[1] = a
    OBVIOUS
<1>2. got'[e] = Append(<<>>, a)
    BY Zenon DEF TypeOK
<1>3. \A d \in Elicits : d # e => got'[d] = got[d]
    BY Zenon DEF TypeOK
<1>4. DOMAIN got' = Elicits /\ got' = [d \in Elicits |-> got'[d]]
    BY DEF TypeOK
<1> QED BY <1>1, <1>2, <1>3, <1>4

IInv == TypeOK /\ OneOfEach /\ \E st : Staged(st)

-----------------------------------------------------------------------------
(***************************************************************************)
(* OMP asks and withdraws.                                                 *)
(***************************************************************************)
LEMMA StepCreate ==
    ASSUME TypeOK, OneOfEach, NEW st, Staged(st), NEW e \in Elicits, NEW q \in Requests, Create(e, q)
    PROVE  TypeOK' /\ OneOfEach' /\ \E t : Staged(t)'
<1>1. PICK x : x = [m |-> "create", e |-> e]
    OBVIOUS
<1>2. x \in InboxMessages /\ x.m = "create" /\ x.e = e
    BY <1>1 DEF InboxMessages
<1>3. inbox \in Seq(InboxMessages) /\ inbox' = inbox \o <<x>>
    BY <1>1 DEF Create, Send, TypeOK
<1>4. TypeOK'
    <2>1. inbox' \in Seq(InboxMessages)
        BY <1>2, <1>3, Pushed
    <2>2. req' \in [Elicits -> Requests \cup {NoRequest}]
        BY DEF TypeOK, Create
    <2> QED BY <2>1, <2>2 DEF TypeOK, Create, adapter, pager
<1>5. st \in [Elicits -> Stages] /\ \A d \in Elicits : StagedCard(st[d], d) /\ StagedAnswer(st[d], d)
    BY DEF Staged
<1>6. st[e] = "none"
    BY <1>5 DEF StagedCard, Create
<1>7. OneOfEach'
    <2>1. card' = card /\ card[e] = "none" /\ \A d \in Elicits : d # e => req'[d] = req[d]
        BY <1>5, <1>6 DEF StagedCard, Create, pager, TypeOK
    <2> QED BY <2>1 DEF OneOfEach, Kind
<1>8. PICK t : t = [st EXCEPT ![e] = "asked"]
    OBVIOUS
<1>9. t \in [Elicits -> Stages] /\ t[e] = "asked" /\ \A d \in Elicits : d # e => t[d] = st[d]
    BY <1>5, <1>8 DEF Stages
<1>10. screen' = screen /\ replies' = replies /\ said' = said /\ bridged' = bridged /\ got' = got /\ card' = card
    BY DEF Create, adapter, pager
<1>11. Single(inbox, "create", "asked", st) /\ ~Holds(inbox, "create", e)
    <2>1. Single(inbox, "create", "asked", st)
        BY DEF Staged
    <2> QED BY <1>6, <2>1, SingleStage
<1>12. Single(inbox', "create", "asked", t)
    <2>1. Single(inbox, "create", "asked", t)
        BY <1>6, <1>9, <1>11, PipeFacts, SingleMove
    <2> QED BY <1>2, <1>3, <1>9, <1>11, <2>1, SinglePush
<1>13. Single(screen', "card", "carded", t) /\ Single(screen', "raw", "rawed", t)
    <2>1. Single(screen, "card", "carded", st) /\ Single(screen, "raw", "rawed", st)
        BY DEF Staged
    <2>2. Single(screen, "card", "carded", t)
        BY <1>6, <1>9, <2>1, PipeFacts, SingleMove
    <2>3. Single(screen, "raw", "rawed", t)
        BY <1>6, <1>9, <2>1, PipeFacts, SingleMove
    <2> QED BY <1>10, <2>2, <2>3
<1>14. Replied(replies', t, said')
    <2>1. Replied(replies, st, said)
        BY DEF Staged
    <2>2. Replied(replies, t, said)
        BY <1>6, <1>9, <2>1, PipeFacts, RepliedMove
    <2> QED BY <1>10, <2>2
<1>15. ASSUME NEW d \in Elicits
       PROVE  StagedCard(t[d], d)' /\ StagedAnswer(t[d], d)'
    <2>1. CASE d # e
        <3>1. req'[d] = req[d]
            BY <2>1 DEF Create, TypeOK
        <3>2. t[d] = st[d] /\ StagedCard(st[d], d) /\ StagedAnswer(st[d], d)
            BY <1>5, <1>9, <2>1
        <3>3. Keeps(screen, screen', d)
            BY <1>10, SameKeeps
        <3>4. StagedCard(st[d], d)' /\ StagedAnswer(st[d], d)'
            BY <1>10, <3>1, <3>2, <3>3, Untouched
        <3> QED BY <3>2, <3>4
    <2>2. CASE d = e
        <3>1. req'[e] # NoRequest
            BY DEF Create, TypeOK, Requests, NoRequest
        <3>2. card[e] = "none" /\ said[e].what = "nothing" /\ e \notin bridged /\ got[e] = <<>>
            BY <1>5, <1>6 DEF StagedCard, StagedAnswer
        <3>3. StagedCard(t[e], e)'
            BY <1>9, <1>10, <3>1, <3>2 DEF StagedCard
        <3>4. StagedAnswer(t[e], e)'
            BY <1>9, <1>10, <3>2 DEF StagedAnswer
        <3> QED BY <2>2, <3>3, <3>4
    <2> QED BY <2>1, <2>2
<1>16. Staged(t)'
    BY <1>9, <1>12, <1>13, <1>14, <1>15 DEF Staged
<1> QED BY <1>4, <1>7, <1>16

LEMMA StepComplete ==
    ASSUME TypeOK, OneOfEach, NEW st, Staged(st), NEW e \in Elicits, Complete(e)
    PROVE  TypeOK' /\ OneOfEach' /\ \E t : Staged(t)'
<1>1. PICK x : x = [m |-> "complete", e |-> e]
    OBVIOUS
<1>2. x \in InboxMessages /\ x.m = "complete" /\ x.e = e
    BY <1>1 DEF InboxMessages
<1>3. inbox \in Seq(InboxMessages) /\ inbox' = inbox \o <<x>>
    BY <1>1 DEF Complete, Send, TypeOK
<1>4. UNCHANGED <<req, bridged, ids, got, card, said, screen, replies>>
    BY DEF Complete, adapter, pager
<1>5. TypeOK'
    <2>1. inbox' \in Seq(InboxMessages)
        BY <1>2, <1>3, Pushed
    <2> QED BY <1>4, <2>1 DEF TypeOK
<1>6. OneOfEach'
    BY <1>4 DEF OneOfEach, Kind
<1>7. Single(inbox', "create", "asked", st)
    <2>1. Single(inbox, "create", "asked", st)
        BY DEF Staged
    <2> QED BY <1>2, <1>3, <2>1, SinglePush
<1>8. \A d \in Elicits : StagedCard(st[d], d)' /\ StagedAnswer(st[d], d)'
    BY <1>4 DEF Staged, StagedCard, StagedAnswer
<1>9. Staged(st)'
    BY <1>4, <1>7, <1>8 DEF Staged
<1> QED BY <1>5, <1>6, <1>9

-----------------------------------------------------------------------------
(***************************************************************************)
(* The adapter handles what OMP sends.                                     *)
(***************************************************************************)
LEMMA StepHandleCreate ==
    ASSUME TypeOK, OneOfEach, NEW st, Staged(st), HandleOmp, NEW e, e = Head(inbox).e,
           Head(inbox).m = "create", HandleCreate(e)
    PROVE  TypeOK' /\ OneOfEach' /\ \E t : Staged(t)'
<1>1. /\ inbox \in Seq(InboxMessages) /\ inbox # <<>> /\ inbox' = Tail(inbox)
      /\ screen \in Seq(ScreenMessages)
      /\ UNCHANGED <<req, card, said, replies>>
    BY DEF HandleOmp, TypeOK, pager
<1>2. e \in Elicits /\ inbox' \in Seq(InboxMessages)
    <2>1. Head(inbox) \in InboxMessages /\ inbox' \in Seq(InboxMessages)
        BY <1>1, Popped
    <2> QED BY <2>1 DEF InboxMessages
<1>3. st \in [Elicits -> Stages] /\ \A d \in Elicits : StagedCard(st[d], d) /\ StagedAnswer(st[d], d)
    BY DEF Staged
<1>4. st[e] = "asked" /\ Single(inbox', "create", "asked", st) /\ ~Holds(inbox', "create", e)
    <2>1. Single(inbox, "create", "asked", st)
        BY DEF Staged
    <2>3. inbox[1].m = "create" /\ inbox[1].e = e
        BY <1>1
    <2>4. Single(inbox', "create", "asked", st)
        BY <1>1, <2>1, SinglePop
    <2>5. st[inbox[1].e] = "asked" /\ ~Holds(inbox', "create", inbox[1].e)
        BY <1>1, <2>1, <2>3, SingleTaken
    <2> QED BY <2>3, <2>4, <2>5
<1>5. PICK m \in {"card", "raw"} :
          /\ screen' = screen \o Send(m, e)
          /\ m = "card" => bridged' = bridged \cup {e} /\ got' = got /\ ids' \subseteq ids \cup {e}
          /\ m = "raw" => bridged' = bridged /\ got' = got /\ ids' = ids
    BY DEF HandleCreate, adapter
<1>6. PICK x : x = [m |-> m, e |-> e]
    OBVIOUS
<1>7. x \in ScreenMessages /\ x.m = m /\ x.e = e /\ screen' = screen \o <<x>>
    BY <1>2, <1>5, <1>6 DEF ScreenMessages, Send
<1>8. TypeOK'
    <2>1. screen' \in Seq(ScreenMessages)
        BY <1>1, <1>7, Pushed
    <2>2. bridged' \subseteq Elicits /\ ids' \subseteq bridged' /\ got' = got
        BY <1>2, <1>5 DEF TypeOK
    <2> QED BY <1>1, <1>2, <2>1, <2>2 DEF TypeOK
<1>9. OneOfEach'
    BY <1>1 DEF OneOfEach, Kind
<1>10. PICK stage \in {"carded", "rawed"} : stage = (IF m = "card" THEN "carded" ELSE "rawed")
    OBVIOUS
<1>11. PICK t : t = [st EXCEPT ![e] = stage]
    OBVIOUS
<1>12. t \in [Elicits -> Stages] /\ t[e] = stage /\ \A d \in Elicits : d # e => t[d] = st[d]
    BY <1>2, <1>3, <1>11 DEF Stages
<1>13. Single(inbox', "create", "asked", t)
    <2>1. \A i \in 1 .. Len(inbox') : inbox'[i].e \in Elicits
        BY <1>2, InboxFacts
    <2> QED BY <1>4, <1>12, <2>1, SingleMove
<1>14. Single(screen', "card", "carded", t) /\ Single(screen', "raw", "rawed", t)
    <2>1. Single(screen, "card", "carded", st) /\ Single(screen, "raw", "rawed", st)
        BY DEF Staged
    <2>2. Single(screen, "card", "carded", t)
        BY <1>4, <1>12, <2>1, PipeFacts, SingleMove
    <2>3. Single(screen, "raw", "rawed", t)
        BY <1>4, <1>12, <2>1, PipeFacts, SingleMove
    <2>4. ~Holds(screen, "card", e) /\ ~Holds(screen, "raw", e)
        BY <1>4, <2>1, SingleStage
    <2>5. Single(screen', "card", "carded", t)
        <3>1. x.m = "card" => t[x.e] = "carded" /\ ~Holds(screen, "card", x.e)
            BY <1>7, <1>10, <1>12, <2>4
        <3> QED BY <1>1, <1>7, <2>2, <3>1, SinglePush
    <2>6. Single(screen', "raw", "rawed", t)
        <3>1. x.m = "raw" => t[x.e] = "rawed" /\ ~Holds(screen, "raw", x.e)
            BY <1>7, <1>10, <1>12, <2>4
        <3> QED BY <1>1, <1>7, <2>3, <3>1, SinglePush
    <2> QED BY <2>5, <2>6
<1>15. Replied(replies', t, said')
    <2>1. Replied(replies, st, said)
        BY DEF Staged
    <2>2. Replied(replies, t, said)
        BY <1>4, <1>12, <2>1, PipeFacts, RepliedMove
    <2> QED BY <1>1, <2>2
<1>16. ASSUME NEW d \in Elicits
       PROVE  StagedCard(t[d], d)' /\ StagedAnswer(t[d], d)'
    <2>1. CASE d # e
        <3>1. t[d] = st[d] /\ StagedCard(st[d], d) /\ StagedAnswer(st[d], d)
            BY <1>3, <1>12, <2>1
        <3>2. Keeps(screen, screen', d)
            BY <1>1, <1>7, <2>1, KeepsPush
        <3>3. (d \in bridged' <=> d \in bridged) /\ got'[d] = got[d]
            BY <1>5, <2>1
        <3>4. StagedCard(st[d], d)' /\ StagedAnswer(st[d], d)'
            BY <1>1, <3>1, <3>2, <3>3, Untouched
        <3> QED BY <3>1, <3>4
    <2>2. CASE d = e
        <3>1. /\ req[e] # NoRequest /\ card[e] = "none" /\ said[e].what = "nothing"
              /\ e \notin bridged /\ got[e] = <<>>
            BY <1>2, <1>3, <1>4 DEF StagedCard, StagedAnswer
        <3>2. StagedCard(t[e], e)'
            BY <1>1, <1>12, <3>1 DEF StagedCard
        <3>3. stage = "carded" => Holds(screen', "card", e)
            BY <1>1, <1>7, <1>10, HoldsPush
        <3>4. stage = "rawed" => e \notin bridged'
            BY <1>5, <1>10, <3>1
        <3>5. got'[e] = <<>> /\ (stage = "carded" => e \in bridged')
            BY <1>5, <1>10, <3>1
        <3>6. StagedAnswer(t[e], e)'
            BY <1>12, <3>3, <3>4, <3>5 DEF StagedAnswer
        <3> QED BY <2>2, <3>2, <3>6
    <2> QED BY <2>1, <2>2
<1>17. Staged(t)'
    BY <1>12, <1>13, <1>14, <1>15, <1>16 DEF Staged
<1> QED BY <1>8, <1>9, <1>17

\* A retraction and its end: "done", and "gone" if the card is live.
LEMMA CompletePushes ==
    ASSUME TypeOK, NEW e \in Elicits, HandleComplete(e)
    PROVE  /\ screen' \in Seq(ScreenMessages)
           /\ \A d \in Elicits : Keeps(screen, screen', d)
           /\ e \in bridged /\ e \notin bridged' => Holds(screen', "gone", e) /\ Retracted(screen', e)
           /\ \A st : Single(screen, "card", "carded", st) => Single(screen', "card", "carded", st)
           /\ \A st : Single(screen, "raw", "rawed", st) => Single(screen', "raw", "rawed", st)
<1>1. PICK x, y : x = [m |-> "done", e |-> e] /\ y = [m |-> "gone", e |-> e]
    OBVIOUS
<1>2. /\ x \in ScreenMessages /\ x.m = "done" /\ x.e = e
      /\ y \in ScreenMessages /\ y.m = "gone" /\ y.e = e
    BY <1>1 DEF ScreenMessages
<1>3. PICK r : r = screen \o <<x>>
    OBVIOUS
<1>4. screen \in Seq(ScreenMessages) /\ r \in Seq(ScreenMessages)
    BY <1>2, <1>3, Pushed DEF TypeOK
<1>5. screen' = r \/ (screen' = r \o <<y>>)
    BY <1>1, <1>3, <1>4 DEF HandleComplete, Send
<1>6. e \in bridged /\ e \notin bridged' => screen' = r \o <<y>>
    BY <1>1, <1>3, <1>4 DEF HandleComplete, Send
<1>7. screen' \in Seq(ScreenMessages)
    BY <1>2, <1>4, <1>5, Pushed
<1>8. ASSUME NEW d \in Elicits PROVE Keeps(screen, screen', d)
    <2>1. Keeps(screen, r, d)
        BY <1>2, <1>3, <1>4, KeepsPush
    <2>2. screen' = r \o <<y>> => Keeps(r, screen', d)
        BY <1>2, <1>4, KeepsPush
    <2> QED BY <1>5, <2>1, <2>2 DEF Keeps
<1>9. ASSUME e \in bridged, e \notin bridged' PROVE Holds(screen', "gone", e) /\ Retracted(screen', e)
    BY <1>2, <1>4, <1>6, <1>9, HoldsPush, RetractedPush
<1>10. ASSUME NEW st, Single(screen, "card", "carded", st) PROVE Single(screen', "card", "carded", st)
    <2>1. Single(r, "card", "carded", st)
        BY <1>2, <1>3, <1>4, <1>10, SinglePush
    <2>2. screen' = r \o <<y>> => Single(screen', "card", "carded", st)
        BY <1>2, <1>4, <2>1, SinglePush
    <2> QED BY <1>5, <2>1, <2>2
<1>11. ASSUME NEW st, Single(screen, "raw", "rawed", st) PROVE Single(screen', "raw", "rawed", st)
    <2>1. Single(r, "raw", "rawed", st)
        BY <1>2, <1>3, <1>4, <1>11, SinglePush
    <2>2. screen' = r \o <<y>> => Single(screen', "raw", "rawed", st)
        BY <1>2, <1>4, <2>1, SinglePush
    <2> QED BY <1>5, <2>1, <2>2
<1> QED BY <1>7, <1>8, <1>9, <1>10, <1>11

LEMMA StepHandleComplete ==
    ASSUME TypeOK, OneOfEach, NEW st, Staged(st), HandleOmp, NEW e, e = Head(inbox).e, HandleComplete(e)
    PROVE  TypeOK' /\ OneOfEach' /\ \E t : Staged(t)'
<1>1. /\ inbox \in Seq(InboxMessages) /\ inbox # <<>> /\ inbox' = Tail(inbox)
      /\ UNCHANGED <<req, card, said, replies>>
    BY DEF HandleOmp, TypeOK, pager
<1>2. e \in Elicits /\ inbox' \in Seq(InboxMessages)
    <2>1. Head(inbox) \in InboxMessages /\ inbox' \in Seq(InboxMessages)
        BY <1>1, Popped
    <2> QED BY <2>1 DEF InboxMessages
<1>3. st \in [Elicits -> Stages] /\ \A d \in Elicits : StagedCard(st[d], d) /\ StagedAnswer(st[d], d)
    BY DEF Staged
<1>4. PICK a : a = Answer("cancel", {})
    OBVIOUS
<1>5. a.action = "cancel"
    BY <1>4 DEF Answer
<1>6. \/ bridged' = bridged /\ ids' = ids /\ got' = got
      \/ e \in bridged /\ bridged' = bridged \ {e} /\ ids' = ids \ {e} /\ got' = [got EXCEPT ![e] = Append(@, a)]
    BY <1>4 DEF HandleComplete
<1>7. TypeOK'
    <2>1. screen' \in Seq(ScreenMessages)
        BY <1>2, CompletePushes
    <2>2. bridged' \subseteq Elicits /\ ids' \subseteq bridged'
        BY <1>6 DEF TypeOK
    <2>3. DOMAIN got' = Elicits /\ got' = [d \in Elicits |-> got'[d]]
        BY <1>6 DEF TypeOK
    <2> QED BY <1>1, <1>2, <2>1, <2>2, <2>3 DEF TypeOK
<1>8. OneOfEach'
    BY <1>1 DEF OneOfEach, Kind
<1>9. Single(inbox', "create", "asked", st)
    <2>1. Single(inbox, "create", "asked", st)
        BY DEF Staged
    <2> QED BY <1>1, <2>1, SinglePop
<1>10. Single(screen', "card", "carded", st) /\ Single(screen', "raw", "rawed", st)
    BY <1>2, CompletePushes DEF Staged
<1>11. Replied(replies', st, said')
    BY <1>1 DEF Staged
<1>12. ASSUME NEW d \in Elicits
       PROVE  StagedCard(st[d], d)' /\ StagedAnswer(st[d], d)'
    <2>1. Keeps(screen, screen', d) /\ StagedCard(st[d], d) /\ StagedAnswer(st[d], d)
        BY <1>2, <1>3, CompletePushes
    <2>2. CASE got'[d] = got[d] /\ (d \in bridged' <=> d \in bridged)
        BY <1>1, <2>1, <2>2, Untouched
    <2>3. CASE d = e /\ e \in bridged /\ bridged' = bridged \ {e} /\ got' = [got EXCEPT ![e] = Append(@, a)]
        <3>1. got[e] = <<>> /\ st[e] \in {"carded", "shown", "over"}
            BY <1>2, <1>3, <2>3 DEF StagedAnswer
        <3>2. got'[e] = <<got'[e][1]>> /\ got'[e][1] = a
            BY <1>2, <2>3, <3>1, FirstAnswer
        <3>3. Holds(screen', "gone", e) /\ Retracted(screen', e)
            BY <1>2, <2>3, CompletePushes
        <3>4. got'[e] = <<got'[e][1]>> /\ got'[e][1].action # "accept" /\ e \notin bridged'
            BY <1>5, <2>3, <3>2
        <3>5. StagedAnswer(st[e], e)'
            BY <3>1, <3>3, <3>4 DEF StagedAnswer
        <3>6. StagedCard(st[d], d)'
            BY <1>1, <2>1 DEF StagedCard
        <3> QED BY <2>3, <3>5, <3>6
    <2> QED BY <1>2, <1>6, <2>2, <2>3 DEF TypeOK
<1>13. Staged(st)'
    BY <1>3, <1>9, <1>10, <1>11, <1>12 DEF Staged
<1> QED BY <1>7, <1>8, <1>13

-----------------------------------------------------------------------------
(***************************************************************************)
(* The adapter handles a reply of the pager.                               *)
(***************************************************************************)
\* What is left of the replies, and of what they say of the others.
LEMMA ReplyTaken ==
    ASSUME TypeOK, OneOfEach, NEW st, Staged(st), HandleReply, NEW e, e = replies[1].e
    PROVE  /\ e \in Elicits
           /\ replies \in Seq(Replies) /\ replies # <<>> /\ replies' = Tail(replies)
           /\ replies' \in Seq(Replies) /\ Head(replies) = replies[1] /\ replies[1] \in Replies
           /\ UNCHANGED <<req, inbox, card, said, screen>>
           /\ OneOfEach'
           /\ st \in [Elicits -> Stages]
           /\ \A d \in Elicits : StagedCard(st[d], d) /\ StagedAnswer(st[d], d)
           /\ Single(inbox, "create", "asked", st)
           /\ Single(screen, "card", "carded", st)
           /\ Single(screen, "raw", "rawed", st)
           /\ Replied(replies, st, said)
           /\ Replied(replies', st, said)
<1>1. /\ replies \in Seq(Replies) /\ replies # <<>> /\ replies' = Tail(replies)
      /\ UNCHANGED <<req, inbox, card, said, screen>>
    BY DEF HandleReply, TypeOK, pager, omp
<1>2. replies' \in Seq(Replies) /\ Head(replies) = replies[1] /\ replies[1] \in Replies
    BY <1>1, Popped
<1>3. e \in Elicits
    BY <1>2 DEF Replies
<1>4. OneOfEach'
    BY <1>1 DEF OneOfEach, Kind
<1>5. /\ st \in [Elicits -> Stages]
      /\ \A d \in Elicits : StagedCard(st[d], d) /\ StagedAnswer(st[d], d)
      /\ Single(inbox, "create", "asked", st)
      /\ Single(screen, "card", "carded", st)
      /\ Single(screen, "raw", "rawed", st)
      /\ Replied(replies, st, said)
    BY DEF Staged
<1>6. Replied(replies', st, said)
    BY <1>1, <1>5, RepliedPop
<1> QED BY <1>1, <1>2, <1>3, <1>4, <1>5, <1>6

\* The others are untouched.
LEMMA ReplyOthers ==
    ASSUME TypeOK, OneOfEach, NEW st, Staged(st), HandleReply, NEW e, e = replies[1].e,
           NEW d \in Elicits, d # e, got'[d] = got[d], d \in bridged' <=> d \in bridged
    PROVE  StagedCard(st[d], d)' /\ StagedAnswer(st[d], d)'
<1>1. /\ replies \in Seq(Replies) /\ replies # <<>> /\ replies' = Tail(replies)
      /\ UNCHANGED <<req, card, said, screen>>
      /\ StagedCard(st[d], d) /\ StagedAnswer(st[d], d)
    BY ReplyTaken
<1>2. HasReply(replies, d) => HasReply(replies', d)
    BY <1>1, HasReplyPop
<1>3. Keeps(screen, screen', d)
    BY <1>1, SameKeeps
<1> QED BY <1>1, <1>2, <1>3, Untouched

\* The error to a request that was forwarded.
LEMMA StepRawReply ==
    ASSUME TypeOK, OneOfEach, NEW st, Staged(st), HandleReply, NEW e, e = replies[1].e,
           replies[1].raw = TRUE, NEW a, a.action = "unsupported",
           got' = [got EXCEPT ![e] = Append(@, a)], bridged' = bridged, ids' = ids
    PROVE  TypeOK' /\ OneOfEach' /\ \E t : Staged(t)'
<1>1. /\ e \in Elicits
      /\ replies \in Seq(Replies) /\ replies # <<>> /\ replies' = Tail(replies) /\ replies' \in Seq(Replies)
      /\ UNCHANGED <<req, inbox, card, said, screen>>
      /\ st \in [Elicits -> Stages]
      /\ \A d \in Elicits : StagedCard(st[d], d) /\ StagedAnswer(st[d], d)
    BY ReplyTaken
<1>2. st[e] = "failing" /\ ~HasRaw(replies', e) /\ ~HasReply(replies', e)
    <2>1. Replied(replies, st, said) /\ Replied(replies', st, said)
        BY ReplyTaken
    <2>2. st[e] = "failing" /\ ~HasRaw(replies', e)
        BY <1>1, <2>1, RepliedPop, Zenon
    <2>3. HasReply(replies', e) => st[e] = "over"
        BY <2>1, RepliedStage
    <2> QED BY <2>2, <2>3
<1>3. card[e] = "none" /\ said[e].what = "nothing" /\ e \notin bridged /\ got[e] = <<>> /\ req[e] # NoRequest
    BY <1>1, <1>2 DEF StagedCard, StagedAnswer
<1>4. /\ DOMAIN got' = Elicits /\ got' = [d \in Elicits |-> got'[d]]
      /\ \A d \in Elicits : d # e => got'[d] = got[d]
      /\ got'[e] = <<got'[e][1]>> /\ got'[e][1] = a
    BY <1>1, <1>3, FirstAnswer
<1>5. TypeOK'
    BY <1>1, <1>4 DEF TypeOK
<1>6. PICK t : t = [st EXCEPT ![e] = "over"]
    OBVIOUS
<1>7. t \in [Elicits -> Stages] /\ t[e] = "over" /\ \A d \in Elicits : d # e => t[d] = st[d]
    BY <1>1, <1>6 DEF Stages
<1>8. Single(inbox', "create", "asked", t)
    <2>1. Single(inbox, "create", "asked", st)
        BY ReplyTaken
    <2>2. Single(inbox, "create", "asked", t)
        BY <1>2, <1>7, <2>1, PipeFacts, SingleMove
    <2> QED BY <1>1, <2>2
<1>9. Single(screen', "card", "carded", t) /\ Single(screen', "raw", "rawed", t)
    <2>1. Single(screen, "card", "carded", st) /\ Single(screen, "raw", "rawed", st)
        BY ReplyTaken
    <2>2. Single(screen, "card", "carded", t)
        BY <1>2, <1>7, <2>1, PipeFacts, SingleMove
    <2>3. Single(screen, "raw", "rawed", t)
        BY <1>2, <1>7, <2>1, PipeFacts, SingleMove
    <2> QED BY <1>1, <2>2, <2>3
<1>10. Replied(replies', t, said')
    <2>1. Replied(replies', st, said) /\ \A i \in 1 .. Len(replies') : replies'[i].e \in Elicits
        BY <1>1, ReplyTaken, RepliesFacts
    <2>2. Replied(replies', t, said)
        BY <1>2, <1>7, <2>1, RepliedMove
    <2> QED BY <1>1, <2>2
<1>11. ASSUME NEW d \in Elicits
       PROVE  StagedCard(t[d], d)' /\ StagedAnswer(t[d], d)'
    <2>1. CASE d # e
        <3>1. t[d] = st[d]
            BY <1>7, <2>1
        <3>2. StagedCard(st[d], d)' /\ StagedAnswer(st[d], d)'
            BY <1>4, <2>1, ReplyOthers
        <3> QED BY <3>1, <3>2
    <2>2. CASE d = e
        <3>1. StagedCard(t[e], e)'
            BY <1>1, <1>3, <1>7 DEF StagedCard
        <3>2. StagedAnswer(t[e], e)'
            BY <1>3, <1>4, <1>7 DEF StagedAnswer
        <3> QED BY <2>2, <3>1, <3>2
    <2> QED BY <2>1, <2>2
<1>12. Staged(t)'
    BY <1>7, <1>8, <1>9, <1>10, <1>11 DEF Staged
<1> QED BY <1>5, <1>12, ReplyTaken

\* The outcome of a card, for OMP's request or for one that was answered.
LEMMA StepCardReply ==
    ASSUME TypeOK, OneOfEach, NEW st, Staged(st), HandleReply, NEW e, e = replies[1].e,
           replies[1].raw = FALSE,
           \/ /\ e \in bridged /\ bridged' = bridged \ {e} /\ ids' = ids \ {e}
              /\ got' = [got EXCEPT ![e] = Append(@, Translated(e, replies[1]))]
           \/ e \notin bridged /\ UNCHANGED adapter
    PROVE  TypeOK' /\ OneOfEach' /\ \E t : Staged(t)'
<1>1. /\ e \in Elicits
      /\ replies \in Seq(Replies) /\ replies # <<>> /\ replies' = Tail(replies) /\ replies' \in Seq(Replies)
      /\ UNCHANGED <<req, inbox, card, said, screen>>
      /\ st \in [Elicits -> Stages]
      /\ \A d \in Elicits : StagedCard(st[d], d) /\ StagedAnswer(st[d], d)
      /\ Replied(replies, st, said)
    BY ReplyTaken
<1>2. st[e] = "over" /\ (replies[1].outcome \in Approvals => said[e].what = "yes")
    BY <1>1, RepliedPop, Zenon
<1>3. PICK a : a = Translated(e, replies[1])
    OBVIOUS
<1>4. a.action = "accept" => said[e].what = "yes"
    <2>1. req[e] # NoRequest
        BY <1>1, <1>2 DEF StagedCard
    <2>2. Kind(e) \in {"plan", "url", "ask"}
        BY <1>1, <2>1, KindFacts
    <2>3. a.action = Action(Kind(e), replies[1].outcome)
        BY <1>3 DEF Translated, Answer
    <2> QED BY <1>2, <2>2, <2>3, AcceptFacts
<1>5. \/ /\ e \in bridged /\ bridged' = bridged \ {e} /\ ids' = ids \ {e}
         /\ DOMAIN got' = Elicits /\ got' = [d \in Elicits |-> got'[d]]
         /\ \A d \in Elicits : d # e => got'[d] = got[d]
         /\ got'[e] = <<got'[e][1]>> /\ got'[e][1] = a
      \/ e \notin bridged /\ bridged' = bridged /\ ids' = ids /\ got' = got
    <2>1. e \in bridged => got[e] = <<>>
        BY <1>1 DEF StagedAnswer
    <2> QED BY <1>1, <1>3, <2>1, FirstAnswer DEF adapter
<1>6. TypeOK'
    <2>1. DOMAIN got' = Elicits /\ got' = [d \in Elicits |-> got'[d]]
        BY <1>5 DEF TypeOK
    <2>2. bridged' \subseteq Elicits /\ ids' \subseteq bridged'
        BY <1>5 DEF TypeOK
    <2> QED BY <1>1, <2>1, <2>2 DEF TypeOK
<1>7. ASSUME NEW d \in Elicits
      PROVE  StagedCard(st[d], d)' /\ StagedAnswer(st[d], d)'
    <2>1. CASE d # e
        <3>1. got'[d] = got[d] /\ (d \in bridged' <=> d \in bridged)
            BY <1>5, <2>1
        <3> QED BY <2>1, <3>1, ReplyOthers
    <2>2. CASE d = e
        <3>1. StagedCard(st[e], e)'
            BY <1>1 DEF StagedCard
        <3>2. StagedAnswer(st[e], e)'
            <4>1. e \notin bridged'
                BY <1>5
            <4>2. got'[e] # <<>> => got'[e] = <<got'[e][1]>> /\ (got'[e][1].action = "accept" => said'[e].what = "yes")
                <5>1. StagedAnswer(st[e], e) /\ said' = said
                    BY <1>1
                <5> QED BY <1>4, <1>5, <5>1 DEF StagedAnswer
            <4> QED BY <1>2, <4>1, <4>2 DEF StagedAnswer
        <3> QED BY <2>2, <3>1, <3>2
    <2> QED BY <2>1, <2>2
<1>8. Staged(st)'
    <2>1. /\ Single(inbox, "create", "asked", st) /\ Replied(replies', st, said)
          /\ Single(screen, "card", "carded", st) /\ Single(screen, "raw", "rawed", st)
        BY ReplyTaken
    <2> QED BY <1>1, <1>7, <2>1 DEF Staged
<1> QED BY <1>6, <1>8, ReplyTaken

LEMMA StepHandleReply ==
    ASSUME TypeOK, OneOfEach, NEW st, Staged(st), HandleReply
    PROVE  TypeOK' /\ OneOfEach' /\ \E t : Staged(t)'
<1>1. PICK e : e = replies[1].e
    OBVIOUS
<1>2. Head(replies) = replies[1] /\ replies[1] \in Replies
    BY <1>1, ReplyTaken
<1>3. replies[1].raw \in BOOLEAN
    BY <1>2 DEF Replies
<1>4. CASE replies[1].raw = TRUE
    <2>1. PICK a : a = Answer("unsupported", {})
        OBVIOUS
    <2>2. a.action = "unsupported"
        BY <2>1 DEF Answer
    <2>3. got' = [got EXCEPT ![e] = Append(@, a)] /\ bridged' = bridged /\ ids' = ids
        BY <1>1, <1>2, <1>4, <2>1, Zenon DEF HandleReply
    <2> QED BY <1>1, <1>4, <2>2, <2>3, StepRawReply
<1>5. CASE replies[1].raw = FALSE
    <2>1. \/ /\ e \in bridged /\ bridged' = bridged \ {e} /\ ids' = ids \ {e}
             /\ got' = [got EXCEPT ![e] = Append(@, Translated(e, replies[1]))]
          \/ e \notin bridged /\ UNCHANGED adapter
        BY <1>1, <1>2, <1>5, Zenon DEF HandleReply
    <2> QED BY <1>1, <1>5, <2>1, StepCardReply
<1> QED BY <1>3, <1>4, <1>5, Zenon

-----------------------------------------------------------------------------
(***************************************************************************)
(* The pager.  Most of its steps answer a card, or fail to show it: its    *)
(* elicitation is over, and the reply is under way.                        *)
(***************************************************************************)
LEMMA CardAnswered ==
    ASSUME TypeOK, NEW st, Staged(st), NEW e \in Elicits, st[e] \in {"carded", "shown"},
           UNCHANGED <<req, inbox, bridged, ids, got>>,
           card' \in [Elicits -> Places], card'[e] \notin {"open", "parked"},
           \A d \in Elicits : d # e => card'[d] = card[d],
           said' \in [Elicits -> Sayings], \A d \in Elicits : d # e => said'[d] = said[d],
           NEW x \in Replies, replies' = replies \o <<x>>, x.e = e, x.raw = FALSE,
           x.outcome \in Approvals => said'[e].what = "yes",
           screen' \in Seq(ScreenMessages),
           Single(screen', "card", "carded", st), Single(screen', "raw", "rawed", st),
           st[e] = "shown" \/ ~Holds(screen', "card", e),
           \A d \in Elicits : d # e => Keeps(screen, screen', d)
    PROVE  TypeOK' /\ \E t : Staged(t)'
<1>1. replies \in Seq(Replies) /\ replies' \in Seq(Replies)
    BY Pushed DEF TypeOK
<1>2. TypeOK'
    BY <1>1 DEF TypeOK
<1>3. /\ st \in [Elicits -> Stages] /\ Single(inbox, "create", "asked", st) /\ Replied(replies, st, said)
      /\ \A d \in Elicits : StagedCard(st[d], d) /\ StagedAnswer(st[d], d)
    BY DEF Staged
<1>4. PICK t : t = [st EXCEPT ![e] = "over"]
    OBVIOUS
<1>5. t \in [Elicits -> Stages] /\ t[e] = "over" /\ \A d \in Elicits : d # e => t[d] = st[d]
    BY <1>3, <1>4 DEF Stages
<1>6. Single(inbox', "create", "asked", t)
    <2>1. Single(inbox, "create", "asked", t)
        BY <1>3, <1>5, PipeFacts, SingleMove
    <2> QED BY <2>1
<1>7. \A i \in 1 .. Len(screen') : screen'[i].e \in Elicits
    BY ScreenFacts
<1>8. Single(screen', "card", "carded", t)
    BY <1>5, <1>7, SingleMove
<1>9. Single(screen', "raw", "rawed", t)
    BY <1>5, <1>7, SingleMove
<1>10. Replied(replies', t, said')
    <2>0. \A d \in Elicits : \/ (t[d] = st[d] /\ said'[d].what = said[d].what)
                             \/ st[d] \notin {"failing", "over"}
                             \/ (~HasReply(replies, d) /\ ~HasRaw(replies, d))
        BY <1>5
    <2>1. Replied(replies, t, said')
        BY <1>3, <2>0, PipeFacts, RepliedMove
    <2>2. x.raw = FALSE => t[x.e] = "over" /\ (x.outcome \in Approvals => said'[x.e].what = "yes")
        BY <1>5
    <2>3. x.raw = TRUE => t[x.e] = "failing" /\ ~HasRaw(replies, x.e)
        BY Zenon
    <2> QED BY <1>1, <2>1, <2>2, <2>3, RepliedPush, Zenon
<1>11. ASSUME NEW d \in Elicits
       PROVE  StagedCard(t[d], d)' /\ StagedAnswer(t[d], d)'
    <2>1. CASE d # e
        <3>1. /\ t[d] = st[d] /\ StagedCard(st[d], d) /\ StagedAnswer(st[d], d)
              /\ card'[d] = card[d] /\ said'[d] = said[d] /\ Keeps(screen, screen', d)
            BY <1>3, <1>5, <2>1
        <3>2. HasReply(replies, d) => HasReply(replies', d)
            BY <1>1, HasReplyPush
        <3>3. StagedCard(st[d], d)' /\ StagedAnswer(st[d], d)'
            BY <3>1, <3>2, Untouched
        <3> QED BY <3>1, <3>3
    <2>2. CASE d = e
        <3>1. StagedCard(st[e], e) /\ StagedAnswer(st[e], e) /\ said[e].what = "nothing" /\ req[e] # NoRequest
            BY <1>3 DEF StagedCard
        <3>2. StagedCard(t[e], e)'
            BY <1>5, <3>1 DEF StagedCard
        <3>3. HasReply(replies', e)
            <4>1. HasReply(replies', x.e)
                BY <1>1, HasReplyLast, Zenon
            <4> QED BY <4>1
        <3>4. StagedAnswer(t[e], e)'
            BY <1>5, <3>1, <3>3 DEF StagedAnswer
        <3> QED BY <2>2, <3>2, <3>4
    <2> QED BY <2>1, <2>2
<1>12. Staged(t)'
    BY <1>5, <1>6, <1>8, <1>9, <1>10, <1>11 DEF Staged
<1> QED BY <1>2, <1>12

\* The user's steps leave what the adapter sends alone.
LEMMA UserAnswers ==
    ASSUME TypeOK, NEW st, Staged(st), NEW e \in Elicits, card[e] = "open",
           UNCHANGED <<omp, adapter, screen>>,
           card' \in [Elicits -> Places], card'[e] \notin {"open", "parked"},
           \A d \in Elicits : d # e => card'[d] = card[d],
           said' \in [Elicits -> Sayings], \A d \in Elicits : d # e => said'[d] = said[d],
           NEW x \in Replies, replies' = replies \o <<x>>, x.e = e, x.raw = FALSE,
           x.outcome \in Approvals => said'[e].what = "yes"
    PROVE  TypeOK' /\ \E t : Staged(t)'
<1>1. UNCHANGED <<req, inbox, bridged, ids, got>> /\ screen' = screen
    BY DEF omp, adapter
<1>2. st[e] = "shown"
    BY DEF Staged, StagedCard
<1>3. /\ screen' \in Seq(ScreenMessages)
      /\ Single(screen', "card", "carded", st) /\ Single(screen', "raw", "rawed", st)
    BY <1>1 DEF Staged, TypeOK
<1>4. \A d \in Elicits : Keeps(screen, screen', d)
    BY <1>1, SameKeeps
<1> QED BY <1>1, <1>2, <1>3, <1>4, CardAnswered

LEMMA SaidFacts ==
    ASSUME TypeOK, NEW e \in Elicits, NEW w \in {"yes", "no"}, said' = [said EXCEPT ![e].what = w]
    PROVE  /\ said' \in [Elicits -> Sayings] /\ said'[e].what = w
           /\ \A d \in Elicits : d # e => said'[d] = said[d]
<1> DEFINE A == {<<>>} \cup UNION {Chosen(f) : f \in Forms}
<1>1. Sayings = [what: {"nothing", "yes", "no"}, answers: A]
    BY DEF Sayings
<1> HIDE DEF A
<1>2. said \in [Elicits -> [what: {"nothing", "yes", "no"}, answers: A]]
    BY <1>1 DEF TypeOK
<1>3. /\ said' \in [Elicits -> [what: {"nothing", "yes", "no"}, answers: A]] /\ said'[e].what = w
      /\ \A d \in Elicits : d # e => said'[d] = said[d]
    BY <1>2
<1> QED BY <1>1, <1>3

LEMMA OneClosed ==
    ASSUME OneOfEach, NEW e \in Elicits, req' = req, card'[e] = "closed",
           \A d \in Elicits : d # e => card'[d] = card[d]
    PROVE  OneOfEach'
BY DEF OneOfEach, Kind

LEMMA StepRefuse ==
    ASSUME TypeOK, OneOfEach, NEW st, Staged(st), NEW e \in Elicits, NEW o \in Refusals(e), Refuse(e, o)
    PROVE  TypeOK' /\ OneOfEach' /\ \E t : Staged(t)'
<1>1. o \in Outcomes \ Approvals
    BY RefusalFacts
<1>0. OneReply(Reply(e, o), e, Outcomes \ Approvals)
    BY <1>1, ReplyRecord
<1>2. PICK x \in Replies : Reply(e, o) = <<x>> /\ x.e = e /\ x.raw = FALSE /\ x.outcome \in Outcomes \ Approvals
    BY <1>0, Zenon DEF OneReply
<1>3. /\ card[e] = "open" /\ Set(Closed(e)) /\ replies' = replies \o <<x>>
      /\ said' = [said EXCEPT ![e].what = "no"]
      /\ UNCHANGED <<omp, adapter, screen>>
    BY <1>2, Zenon DEF Refuse
<1>4. /\ card' \in [Elicits -> Places] /\ card'[e] = "closed"
      /\ \A d \in Elicits : d # e => card'[d] = card[d]
    BY <1>3, ClosedAlone
<1>5. said' \in [Elicits -> Sayings] /\ \A d \in Elicits : d # e => said'[d] = said[d]
    BY <1>3, SaidFacts
<1>6. x.outcome \in Approvals => said'[e].what = "yes"
    BY <1>2, Zenon
<1>7. x.raw = FALSE /\ x.e = e
    BY <1>2, Zenon
<1>8. TypeOK' /\ \E t : Staged(t)'
    BY <1>3, <1>4, <1>5, <1>6, <1>7, UserAnswers
<1>9. OneOfEach'
    BY <1>3, <1>4, OneClosed DEF omp
<1> QED BY <1>8, <1>9

LEMMA StepApprove ==
    ASSUME TypeOK, OneOfEach, NEW st, Staged(st), NEW e \in Elicits, Approve(e)
    PROVE  TypeOK' /\ OneOfEach' /\ \E t : Staged(t)'
<1>1. PICK o : o = (IF Kind(e) = "url" THEN "accept" ELSE "approved")
    OBVIOUS
<1>0. OneReply(Reply(e, o), e, Outcomes)
    <2>1. o \in Outcomes
        BY <1>1 DEF Outcomes
    <2> QED BY <2>1, ReplyRecord
<1>2. PICK x \in Replies : Reply(e, o) = <<x>> /\ x.e = e /\ x.raw = FALSE
    BY <1>0, Zenon DEF OneReply
<1>3. /\ card[e] = "open" /\ replies' = replies \o <<x>>
      /\ Set([d \in {e} |-> IF Kind(e) = "url" THEN "waiting" ELSE "closed"])
      /\ said' = [said EXCEPT ![e].what = "yes"]
      /\ UNCHANGED <<omp, adapter, screen>>
    BY <1>1, <1>2, Zenon DEF Approve
<1>4. /\ card' \in [Elicits -> Places]
      /\ card'[e] = IF Kind(e) = "url" THEN "waiting" ELSE "closed"
      /\ \A d \in Elicits : d # e => card'[d] = card[d]
    BY <1>3 DEF Set, TypeOK, Places
<1>5. said' \in [Elicits -> Sayings] /\ said'[e].what = "yes" /\ \A d \in Elicits : d # e => said'[d] = said[d]
    BY <1>3, SaidFacts
<1>6. x.raw = FALSE /\ x.e = e
    BY <1>2, Zenon
<1>7. card'[e] \notin {"open", "parked"}
    BY <1>4
<1>8. TypeOK' /\ \E t : Staged(t)'
    BY <1>3, <1>4, <1>5, <1>6, <1>7, UserAnswers
<1>9. OneOfEach'
    <2>1. req' = req
        BY <1>3 DEF omp
    <2> QED BY <1>3, <1>4, <2>1 DEF OneOfEach, Kind
<1> QED BY <1>8, <1>9

LEMMA StepSubmit ==
    ASSUME TypeOK, OneOfEach, NEW st, Staged(st), NEW e \in Elicits, NEW s \in Chosen(Form(e)), Submit(e, s)
    PROVE  TypeOK' /\ OneOfEach' /\ \E t : Staged(t)'
<1>1. Form(e) \in Forms
    BY KindFacts DEF Submit
<1>2. PICK x : x = [e |-> e, raw |-> FALSE, outcome |-> "accepted", response |-> Response(Form(e), s)]
    OBVIOUS
<1>3. PICK resp \in Responses : resp = Response(Form(e), s)
    BY <1>1 DEF Responses
<1>4. x \in Replies /\ x.e = e /\ x.raw = FALSE
    <2>1. PICK raw \in BOOLEAN : raw = FALSE
        BY Zenon
    <2>2. x = [e |-> e, raw |-> raw, outcome |-> "accepted", response |-> resp]
        BY <1>2, <1>3, <2>1, Zenon
    <2>3. "accepted" \in Outcomes
        BY DEF Outcomes
    <2>4. x \in Replies /\ x.e = e /\ x.raw = raw
        BY <2>1, <2>2, <2>3, ReplyFacts
    <2> QED BY <2>1, <2>4, Zenon
<1>5. /\ card[e] = "open" /\ Set(Closed(e)) /\ replies' = Append(replies, x)
      /\ said' = [said EXCEPT ![e] = [what |-> "yes", answers |-> s]]
      /\ UNCHANGED <<omp, adapter, screen>>
    BY <1>2, Zenon DEF Submit
<1>6. replies' = replies \o <<x>>
    BY <1>4, <1>5 DEF TypeOK
<1>7. /\ card' \in [Elicits -> Places] /\ card'[e] = "closed"
      /\ \A d \in Elicits : d # e => card'[d] = card[d]
    BY <1>5, ClosedAlone
<1>8. said' \in [Elicits -> Sayings] /\ said'[e].what = "yes" /\ \A d \in Elicits : d # e => said'[d] = said[d]
    <2>1. [what |-> "yes", answers |-> s] \in Sayings
        BY <1>1 DEF Sayings
    <2> QED BY <1>5, <2>1 DEF TypeOK
<1>9. TypeOK' /\ \E t : Staged(t)'
    BY <1>4, <1>5, <1>6, <1>7, <1>8, UserAnswers
<1>10. OneOfEach'
    BY <1>5, <1>7, OneClosed DEF omp
<1> QED BY <1>9, <1>10

\* The card that waits closes: the parked one is shown.
LEMMA WaitingCloses ==
    ASSUME TypeOK, OneOfEach, NEW st, Staged(st), NEW e \in Elicits, card[e] = "waiting", Set(Closed(e)),
           UNCHANGED <<req, inbox, bridged, ids, got, said, replies>>,
           screen' \in Seq(ScreenMessages),
           Single(screen', "card", "carded", st), Single(screen', "raw", "rawed", st),
           \A d \in Elicits : Keeps(screen, screen', d)
    PROVE  TypeOK' /\ OneOfEach' /\ \E t : Staged(t)'
<1>1. /\ card' \in [Elicits -> Places] /\ card'[e] = "closed"
      /\ \A d \in Elicits : d # e /\ ~(Kind(d) = "url" /\ card[d] = "parked") => card'[d] = card[d]
      /\ \A d \in Elicits : Kind(d) = "url" /\ card[d] = "parked" => card'[d] = "open"
    BY ClosedWaiting
<1>2. TypeOK'
    BY <1>1 DEF TypeOK
<1>3. OneOfEach'
    <2>1. \A d \in Elicits : card[d] = "parked" => Kind(d) = "url"
        BY DEF OneOfEach
    <2>2. \A d \in Elicits : d # e => \/ card'[d] = card[d] /\ card[d] # "parked"
                                      \/ card'[d] = "open" /\ card[d] = "parked" /\ Kind(d) = "url"
        BY <1>1, <2>1
    <2>3. \A d \in Elicits : Kind(d)' = Kind(d)
        BY DEF Kind
    <2> QED BY <1>1, <2>1, <2>2, <2>3 DEF OneOfEach
<1>4. ASSUME NEW d \in Elicits
      PROVE  StagedCard(st[d], d)' /\ StagedAnswer(st[d], d)'
    <2>1. StagedCard(st[d], d) /\ StagedAnswer(st[d], d) /\ Keeps(screen, screen', d)
        BY DEF Staged
    <2>2. StagedCard(st[d], d)'
        <3>1. CASE card'[d] = card[d]
            BY <2>1, <3>1 DEF StagedCard
        <3>2. CASE card'[d] = "open" /\ card[d] = "parked"
            BY <2>1, <3>2 DEF StagedCard
        <3>3. CASE d = e
            BY <1>1, <2>1, <3>3 DEF StagedCard
        <3> QED BY <1>1, <3>1, <3>2, <3>3
    <2>3. StagedAnswer(st[d], d)'
        BY <2>1 DEF StagedAnswer, Keeps
    <2> QED BY <2>2, <2>3
<1>5. Staged(st)'
    BY <1>4 DEF Staged
<1> QED BY <1>2, <1>3, <1>5

LEMMA StepCloseWaiting ==
    ASSUME TypeOK, OneOfEach, NEW st, Staged(st), NEW e \in Elicits, CloseWaiting(e)
    PROVE  TypeOK' /\ OneOfEach' /\ \E t : Staged(t)'
<1>1. /\ card[e] = "waiting" /\ Set(Closed(e))
      /\ UNCHANGED <<req, inbox, bridged, ids, got, said, replies>> /\ screen' = screen
    BY DEF CloseWaiting, omp, adapter
<1>2. /\ screen' \in Seq(ScreenMessages)
      /\ Single(screen', "card", "carded", st) /\ Single(screen', "raw", "rawed", st)
    BY <1>1 DEF Staged, TypeOK
<1>3. \A d \in Elicits : Keeps(screen, screen', d)
    BY <1>1, SameKeeps
<1> QED BY <1>1, <1>2, <1>3, WaitingCloses

-----------------------------------------------------------------------------
(***************************************************************************)
(* The pager reads what the adapter sends.                                 *)
(***************************************************************************)
LEMMA ScreenTaken ==
    ASSUME TypeOK, NEW st, Staged(st), PagerReads, NEW e, e = screen[1].e
    PROVE  /\ e \in Elicits
           /\ screen \in Seq(ScreenMessages) /\ screen # <<>> /\ screen' = Tail(screen)
           /\ screen' \in Seq(ScreenMessages) /\ Head(screen) = screen[1]
           /\ UNCHANGED <<req, inbox, bridged, ids, got, said>>
           /\ st \in [Elicits -> Stages]
           /\ \A d \in Elicits : StagedCard(st[d], d) /\ StagedAnswer(st[d], d)
           /\ Single(inbox, "create", "asked", st)
           /\ Single(screen', "card", "carded", st)
           /\ Single(screen', "raw", "rawed", st)
           /\ Replied(replies, st, said)
           /\ \A d \in Elicits : d # e => Keeps(screen, screen', d)
           /\ screen[1].m \notin {"card", "gone"} => Keeps(screen, screen', e)
<1>1. /\ screen \in Seq(ScreenMessages) /\ screen # <<>> /\ screen' = Tail(screen)
      /\ UNCHANGED <<req, inbox, bridged, ids, got, said>>
    BY DEF PagerReads, TypeOK, adapter, omp
<1>2. screen' \in Seq(ScreenMessages) /\ Head(screen) = screen[1] /\ screen[1] \in ScreenMessages
    BY <1>1, Popped
<1>3. e \in Elicits
    BY <1>2 DEF ScreenMessages
<1>4. /\ st \in [Elicits -> Stages]
      /\ \A d \in Elicits : StagedCard(st[d], d) /\ StagedAnswer(st[d], d)
      /\ Single(inbox, "create", "asked", st)
      /\ Single(screen, "card", "carded", st)
      /\ Single(screen, "raw", "rawed", st)
      /\ Replied(replies, st, said)
    BY DEF Staged
<1>5. Single(screen', "card", "carded", st)
    BY <1>1, <1>4, SinglePop
<1>6. Single(screen', "raw", "rawed", st)
    BY <1>1, <1>4, SinglePop
<1>7. ASSUME NEW d \in Elicits, d # e
      PROVE  Keeps(screen, screen', d)
    BY <1>1, <1>7, KeepsPop
<1>8. ASSUME screen[1].m \notin {"card", "gone"}
      PROVE  Keeps(screen, screen', e)
    BY <1>1, <1>8, KeepsPop
<1> QED BY <1>1, <1>2, <1>3, <1>4, <1>5, <1>6, <1>7, <1>8

\* A card arrives: the elicitation is carded, and no second card is under way.
LEMMA CardTaken ==
    ASSUME TypeOK, NEW st, Staged(st), PagerReads, NEW e, e = screen[1].e, screen[1].m = "card"
    PROVE  /\ st[e] = "carded" /\ ~Holds(screen', "card", e)
           /\ card[e] = "none" /\ said[e].what = "nothing" /\ req[e] # NoRequest
           /\ e \notin bridged => Holds(screen', "gone", e)
<1>1. /\ e \in Elicits
      /\ screen \in Seq(ScreenMessages) /\ screen # <<>> /\ screen' = Tail(screen)
      /\ StagedCard(st[e], e) /\ StagedAnswer(st[e], e)
    BY ScreenTaken
<1>2. Single(screen, "card", "carded", st)
    BY DEF Staged
<1>3. st[screen[1].e] = "carded" /\ ~Holds(screen', "card", screen[1].e)
    BY <1>1, <1>2, SingleTaken
<1>4. st[e] = "carded" /\ ~Holds(screen', "card", e)
    BY <1>3
<1>5. card[e] = "none" /\ said[e].what = "nothing" /\ req[e] # NoRequest
    BY <1>1, <1>4 DEF StagedCard
<1>6. ASSUME e \notin bridged PROVE Holds(screen', "gone", e)
    <2>1. Retracted(screen, e)
        BY <1>1, <1>4, <1>6 DEF StagedAnswer
    <2> QED BY <1>1, <2>1, RetractedPop
<1> QED BY <1>4, <1>5, <1>6

LEMMA StepNoView ==
    ASSUME TypeOK, OneOfEach, NEW st, Staged(st), PagerReads, NEW e, e = screen[1].e, screen[1].m = "card", NoView(e)
    PROVE  TypeOK' /\ OneOfEach' /\ \E t : Staged(t)'
<1>1. /\ e \in Elicits
      /\ screen' \in Seq(ScreenMessages)
      /\ UNCHANGED <<req, inbox, bridged, ids, got, said>>
      /\ Single(screen', "card", "carded", st)
      /\ Single(screen', "raw", "rawed", st)
      /\ \A d \in Elicits : d # e => Keeps(screen, screen', d)
    BY ScreenTaken
<1>2. st[e] = "carded" /\ ~Holds(screen', "card", e) /\ card[e] = "none"
    BY CardTaken
<1>3. OneReply(Reply(e, "error"), e, Outcomes \ Approvals)
    BY <1>1, ErrorRecord
<1>4. PICK x \in Replies : /\ Reply(e, "error") = <<x>>
                           /\ x.e = e /\ x.raw = FALSE /\ x.outcome \in Outcomes \ Approvals
    BY <1>3, Zenon DEF OneReply
<1>5. replies' = replies \o <<x>> /\ card' = card
    BY <1>4, Zenon DEF NoView
<1>6. x.e = e /\ x.raw = FALSE
    BY <1>4, Zenon
<1>7. x.outcome \notin Approvals
    BY <1>4, Zenon
<1>8. card' \in [Elicits -> Places] /\ said' \in [Elicits -> Sayings] /\ said' = said
    BY <1>1, <1>5 DEF TypeOK
<1>9. TypeOK' /\ \E t : Staged(t)'
    BY <1>1, <1>2, <1>5, <1>6, <1>7, <1>8, CardAnswered
<1>10. OneOfEach'
    BY <1>1, <1>5 DEF OneOfEach, Kind
<1> QED BY <1>9, <1>10

\* Nothing but the end of a message: a retraction of a card that is not shown.
LEMMA Ignored ==
    ASSUME TypeOK, OneOfEach, NEW st, Staged(st), PagerReads, NEW e, e = screen[1].e,
           card' = card, replies' = replies,
           screen[1].m = "done" \/ (screen[1].m = "gone" /\ card[e] \notin {"open", "parked"})
    PROVE  TypeOK' /\ OneOfEach' /\ \E t : Staged(t)'
<1>1. /\ e \in Elicits
      /\ screen \in Seq(ScreenMessages) /\ screen # <<>> /\ screen' = Tail(screen)
      /\ screen' \in Seq(ScreenMessages)
      /\ UNCHANGED <<req, inbox, bridged, ids, got, said>>
      /\ st \in [Elicits -> Stages]
      /\ \A d \in Elicits : StagedCard(st[d], d) /\ StagedAnswer(st[d], d)
      /\ Single(inbox, "create", "asked", st)
      /\ Single(screen', "card", "carded", st)
      /\ Single(screen', "raw", "rawed", st)
      /\ Replied(replies, st, said)
    BY ScreenTaken
<1>2. TypeOK'
    BY <1>1 DEF TypeOK
<1>3. OneOfEach'
    BY <1>1 DEF OneOfEach, Kind
<1>4. ASSUME NEW d \in Elicits
      PROVE  StagedCard(st[d], d)' /\ StagedAnswer(st[d], d)'
    <2>1. StagedCard(st[d], d) /\ StagedAnswer(st[d], d)
        BY <1>1
    <2>2. CASE Keeps(screen, screen', d)
        BY <1>1, <2>1, <2>2, Untouched
    <2>3. CASE d = e /\ screen[1].m = "gone" /\ card[e] \notin {"open", "parked"}
        <3>1. st[e] # "shown"
            BY <2>1, <2>3 DEF StagedCard
        <3>2. Holds(screen, "card", e) => Holds(screen', "card", e)
            BY <1>1, <2>3, HoldsPop
        <3>3. Retracted(screen, e) => Retracted(screen', e)
            BY <1>1, RetractedPop
        <3>4. StagedCard(st[e], e)'
            BY <1>1, <2>1, <2>3 DEF StagedCard
        <3>5. StagedAnswer(st[e], e)'
            BY <1>1, <2>1, <2>3, <3>1, <3>2, <3>3 DEF StagedAnswer
        <3> QED BY <2>3, <3>4, <3>5
    <2>4. Keeps(screen, screen', d) \/ (d = e /\ screen[1].m = "gone")
        BY ScreenTaken
    <2> QED BY <2>2, <2>3, <2>4
<1>5. Staged(st)'
    BY <1>1, <1>4 DEF Staged
<1> QED BY <1>2, <1>3, <1>5

LEMMA StepDismiss ==
    ASSUME TypeOK, OneOfEach, NEW st, Staged(st), PagerReads, NEW e, e = screen[1].e, screen[1].m = "gone", Dismiss(e)
    PROVE  TypeOK' /\ OneOfEach' /\ \E t : Staged(t)'
<1>1. CASE card[e] \in {"open", "parked"}
    <2>1. /\ e \in Elicits
          /\ screen' \in Seq(ScreenMessages)
          /\ UNCHANGED <<req, inbox, bridged, ids, got, said>>
          /\ Single(screen', "card", "carded", st)
          /\ Single(screen', "raw", "rawed", st)
          /\ \A d \in Elicits : d # e => Keeps(screen, screen', d)
          /\ StagedCard(st[e], e)
        BY ScreenTaken
    <2>2. st[e] = "shown"
        BY <1>1, <2>1 DEF StagedCard
    <2>3. OneReply(IF Kind(e) = "plan" THEN Cancels(e) ELSE Reply(e, "error"), e, Outcomes \ Approvals)
        <3>1. OneReply(Cancels(e), e, Outcomes \ Approvals) /\ OneReply(Reply(e, "error"), e, Outcomes \ Approvals)
            BY <2>1, CancelRecord, ErrorRecord
        <3> QED BY <3>1, Zenon
    <2>4. PICK x \in Replies : /\ (IF Kind(e) = "plan" THEN Cancels(e) ELSE Reply(e, "error")) = <<x>>
                               /\ x.e = e /\ x.raw = FALSE /\ x.outcome \in Outcomes \ Approvals
        BY <2>3, Zenon DEF OneReply
    <2>5. Set(Closed(e)) /\ replies' = replies \o <<x>>
        BY <1>1, <2>4, Zenon DEF Dismiss
    <2>6. x.e = e /\ x.raw = FALSE /\ x.outcome \notin Approvals
        BY <2>4, Zenon
    <2>7. /\ card' \in [Elicits -> Places] /\ card'[e] = "closed"
          /\ \A d \in Elicits : d # e => card'[d] = card[d]
        BY <1>1, <2>1, <2>5, ClosedAlone
    <2>8. said' \in [Elicits -> Sayings] /\ said' = said
        BY <2>1 DEF TypeOK
    <2>9. TypeOK' /\ \E t : Staged(t)'
        BY <2>1, <2>2, <2>5, <2>6, <2>7, <2>8, CardAnswered
    <2>10. OneOfEach'
        BY <2>1, <2>7, OneClosed
    <2> QED BY <2>9, <2>10
<1>2. CASE card[e] \notin {"open", "parked"}
    <2>1. card' = card /\ replies' = replies
        BY <1>2 DEF Dismiss
    <2> QED BY <1>2, <2>1, Ignored
<1> QED BY <1>1, <1>2

LEMMA StepFinish ==
    ASSUME TypeOK, OneOfEach, NEW st, Staged(st), PagerReads, NEW e, e = screen[1].e, screen[1].m = "done", Finish(e)
    PROVE  TypeOK' /\ OneOfEach' /\ \E t : Staged(t)'
<1>1. CASE card[e] = "waiting"
    <2>1. Set(Closed(e)) /\ replies' = replies
        BY <1>1 DEF Finish
    <2>2. /\ e \in Elicits
          /\ screen' \in Seq(ScreenMessages)
          /\ UNCHANGED <<req, inbox, bridged, ids, got, said>>
          /\ Single(screen', "card", "carded", st)
          /\ Single(screen', "raw", "rawed", st)
          /\ \A d \in Elicits : Keeps(screen, screen', d)
        BY ScreenTaken
    <2> QED BY <1>1, <2>1, <2>2, WaitingCloses
<1>2. CASE card[e] # "waiting"
    <2>1. card' = card /\ replies' = replies
        BY <1>2 DEF Finish
    <2> QED BY <2>1, Ignored
<1> QED BY <1>1, <1>2

LEMMA RawTaken ==
    ASSUME TypeOK, NEW st, Staged(st), PagerReads, NEW e, e = screen[1].e, screen[1].m = "raw"
    PROVE  st[e] = "rawed" /\ ~Holds(screen', "raw", e)
<1>1. screen \in Seq(ScreenMessages) /\ screen # <<>> /\ screen' = Tail(screen)
    BY ScreenTaken
<1>2. Single(screen, "raw", "rawed", st)
    BY DEF Staged
<1>3. st[screen[1].e] = "rawed" /\ ~Holds(screen', "raw", screen[1].e)
    BY <1>1, <1>2, SingleTaken
<1> QED BY <1>3

\* A request that was forwarded fails.
LEMMA StepRaw ==
    ASSUME TypeOK, OneOfEach, NEW st, Staged(st), PagerReads, NEW e, e = screen[1].e, screen[1].m = "raw",
           card' = card, NEW x \in Replies, replies' = replies \o <<x>>, x.e = e, x.raw = TRUE
    PROVE  TypeOK' /\ OneOfEach' /\ \E t : Staged(t)'
<1>1. /\ e \in Elicits
      /\ screen \in Seq(ScreenMessages) /\ screen # <<>> /\ screen' = Tail(screen)
      /\ screen' \in Seq(ScreenMessages)
      /\ UNCHANGED <<req, inbox, bridged, ids, got, said>>
      /\ st \in [Elicits -> Stages]
      /\ \A d \in Elicits : StagedCard(st[d], d) /\ StagedAnswer(st[d], d)
      /\ Single(inbox, "create", "asked", st)
      /\ Single(screen', "card", "carded", st)
      /\ Single(screen', "raw", "rawed", st)
      /\ Replied(replies, st, said)
      /\ \A d \in Elicits : Keeps(screen, screen', d)
    BY ScreenTaken
<1>2. st[e] = "rawed" /\ ~Holds(screen', "raw", e)
    BY RawTaken
<1>3. /\ req[e] # NoRequest /\ card[e] = "none" /\ said[e].what = "nothing"
      /\ e \notin bridged /\ got[e] = <<>>
    BY <1>1, <1>2 DEF StagedCard, StagedAnswer
<1>4. replies \in Seq(Replies) /\ replies' \in Seq(Replies)
    BY Pushed DEF TypeOK
<1>5. TypeOK'
    BY <1>1, <1>4 DEF TypeOK
<1>6. OneOfEach'
    BY <1>1 DEF OneOfEach, Kind
<1>7. PICK t : t = [st EXCEPT ![e] = "failing"]
    OBVIOUS
<1>8. t \in [Elicits -> Stages] /\ t[e] = "failing" /\ \A d \in Elicits : d # e => t[d] = st[d]
    BY <1>1, <1>7 DEF Stages
<1>9. Single(inbox', "create", "asked", t)
    <2>1. Single(inbox, "create", "asked", t)
        BY <1>1, <1>2, <1>8, PipeFacts, SingleMove
    <2> QED BY <1>1, <2>1
<1>10. Single(screen', "card", "carded", t)
    BY <1>1, <1>2, <1>8, ScreenFacts, SingleMove
<1>11. Single(screen', "raw", "rawed", t)
    BY <1>1, <1>2, <1>8, ScreenFacts, SingleMove
<1>12. Replied(replies', t, said')
    <2>1. Replied(replies, t, said')
        BY <1>1, <1>2, <1>8, PipeFacts, RepliedMove
    <2>2. ~HasRaw(replies, e)
        BY <1>1, <1>2, RepliedStage
    <2>3. x.raw = TRUE => t[x.e] = "failing" /\ ~HasRaw(replies, x.e)
        BY <1>8, <2>2
    <2>4. x.raw = FALSE => t[x.e] = "over" /\ (x.outcome \in Approvals => said'[x.e].what = "yes")
        BY Zenon
    <2> QED BY <1>4, <2>1, <2>3, <2>4, RepliedPush, Zenon
<1>13. ASSUME NEW d \in Elicits
       PROVE  StagedCard(t[d], d)' /\ StagedAnswer(t[d], d)'
    <2>1. CASE d # e
        <3>1. /\ t[d] = st[d] /\ StagedCard(st[d], d) /\ StagedAnswer(st[d], d)
              /\ Keeps(screen, screen', d)
            BY <1>1, <1>8, <2>1
        <3>2. HasReply(replies, d) => HasReply(replies', d)
            BY <1>4, HasReplyPush
        <3>3. StagedCard(st[d], d)' /\ StagedAnswer(st[d], d)'
            BY <1>1, <3>1, <3>2, Untouched
        <3> QED BY <3>1, <3>3
    <2>2. CASE d = e
        <3>1. StagedCard(t[e], e)'
            BY <1>1, <1>3, <1>8 DEF StagedCard
        <3>2. StagedAnswer(t[e], e)'
            BY <1>1, <1>3, <1>8 DEF StagedAnswer
        <3> QED BY <2>2, <3>1, <3>2
    <2> QED BY <2>1, <2>2
<1>14. Staged(t)'
    BY <1>8, <1>9, <1>10, <1>11, <1>12, <1>13 DEF Staged
<1> QED BY <1>5, <1>6, <1>14

\* A card is shown, in the place of the old one of its kind.
LEMMA StepShowCard ==
    ASSUME TypeOK, OneOfEach, NEW st, Staged(st), PagerReads, NEW e, e = screen[1].e, screen[1].m = "card", ShowCard(e)
    PROVE  TypeOK' /\ OneOfEach' /\ \E t : Staged(t)'
<1>1. /\ e \in Elicits
      /\ screen' \in Seq(ScreenMessages)
      /\ UNCHANGED <<req, inbox, bridged, ids, got, said>>
      /\ st \in [Elicits -> Stages]
      /\ \A d \in Elicits : StagedCard(st[d], d) /\ StagedAnswer(st[d], d)
      /\ Single(inbox, "create", "asked", st)
      /\ Single(screen', "card", "carded", st)
      /\ Single(screen', "raw", "rawed", st)
      /\ Replied(replies, st, said)
      /\ \A d \in Elicits : d # e => Keeps(screen, screen', d)
    BY ScreenTaken
<1>2. /\ st[e] = "carded" /\ ~Holds(screen', "card", e)
      /\ card[e] = "none" /\ said[e].what = "nothing" /\ req[e] # NoRequest
      /\ e \notin bridged => Holds(screen', "gone", e)
    BY CardTaken
<1> DEFINE P == IF Kind(e) = "url" /\ At("url", "waiting") # {} THEN "parked" ELSE "open"
           O == At(Kind(e), P)
<1>31. /\ Set([x \in O \cup {e} |-> IF x = e THEN P ELSE "closed"])
       /\ replies' = replies \o (IF O = {} THEN <<>> ELSE Cancels(CHOOSE x \in O : TRUE))
    BY Zenon DEF ShowCard
<1>32. P \in {"open", "parked"} /\ O \subseteq Elicits
    BY DEF At
<1>33. PICK place, old : place = P /\ old = O
    OBVIOUS
<1>3. place = (IF Kind(e) = "url" /\ At("url", "waiting") # {} THEN "parked" ELSE "open")
    BY <1>33
<1>4. old = At(Kind(e), place)
    BY <1>33
<1> HIDE DEF P, O
<1>34. /\ card' \in [Elicits -> Places] /\ card'[e] = P
       /\ \A d \in Elicits : d \in O /\ d # e => card'[d] = "closed"
       /\ \A d \in Elicits : d # e /\ d \notin O => card'[d] = card[d]
    BY <1>1, <1>31, <1>32 DEF Set, TypeOK, Places
<1>35. \E o : /\ O # {} => o \in O
              /\ replies' = replies \o (IF O = {} THEN <<>> ELSE Cancels(o))
    <2>1. PICK o : o = (CHOOSE x \in O : TRUE)
        OBVIOUS
    <2>2. O # {} => o \in O
        BY <2>1
    <2>3. replies' = replies \o (IF O = {} THEN <<>> ELSE Cancels(o))
        <3>1. Cancels(o) = Cancels(CHOOSE x \in O : TRUE)
            BY <2>1, Zenon
        <3> QED BY <1>31, <3>1, Zenon
    <2> QED BY <2>2, <2>3, Zenon
<1>5. PICK o : /\ old # {} => o \in old
               /\ replies' = replies \o (IF old = {} THEN <<>> ELSE Cancels(o))
    BY <1>33, <1>35, Zenon
<1>6. \A d : d \in old <=> d \in Elicits /\ Kind(d) = Kind(e) /\ card[d] = place
    BY <1>4 DEF At
<1>7. place \in {"open", "parked"} /\ (place = "parked" => Kind(e) = "url")
    BY <1>3
<1>8. e \notin old /\ \A d \in old : st[d] = "shown"
    BY <1>1, <1>2, <1>6, <1>7 DEF StagedCard
<1>9. \A c, d \in old : c = d
    BY <1>6, <1>7 DEF OneOfEach
<1>10. /\ card' \in [Elicits -> Places] /\ card'[e] = place
       /\ \A d \in old : card'[d] = "closed"
       /\ \A d \in Elicits : d # e /\ d \notin old => card'[d] = card[d]
    BY <1>6, <1>8, <1>33, <1>34
<1>11. OneOfEach'
    <2>1. \A d \in Elicits : Kind(d)' = Kind(d)
        BY <1>1 DEF Kind
    <2>2. ASSUME place = "open"
          PROVE  OneOfEach'
        <3>1. Kind(e) = "url" => \A d \in Elicits : card[d] # "waiting"
            <4>1. At("url", "waiting") = {} \/ Kind(e) # "url"
                BY <1>2, <1>3, <2>2
            <4>2. \A d \in Elicits : card[d] = "waiting" => d \in At("url", "waiting")
                BY DEF At, OneOfEach
            <4> QED BY <4>1, <4>2
        <3>2. \A d \in Elicits : d # e => \/ card'[d] = card[d] /\ ~(card[d] = "open" /\ Kind(d) = Kind(e))
                                          \/ card'[d] = "closed"
            BY <1>6, <1>10, <2>2
        <3> QED BY <1>1, <1>10, <2>1, <2>2, <3>1, <3>2 DEF OneOfEach
    <2>3. ASSUME place = "parked"
          PROVE  OneOfEach'
        <3>1. Kind(e) = "url"
            BY <1>7, <2>3
        <3>2. \A d \in Elicits : d # e => \/ card'[d] = card[d] /\ card[d] # "parked"
                                          \/ card'[d] = "closed"
            BY <1>6, <1>10, <2>3, <3>1 DEF OneOfEach
        <3> QED BY <1>1, <1>10, <2>1, <2>3, <3>1, <3>2 DEF OneOfEach
    <2> QED BY <1>7, <2>2, <2>3
<1>12. PICK t : t = [d \in Elicits |-> IF d = e THEN "shown" ELSE IF d \in old THEN "over" ELSE st[d]]
    OBVIOUS
<1>13. /\ t \in [Elicits -> Stages] /\ t[e] = "shown"
       /\ \A d \in old : t[d] = "over"
       /\ \A d \in Elicits : d # e /\ d \notin old => t[d] = st[d]
    BY <1>1, <1>6, <1>8, <1>12 DEF Stages
<1>14. \A d \in Elicits : t[d] = st[d] \/ st[d] \in {"carded", "shown"}
    BY <1>2, <1>8, <1>13
<1>15. Single(inbox', "create", "asked", t)
    <2>1. Single(inbox, "create", "asked", t)
        BY <1>1, <1>14, PipeFacts, SingleMove
    <2> QED BY <1>1, <2>1
<1>16. \A i \in 1 .. Len(screen') : screen'[i].e \in Elicits
    BY <1>1, ScreenFacts
<1>17. Single(screen', "card", "carded", t)
    <2>1. \A d \in Elicits : t[d] = st[d] \/ st[d] # "carded" \/ ~Holds(screen', "card", d)
        BY <1>2, <1>8, <1>13
    <2> QED BY <1>1, <1>16, <2>1, SingleMove
<1>18. Single(screen', "raw", "rawed", t)
    BY <1>1, <1>14, <1>16, SingleMove
<1>19. Replied(replies, t, said')
    BY <1>1, <1>14, PipeFacts, RepliedMove
<1>20. /\ replies' \in Seq(Replies) /\ Replied(replies', t, said')
       /\ \A d \in Elicits : HasReply(replies, d) => HasReply(replies', d)
       /\ \A d \in old : HasReply(replies', d)
    <2>1. replies \in Seq(Replies)
        BY DEF TypeOK
    <2>2. CASE old = {}
        <3>1. replies' = replies
            BY <1>5, <2>1, <2>2
        <3> QED BY <1>19, <2>1, <2>2, <3>1
    <2>3. CASE old # {}
        <3>2. o \in old /\ o \in Elicits
            BY <1>5, <1>6, <2>3
        <3>1. OneReply(Cancels(o), o, Outcomes \ Approvals)
            BY <3>2, CancelRecord
        <3>3. PICK x \in Replies : Cancels(o) = <<x>> /\ x.e = o /\ x.raw = FALSE /\ x.outcome \in Outcomes \ Approvals
            BY <3>1, Zenon DEF OneReply
        <3>4. replies' = replies \o <<x>>
            BY <1>5, <2>3, <3>3, Zenon
        <3>5. replies' \in Seq(Replies)
            BY <2>1, <3>4, Pushed
        <3>6. \A d \in Elicits : HasReply(replies, d) => HasReply(replies', d)
            BY <2>1, <3>4, HasReplyPush
        <3>7. x.e = o /\ x.outcome \notin Approvals
            BY <3>3, Zenon
        <3>8. HasReply(replies', o)
            <4>1. HasReply(replies', x.e)
                BY <2>1, <3>3, <3>4, HasReplyLast, Zenon
            <4> QED BY <3>7, <4>1
        <3>9. t[x.e] = "over"
            BY <1>13, <3>2, <3>7
        <3>10. Replied(replies', t, said')
            <4>1. x.raw = FALSE => t[x.e] = "over" /\ (x.outcome \in Approvals => said'[x.e].what = "yes")
                BY <3>7, <3>9, Zenon
            <4>2. x.raw = TRUE => t[x.e] = "failing" /\ ~HasRaw(replies, x.e)
                BY <3>3, Zenon
            <4> QED BY <1>19, <2>1, <3>4, <4>1, <4>2, RepliedPush, Zenon
        <3>11. \A d \in old : d = o
            BY <1>9, <3>2
        <3> QED BY <3>5, <3>6, <3>8, <3>10, <3>11
    <2> QED BY <2>2, <2>3
<1>21. TypeOK'
    BY <1>1, <1>10, <1>20 DEF TypeOK
<1>22. ASSUME NEW d \in Elicits
       PROVE  StagedCard(t[d], d)' /\ StagedAnswer(t[d], d)'
    <2>1. StagedCard(st[d], d) /\ StagedAnswer(st[d], d)
        BY <1>1
    <2>2. CASE d = e
        <3>1. StagedCard(t[e], e)'
            BY <1>1, <1>2, <1>7, <1>10, <1>13 DEF StagedCard
        <3>2. StagedAnswer(t[e], e)'
            BY <1>1, <1>2, <1>13, <2>1, <2>2 DEF StagedAnswer
        <3> QED BY <2>2, <3>1, <3>2
    <2>3. CASE d \in old
        <3>1. st[d] = "shown" /\ t[d] = "over" /\ card'[d] = "closed" /\ HasReply(replies', d)
            BY <1>8, <1>10, <1>13, <1>20, <2>3
        <3>2. StagedCard(t[d], d)'
            BY <1>1, <2>1, <3>1 DEF StagedCard
        <3>3. StagedAnswer(t[d], d)'
            BY <1>1, <2>1, <3>1 DEF StagedAnswer
        <3> QED BY <3>2, <3>3
    <2>4. CASE d # e /\ d \notin old
        <3>1. /\ t[d] = st[d] /\ card'[d] = card[d] /\ Keeps(screen, screen', d)
              /\ (HasReply(replies, d) => HasReply(replies', d))
            BY <1>1, <1>10, <1>13, <1>20, <2>4
        <3>2. StagedCard(st[d], d)' /\ StagedAnswer(st[d], d)'
            BY <1>1, <2>1, <3>1, Untouched
        <3> QED BY <3>1, <3>2
    <2> QED BY <2>2, <2>3, <2>4
<1>23. Staged(t)'
    BY <1>13, <1>15, <1>17, <1>18, <1>20, <1>22 DEF Staged
<1> QED BY <1>11, <1>21, <1>23

LEMMA StepPagerReads ==
    ASSUME TypeOK, OneOfEach, NEW st, Staged(st), PagerReads
    PROVE  TypeOK' /\ OneOfEach' /\ \E t : Staged(t)'
<1>1. PICK e : e = screen[1].e
    OBVIOUS
<1>2. e \in Elicits /\ Head(screen) = screen[1]
    BY <1>1, ScreenTaken
<1>3. \/ screen[1].m = "card" /\ (ShowCard(e) \/ NoView(e))
      \/ screen[1].m = "gone" /\ Dismiss(e)
      \/ screen[1].m = "done" /\ Finish(e)
      \/ /\ screen[1].m = "raw"
         /\ replies' = Append(replies, [e |-> e, raw |-> TRUE, outcome |-> "error", response |-> NoResponse])
         /\ UNCHANGED card
    BY <1>1, <1>2, Zenon DEF PagerReads
<1>4. CASE screen[1].m = "card" /\ ShowCard(e)
    BY <1>1, <1>4, StepShowCard
<1>5. CASE screen[1].m = "card" /\ NoView(e)
    BY <1>1, <1>5, StepNoView
<1>6. CASE screen[1].m = "gone" /\ Dismiss(e)
    BY <1>1, <1>6, StepDismiss
<1>7. CASE screen[1].m = "done" /\ Finish(e)
    BY <1>1, <1>7, StepFinish
<1>8. CASE /\ screen[1].m = "raw" /\ UNCHANGED card
           /\ replies' = Append(replies, [e |-> e, raw |-> TRUE, outcome |-> "error", response |-> NoResponse])
    <2>1. PICK x : x = [e |-> e, raw |-> TRUE, outcome |-> "error", response |-> NoResponse]
        OBVIOUS
    <2>2. x \in Replies /\ x.e = e /\ x.raw = TRUE
        <3>1. PICK raw \in BOOLEAN : raw = TRUE
            BY Zenon
        <3>2. x = [e |-> e, raw |-> raw, outcome |-> "error", response |-> NoResponse]
            BY <2>1, <3>1, Zenon
        <3>3. "error" \in Outcomes /\ NoResponse \in Responses
            BY DEF Outcomes, Responses
        <3>4. x \in Replies /\ x.e = e /\ x.raw = raw
            BY <1>2, <3>2, <3>3, ReplyFacts
        <3> QED BY <3>1, <3>4, Zenon
    <2>3. replies' = Append(replies, x)
        BY <1>8, <2>1, Zenon
    <2>4. replies' = replies \o <<x>>
        BY <2>2, <2>3 DEF TypeOK
    <2> QED BY <1>1, <1>8, <2>2, <2>4, StepRaw
<1> QED BY <1>3, <1>4, <1>5, <1>6, <1>7, <1>8, Zenon

LEMMA StepHandleOmp ==
    ASSUME TypeOK, OneOfEach, NEW st, Staged(st), HandleOmp
    PROVE  TypeOK' /\ OneOfEach' /\ \E t : Staged(t)'
<1>1. PICK e : e = Head(inbox).e
    OBVIOUS
<1>2. (Head(inbox).m = "create" /\ HandleCreate(e)) \/ (Head(inbox).m = "complete" /\ HandleComplete(e))
    BY <1>1, Zenon DEF HandleOmp
<1> QED BY <1>1, <1>2, StepHandleCreate, StepHandleComplete, Zenon

-----------------------------------------------------------------------------
LEMMA Initially == Init => IInv
<1> SUFFICES ASSUME Init PROVE IInv
    OBVIOUS
<1>1. TypeOK
    BY DEF Init, TypeOK, Places, Sayings, Nothing
<1>2. OneOfEach
    BY DEF Init, OneOfEach
<1>3. PICK st : st = [e \in Elicits |-> "none"]
    OBVIOUS
<1>4. st \in [Elicits -> Stages] /\ \A e \in Elicits : st[e] = "none"
    BY <1>3 DEF Stages
<1>5. \A i : i \notin 1 .. Len(inbox) /\ i \notin 1 .. Len(screen) /\ i \notin 1 .. Len(replies)
    BY DEF Init
<1>6. /\ Single(inbox, "create", "asked", st)
      /\ Single(screen, "card", "carded", st)
      /\ Single(screen, "raw", "rawed", st)
      /\ Replied(replies, st, said)
    BY <1>5, Zenon DEF Single, Replied
<1>7. \A e \in Elicits : StagedCard(st[e], e) /\ StagedAnswer(st[e], e)
    BY <1>4 DEF Init, StagedCard, StagedAnswer, Nothing
<1>8. Staged(st)
    BY <1>4, <1>6, <1>7 DEF Staged
<1> QED BY <1>1, <1>2, <1>8 DEF IInv

LEMMA StepKeeps == IInv /\ [Next]_vars => IInv'
<1> SUFFICES ASSUME IInv, [Next]_vars PROVE IInv'
    OBVIOUS
<1>1. TypeOK /\ OneOfEach
    BY DEF IInv
<1>2. PICK st : Staged(st)
    BY DEF IInv
<1>3. CASE HandleOmp
    BY <1>1, <1>2, <1>3, StepHandleOmp DEF IInv
<1>4. CASE HandleReply
    BY <1>1, <1>2, <1>4, StepHandleReply DEF IInv
<1>5. CASE PagerReads
    BY <1>1, <1>2, <1>5, StepPagerReads DEF IInv
<1>6. ASSUME NEW e \in Elicits, NEW q \in Requests, Create(e, q) PROVE IInv'
    BY <1>1, <1>2, <1>6, StepCreate DEF IInv
<1>7. ASSUME NEW e \in Elicits, Complete(e) PROVE IInv'
    BY <1>1, <1>2, <1>7, StepComplete DEF IInv
<1>8. ASSUME NEW e \in Elicits, NEW o \in Refusals(e), Refuse(e, o) PROVE IInv'
    BY <1>1, <1>2, <1>8, StepRefuse DEF IInv
<1>9. ASSUME NEW e \in Elicits, Approve(e) PROVE IInv'
    BY <1>1, <1>2, <1>9, StepApprove DEF IInv
<1>10. ASSUME NEW e \in Elicits, NEW s \in Chosen(Form(e)), Submit(e, s) PROVE IInv'
    BY <1>1, <1>2, <1>10, StepSubmit DEF IInv
<1>11. ASSUME NEW e \in Elicits, CloseWaiting(e) PROVE IInv'
    BY <1>1, <1>2, <1>11, StepCloseWaiting DEF IInv
<1>12. CASE UNCHANGED vars
    <2>1. UNCHANGED <<req, inbox, bridged, ids, got, card, said, screen, replies>>
        BY <1>12 DEF vars, omp, adapter, pager
    <2>2. TypeOK'
        BY <1>1, <2>1 DEF TypeOK
    <2>3. OneOfEach'
        BY <1>1, <2>1 DEF OneOfEach, Kind
    <2>4. \A d \in Elicits : StagedCard(st[d], d)' /\ StagedAnswer(st[d], d)'
        BY <1>2, <2>1 DEF Staged, StagedCard, StagedAnswer
    <2>5. Staged(st)'
        BY <1>2, <2>1, <2>4 DEF Staged
    <2> QED BY <2>2, <2>3, <2>5 DEF IInv
<1> QED BY <1>3, <1>4, <1>5, <1>6, <1>7, <1>8, <1>9, <1>10, <1>11, <1>12, Zenon DEF Next, Chosen

\* In every reachable state each elicitation is in a stage that explains what
\* the pipes, the pager and the adapter hold of it.
THEOREM InvariantHolds == Spec => []IInv
<1>1. Init => IInv
    BY Initially
<1>2. IInv /\ [Next]_vars => IInv'
    BY StepKeeps
<1> QED BY <1>1, <1>2, PTL DEF Spec

\* OMP's request is answered at most once, however the user's answer, the
\* pager's slots and OMP's own withdrawal race (bridgedElicits).
THEOREM OneAnswerEach == Spec => []AnsweredOnce
<1>1. IInv => AnsweredOnce
    <2> SUFFICES ASSUME IInv, NEW e \in Elicits PROVE Len(got[e]) <= 1
        BY DEF AnsweredOnce
    <2>1. got[e] = <<>> \/ got[e] = <<got[e][1]>>
        BY DEF IInv, Staged, StagedAnswer
    <2>2. PICK a : got[e] = <<>> \/ got[e] = <<a>>
        BY <2>1
    <2>3. Len(<<>>) = 0 /\ Len(<<a>>) = 1
        OBVIOUS
    <2>4. Len(got[e]) = 0 \/ Len(got[e]) = 1
        BY <2>2, <2>3
    <2>5. 0 <= 1 /\ 1 <= 1
        OBVIOUS
    <2> QED BY <2>4, <2>5, Zenon
<1> QED BY <1>1, InvariantHolds, PTL

\* OMP is told accept only when the user accepted that very card ("never an
\* approval", adapter.mjs:4298).
THEOREM OnlyTheUserAccepts == Spec => []AcceptIsUsers
<1>1. IInv => AcceptIsUsers
    <2> SUFFICES ASSUME IInv, NEW e \in Elicits, NEW i \in DOMAIN got[e], got[e][i].action = "accept"
                 PROVE  said[e].what = "yes"
        BY DEF AcceptIsUsers
    <2>1. got[e] = <<>> \/ (got[e] = <<got[e][1]>> /\ (got[e][1].action = "accept" => said[e].what = "yes"))
        BY DEF IInv, Staged, StagedAnswer
    <2>2. PICK a : a = got[e][1]
        OBVIOUS
    <2>3. got[e] = <<>> \/ got[e] = <<a>>
        BY <2>1, <2>2
    <2>4. DOMAIN <<>> = {} /\ DOMAIN <<a>> = {1}
        OBVIOUS
    <2>5. i = 1 /\ got[e] # <<>>
        BY <2>3, <2>4, Zenon
    <2> QED BY <2>1, <2>5
<1> QED BY <1>1, InvariantHolds, PTL

\* Once the pipes are empty the cards that are shown are those OMP's requests
\* wait for ("so nothing keeps waiting on it", adapter.mjs:4973).
THEOREM ShownIsAwaited == Spec => []CardsAreAwaited
<1>1. IInv => CardsAreAwaited
    <2> SUFFICES ASSUME IInv, inbox = <<>>, screen = <<>>, replies = <<>>
                 PROVE  /\ {e \in Elicits : card[e] \in {"open", "parked"}} = bridged
                        /\ ids \subseteq bridged
        BY DEF CardsAreAwaited
    <2>1. bridged \subseteq Elicits /\ ids \subseteq bridged
        BY DEF IInv, TypeOK
    <2>2. PICK st : Staged(st)
        BY DEF IInv
    <2>3. \A i : i \notin 1 .. Len(screen) /\ i \notin 1 .. Len(replies)
        OBVIOUS
    <2>4. \A e : ~Holds(screen, "card", e) /\ ~Holds(screen, "gone", e) /\ ~HasReply(replies, e)
        BY <2>3, Zenon DEF Holds, HasReply
    <2>5. \A e \in Elicits : StagedCard(st[e], e) /\ StagedAnswer(st[e], e)
        BY <2>2 DEF Staged
    <2>6. \A e \in Elicits : card[e] \in {"open", "parked"} <=> e \in bridged
        BY <2>4, <2>5 DEF StagedCard, StagedAnswer
    <2> QED BY <2>1, <2>6
<1> QED BY <1>1, InvariantHolds, PTL

-----------------------------------------------------------------------------
(***************************************************************************)
(* Induction over the natural numbers, for sets of numbers.                *)
(***************************************************************************)
Below == {p \in Nat \X Nat : p[1] < p[2]}

LEMMA Smallest ==
    ASSUME NEW S \in SUBSET Nat, S # {}
    PROVE  \E n \in S : \A m \in S : n <= m
<1>1. IsWellFoundedOn(Below, Nat)
    BY NatLessThanWellFounded DEF OpToRel, Below
<1>2. \A x, y \in Nat : x < y => <<x, y>> \in Below
    BY DEF Below
<1>3. PICK x \in S : \A y \in S : ~(<<y, x>> \in Below)
    BY <1>1, WFMin
<1>4. \A m \in S : x \in Nat /\ m \in Nat /\ ~(m < x)
    BY <1>2, <1>3
<1>5. \A m \in S : x <= m
    BY <1>4
<1> QED BY <1>5

LEMMA Induction ==
    ASSUME NEW S \in SUBSET Nat, 0 \in S, \A n \in S : n + 1 \in S
    PROVE  S = Nat
<1> SUFFICES ASSUME Nat \ S # {} PROVE FALSE
    OBVIOUS
<1>1. PICK n \in Nat \ S : \A m \in Nat \ S : n <= m
    BY Smallest
<1>2. n # 0 /\ n - 1 \in Nat
    BY <1>1
<1>3. n - 1 \in S
    BY <1>1, <1>2
<1> QED BY <1>1, <1>3

-----------------------------------------------------------------------------
(***************************************************************************)
(* What is left of a sequence when only the members of S are kept.         *)
(***************************************************************************)
KeptBy(f, s, S, n) ==
    f = [k \in 0 .. n |->
            IF k = 0 THEN <<>>
            ELSE IF s[k] \in S THEN Append(f[k - 1], s[k]) ELSE f[k - 1]]

LEMMA KeptExists ==
    ASSUME NEW s, NEW S, NEW n \in Nat
    PROVE  \E f : KeptBy(f, s, S, n)
<1> DEFINE N == {i \in Nat : \E f : KeptBy(f, s, S, i)}
<1>1. 0 \in N
    <2> DEFINE f == [k \in 0 .. 0 |-> <<>>]
    <2>1. f = [k \in 0 .. 0 |->
                  IF k = 0 THEN <<>>
                  ELSE IF s[k] \in S THEN Append(f[k - 1], s[k]) ELSE f[k - 1]]
        OBVIOUS
    <2> QED BY <2>1 DEF KeptBy
<1>2. ASSUME NEW i \in N PROVE i + 1 \in N
    <2>1. PICK f : KeptBy(f, s, S, i)
        OBVIOUS
    <2> DEFINE Then(h, k) == IF s[k] \in S THEN Append(h[k - 1], s[k]) ELSE h[k - 1]
               g == [k \in 0 .. (i + 1) |-> IF k = 0 THEN <<>> ELSE Then(f, k)]
    <2>2. \A k \in 0 .. i : g[k] = f[k]
        <3>1. f = [k \in 0 .. i |-> IF k = 0 THEN <<>> ELSE Then(f, k)]
            BY <2>1 DEF KeptBy
        <3> HIDE DEF Then
        <3>2. \A k \in 0 .. i : f[k] = IF k = 0 THEN <<>> ELSE Then(f, k)
            BY <3>1, Zenon
        <3>3. \A k \in 0 .. i : k \in 0 .. (i + 1)
            OBVIOUS
        <3>4. \A k \in 0 .. (i + 1) : g[k] = IF k = 0 THEN <<>> ELSE Then(f, k)
            BY Zenon
        <3> QED BY <3>2, <3>3, <3>4, Zenon
    <2>3. \A k \in 0 .. (i + 1) : k # 0 => k - 1 \in 0 .. i
        OBVIOUS
    <2>4. \A k \in 0 .. (i + 1) : k # 0 => Then(f, k) = Then(g, k)
        <3> HIDE DEF g
        <3> QED BY <2>2, <2>3
    <2>5. g = [k \in 0 .. (i + 1) |-> IF k = 0 THEN <<>> ELSE Then(g, k)]
        <3> HIDE DEF Then
        <3> QED BY <2>4, Zenon
    <2>6. \E h : KeptBy(h, s, S, i + 1)
        BY <2>5 DEF KeptBy
    <2>7. i + 1 \in Nat
        OBVIOUS
    <2> QED BY <2>6, <2>7
<1> HIDE DEF N
<1>3. N = Nat
    <2>1. N \in SUBSET Nat
        BY DEF N
    <2> QED BY <1>1, <1>2, <2>1, Induction
<1> QED BY <1>3 DEF N

LEMMA OnlyIs ==
    ASSUME NEW s, NEW S, Len(s) \in Nat
    PROVE  \E f : KeptBy(f, s, S, Len(s)) /\ Only(s, S) = f[Len(s)]
<1>1. \E f : KeptBy(f, s, S, Len(s))
    BY KeptExists
<1>2. Only(s, S) = (CHOOSE f : KeptBy(f, s, S, Len(s)))[Len(s)]
    BY DEF Only, KeptBy
<1> QED BY <1>1, <1>2

Distinct(s) == \A i, j \in 1 .. Len(s) : s[i] = s[j] => i = j

Rising(s) == \A i, j \in 1 .. Len(s) : i < j => s[i].id < s[j].id

\* r holds those of the first k members of s that are in S.
Filtered(r, s, S, k) ==
    /\ \A j \in 1 .. Len(r) : r[j] \in S /\ \E i \in 1 .. k : s[i] = r[j]
    /\ \A i \in 1 .. k : s[i] \in S => \E j \in 1 .. Len(r) : r[j] = s[i]
    /\ Distinct(s) => Distinct(r)
    /\ Rising(s) => Rising(r)

LEMMA FilterStep ==
    ASSUME NEW T, NEW s \in Seq(T), NEW S, NEW k \in Nat, k + 1 <= Len(s),
           NEW r \in Seq(T), Filtered(r, s, S, k)
    PROVE  /\ s[k + 1] \in S => /\ Append(r, s[k + 1]) \in Seq(T)
                                /\ Filtered(Append(r, s[k + 1]), s, S, k + 1)
           /\ s[k + 1] \notin S => Filtered(r, s, S, k + 1)
<1>1. s[k + 1] \in T /\ Len(r) \in Nat /\ k + 1 \in 1 .. Len(s)
    OBVIOUS
<1>2. ASSUME s[k + 1] \in S
      PROVE  /\ Append(r, s[k + 1]) \in Seq(T)
             /\ Filtered(Append(r, s[k + 1]), s, S, k + 1)
    <2>1. PICK q : q = Append(r, s[k + 1])
        OBVIOUS
    <2>2. /\ q \in Seq(T) /\ Len(q) = Len(r) + 1
          /\ \A j \in 1 .. Len(r) : q[j] = r[j]
          /\ q[Len(r) + 1] = s[k + 1]
        BY <1>1, <2>1
    <2>3. \A j \in 1 .. Len(q) : j \in 1 .. Len(r) \/ j = Len(r) + 1
        BY <1>1, <2>2
    <2>4. \A i \in 1 .. k + 1 : i \in 1 .. k \/ i = k + 1
        OBVIOUS
    <2>5. \A j \in 1 .. Len(q) : q[j] \in S /\ \E i \in 1 .. k + 1 : s[i] = q[j]
        <3> SUFFICES ASSUME NEW j \in 1 .. Len(q)
                     PROVE  q[j] \in S /\ \E i \in 1 .. k + 1 : s[i] = q[j]
            OBVIOUS
        <3>1. CASE j \in 1 .. Len(r)
            <4>1. PICK i \in 1 .. k : s[i] = r[j]
                BY <3>1 DEF Filtered
            <4>2. i \in 1 .. k + 1
                OBVIOUS
            <4> QED BY <2>2, <3>1, <4>1, <4>2 DEF Filtered
        <3>2. CASE j = Len(r) + 1
            <4>1. k + 1 \in 1 .. k + 1
                OBVIOUS
            <4> QED BY <1>2, <2>2, <3>2, <4>1
        <3> QED BY <2>3, <3>1, <3>2
    <2>6. \A i \in 1 .. k + 1 : s[i] \in S => \E j \in 1 .. Len(q) : q[j] = s[i]
        <3> SUFFICES ASSUME NEW i \in 1 .. k + 1, s[i] \in S
                     PROVE  \E j \in 1 .. Len(q) : q[j] = s[i]
            OBVIOUS
        <3>1. CASE i \in 1 .. k
            <4>1. PICK j \in 1 .. Len(r) : r[j] = s[i]
                BY <3>1 DEF Filtered
            <4>2. j \in 1 .. Len(q) /\ q[j] = s[i]
                BY <1>1, <2>2, <4>1
            <4> QED BY <4>2
        <3>2. CASE i = k + 1
            <4>1. Len(r) + 1 \in 1 .. Len(q)
                BY <1>1, <2>2
            <4> QED BY <2>2, <3>2, <4>1
        <3> QED BY <2>4, <3>1, <3>2
    <2>7. ASSUME Distinct(s) PROVE Distinct(q)
        <3>1. Distinct(r)
            BY <2>7 DEF Filtered
        <3>2. \A j \in 1 .. Len(r) : q[j] # s[k + 1]
            <4> SUFFICES ASSUME NEW j \in 1 .. Len(r), q[j] = s[k + 1] PROVE FALSE
                OBVIOUS
            <4>1. PICK i \in 1 .. k : s[i] = r[j]
                BY DEF Filtered
            <4>2. i \in 1 .. Len(s) /\ i # k + 1
                BY <1>1
            <4> QED BY <1>1, <2>2, <2>7, <4>1, <4>2 DEF Distinct
        <3>3. ASSUME NEW i \in 1 .. Len(q), NEW j \in 1 .. Len(q), q[i] = q[j] PROVE i = j
            BY <2>2, <2>3, <3>1, <3>2, <3>3 DEF Distinct
        <3> QED BY <3>3 DEF Distinct
    <2>8. ASSUME Rising(s) PROVE Rising(q)
        <3>1. Rising(r)
            BY <2>8 DEF Filtered
        <3>2. \A j \in 1 .. Len(r) : q[j].id < s[k + 1].id
            <4> SUFFICES ASSUME NEW j \in 1 .. Len(r) PROVE q[j].id < s[k + 1].id
                OBVIOUS
            <4>1. PICK i \in 1 .. k : s[i] = r[j]
                BY DEF Filtered
            <4>2. i \in 1 .. Len(s) /\ i < k + 1
                BY <1>1
            <4> QED BY <1>1, <2>2, <2>8, <4>1, <4>2 DEF Rising
        <3>3. ASSUME NEW i \in 1 .. Len(q), NEW j \in 1 .. Len(q), i < j PROVE q[i].id < q[j].id
            <4>1. i \in 1 .. Len(r)
                BY <1>1, <2>2, <3>3
            <4>2. CASE j \in 1 .. Len(r)
                BY <2>2, <3>1, <3>3, <4>1, <4>2 DEF Rising
            <4>3. CASE j = Len(r) + 1
                BY <2>2, <3>2, <4>1, <4>3
            <4> QED BY <2>3, <4>2, <4>3
        <3> QED BY <3>3 DEF Rising
    <2> QED BY <2>1, <2>2, <2>5, <2>6, <2>7, <2>8 DEF Filtered
<1>3. ASSUME s[k + 1] \notin S PROVE Filtered(r, s, S, k + 1)
    <2>1. \A i \in 1 .. k : i \in 1 .. k + 1
        OBVIOUS
    <2>2. \A i \in 1 .. k + 1 : i \in 1 .. k \/ i = k + 1
        OBVIOUS
    <2> QED BY <1>3, <2>1, <2>2 DEF Filtered
<1> QED BY <1>2, <1>3

LEMMA OnlyHolds ==
    ASSUME NEW T, NEW s \in Seq(T), NEW S
    PROVE  Only(s, S) \in Seq(T) /\ Filtered(Only(s, S), s, S, Len(s))
<1>1. Len(s) \in Nat
    OBVIOUS
<1>2. PICK f : KeptBy(f, s, S, Len(s)) /\ Only(s, S) = f[Len(s)]
    BY <1>1, OnlyIs
<1> DEFINE N == {k \in Nat : k <= Len(s) => f[k] \in Seq(T) /\ Filtered(f[k], s, S, k)}
<1>3. 0 \in N
    <2>1. f[0] = <<>>
        BY <1>1, <1>2 DEF KeptBy
    <2>2. f[0] \in Seq(T) /\ Len(f[0]) = 0
        BY <2>1
    <2>3. Filtered(f[0], s, S, 0)
        BY <2>2 DEF Filtered, Distinct, Rising
    <2> QED BY <2>2, <2>3
<1>4. ASSUME NEW k \in N PROVE k + 1 \in N
    <2> SUFFICES ASSUME k + 1 <= Len(s)
                 PROVE  f[k + 1] \in Seq(T) /\ Filtered(f[k + 1], s, S, k + 1)
        OBVIOUS
    <2>1. k \in Nat /\ f[k] \in Seq(T) /\ Filtered(f[k], s, S, k)
        BY <1>1
    <2>2. f[k + 1] = IF s[k + 1] \in S THEN Append(f[k], s[k + 1]) ELSE f[k]
        <3>1. k + 1 \in 0 .. Len(s) /\ k + 1 # 0 /\ (k + 1) - 1 = k
            BY <1>1, <2>1
        <3>2. f[k + 1] = IF k + 1 = 0 THEN <<>>
                         ELSE IF s[k + 1] \in S THEN Append(f[(k + 1) - 1], s[k + 1]) ELSE f[(k + 1) - 1]
            BY <1>2, <3>1 DEF KeptBy
        <3> QED BY <3>1, <3>2
    <2> HIDE DEF N
    <2>3. CASE s[k + 1] \in S
        BY <2>1, <2>2, <2>3, FilterStep
    <2>4. CASE s[k + 1] \notin S
        BY <2>1, <2>2, <2>4, FilterStep
    <2> QED BY <2>3, <2>4
<1> HIDE DEF N
<1>5. N = Nat
    <2>1. N \in SUBSET Nat
        BY DEF N
    <2> QED BY <1>3, <1>4, <2>1, Induction
<1> QED BY <1>1, <1>2, <1>5 DEF N

-----------------------------------------------------------------------------
(***************************************************************************)
(* What becomes of the answers to a form.                                  *)
(***************************************************************************)
\* Answers the question card lets the user give.
Answers(form, s) == \A i \in Questions(form) : s[i] \in Selections(form.props[i])

LEMMA PlainProps ==
    ASSUME NEW form, WellFormed(form), NEW i \in Questions(form)
    PROVE  Plain(form.props[i]) /\ i \in Nat
<1>1. i \in Nat
    BY DEF WellFormed, Questions
<1> QED BY <1>1, Zenon DEF WellFormed

LEMMA OptionsAre ==
    ASSUME NEW p, Plain(p)
    PROVE  /\ Options(p) \in Seq(Values(Options(p))) /\ Distinct(Options(p))
           /\ "Other" \notin Values(Options(p))
           /\ p.choices # <<>> =>
                 /\ Len(Options(p)) = Len(p.choices)
                 /\ \A k \in 1 .. Len(p.choices) : Options(p)[k] = p.choices[k].label
           /\ p.choices = <<>> => Values(Options(p)) \subseteq {"Yes", "No"}
           /\ p.choices = <<>> /\ p.type # "boolean" => Values(Options(p)) = {}
<1>1. DOMAIN p.choices = 1 .. Len(p.choices) /\ Len(p.choices) \in Nat
    BY DEF Plain
<1>2. CASE p.choices # <<>>
    <2>1. PICK o : o = [i \in DOMAIN p.choices |-> p.choices[i].label]
        OBVIOUS
    <2>2. Options(p) = o
        BY <1>2, <2>1 DEF Options
    <2>3. /\ o \in Seq(Values(o)) /\ Len(o) = Len(p.choices) /\ DOMAIN o = 1 .. Len(p.choices)
          /\ \A k \in 1 .. Len(p.choices) : o[k] = p.choices[k].label
        <3>1. DOMAIN o = 1 .. Len(p.choices)
            BY <1>1, <2>1
        <3>2. o \in [1 .. Len(p.choices) -> Values(o)]
            BY <2>1, <3>1 DEF Values
        <3>3. o \in Seq(Values(o)) /\ Len(o) = Len(p.choices) /\ DOMAIN o = 1 .. Len(p.choices)
            BY <1>1, <3>2
        <3> QED BY <1>1, <2>1, <3>3
    <2>4. Distinct(o)
        BY <1>1, <2>3 DEF Distinct, Plain
    <2>5. "Other" \notin Values(o)
        BY <1>1, <2>3 DEF Values, Plain
    <2> QED BY <1>2, <2>2, <2>3, <2>4, <2>5
<1>3. CASE p.choices = <<>> /\ p.type = "boolean"
    <2>1. PICK o : o = <<"Yes", "No">>
        OBVIOUS
    <2>2. Options(p) = o
        BY <1>3, <2>1 DEF Options
    <2>3. o \in Seq(Values(o)) /\ Len(o) = 2 /\ o[1] = "Yes" /\ o[2] = "No" /\ DOMAIN o = 1 .. 2
        <3>1. Len(o) = 2 /\ o[1] = "Yes" /\ o[2] = "No" /\ DOMAIN o = 1 .. 2
            BY <2>1
        <3>2. "Yes" \in Values(o) /\ "No" \in Values(o)
            BY <3>1 DEF Values
        <3>3. o \in Seq(Values(o))
            BY <2>1, <3>2
        <3> QED BY <3>1, <3>3
    <2>4. Distinct(o)
        BY <2>3 DEF Distinct
    <2>5. Values(o) \subseteq {"Yes", "No"}
        BY <2>3 DEF Values
    <2> QED BY <1>3, <2>2, <2>3, <2>4, <2>5
<1>4. CASE p.choices = <<>> /\ p.type # "boolean"
    <2>1. Options(p) = <<>>
        BY <1>4 DEF Options
    <2>2. <<>> \in Seq(Values(<<>>)) /\ Len(<<>>) = 0 /\ DOMAIN <<>> = {}
        OBVIOUS
    <2>3. Distinct(<<>>) /\ Values(<<>>) = {}
        BY <2>2 DEF Distinct, Values
    <2> QED BY <1>4, <2>1, <2>2, <2>3
<1> QED BY <1>2, <1>3, <1>4

LEMMA LabelsAre ==
    ASSUME NEW p, Plain(p), NEW a, a.picked # {}, a.picked \subseteq Values(Options(p))
    PROVE  /\ Labels(p, a) \in Seq(Values(Options(p))) /\ Labels(p, a) # <<>>
           /\ Values(Labels(p, a)) = a.picked
           /\ \A l : a.picked = {l} => Labels(p, a) = <<l>>
<1>1. PICK o : o = Options(p)
    OBVIOUS
<1>2. PICK r : r = Labels(p, a)
    OBVIOUS
<1>3. r = Only(o, a.picked)
    BY <1>1, <1>2 DEF Labels
<1>4. o \in Seq(Values(o)) /\ Distinct(o) /\ a.picked \subseteq Values(o) /\ Len(o) \in Nat
    BY <1>1, OptionsAre
<1>5. r \in Seq(Values(o)) /\ Filtered(r, o, a.picked, Len(o)) /\ Len(r) \in Nat
    BY <1>3, <1>4, OnlyHolds
<1>6. Values(r) = a.picked
    <2>1. ASSUME NEW l \in a.picked PROVE l \in Values(r)
        <3>1. PICK i \in 1 .. Len(o) : o[i] = l
            BY <1>4 DEF Values
        <3>2. PICK j \in 1 .. Len(r) : r[j] = l
            BY <1>5, <3>1 DEF Filtered
        <3> QED BY <1>5, <3>2 DEF Values
    <2>2. ASSUME NEW l \in Values(r) PROVE l \in a.picked
        <3>1. PICK j \in 1 .. Len(r) : r[j] = l
            BY <1>5 DEF Values
        <3> QED BY <1>5, <3>1 DEF Filtered
    <2> QED BY <2>1, <2>2
<1>7. r # <<>>
    <2>1. Values(<<>>) = {}
        BY DEF Values
    <2> QED BY <1>6, <2>1
<1>8. ASSUME NEW l, a.picked = {l} PROVE r = <<l>>
    <2>1. Distinct(r)
        BY <1>4, <1>5 DEF Filtered
    <2>2. \A j \in 1 .. Len(r) : r[j] = l
        BY <1>5, <1>8 DEF Filtered
    <2>3. Len(r) = 1
        <3>1. Len(r) # 0
            BY <1>5, <1>7
        <3>2. ASSUME Len(r) > 1 PROVE FALSE
            <4>1. 1 \in 1 .. Len(r) /\ 2 \in 1 .. Len(r)
                BY <1>5, <3>2
            <4>2. r[1] = r[2] => 1 = 2
                BY <2>1, <4>1 DEF Distinct
            <4> QED BY <2>2, <4>1, <4>2
        <3>3. ~(Len(r) > 1)
            BY <3>2
        <3>4. \A n \in Nat : n = 0 \/ n > 1 \/ n = 1
            OBVIOUS
        <3> QED BY <1>5, <3>1, <3>3, <3>4, Zenon
    <2> QED BY <1>5, <2>2, <2>3
<1> QED BY <1>1, <1>2, <1>5, <1>6, <1>7, <1>8

LEMMA LastOne ==
    ASSUME NEW i \in Nat
    PROVE  Last({i}) = i
BY DEF Last

\* A question's text leads to its answer and to no other.
LEMMA ResponseAt ==
    ASSUME NEW form, WellFormed(form), NEW s, NEW i \in Questions(form)
    PROVE  /\ TextOf(form, i) = Question(form, i)
           /\ Question(form, i) \in DOMAIN Response(form, s)
           /\ ~Answered(s[i]) => Response(form, s)[Question(form, i)] = [labels |-> <<>>, notes |-> ""]
           /\ Answered(s[i]) => Response(form, s)[Question(form, i)] =
                 [labels |-> Labels(form.props[i], s[i]), notes |-> s[i].typed]
<1>1. i \in Nat /\ Last({i}) = i
    BY PlainProps, LastOne
<1>2. \A j \in Questions(form) : Question(form, j) = Question(form, i) => j = i
    BY DEF WellFormed
<1>3. TextOf(form, i) = Question(form, i)
    <2>1. \A j \in Questions(form) : j > i => j # i
        BY <1>1
    <2> QED BY <1>2, <2>1 DEF TextOf
<1> DEFINE asking(t) == {j \in Questions(form) : Question(form, j) = t}
           answered(t) == {j \in asking(t) : Answered(s[j])}
           noted(t) == {j \in asking(t) : s[j].typed # ""}
           labels(t) == IF answered(t) = {} THEN <<>>
                        ELSE Labels(form.props[Last(answered(t))], s[Last(answered(t))])
           notes(t) == IF noted(t) = {} THEN "" ELSE s[Last(noted(t))].typed
           texts == {Question(form, j) : j \in Questions(form)}
<1>4. Response(form, s) = [t \in texts |-> [labels |-> labels(t), notes |-> notes(t)]]
    BY DEF Response
<1>5. PICK t : t = Question(form, i)
    OBVIOUS
<1>6. asking(t) = {i}
    BY <1>2, <1>5
<1>7. answered(t) = (IF Answered(s[i]) THEN {i} ELSE {})
    BY <1>6
<1>8. noted(t) = (IF s[i].typed # "" THEN {i} ELSE {})
    BY <1>6
<1>9. labels(t) = IF Answered(s[i]) THEN Labels(form.props[i], s[i]) ELSE <<>>
    BY <1>1, <1>7
<1>10. notes(t) = s[i].typed
    BY <1>1, <1>8
<1>11. t \in texts
    BY <1>5
<1> HIDE DEF asking, answered, noted, labels, notes, texts
<1>12. t \in DOMAIN Response(form, s) /\ Response(form, s)[t] = [labels |-> labels(t), notes |-> notes(t)]
    BY <1>4, <1>11
<1>13. ~Answered(s[i]) => s[i].typed = ""
    BY DEF Answered
<1> QED BY <1>3, <1>5, <1>9, <1>10, <1>12, <1>13

\* A label comes back as the constant of its choice.
LEMMA ConstantOf ==
    ASSUME NEW form, WellFormed(form), NEW i \in Questions(form),
           NEW k \in DOMAIN form.props[i].choices
    PROVE  toConst(form, Question(form, i), form.props[i].choices[k].label) = form.props[i].choices[k].const
<1>1. PICK p : p = form.props[i]
    OBVIOUS
<1>2. PICK v : v = p.choices[k].label
    OBVIOUS
<1>3. Plain(p) /\ i \in Nat /\ Last({i}) = i
    BY <1>1, PlainProps, LastOne
<1>4. k \in Nat /\ Last({k}) = k
    <2>1. k \in Nat
        BY <1>1, <1>3 DEF Plain
    <2> QED BY <2>1, LastOne
<1>5. \A j \in Questions(form) : Question(form, j) = Question(form, i) => j = i
    BY DEF WellFormed
<1> DEFINE with == {j \in Questions(form) : Question(form, j) = Question(form, i) /\ Renamed(form.props[j]) # {}}
           hits == {l \in Renamed(p) : p.choices[l].label = v}
<1>6. CASE k \in Renamed(p)
    <2>1. with = {i}
        BY <1>1, <1>5, <1>6
    <2>2. hits = {k}
        BY <1>1, <1>2, <1>3, <1>6 DEF Plain, Renamed
    <2>3. form.props[Last(with)] = p
        BY <1>1, <1>3, <2>1
    <2>4. toConst(form, Question(form, i), v) = p.choices[Last(hits)].const
        BY <2>1, <2>2, <2>3 DEF toConst
    <2> QED BY <1>1, <1>2, <1>4, <2>2, <2>4
<1>7. CASE k \notin Renamed(p)
    <2>1. v = p.choices[k].const
        BY <1>1, <1>2, <1>7 DEF Renamed
    <2>2. hits = {}
        BY <1>1, <1>2, <1>3, <1>7 DEF Plain, Renamed
    <2>3. with = {} \/ with = {i}
        BY <1>5
    <2>4. toConst(form, Question(form, i), v) = v
        <3>1. CASE with = {}
            BY <3>1 DEF toConst
        <3>2. CASE with = {i}
            <4>1. form.props[Last(with)] = p
                BY <1>1, <1>3, <3>2
            <4> QED BY <2>2, <3>2, <4>1 DEF toConst
        <3> QED BY <2>3, <3>1, <3>2
    <2> QED BY <1>1, <1>2, <2>1, <2>4
<1> QED BY <1>6, <1>7

LEMMA ConstantsOf ==
    ASSUME NEW form, WellFormed(form), NEW i \in Questions(form), form.props[i].choices # <<>>,
           NEW P, P \subseteq Values(Options(form.props[i]))
    PROVE  {toConst(form, Question(form, i), v) : v \in P} = Constants(form.props[i], P)
<1>1. PICK p : p = form.props[i]
    OBVIOUS
<1>2. Plain(p)
    BY <1>1, PlainProps
<1>3. /\ DOMAIN p.choices = 1 .. Len(p.choices) /\ Len(p.choices) \in Nat
      /\ DOMAIN Options(p) = 1 .. Len(p.choices)
      /\ \A k \in 1 .. Len(p.choices) : Options(p)[k] = p.choices[k].label
    <2>1. DOMAIN p.choices = 1 .. Len(p.choices) /\ Len(p.choices) \in Nat
        BY <1>2 DEF Plain
    <2> QED BY <1>1, <1>2, <2>1, OptionsAre
<1>4. \A k \in DOMAIN p.choices : toConst(form, Question(form, i), p.choices[k].label) = p.choices[k].const
    BY <1>1, ConstantOf
<1>5. ASSUME NEW v \in P
      PROVE  \E k \in DOMAIN p.choices : p.choices[k].label = v
    BY <1>1, <1>3 DEF Values
<1>6. Constants(p, P) = {p.choices[k].const : k \in {k \in DOMAIN p.choices : p.choices[k].label \in P}}
    BY <1>1 DEF Constants
<1>7. ASSUME NEW v \in P PROVE toConst(form, Question(form, i), v) \in Constants(p, P)
    BY <1>4, <1>5, <1>6
<1>8. ASSUME NEW x \in Constants(p, P) PROVE \E v \in P : toConst(form, Question(form, i), v) = x
    BY <1>4, <1>6
<1> QED BY <1>1, <1>7, <1>8

LEMMA SelectionIs ==
    ASSUME NEW p, NEW a \in Selections(p)
    PROVE  /\ a.picked \subseteq Values(Options(p))
           /\ a.typed \in TypedTexts \cup {""}
           /\ p.type # "array" /\ a.picked # {} => a.typed = "" /\ \E l : a.picked = {l}
<1>1. CASE p.type = "array"
    BY <1>1 DEF Selections
<1>2. CASE p.type # "array"
    BY <1>2 DEF Selections
<1> QED BY <1>1, <1>2

LEMMA NoLabels == Values(<<>>) = {} /\ FirstOf(<<>>) = ""
BY DEF Values, FirstOf

LEMMA OneLabel ==
    ASSUME NEW l
    PROVE  /\ Values(<<l>>) = {l} /\ FirstOf(<<l>>) = l
           /\ <<l>> # <<>> /\ Len(<<l>>) = 1
BY DEF Values, FirstOf

\* The entries of a property, by its type.
EntriesOf(form, i, r) ==
    LET p == form.props[i]
        t == Question(form, i)
    IN  CASE p.type = "array" -> ArrayEntries(form, p, t, r)
          [] p.type = "boolean" -> BooleanEntries(p, r)
          [] p.type = "number" -> NumberEntries(p, r)
          [] OTHER -> TextEntries(form, p, t, r)

LEMMA EntriesAre ==
    ASSUME NEW form, WellFormed(form), NEW s, NEW i \in Questions(form)
    PROVE  Entries(form, Response(form, s), i) =
               EntriesOf(form, i, Response(form, s)[Question(form, i)])
BY ResponseAt DEF Entries, EntriesOf

LEMMA AnsweredEntries ==
    ASSUME NEW form, WellFormed(form), NEW s, NEW i \in Questions(form), Answered(s[i])
    PROVE  Entries(form, Response(form, s), i) =
               EntriesOf(form, i, [labels |-> Labels(form.props[i], s[i]), notes |-> s[i].typed])
<1>1. Response(form, s)[Question(form, i)] =
          [labels |-> Labels(form.props[i], s[i]), notes |-> s[i].typed]
    BY ResponseAt
<1> QED BY <1>1, EntriesAre

\* Entries have the key of their property.
LEMMA KeyOf ==
    ASSUME NEW form, NEW response, NEW i, NEW x \in Entries(form, response, i)
    PROVE  x.key = form.props[i].key
<1> DEFINE p == form.props[i]
           t == TextOf(form, i)
           r == IF t \in DOMAIN response THEN response[t] ELSE [labels |-> <<>>, notes |-> ""]
<1>1. \/ x \in ArrayEntries(form, p, t, r) \/ x \in BooleanEntries(p, r)
      \/ x \in NumberEntries(p, r) \/ x \in TextEntries(form, p, t, r)
    BY DEF Entries
<1> HIDE DEF p, t, r
<1>2. \A other, list, vals : Entry(p, other, list, vals).key = p.key
    BY DEF Entry
<1>3. CASE x \in ArrayEntries(form, p, t, r)
    <2>1. \E other, list, vals : x = Entry(p, other, list, vals)
        BY <1>3 DEF ArrayEntries
    <2> QED BY <1>2, <2>1 DEF p
<1>4. CASE x \in BooleanEntries(p, r)
    <2>1. \E other, list, vals : x = Entry(p, other, list, vals)
        BY <1>4 DEF BooleanEntries
    <2> QED BY <1>2, <2>1 DEF p
<1>5. CASE x \in NumberEntries(p, r)
    <2>1. \E other, list, vals : x = Entry(p, other, list, vals)
        BY <1>5 DEF NumberEntries
    <2> QED BY <1>2, <2>1 DEF p
<1>6. CASE x \in TextEntries(form, p, t, r)
    <2>1. \E other, list, vals : x = Entry(p, other, list, vals)
        BY <1>6 DEF TextEntries
    <2> QED BY <1>2, <2>1 DEF p
<1> QED BY <1>1, <1>3, <1>4, <1>5, <1>6

\* Nothing comes back for a property that was not answered.
LEMMA UnansweredIsAbsent ==
    ASSUME NEW form, WellFormed(form), NEW s, NEW i \in Questions(form), ~Answered(s[i])
    PROVE  Entries(form, Response(form, s), i) = {}
<1>1. PICK r : r = [labels |-> <<>>, notes |-> ""]
    OBVIOUS
<1>2. Entries(form, Response(form, s), i) = EntriesOf(form, i, r)
    <2>1. Response(form, s)[Question(form, i)] = r
        BY <1>1, ResponseAt
    <2> QED BY <2>1, EntriesAre
<1>3. r.labels = <<>> /\ r.notes = ""
    BY <1>1
<1>4. PICK p, t : p = form.props[i] /\ t = Question(form, i)
    OBVIOUS
<1>5. ArrayEntries(form, p, t, r) = {}
    BY <1>3 DEF ArrayEntries
<1>6. BooleanEntries(p, r) = {}
    BY <1>3 DEF BooleanEntries
<1>7. NumberEntries(p, r) = {}
    BY <1>3, NoLabels DEF NumberEntries
<1>8. TextEntries(form, p, t, r) = {}
    <2>1. FirstOf(r.labels) # "Other" /\ ~(Len(r.labels) > 1)
        <3>1. "" # "Other" /\ ~(Len(<<>>) > 1)
            OBVIOUS
        <3> QED BY <1>3, <3>1, NoLabels, Zenon
    <2> QED BY <1>3, <2>1 DEF TextEntries
<1> QED BY <1>2, <1>4, <1>5, <1>6, <1>7, <1>8 DEF EntriesOf

\* The options that were picked come back as constants.
LEMMA PicksComeBack ==
    ASSUME NEW form, WellFormed(form), NEW s, NEW i \in Questions(form),
           s[i] \in Selections(form.props[i]), s[i].picked # {}
    PROVE  Entry(form.props[i], FALSE, form.props[i].type = "array",
                 Constants(form.props[i], s[i].picked)) \in Entries(form, Response(form, s), i)
<1>1. PICK p, t, a : p = form.props[i] /\ t = Question(form, i) /\ a = s[i]
    OBVIOUS
<1>2. /\ a.picked \subseteq Values(Options(p)) /\ a.picked # {} /\ Answered(a)
      /\ p.type # "array" => a.typed = "" /\ \E l : a.picked = {l}
    BY <1>1, SelectionIs DEF Answered
<1>3. Plain(p)
    BY <1>1, PlainProps
<1>4. PICK L : L = Labels(p, a)
    OBVIOUS
<1>5. L # <<>> /\ Values(L) = a.picked /\ \A l : a.picked = {l} => L = <<l>>
    BY <1>2, <1>3, <1>4, LabelsAre
<1>6. PICK r : r = [labels |-> L, notes |-> a.typed]
    OBVIOUS
<1>7. r.labels = L /\ r.notes = a.typed
    BY <1>6
<1>8. Entries(form, Response(form, s), i) = EntriesOf(form, i, r)
    <2>1. Answered(s[i]) /\ r = [labels |-> Labels(form.props[i], s[i]), notes |-> s[i].typed]
        BY <1>1, <1>2, <1>4, <1>6, Zenon
    <2> QED BY <2>1, AnsweredEntries, Zenon
<1>9. "Other" \notin a.picked
    BY <1>2, <1>3, OptionsAre
<1>10. p.choices # <<>> => {toConst(form, t, v) : v \in a.picked} = Constants(p, a.picked)
    <2>1. s[i].picked \subseteq Values(Options(form.props[i]))
        BY <1>1, <1>2
    <2>2. form.props[i].choices # <<>> =>
              {toConst(form, Question(form, i), v) : v \in s[i].picked} = Constants(form.props[i], s[i].picked)
        BY <2>1, ConstantsOf
    <2> QED BY <1>1, <2>2, Zenon
<1>11. p.choices = <<>> => p.type = "boolean"
    <2>1. p.choices = <<>> /\ p.type # "boolean" => Values(Options(p)) = {}
        BY <1>3, OptionsAre
    <2> QED BY <1>2, <2>1
<1>12. CASE p.type = "array"
    <2>1. p.choices # <<>>
        BY <1>11, <1>12
    <2>2. Entry(p, FALSE, TRUE, {toConst(form, t, v) : v \in Values(L)}) \in ArrayEntries(form, p, t, r)
        BY <1>5, <1>7, <1>9 DEF ArrayEntries
    <2>3. Entry(p, FALSE, TRUE, Constants(p, a.picked)) \in ArrayEntries(form, p, t, r)
        BY <1>5, <1>10, <2>1, <2>2
    <2>4. (p.type = "array") = TRUE
        BY <1>12
    <2> QED BY <1>1, <1>8, <1>12, <2>3, <2>4 DEF EntriesOf
<1>13. CASE p.type # "array"
    <2>1. PICK l : a.picked = {l}
        BY <1>2, <1>13
    <2>2. L = <<l>> /\ FirstOf(L) = l /\ Len(L) = 1 /\ L # <<>>
        BY <1>5, <2>1, OneLabel
    <2>3. (p.type = "array") = FALSE
        BY <1>13
    <2>4. CASE p.type = "boolean"
        <3>1. p.choices = <<>>
            BY <1>3, <2>4 DEF Plain
        <3>2. l \in {"Yes", "No"}
            BY <1>2, <1>3, <2>1, <3>1, OptionsAre
        <3>3. Constants(p, a.picked) = {IF l = "Yes" THEN "true" ELSE "false"}
            BY <2>1, <3>1 DEF Constants
        <3>4. BooleanEntries(p, r) = {Entry(p, FALSE, FALSE, Constants(p, a.picked))}
            BY <1>7, <2>2, <3>2, <3>3 DEF BooleanEntries
        <3> QED BY <1>1, <1>8, <2>3, <2>4, <3>4 DEF EntriesOf
    <2>5. CASE p.type # "boolean"
        <3>1. p.choices # <<>> /\ p.type # "number"
            BY <1>3, <1>11, <2>5 DEF Plain
        <3>2. TextEntries(form, p, t, r) = {Entry(p, FALSE, FALSE, {toConst(form, t, l)})}
            <4>1. r.labels # <<>> /\ r.notes = "" /\ ~(Len(r.labels) > 1) /\ FirstOf(r.labels) = l
                <5>1. ~(1 > 1)
                    OBVIOUS
                <5> QED BY <1>2, <1>7, <1>13, <2>2, <5>1, Zenon
            <4> QED BY <4>1 DEF TextEntries
        <3>3. {toConst(form, t, l)} = Constants(p, a.picked)
            BY <1>10, <2>1, <3>1
        <3> QED BY <1>1, <1>8, <1>13, <2>3, <2>5, <3>1, <3>2, <3>3 DEF EntriesOf
    <2> QED BY <2>4, <2>5
<1> QED BY <1>12, <1>13

\* A text typed in place of an option comes back where its property takes one.
LEMMA TextComesBack ==
    ASSUME NEW form, WellFormed(form), NEW s, NEW i \in Questions(form),
           s[i] \in Selections(form.props[i]), s[i].picked = {}, s[i].typed # "",
           TakesText(form.props[i], s[i].typed)
    PROVE  Entry(form.props[i], form.props[i].other, FALSE, {s[i].typed})
               \in Entries(form, Response(form, s), i)
<1>1. PICK p, t, a : p = form.props[i] /\ t = Question(form, i) /\ a = s[i]
    OBVIOUS
<1>2. Answered(a) /\ Labels(p, a) = <<"Other">>
    BY <1>1 DEF Answered, Labels
<1>3. Plain(p)
    BY <1>1, PlainProps
<1>4. PICK r : r = [labels |-> <<"Other">>, notes |-> a.typed]
    OBVIOUS
<1>5. r.labels = <<"Other">> /\ r.notes = a.typed /\ a.typed # ""
    BY <1>1, <1>4
<1>6. Entries(form, Response(form, s), i) = EntriesOf(form, i, r)
    <2>1. Answered(s[i]) /\ r = [labels |-> Labels(form.props[i], s[i]), notes |-> s[i].typed]
        BY <1>1, <1>2, <1>4, Zenon
    <2> QED BY <2>1, AnsweredEntries, Zenon
<1>7. Values(<<"Other">>) = {"Other"} /\ FirstOf(<<"Other">>) = "Other" /\ <<"Other">> # <<>>
    BY OneLabel
<1>8. p.other \/ (p.choices = <<>> /\ (p.type = "string" \/ (p.type = "number" /\ a.typed \in Numerals)))
    BY <1>1 DEF TakesText
<1>9. CASE p.type = "array"
    <2>1. p.other = TRUE
        BY <1>3, <1>8, <1>9 DEF Plain
    <2>2. Entry(p, TRUE, FALSE, {a.typed}) \in ArrayEntries(form, p, t, r)
        BY <1>5, <1>7, <2>1 DEF ArrayEntries
    <2> QED BY <1>1, <1>6, <1>9, <2>1, <2>2 DEF EntriesOf
<1>10. CASE p.type = "boolean"
    BY <1>3, <1>8, <1>10 DEF Plain
<1>11. CASE p.type = "number"
    <2>1. p.other = FALSE /\ a.typed \in Numerals
        BY <1>3, <1>8, <1>11 DEF Plain
    <2>2. NumberEntries(p, r) = {Entry(p, FALSE, FALSE, {a.typed})}
        BY <1>5, <1>7, <2>1 DEF NumberEntries
    <2> QED BY <1>1, <1>6, <1>11, <2>1, <2>2 DEF EntriesOf
<1>12. CASE p.type \notin {"array", "boolean", "number"}
    <2>1. TextEntries(form, p, t, r) = {Entry(p, p.other, FALSE, {a.typed})}
        BY <1>5, <1>7 DEF TextEntries
    <2> QED BY <1>1, <1>6, <1>12, <2>1 DEF EntriesOf
<1> QED BY <1>9, <1>10, <1>11, <1>12

-----------------------------------------------------------------------------
(***************************************************************************)
(* What the user said comes back.  A reply that accepts a form carries the *)
(* user's answers, and so does the answer OMP was sent for it.             *)
(***************************************************************************)
Honest(r, req1, said1) ==
    LET form == req1[r.e].form
        s == said1[r.e].answers
    IN  Answers(form, s) /\ r.response = Response(form, s)

HonestAnswer(e) ==
    Accepted(e) => /\ Answers(Form(e), said[e].answers)
                   /\ got[e][1].content = Content(Form(e), Response(Form(e), said[e].answers))

Faithful ==
    /\ \A i \in 1 .. Len(replies) :
          replies[i].outcome = "accepted" => Honest(replies[i], req, said)
    /\ \A e \in Elicits : HonestAnswer(e)

\* An elicitation that was answered is neither shown nor asked again.
LEMMA AnsweredStays ==
    ASSUME TypeOK, NEW st, Staged(st), NEW e \in Elicits,
           \/ \E i \in 1 .. Len(replies) : replies[i].e = e
           \/ Accepted(e)
    PROVE  card[e] # "open" /\ req[e] # NoRequest
<1>1. StagedCard(st[e], e) /\ StagedAnswer(st[e], e) /\ Replied(replies, st, said)
    BY DEF Staged
<1>2. CASE \E i \in 1 .. Len(replies) : replies[i].e = e
    <2>1. PICK i \in 1 .. Len(replies) : replies[i].e = e
        BY <1>2
    <2>2. replies[i].raw \in BOOLEAN
        <3>1. replies \in Seq(Replies)
            BY DEF TypeOK
        <3>2. replies[i] \in Replies
            BY <3>1
        <3> QED BY <3>2 DEF Replies
    <2>3. HasRaw(replies, e) \/ HasReply(replies, e)
        BY <2>1, <2>2, Zenon DEF HasRaw, HasReply
    <2>4. st[e] \in {"over", "failing"}
        BY <1>1, <2>3, RepliedStage
    <2> QED BY <1>1, <2>4 DEF StagedCard
<1>3. CASE Accepted(e)
    <2>1. said[e].what = "yes"
        BY <1>1, <1>3 DEF StagedAnswer, Accepted
    <2> QED BY <1>1, <2>1 DEF StagedCard
<1> QED BY <1>2, <1>3

\* Where the user's words and the request stay as they are for what was answered,
\* it is enough to look at the new replies and the new answers.
LEMMA StaysFaithful ==
    ASSUME TypeOK, NEW st, Staged(st), Faithful,
           \A e \in Elicits : (req'[e] = req[e] /\ said'[e] = said[e]) \/ card[e] = "open" \/ req[e] = NoRequest,
           \A i \in 1 .. Len(replies') :
               \/ \E j \in 1 .. Len(replies) : replies'[i] = replies[j]
               \/ replies'[i].outcome # "accepted"
               \/ Honest(replies'[i], req', said'),
           \A e \in Elicits : got'[e] = got[e] \/ HonestAnswer(e)'
    PROVE  Faithful'
<1>1. ASSUME NEW i \in 1 .. Len(replies'), replies'[i].outcome = "accepted"
      PROVE  Honest(replies'[i], req', said')
    <2>1. CASE \E j \in 1 .. Len(replies) : replies'[i] = replies[j]
        <3>1. PICK j \in 1 .. Len(replies) : replies'[i] = replies[j]
            BY <2>1
        <3>2. PICK e : e = replies[j].e
            OBVIOUS
        <3>3. e \in Elicits
            BY <3>2, PipeFacts
        <3>4. card[e] # "open" /\ req[e] # NoRequest
            BY <3>2, <3>3, AnsweredStays
        <3>5. req'[e] = req[e] /\ said'[e] = said[e]
            BY <3>3, <3>4
        <3>6. Honest(replies[j], req, said)
            BY <1>1, <3>1 DEF Faithful
        <3>7. Honest(replies[j], req', said')
            BY <3>2, <3>5, <3>6, Zenon DEF Honest
        <3> QED BY <3>1, <3>7
    <2> QED BY <1>1, <2>1
<1>2. ASSUME NEW e \in Elicits, got'[e] = got[e] PROVE HonestAnswer(e)'
    <2> SUFFICES ASSUME Accepted(e)'
                 PROVE  /\ Answers(Form(e), said[e].answers)'
                        /\ (got[e][1].content = Content(Form(e), Response(Form(e), said[e].answers)))'
        BY DEF HonestAnswer
    <2>1. got[e] # <<>> /\ got[e][1].action = "accept"
        BY <1>2 DEF Accepted
    <2>2. StagedCard(st[e], e) /\ StagedAnswer(st[e], e)
        BY DEF Staged
    <2>3. said[e].what = "yes"
        BY <2>1, <2>2 DEF StagedAnswer
    <2>4. card[e] # "open" /\ req[e] # NoRequest
        BY <2>2, <2>3 DEF StagedCard
    <2>5. req'[e] = req[e] /\ said'[e] = said[e]
        BY <2>4
    <2>6. Accepted(e)
        BY <1>2, <2>5 DEF Accepted, Kind
    <2>7. HonestAnswer(e)
        BY DEF Faithful
    <2>8. UNCHANGED <<Form(e), said[e], got[e]>>
        BY <1>2, <2>5 DEF Form
    <2> QED BY <2>6, <2>7, <2>8 DEF HonestAnswer
<1> QED BY <1>1, <1>2 DEF Faithful

LEMMA RepliesPushed ==
    ASSUME TypeOK, NEW x \in Replies, replies' = replies \o <<x>>,
           x.outcome # "accepted" \/ Honest(x, req', said')
    PROVE  \A i \in 1 .. Len(replies') :
               \/ \E j \in 1 .. Len(replies) : replies'[i] = replies[j]
               \/ replies'[i].outcome # "accepted"
               \/ Honest(replies'[i], req', said')
<1>1. replies \in Seq(Replies)
    BY DEF TypeOK
<1>2. /\ replies'[Len(replies')] = x
      /\ \A i \in 1 .. Len(replies) : replies'[i] = replies[i]
      /\ \A i \in 1 .. Len(replies') : i \in 1 .. Len(replies) \/ i = Len(replies')
    BY <1>1, Pushed
<1> QED BY <1>2, Zenon

LEMMA RepliesTaken ==
    ASSUME TypeOK, replies # <<>>, replies' = Tail(replies)
    PROVE  \A i \in 1 .. Len(replies') : \E j \in 1 .. Len(replies) : replies'[i] = replies[j]
<1>1. replies \in Seq(Replies)
    BY DEF TypeOK
<1> QED BY <1>1, Popped

\* A refusal, a cancel and an error say nothing of answers.
LEMMA OtherReply ==
    ASSUME TypeOK, NEW e, NEW q, OneReply(q, e, Outcomes \ Approvals), replies' = replies \o q
    PROVE  \A i \in 1 .. Len(replies') :
               \/ \E j \in 1 .. Len(replies) : replies'[i] = replies[j]
               \/ replies'[i].outcome # "accepted"
               \/ Honest(replies'[i], req', said')
<1>1. PICK x \in Replies : q = <<x>> /\ x.outcome \in Outcomes \ Approvals
    BY Zenon DEF OneReply
<1>2. x.outcome # "accepted"
    BY <1>1 DEF Approvals
<1>3. replies' = replies \o <<x>>
    BY <1>1, Zenon
<1> QED BY <1>2, <1>3, RepliesPushed

-----------------------------------------------------------------------------
LEMMA ReplyIsHonest ==
    ASSUME TypeOK, OneOfEach, NEW st, Staged(st), Faithful, HandleReply
    PROVE  Faithful'
<1>1. PICK e : e = replies[1].e
    OBVIOUS
<1>2. /\ e \in Elicits /\ replies \in Seq(Replies) /\ replies # <<>> /\ replies' = Tail(replies)
      /\ Head(replies) = replies[1] /\ replies[1] \in Replies
      /\ UNCHANGED <<req, card, said>>
      /\ StagedAnswer(st[e], e) /\ Replied(replies, st, said)
    BY <1>1, ReplyTaken
<1>3. \A i \in 1 .. Len(replies') : \E j \in 1 .. Len(replies) : replies'[i] = replies[j]
    BY <1>2, RepliesTaken
<1>4. replies[1].raw \in BOOLEAN /\ 1 \in 1 .. Len(replies)
    <2>1. replies[1].raw \in BOOLEAN
        BY <1>2 DEF Replies
    <2>2. 1 \in 1 .. Len(replies)
        BY <1>2, Popped
    <2> QED BY <2>1, <2>2
<1>5. CASE replies[1].raw = TRUE
    <2>1. PICK a : a = Answer("unsupported", {})
        OBVIOUS
    <2>2. a.action # "accept"
        BY <2>1 DEF Answer
    <2>3. got' = [got EXCEPT ![e] = Append(@, a)]
        BY <1>1, <1>2, <1>5, <2>1, Zenon DEF HandleReply
    <2>4. st[e] = "failing"
        BY <1>1, <1>2, <1>5, RepliedPop, Zenon
    <2>5. got[e] = <<>>
        BY <1>2, <2>4 DEF StagedAnswer
    <2>6. (\A d \in Elicits : d # e => got'[d] = got[d]) /\ got'[e][1] = a
        BY <1>2, <2>3, <2>5, FirstAnswer
    <2>7. \A d \in Elicits : got'[d] = got[d] \/ HonestAnswer(d)'
        BY <2>2, <2>6 DEF HonestAnswer, Accepted
    <2> QED BY <1>2, <1>3, <2>7, StaysFaithful
<1>6. CASE replies[1].raw = FALSE /\ e \in bridged
    <2>1. PICK a : a = Translated(e, replies[1])
        OBVIOUS
    <2>2. got' = [got EXCEPT ![e] = Append(@, a)]
        BY <1>1, <1>2, <1>6, <2>1, Zenon DEF HandleReply
    <2>3. got[e] = <<>>
        BY <1>2, <1>6 DEF StagedAnswer
    <2>4. (\A d \in Elicits : d # e => got'[d] = got[d]) /\ got'[e][1] = a
        BY <1>2, <2>2, <2>3, FirstAnswer
    <2>5. HonestAnswer(e)'
        <3> SUFFICES ASSUME a.action = "accept", Kind(e) = "ask"
                     PROVE  /\ Answers(Form(e), said[e].answers)
                            /\ a.content = Content(Form(e), Response(Form(e), said[e].answers))
            BY <1>2, <2>4 DEF HonestAnswer, Accepted, Kind, Form
        <3>1. /\ a.action = Action("ask", replies[1].outcome)
              /\ replies[1].outcome = "accepted" => a.content = Content(Form(e), replies[1].response)
            BY <2>1 DEF Translated, Answer
        <3>2. replies[1].outcome = "accepted"
            BY <3>1 DEF Action
        <3>3. Honest(replies[1], req, said)
            BY <1>4, <3>2 DEF Faithful
        <3> QED BY <1>1, <3>1, <3>2, <3>3 DEF Honest, Form
    <2>6. \A d \in Elicits : got'[d] = got[d] \/ HonestAnswer(d)'
        BY <2>4, <2>5
    <2> QED BY <1>2, <1>3, <2>6, StaysFaithful
<1>7. CASE replies[1].raw = FALSE /\ e \notin bridged
    <2>1. got' = got
        BY <1>1, <1>2, <1>7, Zenon DEF HandleReply, adapter
    <2> QED BY <1>2, <1>3, <2>1, StaysFaithful
<1> QED BY <1>4, <1>5, <1>6, <1>7, Zenon

\* OMP's withdrawal is answered with a cancel.
LEMMA OmpIsHonest ==
    ASSUME TypeOK, NEW st, Staged(st), Faithful, HandleOmp
    PROVE  Faithful'
<1>1. UNCHANGED <<req, card, said, replies>>
    BY DEF HandleOmp, pager
<1>2. PICK e : e = Head(inbox).e
    OBVIOUS
<1>3. e \in Elicits
    <2>1. inbox \in Seq(InboxMessages) /\ inbox # <<>>
        BY DEF TypeOK, HandleOmp
    <2>2. Head(inbox) \in InboxMessages
        BY <2>1, Popped
    <2> QED BY <1>2, <2>2 DEF InboxMessages
<1>4. PICK a : a = Answer("cancel", {})
    OBVIOUS
<1>5. a.action # "accept"
    BY <1>4 DEF Answer
<1>6. got' = got \/ (e \in bridged /\ got' = [got EXCEPT ![e] = Append(@, a)])
    <2>1. HandleCreate(e) \/ HandleComplete(e)
        BY <1>2, Zenon DEF HandleOmp
    <2>2. CASE HandleCreate(e)
        BY <2>2, Zenon DEF HandleCreate, adapter
    <2>3. CASE HandleComplete(e)
        BY <1>4, <2>3, Zenon DEF HandleComplete
    <2> QED BY <2>1, <2>2, <2>3
<1>7. \A d \in Elicits : got'[d] = got[d] \/ HonestAnswer(d)'
    <2>1. CASE e \in bridged /\ got' = [got EXCEPT ![e] = Append(@, a)]
        <3>1. got[e] = <<>>
            BY <1>3, <2>1 DEF Staged, StagedAnswer
        <3>2. (\A d \in Elicits : d # e => got'[d] = got[d]) /\ got'[e][1] = a
            BY <1>3, <2>1, <3>1, FirstAnswer
        <3> QED BY <1>5, <3>2 DEF HonestAnswer, Accepted
    <2> QED BY <1>6, <2>1
<1>8. \A i \in 1 .. Len(replies') : \E j \in 1 .. Len(replies) : replies'[i] = replies[j]
    BY <1>1
<1> QED BY <1>1, <1>7, <1>8, StaysFaithful

\* The pager itself never accepts.
LEMMA PagerIsHonest ==
    ASSUME TypeOK, OneOfEach, NEW st, Staged(st), Faithful, PagerReads
    PROVE  Faithful'
<1> DEFINE Old == \A i \in 1 .. Len(replies') :
               \/ \E j \in 1 .. Len(replies) : replies'[i] = replies[j]
               \/ replies'[i].outcome # "accepted"
               \/ Honest(replies'[i], req', said')
<1>1. UNCHANGED <<req, said, got>>
    BY DEF PagerReads, omp, adapter
<1> SUFFICES Old
    BY <1>1, StaysFaithful
<1>2. PICK e : e = screen[1].e
    OBVIOUS
<1>3. e \in Elicits /\ Head(screen) = screen[1]
    BY <1>2, ScreenTaken
<1>4. \/ ShowCard(e) \/ NoView(e) \/ Dismiss(e) \/ Finish(e)
      \/ replies' = Append(replies, [e |-> e, raw |-> TRUE, outcome |-> "error", response |-> NoResponse])
    BY <1>2, <1>3, Zenon DEF PagerReads
<1>5. replies' = replies => Old
    OBVIOUS
<1>6. ASSUME NEW d \in Elicits, NEW q, OneReply(q, d, Outcomes \ Approvals), replies' = replies \o q
      PROVE  Old
    BY <1>6, OtherReply
<1> HIDE DEF Old
<1>7. CASE ShowCard(e)
    <2> DEFINE place == IF Kind(e) = "url" /\ At("url", "waiting") # {} THEN "parked" ELSE "open"
               old == At(Kind(e), place)
    <2>1. /\ old \subseteq Elicits
          /\ replies' = replies \o (IF old = {} THEN <<>> ELSE Cancels(CHOOSE x \in old : TRUE))
        <3>1. old \subseteq Elicits
            BY DEF At
        <3> QED BY <1>7, <3>1, Zenon DEF ShowCard
    <2> HIDE DEF old
    <2>2. CASE old = {}
        <3>1. replies' = replies
            BY <2>1, <2>2 DEF TypeOK
        <3> QED BY <1>5, <3>1
    <2>3. CASE old # {}
        <3>1. PICK d \in old : d = CHOOSE x \in old : TRUE
            BY <2>3
        <3>2. d \in Elicits /\ replies' = replies \o Cancels(d)
            BY <2>1, <2>3, <3>1
        <3> QED BY <1>6, <3>2, CancelRecord
    <2> QED BY <2>2, <2>3
<1>8. CASE NoView(e)
    BY <1>3, <1>6, <1>8, ErrorRecord DEF NoView
<1>9. CASE Dismiss(e)
    BY <1>3, <1>5, <1>6, <1>9, ErrorRecord, CancelRecord DEF Dismiss
<1>10. CASE Finish(e)
    BY <1>5, <1>10 DEF Finish
<1>11. CASE replies' = Append(replies, [e |-> e, raw |-> TRUE, outcome |-> "error", response |-> NoResponse])
    <2>1. PICK x : x = [e |-> e, raw |-> TRUE, outcome |-> "error", response |-> NoResponse]
        OBVIOUS
    <2>2. x.outcome # "accepted"
        BY <2>1
    <2>3. x \in Replies
        <3>1. PICK raw \in BOOLEAN : raw = TRUE
            BY Zenon
        <3>2. x = [e |-> e, raw |-> raw, outcome |-> "error", response |-> NoResponse]
            BY <2>1, <3>1, Zenon
        <3>3. "error" \in Outcomes /\ NoResponse \in Responses
            BY DEF Outcomes, Responses
        <3> QED BY <1>3, <3>2, <3>3, ReplyFacts
    <2>4. replies' = Append(replies, x)
        BY <1>11, <2>1, Zenon
    <2>5. replies' = replies \o <<x>>
        BY <2>3, <2>4 DEF TypeOK
    <2> QED BY <2>2, <2>3, <2>5, RepliesPushed DEF Old
<1> QED BY <1>4, <1>7, <1>8, <1>9, <1>10, <1>11, Zenon

\* A refusal, and the approval of a card that is no form.
LEMMA RefuseIsHonest ==
    ASSUME TypeOK, NEW st, Staged(st), Faithful, NEW e \in Elicits, NEW o \in Refusals(e), Refuse(e, o)
    PROVE  Faithful'
<1>1. card[e] = "open" /\ UNCHANGED <<req, got>> /\ replies' = replies \o Reply(e, o)
    BY DEF Refuse, omp, adapter
<1>2. \A d \in Elicits : d # e => said'[d] = said[d]
    BY SaidFacts DEF Refuse
<1>3. OneReply(Reply(e, o), e, Outcomes \ Approvals)
    BY RefusalFacts, ReplyRecord
<1>4. \A i \in 1 .. Len(replies') :
          \/ \E j \in 1 .. Len(replies) : replies'[i] = replies[j]
          \/ replies'[i].outcome # "accepted"
          \/ Honest(replies'[i], req', said')
    BY <1>1, <1>3, OtherReply
<1> QED BY <1>1, <1>2, <1>4, StaysFaithful

LEMMA ApproveIsHonest ==
    ASSUME TypeOK, NEW st, Staged(st), Faithful, NEW e \in Elicits, Approve(e)
    PROVE  Faithful'
<1>1. PICK o \in {"accept", "approved"} : replies' = replies \o Reply(e, o)
    BY DEF Approve
<1>2. card[e] = "open" /\ UNCHANGED <<req, got>>
    BY DEF Approve, omp, adapter
<1>3. \A d \in Elicits : d # e => said'[d] = said[d]
    BY SaidFacts DEF Approve
<1>4. OneReply(Reply(e, o), e, {"accept", "approved"})
    <2>1. {"accept", "approved"} \in SUBSET Outcomes
        BY DEF Outcomes
    <2> QED BY <2>1, ReplyRecord
<1>5. PICK x \in Replies : Reply(e, o) = <<x>> /\ x.outcome \in {"accept", "approved"}
    BY <1>4, Zenon DEF OneReply
<1>6. x.outcome # "accepted" /\ replies' = replies \o <<x>>
    BY <1>1, <1>5
<1>7. \A i \in 1 .. Len(replies') :
          \/ \E j \in 1 .. Len(replies) : replies'[i] = replies[j]
          \/ replies'[i].outcome # "accepted"
          \/ Honest(replies'[i], req', said')
    BY <1>6, RepliesPushed
<1> QED BY <1>2, <1>3, <1>7, StaysFaithful

\* The user's answers go into the reply as they are.
LEMMA SubmitIsHonest ==
    ASSUME TypeOK, NEW st, Staged(st), Faithful, NEW e \in Elicits, NEW s \in Chosen(Form(e)), Submit(e, s)
    PROVE  Faithful'
<1>1. Form(e) \in Forms
    BY KindFacts DEF Submit
<1>2. PICK resp \in Responses : resp = Response(Form(e), s)
    BY <1>1 DEF Responses
<1>3. PICK x : x = [e |-> e, raw |-> FALSE, outcome |-> "accepted", response |-> resp]
    OBVIOUS
<1>4. x \in Replies /\ x.e = e /\ x.response = resp
    <2>1. PICK raw \in BOOLEAN : raw = FALSE
        BY Zenon
    <2>2. x = [e |-> e, raw |-> raw, outcome |-> "accepted", response |-> resp]
        BY <1>3, <2>1, Zenon
    <2>3. "accepted" \in Outcomes
        BY DEF Outcomes
    <2>4. x \in Replies /\ x.e = e
        BY <2>1, <2>2, <2>3, ReplyFacts
    <2>5. x.response = resp
        BY <1>3
    <2> QED BY <2>4, <2>5
<1>5. /\ card[e] = "open" /\ replies' = Append(replies, x) /\ Answers(Form(e), s)
      /\ said' = [said EXCEPT ![e] = [what |-> "yes", answers |-> s]]
      /\ UNCHANGED <<omp, adapter>>
    BY <1>2, <1>3, Zenon DEF Submit, Answers
<1>6. replies' = replies \o <<x>>
    BY <1>4, <1>5 DEF TypeOK
<1>7. said'[e].answers = s /\ \A d \in Elicits : d # e => said'[d] = said[d]
    BY <1>5 DEF TypeOK
<1>8. req' = req /\ got' = got
    BY <1>5 DEF omp, adapter
<1>9. Honest(x, req', said')
    BY <1>2, <1>4, <1>5, <1>7, <1>8 DEF Honest, Form
<1>10. \A i \in 1 .. Len(replies') :
           \/ \E j \in 1 .. Len(replies) : replies'[i] = replies[j]
           \/ replies'[i].outcome # "accepted"
           \/ Honest(replies'[i], req', said')
    BY <1>4, <1>6, <1>9, RepliesPushed
<1> QED BY <1>5, <1>7, <1>8, <1>10, StaysFaithful

\* OMP asks, OMP withdraws and a waiting card closes: nothing is said.
LEMMA OthersAreHonest ==
    ASSUME TypeOK, NEW st, Staged(st), Faithful, UNCHANGED <<said, replies, got>>,
           \A d \in Elicits : req'[d] = req[d] \/ req[d] = NoRequest
    PROVE  Faithful'
<1>1. \A i \in 1 .. Len(replies') : \E j \in 1 .. Len(replies) : replies'[i] = replies[j]
    OBVIOUS
<1> QED BY <1>1, StaysFaithful

LEMMA FaithfulStep == IInv /\ Faithful /\ [Next]_vars => Faithful'
<1> SUFFICES ASSUME IInv, Faithful, [Next]_vars PROVE Faithful'
    OBVIOUS
<1>1. TypeOK /\ OneOfEach
    BY DEF IInv
<1>2. PICK st : Staged(st)
    BY DEF IInv
<1>3. CASE HandleOmp
    BY <1>1, <1>2, <1>3, OmpIsHonest
<1>4. CASE HandleReply
    BY <1>1, <1>2, <1>4, ReplyIsHonest
<1>5. CASE PagerReads
    BY <1>1, <1>2, <1>5, PagerIsHonest
<1>6. ASSUME NEW e \in Elicits, NEW q \in Requests, Create(e, q) PROVE Faithful'
    <2>1. UNCHANGED <<said, replies, got>> /\ req[e] = NoRequest /\ req' = [req EXCEPT ![e] = q]
        BY <1>6 DEF Create, adapter, pager
    <2>2. \A d \in Elicits : req'[d] = req[d] \/ req[d] = NoRequest
        BY <1>1, <2>1 DEF TypeOK
    <2> QED BY <1>1, <1>2, <2>1, <2>2, OthersAreHonest
<1>7. ASSUME NEW e \in Elicits, Complete(e) PROVE Faithful'
    <2>1. UNCHANGED <<said, replies, got, req>>
        BY <1>7 DEF Complete, adapter, pager
    <2> QED BY <1>1, <1>2, <2>1, OthersAreHonest
<1>8. ASSUME NEW e \in Elicits, NEW o \in Refusals(e), Refuse(e, o) PROVE Faithful'
    BY <1>1, <1>2, <1>8, RefuseIsHonest
<1>9. ASSUME NEW e \in Elicits, Approve(e) PROVE Faithful'
    BY <1>1, <1>2, <1>9, ApproveIsHonest
<1>10. ASSUME NEW e \in Elicits, NEW s \in Chosen(Form(e)), Submit(e, s) PROVE Faithful'
    BY <1>1, <1>2, <1>10, SubmitIsHonest
<1>11. ASSUME NEW e \in Elicits, CloseWaiting(e) PROVE Faithful'
    <2>1. UNCHANGED <<said, replies, got, req>>
        BY <1>11 DEF CloseWaiting, adapter, omp
    <2> QED BY <1>1, <1>2, <2>1, OthersAreHonest
<1>12. CASE UNCHANGED vars
    <2>1. UNCHANGED <<said, replies, got, req>>
        BY <1>12 DEF vars, omp, adapter, pager
    <2> QED BY <1>1, <1>2, <2>1, OthersAreHonest
<1> QED BY <1>3, <1>4, <1>5, <1>6, <1>7, <1>8, <1>9, <1>10, <1>11, <1>12, Zenon DEF Next, Chosen

LEMMA FaithfulInitially == Init => Faithful
<1> SUFFICES ASSUME Init PROVE Faithful
    OBVIOUS
<1>1. \A i : i \notin 1 .. Len(replies)
    BY DEF Init
<1>2. \A e \in Elicits : got[e] = <<>>
    BY DEF Init
<1> QED BY <1>1, <1>2 DEF Faithful, HonestAnswer, Accepted

\* The content of an answered form, under a property's key.
LEMMA ContentHolds ==
    ASSUME NEW form, NEW r, NEW i \in Questions(form), NEW x \in Entries(form, r, i)
    PROVE  x \in Content(form, r)
BY DEF Content

LEMMA ContentOf ==
    ASSUME NEW form, WellFormed(form), NEW r, NEW i \in Questions(form), Entries(form, r, i) = {},
           NEW x \in Content(form, r)
    PROVE  x.key # form.props[i].key
<1>1. PICK j \in Questions(form) : x \in Entries(form, r, j)
    BY DEF Content
<1>2. j # i
    BY <1>1
<1>3. x.key = form.props[j].key
    BY <1>1, KeyOf
<1> QED BY <1>2, <1>3 DEF WellFormed

\* A reply that accepts a form, and the answer OMP was sent for it, are what the
\* user picked and typed, however the cards were replaced and withdrawn.
THEOREM FaithfulHolds == Spec => []Faithful
<1>1. IInv /\ Faithful /\ [Next]_vars => Faithful'
    BY FaithfulStep
<1>2. Init => Faithful
    BY FaithfulInitially
<1> QED BY <1>1, <1>2, InvariantHolds, PTL DEF Spec

\* Whatever forms OMP asks with, if their properties and labels can be told
\* apart: the options picked for a property come back as its constants under
\* its key, and nothing comes back for a property that was not answered
\* (elicitResultToOmp).
THEOREM PicksKept ==
    ASSUME \A f \in Forms : WellFormed(f)
    PROVE  Spec => []PickedKept
<1>1. IInv /\ Faithful => PickedKept
    <2> SUFFICES ASSUME IInv, Faithful, NEW e \in Elicits, Accepted(e), NEW i \in Questions(Form(e))
                 PROVE  LET p == Form(e).props[i]
                            mine == {x \in got[e][1].content : x.key = p.key}
                        IN  /\ said[e].answers[i].picked # {} =>
                                  Entry(p, FALSE, p.type = "array", Constants(p, said[e].answers[i].picked)) \in mine
                            /\ ~Answered(said[e].answers[i]) => mine = {}
        BY DEF PickedKept
    <2>1. WellFormed(Form(e))
        BY KindFacts DEF IInv, Accepted
    <2>2. /\ Answers(Form(e), said[e].answers)
          /\ got[e][1].content = Content(Form(e), Response(Form(e), said[e].answers))
        BY DEF Faithful, HonestAnswer
    <2>3. PICK f, s, p, r : f = Form(e) /\ s = said[e].answers /\ p = f.props[i] /\ r = Response(f, s)
        OBVIOUS
    <2>4. WellFormed(f) /\ i \in Questions(f) /\ s[i] \in Selections(f.props[i])
        BY <2>1, <2>2, <2>3 DEF Answers
    <2>5. ASSUME s[i].picked # {}
          PROVE  /\ Entry(p, FALSE, p.type = "array", Constants(p, s[i].picked)) \in Content(f, r)
                 /\ Entry(p, FALSE, p.type = "array", Constants(p, s[i].picked)).key = p.key
        <3>1. Entry(p, FALSE, p.type = "array", Constants(p, s[i].picked)) \in Entries(f, r, i)
            BY <2>3, <2>4, <2>5, PicksComeBack
        <3>2. Entry(p, FALSE, p.type = "array", Constants(p, s[i].picked)) \in Content(f, r)
            BY <2>4, <3>1, ContentHolds
        <3>3. Entry(p, FALSE, p.type = "array", Constants(p, s[i].picked)).key = p.key
            BY DEF Entry
        <3> QED BY <3>2, <3>3
    <2>6. ASSUME ~Answered(s[i]) PROVE \A x \in Content(f, r) : x.key # p.key
        <3>1. Entries(f, r, i) = {}
            BY <2>3, <2>4, <2>6, UnansweredIsAbsent
        <3> QED BY <2>3, <2>4, <3>1, ContentOf
    <2>7. got[e][1].content = Content(f, r)
        BY <2>2, <2>3
    <2> QED BY <2>3, <2>5, <2>6, <2>7
<1> QED BY <1>1, InvariantHolds, FaithfulHolds, PTL

\* For the same forms, a text typed in place of an option comes back, under
\* <key>__other where OMP added it (elicitResultToOmp).
THEOREM TextsKept ==
    ASSUME \A f \in Forms : WellFormed(f)
    PROVE  Spec => []TypedKept
<1>1. IInv /\ Faithful => TypedKept
    <2> SUFFICES ASSUME IInv, Faithful, NEW e \in Elicits, Accepted(e), NEW i \in Questions(Form(e)),
                        said[e].answers[i].typed # "", said[e].answers[i].picked = {},
                        TakesText(Form(e).props[i], said[e].answers[i].typed)
                 PROVE  Entry(Form(e).props[i], Form(e).props[i].other, FALSE, {said[e].answers[i].typed})
                            \in got[e][1].content
        BY DEF TypedKept, TextKept
    <2>1. WellFormed(Form(e))
        BY KindFacts DEF IInv, Accepted
    <2>2. /\ Answers(Form(e), said[e].answers)
          /\ got[e][1].content = Content(Form(e), Response(Form(e), said[e].answers))
        BY DEF Faithful, HonestAnswer
    <2>3. PICK f, s, r : f = Form(e) /\ s = said[e].answers /\ r = Response(f, s)
        OBVIOUS
    <2>4. WellFormed(f) /\ i \in Questions(f) /\ s[i] \in Selections(f.props[i])
        BY <2>1, <2>2, <2>3 DEF Answers
    <2>5. s[i].typed # "" /\ s[i].picked = {} /\ TakesText(f.props[i], s[i].typed)
        BY <2>3
    <2>6. Entry(f.props[i], f.props[i].other, FALSE, {s[i].typed}) \in Entries(f, r, i)
        BY <2>3, <2>4, <2>5, TextComesBack
    <2>7. Entry(f.props[i], f.props[i].other, FALSE, {s[i].typed}) \in Content(f, r)
        BY <2>4, <2>6, ContentHolds
    <2> QED BY <2>2, <2>3, <2>7
<1> QED BY <1>1, InvariantHolds, FaithfulHolds, PTL

-----------------------------------------------------------------------------
(***************************************************************************)
(* Proofs about CatalogPrefetch, for every number of updates that OMP      *)
(* sends: the answer to initialize is held only while the timer of the     *)
(* prefetch runs and is forwarded once, and nothing of a session whose id  *)
(* the prefetch learned comes to the pager.                                *)
(***************************************************************************)

Updates == {"info", "full", "empty"}
Frame == Updates \cup {"initialize", "opened", "refused", "closed"}

CatalogTypes ==
    /\ commands \in {"empty", "full"}
    /\ prefetch \in {"idle", "on", "done"}
    /\ sid \in BOOLEAN /\ timer \in BOOLEAN /\ held \in BOOLEAN
    /\ hidden \in BOOLEAN /\ leaked \in BOOLEAN
    /\ released \in Nat
    /\ settled \in {"none", "opened", "refused"}
    /\ file \in {"none", "there", "deleted"}
    /\ out \in Seq({"new", "close"}) /\ requests \in Seq({"new", "close"})
    /\ wire \in Seq(Frame)
    /\ session \in {"none", "open", "closed"}
    /\ advertised \in BOOLEAN /\ ninfo \in Nat

\* Nothing is asked of OMP before the answer to initialize, or after it if the
\* catalog was there.
Quiet == /\ out = <<>> /\ requests = <<>> /\ settled = "none"
         /\ session = "none" /\ ~held

\* The answer to initialize comes once, and first.
Unanswered == prefetch = "idle" /\ released = 0 /\ wire = <<"initialize">>

CatalogPhases ==
    /\ Unanswered \/ \A i \in 1 .. Len(wire) : wire[i] # "initialize"
    /\ prefetch = "idle" => Quiet /\ (Unanswered \/ (released = 1 /\ wire = <<>>))
    /\ prefetch = "on" => held /\ timer /\ released = 0
    /\ prefetch = "done" => ~held /\ released = 1

\* An id that was learned is hidden when the prefetch is over, and nothing was
\* forwarded before it was over.
CatalogIds ==
    /\ sid => prefetch # "idle"
    /\ sid /\ prefetch = "done" => hidden
    /\ hidden => prefetch = "done"
    /\ leaked => prefetch = "done" /\ ~sid

CatalogInv == CatalogTypes /\ CatalogPhases /\ CatalogIds

\* `initialize' does not come back when a frame is taken or another one added.
LEMMA FrameTaken ==
    ASSUME CatalogTypes, CatalogPhases, wire # <<>>
    PROVE  /\ Head(wire) \in Frame /\ Tail(wire) \in Seq(Frame)
           /\ \A i \in 1 .. Len(Tail(wire)) : Tail(wire)[i] # "initialize"
           /\ Head(wire) = "initialize" => Unanswered /\ Tail(wire) = <<>>
           /\ Head(wire) # "initialize" => prefetch # "idle"
<1> DEFINE w == wire
<1>1. /\ Head(w) = w[1] /\ Head(w) \in Frame /\ Tail(w) \in Seq(Frame) /\ Len(w) \in Nat \ {0}
      /\ Len(Tail(w)) = Len(w) - 1 /\ \A i \in 1 .. Len(w) - 1 : Tail(w)[i] = w[i + 1]
    BY DEF CatalogTypes
<1>2. CASE Unanswered
    BY <1>1, <1>2 DEF Unanswered
<1>3. CASE ~Unanswered
    BY <1>1, <1>3 DEF CatalogPhases
<1> QED BY <1>2, <1>3

LEMMA FrameAdded ==
    ASSUME CatalogTypes, CatalogPhases, prefetch # "idle", NEW f \in Frame \ {"initialize"},
           wire' = Append(wire, f)
    PROVE  wire' \in Seq(Frame) /\ \A i \in 1 .. Len(wire') : wire'[i] # "initialize"
BY DEF CatalogTypes, CatalogPhases, Unanswered

\* What a frame's handler queued goes to OMP.
LEMMA Drained ==
    ASSUME CatalogTypes, NEW q \in Seq({"new", "close"}), drainExt(q)
    PROVE  out' = <<>> /\ out' \in Seq({"new", "close"}) /\ requests' \in Seq({"new", "close"})
BY DEF CatalogTypes, drainExt

LEMMA CloseQueued ==
    ASSUME CatalogTypes, NEW known \in BOOLEAN
    PROVE  Close(known) \in Seq({"new", "close"}) /\ out \o Close(known) \in Seq({"new", "close"})
<1>1. <<"close">> \in Seq({"new", "close"}) /\ <<>> \in Seq({"new", "close"})
    OBVIOUS
<1>2. Close(known) \in Seq({"new", "close"})
    BY <1>1, Zenon DEF Close
<1> QED BY <1>2 DEF CatalogTypes

-----------------------------------------------------------------------------
(***************************************************************************)
(* The steps of the adapter.                                               *)
(***************************************************************************)
LEMMA KeepsInitialize ==
    ASSUME CatalogInv, wire # <<>>, wire' = Tail(wire), Head(wire) = "initialize",
           InitializeAnswer, UNCHANGED ompVars
    PROVE  CatalogInv'
<1>1. /\ Unanswered /\ wire' = <<>> /\ wire' \in Seq(Frame)
      /\ Quiet /\ ~sid /\ ~hidden /\ ~leaked
    BY FrameTaken DEF CatalogInv, CatalogTypes, CatalogPhases, CatalogIds, Unanswered
<1>2. out' = <<>> /\ out' \in Seq({"new", "close"}) /\ requests' \in Seq({"new", "close"})
    <2>1. Append(out, "new") \in Seq({"new", "close"}) /\ out \in Seq({"new", "close"})
        BY DEF CatalogInv, CatalogTypes
    <2> QED BY <2>1, Drained DEF InitializeAnswer, CatalogInv
<1>3. CASE commands = "empty"
    <2>1. /\ prefetch' = "on" /\ held' = TRUE /\ timer' = TRUE /\ released' = 0
          /\ UNCHANGED <<commands, sid, hidden, settled, leaked, file, session, advertised, ninfo>>
        BY <1>1, <1>3
           DEF InitializeAnswer, startCatalogPrefetch, Unanswered, ompVars
    <2> QED BY <1>1, <1>2, <2>1
            DEF CatalogInv, CatalogTypes, CatalogPhases, CatalogIds, Unanswered, Quiet
<1>4. CASE commands # "empty"
    <2>1. /\ released' = 1 /\ requests' = <<>>
          /\ UNCHANGED <<commands, prefetch, held, timer, sid, hidden, settled, leaked, file,
                         session, advertised, ninfo>>
        <3>1. requests' = requests \o out
            BY <1>1, <1>4 DEF InitializeAnswer, drainExt
        <3>2. requests' = <<>>
            BY <3>1, <1>1 DEF Quiet
        <3> QED BY <1>1, <1>4, <3>2 DEF InitializeAnswer, Unanswered, ompVars
    <2> QED BY <1>1, <1>2, <2>1
            DEF CatalogInv, CatalogTypes, CatalogPhases, CatalogIds, Unanswered, Quiet
<1> QED BY <1>3, <1>4

LEMMA KeepsNewAnswer ==
    ASSUME CatalogInv, wire # <<>>, wire' = Tail(wire), Head(wire) \in {"opened", "refused"},
           NewAnswer(Head(wire)), UNCHANGED ompVars
    PROVE  CatalogInv'
<1>1. /\ prefetch # "idle" /\ wire' \in Seq(Frame)
      /\ \A i \in 1 .. Len(wire') : wire'[i] # "initialize"
    BY FrameTaken DEF CatalogInv
<1>2. out' \in Seq({"new", "close"}) /\ requests' \in Seq({"new", "close"})
    BY Drained DEF CatalogInv, CatalogTypes, NewAnswer
<1> QED BY <1>1, <1>2
        DEF CatalogInv, CatalogTypes, CatalogPhases, CatalogIds, Unanswered, Quiet, NewAnswer, ompVars

LEMMA KeepsCloseAnswer ==
    ASSUME CatalogInv, wire # <<>>, wire' = Tail(wire), Head(wire) = "closed",
           CloseAnswer, UNCHANGED ompVars
    PROVE  CatalogInv'
<1>1. /\ prefetch # "idle" /\ wire' \in Seq(Frame)
      /\ \A i \in 1 .. Len(wire') : wire'[i] # "initialize"
    BY FrameTaken DEF CatalogInv
<1>2. out' \in Seq({"new", "close"}) /\ requests' \in Seq({"new", "close"})
    BY Drained DEF CatalogInv, CatalogTypes, CloseAnswer
<1> QED BY <1>1, <1>2
        DEF CatalogInv, CatalogTypes, CatalogPhases, CatalogIds, Unanswered, Quiet, CloseAnswer, ompVars, prefetchVars

\* An update of the throwaway session.
LEMMA KeepsUpdate ==
    ASSUME CatalogInv, wire # <<>>, wire' = Tail(wire), Head(wire) \in Updates,
           Absorbed \/ Harvested(Head(wire)) \/ Forwarded(Head(wire)), UNCHANGED ompVars
    PROVE  CatalogInv'
<1>1. /\ prefetch # "idle" /\ wire' \in Seq(Frame)
      /\ \A i \in 1 .. Len(wire') : wire'[i] # "initialize"
    BY FrameTaken DEF CatalogInv, Updates
<1>2. out \in Seq({"new", "close"}) /\ out \o Close(TRUE) \in Seq({"new", "close"})
    BY CloseQueued DEF CatalogInv, CatalogTypes
<1>3. CASE Absorbed
    <2>1. out' \in Seq({"new", "close"}) /\ requests' \in Seq({"new", "close"})
        BY <1>2, <1>3, Drained DEF CatalogInv, Absorbed
    <2> QED BY <1>1, <1>3, <2>1
            DEF CatalogInv, CatalogTypes, CatalogPhases, CatalogIds, Unanswered, Absorbed, ompVars, prefetchVars
<1>4. CASE Harvested(Head(wire))
    <2>1. out' \in Seq({"new", "close"}) /\ requests' \in Seq({"new", "close"})
        BY <1>2, <1>4, Drained DEF CatalogInv, Harvested
    <2>2. held /\ released = 0 /\ prefetch = "on" /\ ~leaked
        BY <1>4 DEF Harvested, CatalogInv, CatalogPhases, CatalogIds
    <2>3. CASE Head(wire) = "info"
        <3>1. /\ sid' = TRUE
              /\ UNCHANGED <<commands, prefetch, timer, held, released, hidden, settled, leaked, file,
                             session, advertised, ninfo>>
            BY <1>4, <2>3 DEF Harvested, ompVars
        <3> QED BY <1>1, <2>1, <2>2, <3>1
                DEF CatalogInv, CatalogTypes, CatalogPhases, CatalogIds, Unanswered
    <2>4. CASE Head(wire) # "info"
        <3>1. /\ prefetch' = "done" /\ timer' = FALSE /\ hidden' = TRUE /\ released' = 1
              /\ held' = FALSE /\ sid' = TRUE /\ commands' \in {"full", "empty"}
              /\ UNCHANGED <<settled, leaked, file, session, advertised, ninfo>>
            <4>1. /\ Head(wire) \in {"full", "empty"} /\ commands' = Head(wire)
                  /\ finishCatalogPrefetch(TRUE) /\ sid' = TRUE
                  /\ UNCHANGED <<settled, leaked, file, session, advertised, ninfo>>
                BY <1>4, <2>4, Zenon DEF Harvested, ompVars
            <4>2. released' = 1
                BY <2>2, <4>1 DEF finishCatalogPrefetch
            <4>3. hidden' = TRUE /\ prefetch' = "done" /\ timer' = FALSE /\ held' = FALSE
                BY <4>1, Zenon DEF finishCatalogPrefetch
            <4> QED BY <4>1, <4>2, <4>3
        <3> QED BY <1>1, <2>1, <2>2, <3>1
                DEF CatalogInv, CatalogTypes, CatalogPhases, CatalogIds, Unanswered
    <2> QED BY <2>3, <2>4
<1>5. CASE Forwarded(Head(wire))
    <2>1. out' \in Seq({"new", "close"}) /\ requests' \in Seq({"new", "close"})
        BY <1>2, <1>5, Drained DEF CatalogInv, Forwarded
    <2>2. prefetch = "done" /\ ~sid
        BY <1>1, <1>5 DEF Forwarded, CatalogInv, CatalogTypes, CatalogIds
    <2>3. commands' \in {"full", "empty"}
        BY <1>5 DEF Forwarded, Updates, CatalogInv, CatalogTypes
    <2> QED BY <1>1, <1>5, <2>1, <2>2, <2>3
               DEF CatalogInv, CatalogTypes, CatalogPhases, CatalogIds, Unanswered, Forwarded, ompVars
<1> QED BY <1>3, <1>4, <1>5

LEMMA KeepsHandleFrame ==
    ASSUME CatalogInv, HandleFrame
    PROVE  CatalogInv'
BY KeepsInitialize, KeepsNewAnswer, KeepsCloseAnswer, KeepsUpdate DEF HandleFrame, Updates

\* What ends a prefetch that is on ends it.
LEMMA Finished ==
    ASSUME CatalogInv, prefetch = "on", NEW known \in BOOLEAN, sid' = known,
           finishCatalogPrefetch(known), out' = out \o Close(known), settled' \in {"none"},
           UNCHANGED <<commands, leaked, file, requests, wire, ompVars>>
    PROVE  CatalogInv'
<1>1. /\ prefetch' = "done" /\ timer' = FALSE /\ hidden' = known /\ released' = 1 /\ held' = FALSE
      /\ ~leaked /\ UNCHANGED <<session, advertised, ninfo>>
    BY DEF finishCatalogPrefetch, CatalogInv, CatalogTypes, CatalogPhases, CatalogIds, ompVars
<1>2. out' \in Seq({"new", "close"})
    BY CloseQueued DEF CatalogInv
<1> QED BY <1>1, <1>2 DEF CatalogInv, CatalogTypes, CatalogPhases, CatalogIds, Unanswered

LEMMA KeepsRunCallback ==
    ASSUME CatalogInv, RunCallback
    PROVE  CatalogInv'
<1>1. prefetch # "idle"
    BY DEF RunCallback, CatalogInv, CatalogPhases, Quiet
<1>2. CASE settled = "opened"
    <2>1. CASE prefetch = "done"
        <3>1. out' \in Seq({"new", "close"})
            BY <1>2, <2>1, CloseQueued DEF CatalogInv, RunCallback, Opened
        <3> QED BY <1>2, <2>1, <3>1
                   DEF RunCallback, Opened, CatalogInv, CatalogTypes, CatalogPhases, CatalogIds, Unanswered, ompVars
    <2>2. CASE prefetch = "on" /\ commands = "full"
        BY <1>2, <2>2, Finished DEF RunCallback, Opened
    <2>3. CASE prefetch = "on" /\ commands = "empty"
        BY <1>2, <2>3
           DEF RunCallback, Opened, CatalogInv, CatalogTypes, CatalogPhases, CatalogIds, Unanswered, ompVars
    <2> QED BY <1>1, <2>1, <2>2, <2>3 DEF CatalogInv, CatalogTypes
<1>3. CASE settled = "refused"
    <2>1. CASE prefetch = "on"
        BY <1>3, <2>1, Finished DEF RunCallback, Refused, CatalogInv, CatalogTypes
    <2>2. CASE prefetch = "done"
        BY <1>3, <2>2
           DEF RunCallback, Refused, CatalogInv, CatalogTypes, CatalogPhases, CatalogIds, Unanswered, ompVars
    <2> QED BY <1>1, <2>1, <2>2 DEF CatalogInv, CatalogTypes
<1> QED BY <1>2, <1>3 DEF RunCallback

LEMMA KeepsTimeout ==
    ASSUME CatalogInv, Timeout
    PROVE  CatalogInv'
BY Finished DEF Timeout, CatalogInv, CatalogTypes

LEMMA KeepsPagerFrame ==
    ASSUME CatalogInv, PagerFrame
    PROVE  CatalogInv'
<1>1. out' = <<>> /\ out' \in Seq({"new", "close"}) /\ requests' \in Seq({"new", "close"})
    BY Drained DEF CatalogInv, CatalogTypes, PagerFrame
<1>2. prefetch = "idle" => requests' = <<>>
    <2> SUFFICES ASSUME prefetch = "idle" PROVE requests' = <<>>
        OBVIOUS
    <2>1. requests = <<>> /\ out = <<>> /\ requests' = requests \o out
        BY DEF CatalogInv, CatalogPhases, Quiet, PagerFrame, drainExt
    <2> QED BY <2>1
<1> QED BY <1>1, <1>2
        DEF PagerFrame, CatalogInv, CatalogTypes, CatalogPhases, CatalogIds, Unanswered, Quiet, prefetchVars, ompVars

-----------------------------------------------------------------------------
(***************************************************************************)
(* The steps of OMP.                                                       *)
(***************************************************************************)
LEMMA KeepsOmpOpens ==
    ASSUME CatalogInv, OmpOpens
    PROVE  CatalogInv'
<1>1. prefetch # "idle"
    BY DEF OmpOpens, CatalogInv, CatalogPhases, Quiet
<1>2. requests' \in Seq({"new", "close"})
    BY DEF OmpOpens, CatalogInv, CatalogTypes
<1>3. wire' \in Seq(Frame) /\ \A i \in 1 .. Len(wire') : wire'[i] # "initialize"
    BY <1>1, FrameAdded DEF OmpOpens, CatalogInv, Frame
<1> QED BY <1>1, <1>2, <1>3
        DEF OmpOpens, CatalogInv, CatalogTypes, CatalogPhases, CatalogIds, Unanswered, prefetchVars

LEMMA KeepsOmpCloses ==
    ASSUME CatalogInv, OmpCloses
    PROVE  CatalogInv'
<1>1. prefetch # "idle"
    BY DEF OmpCloses, CatalogInv, CatalogPhases, Quiet
<1>2. requests' \in Seq({"new", "close"})
    BY DEF OmpCloses, CatalogInv, CatalogTypes
<1>3. wire' \in Seq(Frame) /\ \A i \in 1 .. Len(wire') : wire'[i] # "initialize"
    BY <1>1, FrameAdded DEF OmpCloses, CatalogInv, Frame
<1> QED BY <1>1, <1>2, <1>3
        DEF OmpCloses, CatalogInv, CatalogTypes, CatalogPhases, CatalogIds, Unanswered, prefetchVars

LEMMA KeepsOmpAdvertises ==
    ASSUME CatalogInv, NEW f \in {"full", "empty"}, OmpAdvertises(f)
    PROVE  CatalogInv'
<1>1. prefetch # "idle"
    BY DEF OmpAdvertises, CatalogInv, CatalogPhases, Quiet
<1>2. wire' \in Seq(Frame) /\ \A i \in 1 .. Len(wire') : wire'[i] # "initialize"
    BY <1>1, FrameAdded DEF OmpAdvertises, CatalogInv, Frame, Updates
<1> QED BY <1>1, <1>2
        DEF OmpAdvertises, CatalogInv, CatalogTypes, CatalogPhases, CatalogIds, Unanswered, prefetchVars

LEMMA KeepsOmpInforms ==
    ASSUME CatalogInv, OmpInforms
    PROVE  CatalogInv'
<1>1. prefetch # "idle"
    BY DEF OmpInforms, CatalogInv, CatalogPhases, Quiet
<1>2. wire' \in Seq(Frame) /\ \A i \in 1 .. Len(wire') : wire'[i] # "initialize"
    BY <1>1, FrameAdded DEF OmpInforms, CatalogInv, Frame, Updates
<1> QED BY <1>1, <1>2
           DEF OmpInforms, CatalogInv, CatalogTypes, CatalogPhases, CatalogIds, Unanswered, prefetchVars

-----------------------------------------------------------------------------
LEMMA CatalogInitially ==
    ASSUME PrefetchInit
    PROVE  CatalogInv
<1>1. /\ commands \in {"empty", "full"}
      /\ out \in Seq({"new", "close"}) /\ requests \in Seq({"new", "close"}) /\ wire \in Seq(Frame)
    BY DEF PrefetchInit, Frame
<1>2. ninfo \in Nat /\ released \in Nat
    BY DEF PrefetchInit
<1>3. CatalogTypes
    BY <1>1, <1>2, Zenon DEF PrefetchInit, CatalogTypes
<1>4. CatalogPhases /\ CatalogIds
    BY Zenon DEF PrefetchInit, CatalogPhases, CatalogIds, Unanswered, Quiet
<1> QED BY <1>3, <1>4 DEF CatalogInv

LEMMA CatalogStepKeeps ==
    ASSUME CatalogInv, [PrefetchNext]_catalogVars
    PROVE  CatalogInv'
<1>1. CASE PrefetchNext
    BY <1>1, KeepsHandleFrame, KeepsRunCallback, KeepsTimeout, KeepsPagerFrame, KeepsOmpOpens,
       KeepsOmpCloses, KeepsOmpAdvertises, KeepsOmpInforms DEF PrefetchNext
<1>2. CASE UNCHANGED catalogVars
    BY <1>2
       DEF catalogVars, prefetchVars, ompVars, CatalogInv, CatalogTypes, CatalogPhases, CatalogIds, Unanswered, Quiet
<1> QED BY <1>1, <1>2

\* The phases of the prefetch and what it knows of its session, in every
\* reachable state.
THEOREM CatalogInvariantHolds == PrefetchSpec => []CatalogInv
<1>1. PrefetchInit => CatalogInv
    BY CatalogInitially
<1>2. CatalogInv /\ [PrefetchNext]_catalogVars => CatalogInv'
    BY CatalogStepKeeps
<1> QED BY <1>1, <1>2, PTL DEF PrefetchSpec

\* The answer to initialize is held only while the prefetch is on and its timer
\* runs, and it is forwarded at most once.
THEOREM HeldAnswerIsWatched == PrefetchSpec => []HeldIsWatched
<1>1. CatalogInv => HeldIsWatched
    BY DEF CatalogInv, CatalogTypes, CatalogPhases, Unanswered, Quiet, HeldIsWatched
<1> QED BY <1>1, CatalogInvariantHolds, PTL

\* Nothing of a throwaway session whose id the prefetch learned, from an update
\* or from the answer to session/new, is ever forwarded to the pager.
THEOREM LearnedSessionStaysHidden == PrefetchSpec => []LearnedStaysHidden
<1>1. CatalogInv => LearnedStaysHidden
    BY DEF CatalogInv, CatalogIds, LearnedStaysHidden
<1> QED BY <1>1, CatalogInvariantHolds, PTL

-----------------------------------------------------------------------------
(***************************************************************************)
(* Proofs about SessionHistory, for any files and any bounds.              *)
(***************************************************************************)
IsSeq(s) == s \in Seq(Values(s))

LEMMA SeqOf ==
    ASSUME NEW T, NEW s \in Seq(T)
    PROVE  IsSeq(s) /\ Len(s) \in Nat /\ DOMAIN s = 1 .. Len(s) /\ \A i \in 1 .. Len(s) : s[i] \in T
<1>1. Len(s) \in Nat /\ DOMAIN s = 1 .. Len(s) /\ \A i \in 1 .. Len(s) : s[i] \in T
    OBVIOUS
<1>2. s \in [1 .. Len(s) -> Values(s)]
    BY <1>1 DEF Values
<1>3. s \in Seq(Values(s))
    BY <1>1, <1>2
<1> QED BY <1>1, <1>3 DEF IsSeq

JoinOf(r, p, q) ==
    /\ Len(r) = Len(p) + Len(q) /\ Len(p) \in Nat /\ Len(q) \in Nat
    /\ \A i \in 1 .. Len(p) : r[i] = p[i]
    /\ \A i \in 1 .. Len(r) : i \in 1 .. Len(p) \/ (i - Len(p) \in 1 .. Len(q) /\ r[i] = q[i - Len(p)])

LEMMA Joined ==
    ASSUME NEW p, IsSeq(p), NEW q, IsSeq(q), NEW r, r = p \o q
    PROVE  IsSeq(r) /\ JoinOf(r, p, q)
<1> DEFINE T == Values(p) \cup Values(q)
<1>1. p \in Seq(T) /\ q \in Seq(T)
    BY DEF IsSeq
<1> HIDE DEF T
<1>2. r \in Seq(T) /\ Len(r) = Len(p) + Len(q) /\ Len(p) \in Nat /\ Len(q) \in Nat
    BY <1>1
<1>3. \A i \in 1 .. Len(p) : r[i] = p[i]
    BY <1>1
<1>4. ASSUME NEW i \in 1 .. Len(r), i \notin 1 .. Len(p)
      PROVE  i - Len(p) \in 1 .. Len(q) /\ r[i] = q[i - Len(p)]
    BY <1>1, <1>2, <1>4
<1>5. IsSeq(r)
    BY <1>2, SeqOf
<1>6. JoinOf(r, p, q)
    BY <1>2, <1>3, <1>4 DEF JoinOf
<1> QED BY <1>5, <1>6

\* A stretch of a sequence.
LEMMA Stretch ==
    ASSUME NEW T, NEW s \in Seq(T), NEW a \in Nat \ {0}, NEW b \in Nat, b <= Len(s), NEW r, r = SubSeq(s, a, b)
    PROVE  /\ r \in Seq(T) /\ Len(r) \in Nat
           /\ \A i \in 1 .. Len(r) : a + i - 1 \in a .. b /\ a + i - 1 \in 1 .. Len(s) /\ r[i] = s[a + i - 1]
           /\ \A k \in a .. b : k - a + 1 \in 1 .. Len(r) /\ r[k - a + 1] = s[k]
<1>1. Len(r) = IF a <= b THEN b - a + 1 ELSE 0
    OBVIOUS
<1>2. r \in Seq(T) /\ Len(r) \in Nat
    BY <1>1
<1>3. \A i \in 1 .. Len(r) : r[i] = s[a + i - 1]
    BY <1>1
<1>4. \A i \in 1 .. Len(r) : a + i - 1 \in a .. b /\ a + i - 1 \in 1 .. Len(s)
    BY <1>1
<1>5. ASSUME NEW k \in a .. b PROVE k - a + 1 \in 1 .. Len(r) /\ r[k - a + 1] = s[k]
    <2>1. k - a + 1 \in 1 .. Len(r) /\ a + (k - a + 1) - 1 = k
        BY <1>1
    <2> QED BY <1>3, <2>1
<1> QED BY <1>2, <1>3, <1>4, <1>5

LEMMA Halves ==
    ASSUME NEW n \in Nat
    PROVE  /\ (2 * n) \div 2 = n /\ (2 * n) % 2 = 0
           /\ n > 0 => (2 * n - 1) \div 2 = n - 1 /\ (2 * n - 1) % 2 = 1
           /\ n \div 2 \in Nat /\ (n + 1) \div 2 \in Nat
           /\ n % 2 = 1 \/ n % 2 = 0
           /\ n % 2 = 1 => 2 * ((n + 1) \div 2) = n + 1
           /\ n % 2 = 0 => 2 * ((n + 1) \div 2) = n
OBVIOUS

\* No two members have the same id.
Apart(s) == \A i, j \in 1 .. Len(s) : s[i].id = s[j].id => i = j

LEMMA OnlyApart ==
    ASSUME NEW T, NEW s \in Seq(T), Apart(s), NEW S, NEW r, r = Only(s, S)
    PROVE  /\ r \in Seq(T) /\ Apart(r)
           /\ \A i \in 1 .. Len(r) : r[i] \in S /\ \E k \in 1 .. Len(s) : r[i] = s[k]
           /\ \A k \in 1 .. Len(s) : s[k] \in S => \E i \in 1 .. Len(r) : r[i] = s[k]
<1>1. r \in Seq(T) /\ Filtered(r, s, S, Len(s))
    BY OnlyHolds
<1>2. Distinct(s)
    BY DEF Distinct, Apart
<1>3. Distinct(r)
    BY <1>1, <1>2 DEF Filtered
<1>4. /\ \A i \in 1 .. Len(r) : r[i] \in S /\ \E k \in 1 .. Len(s) : s[k] = r[i]
      /\ \A k \in 1 .. Len(s) : s[k] \in S => \E i \in 1 .. Len(r) : r[i] = s[k]
    BY <1>1, Zenon DEF Filtered
<1>5. ASSUME NEW i \in 1 .. Len(r), NEW j \in 1 .. Len(r), r[i].id = r[j].id PROVE i = j
    <2>1. PICK k \in 1 .. Len(s) : s[k] = r[i]
        BY <1>4
    <2>2. PICK l \in 1 .. Len(s) : s[l] = r[j]
        BY <1>4
    <2>3. r[i] = r[j]
        BY <1>5, <2>1, <2>2 DEF Apart
    <2> QED BY <1>3, <2>3 DEF Distinct
<1>6. Apart(r)
    BY <1>5 DEF Apart
<1>7. \A i \in 1 .. Len(r) : r[i] \in S /\ \E k \in 1 .. Len(s) : r[i] = s[k]
    BY <1>4, Zenon
<1> QED BY <1>1, <1>4, <1>6, <1>7

-----------------------------------------------------------------------------
(* The types, and the numbering of the entries.                              *)
NewNotes == [id: Nat \ {0}, kind: {"note"}, val: {0}, more: {0}]
FileEntries == (UNION {Values(h) : h \in Histories}) \cup NewNotes

\* The fields of the records whose values are not looked at here.
MatchShape(m) ==
    m = [active |-> m.active, cursor |-> m.cursor, mid |-> m.mid, tools |-> m.tools, pend |-> m.pend, sid |-> m.sid]
TailShape(t) ==
    t = [attached |-> t.attached, file |-> t.file, offset |-> t.offset,
         pending |-> t.pending, seen |-> t.seen, skip |-> t.skip]

DiskTyped ==
    /\ disk \in Seq(FileEntries) /\ Numbered(disk)
    /\ torn \in BOOLEAN /\ (torn => Len(disk) > 0)
LoadTyped ==
    /\ load \in [phase: {"none", "read", "sent", "replaying"}, kind: {"load", "fork"}, loaded: BOOLEAN, planned: BOOLEAN]
    /\ load.phase = "read" => ~load.planned
PlanTyped ==
    /\ plan.units \in Seq(FileEntries) /\ Apart(plan.units) /\ plan.size \in Nat
    /\ plan = [units |-> plan.units, size |-> plan.size]
MatchTyped ==
    match.active \in BOOLEAN /\ match.cursor \in Nat \ {0} /\ MatchShape(match)
TailTyped ==
    /\ tail.attached \in BOOLEAN /\ tail.file \in BOOLEAN /\ tail.skip \in BOOLEAN
    /\ tail.offset \in Nat /\ TailShape(tail)
CountTyped ==
    count \in [load: Nat, reload: Nat, write: Nat, race: Nat, rewrite: Nat, other: Nat, foreign: Nat]

HistoryTypes ==
    DiskTyped /\ LoadTyped /\ PlanTyped /\ MatchTyped /\ TailTyped /\ CountTyped /\ IsSeq(shown)

LEMMA SizeIs ==
    ASSUME disk \in Seq(FileEntries), torn \in BOOLEAN, torn => Len(disk) > 0
    PROVE  /\ Size \in Nat /\ Len(disk) \in Nat
           /\ ~torn => Size = 2 * Len(disk) /\ Size \div 2 = Len(disk) /\ Size % 2 = 0
           /\ torn => Size = 2 * Len(disk) - 1 /\ Size \div 2 = Len(disk) - 1 /\ Size % 2 = 1
           /\ Size \div 2 \in Nat /\ Size \div 2 <= Len(disk)
<1>1. Len(disk) \in Nat
    OBVIOUS
<1>2. CASE torn
    <2>1. Size = 2 * Len(disk) - 1
        BY <1>2 DEF Size
    <2> QED BY <1>1, <1>2, <2>1, Halves
<1>3. CASE ~torn
    <2>1. Size = 2 * Len(disk)
        BY <1>1, <1>3 DEF Size
    <2> QED BY <1>1, <1>3, <2>1, Halves
<1> QED BY <1>2, <1>3

LEMMA NumberedApart ==
    ASSUME NEW s, Numbered(s), Len(s) \in Nat
    PROVE  Apart(s)
<1> SUFFICES ASSUME NEW i \in 1 .. Len(s), NEW j \in 1 .. Len(s), s[i].id = s[j].id PROVE i = j
    BY DEF Apart
<1>1. (i < j => s[i].id < s[j].id) /\ (j < i => s[j].id < s[i].id) /\ s[i].id \in Nat
    BY DEF Numbered
<1>2. ~(s[i].id < s[i].id)
    BY <1>1
<1>3. i < j \/ j < i \/ i = j
    OBVIOUS
<1> QED BY <1>1, <1>2, <1>3, Zenon

LEMMA StretchApart ==
    ASSUME NEW T, NEW s \in Seq(T), Apart(s), NEW a \in Nat \ {0}, NEW b \in Nat, b <= Len(s)
    PROVE  Apart(SubSeq(s, a, b)) /\ SubSeq(s, a, b) \in Seq(T)
<1>1. PICK r : r = SubSeq(s, a, b)
    OBVIOUS
<1>2. /\ r \in Seq(T)
      /\ \A i \in 1 .. Len(r) : a + i - 1 \in 1 .. Len(s) /\ r[i] = s[a + i - 1]
    BY <1>1, Stretch
<1>3. ASSUME NEW i \in 1 .. Len(r), NEW j \in 1 .. Len(r), r[i].id = r[j].id PROVE i = j
    <2>1. a + i - 1 = a + j - 1
        BY <1>2, <1>3 DEF Apart
    <2> QED BY <2>1
<1> QED BY <1>1, <1>2, <1>3 DEF Apart

\* The new note comes last.
LEMMA NewNoteIs ==
    ASSUME disk \in Seq(FileEntries), Numbered(disk)
    PROVE  NewNote \in NewNotes /\ \A i \in 1 .. Len(disk) : disk[i].id < NewNote.id
<1>1. PICK S : S = Ids(disk) \cup {0}
    OBVIOUS
<1>2. S \subseteq Nat
    BY <1>1 DEF Ids, Numbered
<1>3. \E m \in S : \A n \in S : n <= m
    <2>1. CASE Len(disk) = 0
        BY <1>1, <2>1 DEF Ids
    <2>2. CASE Len(disk) # 0
        <3>1. Len(disk) \in 1 .. Len(disk)
            BY <2>2
        <3>2. \A i \in 1 .. Len(disk) : disk[i].id <= disk[Len(disk)].id
            <4> SUFFICES ASSUME NEW i \in 1 .. Len(disk) PROVE disk[i].id <= disk[Len(disk)].id
                OBVIOUS
            <4>1. disk[i].id \in Nat /\ disk[Len(disk)].id \in Nat
                BY <3>1 DEF Numbered
            <4>2. i < Len(disk) => disk[i].id < disk[Len(disk)].id
                BY <3>1 DEF Numbered
            <4>3. i < Len(disk) \/ i = Len(disk)
                OBVIOUS
            <4> QED BY <4>1, <4>2, <4>3
        <3>3. disk[Len(disk)].id \in S /\ disk[Len(disk)].id \in Nat
            BY <1>1, <3>1 DEF Ids, Numbered
        <3>4. \A n \in S : n = 0 \/ \E i \in 1 .. Len(disk) : n = disk[i].id
            BY <1>1 DEF Ids
        <3>5. \A n \in S : n <= disk[Len(disk)].id
            BY <3>2, <3>3, <3>4
        <3> QED BY <3>3, <3>5
    <2> QED BY <2>1, <2>2
<1>4. PICK m \in Nat : m = Last(S) /\ \A n \in S : n <= m
    BY <1>2, <1>3 DEF Last
<1>5. NewNote = [id |-> m + 1, kind |-> "note", val |-> 0, more |-> 0]
    BY <1>1, <1>4 DEF NewNote
<1>6. NewNote \in NewNotes /\ NewNote.id = m + 1
    BY <1>5 DEF NewNotes
<1>7. \A i \in 1 .. Len(disk) : disk[i].id \in Nat /\ disk[i].id <= m
    BY <1>1, <1>2, <1>4 DEF Ids
<1>8. \A n \in Nat : n <= m => n < m + 1
    OBVIOUS
<1> QED BY <1>6, <1>7, <1>8

LEMMA DiskGrows ==
    ASSUME disk \in Seq(FileEntries), Numbered(disk), NEW d, d = Append(disk, NewNote)
    PROVE  /\ d \in Seq(FileEntries) /\ Numbered(d) /\ Len(d) = Len(disk) + 1
           /\ \A k \in 1 .. Len(disk) : d[k] = disk[k]
<1>1. NewNote \in FileEntries /\ NewNote.id \in Nat /\ \A i \in 1 .. Len(disk) : disk[i].id < NewNote.id
    <2>1. NewNote \in NewNotes /\ \A i \in 1 .. Len(disk) : disk[i].id < NewNote.id
        BY NewNoteIs
    <2>2. NewNote.id \in Nat
        BY <2>1 DEF NewNotes
    <2>3. NewNote \in FileEntries
        BY <2>1, Zenon DEF FileEntries
    <2> QED BY <2>1, <2>2, <2>3
<1>2. /\ d \in Seq(FileEntries) /\ Len(d) = Len(disk) + 1 /\ Len(disk) \in Nat
      /\ \A k \in 1 .. Len(disk) : d[k] = disk[k]
      /\ d[Len(d)] = NewNote
    BY <1>1
<1>3. \A i \in 1 .. Len(d) : i \in 1 .. Len(disk) \/ i = Len(d)
    BY <1>2
<1>4. \A i \in 1 .. Len(disk) : disk[i].id \in Nat
    BY DEF Numbered
<1>5. \A i \in 1 .. Len(d) : d[i].id \in Nat
    BY <1>1, <1>2, <1>3, <1>4
<1>6. ASSUME NEW i \in 1 .. Len(d), NEW j \in 1 .. Len(d), i < j PROVE d[i].id < d[j].id
    <2>1. i \in 1 .. Len(disk)
        BY <1>2, <1>6
    <2>2. CASE j \in 1 .. Len(disk)
        BY <1>2, <1>6, <2>1, <2>2 DEF Numbered
    <2>3. CASE j = Len(d)
        BY <1>1, <1>2, <2>1, <2>3
    <2> QED BY <1>3, <2>2, <2>3
<1>7. IsSeq(d)
    BY <1>2, SeqOf
<1> QED BY <1>2, <1>5, <1>6, <1>7 DEF Numbered, IsSeq

LEMMA Positions ==
    ASSUME NEW n \in Nat, NEW m, m = n - 1, NEW i \in 1 .. n, NEW k \in 1 .. m
    PROVE  /\ k \in 1 .. n /\ k + 1 \in 1 .. n
           /\ k < i => k \in 1 .. i - 1
           /\ k >= i => k - (i - 1) \in 1 .. n - i /\ i + (k - (i - 1)) = k + 1 /\ k > i - 1
           /\ k < i \/ k >= i
OBVIOUS

LEMMA Concatenated ==
    ASSUME NEW T, NEW p \in Seq(T), NEW q \in Seq(T), NEW k \in 1 .. Len(p) + Len(q)
    PROVE  /\ k \in 1 .. Len(p) => (p \o q)[k] = p[k]
           /\ k > Len(p) => (p \o q)[k] = q[k - Len(p)]
OBVIOUS

LEMMA WithoutLength ==
    ASSUME NEW T, NEW p \in Seq(T), NEW q \in Seq(T), NEW n \in Nat, NEW i \in 1 .. n,
           Len(p) = i - 1, Len(q) = n - i
    PROVE  p \o q \in Seq(T) /\ Len(p \o q) = n - 1 /\ Len(p) + Len(q) = n - 1
<1>1. p \o q \in Seq(T) /\ Len(p \o q) = Len(p) + Len(q)
    OBVIOUS
<1>2. (i - 1) + (n - i) = n - 1
    OBVIOUS
<1> QED BY <1>1, <1>2

LEMMA WithoutAt ==
    ASSUME NEW T, NEW p \in Seq(T), NEW q \in Seq(T), NEW s, NEW n \in Nat, NEW i \in 1 .. n,
           Len(p) = i - 1, \A k \in 1 .. Len(p) : p[k] = s[k],
           Len(q) = n - i, \A k \in 1 .. Len(q) : q[k] = s[i + k],
           NEW k \in 1 .. n - 1
    PROVE  /\ k < i => (p \o q)[k] = s[k]
           /\ k >= i => (p \o q)[k] = s[k + 1]
<1>1. Len(p) + Len(q) = n - 1
    BY WithoutLength
<1>2. /\ k \in 1 .. Len(p) => (p \o q)[k] = p[k]
      /\ k > Len(p) => (p \o q)[k] = q[k - Len(p)]
    BY <1>1, Concatenated
<1>3. CASE k < i
    <2>1. k \in 1 .. i - 1 /\ ~(k >= i)
        BY <1>3
    <2> QED BY <1>2, <2>1
<1>4. CASE k >= i
    <2>1. k - (i - 1) \in 1 .. n - i /\ i + (k - (i - 1)) = k + 1 /\ k > i - 1
        BY <1>4
    <2>2. PICK j : j = k - (i - 1)
        OBVIOUS
    <2>3. (p \o q)[k] = q[j] /\ j \in 1 .. Len(q) /\ i + j = k + 1 /\ ~(k < i)
        BY <1>2, <1>4, <2>1, <2>2
    <2> QED BY <2>3
<1>5. k < i \/ k >= i
    OBVIOUS
<1> QED BY <1>3, <1>4, <1>5

LEMMA Parts ==
    ASSUME NEW T, NEW s \in Seq(T), NEW i \in 1 .. Len(s), NEW p, p = SubSeq(s, 1, i - 1),
           NEW q, q = SubSeq(s, i + 1, Len(s))
    PROVE  /\ p \in Seq(T) /\ Len(p) = i - 1 /\ \A k \in 1 .. Len(p) : p[k] = s[k]
           /\ q \in Seq(T) /\ Len(q) = Len(s) - i /\ \A k \in 1 .. Len(q) : q[k] = s[i + k]
<1>1. Len(s) \in Nat
    OBVIOUS
<1> QED BY <1>1

\* d is s without its i-th member; p and q are what is before and behind it.
Lacks(d, s, n, i) ==
    /\ Len(d) = n - 1
    /\ \A k \in 1 .. n - 1 : (k < i => d[k] = s[k]) /\ (k >= i => d[k] = s[k + 1])
Flank(p, q, s, n, i) ==
    /\ Len(p) = i - 1 /\ \A k \in 1 .. Len(p) : p[k] = s[k]
    /\ Len(q) = n - i /\ \A k \in 1 .. Len(q) : q[k] = s[i + k]

LEMMA WithoutBoth ==
    ASSUME NEW T, NEW s, NEW n \in Nat, NEW i \in 1 .. n, NEW p \in Seq(T), NEW q \in Seq(T),
           Flank(p, q, s, n, i)
    PROVE  p \o q \in Seq(T) /\ Lacks(p \o q, s, n, i)
<1>1. /\ Len(p) = i - 1 /\ \A k \in 1 .. Len(p) : p[k] = s[k]
      /\ Len(q) = n - i /\ \A k \in 1 .. Len(q) : q[k] = s[i + k]
    BY Zenon DEF Flank
<1>2. p \o q \in Seq(T) /\ Len(p \o q) = n - 1
    BY <1>1, WithoutLength
<1>3. ASSUME NEW k \in 1 .. n - 1
      PROVE  (k < i => (p \o q)[k] = s[k]) /\ (k >= i => (p \o q)[k] = s[k + 1])
    BY <1>1, WithoutAt
<1> QED BY <1>2, <1>3, Zenon DEF Lacks

LEMMA Without ==
    ASSUME NEW T, NEW s \in Seq(T), NEW i \in 1 .. Len(s)
    PROVE  LET d == SubSeq(s, 1, i - 1) \o SubSeq(s, i + 1, Len(s))
           IN  d \in Seq(T) /\ Lacks(d, s, Len(s), i)
<1>1. Len(s) \in Nat
    OBVIOUS
<1>2. PICK p, q : p = SubSeq(s, 1, i - 1) /\ q = SubSeq(s, i + 1, Len(s))
    OBVIOUS
<1>3. /\ p \in Seq(T) /\ Len(p) = i - 1 /\ \A k \in 1 .. Len(p) : p[k] = s[k]
      /\ q \in Seq(T) /\ Len(q) = Len(s) - i /\ \A k \in 1 .. Len(q) : q[k] = s[i + k]
    BY <1>2, Parts
<1>4. p \in Seq(T) /\ q \in Seq(T) /\ Flank(p, q, s, Len(s), i)
    BY <1>3, Zenon DEF Flank
<1>5. p \o q \in Seq(T) /\ Lacks(p \o q, s, Len(s), i)
    BY <1>1, <1>4, WithoutBoth
<1> QED BY <1>2, <1>5, Zenon

LEMMA WithoutNumbered ==
    ASSUME NEW T, NEW s \in Seq(T), NEW d \in Seq(T), NEW i \in 1 .. Len(s), Lacks(d, s, Len(s), i), Numbered(s)
    PROVE  Numbered(d)
<1>1. Len(s) \in Nat /\ Len(d) = Len(s) - 1
    BY DEF Lacks
<1>2. \A k \in 1 .. Len(d) : k \in 1 .. Len(s) /\ k + 1 \in 1 .. Len(s) /\ (k < i \/ k >= i)
    BY <1>1, Positions
<1>3. \A k \in 1 .. Len(s) : s[k].id \in Nat
    BY DEF Numbered
<1>4. \A k \in 1 .. Len(d) : d[k].id \in Nat
    BY <1>1, <1>2, <1>3 DEF Lacks
<1>5. \A m, n \in 1 .. Len(s) : m < n => s[m].id < s[n].id
    BY DEF Numbered
<1>6. ASSUME NEW k \in 1 .. Len(d), NEW l \in 1 .. Len(d), k < l PROVE d[k].id < d[l].id
    <2>1. /\ k \in 1 .. Len(s) /\ k + 1 \in 1 .. Len(s) /\ (k < i \/ k >= i)
          /\ l \in 1 .. Len(s) /\ l + 1 \in 1 .. Len(s) /\ (l < i \/ l >= i)
        BY <1>2
    <2>2. /\ k \in Int /\ l \in Int /\ i \in Int
          /\ l < i => k < i
          /\ k + 1 < l + 1 /\ k < l + 1
        BY <1>6
    <2>3. /\ k < i => d[k] = s[k]
          /\ k >= i => d[k] = s[k + 1]
          /\ l < i => d[l] = s[l]
          /\ l >= i => d[l] = s[l + 1]
        BY <1>1, Zenon DEF Lacks
    <2>4. /\ s[k].id < s[l].id /\ s[k].id < s[l + 1].id /\ s[k + 1].id < s[l + 1].id
        BY <1>5, <1>6, <2>1, <2>2, Zenon
    <2> QED BY <2>1, <2>2, <2>3, <2>4, Zenon
<1>7. IsSeq(d)
    BY SeqOf
<1> QED BY <1>4, <1>6, <1>7 DEF Numbered, IsSeq

LEMMA DiskShrinks ==
    ASSUME disk \in Seq(FileEntries), Numbered(disk), NEW i \in 1 .. Len(disk),
           NEW d, d = SubSeq(disk, 1, i - 1) \o SubSeq(disk, i + 1, Len(disk))
    PROVE  d \in Seq(FileEntries) /\ Numbered(d)
<1>1. d \in Seq(FileEntries) /\ Lacks(d, disk, Len(disk), i)
    BY Without, Zenon
<1> QED BY <1>1, WithoutNumbered, Zenon

LEMMA FirstIs ==
    ASSUME NEW S, S \subseteq Nat, S # {}
    PROVE  First(S) \in S
<1>1. PICK m \in S : \A n \in S : m <= n
    BY Smallest
<1> QED BY <1>1 DEF First

\* What observing a frame does: the matcher stays where it is, or it goes
\* behind a unit and the notes before that unit are shown.
Stays(f) ==
    match'.active = match.active /\ match'.cursor = match.cursor /\ Forward(<<>>, f)
Advances(f) ==
    /\ match.active /\ match'.active
    /\ \E idx \in match.cursor .. Len(plan.units) :
           /\ match'.cursor = idx + 1
           /\ Forward(Notes(SubSeq(plan.units, match.cursor, idx - 1)), f)

Observed(f) == (Stays(f) \/ Advances(f)) /\ MatchShape(match') /\ match'.cursor \in Nat \ {0}

LEMMA AdvanceIs ==
    ASSUME HistoryTypes, match.active, NEW f, NEW sig, NEW m, MatchShape(m), m.active = match.active,
           NEW idx, idx = firstMatch(sig), idx # 0, advanceTo(idx, f, m)
    PROVE  Observed(f)
<1>1. match.cursor \in Nat \ {0} /\ Len(plan.units) \in Nat
    BY DEF HistoryTypes, DiskTyped, PlanTyped, MatchTyped, TailTyped
<1>2. idx \in match.cursor .. Len(plan.units)
    <2> DEFINE found == {i \in match.cursor .. Len(plan.units) : Sig(plan.units, i) = sig}
    <2>1. found # {} /\ idx = First(found)
        BY DEF firstMatch
    <2>2. found \subseteq Nat
        BY <1>1
    <2>3. First(found) \in found
        BY <2>1, <2>2, FirstIs
    <2> QED BY <2>1, <2>3
<1>3. match' = [m EXCEPT !.cursor = idx + 1, !.sid = f.sid]
    BY DEF advanceTo
<1>4. match'.active = m.active /\ match'.cursor = idx + 1 /\ MatchShape(match')
    BY <1>3 DEF MatchShape
<1>5. Forward(Notes(SubSeq(plan.units, match.cursor, idx - 1)), f)
    BY DEF advanceTo
<1>6. idx + 1 \in Nat \ {0}
    BY <1>1, <1>2
<1>7. Advances(f)
    BY <1>2, <1>4, <1>5 DEF Advances
<1> QED BY <1>4, <1>6, <1>7 DEF Observed

LEMMA PassIs ==
    ASSUME HistoryTypes, NEW f, NEW m, MatchShape(m), m.active = match.active, m.cursor = match.cursor,
           passThrough(f, m)
    PROVE  Observed(f)
<1>1. Stays(f)
    BY DEF passThrough, Stays
<1>2. MatchShape(match') /\ match'.cursor \in Nat \ {0}
    BY DEF HistoryTypes, DiskTyped, PlanTyped, MatchTyped, TailTyped, passThrough
<1> QED BY <1>1, <1>2 DEF Observed

LEMMA ObserveIs ==
    ASSUME HistoryTypes, NEW f, observe(f)
    PROVE  Observed(f)
<1>1. MatchShape(match)
    BY DEF HistoryTypes, DiskTyped, PlanTyped, MatchTyped, TailTyped
<1>2. CASE ~match.active \/ (match.sid # "none" /\ match.sid # f.sid)
    <2>1. passThrough(f, match)
        BY <1>2 DEF observe
    <2> QED BY <1>1, <2>1, PassIs
<1>3. CASE match.active /\ f.u = "chunk" /\ observeChunk(f)
    <2>1. PICK idx, m : /\ idx = firstMatch([u |-> "chunk", val |-> f.val])
                        /\ m = [match EXCEPT !.mid = f.mid]
        OBVIOUS
    <2>2. MatchShape(m) /\ m.active = match.active /\ m.cursor = match.cursor
        BY <1>1, <2>1 DEF MatchShape
    <2>3. \/ passThrough(f, match)
          \/ idx # 0 /\ advanceTo(idx, f, m)
          \/ passThrough(f, m)
        BY <1>3, <2>1 DEF observeChunk
    <2>4. ASSUME idx # 0, advanceTo(idx, f, m) PROVE Observed(f)
        <3>1. PICK sig : idx = firstMatch(sig)
            BY <2>1
        <3> QED BY <1>3, <2>2, <2>4, <3>1, AdvanceIs
    <2>5. ASSUME passThrough(f, m) PROVE Observed(f)
        BY <2>2, <2>5, PassIs
    <2>6. ASSUME passThrough(f, match) PROVE Observed(f)
        BY <1>1, <2>6, PassIs
    <2> QED BY <2>3, <2>4, <2>5, <2>6
<1>4. CASE match.active /\ observeTool(f)
    <2>1. PICK idx, m, p, n : /\ idx = firstMatch([u |-> f.u, val |-> f.val])
                              /\ m = [match EXCEPT !.tools = @ \cup {f.val}]
                              /\ p = [match EXCEPT !.pend = 0]
                              /\ n = [m EXCEPT !.pend = f.val]
        OBVIOUS
    <2>2. /\ MatchShape(m) /\ m.active = match.active /\ m.cursor = match.cursor
          /\ MatchShape(p) /\ p.active = match.active /\ p.cursor = match.cursor
        BY <1>1, <2>1 DEF MatchShape
    <2>3. MatchShape(n) /\ n.active = match.active
        BY <2>1, <2>2 DEF MatchShape
    <2>4. \/ passThrough(f, match) \/ passThrough(f, m) \/ passThrough(f, p)
          \/ idx # 0 /\ advanceTo(idx, f, m)
          \/ idx # 0 /\ advanceTo(idx, f, n)
        BY <1>4, <2>1 DEF observeTool
    <2>5. ASSUME idx # 0, advanceTo(idx, f, m) PROVE Observed(f)
        BY <1>4, <2>1, <2>2, <2>5, AdvanceIs
    <2>6. ASSUME idx # 0, advanceTo(idx, f, n) PROVE Observed(f)
        BY <1>4, <2>1, <2>3, <2>6, AdvanceIs
    <2>7. ASSUME passThrough(f, m) PROVE Observed(f)
        BY <2>2, <2>7, PassIs
    <2>8. ASSUME passThrough(f, p) PROVE Observed(f)
        BY <2>2, <2>8, PassIs
    <2>9. ASSUME passThrough(f, match) PROVE Observed(f)
        BY <1>1, <2>9, PassIs
    <2> QED BY <2>4, <2>5, <2>6, <2>7, <2>8, <2>9
<1> QED BY <1>2, <1>3, <1>4 DEF observe

-----------------------------------------------------------------------------
(* A poll.                                                                   *)
Polled == IF tail.file THEN tail
          ELSE [tail EXCEPT !.file = TRUE, !.skip = FALSE, !.offset = IF tail.skip THEN Size ELSE tail.offset]

PollOf(t, o, from, new) ==
    /\ t = Polled
    /\ o = IF Size < t.offset THEN 0 ELSE t.offset
    /\ from = IF o % 2 = 1 /\ o = t.offset /\ t.pending = disk[(o + 1) \div 2].id
              THEN (o + 1) \div 2 ELSE (o + 1) \div 2 + 1
    /\ LET lines == SubSeq(disk, from, Size \div 2)
       IN  new = Only(lines, {e \in Values(lines) : IsNote(e) /\ e.id \notin t.seen})
    /\ LET p == IF Size = o THEN (IF o = t.offset THEN t.pending ELSE 0)
                ELSE IF Size % 2 = 1 THEN disk[Len(disk)].id ELSE 0
       IN  tail' = [attached |-> t.attached, file |-> t.file, offset |-> Size, pending |-> p,
                    seen |-> t.seen \cup Ids(new), skip |-> t.skip]
    /\ shown' = shown \o Shown(new, "tail")

LEMMA PolledIs ==
    ASSUME HistoryTypes
    PROVE  /\ TailShape(Polled) /\ Polled.attached = tail.attached /\ Polled.file /\ Polled.seen = tail.seen
           /\ Polled.pending = tail.pending /\ Polled.offset \in Nat /\ Polled.skip \in BOOLEAN
           /\ tail.file => Polled = tail
           /\ ~tail.file => ~Polled.skip /\ Polled.offset = IF tail.skip THEN Size ELSE tail.offset
<1>1. Size \in Nat /\ tail.offset \in Nat /\ TailShape(tail) /\ tail.file \in BOOLEAN /\ tail.skip \in BOOLEAN
    BY SizeIs DEF HistoryTypes, DiskTyped, PlanTyped, MatchTyped, TailTyped
<1>2. CASE tail.file
    <2>1. Polled = tail
        BY <1>2 DEF Polled
    <2> QED BY <1>1, <1>2, <2>1
<1>3. CASE ~tail.file
    <2>1. PICK o : o = IF tail.skip THEN Size ELSE tail.offset
        OBVIOUS
    <2>2. Polled = [attached |-> tail.attached, file |-> TRUE, offset |-> o,
                    pending |-> tail.pending, seen |-> tail.seen, skip |-> FALSE]
        BY <1>1, <1>3, <2>1 DEF Polled, TailShape
    <2>3. o \in Nat
        BY <1>1, <2>1
    <2> QED BY <1>3, <2>1, <2>2, <2>3 DEF TailShape
<1> QED BY <1>1, <1>2, <1>3

LEMMA PollIs ==
    ASSUME HistoryTypes, Poll
    PROVE  \E t, o, from, new : PollOf(t, o, from, new)
<1>1. PICK t : t = Polled
    OBVIOUS
<1>2. PICK r : r = readNewLines(t)
    OBVIOUS
<1>3. PICK new : new = Only(r.lines, {e \in Values(r.lines) : IsNote(e) /\ e.id \notin t.seen})
    OBVIOUS
<1>4. tail' = [r.tail EXCEPT !.seen = @ \cup Ids(new)] /\ shown' = shown \o Shown(new, "tail")
    BY <1>1, <1>2, <1>3 DEF Poll, Polled
<1>5. PICK o : o = IF Size < t.offset THEN 0 ELSE t.offset
    OBVIOUS
<1>6. PICK from : from = IF o % 2 = 1 /\ o = t.offset /\ t.pending = disk[(o + 1) \div 2].id
                         THEN (o + 1) \div 2 ELSE (o + 1) \div 2 + 1
    OBVIOUS
<1>7. PICK p : p = IF Size = o THEN (IF o = t.offset THEN t.pending ELSE 0)
                   ELSE IF Size % 2 = 1 THEN disk[Len(disk)].id ELSE 0
    OBVIOUS
<1>8. r = [lines |-> SubSeq(disk, from, Size \div 2), tail |-> [t EXCEPT !.offset = Size, !.pending = p]]
    BY <1>2, <1>5, <1>6, <1>7, Zenon DEF readNewLines
<1>9. r.lines = SubSeq(disk, from, Size \div 2) /\ r.tail = [t EXCEPT !.offset = Size, !.pending = p]
    BY <1>8
<1>10. TailShape(t)
    BY <1>1, PolledIs
<1>11. tail' = [attached |-> t.attached, file |-> t.file, offset |-> Size, pending |-> p,
                seen |-> t.seen \cup Ids(new), skip |-> t.skip]
    BY <1>4, <1>9, <1>10 DEF TailShape
<1>12. LET lines == SubSeq(disk, from, Size \div 2)
       IN  new = Only(lines, {e \in Values(lines) : IsNote(e) /\ e.id \notin t.seen})
    BY <1>3, <1>9, Zenon
<1>13. PollOf(t, o, from, new)
    BY <1>1, <1>4, <1>5, <1>6, <1>7, <1>11, <1>12, Zenon DEF PollOf
<1> QED BY <1>13

LEMMA FromIs ==
    ASSUME NEW o \in Nat, NEW w, NEW from, from = IF o % 2 = 1 /\ w THEN (o + 1) \div 2 ELSE (o + 1) \div 2 + 1
    PROVE  from \in Nat \ {0}
<1>1. (o + 1) \div 2 \in Nat /\ (o % 2 = 1 => 2 * ((o + 1) \div 2) = o + 1)
    BY Halves
<1>2. PICK h \in Nat : h = (o + 1) \div 2 /\ (o % 2 = 1 => 2 * h = o + 1)
    BY <1>1
<1>3. o % 2 = 1 => h > 0
    BY <1>2
<1>4. from = h \/ from = h + 1
    BY <1>2
<1>5. from = h => o % 2 = 1
    BY <1>2
<1> QED BY <1>2, <1>3, <1>4, <1>5

LEMMA PollFacts ==
    ASSUME HistoryTypes, NEW t, NEW o, NEW from, NEW new, PollOf(t, o, from, new)
    PROVE  /\ o \in Nat /\ from \in Nat \ {0}
           /\ new \in Seq(FileEntries) /\ Apart(new) /\ Ids(new) \cap tail.seen = {}
           /\ \A k \in from .. Size \div 2 : IsNote(disk[k]) => disk[k].id \in tail.seen \cup Ids(new)
<1>1. /\ disk \in Seq(FileEntries) /\ Apart(disk) /\ Size \in Nat
      /\ Size \div 2 \in Nat /\ Size \div 2 <= Len(disk)
    BY SizeIs, NumberedApart DEF HistoryTypes, DiskTyped, PlanTyped, MatchTyped, TailTyped
<1>2. t = Polled /\ t.offset \in Nat /\ t.seen = tail.seen
    BY PolledIs DEF PollOf
<1>3. o \in Nat
    BY <1>1, <1>2 DEF PollOf
<1>4. from \in Nat \ {0}
    <2>1. PICK w : w = (o = t.offset /\ t.pending = disk[(o + 1) \div 2].id)
        OBVIOUS
    <2>2. from = IF o % 2 = 1 /\ w THEN (o + 1) \div 2 ELSE (o + 1) \div 2 + 1
        BY <2>1, Zenon DEF PollOf
    <2> QED BY <1>3, <2>2, FromIs
<1>5. PICK b \in Nat : b = Size \div 2 /\ b <= Len(disk)
    BY <1>1
<1>6. PICK lines : lines = SubSeq(disk, from, b)
    OBVIOUS
<1>7. PICK S : S = {e \in Values(lines) : IsNote(e) /\ e.id \notin t.seen}
    OBVIOUS
<1>8. new = Only(lines, S)
    BY <1>5, <1>6, <1>7, Zenon DEF PollOf
<1>9. lines \in Seq(FileEntries) /\ Apart(lines)
    BY <1>1, <1>4, <1>5, <1>6, StretchApart, Zenon
<1>10. /\ new \in Seq(FileEntries) /\ Apart(new)
       /\ \A i \in 1 .. Len(new) : new[i] \in S
       /\ \A i \in 1 .. Len(lines) : lines[i] \in S => \E j \in 1 .. Len(new) : new[j] = lines[i]
    BY <1>8, <1>9, OnlyApart
<1>11. Ids(new) \cap tail.seen = {}
    BY <1>2, <1>7, <1>10 DEF Ids
<1>12. ASSUME NEW k \in from .. b, IsNote(disk[k]), disk[k].id \notin tail.seen PROVE disk[k].id \in Ids(new)
    <2>1. k - from + 1 \in 1 .. Len(lines) /\ lines[k - from + 1] = disk[k]
        BY <1>1, <1>4, <1>5, <1>6, Stretch
    <2>2. PICK i \in 1 .. Len(lines) : lines[i] = disk[k]
        BY <2>1
    <2>3. DOMAIN lines = 1 .. Len(lines)
        BY <1>9, SeqOf
    <2>4. lines[i] \in S
        BY <1>2, <1>7, <1>12, <2>2, <2>3 DEF Values
    <2>5. PICK j \in 1 .. Len(new) : new[j] = lines[i]
        BY <1>10, <2>4
    <2> QED BY <2>2, <2>5 DEF Ids
<1> QED BY <1>3, <1>4, <1>5, <1>10, <1>11, <1>12

-----------------------------------------------------------------------------
(* The transcript.                                                           *)
NoteIds(s) == {s[i].id : i \in {k \in 1 .. Len(s) : s[k].by # "frame"}}
Once(s) == \A i, j \in 1 .. Len(s) : s[i].by # "frame" /\ s[j].by # "frame" /\ s[i].id = s[j].id => i = j

LEMMA OnceJoined ==
    ASSUME NEW p, IsSeq(p), Once(p), NEW q, IsSeq(q), Once(q), NoteIds(p) \cap NoteIds(q) = {}
    PROVE  IsSeq(p \o q) /\ Once(p \o q) /\ NoteIds(p \o q) \subseteq NoteIds(p) \cup NoteIds(q)
<1>1. PICK r : r = p \o q
    OBVIOUS
<1>2. /\ IsSeq(r) /\ Len(p) \in Nat /\ Len(q) \in Nat
      /\ \A i \in 1 .. Len(p) : r[i] = p[i]
      /\ \A i \in 1 .. Len(r) : i \in 1 .. Len(p) \/ (i - Len(p) \in 1 .. Len(q) /\ r[i] = q[i - Len(p)])
    <2>1. IsSeq(r) /\ JoinOf(r, p, q)
        BY <1>1, Joined, Zenon
    <2> QED BY <2>1, Zenon DEF JoinOf
<1>3. ASSUME NEW i \in 1 .. Len(r), r[i].by # "frame"
      PROVE  \/ i \in 1 .. Len(p) /\ r[i] = p[i] /\ r[i].id \in NoteIds(p)
             \/ i - Len(p) \in 1 .. Len(q) /\ r[i] = q[i - Len(p)] /\ r[i].id \in NoteIds(q)
    <2>1. CASE i \in 1 .. Len(p)
        BY <1>2, <1>3, <2>1 DEF NoteIds
    <2>2. CASE i - Len(p) \in 1 .. Len(q) /\ r[i] = q[i - Len(p)]
        <3>1. PICK k \in 1 .. Len(q) : k = i - Len(p)
            BY <2>2
        <3>2. r[i] = q[k]
            BY <2>2, <3>1
        <3>3. r[i].id \in NoteIds(q)
            BY <1>3, <3>2 DEF NoteIds
        <3> QED BY <2>2, <3>3
    <2> QED BY <1>2, <2>1, <2>2
<1>4. NoteIds(r) \subseteq NoteIds(p) \cup NoteIds(q)
    BY <1>3 DEF NoteIds
<1>5. ASSUME NEW i \in 1 .. Len(r), NEW j \in 1 .. Len(r), r[i].by # "frame", r[j].by # "frame", r[i].id = r[j].id
      PROVE  i = j
    <2>1. CASE i \in 1 .. Len(p) /\ r[i] = p[i] /\ j \in 1 .. Len(p) /\ r[j] = p[j]
        BY <1>5, <2>1 DEF Once
    <2>2. CASE /\ i - Len(p) \in 1 .. Len(q) /\ r[i] = q[i - Len(p)]
               /\ j - Len(p) \in 1 .. Len(q) /\ r[j] = q[j - Len(p)]
        <3>1. i - Len(p) = j - Len(p)
            BY <1>5, <2>2 DEF Once
        <3> QED BY <1>2, <3>1
    <2> QED BY <1>3, <1>5, <2>1, <2>2
<1>6. Once(r)
    BY <1>5 DEF Once
<1> QED BY <1>1, <1>2, <1>4, <1>6

LEMMA ShownIs ==
    ASSUME NEW T, NEW s \in Seq(T), Apart(s), NEW how, how # "frame"
    PROVE  IsSeq(Shown(s, how)) /\ Once(Shown(s, how)) /\ NoteIds(Shown(s, how)) = Ids(s)
<1>1. PICK r : r = Shown(s, how)
    OBVIOUS
<1>2. Len(s) \in Nat /\ r = [i \in 1 .. Len(s) |-> [id |-> s[i].id, by |-> how]]
    BY <1>1 DEF Shown
<1>3. DOMAIN r = 1 .. Len(s) /\ r \in [1 .. Len(s) -> Values(r)]
    BY <1>2 DEF Values
<1>4. IsSeq(r) /\ Len(r) = Len(s)
    BY <1>2, <1>3 DEF IsSeq
<1>5. \A i \in 1 .. Len(s) : r[i].id = s[i].id /\ r[i].by = how
    BY <1>2
<1>6. Once(r)
    BY <1>4, <1>5 DEF Once, Apart
<1>7. NoteIds(r) = Ids(s)
    BY <1>4, <1>5 DEF NoteIds, Ids
<1> QED BY <1>1, <1>4, <1>6, <1>7

LEMMA OneRow ==
    ASSUME NEW e
    PROVE  IsSeq(<<e>>) /\ Len(<<e>>) = 1 /\ <<e>>[1] = e
<1>1. <<e>> \in Seq({e}) /\ Len(<<e>>) = 1 /\ <<e>>[1] = e
    OBVIOUS
<1> QED BY <1>1, SeqOf

LEMMA NoRow ==
    IsSeq(<<>>) /\ Len(<<>>) = 0
<1>1. <<>> \in Seq({}) /\ Len(<<>>) = 0
    OBVIOUS
<1> QED BY <1>1, SeqOf

\* The row of a frame is not a note's.
LEMMA FrameIs ==
    ASSUME NEW f, NEW r, r = IF f.first THEN <<[id |-> f.mid, by |-> "frame"]>> ELSE <<>>
    PROVE  IsSeq(r) /\ Once(r) /\ NoteIds(r) = {}
<1>1. CASE f.first
    <2>1. PICK e : e = [id |-> f.mid, by |-> "frame"]
        OBVIOUS
    <2>2. r = <<e>> /\ e.by = "frame"
        BY <1>1, <2>1
    <2>3. IsSeq(r) /\ Len(r) = 1 /\ r[1] = e
        BY <2>2, OneRow, Zenon
    <2>4. \A i \in 1 .. Len(r) : r[i].by = "frame"
        BY <2>2, <2>3
    <2> QED BY <2>3, <2>4, Zenon DEF Once, NoteIds
<1>2. CASE ~f.first
    <2>1. r = <<>>
        BY <1>2
    <2>2. IsSeq(r) /\ Len(r) = 0 /\ \A i \in 1 .. Len(r) : FALSE
        <3>1. IsSeq(r) /\ Len(r) = 0
            BY <2>1, NoRow, Zenon
        <3> QED BY <3>1
    <2>3. Once(r)
        BY <2>2 DEF Once
    <2>4. NoteIds(r) = {}
        BY <2>2 DEF NoteIds
    <2> QED BY <2>2, <2>3, <2>4
<1> QED BY <1>1, <1>2

\* A frame is forwarded: its notes must be new.
LEMMA ForwardIs ==
    ASSUME IsSeq(shown), Once(shown), NEW T, NEW N \in Seq(T), Apart(N), NoteIds(shown) \cap Ids(N) = {},
           NEW f, Forward(N, f)
    PROVE  IsSeq(shown') /\ Once(shown') /\ NoteIds(shown') \subseteq NoteIds(shown) \cup Ids(N)
<1>1. PICK n, r : n = Shown(N, "unit") /\ r = IF f.first THEN <<[id |-> f.mid, by |-> "frame"]>> ELSE <<>>
    OBVIOUS
<1>2. IsSeq(n) /\ Once(n) /\ NoteIds(n) = Ids(N)
    BY <1>1, ShownIs
<1>3. IsSeq(r) /\ Once(r) /\ NoteIds(r) = {}
    BY <1>1, FrameIs
<1>4. shown' = (shown \o n) \o r
    BY <1>1, Zenon DEF Forward
<1>5. /\ IsSeq(shown \o n) /\ Once(shown \o n)
      /\ NoteIds(shown \o n) \subseteq NoteIds(shown) \cup Ids(N)
    BY <1>2, OnceJoined
<1>6. /\ IsSeq((shown \o n) \o r) /\ Once((shown \o n) \o r)
      /\ NoteIds((shown \o n) \o r) \subseteq NoteIds(shown \o n) \cup NoteIds(r)
    BY <1>3, <1>5, OnceJoined
<1> QED BY <1>3, <1>4, <1>5, <1>6

\* It is a sequence still, whatever the notes.
LEMMA Longer ==
    ASSUME NEW p, IsSeq(p), NEW T, NEW s \in Seq(T), NEW how
    PROVE  IsSeq(p \o Shown(s, how))
<1>1. PICK r : r = Shown(s, how)
    OBVIOUS
<1>2. Len(s) \in Nat /\ r = [i \in 1 .. Len(s) |-> [id |-> s[i].id, by |-> how]]
    BY <1>1 DEF Shown
<1>3. DOMAIN r = 1 .. Len(s) /\ r \in [1 .. Len(s) -> Values(r)]
    BY <1>2 DEF Values
<1>4. IsSeq(r)
    BY <1>2, <1>3 DEF IsSeq
<1> QED BY <1>1, <1>4, Joined

LEMMA ForwardSeq ==
    ASSUME IsSeq(shown), NEW T, NEW N \in Seq(T), NEW f, Forward(N, f)
    PROVE  IsSeq(shown')
<1>1. PICK r : r = IF f.first THEN <<[id |-> f.mid, by |-> "frame"]>> ELSE <<>>
    OBVIOUS
<1>2. IsSeq(r)
    BY <1>1, FrameIs
<1>3. shown' = (shown \o Shown(N, "unit")) \o r
    BY <1>1, Zenon DEF Forward
<1>4. IsSeq(shown \o Shown(N, "unit"))
    BY Longer
<1> QED BY <1>2, <1>3, <1>4, Joined, Zenon

\* The notes of a stretch of the plan.
TakenFrom(N, s, a, b) == \A x \in Ids(N) : \E k \in a .. b : x = s[k].id

LEMMA NotesOf ==
    ASSUME NEW T, NEW s \in Seq(T), Apart(s), NEW a \in Nat \ {0}, NEW b \in Nat, b <= Len(s),
           NEW N, N = Notes(SubSeq(s, a, b))
    PROVE  N \in Seq(T) /\ Apart(N) /\ TakenFrom(N, s, a, b)
<1>1. PICK r : r = SubSeq(s, a, b)
    OBVIOUS
<1>2. r \in Seq(T) /\ Apart(r)
    BY <1>1, StretchApart
<1>3. PICK S : N = Only(r, S)
    BY <1>1, Zenon DEF Notes
<1>4. N \in Seq(T) /\ Apart(N) /\ \A i \in 1 .. Len(N) : \E k \in 1 .. Len(r) : N[i] = r[k]
    BY <1>2, <1>3, OnlyApart
<1>5. \A i \in 1 .. Len(r) : a + i - 1 \in a .. b /\ r[i] = s[a + i - 1]
    BY <1>1, Stretch
<1>6. \A i \in 1 .. Len(r) : \E k \in a .. b : r[i] = s[k]
    BY <1>5
<1>7. \A x \in Ids(N) : \E k \in a .. b : x = s[k].id
    BY <1>4, <1>6 DEF Ids
<1> QED BY <1>4, <1>7 DEF TakenFrom

\* The units that the matcher passes.
LEMMA PassedIs ==
    ASSUME HistoryTypes, NEW idx \in match.cursor .. Len(plan.units), NEW N,
           N = Notes(SubSeq(plan.units, match.cursor, idx - 1))
    PROVE  N \in Seq(FileEntries) /\ Apart(N) /\ TakenFrom(N, plan.units, match.cursor, idx - 1)
<1>1. match.cursor \in Nat \ {0} /\ plan.units \in Seq(FileEntries) /\ Apart(plan.units) /\ Len(plan.units) \in Nat
    BY DEF HistoryTypes, DiskTyped, PlanTyped, MatchTyped, TailTyped
<1>2. idx - 1 \in Nat /\ idx - 1 <= Len(plan.units)
    BY <1>1
<1> QED BY <1>1, <1>2, NotesOf

LEMMA RestIs ==
    ASSUME HistoryTypes, NEW N, N = Notes(SubSeq(plan.units, match.cursor, Len(plan.units)))
    PROVE  N \in Seq(FileEntries) /\ Apart(N) /\ TakenFrom(N, plan.units, match.cursor, Len(plan.units))
<1>1. match.cursor \in Nat \ {0} /\ plan.units \in Seq(FileEntries) /\ Apart(plan.units) /\ Len(plan.units) \in Nat
    BY DEF HistoryTypes, DiskTyped, PlanTyped, MatchTyped, TailTyped
<1> QED BY <1>1, NotesOf

-----------------------------------------------------------------------------
(* The types are kept.                                                       *)

LEMMA WholeIs ==
    ASSUME HistoryTypes
    PROVE  /\ WholeLines \in Seq(FileEntries) /\ Apart(WholeLines)
           /\ ~torn => WholeLines = disk
           /\ \A k \in 1 .. Len(WholeLines) : k \in 1 .. Len(disk)
<1>1. /\ disk \in Seq(FileEntries) /\ Numbered(disk) /\ Len(disk) \in Nat
      /\ Size \div 2 \in Nat /\ Size \div 2 <= Len(disk) /\ (~torn => Size \div 2 = Len(disk))
    BY SizeIs DEF HistoryTypes, DiskTyped
<1>2. Apart(disk)
    BY <1>1, NumberedApart
<1>3. PICK n \in Nat : n = Size \div 2 /\ n <= Len(disk)
    BY <1>1
<1>4. SubSeq(disk, 1, n) \in Seq(FileEntries) /\ Apart(SubSeq(disk, 1, n))
    BY <1>1, <1>2, <1>3, StretchApart
<1>5. n = Len(disk) => SubSeq(disk, 1, n) = disk
    BY <1>1, <1>3
<1>6. \A k \in 1 .. Len(SubSeq(disk, 1, n)) : k \in 1 .. Len(disk)
    BY <1>1, <1>3
<1> QED BY <1>1, <1>3, <1>4, <1>5, <1>6 DEF WholeLines

LEMMA CountsUp ==
    ASSUME CountTyped, NEW x \in Nat, NEW y \in Nat
    PROVE  LET C == [load: Nat, reload: Nat, write: Nat, race: Nat, rewrite: Nat, other: Nat, foreign: Nat]
               c == [count EXCEPT !.load = @ + 1, !.reload = @ + x, !.race = @ + y]
           IN  /\ c \in C /\ c.race = count.race + y /\ c.rewrite = count.rewrite /\ c.reload = count.reload + x
               /\ [count EXCEPT !.write = @ + 1, !.race = @ + x] \in C
<1> DEFINE C == [load: Nat, reload: Nat, write: Nat, race: Nat, rewrite: Nat, other: Nat, foreign: Nat]
<1>1. count \in C
    BY DEF CountTyped
<1>2. \A c \in C, n \in Nat : [c EXCEPT !.race = n] \in C
    OBVIOUS
<1>3. \A c \in C, n \in Nat : [c EXCEPT !.load = n] \in C
    OBVIOUS
<1>4. \A c \in C, n \in Nat : [c EXCEPT !.reload = n] \in C
    OBVIOUS
<1>5. \A c \in C, n \in Nat : [c EXCEPT !.write = n] \in C
    OBVIOUS
<1>6. count.load + 1 \in Nat /\ count.reload + x \in Nat /\ count.race + y \in Nat /\ count.race + x \in Nat
      /\ count.write + 1 \in Nat
    BY <1>1
<1>7. [count EXCEPT !.load = @ + 1, !.reload = @ + x, !.race = @ + y]
        = [[[count EXCEPT !.load = count.load + 1] EXCEPT !.reload = count.reload + x] EXCEPT !.race = count.race + y]
    BY <1>1
<1>a. PICK c : c = [count EXCEPT !.load = @ + 1, !.reload = @ + x, !.race = @ + y]
    OBVIOUS
<1>b. c.race = count.race + y /\ c.rewrite = count.rewrite /\ c.reload = count.reload + x
    BY <1>1, <1>a
<1>8. [count EXCEPT !.write = @ + 1, !.race = @ + x]
        = [[count EXCEPT !.write = count.write + 1] EXCEPT !.race = count.race + x]
    BY <1>1
<1> HIDE DEF C
<1>9. [[[count EXCEPT !.load = count.load + 1] EXCEPT !.reload = count.reload + x] EXCEPT !.race = count.race + y] \in C
    BY <1>1, <1>2, <1>3, <1>4, <1>6, Zenon
<1>10. [[count EXCEPT !.write = count.write + 1] EXCEPT !.race = count.race + x] \in C
    BY <1>1, <1>2, <1>5, <1>6, Zenon
<1>11. [count EXCEPT !.load = @ + 1, !.reload = @ + x, !.race = @ + y] \in C
    BY <1>7, <1>9
<1>12. [count EXCEPT !.write = @ + 1, !.race = @ + x] \in C
    BY <1>8, <1>10
<1> QED BY <1>11, <1>12, <1>a, <1>b, Zenon DEF C

LEMMA TypesInit == HistoryInit => HistoryTypes
<1> SUFFICES ASSUME HistoryInit PROVE HistoryTypes
    OBVIOUS
<1>1. DiskTyped
    <2>1. Numbered(disk)
        BY HistoryFiles DEF HistoryInit
    <2>2. disk \in Seq(Values(disk)) /\ Values(disk) \subseteq FileEntries
        BY <2>1 DEF Numbered, HistoryInit, FileEntries
    <2>3. disk \in Seq(FileEntries)
        BY <2>2
    <2> QED BY <2>1, <2>3 DEF DiskTyped, HistoryInit
<1>2. LoadTyped
    BY DEF LoadTyped, HistoryInit
<1>3. PlanTyped
    <2>1. plan.units = <<>> /\ plan = [units |-> plan.units, size |-> plan.size] /\ plan.size = 0
        BY DEF HistoryInit
    <2> QED BY <2>1 DEF PlanTyped, Apart
<1>4. MatchTyped
    BY DEF MatchTyped, MatchShape, HistoryInit, NoMatch
<1>5. TailTyped
    BY DEF TailTyped, TailShape, HistoryInit, NoTail
<1>6. CountTyped
    BY DEF CountTyped, HistoryInit
<1>7. IsSeq(shown)
    BY NoRow DEF HistoryInit
<1> QED BY <1>1, <1>2, <1>3, <1>4, <1>5, <1>6, <1>7 DEF HistoryTypes

LEMMA ObserveTyped ==
    ASSUME HistoryTypes, NEW f, observe(f)
    PROVE  MatchTyped' /\ IsSeq(shown)'
<1>1. Observed(f)
    BY ObserveIs
<1>2. match.active \in BOOLEAN /\ IsSeq(shown)
    BY DEF HistoryTypes, MatchTyped
<1>3. CASE Stays(f)
    <2>1. <<>> \in Seq(FileEntries)
        OBVIOUS
    <2>2. IsSeq(shown)'
        BY <1>2, <1>3, <2>1, ForwardSeq DEF Stays
    <2>3. MatchTyped'
        BY <1>1, <1>2, <1>3 DEF Stays, Observed, MatchTyped
    <2> QED BY <2>2, <2>3
<1>4. CASE Advances(f)
    <2>1. PICK idx \in match.cursor .. Len(plan.units) :
              Forward(Notes(SubSeq(plan.units, match.cursor, idx - 1)), f)
        BY <1>4 DEF Advances
    <2>2. Notes(SubSeq(plan.units, match.cursor, idx - 1)) \in Seq(FileEntries)
        BY PassedIs
    <2>3. IsSeq(shown)'
        BY <1>2, <2>1, <2>2, ForwardSeq
    <2>4. MatchTyped'
        BY <1>1, <1>4 DEF Advances, Observed, MatchTyped
    <2> QED BY <2>3, <2>4
<1> QED BY <1>1, <1>3, <1>4 DEF Observed

LEMMA TypesNext == HistoryTypes /\ [HistoryNext]_historyVars => HistoryTypes'
<1> SUFFICES ASSUME HistoryTypes, [HistoryNext]_historyVars PROVE HistoryTypes'
    OBVIOUS
<1> USE DEF HistoryTypes
<1>a. /\ UNCHANGED <<disk, torn>> => DiskTyped'
      /\ UNCHANGED load => LoadTyped'
      /\ UNCHANGED plan => PlanTyped'
      /\ UNCHANGED match => MatchTyped'
      /\ UNCHANGED tail => TailTyped'
      /\ UNCHANGED count => CountTyped'
      /\ UNCHANGED shown => IsSeq(shown)'
    BY DEF DiskTyped, LoadTyped, PlanTyped, MatchTyped, TailTyped, CountTyped
<1>b. Size \in Nat
    BY SizeIs DEF DiskTyped
<1>1. ASSUME NEW kind \in Kinds, ReadFile(kind) PROVE HistoryTypes'
    <2>1. CountTyped'
        <3>1. PICK x \in Nat, y \in Nat :
                  count' = [count EXCEPT !.load = @ + 1, !.reload = @ + x, !.race = @ + y]
            BY <1>1 DEF ReadFile
        <3> QED BY <3>1, CountsUp DEF CountTyped
    <2>2. LoadTyped'
        BY <1>1, HistoryConstants DEF ReadFile, LoadTyped
    <2>3. PlanTyped'
        <3>1. plan' = [units |-> WholeLines, size |-> 0]
            BY <1>1 DEF ReadFile
        <3>2. plan'.units = WholeLines /\ plan'.size = 0 /\ plan' = [units |-> plan'.units, size |-> plan'.size]
            BY <3>1
        <3> QED BY <3>2, WholeIs DEF PlanTyped
    <2>4. IsSeq(shown)'
        BY <1>1, NoRow DEF ReadFile
    <2> QED BY <1>1, <1>a, <2>1, <2>2, <2>3, <2>4 DEF ReadFile
<1>2. ASSUME StatFile PROVE HistoryTypes'
    <2>1. LoadTyped'
        BY <1>2 DEF StatFile, LoadTyped
    <2>2. PlanTyped'
        BY <1>2, <1>b DEF StatFile, PlanTyped
    <2>3. MatchTyped'
        <3>1. PICK x : match' = [NoMatch EXCEPT !.active = TRUE, !.sid = x]
            BY <1>2 DEF StatFile
        <3>2. match' = [active |-> TRUE, cursor |-> 1, mid |-> 0, tools |-> {}, pend |-> 0, sid |-> x]
            BY <3>1 DEF NoMatch
        <3>3. match'.active /\ match'.cursor = 1 /\ MatchShape(match')
            BY <3>2 DEF MatchShape
        <3> QED BY <3>3 DEF MatchTyped
    <2> QED BY <1>2, <1>a, <2>1, <2>2, <2>3 DEF StatFile
<1>3. ASSUME PlanUnreadable PROVE HistoryTypes'
    <2>1. LoadTyped'
        BY <1>3 DEF PlanUnreadable, LoadTyped
    <2>2. PlanTyped'
        <3>1. plan' = [units |-> <<>>, size |-> 0]
            BY <1>3 DEF PlanUnreadable
        <3> QED BY <3>1 DEF PlanTyped, Apart
    <2> QED BY <1>3, <1>a, <2>1, <2>2 DEF PlanUnreadable
<1>4. ASSUME LoadAnswered PROVE HistoryTypes'
    <2>1. LoadTyped'
        BY <1>4 DEF LoadAnswered, LoadTyped
    <2>2. MatchTyped'
        BY <1>4 DEF LoadAnswered, MatchTyped, MatchShape, NoMatch
    <2>3. IsSeq(shown)'
        <3>1. IsSeq(shown \o Shown(Notes(SubSeq(plan.units, match.cursor, Len(plan.units))), "unit"))
            BY RestIs, Longer
        <3> QED BY <1>4, <3>1 DEF LoadAnswered
    <2>4. TailTyped'
        <3>1. CASE tail.attached
            BY <1>4, <1>a, <3>1 DEF LoadAnswered, attach
        <3>2. CASE ~tail.attached
            <4>1. \/ tail' = [NoTail EXCEPT !.attached = TRUE]
                  \/ tail' = [NoTail EXCEPT !.attached = TRUE, !.seen = Ids(plan.units),
                                            !.file = TRUE, !.offset = plan.size]
                  \/ tail' = [NoTail EXCEPT !.attached = TRUE, !.seen = Ids(plan.units), !.skip = TRUE]
                BY <1>4, <3>2, Zenon DEF LoadAnswered, attach
            <4>2. PICK x : x = Ids(plan.units)
                OBVIOUS
            <4>3. CASE tail' = [NoTail EXCEPT !.attached = TRUE]
                BY <4>3 DEF TailTyped, TailShape, NoTail
            <4>4. CASE tail' = [NoTail EXCEPT !.attached = TRUE, !.seen = x, !.file = TRUE, !.offset = plan.size]
                BY <4>4 DEF TailTyped, TailShape, NoTail, PlanTyped
            <4>5. CASE tail' = [NoTail EXCEPT !.attached = TRUE, !.seen = x, !.skip = TRUE]
                BY <4>5 DEF TailTyped, TailShape, NoTail
            <4> QED BY <4>1, <4>2, <4>3, <4>4, <4>5, Zenon
        <3> QED BY <3>1, <3>2
    <2> QED BY <1>4, <1>a, <2>1, <2>2, <2>3, <2>4 DEF LoadAnswered
<1>5. ASSUME LoadFailed PROVE HistoryTypes'
    <2>1. LoadTyped'
        BY <1>5 DEF LoadFailed, LoadTyped
    <2>2. MatchTyped'
        BY <1>5 DEF LoadFailed, MatchTyped, MatchShape, NoMatch
    <2> QED BY <1>5, <1>a, <2>1, <2>2 DEF LoadFailed
<1>6. ASSUME OtherResponse PROVE HistoryTypes'
    <2>1. CountTyped'
        BY <1>6 DEF OtherResponse, CountTyped
    <2>2. MatchTyped'
        BY <1>6 DEF OtherResponse, MatchTyped, MatchShape
    <2> QED BY <1>6, <1>a, <2>1, <2>2 DEF OtherResponse
<1>7. ASSUME Poll PROVE HistoryTypes'
    <2>1. PICK t, o, from, new : PollOf(t, o, from, new)
        BY <1>7, PollIs
    <2>2. new \in Seq(FileEntries)
        BY <2>1, PollFacts
    <2>3. IsSeq(shown)'
        BY <2>1, <2>2, Longer DEF PollOf
    <2>4. t.attached \in BOOLEAN /\ t.file \in BOOLEAN /\ t.skip \in BOOLEAN
        BY <2>1, PolledIs DEF PollOf, TailTyped
    <2>5. TailTyped'
        BY <1>b, <2>1, <2>4 DEF PollOf, TailTyped, TailShape
    <2> QED BY <1>7, <1>a, <2>3, <2>5 DEF Poll
<1>8. ASSUME PollMissing PROVE HistoryTypes'
    <2>1. TailTyped'
        BY <1>8 DEF PollMissing, TailTyped, TailShape
    <2> QED BY <1>8, <1>a, <2>1 DEF PollMissing
<1>9. ASSUME NEW half \in BOOLEAN, WriteNote(half) PROVE HistoryTypes'
    <2>1. CountTyped'
        <3>1. PICK x \in Nat : count' = [count EXCEPT !.write = @ + 1, !.race = @ + x]
            BY <1>9 DEF WriteNote
        <3> QED BY <3>1, CountsUp DEF CountTyped
    <2>2. DiskTyped'
        <3>1. disk' \in Seq(FileEntries) /\ Numbered(disk') /\ Len(disk') = Len(disk) + 1 /\ Len(disk) \in Nat
            <4>1. disk' = Append(disk, NewNote) /\ disk \in Seq(FileEntries) /\ Numbered(disk)
                BY <1>9 DEF WriteNote, DiskTyped
            <4>2. Len(disk) \in Nat
                BY <4>1
            <4> QED BY <4>1, <4>2, DiskGrows, Zenon
        <3>2. torn' \in BOOLEAN
            BY <1>9 DEF WriteNote
        <3> QED BY <3>1, <3>2 DEF DiskTyped
    <2> QED BY <1>9, <1>a, <2>1, <2>2 DEF WriteNote
<1>10. ASSUME FinishNote PROVE HistoryTypes'
    <2>1. DiskTyped'
        BY <1>10 DEF FinishNote, DiskTyped
    <2> QED BY <1>10, <1>a, <2>1 DEF FinishNote
<1>11. ASSUME NEW i \in 1 .. Len(disk), Rewrite(i) PROVE HistoryTypes'
    <2>1. CountTyped'
        <3>1. count' = [count EXCEPT !.rewrite = @ + 1]
            BY <1>11 DEF Rewrite
        <3> QED BY <3>1 DEF CountTyped
    <2>2. DiskTyped'
        <3>1. disk' \in Seq(FileEntries) /\ Numbered(disk')
            BY <1>11, DiskShrinks DEF Rewrite, DiskTyped
        <3>2. torn' = FALSE
            BY <1>11 DEF Rewrite, DiskTyped
        <3> QED BY <3>1, <3>2 DEF DiskTyped
    <2> QED BY <1>11, <1>a, <2>1, <2>2 DEF Rewrite
<1>12. ASSUME StartReplay PROVE HistoryTypes'
    <2>1. LoadTyped'
        BY <1>12 DEF StartReplay, LoadTyped
    <2> QED BY <1>12, <1>a, <2>1 DEF StartReplay
<1>13. ASSUME ReplayFrame PROVE HistoryTypes'
    <2>1. PICK f : observe(f)
        BY <1>13 DEF ReplayFrame
    <2>2. MatchTyped' /\ IsSeq(shown)'
        BY <2>1, ObserveTyped
    <2> QED BY <1>13, <1>a, <2>2 DEF ReplayFrame
<1>14. ASSUME NEW v \in Vals, ForeignFrame(v) PROVE HistoryTypes'
    <2>1. PICK f : observe(f)
        BY <1>14 DEF ForeignFrame
    <2>2. MatchTyped' /\ IsSeq(shown)'
        BY <2>1, ObserveTyped
    <2>3. CountTyped'
        BY <1>14 DEF ForeignFrame, CountTyped
    <2> QED BY <1>14, <1>a, <2>2, <2>3 DEF ForeignFrame
<1>15. CASE UNCHANGED historyVars
    BY <1>15, <1>a DEF historyVars
<1> QED BY <1>1, <1>2, <1>3, <1>4, <1>5, <1>6, <1>7, <1>8, <1>9, <1>10, <1>11, <1>12, <1>13, <1>14, <1>15
        DEF HistoryNext

-----------------------------------------------------------------------------
(* No note is skipped, as long as OMP does not write where its place is not   *)
(* known and does not rewrite the file.                                      *)
Unraced == count.race = 0 /\ count.rewrite = 0

\* The lines of d that the tailer t must still emit are ahead of it.
Ahead(d, t) ==
    \A k \in 1 .. Len(d) : IsNote(d[k]) /\ d[k].id \notin t.seen =>
        2 * (k - 1) >= t.offset \/ (t.offset = 2 * k - 1 /\ t.pending = d[k].id)

\* What was read is the file, until its size is asked for.
ReadKnown == load.phase = "read" => ~torn /\ plan.units = disk

\* The plan is the file up to the plan's size; a fork's is all of it.
PlanKnown ==
    load.phase \in {"sent", "replaying"} /\ load.planned =>
        /\ plan.size = 2 * Len(plan.units) /\ plan.size <= Size
        /\ Len(plan.units) <= Len(disk) /\ \A k \in 1 .. Len(plan.units) : disk[k] = plan.units[k]
        /\ load.kind = "fork" => ~torn /\ Len(disk) = Len(plan.units)

\* A file that is to be skipped to its end holds nothing new.
SkipKnown ==
    tail.attached /\ tail.skip =>
        ~torn /\ ~tail.file /\ \A k \in 1 .. Len(disk) : disk[k].id \in tail.seen

TailKnown ==
    tail.attached /\ ~tail.skip => tail.offset <= Size /\ Ahead(disk, tail)

Known == ReadKnown /\ PlanKnown /\ SkipKnown /\ TailKnown
UnracedInv == Unraced => Known

LEMMA FromBefore ==
    ASSUME NEW o \in Nat, NEW k \in Nat \ {0}, 2 * (k - 1) >= o, NEW h, h = (o + 1) \div 2
    PROVE  h + 1 <= k
<1>1. h \in Nat /\ (2 * h = o + 1 \/ 2 * h = o)
    BY Halves
<1>2. 2 * h <= 2 * (k - 1) + 1
    BY <1>1
<1> QED BY <1>1, <1>2

LEMMA FromAt ==
    ASSUME NEW k \in Nat \ {0}
    PROVE  (2 * k - 1) % 2 = 1 /\ (2 * k - 1 + 1) \div 2 = k
<1>1. (2 * k - 1) % 2 = 1
    BY Halves
<1>2. 2 * k - 1 + 1 = 2 * k /\ (2 * k) \div 2 = k
    BY Halves
<1> QED BY <1>1, <1>2

LEMMA PollReads ==
    ASSUME HistoryTypes, NEW t, NEW o, NEW from, NEW new, PollOf(t, o, from, new), t.offset <= Size, Ahead(disk, t)
    PROVE  \A k \in 1 .. Len(disk) : IsNote(disk[k]) /\ disk[k].id \notin tail'.seen =>
               Size = 2 * k - 1 /\ tail'.pending = disk[k].id
<1> SUFFICES ASSUME NEW k \in 1 .. Len(disk), IsNote(disk[k]), disk[k].id \notin tail'.seen
             PROVE  Size = 2 * k - 1 /\ tail'.pending = disk[k].id
    OBVIOUS
<1>1. /\ Size \in Nat /\ Len(disk) \in Nat /\ torn \in BOOLEAN
      /\ ~torn => Size \div 2 = Len(disk)
      /\ torn => Size = 2 * Len(disk) - 1 /\ Size \div 2 = Len(disk) - 1 /\ Size % 2 = 1
    BY SizeIs DEF HistoryTypes, DiskTyped
<1>2. /\ o \in Nat /\ from \in Nat \ {0}
      /\ \A j \in from .. Size \div 2 : IsNote(disk[j]) => disk[j].id \in tail.seen \cup Ids(new)
    BY PollFacts
<1>3. t.offset \in Nat /\ t.seen = tail.seen
    BY PolledIs DEF PollOf
<1>4. o = t.offset
    <2>1. ~(Size < t.offset)
        BY <1>1, <1>3
    <2>2. o = IF Size < t.offset THEN 0 ELSE t.offset
        BY Zenon DEF PollOf
    <2> QED BY <2>1, <2>2, Zenon
<1>5. tail'.seen = tail.seen \cup Ids(new)
    BY <1>3 DEF PollOf
<1>6. PICK h : h = (o + 1) \div 2
    OBVIOUS
<1>7. /\ from = IF o % 2 = 1 /\ t.pending = disk[h].id THEN h ELSE h + 1
    BY <1>4, <1>6 DEF PollOf
<1>8. k \in Nat \ {0} /\ k \in Int
    BY <1>1
<1>9. 2 * (k - 1) >= o \/ (o = 2 * k - 1 /\ t.pending = disk[k].id)
    BY <1>3, <1>4, <1>5 DEF Ahead
<1>10. from <= k
    <2>1. CASE 2 * (k - 1) >= o
        <3>1. h \in Nat
            BY <1>2, <1>6, Halves
        <3>2. h + 1 <= k
            BY <1>2, <1>6, <1>8, <2>1, FromBefore
        <3> QED BY <1>7, <1>8, <3>1, <3>2
    <2>2. CASE o = 2 * k - 1 /\ t.pending = disk[k].id
        <3>1. o % 2 = 1 /\ h = k
            BY <1>6, <1>8, <2>2, FromAt
        <3> QED BY <1>7, <1>8, <2>2, <3>1
    <2> QED BY <1>9, <2>1, <2>2
<1>11. ~(k \in from .. Size \div 2)
    BY <1>2, <1>5
<1>12. torn /\ k = Len(disk)
    BY <1>1, <1>2, <1>8, <1>10, <1>11
<1>13. Size = 2 * k - 1 /\ Size % 2 = 1
    BY <1>1, <1>12
<1>14. CASE Size = o
    <2>1. ~(2 * (k - 1) >= o)
        BY <1>8, <1>13, <1>14
    <2>2. tail'.pending = t.pending
        BY <1>4, <1>14 DEF PollOf
    <2> QED BY <1>9, <1>13, <2>1, <2>2
<1>15. CASE Size # o
    <2>1. tail'.pending = disk[Len(disk)].id
        BY <1>13, <1>15 DEF PollOf
    <2> QED BY <1>12, <1>13, <2>1
<1> QED BY <1>14, <1>15

LEMMA PollKeeps ==
    ASSUME HistoryTypes, Known, Poll
    PROVE  Known'
<1>1. PICK t, o, from, new : PollOf(t, o, from, new)
    BY PollIs
<1>2. UNCHANGED <<disk, torn, load, plan>> /\ tail.attached
    BY DEF Poll
<1>3. Size' = Size
    BY <1>2 DEF Size
<1>4. ReadKnown' /\ PlanKnown'
    BY <1>2, <1>3 DEF Known, ReadKnown, PlanKnown
<1>5. /\ Size \in Nat /\ t.offset \in Nat /\ t.seen = tail.seen /\ t.pending = tail.pending /\ t = Polled
      /\ tail.file => t = tail
      /\ ~tail.file => ~t.skip /\ t.offset = IF tail.skip THEN Size ELSE tail.offset
    BY <1>1, SizeIs, PolledIs DEF PollOf, HistoryTypes, DiskTyped
<1>6. ~t.skip /\ t.offset <= Size /\ Ahead(disk, t)
    <2>1. CASE tail.skip
        <3>1. ~tail.file /\ \A k \in 1 .. Len(disk) : disk[k].id \in tail.seen
            BY <1>2, <2>1 DEF Known, SkipKnown
        <3>2. ~t.skip /\ t.offset = Size
            BY <1>5, <2>1, <3>1
        <3>3. Ahead(disk, t)
            BY <1>5, <3>1 DEF Ahead
        <3> QED BY <1>5, <3>2, <3>3
    <2>2. CASE ~tail.skip
        <3>1. tail.offset <= Size /\ Ahead(disk, tail)
            BY <1>2, <2>2 DEF Known, TailKnown
        <3>2. ~t.skip /\ t.offset = tail.offset
            BY <1>5, <2>2
        <3>3. Ahead(disk, t)
            BY <1>5, <3>1, <3>2 DEF Ahead
        <3> QED BY <3>1, <3>2, <3>3
    <2>3. tail.skip \in BOOLEAN
        BY DEF HistoryTypes, TailTyped
    <2> QED BY <2>1, <2>2, <2>3
<1>7. tail'.skip = t.skip /\ tail'.offset = Size
    BY <1>1 DEF PollOf
<1>8. Ahead(disk, tail')
    <2>1. \A k \in 1 .. Len(disk) : IsNote(disk[k]) /\ disk[k].id \notin tail'.seen =>
              Size = 2 * k - 1 /\ tail'.pending = disk[k].id
        BY <1>1, <1>6, PollReads
    <2> QED BY <1>7, <2>1 DEF Ahead
<1>9. SkipKnown'
    BY <1>6, <1>7 DEF SkipKnown
<1>10. TailKnown'
    BY <1>2, <1>3, <1>5, <1>7, <1>8 DEF TailKnown
<1> QED BY <1>4, <1>9, <1>10 DEF Known

\* The note OMP writes is behind what the plan and the tailer know.
LEMMA WriteKeeps ==
    ASSUME HistoryTypes, Known, NEW half \in BOOLEAN, WriteNote(half), ~Racing
    PROVE  Known'
<1>1. UNCHANGED <<load, plan, tail>> /\ ~torn /\ disk' = Append(disk, NewNote) /\ torn' = half
    BY DEF WriteNote
<1>2. disk \in Seq(FileEntries) /\ Numbered(disk) /\ Len(disk) \in Nat
    BY DEF HistoryTypes, DiskTyped
<1>3. Len(disk') = Len(disk) + 1 /\ \A k \in 1 .. Len(disk) : disk'[k] = disk[k]
    BY <1>1, <1>2, DiskGrows, Zenon
<1>4. Size = 2 * Len(disk) /\ Size' >= Size
    <2>1. Size = 2 * Len(disk)
        BY <1>1, <1>2 DEF Size
    <2>2. Size' = 2 * (Len(disk) + 1) - (IF half THEN 1 ELSE 0)
        BY <1>1, <1>3 DEF Size
    <2> QED BY <1>2, <2>1, <2>2
<1>5. load.phase # "read" /\ ~tail.skip /\ (load.kind = "fork" => load.phase = "none")
    BY DEF Racing
<1>6. ReadKnown'
    BY <1>1, <1>5 DEF ReadKnown
<1>7. SkipKnown'
    BY <1>1, <1>5 DEF SkipKnown
<1>8. PlanKnown'
    <2> SUFFICES ASSUME load.phase \in {"sent", "replaying"}, load.planned
                 PROVE  /\ plan.size = 2 * Len(plan.units) /\ plan.size <= Size'
                        /\ Len(plan.units) <= Len(disk') /\ \A k \in 1 .. Len(plan.units) : disk'[k] = plan.units[k]
                        /\ load.kind # "fork"
        BY <1>1 DEF PlanKnown
    <2>1. /\ plan.size = 2 * Len(plan.units) /\ plan.size <= Size
          /\ Len(plan.units) <= Len(disk) /\ \A k \in 1 .. Len(plan.units) : disk[k] = plan.units[k]
        BY DEF Known, PlanKnown
    <2>2. Len(plan.units) \in Nat /\ plan.size \in Nat
        BY DEF HistoryTypes, PlanTyped
    <2>3. Size \in Nat /\ Size' \in Int
        BY <1>1, <1>2, <1>3, <1>4 DEF Size
    <2>4. plan.size <= Size' /\ Len(plan.units) <= Len(disk')
        BY <1>2, <1>3, <1>4, <2>1, <2>2, <2>3
    <2>5. \A k \in 1 .. Len(plan.units) : k \in 1 .. Len(disk)
        BY <1>2, <2>1, <2>2
    <2>6. \A k \in 1 .. Len(plan.units) : disk'[k] = plan.units[k]
        BY <1>3, <2>1, <2>5
    <2>7. load.kind # "fork"
        BY <1>5
    <2> QED BY <2>1, <2>4, <2>6, <2>7
<1>9. TailKnown'
    <2> SUFFICES ASSUME tail.attached PROVE tail.offset <= Size' /\ Ahead(disk', tail)
        BY <1>1 DEF TailKnown
    <2>1. tail.offset <= Size /\ Ahead(disk, tail) /\ tail.offset \in Nat
        BY <1>5 DEF Known, TailKnown, HistoryTypes, TailTyped
    <2>2. Size \in Nat /\ Size' \in Int
        BY <1>1, <1>2, <1>3, <1>4 DEF Size
    <2>3. \A k \in 1 .. Len(disk') : k \in 1 .. Len(disk) \/ k = Len(disk) + 1
        BY <1>2, <1>3
    <2>4. 2 * ((Len(disk) + 1) - 1) >= tail.offset
        BY <1>2, <1>4, <2>1, <2>2
    <2>5. Ahead(disk', tail)
        BY <1>3, <2>1, <2>3, <2>4 DEF Ahead
    <2>6. tail.offset <= Size'
        BY <1>4, <2>1, <2>2
    <2> QED BY <2>5, <2>6
<1> QED BY <1>6, <1>7, <1>8, <1>9 DEF Known

\* The tailer attaches where the plan stops.
LEMMA AnswerKeeps ==
    ASSUME HistoryTypes, Known, LoadAnswered
    PROVE  Known'
<1>1. UNCHANGED <<disk, torn, plan>> /\ load.phase = "replaying" /\ load' = [load EXCEPT !.phase = "none", !.loaded = TRUE]
      /\ attach
    BY DEF LoadAnswered
<1>2. load'.phase = "none" /\ Size' = Size
    BY <1>1 DEF HistoryTypes, LoadTyped, Size
<1>3. ReadKnown' /\ PlanKnown'
    BY <1>2 DEF ReadKnown, PlanKnown
<1>4. CASE tail.attached
    <2>1. UNCHANGED tail
        BY <1>1, <1>4 DEF attach
    <2> QED BY <1>1, <1>2, <1>3, <2>1 DEF Known, SkipKnown, TailKnown
<1>5. CASE ~tail.attached /\ ~load.planned
    <2>1. tail' = [NoTail EXCEPT !.attached = TRUE]
        BY <1>1, <1>5, Zenon DEF attach
    <2>2. ~tail'.skip /\ tail'.offset = 0
        BY <2>1 DEF NoTail
    <2>3. Size \in Nat /\ Len(disk) \in Nat
        BY SizeIs DEF HistoryTypes, DiskTyped
    <2>4. Ahead(disk, tail')
        BY <2>2, <2>3 DEF Ahead
    <2> QED BY <1>1, <1>2, <1>3, <2>2, <2>3, <2>4 DEF Known, SkipKnown, TailKnown
<1>6. ASSUME ~tail.attached, load.planned
      PROVE  /\ plan.size = 2 * Len(plan.units) /\ plan.size <= Size
             /\ Len(plan.units) <= Len(disk) /\ \A k \in 1 .. Len(plan.units) : disk[k] = plan.units[k]
             /\ load.kind = "fork" => ~torn /\ Len(disk) = Len(plan.units)
             /\ \A k \in 1 .. Len(plan.units) : disk[k].id \in Ids(plan.units)
             /\ plan.size \in Nat /\ Len(plan.units) \in Nat /\ Len(disk) \in Nat
    <2>1. /\ plan.size = 2 * Len(plan.units) /\ plan.size <= Size
          /\ Len(plan.units) <= Len(disk) /\ \A k \in 1 .. Len(plan.units) : disk[k] = plan.units[k]
          /\ load.kind = "fork" => ~torn /\ Len(disk) = Len(plan.units)
        BY <1>1, <1>6 DEF Known, PlanKnown
    <2>2. \A k \in 1 .. Len(plan.units) : disk[k].id \in Ids(plan.units)
        BY <2>1 DEF Ids
    <2>3. plan.size \in Nat /\ Len(plan.units) \in Nat /\ Len(disk) \in Nat
        BY DEF HistoryTypes, PlanTyped, DiskTyped
    <2> QED BY <2>1, <2>2, <2>3
<1>7. CASE ~tail.attached /\ load.planned /\ load.kind = "load"
    <2>1. PICK x : x = Ids(plan.units) /\ tail' = [NoTail EXCEPT !.attached = TRUE, !.seen = x,
                                                               !.file = TRUE, !.offset = plan.size]
        BY <1>1, <1>7, Zenon DEF attach
    <2>2. ~tail'.skip /\ tail'.offset = plan.size /\ tail'.seen = x
        BY <2>1 DEF NoTail
    <2>3. ASSUME NEW k \in 1 .. Len(disk), disk[k].id \notin tail'.seen PROVE 2 * (k - 1) >= tail'.offset
        <3>1. ~(k \in 1 .. Len(plan.units))
            BY <1>6, <1>7, <2>1, <2>2, <2>3
        <3>2. k > Len(plan.units)
            BY <1>6, <1>7, <3>1
        <3> QED BY <1>6, <1>7, <2>2, <3>2
    <2>4. Ahead(disk, tail')
        BY <2>3 DEF Ahead
    <2> QED BY <1>1, <1>2, <1>3, <1>6, <1>7, <2>2, <2>4 DEF Known, SkipKnown, TailKnown
<1>8. CASE ~tail.attached /\ load.planned /\ load.kind = "fork"
    <2>1. PICK x : x = Ids(plan.units) /\ tail' = [NoTail EXCEPT !.attached = TRUE, !.seen = x, !.skip = TRUE]
        BY <1>1, <1>8, Zenon DEF attach
    <2>2. tail'.skip /\ ~tail'.file /\ tail'.seen = x
        BY <2>1 DEF NoTail
    <2>3. \A k \in 1 .. Len(disk) : disk[k].id \in tail'.seen
        BY <1>6, <1>8, <2>1, <2>2
    <2> QED BY <1>1, <1>2, <1>3, <1>6, <1>8, <2>2, <2>3 DEF Known, SkipKnown, TailKnown
<1>9. load.kind \in {"load", "fork"} /\ load.planned \in BOOLEAN
    BY DEF HistoryTypes, LoadTyped
<1> QED BY <1>4, <1>5, <1>7, <1>8, <1>9

LEMMA UnracedInit == HistoryInit => UnracedInv
BY DEF HistoryInit, UnracedInv, Known, ReadKnown, PlanKnown, SkipKnown, TailKnown, NoTail

LEMMA UnracedNext == HistoryTypes /\ UnracedInv /\ [HistoryNext]_historyVars => UnracedInv'
<1> SUFFICES ASSUME HistoryTypes, UnracedInv, [HistoryNext]_historyVars, Unraced' PROVE Known'
    BY DEF UnracedInv
<1>a. count \in [load: Nat, reload: Nat, write: Nat, race: Nat, rewrite: Nat, other: Nat, foreign: Nat]
    BY DEF HistoryTypes, CountTyped
<1>b. ASSUME Unraced PROVE Known
    BY <1>b DEF UnracedInv
<1>c. ASSUME UNCHANGED count PROVE Known
    BY <1>b, <1>c DEF Unraced
<1>d. ASSUME Known, UNCHANGED <<disk, torn>>
      PROVE  /\ Size' = Size
             /\ UNCHANGED <<load, plan>> => ReadKnown' /\ PlanKnown'
             /\ UNCHANGED tail => SkipKnown' /\ TailKnown'
    <2>1. Size' = Size
        BY <1>d DEF Size
    <2> QED BY <1>d, <2>1 DEF Known, ReadKnown, PlanKnown, SkipKnown, TailKnown
<1>1. ASSUME NEW kind \in Kinds, ReadFile(kind) PROVE Known'
    <2>1. PICK x \in Nat, y \in Nat :
              /\ count' = [count EXCEPT !.load = @ + 1, !.reload = @ + x, !.race = @ + y]
              /\ torn => y = 1
        BY <1>1 DEF ReadFile
    <2>2. count'.race = count.race + y /\ count'.rewrite = count.rewrite
        BY <2>1, CountsUp, Zenon DEF HistoryTypes
    <2>a. count.race \in Nat /\ (torn => y = 1)
        BY <1>a, <2>1
    <2>b. count'.race = 0 /\ count'.rewrite = 0
        BY DEF Unraced
    <2>3. Unraced /\ ~torn
        BY <2>2, <2>a, <2>b DEF Unraced
    <2>4. Known
        BY <1>b, <2>3
    <2>5. load'.phase = "read" /\ plan'.units = WholeLines /\ UNCHANGED <<disk, torn, tail>>
        BY <1>1 DEF ReadFile
    <2>6. ReadKnown' /\ PlanKnown'
        BY <2>3, <2>5, WholeIs DEF ReadKnown, PlanKnown
    <2> QED BY <1>d, <2>4, <2>5, <2>6 DEF Known
<1>2. ASSUME StatFile PROVE Known'
    <2>1. Known
        BY <1>2, <1>c DEF StatFile
    <2>2. UNCHANGED <<disk, torn, tail>> /\ load.phase = "read"
        BY <1>2 DEF StatFile
    <2>3. load'.phase = "sent" /\ plan'.units = plan.units /\ plan'.size = Size
        BY <1>2 DEF StatFile, HistoryTypes, LoadTyped, PlanTyped
    <2>4. ~torn /\ plan.units = disk
        BY <2>1, <2>2 DEF Known, ReadKnown
    <2>5. Size = 2 * Len(disk) /\ Size \in Nat /\ Len(disk) \in Nat /\ Size' = Size
        BY <2>2, <2>4, SizeIs DEF HistoryTypes, DiskTyped, Size
    <2>6. ReadKnown' /\ PlanKnown'
        BY <2>2, <2>3, <2>4, <2>5 DEF ReadKnown, PlanKnown
    <2> QED BY <1>d, <2>1, <2>2, <2>6 DEF Known
<1>3. ASSUME PlanUnreadable PROVE Known'
    <2>1. Known
        BY <1>3, <1>c DEF PlanUnreadable
    <2>2. UNCHANGED <<disk, torn, tail>>
        BY <1>3 DEF PlanUnreadable
    <2>3. load'.phase = "sent" /\ ~load'.planned
        <3>1. load.phase = "read" /\ load' = [load EXCEPT !.phase = "sent"]
            BY <1>3 DEF PlanUnreadable
        <3> QED BY <3>1 DEF HistoryTypes, LoadTyped
    <2>4. ReadKnown' /\ PlanKnown'
        BY <2>3 DEF ReadKnown, PlanKnown
    <2> QED BY <1>d, <2>1, <2>2, <2>4 DEF Known
<1>4. ASSUME LoadAnswered PROVE Known'
    BY <1>4, <1>c, AnswerKeeps DEF LoadAnswered
<1>5. ASSUME LoadFailed PROVE Known'
    <2>1. Known /\ UNCHANGED <<disk, torn, tail>>
        BY <1>5, <1>c DEF LoadFailed
    <2>2. load'.phase = "none"
        BY <1>5 DEF LoadFailed, HistoryTypes, LoadTyped
    <2>3. ReadKnown' /\ PlanKnown'
        BY <2>2 DEF ReadKnown, PlanKnown
    <2> QED BY <1>d, <2>1, <2>3 DEF Known
<1>6. ASSUME OtherResponse PROVE Known'
    <2>1. Unraced
        BY <1>6, <1>a DEF OtherResponse, Unraced
    <2>2. UNCHANGED <<disk, torn, load, plan, tail>>
        BY <1>6 DEF OtherResponse
    <2> QED BY <1>b, <1>d, <2>1, <2>2 DEF Known
<1>7. ASSUME Poll PROVE Known'
    BY <1>7, <1>c, PollKeeps DEF Poll
<1>8. ASSUME PollMissing PROVE Known'
    <2>1. Known /\ UNCHANGED <<disk, torn, load, plan>> /\ tail.attached /\ tail' = [tail EXCEPT !.file = FALSE]
        BY <1>8, <1>c DEF PollMissing
    <2>2. /\ tail'.skip = tail.skip /\ tail'.offset = tail.offset /\ tail'.seen = tail.seen
          /\ tail'.pending = tail.pending /\ ~tail'.file
        BY <2>1 DEF HistoryTypes, TailTyped, TailShape
    <2>3. SkipKnown' /\ TailKnown'
        BY <1>d, <2>1, <2>2 DEF Known, SkipKnown, TailKnown, Ahead
    <2> QED BY <1>d, <2>1, <2>3 DEF Known
<1>9. ASSUME NEW half \in BOOLEAN, WriteNote(half) PROVE Known'
    <2>1. PICK x \in Nat : count' = [count EXCEPT !.write = @ + 1, !.race = @ + x] /\ (Racing => x = 1)
        BY <1>9 DEF WriteNote
    <2>2. count'.race = count.race + x /\ count'.rewrite = count.rewrite /\ count.race \in Nat
        BY <1>a, <2>1
    <2>3. Unraced /\ ~Racing
        BY <2>1, <2>2 DEF Unraced
    <2> QED BY <1>9, <1>b, <2>3, WriteKeeps
<1>10. ASSUME FinishNote PROVE Known'
    <2>1. Known /\ UNCHANGED <<disk, load, plan, tail>> /\ torn /\ ~torn'
        BY <1>10, <1>c DEF FinishNote
    <2>2. Size \in Nat /\ Size' = Size + 1 /\ Len(disk) \in Nat
        <3>1. Size = 2 * Len(disk) - 1 /\ Len(disk) \in Nat /\ Size \in Nat
            BY <2>1, SizeIs DEF HistoryTypes, DiskTyped
        <3>2. Size' = 2 * Len(disk)
            BY <2>1, <3>1 DEF Size
        <3> QED BY <3>1, <3>2
    <2>3. ReadKnown' /\ SkipKnown'
        BY <2>1 DEF Known, ReadKnown, SkipKnown
    <2>4. PlanKnown'
        BY <2>1, <2>2 DEF Known, PlanKnown, HistoryTypes, PlanTyped
    <2>5. TailKnown'
        BY <2>1, <2>2 DEF Known, TailKnown, HistoryTypes, TailTyped
    <2> QED BY <2>3, <2>4, <2>5 DEF Known
<1>11. ASSUME NEW i \in 1 .. Len(disk), Rewrite(i) PROVE FALSE
    <2>1. count'.rewrite = count.rewrite + 1 /\ count.rewrite \in Nat
        <3>1. count' = [count EXCEPT !.rewrite = @ + 1]
            BY <1>11 DEF Rewrite
        <3> QED BY <1>a, <3>1
    <2> QED BY <2>1 DEF Unraced
<1>12. ASSUME StartReplay PROVE Known'
    <2>1. Known /\ UNCHANGED <<disk, torn, plan, tail>> /\ load.phase = "sent" /\ load' = [load EXCEPT !.phase = "replaying"]
        BY <1>12, <1>c DEF StartReplay
    <2>2. load'.phase = "replaying" /\ load'.kind = load.kind /\ load'.planned = load.planned
        BY <2>1 DEF HistoryTypes, LoadTyped
    <2>3. ReadKnown' /\ PlanKnown'
        BY <1>d, <2>1, <2>2 DEF Known, ReadKnown, PlanKnown
    <2> QED BY <1>d, <2>1, <2>3 DEF Known
<1>13. ASSUME ReplayFrame PROVE Known'
    BY <1>13, <1>c, <1>d DEF ReplayFrame, Known
<1>14. ASSUME NEW v \in Vals, ForeignFrame(v) PROVE Known'
    <2>1. Unraced
        BY <1>14, <1>a DEF ForeignFrame, Unraced
    <2>2. UNCHANGED <<disk, torn, load, plan, tail>>
        BY <1>14 DEF ForeignFrame
    <2> QED BY <1>b, <1>d, <2>1, <2>2 DEF Known
<1>15. CASE UNCHANGED historyVars
    BY <1>15, <1>c, <1>d DEF historyVars, Known
<1> QED BY <1>1, <1>2, <1>3, <1>4, <1>5, <1>6, <1>7, <1>8, <1>9, <1>10, <1>11, <1>12, <1>13, <1>14, <1>15
        DEF HistoryNext

-----------------------------------------------------------------------------
(* No note is shown twice, as long as the tailed session is not loaded again. *)
Before(c) == {plan.units[k].id : k \in 1 .. c - 1}

\* The tailer has seen what is shown.
SeenKnown == tail.attached => load.phase = "none" /\ NoteIds(shown) \subseteq tail.seen

\* The matcher is armed by a plan and shows what is before its cursor.
ArmedKnown ==
    /\ load.phase \in {"none", "read"} => ~match.active
    /\ load.phase = "read" => shown = <<>>
    /\ load.phase \in {"sent", "replaying"} =>
           /\ NoteIds(shown) \subseteq Ids(plan.units)
           /\ match.active => NoteIds(shown) \subseteq Before(match.cursor)
           /\ ~load.planned => plan.units = <<>>

Placed == Once(shown) /\ SeenKnown /\ ArmedKnown
OnceInv == count.reload = 0 => Placed

LEMMA EmptyIs == Once(<<>>) /\ NoteIds(<<>>) = {} /\ Ids(<<>>) = {} /\ Apart(<<>>)
<1>1. \A i \in 1 .. Len(<<>>) : FALSE
    OBVIOUS
<1> QED BY <1>1 DEF Once, NoteIds, Ids, Apart

\* The notes of a stretch that begins at the cursor are not shown yet.
LEMMA StretchIsNew ==
    ASSUME HistoryTypes, NEW b \in Nat, b <= Len(plan.units), NEW N, TakenFrom(N, plan.units, match.cursor, b),
           NEW S, S \subseteq Before(match.cursor)
    PROVE  S \cap Ids(N) = {} /\ Ids(N) \subseteq Ids(plan.units)
<1>1. match.cursor \in Nat \ {0} /\ Len(plan.units) \in Nat /\ Apart(plan.units)
    BY DEF HistoryTypes, MatchTyped, PlanTyped
<1>2. ASSUME NEW x \in Ids(N) PROVE x \notin S /\ x \in Ids(plan.units)
    <2>1. PICK k \in match.cursor .. b : x = plan.units[k].id
        BY <1>2 DEF TakenFrom
    <2>2. k \in 1 .. Len(plan.units)
        BY <1>1
    <2>3. ASSUME x \in S PROVE FALSE
        <3>1. PICK j \in 1 .. match.cursor - 1 : x = plan.units[j].id
            BY <2>3 DEF Before
        <3>2. j \in 1 .. Len(plan.units) /\ j # k
            BY <1>1, <2>2
        <3> QED BY <1>1, <2>1, <2>2, <3>1, <3>2 DEF Apart
    <2>4. x \in Ids(plan.units)
        BY <2>1, <2>2 DEF Ids
    <2> QED BY <2>3, <2>4
<1> QED BY <1>2

LEMMA ObservePlaced ==
    ASSUME HistoryTypes, Placed, NEW f, observe(f), UNCHANGED <<load, plan, tail>>,
           load.phase \in {"sent", "replaying"}
    PROVE  Placed'
<1>1. Observed(f)
    BY ObserveIs
<1>2. /\ Once(shown) /\ NoteIds(shown) \subseteq Ids(plan.units) /\ ~tail.attached
      /\ match.active => NoteIds(shown) \subseteq Before(match.cursor)
      /\ ~load.planned => plan.units = <<>>
      /\ IsSeq(shown)
    BY DEF Placed, SeenKnown, ArmedKnown, HistoryTypes
<1> SUFFICES /\ Once(shown') /\ NoteIds(shown') \subseteq Ids(plan.units)
             /\ match'.active => NoteIds(shown') \subseteq Before(match'.cursor)
    BY <1>2 DEF Placed, SeenKnown, ArmedKnown, Before
<1>3. CASE Stays(f)
    <2>1. <<>> \in Seq(FileEntries) /\ Apart(<<>>) /\ NoteIds(shown) \cap Ids(<<>>) = {}
        BY EmptyIs
    <2>2. Once(shown') /\ NoteIds(shown') \subseteq NoteIds(shown) \cup Ids(<<>>)
        BY <1>2, <1>3, <2>1, ForwardIs DEF Stays
    <2> QED BY <1>2, <1>3, <2>2, EmptyIs DEF Stays
<1>4. CASE Advances(f)
    <2>1. PICK idx \in match.cursor .. Len(plan.units) :
              /\ match'.cursor = idx + 1
              /\ Forward(Notes(SubSeq(plan.units, match.cursor, idx - 1)), f)
        BY <1>4 DEF Advances
    <2>2. PICK N : N = Notes(SubSeq(plan.units, match.cursor, idx - 1))
        OBVIOUS
    <2>3. N \in Seq(FileEntries) /\ Apart(N) /\ TakenFrom(N, plan.units, match.cursor, idx - 1)
        BY <2>2, PassedIs
    <2>4. match.cursor \in Nat \ {0} /\ Len(plan.units) \in Nat
        BY DEF HistoryTypes, MatchTyped, PlanTyped
    <2>5. idx - 1 \in Nat /\ idx - 1 <= Len(plan.units)
        BY <2>4
    <2>6. NoteIds(shown) \subseteq Before(match.cursor)
        BY <1>2, <1>4 DEF Advances
    <2>7. NoteIds(shown) \cap Ids(N) = {} /\ Ids(N) \subseteq Ids(plan.units)
        BY <2>3, <2>5, <2>6, StretchIsNew
    <2>8. Once(shown') /\ NoteIds(shown') \subseteq NoteIds(shown) \cup Ids(N)
        BY <1>2, <2>1, <2>2, <2>3, <2>7, ForwardIs
    <2>9. Before(match.cursor) \subseteq Before(idx + 1)
        <3>1. 1 .. match.cursor - 1 \subseteq 1 .. (idx + 1) - 1
            BY <2>4
        <3> QED BY <3>1 DEF Before
    <2>10. Ids(N) \subseteq Before(idx + 1)
        <3>1. match.cursor .. idx - 1 \subseteq 1 .. (idx + 1) - 1
            BY <2>4
        <3> QED BY <2>3, <3>1 DEF Before, TakenFrom
    <2>11. NoteIds(shown') \subseteq Before(match'.cursor)
        BY <2>1, <2>6, <2>8, <2>9, <2>10
    <2> QED BY <1>2, <2>7, <2>8, <2>11
<1> QED BY <1>1, <1>3, <1>4 DEF Observed

LEMMA OnceInit == HistoryInit => OnceInv
BY EmptyIs DEF HistoryInit, OnceInv, Placed, SeenKnown, ArmedKnown, NoTail, NoMatch

LEMMA AnswerPlaced ==
    ASSUME HistoryTypes, Placed, LoadAnswered
    PROVE  Placed'
<1>1. /\ load.phase = "replaying" /\ load' = [load EXCEPT !.phase = "none", !.loaded = TRUE] /\ match' = NoMatch
      /\ attach /\ UNCHANGED plan
    BY DEF LoadAnswered
<1>2. /\ Once(shown) /\ NoteIds(shown) \subseteq Ids(plan.units) /\ ~tail.attached
      /\ match.active => NoteIds(shown) \subseteq Before(match.cursor)
      /\ ~load.planned => plan.units = <<>>
      /\ IsSeq(shown)
    BY <1>1 DEF Placed, SeenKnown, ArmedKnown, HistoryTypes
<1>3. Once(shown') /\ NoteIds(shown') \subseteq Ids(plan.units)
    <2>1. CASE ~match.active
        BY <1>2, <2>1 DEF LoadAnswered
    <2>2. CASE match.active
        <3>1. PICK N : N = Notes(SubSeq(plan.units, match.cursor, Len(plan.units)))
            OBVIOUS
        <3>2. N \in Seq(FileEntries) /\ Apart(N) /\ TakenFrom(N, plan.units, match.cursor, Len(plan.units))
            BY <3>1, RestIs
        <3>3. Len(plan.units) \in Nat /\ Len(plan.units) <= Len(plan.units)
            BY DEF HistoryTypes, PlanTyped
        <3>4. NoteIds(shown) \cap Ids(N) = {} /\ Ids(N) \subseteq Ids(plan.units)
            BY <1>2, <2>2, <3>2, <3>3, StretchIsNew
        <3>5. PICK n : n = Shown(N, "unit")
            OBVIOUS
        <3>6. IsSeq(n) /\ Once(n) /\ NoteIds(n) = Ids(N)
            BY <3>2, <3>5, ShownIs
        <3>7. Once(shown \o n) /\ NoteIds(shown \o n) \subseteq NoteIds(shown) \cup NoteIds(n)
            BY <1>2, <3>4, <3>6, OnceJoined
        <3>8. shown' = shown \o n
            BY <2>2, <3>1, <3>5, Zenon DEF LoadAnswered
        <3> QED BY <1>2, <3>4, <3>6, <3>7, <3>8
    <2>3. match.active \in BOOLEAN
        BY DEF HistoryTypes, MatchTyped
    <2> QED BY <2>1, <2>2, <2>3
<1>4. load'.phase = "none" /\ ~match'.active
    BY <1>1 DEF HistoryTypes, LoadTyped, NoMatch
<1>5. Ids(plan.units) \subseteq tail'.seen
    <2>1. CASE ~load.planned
        BY <1>2, <2>1, EmptyIs
    <2>2. CASE load.planned
        <3>1. PICK x : x = Ids(plan.units)
            OBVIOUS
        <3>2. \/ tail' = [NoTail EXCEPT !.attached = TRUE, !.seen = x, !.file = TRUE, !.offset = plan.size]
              \/ tail' = [NoTail EXCEPT !.attached = TRUE, !.seen = x, !.skip = TRUE]
            BY <1>1, <1>2, <2>2, <3>1, Zenon DEF attach
        <3>3. tail'.seen = x
            BY <3>2 DEF NoTail
        <3> QED BY <3>1, <3>3
    <2>3. load.planned \in BOOLEAN
        BY DEF HistoryTypes, LoadTyped
    <2> QED BY <2>1, <2>2, <2>3
<1> QED BY <1>3, <1>4, <1>5 DEF Placed, SeenKnown, ArmedKnown

LEMMA PollPlaced ==
    ASSUME HistoryTypes, Placed, Poll
    PROVE  Placed'
<1>1. PICK t, o, from, new : PollOf(t, o, from, new)
    BY PollIs
<1>2. UNCHANGED <<load, plan, match>> /\ tail.attached
    BY DEF Poll
<1>3. Once(shown) /\ load.phase = "none" /\ NoteIds(shown) \subseteq tail.seen /\ ~match.active /\ IsSeq(shown)
    BY <1>2 DEF Placed, SeenKnown, ArmedKnown, HistoryTypes
<1>4. new \in Seq(FileEntries) /\ Apart(new) /\ Ids(new) \cap tail.seen = {}
    BY <1>1, PollFacts
<1>5. PICK n : n = Shown(new, "tail")
    OBVIOUS
<1>6. IsSeq(n) /\ Once(n) /\ NoteIds(n) = Ids(new)
    BY <1>4, <1>5, ShownIs
<1>7. shown' = shown \o n /\ tail'.seen = tail.seen \cup Ids(new)
    <2>1. shown' = shown \o n /\ t = Polled
        BY <1>1, <1>5, Zenon DEF PollOf
    <2>2. t.seen = tail.seen
        BY <2>1, PolledIs
    <2> QED BY <1>1, <2>1, <2>2 DEF PollOf
<1>8. NoteIds(shown) \cap NoteIds(n) = {}
    BY <1>3, <1>4, <1>6
<1>9. Once(shown \o n) /\ NoteIds(shown \o n) \subseteq NoteIds(shown) \cup NoteIds(n)
    BY <1>3, <1>6, <1>8, OnceJoined
<1>10. Once(shown') /\ NoteIds(shown') \subseteq tail'.seen
    BY <1>3, <1>6, <1>7, <1>9
<1> QED BY <1>2, <1>3, <1>10 DEF Placed, SeenKnown, ArmedKnown

LEMMA OnceNext == HistoryTypes /\ OnceInv /\ [HistoryNext]_historyVars => OnceInv'
<1> SUFFICES ASSUME HistoryTypes, OnceInv, [HistoryNext]_historyVars, count'.reload = 0 PROVE Placed'
    BY DEF OnceInv
<1>a. count \in [load: Nat, reload: Nat, write: Nat, race: Nat, rewrite: Nat, other: Nat, foreign: Nat]
    BY DEF HistoryTypes, CountTyped
<1>b. ASSUME count'.reload = count.reload PROVE Placed
    BY <1>b DEF OnceInv
<1>c. ASSUME Placed, UNCHANGED <<load, plan, match, tail, shown>> PROVE Placed'
    BY <1>c DEF Placed, SeenKnown, ArmedKnown, Before
<1>d. load.phase \in {"none", "read", "sent", "replaying"}
    BY DEF HistoryTypes, LoadTyped
<1>1. ASSUME NEW kind \in Kinds, ReadFile(kind) PROVE Placed'
    <2>a. PICK x, y : x = (IF tail.attached THEN 1 ELSE 0) /\ y = (IF torn THEN 1 ELSE 0)
        OBVIOUS
    <2>b. x \in Nat /\ y \in Nat /\ (tail.attached => x = 1)
        BY <2>a
    <2>1. count' = [count EXCEPT !.load = @ + 1, !.reload = @ + x, !.race = @ + y]
        BY <1>1, <2>a, Zenon DEF ReadFile
    <2>2. count'.reload = count.reload + x
        BY <2>1, <2>b, CountsUp, Zenon DEF HistoryTypes
    <2>3. count.reload \in Nat
        BY <1>a
    <2>c. x = 0
        BY <2>2, <2>3, <2>b
    <2>4. ~tail.attached /\ count'.reload = count.reload
        BY <2>2, <2>3, <2>b, <2>c
    <2>5. Placed
        BY <1>b, <2>4
    <2>6. load.phase = "none" /\ load'.phase = "read" /\ shown' = <<>> /\ UNCHANGED <<match, tail>>
        BY <1>1 DEF ReadFile
    <2> QED BY <2>4, <2>5, <2>6, EmptyIs DEF Placed, SeenKnown, ArmedKnown
<1>2. ASSUME StatFile PROVE Placed'
    <2>1. Placed /\ load.phase = "read" /\ UNCHANGED <<tail, shown>>
        BY <1>2, <1>b DEF StatFile
    <2>2. shown = <<>> /\ ~tail.attached
        BY <2>1 DEF Placed, ArmedKnown, SeenKnown
    <2>3. load'.phase = "sent" /\ load'.planned
        BY <1>2 DEF StatFile, HistoryTypes, LoadTyped
    <2> QED BY <2>1, <2>2, <2>3, EmptyIs DEF Placed, SeenKnown, ArmedKnown
<1>3. ASSUME PlanUnreadable PROVE Placed'
    <2>1. Placed /\ load.phase = "read" /\ UNCHANGED <<tail, shown, match>>
        BY <1>3, <1>b DEF PlanUnreadable
    <2>2. shown = <<>> /\ ~tail.attached /\ ~match.active
        BY <2>1 DEF Placed, ArmedKnown, SeenKnown
    <2>3. load'.phase = "sent" /\ plan'.units = <<>>
        BY <1>3 DEF PlanUnreadable, HistoryTypes, LoadTyped
    <2> QED BY <2>1, <2>2, <2>3, EmptyIs DEF Placed, SeenKnown, ArmedKnown
<1>4. ASSUME LoadAnswered PROVE Placed'
    BY <1>4, <1>b, AnswerPlaced DEF LoadAnswered
<1>5. ASSUME LoadFailed PROVE Placed'
    <2>1. Placed /\ load.phase = "sent" /\ UNCHANGED <<tail, shown>> /\ match' = NoMatch
        BY <1>5, <1>b DEF LoadFailed
    <2>2. load'.phase = "none" /\ ~match'.active
        BY <1>5, <2>1 DEF LoadFailed, HistoryTypes, LoadTyped, NoMatch
    <2> QED BY <2>1, <2>2 DEF Placed, SeenKnown, ArmedKnown
<1>6. ASSUME OtherResponse PROVE Placed'
    <2>1. count'.reload = count.reload
        BY <1>6, <1>a DEF OtherResponse
    <2>2. Placed /\ UNCHANGED <<load, plan, tail, shown>>
        BY <1>6, <1>b, <2>1 DEF OtherResponse
    <2>3. ~match'.active
        BY <1>6 DEF OtherResponse, HistoryTypes, MatchTyped, MatchShape
    <2> QED BY <2>2, <2>3 DEF Placed, SeenKnown, ArmedKnown
<1>7. ASSUME Poll PROVE Placed'
    BY <1>7, <1>b, PollPlaced DEF Poll
<1>8. ASSUME PollMissing PROVE Placed'
    <2>1. Placed /\ UNCHANGED <<load, plan, match, shown>> /\ tail' = [tail EXCEPT !.file = FALSE]
        BY <1>8, <1>b DEF PollMissing
    <2>2. tail'.attached = tail.attached /\ tail'.seen = tail.seen
        BY <2>1 DEF HistoryTypes, TailTyped, TailShape
    <2> QED BY <2>1, <2>2 DEF Placed, SeenKnown, ArmedKnown, Before
<1>9. ASSUME NEW half \in BOOLEAN, WriteNote(half) PROVE Placed'
    <2>1. PICK x : count' = [count EXCEPT !.write = @ + 1, !.race = @ + x]
        <3>1. PICK x : x = IF Racing THEN 1 ELSE 0
            OBVIOUS
        <3> QED BY <1>9, <3>1, Zenon DEF WriteNote
    <2>2. count'.reload = count.reload
        BY <1>a, <2>1
    <2> QED BY <1>9, <1>b, <1>c, <2>2 DEF WriteNote
<1>10. ASSUME FinishNote PROVE Placed'
    BY <1>10, <1>b, <1>c DEF FinishNote
<1>11. ASSUME NEW i \in 1 .. Len(disk), Rewrite(i) PROVE Placed'
    <2>1. count' = [count EXCEPT !.rewrite = @ + 1]
        BY <1>11 DEF Rewrite
    <2>2. count'.reload = count.reload
        BY <1>a, <2>1
    <2>3. UNCHANGED <<load, plan, match, tail, shown>>
        BY <1>11 DEF Rewrite
    <2> QED BY <1>b, <1>c, <2>2, <2>3
<1>12. ASSUME StartReplay PROVE Placed'
    <2>1. /\ Placed /\ UNCHANGED <<plan, match, tail, shown>> /\ load.phase = "sent"
          /\ load' = [load EXCEPT !.phase = "replaying"]
        BY <1>12, <1>b DEF StartReplay
    <2>2. load'.phase = "replaying" /\ load'.planned = load.planned
        BY <2>1 DEF HistoryTypes, LoadTyped
    <2> QED BY <2>1, <2>2 DEF Placed, SeenKnown, ArmedKnown, Before
<1>13. ASSUME ReplayFrame PROVE Placed'
    <2>1. PICK f : observe(f)
        BY <1>13 DEF ReplayFrame
    <2>2. Placed /\ UNCHANGED <<load, plan, tail>> /\ load.phase = "replaying"
        BY <1>13, <1>b DEF ReplayFrame
    <2> QED BY <2>1, <2>2, ObservePlaced
<1>14. ASSUME NEW v \in Vals, ForeignFrame(v) PROVE Placed'
    <2>1. PICK f : observe(f)
        BY <1>14 DEF ForeignFrame
    <2>2. count' = [count EXCEPT !.foreign = @ + 1]
        BY <1>14 DEF ForeignFrame
    <2>3. count'.reload = count.reload
        BY <1>a, <2>2
    <2>4. Placed /\ UNCHANGED <<load, plan, tail>> /\ load.phase \in {"sent", "replaying"}
        BY <1>14, <1>b, <2>3 DEF ForeignFrame
    <2> QED BY <2>1, <2>4, ObservePlaced
<1>15. CASE UNCHANGED historyVars
    BY <1>15, <1>b, <1>c DEF historyVars
<1> QED BY <1>1, <1>2, <1>3, <1>4, <1>5, <1>6, <1>7, <1>8, <1>9, <1>10, <1>11, <1>12, <1>13, <1>14, <1>15
        DEF HistoryNext

-----------------------------------------------------------------------------
HistoryInv == HistoryTypes /\ UnracedInv /\ OnceInv

\* In every reachable state the entries are numbered as they were written; the
\* plan and the tailer's offset leave out no note unless OMP wrote in between;
\* and the tailer has seen what is shown, the matcher shown only what is before
\* its cursor.
THEOREM HistoryInvariantHolds == HistorySpec => []HistoryInv
<1>1. HistoryInit => HistoryInv
    BY TypesInit, UnracedInit, OnceInit DEF HistoryInv
<1>2. HistoryInv /\ [HistoryNext]_historyVars => HistoryInv'
    BY TypesNext, UnracedNext, OnceNext DEF HistoryInv
<1> QED BY <1>1, <1>2, PTL DEF HistorySpec

\* Whatever OMP writes, in halves or whole, whatever loads fail and however often
\* the file goes away: a complete note the tailer has not seen is still ahead of
\* its offset, unless OMP wrote between the adapter's read of the file, its
\* question for the size and the attach, or rewrote the file (readNewLines, poll,
\* attach).
THEOREM NoNoteSkipped == HistorySpec => []NothingSkippedUnraced
<1>1. HistoryInv => NothingSkippedUnraced
    <2> SUFFICES ASSUME HistoryTypes, Known, tail.attached, tail.file,
                        NEW k \in 1 .. Len(WholeLines), IsNote(disk[k]), disk[k].id \notin tail.seen
                 PROVE  2 * (k - 1) >= tail.offset \/ (tail.offset = 2 * k - 1 /\ tail.pending = disk[k].id)
        BY DEF HistoryInv, UnracedInv, Unraced, NothingSkippedUnraced, NothingSkipped
    <2>1. k \in 1 .. Len(disk)
        BY WholeIs
    <2>2. ~tail.skip
        BY DEF Known, SkipKnown
    <2>3. Ahead(disk, tail)
        BY <2>2 DEF Known, TailKnown
    <2> QED BY <2>1, <2>3 DEF Ahead
<1> QED BY <1>1, HistoryInvariantHolds, PTL

\* As long as the session that is tailed is not loaded once more, no note is in
\* the transcript twice, whether the replay placed it or the tailer (attach's
\* seenKeys; advanceTo and the flush at the response).
THEOREM NoNoteTwice == HistorySpec => [](count.reload = 0 => ShownOnce)
<1>1. HistoryInv => (count.reload = 0 => ShownOnce)
    <2> SUFFICES ASSUME Once(shown) PROVE ShownOnce
        BY DEF HistoryInv, OnceInv, Placed
    <2> QED BY DEF Once, ShownOnce, ShownNotes
<1> QED BY <1>1, HistoryInvariantHolds, PTL

-----------------------------------------------------------------------------
(***************************************************************************)
(* The notes of the plan are put where they were written, in a file whose  *)
(* tool ids are paired.                                                    *)
(***************************************************************************)
\* The results of tool calls in a file.
ToolEnds(d) ==
    {d[k].id : k \in {i \in 1 .. Len(d) : /\ d[i].kind = "result"
                                          /\ \E j \in 1 .. Len(d) : d[j].kind = "call" /\ d[j].val = d[i].val}}

UnitIds(s) == {s[i].id : i \in {k \in 1 .. Len(s) : s[k].by = "unit"}}
FrameIds(s) == {s[i].id : i \in {k \in 1 .. Len(s) : s[k].by = "frame"}}

InOrder(s, U) ==
    \A i, j \in 1 .. Len(s) : s[i].by = "unit" /\ s[j].by = "frame" =>
        /\ i < j => s[i].id < s[j].id
        /\ j < i => s[j].id \in U \/ s[j].id < s[i].id

\* Every message of the file is one of s, in the same order.
Messages(s, d) ==
    /\ s \in Seq(FileEntries) /\ Rising(s)
    /\ \A i \in 1 .. Len(s) : ~IsNote(s[i]) /\ \E k \in 1 .. Len(d) : s[i] = d[k]
    /\ \A k \in 1 .. Len(d) : ~IsNote(d[k]) => \E i \in 1 .. Len(s) : s[i] = d[k]

\* The messages whose first frame was replayed.
Done(j) == j < replay.at \/ (j = replay.at /\ replay.chunk = 2)
DoneIds == {replay.hist[j].id : j \in {i \in 1 .. Len(replay.hist) : Done(i)}}

FilePaired == WellPaired(disk) /\ (torn => IsNote(disk[Len(disk)]))
MatchIdle == load.phase \in {"none", "read"} => match = NoMatch

\* Only notes were written since the file was read.
PlanIsPrefix ==
    load.phase = "read" \/ (load.phase \in {"sent", "replaying"} /\ load.planned) =>
        /\ Len(plan.units) <= Len(disk) /\ \A k \in 1 .. Len(plan.units) : plan.units[k] = disk[k]
        /\ \A k \in 1 .. Len(disk) : k > Len(plan.units) => IsNote(disk[k])

\* The matcher before the replay.
MatchFresh ==
    load.phase \in {"read", "sent"} =>
        /\ match.cursor = 1 /\ match.mid = 0 /\ match.tools = {}
        /\ UnitIds(shown) = {} /\ FrameIds(shown) = {}

MatchOwn == match.active => load.planned /\ match.sid = "own"

ReplayKnown ==
    load.phase = "replaying" =>
        /\ Messages(replay.hist, disk) /\ replay.at \in Nat \ {0} /\ replay.chunk \in {1, 2}
        /\ replay = [hist |-> replay.hist, at |-> replay.at, chunk |-> replay.chunk]
        /\ replay.chunk = 2 => replay.at <= Len(replay.hist) /\ Len(Frames(replay.hist, replay.at)) = 2

\* What is shown was passed by the matcher; what is to come was not.
Passed ==
    load.phase = "replaying" =>
        /\ UnitIds(shown) \subseteq Before(match.cursor) /\ FrameIds(shown) \subseteq DoneIds
        /\ \A j \in 1 .. Len(replay.hist) : ~Done(j) => \A x \in Before(match.cursor) : x < replay.hist[j].id

\* The matcher follows the replay.
Follows ==
    load.phase = "replaying" /\ match.active =>
        /\ DoneIds \subseteq ToolEnds(disk) \cup Before(match.cursor)
        /\ match.mid \in DoneIds \cup {0}
        /\ \A v \in match.tools : \E j \in 1 .. Len(replay.hist) :
               Done(j) /\ replay.hist[j].kind \in {"call", "result"} /\ replay.hist[j].val = v
        /\ replay.chunk = 2 =>
               LET e == replay.hist[replay.at]
               IN  IF e.kind = "text" THEN match.mid = e.id ELSE e.val \in match.tools

Laid ==
    /\ FilePaired /\ MatchIdle
    /\ load.kind = "load" =>
           /\ PlanIsPrefix /\ MatchFresh /\ MatchOwn /\ ReplayKnown /\ Passed /\ Follows
           /\ FrameIds(shown) \subseteq Ids(disk) /\ InOrder(shown, ToolEnds(disk))
LaidInv == count.rewrite = 0 => Laid

LEMMA OrderJoined ==
    ASSUME NEW U, NEW p, IsSeq(p), InOrder(p, U), NEW q, IsSeq(q), InOrder(q, U),
           \A x \in UnitIds(p), y \in FrameIds(q) : x < y,
           \A y \in FrameIds(p), x \in UnitIds(q) : y \in U \/ y < x
    PROVE  /\ InOrder(p \o q, U)
           /\ UnitIds(p \o q) \subseteq UnitIds(p) \cup UnitIds(q)
           /\ FrameIds(p \o q) \subseteq FrameIds(p) \cup FrameIds(q)
<1>1. PICK r : r = p \o q
    OBVIOUS
<1>2. JoinOf(r, p, q)
    BY <1>1, Joined, Zenon
<1>3. /\ Len(p) \in Nat /\ Len(q) \in Nat
      /\ \A i \in 1 .. Len(p) : r[i] = p[i]
      /\ \A i \in 1 .. Len(r) : i \in 1 .. Len(p) \/ (i - Len(p) \in 1 .. Len(q) /\ r[i] = q[i - Len(p)])
      /\ Len(r) = Len(p) + Len(q)
    BY <1>2, Zenon DEF JoinOf
<1>4. ASSUME NEW i \in 1 .. Len(r)
      PROVE  \/ /\ i \in 1 .. Len(p) /\ r[i] = p[i]
                /\ r[i].by = "unit" => r[i].id \in UnitIds(p)
                /\ r[i].by = "frame" => r[i].id \in FrameIds(p)
             \/ /\ i - Len(p) \in 1 .. Len(q) /\ r[i] = q[i - Len(p)]
                /\ r[i].by = "unit" => r[i].id \in UnitIds(q)
                /\ r[i].by = "frame" => r[i].id \in FrameIds(q)
    <2>1. CASE i \in 1 .. Len(p)
        BY <1>3, <2>1 DEF UnitIds, FrameIds
    <2>2. CASE i - Len(p) \in 1 .. Len(q) /\ r[i] = q[i - Len(p)]
        <3>1. PICK k \in 1 .. Len(q) : k = i - Len(p)
            BY <2>2
        <3>2. r[i] = q[k]
            BY <2>2, <3>1
        <3>3. /\ r[i].by = "unit" => r[i].id \in UnitIds(q)
              /\ r[i].by = "frame" => r[i].id \in FrameIds(q)
            BY <3>2 DEF UnitIds, FrameIds
        <3> QED BY <2>2, <3>3
    <2> QED BY <1>3, <2>1, <2>2
<1>5. UnitIds(r) \subseteq UnitIds(p) \cup UnitIds(q)
    BY <1>4 DEF UnitIds
<1>6. FrameIds(r) \subseteq FrameIds(p) \cup FrameIds(q)
    BY <1>4 DEF FrameIds
<1>7. ASSUME NEW i \in 1 .. Len(r), NEW j \in 1 .. Len(r), r[i].by = "unit", r[j].by = "frame"
      PROVE  /\ i < j => r[i].id < r[j].id
             /\ j < i => r[j].id \in U \/ r[j].id < r[i].id
    <2>1. CASE i \in 1 .. Len(p) /\ r[i] = p[i] /\ j \in 1 .. Len(p) /\ r[j] = p[j]
        BY <1>7, <2>1 DEF InOrder
    <2>2. CASE /\ i - Len(p) \in 1 .. Len(q) /\ r[i] = q[i - Len(p)]
               /\ j - Len(p) \in 1 .. Len(q) /\ r[j] = q[j - Len(p)]
        <3>1. PICK k, l \in 1 .. Len(q) : k = i - Len(p) /\ l = j - Len(p)
            BY <2>2
        <3>2. r[i] = q[k] /\ r[j] = q[l]
            BY <2>2, <3>1
        <3>3. (i < j => k < l) /\ (j < i => l < k)
            BY <1>3, <3>1
        <3> QED BY <1>7, <3>2, <3>3 DEF InOrder
    <2>3. CASE i \in 1 .. Len(p) /\ r[i].id \in UnitIds(p) /\ j - Len(p) \in 1 .. Len(q) /\ r[j].id \in FrameIds(q)
        <3>1. ~(j < i)
            BY <1>3, <2>3
        <3> QED BY <2>3, <3>1
    <2>4. CASE j \in 1 .. Len(p) /\ r[j].id \in FrameIds(p) /\ i - Len(p) \in 1 .. Len(q) /\ r[i].id \in UnitIds(q)
        <3>1. ~(i < j)
            BY <1>3, <2>4
        <3> QED BY <2>4, <3>1
    <2> QED BY <1>4, <1>7, <2>1, <2>2, <2>3, <2>4
<1>8. InOrder(r, U)
    BY <1>7 DEF InOrder
<1> QED BY <1>1, <1>5, <1>6, <1>8

LEMMA ShownOrder ==
    ASSUME NEW T, NEW s \in Seq(T), NEW U, NEW how \in {"unit", "tail"}
    PROVE  /\ IsSeq(Shown(s, how)) /\ InOrder(Shown(s, how), U) /\ FrameIds(Shown(s, how)) = {}
           /\ UnitIds(Shown(s, how)) = IF how = "unit" THEN Ids(s) ELSE {}
<1>1. PICK r : r = Shown(s, how)
    OBVIOUS
<1>2. Len(s) \in Nat /\ r = [i \in 1 .. Len(s) |-> [id |-> s[i].id, by |-> how]]
    BY <1>1 DEF Shown
<1>3. DOMAIN r = 1 .. Len(s) /\ r \in [1 .. Len(s) -> Values(r)]
    BY <1>2 DEF Values
<1>4. IsSeq(r) /\ Len(r) = Len(s)
    BY <1>2, <1>3 DEF IsSeq
<1>5. \A i \in 1 .. Len(r) : r[i].id = s[i].id /\ r[i].by = how
    BY <1>2, <1>4
<1>6. InOrder(r, U)
    BY <1>5 DEF InOrder
<1>7. FrameIds(r) = {}
    BY <1>5 DEF FrameIds
<1>8. UnitIds(r) = IF how = "unit" THEN Ids(s) ELSE {}
    BY <1>4, <1>5 DEF UnitIds, Ids
<1> QED BY <1>1, <1>4, <1>6, <1>7, <1>8

LEMMA RowOrder ==
    ASSUME NEW f, NEW U, NEW r, r = IF f.first THEN <<[id |-> f.mid, by |-> "frame"]>> ELSE <<>>
    PROVE  /\ IsSeq(r) /\ InOrder(r, U) /\ UnitIds(r) = {}
           /\ FrameIds(r) \subseteq {f.mid} /\ (~f.first => FrameIds(r) = {})
<1>1. CASE f.first
    <2>1. PICK e : e = [id |-> f.mid, by |-> "frame"]
        OBVIOUS
    <2>2. r = <<e>> /\ e.by = "frame" /\ e.id = f.mid
        BY <1>1, <2>1
    <2>3. IsSeq(r) /\ Len(r) = 1 /\ r[1] = e
        BY <2>2, OneRow, Zenon
    <2>4. \A i \in 1 .. Len(r) : r[i].by = "frame" /\ r[i].id = f.mid
        BY <2>2, <2>3
    <2>5. InOrder(r, U) /\ UnitIds(r) = {}
        BY <2>4 DEF InOrder, UnitIds
    <2>6. FrameIds(r) \subseteq {f.mid}
        BY <2>4 DEF FrameIds
    <2> QED BY <1>1, <2>3, <2>5, <2>6
<1>2. CASE ~f.first
    <2>1. r = <<>>
        BY <1>2
    <2>2. IsSeq(r) /\ Len(r) = 0 /\ \A i \in 1 .. Len(r) : FALSE
        <3>1. IsSeq(r) /\ Len(r) = 0
            BY <2>1, NoRow, Zenon
        <3> QED BY <3>1
    <2>3. InOrder(r, U)
        BY <2>2 DEF InOrder
    <2>4. UnitIds(r) = {} /\ FrameIds(r) = {}
        BY <2>2 DEF UnitIds, FrameIds
    <2> QED BY <2>2, <2>3, <2>4
<1> QED BY <1>1, <1>2

LEMMA ForwardOrder ==
    ASSUME IsSeq(shown), NEW U, InOrder(shown, U), NEW T, NEW N \in Seq(T), NEW f, Forward(N, f),
           \A y \in FrameIds(shown), x \in Ids(N) : y \in U \/ y < x,
           f.first => \A x \in UnitIds(shown) \cup Ids(N) : x < f.mid
    PROVE  /\ InOrder(shown', U)
           /\ UnitIds(shown') \subseteq UnitIds(shown) \cup Ids(N)
           /\ FrameIds(shown') \subseteq FrameIds(shown) \cup {f.mid}
           /\ ~f.first => FrameIds(shown') \subseteq FrameIds(shown)
<1>1. PICK n, r : n = Shown(N, "unit") /\ r = IF f.first THEN <<[id |-> f.mid, by |-> "frame"]>> ELSE <<>>
    OBVIOUS
<1>2. IsSeq(n) /\ InOrder(n, U) /\ FrameIds(n) = {} /\ UnitIds(n) = Ids(N)
    BY <1>1, ShownOrder
<1>3. /\ IsSeq(r) /\ InOrder(r, U) /\ UnitIds(r) = {}
      /\ FrameIds(r) \subseteq {f.mid} /\ (~f.first => FrameIds(r) = {})
    BY <1>1, RowOrder
<1>4. shown' = (shown \o n) \o r
    BY <1>1, Zenon DEF Forward
<1>5. PICK p : p = shown \o n
    OBVIOUS
<1>6. IsSeq(p)
    BY <1>2, <1>5, Joined
<1>7. /\ InOrder(p, U) /\ UnitIds(p) \subseteq UnitIds(shown) \cup UnitIds(n)
      /\ FrameIds(p) \subseteq FrameIds(shown) \cup FrameIds(n)
    BY <1>2, <1>5, OrderJoined
<1>8. \A x \in UnitIds(p), y \in FrameIds(r) : x < y
    BY <1>2, <1>3, <1>7
<1>9. \A y \in FrameIds(p), x \in UnitIds(r) : y \in U \/ y < x
    BY <1>3
<1>10. /\ InOrder(p \o r, U) /\ UnitIds(p \o r) \subseteq UnitIds(p) \cup UnitIds(r)
       /\ FrameIds(p \o r) \subseteq FrameIds(p) \cup FrameIds(r)
    BY <1>3, <1>6, <1>7, <1>8, <1>9, OrderJoined
<1>11. shown' = p \o r
    BY <1>4, <1>5
<1> QED BY <1>2, <1>3, <1>7, <1>10, <1>11

-----------------------------------------------------------------------------
(* The file and its messages.                                                *)
LEMMA RisingDisk ==
    ASSUME HistoryTypes
    PROVE  /\ disk \in Seq(FileEntries) /\ Len(disk) \in Nat /\ Rising(disk) /\ Apart(disk)
           /\ \A k \in 1 .. Len(disk) : disk[k].id \in Nat
<1>1. disk \in Seq(FileEntries) /\ Numbered(disk) /\ Len(disk) \in Nat
    BY DEF HistoryTypes, DiskTyped
<1>2. Rising(disk) /\ \A k \in 1 .. Len(disk) : disk[k].id \in Nat
    BY <1>1 DEF Numbered, Rising
<1> QED BY <1>1, <1>2, NumberedApart

\* A note more changes neither the pairs nor the messages.
LEMMA NoteAdded ==
    ASSUME HistoryTypes, FilePaired, NEW d, d = Append(disk, NewNote)
    PROVE  /\ WellPaired(d) /\ IsNote(d[Len(d)]) /\ ToolEnds(d) = ToolEnds(disk) /\ Ids(disk) \subseteq Ids(d)
           /\ Len(d) = Len(disk) + 1 /\ \A k \in 1 .. Len(disk) : d[k] = disk[k]
           /\ \A s : Messages(s, disk) => Messages(s, d)
<1>1. /\ disk \in Seq(FileEntries) /\ Numbered(disk) /\ Len(disk) \in Nat
    BY DEF HistoryTypes, DiskTyped
<1>2. Len(d) = Len(disk) + 1 /\ \A k \in 1 .. Len(disk) : d[k] = disk[k]
    BY <1>1, DiskGrows, Zenon
<1>3. NewNote \in NewNotes /\ \A k \in 1 .. Len(disk) : disk[k].id < NewNote.id
    BY <1>1, NewNoteIs
<1>4. d[Len(d)] = NewNote
    <2>1. NewNote \in FileEntries
        BY <1>3, Zenon DEF FileEntries
    <2> QED BY <1>1, <1>2, <2>1
<1>5. NewNote.kind = "note" /\ NewNote.id # 0
    BY <1>3 DEF NewNotes
<1>6. \A k \in 1 .. Len(d) : k \in 1 .. Len(disk) \/ (k = Len(d) /\ d[k] = NewNote)
    BY <1>1, <1>2, <1>4
<1>7. \A k \in 1 .. Len(disk) : k \in 1 .. Len(d) /\ k < Len(d)
    BY <1>1, <1>2
<1>8. Len(d) \in 1 .. Len(d)
    BY <1>1, <1>2
<1>9. IsNote(d[Len(d)])
    BY <1>4, <1>5 DEF IsNote
<1>10. \A k \in 1 .. Len(d) : ~IsNote(d[k]) => k \in 1 .. Len(disk)
    BY <1>5, <1>6 DEF IsNote
<1>11. WellPaired(d)
    <2>1. WellPaired(disk)
        BY DEF FilePaired
    <2>2. ASSUME NEW i \in 1 .. Len(d) PROVE d[i].id # 0 /\ d[i].kind \in {"text", "call", "result", "note"}
        <3>1. CASE i \in 1 .. Len(disk)
            BY <1>2, <2>1, <3>1 DEF WellPaired
        <3>2. CASE d[i] = NewNote
            BY <1>5, <3>2
        <3> QED BY <1>6, <3>1, <3>2
    <2>3. ASSUME NEW i \in 1 .. Len(d), NEW j \in 1 .. Len(d), i < j, d[i].val = d[j].val,
                 {d[i].kind, d[j].kind} \subseteq {"call", "result"}
          PROVE  d[i].kind = "call" /\ d[j].kind = "result"
        <3>1. ~IsNote(d[i]) /\ ~IsNote(d[j])
            BY <2>3 DEF IsNote
        <3>2. i \in 1 .. Len(disk) /\ j \in 1 .. Len(disk)
            BY <1>10, <3>1
        <3> QED BY <1>2, <2>1, <2>3, <3>2 DEF WellPaired
    <2> QED BY <2>2, <2>3 DEF WellPaired
<1>12. Ids(disk) \subseteq Ids(d)
    BY <1>2, <1>7 DEF Ids
<1>13. ToolEnds(d) = ToolEnds(disk)
    <2>1. \A k \in 1 .. Len(d) : d[k].kind \in {"call", "result"} => k \in 1 .. Len(disk)
        BY <1>10 DEF IsNote
    <2> QED BY <1>2, <1>7, <2>1 DEF ToolEnds
<1>14. ASSUME NEW s, Messages(s, disk) PROVE Messages(s, d)
    <2>1. s \in Seq(FileEntries) /\ Rising(s)
        BY <1>14 DEF Messages
    <2>2. \A i \in 1 .. Len(s) : ~IsNote(s[i]) /\ \E k \in 1 .. Len(d) : s[i] = d[k]
        <3> SUFFICES ASSUME NEW i \in 1 .. Len(s)
                     PROVE  ~IsNote(s[i]) /\ \E k \in 1 .. Len(d) : s[i] = d[k]
            OBVIOUS
        <3>1. PICK k \in 1 .. Len(disk) : s[i] = disk[k]
            BY <1>14 DEF Messages
        <3>2. ~IsNote(s[i])
            BY <1>14 DEF Messages
        <3> QED BY <1>2, <1>7, <3>1, <3>2
    <2>3. \A k \in 1 .. Len(d) : ~IsNote(d[k]) => \E i \in 1 .. Len(s) : s[i] = d[k]
        BY <1>2, <1>10, <1>14 DEF Messages
    <2> QED BY <2>1, <2>2, <2>3 DEF Messages
<1> QED BY <1>2, <1>9, <1>11, <1>12, <1>13, <1>14

\* OMP replays the messages of the file.
LEMMA ReplayedIs ==
    ASSUME HistoryTypes, FilePaired, NEW s, s = Only(WholeLines, {e \in Values(WholeLines) : ~IsNote(e)})
    PROVE  Messages(s, disk)
<1>1. /\ disk \in Seq(FileEntries) /\ Len(disk) \in Nat /\ Rising(disk)
    BY RisingDisk
<1>2. PICK n \in Nat : n = Size \div 2 /\ n <= Len(disk) /\ (n = Len(disk) \/ (n = Len(disk) - 1 /\ torn))
    BY SizeIs DEF HistoryTypes, DiskTyped
<1>3. PICK w : w = WholeLines
    OBVIOUS
<1>4. w = SubSeq(disk, 1, n)
    BY <1>2, <1>3 DEF WholeLines
<1>5. w \in Seq(FileEntries) /\ Len(w) = n /\ \A k \in 1 .. n : w[k] = disk[k] /\ k \in 1 .. Len(disk)
    BY <1>1, <1>2, <1>4
<1>6. DOMAIN w = 1 .. n
    BY <1>5
<1>7. PICK S : S = {e \in Values(w) : ~IsNote(e)}
    OBVIOUS
<1>8. s \in Seq(FileEntries) /\ Filtered(s, w, S, n)
    BY <1>3, <1>5, <1>7, OnlyHolds
<1>9. Rising(w)
    BY <1>1, <1>5 DEF Rising
<1>10. Rising(s)
    BY <1>8, <1>9 DEF Filtered
<1>11. ASSUME NEW i \in 1 .. Len(s) PROVE ~IsNote(s[i]) /\ \E k \in 1 .. Len(disk) : s[i] = disk[k]
    <2>1. s[i] \in S /\ \E k \in 1 .. n : w[k] = s[i]
        BY <1>8, Zenon DEF Filtered
    <2>2. PICK k \in 1 .. n : w[k] = s[i]
        BY <2>1
    <2> QED BY <1>5, <1>7, <2>1, <2>2
<1>12. ASSUME NEW k \in 1 .. Len(disk), ~IsNote(disk[k]) PROVE \E i \in 1 .. Len(s) : s[i] = disk[k]
    <2>1. k \in 1 .. n
        <3>1. CASE n = Len(disk)
            BY <3>1
        <3>2. CASE n = Len(disk) - 1 /\ torn
            <4>1. k # Len(disk)
                BY <1>12, <3>2 DEF FilePaired
            <4> QED BY <1>1, <3>2, <4>1
        <3> QED BY <1>2, <3>1, <3>2
    <2>2. w[k] \in S
        BY <1>5, <1>6, <1>7, <1>12, <2>1 DEF Values
    <2>3. PICK i \in 1 .. Len(s) : s[i] = w[k]
        BY <1>8, <2>1, <2>2 DEF Filtered
    <2> QED BY <1>5, <2>1, <2>3
<1> QED BY <1>8, <1>10, <1>11, <1>12 DEF Messages

-----------------------------------------------------------------------------
(* The first frame of a message is matched with its unit.                    *)
FrameFacts(fs, h, i) ==
    /\ Len(fs) \in {1, 2}
    /\ fs[1].mid = h[i].id /\ fs[1].first = TRUE /\ fs[1].sid = "own" /\ fs[1].val = h[i].val
    /\ h[i].kind = "text" => fs[1].u = "chunk"
    /\ h[i].kind = "call" => fs[1].u = "tool_call" /\ Len(fs) = 1
    /\ h[i].kind = "result" /\ Announced(h, i) => fs[1].u = "tool_call_update" /\ Len(fs) = 1
    /\ h[i].kind = "result" /\ ~Announced(h, i) => fs[1].u = "tool_call"
    /\ Len(fs) = 2 => /\ fs[2].first = FALSE /\ fs[2].sid = "own" /\ fs[2].mid = h[i].id
                      /\ h[i].kind = "text" => fs[2].u = "chunk"
                      /\ h[i].kind # "text" => fs[2].u = "tool_call_update" /\ fs[2].val = h[i].val

LEMMA FramesAre ==
    ASSUME NEW h, NEW i, h[i].kind \in {"text", "call", "result"}, NEW fs, fs = Frames(h, i)
    PROVE  FrameFacts(fs, h, i)
<1>1. CASE h[i].kind = "text" /\ h[i].more = 0
    BY <1>1 DEF Frames, FrameFacts
<1>2. CASE h[i].kind = "text" /\ h[i].more # 0
    BY <1>2 DEF Frames, FrameFacts
<1>3. CASE h[i].kind = "call"
    BY <1>3 DEF Frames, FrameFacts
<1>4. CASE h[i].kind = "result" /\ Announced(h, i)
    BY <1>4 DEF Frames, FrameFacts
<1>5. CASE h[i].kind = "result" /\ ~Announced(h, i)
    BY <1>5 DEF Frames, FrameFacts
<1> QED BY <1>1, <1>2, <1>3, <1>4, <1>5

LEMMA RisingIds ==
    ASSUME NEW s, Rising(s), Len(s) \in Nat, \A k \in 1 .. Len(s) : s[k].id \in Nat,
           NEW i \in 1 .. Len(s), NEW j \in 1 .. Len(s)
    PROVE  (s[i].id < s[j].id => i < j) /\ (s[i].id = s[j].id => i = j) /\ (i < j => s[i].id < s[j].id)
<1>1. (i < j => s[i].id < s[j].id) /\ (j < i => s[j].id < s[i].id)
    BY DEF Rising
<1>2. s[i].id \in Nat /\ s[j].id \in Nat
    OBVIOUS
<1>3. i < j \/ j < i \/ i = j
    OBVIOUS
<1>4. ~(s[i].id < s[j].id /\ s[j].id < s[i].id) /\ ~(s[i].id < s[i].id)
    BY <1>2
<1>5. ~(s[i].id = s[j].id /\ (s[i].id < s[j].id \/ s[j].id < s[i].id))
    BY <1>2
<1> QED BY <1>1, <1>3, <1>4, <1>5, Zenon

\* A load whose replay has come to the message at replay.at.
Replaying ==
    /\ HistoryTypes /\ Laid /\ load.kind = "load" /\ load.phase = "replaying"

LEMMA MessagesAre ==
    ASSUME Replaying
    PROVE  LET h == replay.hist
           IN  /\ h \in Seq(FileEntries) /\ Len(h) \in Nat /\ Rising(h)
               /\ \A i \in 1 .. Len(h) : /\ h[i].id \in Nat \ {0} /\ h[i].kind \in {"text", "call", "result"}
                                         /\ \E k \in 1 .. Len(disk) : h[i] = disk[k]
               /\ \A k \in 1 .. Len(disk) : ~IsNote(disk[k]) => \E i \in 1 .. Len(h) : h[i] = disk[k]
<1>1. PICK h : h = replay.hist
    OBVIOUS
<1>2. Messages(h, disk) /\ WellPaired(disk)
    BY <1>1 DEF Replaying, Laid, ReplayKnown, FilePaired
<1>3. /\ h \in Seq(FileEntries) /\ Rising(h)
      /\ \A i \in 1 .. Len(h) : ~IsNote(h[i]) /\ \E k \in 1 .. Len(disk) : h[i] = disk[k]
      /\ \A k \in 1 .. Len(disk) : ~IsNote(disk[k]) => \E i \in 1 .. Len(h) : h[i] = disk[k]
    BY <1>2, Zenon DEF Messages
<1>4. Len(h) \in Nat
    BY <1>3
<1>5. \A k \in 1 .. Len(disk) : disk[k].id \in Nat
    BY RisingDisk DEF Replaying
<1>6. ASSUME NEW i \in 1 .. Len(h) PROVE h[i].id \in Nat \ {0} /\ h[i].kind \in {"text", "call", "result"}
    <2>1. PICK k \in 1 .. Len(disk) : h[i] = disk[k]
        BY <1>3
    <2>2. disk[k].id \in Nat /\ disk[k].id # 0 /\ disk[k].kind \in {"text", "call", "result", "note"}
        BY <1>2, <1>5 DEF WellPaired
    <2>3. h[i].kind # "note"
        BY <1>3 DEF IsNote
    <2> QED BY <2>1, <2>2, <2>3
<1> QED BY <1>1, <1>3, <1>4, <1>6, Zenon

LEMMA UnitsAre ==
    ASSUME Replaying, load.planned
    PROVE  /\ plan.units \in Seq(FileEntries) /\ Len(plan.units) \in Nat /\ Rising(plan.units) /\ Apart(plan.units)
           /\ \A k \in 1 .. Len(plan.units) : plan.units[k].id \in Nat /\ plan.units[k] = disk[k] /\ k \in 1 .. Len(disk)
           /\ \A k \in 1 .. Len(disk) : ~IsNote(disk[k]) => k \in 1 .. Len(plan.units) /\ plan.units[k] = disk[k]
<1>1. plan.units \in Seq(FileEntries) /\ Apart(plan.units) /\ Len(plan.units) \in Nat
    BY DEF Replaying, HistoryTypes, PlanTyped
<1>2. Len(disk) \in Nat /\ Rising(disk) /\ \A k \in 1 .. Len(disk) : disk[k].id \in Nat
    BY RisingDisk DEF Replaying
<1>3. /\ Len(plan.units) <= Len(disk) /\ \A k \in 1 .. Len(plan.units) : plan.units[k] = disk[k]
      /\ \A k \in 1 .. Len(disk) : k > Len(plan.units) => IsNote(disk[k])
    BY DEF Replaying, Laid, PlanIsPrefix
<1>4. \A k \in 1 .. Len(plan.units) : k \in 1 .. Len(disk)
    BY <1>1, <1>2, <1>3
<1>5. \A k \in 1 .. Len(disk) : k > Len(plan.units) \/ k \in 1 .. Len(plan.units)
    BY <1>1, <1>2
<1>6. Rising(plan.units)
    BY <1>2, <1>3, <1>4 DEF Rising
<1>7. \A k \in 1 .. Len(plan.units) : plan.units[k].id \in Nat /\ plan.units[k] = disk[k] /\ k \in 1 .. Len(disk)
    BY <1>2, <1>3, <1>4
<1>8. \A k \in 1 .. Len(disk) : ~IsNote(disk[k]) => k \in 1 .. Len(plan.units) /\ plan.units[k] = disk[k]
    BY <1>3, <1>5
<1> QED BY <1>1, <1>6, <1>7, <1>8

LEMMA FirstIsLeast ==
    ASSUME NEW S, S \subseteq Nat, NEW p \in S, \A i \in S : p <= i
    PROVE  First(S) = p
<1>1. First(S) \in S /\ \A j \in S : First(S) <= j
    BY DEF First
<1>2. PICK x \in Nat : x = First(S) /\ p <= x /\ x <= p
    BY <1>1
<1>3. p \in Nat
    OBVIOUS
<1> QED BY <1>2, <1>3

\* Where the message at `at' is in the plan.
LEMMA UnitOf ==
    ASSUME Replaying, load.planned, NEW i \in 1 .. Len(replay.hist)
    PROVE  \E p \in 1 .. Len(plan.units) : plan.units[p] = replay.hist[i] /\ ~IsNote(plan.units[p])
<1>1. PICK k \in 1 .. Len(disk) : replay.hist[i] = disk[k]
    BY MessagesAre
<1>2. replay.hist[i].kind \in {"text", "call", "result"}
    BY MessagesAre
<1>3. ~IsNote(disk[k])
    BY <1>1, <1>2 DEF IsNote
<1>4. k \in 1 .. Len(plan.units) /\ plan.units[k] = disk[k]
    BY <1>3, UnitsAre
<1> QED BY <1>1, <1>3, <1>4

LEMMA MessageOf ==
    ASSUME Replaying, load.planned, NEW k \in 1 .. Len(plan.units), ~IsNote(plan.units[k])
    PROVE  \E i \in 1 .. Len(replay.hist) : replay.hist[i] = plan.units[k]
<1>1. plan.units[k] = disk[k] /\ k \in 1 .. Len(disk)
    BY UnitsAre
<1> QED BY <1>1, MessagesAre

\* The plan and the replay agree on which tool ids are announced.
LEMMA AnnouncedAgree ==
    ASSUME Replaying, load.planned, NEW i \in 1 .. Len(replay.hist), NEW p \in 1 .. Len(plan.units),
           plan.units[p] = replay.hist[i]
    PROVE  Announced(plan.units, p) <=> Announced(replay.hist, i)
<1>1. PICK h, u : h = replay.hist /\ u = plan.units
    OBVIOUS
<1>2. Len(h) \in Nat /\ Rising(h) /\ \A k \in 1 .. Len(h) : h[k].id \in Nat
    BY <1>1, MessagesAre
<1>3. Len(u) \in Nat /\ Rising(u) /\ \A k \in 1 .. Len(u) : u[k].id \in Nat
    BY <1>1, UnitsAre
<1>4. u[p] = h[i] /\ i \in 1 .. Len(h) /\ p \in 1 .. Len(u)
    BY <1>1
<1>5. ASSUME Announced(u, p) PROVE Announced(h, i)
    <2>1. PICK j \in 1 .. p - 1 : u[j].kind \in {"call", "result"} /\ u[j].val = u[p].val
        BY <1>5 DEF Announced
    <2>2. j \in 1 .. Len(u) /\ j < p
        BY <1>3, <1>4
    <2>3. ~IsNote(u[j])
        BY <2>1 DEF IsNote
    <2>4. PICK l \in 1 .. Len(h) : h[l] = u[j]
        BY <1>1, <2>2, <2>3, MessageOf
    <2>5. h[l].id < h[i].id
        BY <1>3, <1>4, <2>2, <2>4, RisingIds
    <2>6. l < i
        BY <1>2, <1>4, <2>5, RisingIds
    <2>7. l \in 1 .. i - 1
        BY <1>2, <1>4, <2>6
    <2> QED BY <1>4, <2>1, <2>4, <2>7 DEF Announced
<1>6. ASSUME Announced(h, i) PROVE Announced(u, p)
    <2>1. PICK l \in 1 .. i - 1 : h[l].kind \in {"call", "result"} /\ h[l].val = h[i].val
        BY <1>6 DEF Announced
    <2>2. l \in 1 .. Len(h) /\ l < i
        BY <1>2, <1>4
    <2>3. PICK j \in 1 .. Len(u) : u[j] = h[l]
        BY <1>1, <2>2, UnitOf
    <2>4. u[j].id < u[p].id
        BY <1>2, <1>4, <2>2, <2>3, RisingIds
    <2>5. j < p
        BY <1>3, <1>4, <2>4, RisingIds
    <2>6. j \in 1 .. p - 1
        BY <1>3, <1>4, <2>5
    <2> QED BY <1>4, <2>1, <2>3, <2>6 DEF Announced
<1> QED BY <1>1, <1>5, <1>6

\* A result of a call was announced by it, and nothing else by anything.
LEMMA EndsAre ==
    ASSUME Replaying, load.planned, NEW k \in 1 .. Len(plan.units)
    PROVE  /\ plan.units[k].id \in ToolEnds(disk) => plan.units[k].kind = "result" /\ Announced(plan.units, k)
           /\ plan.units[k].kind = "result" /\ Announced(plan.units, k) => plan.units[k].id \in ToolEnds(disk)
           /\ plan.units[k].kind = "call" => ~Announced(plan.units, k)
<1>1. PICK u : u = plan.units
    OBVIOUS
<1>2. /\ Len(u) \in Nat /\ \A j \in 1 .. Len(u) : u[j] = disk[j] /\ j \in 1 .. Len(disk)
      /\ \A j \in 1 .. Len(disk) : ~IsNote(disk[j]) => j \in 1 .. Len(u)
    BY <1>1, UnitsAre
<1>3. Apart(disk) /\ WellPaired(disk) /\ Len(disk) \in Nat
    BY RisingDisk DEF Replaying, Laid, FilePaired
<1>4. u[k] = disk[k] /\ k \in 1 .. Len(disk) /\ k \in 1 .. Len(u)
    BY <1>1, <1>2
<1>5. ASSUME u[k].id \in ToolEnds(disk) PROVE u[k].kind = "result" /\ Announced(u, k)
    <2>1. PICK i \in 1 .. Len(disk) : /\ u[k].id = disk[i].id /\ disk[i].kind = "result"
                                      /\ \E j \in 1 .. Len(disk) : disk[j].kind = "call" /\ disk[j].val = disk[i].val
        BY <1>5 DEF ToolEnds
    <2>2. i = k
        BY <1>3, <1>4, <2>1 DEF Apart
    <2>3. PICK j \in 1 .. Len(disk) : disk[j].kind = "call" /\ disk[j].val = disk[k].val
        BY <2>1, <2>2
    <2>4. disk[k].kind = "result"
        BY <2>1, <2>2
    <2>5. j # k
        BY <2>3, <2>4
    <2>6. ~(k < j)
        BY <1>3, <1>4, <2>3, <2>4 DEF WellPaired
    <2>7. j < k
        BY <1>3, <1>4, <2>5, <2>6
    <2>8. j \in 1 .. k - 1 /\ j \in 1 .. Len(u)
        BY <1>2, <1>3, <1>4, <2>7
    <2>9. u[j] = disk[j]
        BY <1>2, <2>8
    <2>10. Announced(u, k)
        BY <1>4, <2>3, <2>8, <2>9 DEF Announced
    <2> QED BY <1>4, <2>4, <2>10
<1>6. ASSUME Announced(u, k), u[k].kind \in {"call", "result"} PROVE u[k].kind = "result" /\ u[k].id \in ToolEnds(disk)
    <2>1. PICK j \in 1 .. k - 1 : u[j].kind \in {"call", "result"} /\ u[j].val = u[k].val
        BY <1>6 DEF Announced
    <2>2. j \in 1 .. Len(u) /\ j < k
        BY <1>2, <1>4
    <2>3. u[j] = disk[j] /\ j \in 1 .. Len(disk)
        BY <1>2, <2>2
    <2>4. disk[j].kind = "call" /\ disk[k].kind = "result"
        BY <1>3, <1>4, <1>6, <2>1, <2>2, <2>3 DEF WellPaired
    <2>5. disk[k].id \in ToolEnds(disk)
        BY <1>4, <2>1, <2>3, <2>4 DEF ToolEnds
    <2> QED BY <1>4, <2>4, <2>5
<1> QED BY <1>1, <1>5, <1>6

LEMMA MatchesItself ==
    ASSUME Replaying, match.active, replay.chunk = 1, replay.at \in 1 .. Len(replay.hist),
           NEW f, f = Frames(replay.hist, replay.at)[1]
    PROVE  \E p \in match.cursor .. Len(plan.units) :
               /\ plan.units[p] = replay.hist[replay.at]
               /\ p = firstMatch([u |-> f.u, val |-> f.val]) /\ p # 0
<1>1. PICK u, h, e, c : u = plan.units /\ h = replay.hist /\ e = h[replay.at] /\ c = match.cursor
    OBVIOUS
<1>2. load.planned /\ c \in Nat \ {0} /\ replay.at \in 1 .. Len(h)
    BY <1>1 DEF Replaying, Laid, MatchOwn, HistoryTypes, MatchTyped
<1>3. PICK p \in 1 .. Len(u) : u[p] = e /\ ~IsNote(u[p])
    BY <1>1, <1>2, UnitOf
<1>4. Len(u) \in Nat /\ Rising(u) /\ \A k \in 1 .. Len(u) : u[k].id \in Nat
    BY <1>1, <1>2, UnitsAre
<1>5. Len(h) \in Nat /\ Rising(h) /\ \A k \in 1 .. Len(h) : h[k].id \in Nat /\ h[k].kind \in {"text", "call", "result"}
    BY <1>1, MessagesAre
<1>6. ~Done(replay.at)
    <2>1. replay.at \in Nat
        BY <1>2
    <2> QED BY <2>1 DEF Done
<1>7. \A x \in Before(c) : x < e.id
    BY <1>1, <1>2, <1>6 DEF Replaying, Laid, Passed
<1>8. p >= c
    <2> SUFFICES ASSUME ~(p >= c) PROVE FALSE
        OBVIOUS
    <2>1. p \in 1 .. c - 1
        BY <1>2, <1>3
    <2>2. u[p].id \in Before(c)
        BY <1>1, <2>1 DEF Before
    <2>3. e.id < e.id /\ e.id \in Nat
        BY <1>3, <1>4, <1>7, <2>2
    <2> QED BY <2>3
<1>9. PICK sig : sig = [u |-> f.u, val |-> f.val]
    OBVIOUS
<1>10. Announced(u, p) <=> Announced(h, replay.at)
    BY <1>1, <1>2, <1>3, AnnouncedAgree
<1>11. /\ f.val = e.val /\ e.kind \in {"text", "call", "result"}
       /\ e.kind = "text" => f.u = "chunk"
       /\ e.kind = "call" => f.u = "tool_call"
       /\ e.kind = "result" /\ Announced(h, replay.at) => f.u = "tool_call_update"
       /\ e.kind = "result" /\ ~Announced(h, replay.at) => f.u = "tool_call"
    <2>1. PICK fs : fs = Frames(h, replay.at) /\ f = fs[1]
        BY <1>1
    <2>2. h[replay.at].kind \in {"text", "call", "result"}
        BY <1>2, <1>5
    <2>3. /\ fs[1].val = h[replay.at].val
          /\ h[replay.at].kind = "text" => fs[1].u = "chunk"
          /\ h[replay.at].kind = "call" => fs[1].u = "tool_call"
          /\ h[replay.at].kind = "result" /\ Announced(h, replay.at) => fs[1].u = "tool_call_update"
          /\ h[replay.at].kind = "result" /\ ~Announced(h, replay.at) => fs[1].u = "tool_call"
        <3>1. FrameFacts(fs, h, replay.at)
            BY <2>1, <2>2, FramesAre
        <3> QED BY <3>1, Zenon DEF FrameFacts
    <2> QED BY <1>1, <2>1, <2>2, <2>3, Zenon
<1>12. Sig(u, p) = sig
    <2>1. CASE e.kind = "text"
        BY <1>3, <1>9, <1>11, <2>1 DEF Sig
    <2>2. CASE e.kind = "call"
        BY <1>3, <1>9, <1>11, <2>2 DEF Sig
    <2>3. CASE e.kind = "result"
        BY <1>3, <1>9, <1>10, <1>11, <2>3 DEF Sig
    <2> QED BY <1>11, <2>1, <2>2, <2>3
<1>13. ASSUME NEW i \in c .. Len(u), Sig(u, i) = sig, i < p PROVE FALSE
    <2>1. i \in 1 .. Len(u)
        BY <1>2, <1>4
    <2>2. u[i].kind \in {"text", "call", "result"}
        BY <1>9, <1>11, <1>13 DEF Sig
    <2>3. PICK l \in 1 .. Len(h) : h[l] = u[i]
        BY <1>1, <1>2, <2>1, <2>2, MessageOf DEF IsNote
    <2>4. h[l].id < h[replay.at].id
        <3>1. u[i].id < u[p].id
            BY <1>3, <1>4, <1>13, <2>1, RisingIds
        <3> QED BY <1>1, <1>3, <2>3, <3>1, Zenon
    <2>5. l < replay.at
        BY <1>2, <1>5, <2>4, RisingIds
    <2>6. u[i].id \in DoneIds
        BY <1>1, <2>3, <2>5 DEF Done, DoneIds
    <2>7. u[i].id \in ToolEnds(disk) \cup Before(c)
        BY <1>1, <2>6 DEF Replaying, Laid, Follows
    <2>8. u[i].id \notin Before(c)
        <3> SUFFICES ASSUME u[i].id \in Before(c) PROVE FALSE
            OBVIOUS
        <3>1. PICK k \in 1 .. c - 1 : u[i].id = u[k].id
            BY <1>1 DEF Before
        <3>2. k \in 1 .. Len(u) /\ k < i
            BY <1>2, <1>4
        <3>3. u[k].id < u[i].id /\ u[i].id \in Nat
            BY <1>4, <2>1, <3>2, RisingIds
        <3> QED BY <3>1, <3>3
    <2>9. u[i].kind = "result" /\ Announced(u, i)
        BY <1>1, <1>2, <2>1, <2>7, <2>8, EndsAre
    <2>10. sig = [u |-> "tool_call_update", val |-> u[i].val]
        BY <1>13, <2>9 DEF Sig
    <2>11. f.u = "tool_call_update" /\ e.val = u[i].val
        BY <1>9, <1>11, <2>10
    <2>12. e.kind = "result" /\ u[p].kind = "result"
        BY <1>3, <1>11, <2>11
    <2>13. WellPaired(disk) /\ u[i] = disk[i] /\ u[p] = disk[p] /\ i \in 1 .. Len(disk) /\ p \in 1 .. Len(disk)
        BY <1>1, <1>2, <2>1, UnitsAre DEF Replaying, Laid, FilePaired
    <2> QED BY <1>3, <1>13, <2>9, <2>11, <2>12, <2>13 DEF WellPaired
<1>14. firstMatch(sig) = p
    <2> DEFINE found == {i \in c .. Len(u) : Sig(u, i) = sig}
    <2>1. p \in found
        BY <1>2, <1>4, <1>8, <1>12
    <2>2. found \subseteq Nat
        BY <1>2, <1>4
    <2>3. \A i \in found : p <= i
        BY <1>2, <1>4, <1>13
    <2>4. First(found) = p
        BY <2>1, <2>2, <2>3, FirstIsLeast
    <2>5. firstMatch(sig) = IF found = {} THEN 0 ELSE First(found)
        BY <1>1, Zenon DEF firstMatch
    <2> HIDE DEF found
    <2> QED BY <2>1, <2>4, <2>5
<1>15. p \in c .. Len(u) /\ p # 0
    BY <1>2, <1>4, <1>8
<1> QED BY <1>1, <1>3, <1>9, <1>14, <1>15, Zenon

\* What observing the first frame f of the message e does.
Follow(e, f) ==
    /\ match'.active /\ match'.sid = "own"
    /\ \/ e.id \in ToolEnds(disk) /\ match'.cursor = match.cursor /\ Forward(<<>>, f)
       \/ \E p \in match.cursor .. Len(plan.units) :
              /\ plan.units[p] = e /\ match'.cursor = p + 1
              /\ Forward(Notes(SubSeq(plan.units, match.cursor, p - 1)), f)
    /\ match'.mid = IF e.kind = "text" THEN e.id ELSE match.mid
    /\ match.tools \subseteq match'.tools /\ match'.tools \subseteq match.tools \cup {e.val}
    /\ e.kind = "text" => match'.tools = match.tools
    /\ e.kind # "text" => e.id \in ToolEnds(disk) \/ e.val \in match'.tools

LEMMA AdvanceFollows ==
    ASSUME NEW p \in match.cursor .. Len(plan.units), NEW f, NEW m, MatchShape(m), m.active, f.sid = "own",
           advanceTo(p, f, m), NEW e, plan.units[p] = e,
           m.mid = IF e.kind = "text" THEN e.id ELSE match.mid,
           match.tools \subseteq m.tools, m.tools \subseteq match.tools \cup {e.val},
           e.kind = "text" => m.tools = match.tools,
           e.kind # "text" => e.id \in ToolEnds(disk) \/ e.val \in m.tools
    PROVE  Follow(e, f)
<1>1. match' = [m EXCEPT !.cursor = p + 1, !.sid = f.sid] /\ Forward(Notes(SubSeq(plan.units, match.cursor, p - 1)), f)
    BY Zenon DEF advanceTo
<1>2. match'.active /\ match'.sid = "own" /\ match'.cursor = p + 1 /\ match'.mid = m.mid /\ match'.tools = m.tools
    BY <1>1 DEF MatchShape
<1> QED BY <1>1, <1>2 DEF Follow

LEMMA PassFollows ==
    ASSUME NEW f, NEW m, MatchShape(m), m.active, m.sid = "own", m.cursor = match.cursor, passThrough(f, m), NEW e,
           m.mid = match.mid, m.tools = match.tools, e.id \in ToolEnds(disk), e.kind # "text"
    PROVE  Follow(e, f)
<1>1. match' = m /\ Forward(<<>>, f)
    BY Zenon DEF passThrough
<1> QED BY <1>1 DEF Follow

LEMMA FirstObserved ==
    ASSUME Replaying, match.active, replay.chunk = 1, replay.at \in 1 .. Len(replay.hist),
           NEW f, f = Frames(replay.hist, replay.at)[1], observe(f)
    PROVE  Follow(replay.hist[replay.at], f)
<1>1. PICK h, e : h = replay.hist /\ e = h[replay.at]
    OBVIOUS
<1>2. PICK p \in match.cursor .. Len(plan.units) :
          plan.units[p] = e /\ p = firstMatch([u |-> f.u, val |-> f.val]) /\ p # 0
    BY <1>1, MatchesItself
<1>3. MatchShape(match) /\ match.sid = "own" /\ load.planned /\ match.cursor \in Nat \ {0} /\ Len(plan.units) \in Nat
    BY DEF Replaying, HistoryTypes, MatchTyped, PlanTyped, Laid, MatchOwn
<1>4. p \in 1 .. Len(plan.units)
    BY <1>3
<1>5. Len(h) \in Nat /\ Rising(h) /\ \A k \in 1 .. Len(h) : h[k].id \in Nat \ {0} /\ h[k].kind \in {"text", "call", "result"}
    BY <1>1, MessagesAre
<1>6. replay.at \in 1 .. Len(h) /\ e.kind \in {"text", "call", "result"} /\ e.id \in Nat \ {0}
    BY <1>1, <1>5
<1>7. /\ f.mid = e.id /\ f.sid = "own" /\ f.val = e.val
      /\ e.kind = "text" => f.u = "chunk"
      /\ e.kind = "call" => f.u = "tool_call"
      /\ e.kind = "result" /\ Announced(h, replay.at) => f.u = "tool_call_update"
      /\ e.kind = "result" /\ ~Announced(h, replay.at) => f.u = "tool_call"
    <2>1. PICK fs : fs = Frames(h, replay.at) /\ f = fs[1]
        BY <1>1
    <2>2. h[replay.at].kind \in {"text", "call", "result"}
        BY <1>5, <1>6
    <2>3. FrameFacts(fs, h, replay.at)
        BY <2>1, <2>2, FramesAre
    <2> QED BY <1>1, <2>1, <2>3, Zenon DEF FrameFacts
<1>8. /\ e.id \in ToolEnds(disk) <=> e.kind = "result" /\ Announced(h, replay.at)
      /\ e.kind = "call" => ~Announced(h, replay.at)
    <2>1. Announced(plan.units, p) <=> Announced(h, replay.at)
        BY <1>1, <1>2, <1>3, <1>4, <1>6, AnnouncedAgree
    <2> QED BY <1>2, <1>3, <1>4, <2>1, EndsAre
<1>9. IF f.u = "chunk" THEN observeChunk(f) ELSE observeTool(f)
    BY <1>3, <1>7 DEF observe
<1>10. CASE e.kind = "text"
    <2>1. f.mid # match.mid
        <3>1. match.mid \in DoneIds \cup {0}
            BY DEF Replaying, Laid, Follows
        <3>2. e.id \notin DoneIds
            <4> SUFFICES ASSUME NEW j \in 1 .. Len(h), Done(j), h[j].id = e.id PROVE FALSE
                BY <1>1 DEF DoneIds
            <4>1. j = replay.at
                BY <1>1, <1>5, <1>6, RisingIds
            <4> QED BY <1>6, <4>1 DEF Done
        <3> QED BY <1>6, <1>7, <3>1, <3>2
    <2>2. PICK m : m = [match EXCEPT !.mid = f.mid]
        OBVIOUS
    <2>3. p = firstMatch([u |-> "chunk", val |-> f.val])
        BY <1>2, <1>7, <1>10
    <2>4. advanceTo(p, f, m)
        BY <1>2, <1>7, <1>9, <1>10, <2>1, <2>2, <2>3, Zenon DEF observeChunk
    <2>5. MatchShape(m) /\ m.active /\ m.mid = e.id /\ m.tools = match.tools
        BY <1>3, <1>7, <2>2 DEF MatchShape
    <2> QED BY <1>1, <1>2, <1>7, <1>10, <2>4, <2>5, AdvanceFollows
<1>11. CASE e.kind # "text"
    <2>1. PICK m, n, q : /\ m = [match EXCEPT !.tools = @ \cup {f.val}]
                         /\ n = [m EXCEPT !.pend = f.val]
                         /\ q = [match EXCEPT !.pend = 0]
        OBVIOUS
    <2>2. /\ MatchShape(m) /\ m.active /\ m.mid = match.mid /\ m.tools = match.tools \cup {e.val}
          /\ MatchShape(q) /\ q.active /\ q.mid = match.mid /\ q.tools = match.tools
          /\ q.sid = "own" /\ q.cursor = match.cursor
        BY <1>3, <1>7, <2>1 DEF MatchShape
    <2>3. MatchShape(n) /\ n.active /\ n.mid = match.mid /\ n.tools = match.tools \cup {e.val}
        BY <2>1, <2>2 DEF MatchShape
    <2>4. f.u # "chunk" /\ observeTool(f)
        BY <1>6, <1>7, <1>9, <1>11
    <2>5. \/ f.u = "tool_call_update" /\ passThrough(f, q)
          \/ f.val \in match.tools /\ passThrough(f, match)
          \/ advanceTo(p, f, m)
          \/ advanceTo(p, f, n)
        BY <1>2, <2>1, <2>4 DEF observeTool
    <2>6. ASSUME advanceTo(p, f, m) PROVE Follow(e, f)
        BY <1>2, <1>7, <1>11, <2>2, <2>6, AdvanceFollows
    <2>7. ASSUME advanceTo(p, f, n) PROVE Follow(e, f)
        BY <1>2, <1>7, <1>11, <2>3, <2>7, AdvanceFollows
    <2>8. ASSUME f.u = "tool_call_update", passThrough(f, q) PROVE Follow(e, f)
        <3>1. e.id \in ToolEnds(disk)
            BY <1>6, <1>7, <1>8, <1>11, <2>8
        <3> QED BY <1>11, <2>2, <2>8, <3>1, PassFollows
    <2>9. ASSUME f.val \in match.tools, passThrough(f, match) PROVE Follow(e, f)
        <3>1. PICK j \in 1 .. Len(h) : Done(j) /\ h[j].kind \in {"call", "result"} /\ h[j].val = e.val
            BY <1>1, <1>7, <2>9 DEF Replaying, Laid, Follows
        <3>2. j \in 1 .. replay.at - 1
            BY <1>5, <1>6, <3>1 DEF Done
        <3>3. Announced(h, replay.at)
            BY <1>1, <3>1, <3>2 DEF Announced
        <3>4. e.id \in ToolEnds(disk)
            BY <1>6, <1>8, <1>11, <3>3
        <3> QED BY <1>3, <1>11, <2>9, <3>4, PassFollows
    <2> QED BY <1>1, <2>5, <2>6, <2>7, <2>8, <2>9
<1> QED BY <1>10, <1>11

\* The second frame of a message moves nothing.
LEMMA SecondObserved ==
    ASSUME Replaying, match.active, replay.chunk = 2, NEW f, f = Frames(replay.hist, replay.at)[2], observe(f)
    PROVE  /\ match'.active /\ match'.sid = "own" /\ match'.cursor = match.cursor
           /\ match'.mid = match.mid /\ match'.tools = match.tools
           /\ Forward(<<>>, f) /\ ~f.first
<1>1. PICK h, e : h = replay.hist /\ e = h[replay.at]
    OBVIOUS
<1>2. MatchShape(match) /\ match.sid = "own"
    BY DEF Replaying, HistoryTypes, MatchTyped, Laid, MatchOwn
<1>3. replay.at \in 1 .. Len(h) /\ Len(Frames(h, replay.at)) = 2
    <2>1. replay.at \in Nat \ {0} /\ replay.at <= Len(h) /\ Len(Frames(h, replay.at)) = 2
        BY <1>1 DEF Replaying, Laid, ReplayKnown
    <2>2. Len(h) \in Nat
        BY <1>1, MessagesAre
    <2> QED BY <2>1, <2>2
<1>4. e.kind \in {"text", "call", "result"}
    BY <1>1, <1>3, MessagesAre
<1>5. /\ f.first = FALSE /\ f.sid = "own" /\ f.mid = e.id
      /\ e.kind = "text" => f.u = "chunk"
      /\ e.kind # "text" => f.u = "tool_call_update" /\ f.val = e.val
    <2>1. PICK fs : fs = Frames(h, replay.at) /\ f = fs[2]
        BY <1>1
    <2>2. h[replay.at].kind \in {"text", "call", "result"}
        BY <1>1, <1>4
    <2>3. FrameFacts(fs, h, replay.at)
        BY <2>1, <2>2, FramesAre
    <2> QED BY <1>1, <1>3, <2>1, <2>3, Zenon DEF FrameFacts
<1>6. IF e.kind = "text" THEN match.mid = e.id ELSE e.val \in match.tools
    BY <1>1 DEF Replaying, Laid, Follows
<1>7. PICK q : q = [match EXCEPT !.pend = 0]
    OBVIOUS
<1>8. passThrough(f, match) \/ passThrough(f, q)
    <2>1. CASE e.kind = "text"
        <3>1. observeChunk(f)
            BY <1>2, <1>5, <2>1 DEF observe
        <3> QED BY <1>5, <1>6, <2>1, <3>1, Zenon DEF observeChunk
    <2>2. CASE e.kind # "text"
        <3>1. observeTool(f)
            BY <1>2, <1>5, <2>2 DEF observe
        <3>2. f.val \in match.tools
            BY <1>5, <1>6, <2>2
        <3> QED BY <1>7, <3>1, <3>2, Zenon DEF observeTool
    <2> QED BY <2>1, <2>2
<1>9. /\ q.active /\ q.sid = "own" /\ q.cursor = match.cursor /\ q.mid = match.mid /\ q.tools = match.tools
    BY <1>2, <1>7 DEF MatchShape
<1>10. (match' = match \/ match' = q) /\ Forward(<<>>, f)
    BY <1>8, Zenon DEF passThrough
<1> QED BY <1>2, <1>5, <1>9, <1>10

-----------------------------------------------------------------------------
(* A frame of the replay keeps the order.                                    *)
LEMMA FrameIsFirst ==
    ASSUME Replaying, replay.at \in 1 .. Len(replay.hist), NEW fs, fs = Frames(replay.hist, replay.at)
    PROVE  FrameFacts(fs, replay.hist, replay.at)
<1>1. replay.hist[replay.at].kind \in {"text", "call", "result"}
    BY MessagesAre
<1> QED BY <1>1, FramesAre

LEMMA EndsAgree ==
    ASSUME Replaying, load.planned, NEW i \in 1 .. Len(replay.hist)
    PROVE  replay.hist[i].id \in ToolEnds(disk) => replay.hist[i].kind = "result" /\ Announced(replay.hist, i)
<1>1. PICK p \in 1 .. Len(plan.units) : plan.units[p] = replay.hist[i]
    BY UnitOf
<1>2. Announced(plan.units, p) <=> Announced(replay.hist, i)
    BY <1>1, AnnouncedAgree
<1> QED BY <1>1, <1>2, EndsAre

LEMMA FrameStep ==
    ASSUME Replaying, ReplayFrame
    PROVE  /\ replay.at \in 1 .. Len(replay.hist) /\ Len(replay.hist) \in Nat /\ replay.chunk \in {1, 2}
           /\ replay'.hist = replay.hist /\ replay'.at \in Nat \ {0} /\ replay'.chunk \in {1, 2}
           /\ replay' = [hist |-> replay'.hist, at |-> replay'.at, chunk |-> replay'.chunk]
           /\ replay'.chunk = 2 => /\ replay.chunk = 1 /\ replay'.at = replay.at
                                   /\ Len(Frames(replay.hist, replay.at)) = 2
           /\ \A j \in 1 .. Len(replay.hist) : (Done(j))' <=> Done(j) \/ (replay.chunk = 1 /\ j = replay.at)
<1>1. PICK h, a, c : h = replay.hist /\ a = replay.at /\ c = replay.chunk
    OBVIOUS
<1>2. a \in Nat \ {0} /\ c \in {1, 2} /\ replay = [hist |-> h, at |-> a, chunk |-> c]
      /\ (c = 2 => Len(Frames(h, a)) = 2)
    BY <1>1 DEF Replaying, Laid, ReplayKnown
<1>3. Len(h) \in Nat
    BY <1>1, MessagesAre
<1>4. a \in 1 .. Len(h)
    BY <1>1, <1>2, <1>3 DEF ReplayFrame
<1>5. PICK n : n = Len(Frames(h, a))
    OBVIOUS
<1>6. n \in {1, 2}
    BY <1>1, <1>4, <1>5, FrameIsFirst DEF FrameFacts
<1>7. replay' = IF c = n THEN [replay EXCEPT !.at = @ + 1, !.chunk = 1] ELSE [replay EXCEPT !.chunk = @ + 1]
    BY <1>1, <1>5, Zenon DEF ReplayFrame
<1>8. CASE c = n
    <2>1. replay' = [hist |-> h, at |-> a + 1, chunk |-> 1]
        BY <1>2, <1>7, <1>8
    <2>2. replay'.hist = h /\ replay'.at = a + 1 /\ replay'.chunk = 1 /\ a + 1 \in Nat \ {0}
        BY <1>2, <2>1
    <2>3. ASSUME NEW j \in 1 .. Len(h) PROVE j < a + 1 <=> (j < a \/ (j = a /\ c = 2)) \/ (c = 1 /\ j = a)
        BY <1>2, <1>3
    <2>4. \A j \in 1 .. Len(h) : (Done(j))' <=> Done(j) \/ (c = 1 /\ j = a)
        BY <1>1, <2>2, <2>3 DEF Done
    <2> QED BY <1>1, <1>2, <1>3, <1>4, <2>1, <2>2, <2>4
<1>9. CASE c # n
    <2>1. c = 1 /\ n = 2
        BY <1>2, <1>5, <1>6, <1>9
    <2>2. replay' = [hist |-> h, at |-> a, chunk |-> 2]
        BY <1>2, <1>7, <1>9, <2>1
    <2>3. replay'.hist = h /\ replay'.at = a /\ replay'.chunk = 2
        BY <2>2
    <2>4. \A j \in 1 .. Len(h) : (Done(j))' <=> Done(j) \/ (c = 1 /\ j = a)
        BY <1>1, <1>2, <2>1, <2>3 DEF Done
    <2> QED BY <1>1, <1>2, <1>3, <1>4, <1>5, <2>1, <2>2, <2>3, <2>4
<1> QED BY <1>8, <1>9

\* What holds of the transcript when the matcher is at c.
ShownTo(c) ==
    /\ InOrder(shown', ToolEnds(disk)) /\ UnitIds(shown') \subseteq Before(c) /\ FrameIds(shown') \subseteq DoneIds'
    /\ \A j \in 1 .. Len(replay.hist) : ~(Done(j))' => \A x \in Before(c) : x < replay.hist[j].id

LEMMA DoneGrows ==
    ASSUME Replaying, ReplayFrame
    PROVE  /\ DoneIds \subseteq DoneIds'
           /\ DoneIds' \subseteq DoneIds \cup {replay.hist[replay.at].id}
           /\ replay.chunk = 1 => replay.hist[replay.at].id \in DoneIds'
           /\ replay.chunk = 2 => DoneIds' = DoneIds
<1>1. replay'.hist = replay.hist /\ replay.at \in 1 .. Len(replay.hist) /\ replay.chunk \in {1, 2}
    BY FrameStep
<1>2. \A j \in 1 .. Len(replay.hist) : (Done(j))' <=> Done(j) \/ (replay.chunk = 1 /\ j = replay.at)
    BY FrameStep
<1>3. DoneIds' = {replay.hist[j].id : j \in {i \in 1 .. Len(replay.hist) : (Done(i))'}}
    BY <1>1 DEF DoneIds
<1>4. DoneIds = {replay.hist[j].id : j \in {i \in 1 .. Len(replay.hist) : Done(i)}}
    BY DEF DoneIds
<1> QED BY <1>1, <1>2, <1>3, <1>4

LEMMA StayShown ==
    ASSUME Replaying, ReplayFrame, NEW f, f = Frames(replay.hist, replay.at)[replay.chunk], Forward(<<>>, f)
    PROVE  ShownTo(match.cursor)
<1>1. PICK h, a : h = replay.hist /\ a = replay.at
    OBVIOUS
<1>2. a \in 1 .. Len(h) /\ replay.chunk \in {1, 2} /\ Len(h) \in Nat
    BY <1>1, FrameStep
<1>3. /\ InOrder(shown, ToolEnds(disk)) /\ UnitIds(shown) \subseteq Before(match.cursor) /\ FrameIds(shown) \subseteq DoneIds
      /\ \A j \in 1 .. Len(h) : ~Done(j) => \A x \in Before(match.cursor) : x < h[j].id
      /\ IsSeq(shown)
    BY <1>1 DEF Replaying, Laid, Passed, HistoryTypes
<1>4. PICK fs : fs = Frames(h, a)
    OBVIOUS
<1>5. FrameFacts(fs, h, a)
    BY <1>1, <1>2, <1>4, FrameIsFirst
<1>6. f = fs[replay.chunk]
    BY <1>1, <1>4
<1>7. replay.chunk = 1 => f.mid = h[a].id /\ ~Done(a)
    BY <1>1, <1>2, <1>5, <1>6 DEF FrameFacts, Done
<1>8. replay.chunk = 2 => ~f.first
    <2>1. replay.chunk = 2 => Len(fs) = 2
        BY <1>1, <1>4 DEF Replaying, Laid, ReplayKnown
    <2> QED BY <1>5, <1>6, <2>1 DEF FrameFacts
<1>9. PICK N : N = <<>>
    OBVIOUS
<1>10. Ids(N) = {} /\ N \in Seq(FileEntries) /\ Forward(N, f)
    BY <1>9, EmptyIs
<1>11. /\ f.first => \A x \in UnitIds(shown) \cup Ids(N) : x < f.mid
       /\ \A y \in FrameIds(shown), x \in Ids(N) : y \in ToolEnds(disk) \/ y < x
    BY <1>2, <1>3, <1>7, <1>8, <1>10
<1>12. /\ InOrder(shown', ToolEnds(disk)) /\ UnitIds(shown') \subseteq UnitIds(shown) \cup Ids(N)
       /\ FrameIds(shown') \subseteq FrameIds(shown) \cup {f.mid}
       /\ ~f.first => FrameIds(shown') \subseteq FrameIds(shown)
    BY <1>3, <1>10, <1>11, ForwardOrder
<1>13. FrameIds(shown') \subseteq DoneIds'
    BY <1>1, <1>2, <1>3, <1>7, <1>8, <1>12, DoneGrows
<1>14. \A j \in 1 .. Len(h) : ~(Done(j))' => ~Done(j)
    BY <1>1, FrameStep
<1> QED BY <1>1, <1>3, <1>10, <1>12, <1>13, <1>14 DEF ShownTo

LEMMA AdvanceShown ==
    ASSUME Replaying, match.active, ReplayFrame, replay.chunk = 1, NEW f, f = Frames(replay.hist, replay.at)[1],
           NEW p \in match.cursor .. Len(plan.units), plan.units[p] = replay.hist[replay.at],
           Forward(Notes(SubSeq(plan.units, match.cursor, p - 1)), f)
    PROVE  ShownTo(p + 1)
<1>1. PICK h, a, u, c : h = replay.hist /\ a = replay.at /\ u = plan.units /\ c = match.cursor
    OBVIOUS
<1>2. a \in 1 .. Len(h) /\ Len(h) \in Nat
    BY <1>1, FrameStep
<1>3. /\ InOrder(shown, ToolEnds(disk)) /\ UnitIds(shown) \subseteq Before(c) /\ FrameIds(shown) \subseteq DoneIds
      /\ \A j \in 1 .. Len(h) : ~Done(j) => \A x \in Before(c) : x < h[j].id
      /\ IsSeq(shown)
      /\ DoneIds \subseteq ToolEnds(disk) \cup Before(c)
      /\ load.planned /\ c \in Nat \ {0}
    BY <1>1 DEF Replaying, Laid, Passed, HistoryTypes, Follows, MatchOwn, MatchTyped
<1>4. Len(u) \in Nat /\ Rising(u) /\ \A k \in 1 .. Len(u) : u[k].id \in Nat
    BY <1>1, <1>3, UnitsAre
<1>5. Rising(h) /\ \A k \in 1 .. Len(h) : h[k].id \in Nat
    BY <1>1, MessagesAre
<1>6. p \in c .. Len(u) /\ p \in 1 .. Len(u) /\ u[p] = h[a] /\ p \in Nat
    BY <1>1, <1>3, <1>4
<1>7. PICK N : N = Notes(SubSeq(u, c, p - 1))
    OBVIOUS
<1>8. N \in Seq(FileEntries) /\ TakenFrom(N, u, c, p - 1)
    BY <1>1, <1>6, <1>7, PassedIs DEF Replaying
<1>9. \A x \in Ids(N) : \E k \in c .. p - 1 : x = u[k].id
    BY <1>8 DEF TakenFrom
<1>10. \A y \in FrameIds(shown), x \in Ids(N) : y \in ToolEnds(disk) \/ y < x
    <2> SUFFICES ASSUME NEW y \in Before(c), NEW x \in Ids(N) PROVE y < x
        BY <1>3
    <2>1. PICK k \in 1 .. c - 1 : y = u[k].id
        BY <1>1 DEF Before
    <2>2. PICK l \in c .. p - 1 : x = u[l].id
        BY <1>9
    <2>3. k \in 1 .. Len(u) /\ l \in 1 .. Len(u) /\ k < l
        BY <1>3, <1>4, <1>6
    <2> QED BY <1>4, <2>1, <2>2, <2>3, RisingIds
<1>11. ~Done(a)
    BY <1>1, <1>2 DEF Done
<1>12. f.mid = h[a].id
    <2>1. PICK fs : fs = Frames(h, a)
        OBVIOUS
    <2>2. FrameFacts(fs, h, a)
        BY <1>1, <1>2, <2>1, FrameIsFirst
    <2> QED BY <1>1, <2>1, <2>2 DEF FrameFacts
<1>13. \A x \in UnitIds(shown) \cup Ids(N) : x < f.mid
    <2>1. \A x \in UnitIds(shown) : x < f.mid
        BY <1>2, <1>3, <1>11, <1>12
    <2>2. ASSUME NEW x \in Ids(N) PROVE x < f.mid
        <3>1. PICK l \in c .. p - 1 : x = u[l].id
            BY <1>9
        <3>2. l \in 1 .. Len(u) /\ l < p
            BY <1>3, <1>4, <1>6
        <3>3. u[l].id < u[p].id
            BY <1>4, <1>6, <3>2, RisingIds
        <3>4. u[p].id = f.mid
            BY <1>6, <1>12
        <3> QED BY <3>1, <3>3, <3>4, Zenon
    <2> QED BY <2>1, <2>2
<1>14. Forward(N, f)
    BY <1>1, <1>7
<1>15. /\ InOrder(shown', ToolEnds(disk)) /\ UnitIds(shown') \subseteq UnitIds(shown) \cup Ids(N)
       /\ FrameIds(shown') \subseteq FrameIds(shown) \cup {f.mid}
    BY <1>3, <1>8, <1>10, <1>13, <1>14, ForwardOrder
<1>16. Before(c) \subseteq Before(p + 1)
    <2>1. 1 .. c - 1 \subseteq 1 .. (p + 1) - 1
        BY <1>3, <1>6
    <2> QED BY <2>1 DEF Before
<1>17. Ids(N) \subseteq Before(p + 1)
    <2>1. c .. p - 1 \subseteq 1 .. (p + 1) - 1
        BY <1>3, <1>6
    <2> QED BY <1>1, <1>9, <2>1 DEF Before
<1>18. FrameIds(shown') \subseteq DoneIds'
    BY <1>1, <1>3, <1>12, <1>15, DoneGrows
<1>19. ASSUME NEW j \in 1 .. Len(h), ~(Done(j))', NEW x \in Before(p + 1) PROVE x < h[j].id
    <2>1. ~Done(j) /\ j # a
        BY <1>1, <1>19, FrameStep
    <2>2. a < j
        BY <1>1, <1>2, <2>1 DEF Done
    <2>3. h[a].id < h[j].id /\ h[a].id \in Nat /\ h[j].id \in Nat
        BY <1>2, <1>5, <2>2, RisingIds
    <2>4. PICK k \in 1 .. (p + 1) - 1 : x = u[k].id
        BY <1>1, <1>19 DEF Before
    <2>5. k \in 1 .. Len(u) /\ (k < p \/ k = p)
        BY <1>4, <1>6
    <2>6. x \in Nat /\ (x < h[a].id \/ x = h[a].id)
        BY <1>4, <1>6, <2>4, <2>5, RisingIds
    <2> QED BY <2>3, <2>6
<1>20. UnitIds(shown') \subseteq Before(p + 1)
    BY <1>3, <1>15, <1>16, <1>17
<1> QED BY <1>1, <1>15, <1>18, <1>19, <1>20 DEF ShownTo

LEMMA FurtherBefore ==
    ASSUME NEW c \in Nat \ {0}, NEW p \in c .. Len(plan.units), Len(plan.units) \in Nat
    PROVE  Before(c) \subseteq Before(p + 1) /\ plan.units[p].id \in Before(p + 1)
<1>1. 1 .. c - 1 \subseteq 1 .. (p + 1) - 1 /\ p \in 1 .. (p + 1) - 1
    OBVIOUS
<1> QED BY <1>1 DEF Before

\* The matcher at the first frame of a message.
LEMMA FirstLaid ==
    ASSUME Replaying, match.active, ReplayFrame, replay.chunk = 1
    PROVE  /\ match'.active /\ match'.sid = "own" /\ ShownTo(match'.cursor)
           /\ DoneIds' \subseteq ToolEnds(disk) \cup Before(match'.cursor)
           /\ match'.mid \in DoneIds' \cup {0}
           /\ \A v \in match'.tools : \E j \in 1 .. Len(replay.hist) :
                  (Done(j))' /\ replay.hist[j].kind \in {"call", "result"} /\ replay.hist[j].val = v
           /\ replay'.chunk = 2 =>
                  LET e == replay.hist[replay.at]
                  IN  IF e.kind = "text" THEN match'.mid = e.id ELSE e.val \in match'.tools
<1>1. PICK h, a, e, f : h = replay.hist /\ a = replay.at /\ e = h[a] /\ f = Frames(h, a)[1]
    OBVIOUS
<1>2. a \in 1 .. Len(h) /\ Len(h) \in Nat
    BY <1>1, FrameStep
<1>3. observe(f)
    BY <1>1 DEF ReplayFrame
<1>4. Follow(e, f)
    BY <1>1, <1>2, <1>3, FirstObserved
<1>5. /\ match'.active /\ match'.sid = "own"
      /\ match'.mid = IF e.kind = "text" THEN e.id ELSE match.mid
      /\ match'.tools \subseteq match.tools \cup {e.val}
      /\ e.kind = "text" => match'.tools = match.tools
      /\ e.kind # "text" => e.id \in ToolEnds(disk) \/ e.val \in match'.tools
    BY <1>4 DEF Follow
<1>6. /\ DoneIds \subseteq ToolEnds(disk) \cup Before(match.cursor)
      /\ match.mid \in DoneIds \cup {0}
      /\ \A v \in match.tools : \E j \in 1 .. Len(h) : Done(j) /\ h[j].kind \in {"call", "result"} /\ h[j].val = v
      /\ load.planned /\ match.cursor \in Nat \ {0} /\ Len(plan.units) \in Nat
    BY <1>1 DEF Replaying, Laid, Follows, MatchOwn, HistoryTypes, MatchTyped, PlanTyped
<1>7. DoneIds \subseteq DoneIds' /\ DoneIds' \subseteq DoneIds \cup {e.id} /\ e.id \in DoneIds'
    BY <1>1, DoneGrows
<1>8. ShownTo(match'.cursor) /\ DoneIds' \subseteq ToolEnds(disk) \cup Before(match'.cursor)
    <2>1. CASE e.id \in ToolEnds(disk) /\ match'.cursor = match.cursor /\ Forward(<<>>, f)
        <3>1. f = Frames(replay.hist, replay.at)[replay.chunk]
            BY <1>1
        <3>2. ShownTo(match.cursor)
            BY <2>1, <3>1, StayShown
        <3> QED BY <1>6, <1>7, <2>1, <3>2
    <2>2. ASSUME NEW p \in match.cursor .. Len(plan.units), plan.units[p] = e, match'.cursor = p + 1,
                 Forward(Notes(SubSeq(plan.units, match.cursor, p - 1)), f)
          PROVE  ShownTo(match'.cursor) /\ DoneIds' \subseteq ToolEnds(disk) \cup Before(match'.cursor)
        <3>1. ShownTo(p + 1)
            BY <1>1, <2>2, AdvanceShown
        <3>2. Before(match.cursor) \subseteq Before(p + 1) /\ e.id \in Before(p + 1)
            BY <1>6, <2>2, FurtherBefore
        <3> QED BY <1>6, <1>7, <2>2, <3>1, <3>2
    <2> QED BY <1>4, <2>1, <2>2 DEF Follow
<1>9. match'.mid \in DoneIds' \cup {0}
    BY <1>5, <1>6, <1>7
<1>10. \A j \in 1 .. Len(h) : (Done(j))' <=> Done(j) \/ j = a
    BY <1>1, FrameStep
<1>11. e.kind \in {"text", "call", "result"}
    BY <1>1, <1>2, MessagesAre
<1>12. ASSUME NEW v \in match'.tools
       PROVE  \E j \in 1 .. Len(h) : (Done(j))' /\ h[j].kind \in {"call", "result"} /\ h[j].val = v
    <2>1. CASE v \in match.tools
        BY <1>6, <1>10, <2>1
    <2>2. CASE v = e.val /\ e.kind # "text"
        BY <1>1, <1>2, <1>10, <1>11, <2>2
    <2> QED BY <1>5, <2>1, <2>2
<1>13. ASSUME replay'.chunk = 2 PROVE IF e.kind = "text" THEN match'.mid = e.id ELSE e.val \in match'.tools
    <2>1. PICK fs : fs = Frames(h, a)
        OBVIOUS
    <2>2. Len(fs) = 2 /\ FrameFacts(fs, h, a)
        BY <1>1, <1>2, <1>13, <2>1, FrameStep, FrameIsFirst
    <2>3. ~(e.kind = "result" /\ Announced(h, a))
        BY <1>1, <2>2 DEF FrameFacts
    <2>4. e.id \notin ToolEnds(disk)
        BY <1>1, <1>2, <1>6, <2>3, EndsAgree
    <2> QED BY <1>5, <2>4
<1> QED BY <1>1, <1>5, <1>8, <1>9, <1>12, <1>13

\* The matcher at the second.
LEMMA SecondLaid ==
    ASSUME Replaying, match.active, ReplayFrame, replay.chunk = 2
    PROVE  /\ match'.active /\ match'.sid = "own" /\ ShownTo(match'.cursor)
           /\ DoneIds' \subseteq ToolEnds(disk) \cup Before(match'.cursor)
           /\ match'.mid \in DoneIds' \cup {0}
           /\ \A v \in match'.tools : \E j \in 1 .. Len(replay.hist) :
                  (Done(j))' /\ replay.hist[j].kind \in {"call", "result"} /\ replay.hist[j].val = v
           /\ replay'.chunk # 2
<1>1. PICK h, a, f : h = replay.hist /\ a = replay.at /\ f = Frames(h, a)[2]
    OBVIOUS
<1>2. observe(f)
    BY <1>1 DEF ReplayFrame
<1>3. /\ match'.active /\ match'.sid = "own" /\ match'.cursor = match.cursor
      /\ match'.mid = match.mid /\ match'.tools = match.tools /\ Forward(<<>>, f)
    BY <1>1, <1>2, SecondObserved
<1>4. f = Frames(replay.hist, replay.at)[replay.chunk]
    BY <1>1
<1>5. ShownTo(match.cursor)
    BY <1>3, <1>4, StayShown
<1>6. /\ DoneIds \subseteq ToolEnds(disk) \cup Before(match.cursor)
      /\ match.mid \in DoneIds \cup {0}
      /\ \A v \in match.tools : \E j \in 1 .. Len(h) : Done(j) /\ h[j].kind \in {"call", "result"} /\ h[j].val = v
    BY <1>1 DEF Replaying, Laid, Follows
<1>7. DoneIds' = DoneIds
    BY DoneGrows
<1>8. (\A j \in 1 .. Len(h) : (Done(j))' <=> Done(j)) /\ replay'.chunk # 2
    BY <1>1, FrameStep
<1> QED BY <1>1, <1>3, <1>5, <1>6, <1>7, <1>8

LEMMA SameFile ==
    ASSUME Laid, UNCHANGED <<disk, torn>>
    PROVE  FilePaired'
BY DEF Laid, FilePaired, WellPaired, IsNote

LEMMA DoneOnDisk ==
    ASSUME Replaying
    PROVE  DoneIds \subseteq Ids(disk)
<1>1. \A i \in 1 .. Len(replay.hist) : \E k \in 1 .. Len(disk) : replay.hist[i] = disk[k]
    BY MessagesAre
<1> QED BY <1>1 DEF DoneIds, Ids

LEMMA FrameLaid ==
    ASSUME HistoryTypes, Laid, ReplayFrame
    PROVE  Laid'
<1>1. load.phase = "replaying" /\ UNCHANGED <<disk, torn, load, plan>>
    BY DEF ReplayFrame
<1>2. FilePaired' /\ MatchIdle'
    BY <1>1, SameFile DEF MatchIdle
<1>3. CASE load.kind # "load"
    BY <1>1, <1>2, <1>3 DEF Laid
<1>4. CASE load.kind = "load"
    <2>1. Replaying
        BY <1>1, <1>4 DEF Replaying
    <2>2. PICK h : h = replay.hist
        OBVIOUS
    <2>3. /\ PlanIsPrefix /\ MatchOwn /\ ReplayKnown
        BY <1>4 DEF Laid
    <2>4. PlanIsPrefix' /\ MatchFresh'
        BY <1>1, <2>3 DEF PlanIsPrefix, MatchFresh, IsNote
    <2>5. /\ replay'.hist = h /\ replay'.at \in Nat \ {0} /\ replay'.chunk \in {1, 2}
          /\ replay' = [hist |-> replay'.hist, at |-> replay'.at, chunk |-> replay'.chunk]
          /\ replay'.chunk = 2 => replay'.at = replay.at /\ replay.at \in 1 .. Len(h) /\ Len(Frames(h, replay.at)) = 2
        BY <2>1, <2>2, FrameStep
    <2>6. ReplayKnown'
        <3>1. Messages(h, disk)
            BY <1>1, <2>2, <2>3 DEF ReplayKnown
        <3>2. Messages(replay.hist, disk)'
            BY <1>1, <2>5, <3>1 DEF Messages, IsNote
        <3>3. replay'.chunk = 2 => replay'.at <= Len(h) /\ Len(Frames(h, replay'.at)) = 2
            <4>1. Len(h) \in Nat
                BY <2>1, <2>2, MessagesAre
            <4> QED BY <2>5, <4>1
        <3>4. replay'.chunk = 2 => replay'.at <= Len(replay'.hist) /\ Len(Frames(replay'.hist, replay'.at)) = 2
            BY <2>5, <3>3, Zenon
        <3> QED BY <1>1, <2>5, <3>2, <3>4 DEF ReplayKnown
    <2>7. ShownTo(match'.cursor) /\ MatchOwn' /\ Follows'
        <3>1. CASE ~match.active
            <4>1. PICK f : f = Frames(replay.hist, replay.at)[replay.chunk]
                OBVIOUS
            <4>2. observe(f)
                BY <4>1 DEF ReplayFrame
            <4>3. match' = match /\ Forward(<<>>, f)
                BY <3>1, <4>2, Zenon DEF observe, passThrough
            <4>4. ShownTo(match.cursor)
                BY <2>1, <4>1, <4>3, StayShown
            <4> QED BY <3>1, <4>3, <4>4 DEF MatchOwn, Follows
        <3>2. CASE match.active
            <4>1. /\ match'.active /\ match'.sid = "own" /\ ShownTo(match'.cursor)
                  /\ DoneIds' \subseteq ToolEnds(disk) \cup Before(match'.cursor)
                  /\ match'.mid \in DoneIds' \cup {0}
                  /\ \A v \in match'.tools : \E j \in 1 .. Len(h) :
                         (Done(j))' /\ h[j].kind \in {"call", "result"} /\ h[j].val = v
                  /\ replay'.chunk = 2 =>
                         LET e == h[replay.at]
                         IN  IF e.kind = "text" THEN match'.mid = e.id ELSE e.val \in match'.tools
                <5>1. replay.chunk \in {1, 2}
                    BY <2>1, FrameStep
                <5>2. CASE replay.chunk = 1
                    BY <2>1, <2>2, <3>2, <5>2, FirstLaid
                <5>3. CASE replay.chunk = 2
                    BY <2>1, <2>2, <3>2, <5>3, SecondLaid
                <5> QED BY <5>1, <5>2, <5>3
            <4>2. MatchOwn'
                BY <1>1, <2>3, <3>2, <4>1 DEF MatchOwn
            <4>3. ToolEnds(disk)' = ToolEnds(disk) /\ Before(match.cursor)' = Before(match'.cursor)
                BY <1>1 DEF ToolEnds, Before
            <4>4. Follows'
                BY <1>1, <2>5, <4>1, <4>3 DEF Follows
            <4> QED BY <4>1, <4>2, <4>4
        <3>3. match.active \in BOOLEAN
            BY DEF HistoryTypes, MatchTyped
        <3> QED BY <3>1, <3>2, <3>3
    <2>8. ToolEnds(disk)' = ToolEnds(disk) /\ Before(match.cursor)' = Before(match'.cursor) /\ Ids(disk)' = Ids(disk)
        BY <1>1 DEF ToolEnds, Before, Ids
    <2>9. /\ UnitIds(shown') \subseteq Before(match'.cursor) /\ FrameIds(shown') \subseteq DoneIds'
          /\ InOrder(shown', ToolEnds(disk))
          /\ \A j \in 1 .. Len(h) : ~(Done(j))' => \A x \in Before(match'.cursor) : x < h[j].id
        BY <2>2, <2>7 DEF ShownTo
    <2>10. UnitIds(shown)' = UnitIds(shown') /\ FrameIds(shown)' = FrameIds(shown')
        BY DEF UnitIds, FrameIds
    <2>11. InOrder(shown, ToolEnds(disk))'
        BY <2>8, <2>9 DEF InOrder
    <2>12. Passed'
        BY <2>5, <2>8, <2>9, <2>10 DEF Passed
    <2>13. FrameIds(shown') \subseteq Ids(disk)
        <3>1. DoneIds' \subseteq DoneIds \cup {h[replay.at].id} /\ replay.at \in 1 .. Len(h)
            BY <2>1, <2>2, DoneGrows, FrameStep
        <3>2. DoneIds \subseteq Ids(disk)
            BY <2>1, DoneOnDisk
        <3>3. PICK k \in 1 .. Len(disk) : h[replay.at] = disk[k]
            BY <2>1, <2>2, <3>1, MessagesAre
        <3>4. h[replay.at].id \in Ids(disk)
            BY <3>3 DEF Ids
        <3> QED BY <2>9, <3>1, <3>2, <3>4
    <2> QED BY <1>2, <2>4, <2>6, <2>7, <2>8, <2>10, <2>11, <2>12, <2>13 DEF Laid
<1> QED BY <1>3, <1>4

LEMMA BeforeLess ==
    ASSUME Replaying, load.planned, NEW b \in Nat, b <= Len(plan.units), NEW N,
           TakenFrom(N, plan.units, match.cursor, b), NEW y \in Before(match.cursor), NEW x \in Ids(N)
    PROVE  y < x
<1>1. PICK u, c : u = plan.units /\ c = match.cursor
    OBVIOUS
<1>2. c \in Nat \ {0}
    BY <1>1 DEF Replaying, HistoryTypes, MatchTyped
<1>3. Len(u) \in Nat /\ Rising(u) /\ \A k \in 1 .. Len(u) : u[k].id \in Nat
    BY <1>1, UnitsAre
<1>4. PICK k \in 1 .. c - 1 : y = u[k].id
    BY <1>1 DEF Before
<1>5. PICK l \in c .. b : x = u[l].id
    BY <1>1 DEF TakenFrom
<1>6. k \in 1 .. Len(u) /\ l \in 1 .. Len(u) /\ k < l
    BY <1>1, <1>2, <1>3
<1> QED BY <1>3, <1>4, <1>5, <1>6, RisingIds

LEMMA AnswerLaid ==
    ASSUME HistoryTypes, Laid, LoadAnswered
    PROVE  Laid'
<1>1. /\ load.phase = "replaying" /\ UNCHANGED <<disk, torn, plan>> /\ match' = NoMatch
      /\ load' = [load EXCEPT !.phase = "none", !.loaded = TRUE]
    BY DEF LoadAnswered
<1>2. load'.phase = "none" /\ load'.kind = load.kind /\ ~match'.active
    BY <1>1 DEF HistoryTypes, LoadTyped, NoMatch
<1>3. FilePaired' /\ MatchIdle'
    <2>1. FilePaired'
        BY <1>1, SameFile
    <2> QED BY <1>1, <2>1 DEF MatchIdle, NoMatch
<1>4. CASE load.kind # "load"
    BY <1>2, <1>3, <1>4 DEF Laid
<1>5. CASE load.kind = "load"
    <2>1. Replaying
        BY <1>1, <1>5 DEF Replaying
    <2>2. /\ InOrder(shown, ToolEnds(disk)) /\ FrameIds(shown) \subseteq Ids(disk) /\ IsSeq(shown)
          /\ FrameIds(shown) \subseteq DoneIds
          /\ match.active => load.planned /\ DoneIds \subseteq ToolEnds(disk) \cup Before(match.cursor)
        BY <1>1, <1>5 DEF Laid, HistoryTypes, Passed, Follows, MatchOwn
    <2>3. InOrder(shown', ToolEnds(disk)) /\ FrameIds(shown') \subseteq Ids(disk)
        <3>1. CASE ~match.active
            BY <2>2, <3>1 DEF LoadAnswered
        <3>2. CASE match.active
            <4>1. PICK N : N = Notes(SubSeq(plan.units, match.cursor, Len(plan.units)))
                OBVIOUS
            <4>2. N \in Seq(FileEntries) /\ TakenFrom(N, plan.units, match.cursor, Len(plan.units))
                BY <4>1, RestIs
            <4>3. Len(plan.units) \in Nat /\ Len(plan.units) <= Len(plan.units)
                BY DEF HistoryTypes, PlanTyped
            <4>4. \A y \in FrameIds(shown), x \in Ids(N) : y \in ToolEnds(disk) \/ y < x
                BY <2>1, <2>2, <3>2, <4>2, <4>3, BeforeLess
            <4>5. PICK n, U : n = Shown(N, "unit") /\ U = ToolEnds(disk)
                OBVIOUS
            <4>6. IsSeq(n) /\ InOrder(n, U) /\ FrameIds(n) = {} /\ UnitIds(n) = Ids(N)
                BY <4>2, <4>5, ShownOrder
            <4>7. InOrder(shown \o n, U) /\ FrameIds(shown \o n) \subseteq FrameIds(shown) \cup FrameIds(n)
                BY <2>2, <4>4, <4>5, <4>6, OrderJoined
            <4>8. shown' = shown \o n
                BY <3>2, <4>1, <4>5, Zenon DEF LoadAnswered
            <4> QED BY <2>2, <4>5, <4>6, <4>7, <4>8
        <3>3. match.active \in BOOLEAN
            BY DEF HistoryTypes, MatchTyped
        <3> QED BY <3>1, <3>2, <3>3
    <2>4. FrameIds(shown)' \subseteq Ids(disk)'
        BY <1>1, <2>3 DEF FrameIds, Ids
    <2>5. InOrder(shown, ToolEnds(disk))'
        BY <1>1, <2>3 DEF InOrder, ToolEnds
    <2>6. PlanIsPrefix' /\ MatchFresh' /\ MatchOwn' /\ ReplayKnown' /\ Passed' /\ Follows'
        BY <1>2 DEF PlanIsPrefix, MatchFresh, MatchOwn, ReplayKnown, Passed, Follows
    <2> QED BY <1>3, <2>4, <2>5, <2>6 DEF Laid
<1> QED BY <1>4, <1>5

\* Rows that are neither units nor frames, or none.
LEMMA OtherRows ==
    ASSUME Laid, UNCHANGED <<disk, torn, load, plan, match, replay>>,
           UnitIds(shown') \subseteq UnitIds(shown), FrameIds(shown') \subseteq FrameIds(shown),
           load.kind = "load" => InOrder(shown', ToolEnds(disk))
    PROVE  Laid'
<1>1. FilePaired' /\ MatchIdle'
    BY SameFile DEF Laid, MatchIdle
<1>2. CASE load.kind # "load"
    BY <1>1, <1>2 DEF Laid
<1>3. CASE load.kind = "load"
    <2>1. /\ PlanIsPrefix /\ MatchFresh /\ MatchOwn /\ ReplayKnown /\ Passed /\ Follows
          /\ FrameIds(shown) \subseteq Ids(disk)
        BY <1>3 DEF Laid
    <2>2. FrameIds(shown)' \subseteq FrameIds(shown) /\ UnitIds(shown)' \subseteq UnitIds(shown)
        BY DEF FrameIds, UnitIds
    <2>3. Ids(disk)' = Ids(disk) /\ ToolEnds(disk)' = ToolEnds(disk) /\ DoneIds' = DoneIds
          /\ Before(match.cursor)' = Before(match.cursor)
        BY DEF Ids, ToolEnds, DoneIds, Done, Before
    <2>4. InOrder(shown, ToolEnds(disk))'
        BY <1>3, <2>3 DEF InOrder
    <2>5. PlanIsPrefix' /\ MatchOwn'
        BY <2>1 DEF PlanIsPrefix, MatchOwn, IsNote
    <2>6. MatchFresh'
        BY <2>1, <2>2 DEF MatchFresh
    <2>7. ReplayKnown'
        <3>1. Messages(replay.hist, disk) => Messages(replay.hist, disk)'
            BY DEF Messages, IsNote
        <3> QED BY <2>1, <3>1 DEF ReplayKnown
    <2>8. Passed'
        BY <2>1, <2>2, <2>3 DEF Passed, Done
    <2>9. Follows'
        BY <2>1, <2>3 DEF Follows, Done
    <2> QED BY <1>1, <2>1, <2>2, <2>3, <2>4, <2>5, <2>6, <2>7, <2>8, <2>9 DEF Laid
<1> QED BY <1>2, <1>3

LEMMA PollLaid ==
    ASSUME HistoryTypes, Laid, Poll
    PROVE  Laid'
<1>1. PICK t, o, from, new : PollOf(t, o, from, new)
    BY PollIs
<1>2. UNCHANGED <<disk, torn, load, plan, match, replay>>
    BY DEF Poll
<1>3. PICK n, U : n = Shown(new, "tail") /\ U = ToolEnds(disk)
    OBVIOUS
<1>4. new \in Seq(FileEntries)
    BY <1>1, PollFacts
<1>5. IsSeq(n) /\ InOrder(n, U) /\ FrameIds(n) = {} /\ UnitIds(n) = {}
    BY <1>3, <1>4, ShownOrder
<1>6. shown' = shown \o n
    BY <1>1, <1>3, Zenon DEF PollOf
<1>7. IsSeq(shown)
    BY DEF HistoryTypes
<1>8. CASE load.kind = "load"
    <2>1. InOrder(shown, U)
        BY <1>3, <1>8 DEF Laid
    <2>2. /\ InOrder(shown \o n, U)
          /\ UnitIds(shown \o n) \subseteq UnitIds(shown) \cup UnitIds(n)
          /\ FrameIds(shown \o n) \subseteq FrameIds(shown) \cup FrameIds(n)
        BY <1>5, <1>7, <2>1, OrderJoined
    <2> QED BY <1>2, <1>3, <1>5, <1>6, <2>2, OtherRows
<1>9. CASE load.kind # "load"
    <2>1. FilePaired' /\ MatchIdle'
        BY <1>2, SameFile DEF Laid, MatchIdle
    <2> QED BY <1>2, <1>9, <2>1 DEF Laid
<1> QED BY <1>8, <1>9

LEMMA NoRows ==
    ASSUME NEW U
    PROVE  UnitIds(<<>>) = {} /\ FrameIds(<<>>) = {} /\ InOrder(<<>>, U)
<1>1. \A i \in 1 .. Len(<<>>) : FALSE
    OBVIOUS
<1> QED BY <1>1 DEF UnitIds, FrameIds, InOrder

LEMMA ReadLaid ==
    ASSUME HistoryTypes, Laid, NEW kind \in Kinds, ReadFile(kind)
    PROVE  Laid'
<1>1. /\ load.phase = "none" /\ load' = [phase |-> "read", kind |-> kind, loaded |-> FALSE, planned |-> FALSE]
      /\ plan' = [units |-> WholeLines, size |-> 0] /\ shown' = <<>> /\ UNCHANGED <<disk, torn, match>>
    BY DEF ReadFile
<1>2. load'.phase = "read" /\ load'.kind = kind /\ plan'.units = WholeLines /\ match = NoMatch
    BY <1>1 DEF Laid, MatchIdle
<1>3. FilePaired' /\ MatchIdle'
    BY <1>1, <1>2, SameFile DEF MatchIdle, NoMatch
<1>4. PlanIsPrefix'
    <2>1. disk \in Seq(FileEntries) /\ Len(disk) \in Nat
        BY RisingDisk
    <2>2. PICK n \in Nat : n = Size \div 2 /\ n <= Len(disk) /\ (n = Len(disk) \/ (n = Len(disk) - 1 /\ torn))
        BY SizeIs DEF HistoryTypes, DiskTyped
    <2>3. PICK w : w = WholeLines
        OBVIOUS
    <2>4. w = SubSeq(disk, 1, n)
        BY <2>2, <2>3 DEF WholeLines
    <2>5. Len(w) = n /\ \A k \in 1 .. n : w[k] = disk[k]
        BY <2>1, <2>2, <2>4
    <2>6. torn => IsNote(disk[Len(disk)])
        BY DEF Laid, FilePaired
    <2>7. \A k \in 1 .. Len(disk) : k > n => k = Len(disk) /\ torn
        BY <2>1, <2>2
    <2>8. \A k \in 1 .. Len(disk) : k > n => IsNote(disk[k])
        BY <2>6, <2>7
    <2>9. plan'.units = w /\ disk' = disk
        BY <1>1, <1>2, <2>3
    <2> QED BY <2>2, <2>5, <2>8, <2>9 DEF PlanIsPrefix, IsNote
<1>5. UnitIds(shown)' = {} /\ FrameIds(shown)' = {} /\ InOrder(shown, ToolEnds(disk))'
    <2>1. PICK U : U = ToolEnds(disk)
        OBVIOUS
    <2>2. UnitIds(shown') = {} /\ FrameIds(shown') = {} /\ InOrder(shown', U)
        BY <1>1, NoRows
    <2> QED BY <1>1, <2>1, <2>2 DEF UnitIds, FrameIds, InOrder, ToolEnds
<1>6. MatchFresh' /\ MatchOwn'
    BY <1>1, <1>2, <1>5 DEF MatchFresh, MatchOwn, NoMatch
<1>7. ReplayKnown' /\ Passed' /\ Follows'
    BY <1>2 DEF ReplayKnown, Passed, Follows
<1> QED BY <1>3, <1>4, <1>5, <1>6, <1>7 DEF Laid

LEMMA StatLaid ==
    ASSUME HistoryTypes, Laid, StatFile
    PROVE  Laid'
<1>1. /\ load.phase = "read" /\ load' = [load EXCEPT !.phase = "sent", !.planned = TRUE]
      /\ plan' = [plan EXCEPT !.size = Size] /\ UNCHANGED <<disk, torn, shown>>
      /\ match' = [NoMatch EXCEPT !.active = TRUE, !.sid = IF load.kind = "fork" THEN "none" ELSE "own"]
    BY DEF StatFile
<1>2. load'.phase = "sent" /\ load'.kind = load.kind /\ load'.planned /\ plan'.units = plan.units
    BY <1>1 DEF HistoryTypes, LoadTyped, PlanTyped
<1>3. FilePaired' /\ MatchIdle'
    BY <1>1, <1>2, SameFile DEF MatchIdle
<1>4. CASE load.kind # "load"
    BY <1>2, <1>3, <1>4 DEF Laid
<1>5. CASE load.kind = "load"
    <2>1. /\ PlanIsPrefix /\ MatchFresh /\ FrameIds(shown) \subseteq Ids(disk) /\ InOrder(shown, ToolEnds(disk))
        BY <1>5 DEF Laid
    <2>2. match'.cursor = 1 /\ match'.mid = 0 /\ match'.tools = {} /\ match'.sid = "own"
        BY <1>1, <1>5 DEF NoMatch
    <2>3. PlanIsPrefix' /\ MatchFresh' /\ MatchOwn'
        <3>1. UnitIds(shown)' = UnitIds(shown) /\ FrameIds(shown)' = FrameIds(shown)
            BY <1>1 DEF UnitIds, FrameIds
        <3>2. PlanIsPrefix'
            BY <1>1, <1>2, <2>1 DEF PlanIsPrefix, IsNote
        <3>3. MatchFresh'
            BY <1>1, <2>1, <2>2, <3>1 DEF MatchFresh
        <3>4. MatchOwn'
            BY <1>2, <2>2 DEF MatchOwn
        <3> QED BY <3>2, <3>3, <3>4
    <2>4. ReplayKnown' /\ Passed' /\ Follows'
        BY <1>2 DEF ReplayKnown, Passed, Follows
    <2>5. (FrameIds(shown) \subseteq Ids(disk))' /\ InOrder(shown, ToolEnds(disk))'
        BY <1>1, <2>1 DEF FrameIds, Ids, InOrder, ToolEnds
    <2> QED BY <1>3, <2>3, <2>4, <2>5 DEF Laid
<1> QED BY <1>4, <1>5

LEMMA UnreadableLaid ==
    ASSUME HistoryTypes, Laid, PlanUnreadable
    PROVE  Laid'
<1>1. load.phase = "read" /\ load' = [load EXCEPT !.phase = "sent"] /\ UNCHANGED <<disk, torn, match, shown>>
    BY DEF PlanUnreadable
<1>2. load'.phase = "sent" /\ load'.kind = load.kind /\ ~load'.planned /\ match = NoMatch
    BY <1>1 DEF HistoryTypes, LoadTyped, Laid, MatchIdle
<1>3. FilePaired' /\ MatchIdle'
    BY <1>1, <1>2, SameFile DEF MatchIdle
<1>4. CASE load.kind # "load"
    BY <1>2, <1>3, <1>4 DEF Laid
<1>5. CASE load.kind = "load"
    <2>1. /\ MatchFresh /\ FrameIds(shown) \subseteq Ids(disk) /\ InOrder(shown, ToolEnds(disk))
        BY <1>5 DEF Laid
    <2>2. PlanIsPrefix' /\ MatchFresh' /\ MatchOwn'
        BY <1>1, <1>2, <2>1 DEF PlanIsPrefix, MatchFresh, MatchOwn, NoMatch, UnitIds, FrameIds
    <2>3. ReplayKnown' /\ Passed' /\ Follows'
        BY <1>2 DEF ReplayKnown, Passed, Follows
    <2>4. (FrameIds(shown) \subseteq Ids(disk))' /\ InOrder(shown, ToolEnds(disk))'
        BY <1>1, <2>1 DEF FrameIds, Ids, InOrder, ToolEnds
    <2> QED BY <1>3, <2>2, <2>3, <2>4 DEF Laid
<1> QED BY <1>4, <1>5

LEMMA FailedLaid ==
    ASSUME HistoryTypes, Laid, LoadFailed
    PROVE  Laid'
<1>1. /\ load.phase = "sent" /\ load' = [load EXCEPT !.phase = "none"] /\ UNCHANGED <<disk, torn, shown>>
      /\ match' = NoMatch
    BY DEF LoadFailed
<1>2. load'.phase = "none" /\ load'.kind = load.kind
    BY <1>1 DEF HistoryTypes, LoadTyped
<1>3. FilePaired' /\ MatchIdle'
    BY <1>1, <1>2, SameFile DEF MatchIdle, NoMatch
<1>4. CASE load.kind # "load"
    BY <1>2, <1>3, <1>4 DEF Laid
<1>5. CASE load.kind = "load"
    <2>1. FrameIds(shown) \subseteq Ids(disk) /\ InOrder(shown, ToolEnds(disk))
        BY <1>5 DEF Laid
    <2>2. PlanIsPrefix' /\ MatchFresh' /\ MatchOwn' /\ ReplayKnown' /\ Passed' /\ Follows'
        BY <1>1, <1>2 DEF PlanIsPrefix, MatchFresh, MatchOwn, NoMatch, ReplayKnown, Passed, Follows
    <2>3. (FrameIds(shown) \subseteq Ids(disk))' /\ InOrder(shown, ToolEnds(disk))'
        BY <1>1, <2>1 DEF FrameIds, Ids, InOrder, ToolEnds
    <2> QED BY <1>3, <2>2, <2>3 DEF Laid
<1> QED BY <1>4, <1>5

LEMMA OtherLaid ==
    ASSUME HistoryTypes, Laid, OtherResponse
    PROVE  Laid'
<1>1. /\ load.phase \in {"sent", "replaying"} /\ match' = [match EXCEPT !.active = FALSE]
      /\ UNCHANGED <<disk, torn, load, plan, replay, shown>>
    BY DEF OtherResponse
<1>2. /\ ~match'.active /\ match'.cursor = match.cursor /\ match'.mid = match.mid /\ match'.tools = match.tools
    BY <1>1 DEF HistoryTypes, MatchTyped, MatchShape
<1>3. FilePaired' /\ MatchIdle'
    BY <1>1, SameFile DEF MatchIdle
<1>4. CASE load.kind # "load"
    BY <1>1, <1>3, <1>4 DEF Laid
<1>5. CASE load.kind = "load"
    <2>1. /\ PlanIsPrefix /\ MatchFresh /\ ReplayKnown /\ Passed
          /\ FrameIds(shown) \subseteq Ids(disk) /\ InOrder(shown, ToolEnds(disk))
        BY <1>5 DEF Laid
    <2>2. /\ FrameIds(shown)' = FrameIds(shown) /\ UnitIds(shown)' = UnitIds(shown)
          /\ Ids(disk)' = Ids(disk) /\ DoneIds' = DoneIds /\ Before(match.cursor)' = Before(match.cursor)
        BY <1>1, <1>2 DEF FrameIds, UnitIds, Ids, DoneIds, Done, Before
    <2>3. InOrder(shown, ToolEnds(disk))'
        BY <1>1, <2>1 DEF InOrder, ToolEnds
    <2>4. PlanIsPrefix' /\ MatchOwn' /\ Follows'
        BY <1>1, <1>2, <2>1 DEF PlanIsPrefix, MatchOwn, Follows, IsNote
    <2>5. MatchFresh'
        BY <1>1, <1>2, <2>1, <2>2 DEF MatchFresh
    <2>6. ReplayKnown'
        <3>1. Messages(replay.hist, disk) => Messages(replay.hist, disk)'
            BY <1>1 DEF Messages, IsNote
        <3> QED BY <1>1, <2>1, <3>1 DEF ReplayKnown
    <2>7. Passed'
        BY <1>1, <1>2, <2>1, <2>2 DEF Passed, Done
    <2> QED BY <1>3, <2>1, <2>2, <2>3, <2>4, <2>5, <2>6, <2>7 DEF Laid
<1> QED BY <1>4, <1>5

LEMMA WriteLaid ==
    ASSUME HistoryTypes, Laid, NEW half \in BOOLEAN, WriteNote(half)
    PROVE  Laid'
<1>1. PICK d : d = Append(disk, NewNote)
    OBVIOUS
<1>2. disk' = d /\ UNCHANGED <<load, plan, match, replay, shown>>
    BY <1>1 DEF WriteNote
<1>3. FilePaired
    BY DEF Laid
<1>4. /\ WellPaired(d) /\ IsNote(d[Len(d)]) /\ ToolEnds(d) = ToolEnds(disk) /\ Ids(disk) \subseteq Ids(d)
      /\ Len(d) = Len(disk) + 1 /\ \A k \in 1 .. Len(disk) : d[k] = disk[k]
      /\ \A s : Messages(s, disk) => Messages(s, d)
    BY <1>1, <1>3, NoteAdded
<1>5. /\ WellPaired(disk)' /\ IsNote(disk[Len(disk)])' /\ ToolEnds(disk)' = ToolEnds(disk) /\ Ids(disk)' = Ids(d)
    BY <1>2, <1>4 DEF WellPaired, IsNote, ToolEnds, Ids
<1>6. FilePaired' /\ MatchIdle'
    BY <1>2, <1>5 DEF FilePaired, MatchIdle, Laid
<1>7. CASE load.kind # "load"
    BY <1>2, <1>6, <1>7 DEF Laid
<1>8. CASE load.kind = "load"
    <2>1. /\ PlanIsPrefix /\ MatchFresh /\ MatchOwn /\ ReplayKnown /\ Passed /\ Follows
          /\ FrameIds(shown) \subseteq Ids(disk) /\ InOrder(shown, ToolEnds(disk))
        BY <1>8 DEF Laid
    <2>2. /\ FrameIds(shown)' = FrameIds(shown) /\ UnitIds(shown)' = UnitIds(shown)
          /\ DoneIds' = DoneIds /\ Before(match.cursor)' = Before(match.cursor)
        BY <1>2 DEF FrameIds, UnitIds, DoneIds, Done, Before
    <2>3. InOrder(shown, ToolEnds(disk))'
        BY <1>2, <1>5, <2>1 DEF InOrder
    <2>4. PlanIsPrefix'
        <3>1. Len(disk) \in Nat /\ Len(plan.units) \in Nat
            BY RisingDisk DEF HistoryTypes, PlanTyped
        <3>2. PICK n, m \in Nat : n = Len(disk) /\ m = Len(plan.units)
            BY <3>1
        <3>3. ASSUME m <= n, \A k \in 1 .. m : plan.units[k] = disk[k], \A k \in 1 .. n : k > m => IsNote(disk[k])
              PROVE  m <= Len(d) /\ (\A k \in 1 .. m : plan.units[k] = d[k]) /\ \A k \in 1 .. Len(d) : k > m => IsNote(d[k])
            <4>1. Len(d) = n + 1 /\ \A k \in 1 .. n : d[k] = disk[k]
                BY <1>4, <3>2
            <4>2. \A k \in 1 .. m : k \in 1 .. n
                BY <3>2, <3>3
            <4>3. \A k \in 1 .. n + 1 : k \in 1 .. n \/ k = n + 1
                BY <3>2
            <4>4. m <= n + 1
                BY <3>2, <3>3
            <4> QED BY <1>4, <3>3, <4>1, <4>2, <4>3, <4>4
        <3> QED BY <1>2, <2>1, <3>2, <3>3 DEF PlanIsPrefix, IsNote
    <2>5. MatchOwn' /\ MatchFresh'
        BY <1>2, <2>1, <2>2 DEF MatchOwn, MatchFresh
    <2>6. ReplayKnown'
        <3>1. Messages(replay.hist, disk) => Messages(replay.hist, d)
            BY <1>4
        <3>2. Messages(replay.hist, d) => Messages(replay.hist, disk)'
            BY <1>2 DEF Messages, IsNote
        <3> QED BY <1>2, <2>1, <3>1, <3>2 DEF ReplayKnown
    <2>7. Passed'
        BY <1>2, <2>1, <2>2 DEF Passed, Done
    <2>8. Follows'
        BY <1>2, <1>5, <2>1, <2>2 DEF Follows, Done
    <2> QED BY <1>4, <1>5, <1>6, <2>1, <2>2, <2>3, <2>4, <2>5, <2>6, <2>7, <2>8 DEF Laid
<1> QED BY <1>7, <1>8

LEMMA FinishLaid ==
    ASSUME Laid, FinishNote
    PROVE  Laid'
<1>1. ~torn' /\ UNCHANGED <<disk, load, plan, match, replay, shown>>
    BY DEF FinishNote
<1>2. FilePaired' /\ MatchIdle'
    BY <1>1 DEF Laid, FilePaired, WellPaired, MatchIdle
<1>3. CASE load.kind # "load"
    BY <1>1, <1>2, <1>3 DEF Laid
<1>4. CASE load.kind = "load"
    <2>1. /\ PlanIsPrefix /\ MatchFresh /\ MatchOwn /\ ReplayKnown /\ Passed /\ Follows
          /\ FrameIds(shown) \subseteq Ids(disk) /\ InOrder(shown, ToolEnds(disk))
        BY <1>4 DEF Laid
    <2>2. /\ FrameIds(shown)' = FrameIds(shown) /\ UnitIds(shown)' = UnitIds(shown)
          /\ DoneIds' = DoneIds /\ Before(match.cursor)' = Before(match.cursor)
          /\ Ids(disk)' = Ids(disk) /\ ToolEnds(disk)' = ToolEnds(disk)
        BY <1>1 DEF FrameIds, UnitIds, DoneIds, Done, Before, Ids, ToolEnds
    <2>3. InOrder(shown, ToolEnds(disk))'
        BY <1>1, <2>1, <2>2 DEF InOrder
    <2>4. PlanIsPrefix' /\ MatchOwn'
        BY <1>1, <2>1 DEF PlanIsPrefix, MatchOwn, IsNote
    <2>5. MatchFresh'
        BY <1>1, <2>1, <2>2 DEF MatchFresh
    <2>6. ReplayKnown'
        <3>1. Messages(replay.hist, disk) => Messages(replay.hist, disk)'
            BY <1>1 DEF Messages, IsNote
        <3> QED BY <1>1, <2>1, <3>1 DEF ReplayKnown
    <2>7. Passed'
        BY <1>1, <2>1, <2>2 DEF Passed, Done
    <2>8. Follows'
        BY <1>1, <2>1, <2>2 DEF Follows, Done
    <2> QED BY <1>2, <2>1, <2>2, <2>3, <2>4, <2>5, <2>6, <2>7, <2>8 DEF Laid
<1> QED BY <1>3, <1>4

LEMMA StartLaid ==
    ASSUME HistoryTypes, Laid, StartReplay
    PROVE  Laid'
<1>1. PICK s : s = Only(WholeLines, {e \in Values(WholeLines) : ~IsNote(e)})
    OBVIOUS
<1>2. /\ load.phase = "sent" /\ load' = [load EXCEPT !.phase = "replaying"]
      /\ UNCHANGED <<disk, torn, plan, match, shown>>
    BY DEF StartReplay
<1>3. replay' = [hist |-> s, at |-> 1, chunk |-> 1]
    BY <1>1, Zenon DEF StartReplay
<1>4. load'.phase = "replaying" /\ load'.kind = load.kind /\ load'.planned = load.planned
    BY <1>2 DEF HistoryTypes, LoadTyped
<1>5. FilePaired' /\ MatchIdle'
    BY <1>2, <1>4, SameFile DEF MatchIdle
<1>6. CASE load.kind # "load"
    BY <1>4, <1>5, <1>6 DEF Laid
<1>7. CASE load.kind = "load"
    <2>1. /\ PlanIsPrefix /\ MatchFresh /\ MatchOwn
          /\ FrameIds(shown) \subseteq Ids(disk) /\ InOrder(shown, ToolEnds(disk))
        BY <1>7 DEF Laid
    <2>2. /\ match.cursor = 1 /\ match.mid = 0 /\ match.tools = {}
          /\ UnitIds(shown) = {} /\ FrameIds(shown) = {}
        BY <1>2, <2>1 DEF MatchFresh
    <2>3. replay'.hist = s /\ replay'.at = 1 /\ replay'.chunk = 1
        BY <1>3
    <2>4. Messages(s, disk)
        BY <1>1, ReplayedIs DEF Laid
    <2>5. ReplayKnown'
        <3>1. Messages(replay.hist, disk)'
            BY <1>2, <2>3, <2>4 DEF Messages, IsNote
        <3> QED BY <1>3, <1>4, <2>3, <3>1 DEF ReplayKnown
    <2>6. UnitIds(shown)' = {} /\ FrameIds(shown)' = {} /\ Ids(disk)' = Ids(disk)
        <3>1. UnitIds(shown)' = UnitIds(shown) /\ FrameIds(shown)' = FrameIds(shown)
            BY <1>2 DEF UnitIds, FrameIds
        <3>2. Ids(disk)' = Ids(disk)
            BY <1>2 DEF Ids
        <3> QED BY <2>2, <3>1, <3>2
    <2>7. Before(match.cursor)' = {}
        BY <1>2, <2>2 DEF Before
    <2>8. \A j \in 1 .. Len(s) : ~(Done(j))'
        BY <2>3 DEF Done
    <2>9. DoneIds' = {}
        BY <2>3, <2>8 DEF DoneIds
    <2>10. PlanIsPrefix' /\ MatchFresh' /\ MatchOwn'
        BY <1>2, <1>4, <2>1 DEF PlanIsPrefix, MatchFresh, MatchOwn, IsNote
    <2>11. Passed'
        BY <2>6, <2>7, <2>9 DEF Passed
    <2>12. Follows'
        BY <1>2, <2>2, <2>3, <2>9 DEF Follows
    <2>13. InOrder(shown, ToolEnds(disk))'
        BY <1>2, <2>1 DEF InOrder, ToolEnds
    <2> QED BY <1>5, <2>5, <2>6, <2>10, <2>11, <2>12, <2>13 DEF Laid
<1> QED BY <1>6, <1>7

LEMMA ForeignLaid ==
    ASSUME HistoryTypes, Laid, NEW v, ForeignFrame(v)
    PROVE  Laid'
<1>1. PICK f : f = [u |-> "chunk", val |-> v, mid |-> -1, first |-> FALSE, sid |-> "foreign"]
    OBVIOUS
<1>2. /\ load.phase \in {"sent", "replaying"} /\ observe(f) /\ UNCHANGED <<disk, torn, load, plan, replay>>
    BY <1>1, Zenon DEF ForeignFrame
<1>3. f.sid = "foreign" /\ f.first = FALSE
    BY <1>1
<1>4. CASE load.kind # "load"
    <2>1. FilePaired' /\ MatchIdle'
        BY <1>2, SameFile DEF MatchIdle
    <2> QED BY <1>2, <1>4, <2>1 DEF Laid
<1>5. CASE load.kind = "load"
    <2>1. match.active => match.sid = "own"
        BY <1>5 DEF Laid, MatchOwn
    <2>2. passThrough(f, match)
        BY <1>2, <1>3, <2>1 DEF observe
    <2>3. match' = match /\ Forward(<<>>, f)
        BY <2>2, Zenon DEF passThrough
    <2>4. PICK N : N = <<>>
        OBVIOUS
    <2>5. Ids(N) = {} /\ N \in Seq(FileEntries) /\ Forward(N, f)
        BY <2>3, <2>4, EmptyIs
    <2>6. IsSeq(shown) /\ InOrder(shown, ToolEnds(disk))
        BY <1>5 DEF HistoryTypes, Laid
    <2>7. /\ \A y \in FrameIds(shown), x \in Ids(N) : y \in ToolEnds(disk) \/ y < x
          /\ f.first => \A x \in UnitIds(shown) \cup Ids(N) : x < f.mid
        BY <1>3, <2>5
    <2>8. /\ InOrder(shown', ToolEnds(disk)) /\ UnitIds(shown') \subseteq UnitIds(shown) \cup Ids(N)
          /\ ~f.first => FrameIds(shown') \subseteq FrameIds(shown)
        BY <2>5, <2>6, <2>7, ForwardOrder
    <2> QED BY <1>2, <1>3, <2>3, <2>5, <2>8, OtherRows
<1> QED BY <1>4, <1>5

LEMMA LaidInit == (\A h \in Histories : WellPaired(h)) /\ HistoryInit => LaidInv
<1> SUFFICES ASSUME \A h \in Histories : WellPaired(h), HistoryInit PROVE Laid
    BY DEF LaidInv
<1>1. /\ FilePaired /\ MatchIdle
    BY DEF HistoryInit, FilePaired, MatchIdle
<1>2. load.phase = "none" /\ ~match.active
    BY DEF HistoryInit, NoMatch
<1>3. PlanIsPrefix /\ MatchFresh /\ MatchOwn /\ ReplayKnown /\ Passed /\ Follows
    BY <1>2 DEF PlanIsPrefix, MatchFresh, MatchOwn, ReplayKnown, Passed, Follows
<1>4. PICK U : U = ToolEnds(disk)
    OBVIOUS
<1>5. FrameIds(shown) = {} /\ InOrder(shown, U)
    BY NoRows DEF HistoryInit
<1> QED BY <1>1, <1>3, <1>4, <1>5 DEF Laid

LEMMA LaidNext == HistoryTypes /\ LaidInv /\ [HistoryNext]_historyVars => LaidInv'
<1> SUFFICES ASSUME HistoryTypes, LaidInv, [HistoryNext]_historyVars, count'.rewrite = 0 PROVE Laid'
    BY DEF LaidInv
<1>a. count \in [load: Nat, reload: Nat, write: Nat, race: Nat, rewrite: Nat, other: Nat, foreign: Nat]
    BY DEF HistoryTypes, CountTyped
<1>b. ASSUME count'.rewrite = count.rewrite PROVE Laid
    BY <1>b DEF LaidInv
<1>c. ASSUME UNCHANGED <<disk, torn, load, plan, match, replay, shown, count>> PROVE Laid'
    <2>1. Laid
        BY <1>b, <1>c
    <2>2. load.kind = "load" => InOrder(shown', ToolEnds(disk))
        BY <1>c, <2>1 DEF Laid
    <2>3. UnitIds(shown') \subseteq UnitIds(shown) /\ FrameIds(shown') \subseteq FrameIds(shown)
        BY <1>c
    <2> QED BY <1>c, <2>1, <2>2, <2>3, OtherRows
<1>1. ASSUME NEW kind \in Kinds, ReadFile(kind) PROVE Laid'
    <2>1. PICK x, y : x = (IF tail.attached THEN 1 ELSE 0) /\ y = (IF torn THEN 1 ELSE 0)
        OBVIOUS
    <2>2. x \in Nat /\ y \in Nat
        BY <2>1
    <2>3. count' = [count EXCEPT !.load = @ + 1, !.reload = @ + x, !.race = @ + y]
        BY <1>1, <2>1, Zenon DEF ReadFile
    <2>4. count'.rewrite = count.rewrite
        BY <2>2, <2>3, CountsUp, Zenon DEF HistoryTypes
    <2> QED BY <1>1, <1>b, <2>4, ReadLaid
<1>2. ASSUME StatFile PROVE Laid'
    BY <1>2, <1>b, StatLaid DEF StatFile
<1>3. ASSUME PlanUnreadable PROVE Laid'
    BY <1>3, <1>b, UnreadableLaid DEF PlanUnreadable
<1>4. ASSUME LoadAnswered PROVE Laid'
    BY <1>4, <1>b, AnswerLaid DEF LoadAnswered
<1>5. ASSUME LoadFailed PROVE Laid'
    BY <1>5, <1>b, FailedLaid DEF LoadFailed
<1>6. ASSUME OtherResponse PROVE Laid'
    <2>1. count'.rewrite = count.rewrite
        BY <1>6, <1>a DEF OtherResponse
    <2> QED BY <1>6, <1>b, <2>1, OtherLaid
<1>7. ASSUME Poll PROVE Laid'
    BY <1>7, <1>b, PollLaid DEF Poll
<1>8. ASSUME PollMissing PROVE Laid'
    BY <1>8, <1>c DEF PollMissing
<1>9. ASSUME NEW half \in BOOLEAN, WriteNote(half) PROVE Laid'
    <2>1. PICK x : count' = [count EXCEPT !.write = @ + 1, !.race = @ + x]
        <3>1. PICK x : x = IF Racing THEN 1 ELSE 0
            OBVIOUS
        <3> QED BY <1>9, <3>1, Zenon DEF WriteNote
    <2>2. count'.rewrite = count.rewrite
        BY <1>a, <2>1
    <2> QED BY <1>9, <1>b, <2>2, WriteLaid
<1>10. ASSUME FinishNote PROVE Laid'
    BY <1>10, <1>b, FinishLaid DEF FinishNote
<1>11. ASSUME NEW i \in 1 .. Len(disk), Rewrite(i) PROVE Laid'
    <2>1. count' = [count EXCEPT !.rewrite = @ + 1]
        BY <1>11 DEF Rewrite
    <2>2. count'.rewrite = count.rewrite + 1 /\ count.rewrite \in Nat
        BY <1>a, <2>1
    <2> QED BY <2>2
<1>12. ASSUME StartReplay PROVE Laid'
    BY <1>12, <1>b, StartLaid DEF StartReplay
<1>13. ASSUME ReplayFrame PROVE Laid'
    BY <1>13, <1>b, FrameLaid DEF ReplayFrame
<1>14. ASSUME NEW v \in Vals, ForeignFrame(v) PROVE Laid'
    <2>1. count' = [count EXCEPT !.foreign = @ + 1]
        BY <1>14 DEF ForeignFrame
    <2>2. count'.rewrite = count.rewrite
        BY <1>a, <2>1
    <2> QED BY <1>14, <1>b, <2>2, ForeignLaid
<1>15. CASE UNCHANGED historyVars
    BY <1>15, <1>c DEF historyVars
<1> QED BY <1>1, <1>2, <1>3, <1>4, <1>5, <1>6, <1>7, <1>8, <1>9, <1>10, <1>11, <1>12, <1>13, <1>14, <1>15
        DEF HistoryNext

\* A tool result that is shown is known as one by its entry.
LEMMA EndIsUpdate ==
    ASSUME HistoryTypes, NEW j \in 1 .. Len(shown), shown[j].id \in ToolEnds(disk)
    PROVE  IsUpdate(j)
<1>1. PICK k \in 1 .. Len(disk) : /\ shown[j].id = disk[k].id /\ disk[k].kind = "result"
                                  /\ \E l \in 1 .. Len(disk) : disk[l].kind = "call" /\ disk[l].val = disk[k].val
    BY DEF ToolEnds
<1>2. Apart(disk)
    BY RisingDisk
<1>3. PICK D : D = {disk[i] : i \in 1 .. Len(disk)}
    OBVIOUS
<1>4. EntryOf(j) = CHOOSE e \in D : e.id = shown[j].id
    BY <1>3, Zenon DEF EntryOf
<1>5. disk[k] \in D /\ disk[k].id = shown[j].id
    BY <1>1, <1>3
<1>6. PICK e : e = EntryOf(j) /\ e \in D /\ e.id = shown[j].id
    BY <1>4, <1>5
<1>7. PICK i \in 1 .. Len(disk) : e = disk[i]
    BY <1>3, <1>6
<1>8. i = k
    BY <1>1, <1>2, <1>6, <1>7 DEF Apart
<1>9. EntryOf(j) = disk[k]
    BY <1>6, <1>7, <1>8
<1> QED BY <1>1, <1>9 DEF IsUpdate

\* Whatever the file, if its tool ids are paired: a load shows each note of the
\* plan behind every message that was written before it and before every message
\* that was written after it, the result of a tool call excepted (observe,
\* advanceTo), over equal texts, messages of several chunks, frames of other
\* sessions and notes that are written meanwhile.
THEOREM NotesInPlace ==
    ASSUME \A h \in Histories : WellPaired(h)
    PROVE  HistorySpec => []InPlace
<1>1. HistoryInit => HistoryTypes /\ LaidInv
    BY TypesInit, LaidInit
<1>2. (HistoryTypes /\ LaidInv) /\ [HistoryNext]_historyVars => (HistoryTypes /\ LaidInv)'
    BY TypesNext, LaidNext
<1>3. HistoryTypes /\ LaidInv => InPlace
    <2> SUFFICES ASSUME HistoryTypes, Laid, load.kind = "load",
                        NEW i \in 1 .. Len(shown), NEW j \in 1 .. Len(shown), UnitAt(i), FrameAt(j)
                 PROVE  /\ i < j => shown[i].id < shown[j].id
                        /\ j < i /\ ~IsUpdate(j) => shown[j].id < shown[i].id
        BY DEF LaidInv, InPlace
    <2>1. /\ i < j => shown[i].id < shown[j].id
          /\ j < i => shown[j].id \in ToolEnds(disk) \/ shown[j].id < shown[i].id
        BY DEF Laid, InOrder, UnitAt, FrameAt
    <2> QED BY <2>1, EndIsUpdate
<1> QED BY <1>1, <1>2, <1>3, PTL DEF HistorySpec
=============================================================================
