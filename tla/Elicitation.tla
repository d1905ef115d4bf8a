---------------------------- MODULE Elicitation ----------------------------
(***************************************************************************)
(* Elicitation bridge (src/bridge/adapter.mjs).  OMP asks the user with    *)
(* elicitation/create requests, which the pager cannot decode; the adapter *)
(* turns each into a card of the pager (plan approval, URL consent or      *)
(* question card) and the card's outcome back into OMP's answer.  OMP      *)
(* withdraws a request with elicitation/complete, which retracts the card. *)
(*                                                                         *)
(* Three processes and the pipes between them: OMP (inbox), the adapter    *)
(* (screen, what it sends to the pager) and the pager with its user        *)
(* (replies).  An answer to OMP is in `got' when the adapter sends it.     *)
(* The pager shows one card of a kind at a time and a new one cancels it;  *)
(* a URL card waits, answered, until the flow it opened has finished.      *)
(***************************************************************************)
EXTENDS FormAnswers

CONSTANTS
    MaxElicit,  \* bound: elicitations
    Forms,      \* the forms of ask elicitations
    TypedTexts  \* what the user may type

ASSUME ElicitConstants == MaxElicit \in Nat /\ "" \notin TypedTexts

\* In the order OMP asks; a number stands for the request's id, for its
\* elicitationId and for the adapter's id of the card.
Elicits == 1 .. MaxElicit

VARIABLES
    req,        \* elicitation -> what OMP asks: [kind, named, form]; named
                \* says that it has an elicitationId
    inbox,      \* OMP to adapter: [m, e] with m "create" or "complete"
    completed,  \* elicitations OMP has withdrawn
    bridged,    \* bridgedElicits
    ids,        \* elicitIds
    screen,     \* adapter to pager: "card", "raw", "done" or "gone" of e
    card,       \* the pager's cards
    replies,    \* pager to adapter: [e, raw, outcome, response]
    said,       \* what the user said: [what, answers]
    got         \* the answers OMP was sent: [action, content]

omp == <<req, inbox, completed>>
adapter == <<bridged, ids, got>>
pager == <<card, said>>
vars == <<omp, adapter, pager, screen, replies>>

NoForm == [message |-> "", props |-> <<>>]
NoRequest == [kind |-> "none", named |-> FALSE, form |-> NoForm]
Requests == [kind: {"plan", "url"}, named: BOOLEAN, form: {NoForm}] \cup
            [kind: {"ask"}, named: BOOLEAN, form: Forms]
NoResponse == [t \in {} |-> 0]
Nothing == [what |-> "nothing", answers |-> <<>>]

Kind(e) == req[e].kind
Form(e) == req[e].form

-----------------------------------------------------------------------------
(* The adapter.                                                              *)

\* bridgeElicitation returns a card, or null.
Bridgeable(e) ==
    Kind(e) = "ask" => \A i \in Questions(Form(e)) : Representable(Form(e).props[i])

Send(m, e) == <<[m |-> m, e |-> e]>>

\* elicitation/create: what cannot be shown is forwarded as it is.
HandleCreate(e) ==
    \/ /\ Bridgeable(e)
       /\ bridged' = bridged \cup {e}
       /\ ids' = IF Kind(e) = "url" \/ req[e].named THEN ids \cup {e} ELSE ids
       /\ screen' = screen \o Send("card", e)
       /\ UNCHANGED got
    \/ /\ ~Bridgeable(e)
       /\ screen' = screen \o Send("raw", e)
       /\ UNCHANGED adapter

Answer(action, content) == [action |-> action, content |-> content]

\* Defect: the record of the card is kept.
HandleComplete_Kept(e) ==
    LET live == e \in ids /\ e \in bridged
    IN  /\ screen' = screen \o Send("done", e) \o (IF live THEN Send("gone", e) ELSE <<>>)
        /\ got' = IF live THEN [got EXCEPT ![e] = Append(@, Answer("cancel", {}))] ELSE got
        /\ UNCHANGED <<bridged, ids>>

\* Defect: the card is not dismissed.
HandleComplete_Lingers(e) ==
    LET live == e \in ids /\ e \in bridged
    IN  /\ screen' = screen \o Send("done", e)
        /\ bridged' = bridged \ (IF live THEN {e} ELSE {})
        /\ ids' = ids \ (IF live THEN {e} ELSE {})
        /\ got' = IF live THEN [got EXCEPT ![e] = Append(@, Answer("cancel", {}))] ELSE got

\* Defect: OMP's request is not answered.
HandleComplete_Mute(e) ==
    LET live == e \in ids /\ e \in bridged
    IN  /\ screen' = screen \o Send("done", e) \o (IF live THEN Send("gone", e) ELSE <<>>)
        /\ bridged' = bridged \ (IF live THEN {e} ELSE {})
        /\ ids' = ids \ (IF live THEN {e} ELSE {})
        /\ UNCHANGED got

\* elicitation/complete: a waiting URL card is told, a card that was not
\* answered is dismissed, and OMP's request is answered.
HandleComplete(e) ==
    LET live == e \in ids /\ e \in bridged
    IN  /\ screen' = screen \o Send("done", e) \o (IF live THEN Send("gone", e) ELSE <<>>)
        /\ bridged' = bridged \ (IF live THEN {e} ELSE {})
        /\ ids' = ids \ (IF live THEN {e} ELSE {})
        /\ got' = IF live THEN [got EXCEPT ![e] = Append(@, Answer("cancel", {}))] ELSE got

HandleOmp ==
    /\ inbox # <<>>
    /\ inbox' = Tail(inbox)
    /\ LET e == Head(inbox).e
       IN  \/ Head(inbox).m = "create" /\ HandleCreate(e)
           \/ Head(inbox).m = "complete" /\ HandleComplete(e)
    /\ UNCHANGED <<req, completed, pager, replies>>

\* Defect: whatever is not a cancel is an approval.
Action_Lenient(kind, outcome) == IF outcome \in {"cancelled", "cancel", "abandoned", "error"} THEN "cancel" ELSE "accept"

\* elicitResultToOmp, and an error for any kind.
Action(kind, outcome) ==
    CASE kind = "plan" -> IF outcome = "approved" THEN "accept" ELSE "cancel"
      [] kind = "url" -> IF outcome \in {"accept", "decline"} THEN outcome ELSE "cancel"
      [] kind = "ask" -> CASE outcome = "accepted" -> "accept"
                           [] outcome \in {"chat_about_this", "skip_interview"} -> "decline"
                           [] OTHER -> "cancel"

Translated(e, r) ==
    Answer(Action(Kind(e), r.outcome),
           IF r.outcome = "accepted" THEN Content(Form(e), r.response) ELSE {})

\* handleClientResponse, or the frame is forwarded: an error to a request that
\* was forwarded too makes OMP approve by itself; an id OMP never sent (the
\* answer to a card that was retracted) does nothing there.
HandleReply ==
    /\ replies # <<>>
    /\ replies' = Tail(replies)
    /\ LET r == Head(replies)
       IN  \/ /\ r.raw
              /\ got' = [got EXCEPT ![r.e] = Append(@, Answer("unsupported", {}))]
              /\ UNCHANGED <<bridged, ids>>
           \/ /\ ~r.raw /\ r.e \in bridged
              /\ bridged' = bridged \ {r.e}
              /\ ids' = ids \ {r.e}
              /\ got' = [got EXCEPT ![r.e] = Append(@, Translated(r.e, r))]
           \/ /\ ~r.raw /\ r.e \notin bridged
              /\ UNCHANGED adapter
    /\ UNCHANGED <<omp, pager, screen>>

-----------------------------------------------------------------------------
(* OMP.                                                                      *)

Create(e, q) ==
    /\ req[e] = NoRequest /\ \A d \in 1 .. e - 1 : req[d] # NoRequest
    /\ req' = [req EXCEPT ![e] = q]
    /\ inbox' = inbox \o Send("create", e)
    /\ UNCHANGED <<completed, adapter, pager, screen, replies>>

\* OMP stopped awaiting an elicitation, or the flow of its URL has finished.
Complete(e) ==
    /\ req[e].named /\ e \notin completed
    /\ completed' = completed \cup {e}
    /\ inbox' = inbox \o Send("complete", e)
    /\ UNCHANGED <<req, adapter, pager, screen, replies>>

-----------------------------------------------------------------------------
(* The pager and its user.                                                   *)

Reply(e, outcome) == <<[e |-> e, raw |-> FALSE, outcome |-> outcome, response |-> NoResponse]>>
Cancels(e) == Reply(e, IF Kind(e) = "url" THEN "cancel" ELSE "cancelled")
At(kind, place) == {e \in Elicits : Kind(e) = kind /\ card[e] = place}
Set(places) == card' = [e \in Elicits |-> IF e \in DOMAIN places THEN places[e] ELSE card[e]]

\* A new card takes the place of the old one of its kind, which is cancelled; a
\* URL card is parked behind one that waits.
ShowCard(e) ==
    LET waits == At("url", "waiting") # {}
        place == IF Kind(e) = "url" /\ waits THEN "parked" ELSE "open"
        old == At(Kind(e), place)
    IN  /\ Set([x \in old \cup {e} |-> IF x = e THEN place ELSE "closed"])
        /\ replies' = replies \o (IF old = {} THEN <<>> ELSE Cancels(CHOOSE x \in old : TRUE))

\* No view shows the session.  The handlers say that the request stays unanswered
\* (NoViewParks below), but they drop response_tx, and the task that awaits it
\* turns the closed channel (RecvFailed) into an error for the sender.
NoView(e) ==
    /\ replies' = replies \o Reply(e, "error")
    /\ UNCHANGED card

\* The parked card is shown when the waiting one goes.
Closed(e) ==
    LET parked == IF card[e] = "waiting" THEN At("url", "parked") ELSE {}
    IN  [x \in parked \cup {e} |-> IF x = e THEN "closed" ELSE "open"]

\* interaction_resolved: not for a card that waits.
Dismiss(e) ==
    IF card[e] \in {"open", "parked"}
    THEN /\ Set(Closed(e))
         /\ replies' = replies \o (IF Kind(e) = "plan" THEN Cancels(e) ELSE Reply(e, "error"))
    ELSE UNCHANGED <<card, replies>>

\* elicit_complete: only for a card that waits.
Finish(e) ==
    /\ UNCHANGED replies
    /\ IF card[e] = "waiting" THEN Set(Closed(e)) ELSE UNCHANGED card

PagerReads ==
    /\ screen # <<>>
    /\ screen' = Tail(screen)
    /\ LET e == Head(screen).e
       IN  \/ Head(screen).m = "card" /\ (ShowCard(e) \/ NoView(e))
           \/ Head(screen).m = "gone" /\ Dismiss(e)
           \/ Head(screen).m = "done" /\ Finish(e)
           \/ /\ Head(screen).m = "raw"
              /\ replies' = Append(replies, [e |-> e, raw |-> TRUE, outcome |-> "error", response |-> NoResponse])
              /\ UNCHANGED card
    /\ UNCHANGED <<omp, adapter, said>>

\* The outcomes of the pager's response types that are not an approval.  (Its
\* question card only cancels; a chat and a skip are in the type.)
Refusals(e) == CASE Kind(e) = "plan" -> {"cancelled", "abandoned"}
                 [] Kind(e) = "url" -> {"decline", "cancel"}
                 [] Kind(e) = "ask" -> {"chat_about_this", "skip_interview", "cancelled"}
                 [] OTHER -> {}

Refuse(e, outcome) ==
    /\ card[e] = "open"
    /\ Set(Closed(e))
    /\ said' = [said EXCEPT ![e].what = "no"]
    /\ replies' = replies \o Reply(e, outcome)
    /\ UNCHANGED <<omp, adapter, screen>>

Approve(e) ==
    /\ card[e] = "open" /\ Kind(e) # "ask"
    /\ Set([x \in {e} |-> IF Kind(e) = "url" THEN "waiting" ELSE "closed"])
    /\ said' = [said EXCEPT ![e].what = "yes"]
    /\ replies' = replies \o Reply(e, IF Kind(e) = "url" THEN "accept" ELSE "approved")
    /\ UNCHANGED <<omp, adapter, screen>>

\* What the question card lets the user do with a question: one option or a
\* typed text, in a multi-select any options and perhaps a text; or neither.
Selections(p) ==
    LET labels == Values(Options(p))
    IN  IF p.type = "array" THEN [picked: SUBSET labels, typed: TypedTexts \cup {""}]
        ELSE [picked: {{}}, typed: TypedTexts \cup {""}] \cup [picked: {{l} : l \in labels}, typed: {""}]

Submit(e, s) ==
    /\ card[e] = "open" /\ Kind(e) = "ask"
    /\ \A i \in Questions(Form(e)) : s[i] \in Selections(Form(e).props[i])
    /\ Set(Closed(e))
    /\ said' = [said EXCEPT ![e] = [what |-> "yes", answers |-> s]]
    /\ replies' = Append(replies, [e |-> e, raw |-> FALSE, outcome |-> "accepted",
                                   response |-> Response(Form(e), s)])
    /\ UNCHANGED <<omp, adapter, screen>>

\* The user closes a card that waits.
CloseWaiting(e) ==
    /\ card[e] = "waiting"
    /\ Set(Closed(e))
    /\ UNCHANGED <<omp, adapter, said, screen, replies>>

-----------------------------------------------------------------------------
Init ==
    /\ req = [e \in Elicits |-> NoRequest]
    /\ inbox = <<>> /\ screen = <<>> /\ replies = <<>>
    /\ completed = {}
    /\ bridged = {} /\ ids = {}
    /\ card = [e \in Elicits |-> "none"]
    /\ said = [e \in Elicits |-> Nothing]
    /\ got = [e \in Elicits |-> <<>>]

Next ==
    \/ HandleOmp
    \/ HandleReply
    \/ PagerReads
    \/ \E e \in Elicits :
          \/ \E q \in Requests : Create(e, q)
          \/ Complete(e)
          \/ \E outcome \in Refusals(e) : Refuse(e, outcome)
          \/ Approve(e)
          \/ \E s \in [Questions(Form(e)) -> UNION {Selections(Form(e).props[i]) : i \in Questions(Form(e))}] :
                Submit(e, s)
          \/ CloseWaiting(e)

Spec == Init /\ [][Next]_vars

\* The adapter and the pager read what was sent to them.
FairSpec == Spec /\ WF_vars(HandleOmp) /\ WF_vars(HandleReply) /\ WF_vars(PagerReads)

-----------------------------------------------------------------------------
(* Properties.                                                               *)

\* Whatever the user, the pager's slots and OMP's withdrawals do in whatever
\* order, OMP's request is answered at most once (bridgedElicits).
AnsweredOnce == \A e \in Elicits : Len(got[e]) <= 1

\* "never an approval" (adapter.mjs:4298): OMP is told accept only when the user
\* accepted that very card; a card that was replaced, retracted or failed, a
\* chat or a skip is not one.
AcceptIsUsers ==
    \A e \in Elicits : \A i \in DOMAIN got[e] : got[e][i].action = "accept" => said[e].what = "yes"

\* "so nothing keeps waiting on it" (adapter.mjs:4973): once the pipes are
\* empty, the cards that wait for the user are those OMP's requests wait for.  (A
\* request the pager has no view for is among neither: its error cancels it.)
CardsAreAwaited ==
    inbox = <<>> /\ screen = <<>> /\ replies = <<>> =>
        /\ {e \in Elicits : card[e] \in {"open", "parked"}} = bridged
        /\ ids \subseteq bridged

\* "Leave the reverse-request unanswered; the agent keeps awaiting and the leader
\* replays it when a client attaches" (pager acp_handler/interactions.rs:116): a
\* request that no card was ever shown for is answered only when OMP withdrew it.
NoViewParks ==
    \A e \in Elicits : card[e] = "none" /\ e \notin completed /\ Bridgeable(e) => got[e] = <<>>

\* A request that was withdrawn, and one whose card the user answered, is
\* answered to OMP in the end.
Settles ==
    \A e \in Elicits : (e \in completed \/ said[e].what # "nothing") ~> (got[e] # <<>>)

\* "URL-mode cards dismiss on `elicitation/complete`" (docs/GROK-PI.md:302):
\* once the pipes are empty, no card of a withdrawn elicitation is left.
CompleteCloses ==
    inbox = <<>> /\ screen = <<>> /\ replies = <<>> =>
        \A e \in completed : card[e] \in {"none", "closed"}

Accepted(e) == got[e] # <<>> /\ got[e][1].action = "accept" /\ Kind(e) = "ask"
Constants(p, picked) ==
    IF p.choices = <<>> THEN {IF l = "Yes" THEN "true" ELSE "false" : l \in picked}
    ELSE {p.choices[k].const : k \in {k \in DOMAIN p.choices : p.choices[k].label \in picked}}

\* A property whose labels tell its choices apart, and from the pager's "Other";
\* only strings and arrays have choices.
Plain(p) ==
    /\ p.choices \in Seq(Values(p.choices)) /\ p.other \in BOOLEAN
    /\ \A k, l \in DOMAIN p.choices : p.choices[k].label = p.choices[l].label => k = l
    /\ \A k \in DOMAIN p.choices : p.choices[k].label # "Other"
    /\ p.type \in {"boolean", "number"} => p.choices = <<>> /\ ~p.other

\* A form whose keys and question texts tell its properties apart.
WellFormed(form) ==
    /\ form.props \in Seq(Values(form.props))
    /\ \A i, j \in Questions(form) : i # j =>
          form.props[i].key # form.props[j].key /\ Question(form, i) # Question(form, j)
    /\ \A i \in Questions(form) : Plain(form.props[i])

\* The options picked for a property come back as its constants under its key,
\* and for a property that was not answered nothing comes back.
PickedKept ==
    \A e \in Elicits : Accepted(e) => \A i \in Questions(Form(e)) :
        LET p == Form(e).props[i]
            mine == {x \in got[e][1].content : x.key = p.key}
        IN  /\ said[e].answers[i].picked # {} =>
                  Entry(p, FALSE, p.type = "array", Constants(p, said[e].answers[i].picked)) \in mine
            /\ ~Answered(said[e].answers[i]) => mine = {}

TakesText(p, t) == p.other \/ (p.choices = <<>> /\ (p.type = "string" \/ (p.type = "number" /\ t \in Numerals)))
TextKept(e, i) ==
    LET p == Form(e).props[i]
    IN  TakesText(p, said[e].answers[i].typed) =>
            Entry(p, p.other, FALSE, {said[e].answers[i].typed}) \in got[e][1].content

\* A text typed in place of an option comes back, under <key>__other if there is
\* one.
TypedKept ==
    \A e \in Elicits : Accepted(e) => \A i \in Questions(Form(e)) :
        said[e].answers[i].typed # "" /\ said[e].answers[i].picked = {} => TextKept(e, i)

\* "the typed text is written back under `__other` on submit"
\* (bridge/specs/interaction.md:50), whatever was picked with it.
TypedWritten ==
    \A e \in Elicits : Accepted(e) => \A i \in Questions(Form(e)) :
        said[e].answers[i].typed # "" => TextKept(e, i)
=============================================================================
