-------------------------- MODULE CatalogPrefetch --------------------------
(***************************************************************************)
(* Startup catalog prefetch of the bridge (src/bridge/adapter.mjs).  With  *)
(* a cold command cache the adapter holds OMP's answer to initialize,      *)
(* opens a throwaway session, takes the slash commands from its first      *)
(* available_commands_update, closes the session, deletes its file and     *)
(* releases the answer; a timer releases it when OMP is slow.              *)
(*                                                                         *)
(* The adapter is one thread: a frame, the timer and a frame of the pager  *)
(* are tasks.  The callbacks of a promise run after the task that settled  *)
(* it, but several frames that were read in one chunk are one task.  What  *)
(* is queued for OMP is sent when a frame's handler ends (drainExt).       *)
(***************************************************************************)
EXTENDS Integers, Sequences

CONSTANT MaxInfo    \* bound: session updates other than the commands

ASSUME PrefetchConstants == MaxInfo \in Nat

VARIABLES
    commands,   \* the catalog: "empty" or "full"
    prefetch,   \* "idle", "on", or "done"
    sid,        \* the prefetch knows its session's id
    timer,      \* the timer runs
    held,       \* the answer to initialize is held
    released,   \* times it was forwarded
    hidden,     \* the session's id is in prefetchSids
    settled,    \* the answer to session/new whose callback has not run
    out,        \* outToAgent
    leaked,     \* updates of the throwaway session forwarded to the pager
    file,       \* the throwaway session's file: "none", "there", "deleted"
    requests,   \* adapter to OMP
    wire,       \* OMP to adapter
    session,    \* at OMP: "none", "open", "closed"
    advertised, \* OMP sent the commands of the session
    ninfo

prefetchVars == <<commands, prefetch, sid, timer, held, released, hidden, settled, leaked>>
ompVars == <<session, advertised, ninfo>>
catalogVars == <<prefetchVars, out, file, requests, wire, ompVars>>

-----------------------------------------------------------------------------
(* The adapter.                                                              *)

\* Defect: the id is forgotten with the session.
finishCatalogPrefetch_Forgets(known) ==
    /\ prefetch' = "done"
    /\ timer' = FALSE
    /\ released' = released + (IF held THEN 1 ELSE 0)
    /\ held' = FALSE
    /\ UNCHANGED hidden

\* finishCatalogPrefetch of a prefetch that is on; Close(known) is what it
\* queues for OMP.
finishCatalogPrefetch(known) ==
    /\ prefetch' = "done"
    /\ timer' = FALSE
    /\ hidden' = (hidden \/ known)
    /\ released' = released + (IF held THEN 1 ELSE 0)
    /\ held' = FALSE

Close(known) == IF known THEN <<"close">> ELSE <<>>

\* drainExt: what is queued goes to OMP.
drainExt(queue) ==
    /\ requests' = requests \o queue
    /\ out' = <<>>

\* Defect: no timer is started.
startCatalogPrefetch_NoTimer ==
    /\ held' = TRUE
    /\ prefetch' = "on"
    /\ UNCHANGED timer

startCatalogPrefetch ==
    /\ held' = TRUE
    /\ prefetch' = "on"
    /\ timer' = TRUE

\* The answer to initialize: held while the catalog is fetched.
InitializeAnswer ==
    /\ \/ /\ commands = "empty" /\ prefetch = "idle"
          /\ startCatalogPrefetch
          /\ drainExt(Append(out, "new"))
          /\ UNCHANGED released
       \/ /\ ~(commands = "empty" /\ prefetch = "idle")
          /\ released' = released + 1
          /\ drainExt(out)
          /\ UNCHANGED <<held, prefetch, timer>>
    /\ UNCHANGED <<commands, sid, hidden, settled, leaked, file>>

\* The answer to session/new settles its promise.
NewAnswer(f) ==
    /\ settled' = f
    /\ drainExt(out)
    /\ UNCHANGED <<commands, prefetch, sid, timer, held, released, hidden, leaked, file>>

\* The answer to session/close, good or bad: the file is deleted.
CloseAnswer ==
    /\ file' = "deleted"
    /\ drainExt(out)
    /\ UNCHANGED prefetchVars

\* consumePrefetchUpdate: a session/update of the throwaway session is
\* absorbed when its id is known from a prefetch that ended, ...
Absorbed ==
    /\ hidden
    /\ drainExt(out)
    /\ UNCHANGED <<prefetchVars, file>>

\* ... or the prefetch is on, which it ends if it brings the commands ...
Harvested(f) ==
    /\ ~hidden /\ prefetch = "on"
    /\ sid' = TRUE
    /\ \/ /\ f = "info"
          /\ drainExt(out)
          /\ UNCHANGED <<commands, prefetch, timer, held, released, hidden>>
       \/ /\ f \in {"full", "empty"}
          /\ commands' = f
          /\ finishCatalogPrefetch(TRUE)
          /\ drainExt(out \o Close(TRUE))
    /\ UNCHANGED <<settled, leaked, file>>

\* ... and else goes the way of every update, to the pager.
Forwarded(f) ==
    /\ ~hidden /\ prefetch # "on"
    /\ leaked' = TRUE
    /\ commands' = IF f = "info" THEN commands ELSE f
    /\ drainExt(out)
    /\ UNCHANGED <<prefetch, sid, timer, held, released, hidden, settled, file>>

\* The next frame of OMP.
HandleFrame ==
    /\ wire # <<>>
    /\ wire' = Tail(wire)
    /\ LET f == Head(wire)
       IN  \/ f = "initialize" /\ InitializeAnswer
           \/ f \in {"opened", "refused"} /\ NewAnswer(f)
           \/ f = "closed" /\ CloseAnswer
           \/ f \in {"info", "full", "empty"} /\ (Absorbed \/ Harvested(f) \/ Forwarded(f))
    /\ UNCHANGED ompVars

\* Defect: a session that opens too late is left alone.
Opened_Lingers ==
    /\ sid' = TRUE
    /\ UNCHANGED <<prefetch, timer, hidden, released, held, out>>

\* The callback of session/new: it gives the id to the prefetch, or closes the
\* session if the prefetch is over.
Opened ==
    \/ /\ prefetch = "done"
       /\ out' = out \o Close(TRUE)
       /\ UNCHANGED <<prefetch, sid, timer, hidden, released, held>>
    \/ /\ prefetch = "on"
       /\ sid' = TRUE
       /\ \/ /\ commands = "full"
             /\ finishCatalogPrefetch(TRUE)
             /\ out' = out \o Close(TRUE)
          \/ /\ commands = "empty"
             /\ UNCHANGED <<prefetch, timer, hidden, released, held, out>>

Refused ==
    /\ UNCHANGED sid
    /\ \/ /\ prefetch = "on"
          /\ finishCatalogPrefetch(sid)
          /\ out' = out \o Close(sid)
       \/ /\ prefetch = "done"
          /\ UNCHANGED <<prefetch, timer, hidden, released, held, out>>

RunCallback ==
    /\ settled # "none"
    /\ settled' = "none"
    /\ \/ settled = "opened" /\ Opened
       \/ settled = "refused" /\ Refused
    /\ UNCHANGED <<commands, leaked, file, requests, wire, ompVars>>

\* The timer: nothing drains what it queues.
Timeout ==
    /\ timer /\ prefetch = "on" /\ settled = "none"
    /\ finishCatalogPrefetch(sid)
    /\ out' = out \o Close(sid)
    /\ UNCHANGED <<commands, sid, settled, leaked, file, requests, wire, ompVars>>

\* A frame of the pager, which waits for the answer to initialize.
PagerFrame ==
    /\ released > 0 /\ settled = "none"
    /\ drainExt(out)
    /\ UNCHANGED <<prefetchVars, file, wire, ompVars>>

-----------------------------------------------------------------------------
(* OMP.                                                                      *)

OmpOpens ==
    /\ requests # <<>> /\ Head(requests) = "new"
    /\ requests' = Tail(requests)
    /\ \/ /\ session' = "open" /\ file' = "there"
          /\ wire' = Append(wire, "opened")
       \/ /\ wire' = Append(wire, "refused")
          /\ UNCHANGED <<session, file>>
    /\ UNCHANGED <<prefetchVars, out, advertised, ninfo>>

\* The first session/close closes; a second one is refused.
OmpCloses ==
    /\ requests # <<>> /\ Head(requests) = "close"
    /\ requests' = Tail(requests)
    /\ session' = "closed"
    /\ wire' = Append(wire, "closed")
    /\ UNCHANGED <<prefetchVars, out, file, advertised, ninfo>>

\* The commands of a session follow its answer.
OmpAdvertises(f) ==
    /\ session = "open" /\ ~advertised
    /\ advertised' = TRUE
    /\ wire' = Append(wire, f)
    /\ UNCHANGED <<prefetchVars, out, file, requests, session, ninfo>>

OmpInforms ==
    /\ session # "none"
    /\ ninfo < MaxInfo
    /\ ninfo' = ninfo + 1
    /\ wire' = Append(wire, "info")
    /\ UNCHANGED <<prefetchVars, out, file, requests, session, advertised>>

-----------------------------------------------------------------------------
PrefetchInit ==
    /\ commands \in {"empty", "full"}
    /\ prefetch = "idle" /\ sid = FALSE /\ timer = FALSE
    /\ held = FALSE /\ released = 0
    /\ hidden = FALSE /\ settled = "none" /\ leaked = FALSE
    /\ out = <<>> /\ file = "none"
    /\ requests = <<>> /\ wire = <<"initialize">>
    /\ session = "none" /\ advertised = FALSE /\ ninfo = 0

PrefetchNext ==
    \/ HandleFrame
    \/ RunCallback
    \/ Timeout
    \/ PagerFrame
    \/ OmpOpens
    \/ OmpCloses
    \/ \E f \in {"full", "empty"} : OmpAdvertises(f)
    \/ OmpInforms

PrefetchSpec == PrefetchInit /\ [][PrefetchNext]_catalogVars

\* The adapter runs its tasks and the pager goes on once it is initialized; OMP
\* may never answer session/new, but closes a session it opened.
FairPrefetch ==
    /\ PrefetchSpec
    /\ WF_catalogVars(HandleFrame) /\ WF_catalogVars(RunCallback) /\ WF_catalogVars(Timeout)
    /\ WF_catalogVars(PagerFrame) /\ WF_catalogVars(OmpCloses)
    /\ WF_catalogVars(\E f \in {"full", "empty"} : OmpAdvertises(f))

-----------------------------------------------------------------------------
(* Properties.                                                               *)

\* While the answer to initialize is held something is left that releases it,
\* and it is released at most once: the prefetch is on and its timer runs.
HeldIsWatched ==
    /\ held => prefetch = "on" /\ timer /\ released = 0
    /\ released \in 0 .. 1

\* The pager's initialize is answered even if OMP never answers session/new.
Initialized == <>(released = 1)

\* "still close the orphan so it can't linger" (adapter.mjs:3908): however
\* timer, callback and commands interleave, a throwaway session that was opened
\* is closed and its file deleted.
OrphanGone == (session = "open") ~> (session = "closed" /\ file = "deleted")

\* "Trailing updates from an already-closed prefetch session stay absorbed"
\* (adapter.mjs:3931): nothing of a session whose id the prefetch learned comes
\* to the pager.
LearnedStaysHidden == leaked => ~sid

\* "never forward prefetch traffic to the pager" (adapter.mjs:3925).
PrefetchHidden == ~leaked

\* "End the prefetch exactly once: close the throwaway session"
\* (adapter.mjs:3950): OMP is not asked to close what it closed.
ClosedOnce == session = "closed" => \A i \in 1 .. Len(requests) : requests[i] # "close"
=============================================================================
