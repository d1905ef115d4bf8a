--------------------------- MODULE LeaderElection ---------------------------
(***************************************************************************)
(* How clients find or start the one leader process of a machine           *)
(* (connect_or_spawn in leader/mod.rs), and how a leader process takes and *)
(* gives up its place (LeaderLock in leader/lock.rs, run_leader in         *)
(* agent/app.rs).  They share two paths: the lock file, on whose inode a   *)
(* flock is held, and the socket.                                          *)
(*                                                                         *)
(* A process crashes at any step: its flock is released and its files      *)
(* stay.  SIGTERM and SIGKILL end a leader the same way, since the signal  *)
(* handler exits without running Drop.  A timer may elapse at any time.    *)
(* What a connection carries is the subject of LeaderWire.                 *)
(***************************************************************************)
EXTENDS Integers, FiniteSets

CONSTANTS
    Clients,     \* calls of connect_or_spawn
    Leaders,     \* leader processes, by pid
    Old,         \* the clients and leaders of an older version than the others
    Nobody,      \* no process
    First,       \* the leader that serves at first, or Nobody
    MaxSpawns,   \* MAX_SELF_SPAWN_ATTEMPTS
    MaxEvicts,   \* MAX_ZOMBIE_EVICT_ATTEMPTS
    MaxFaults    \* bound: crashes, hangs and shutdowns nobody asked for

ASSUME ElectionAssumption ==
    /\ Old \subseteq Clients \union Leaders /\ Clients \intersect Leaders = {}
    /\ Nobody \notin Clients \union Leaders /\ First \in Leaders \union {Nobody}
    /\ IsFiniteSet(Clients \union Leaders) /\ MaxSpawns \in Nat \ {0} /\ MaxEvicts \in Nat
    /\ MaxFaults \in Nat

VARIABLES
    path,      \* the inode at lock_path, 0 for none
    holder,    \* who holds the flock of each inode
    filePid,   \* the pid in the file at lock_path
    sock,      \* who bound the file at sock_path, Nobody for no file
    leader,    \* run_leader of each process: [pc, fd]
    client,    \* connect_or_spawn of each client
    faults,    \* what is left of the bound
    unlinked   \* history: a lock file was unlinked

files == <<path, holder, filePid>>
vars == <<files, sock, leader, client, faults, unlinked>>

Procs == Clients \union Leaders

\* Every process has at most one open: one more is always free to be reused.
Inodes == 1..(Cardinality(Procs) + 1)

NewClient ==
    [pc |-> "fast", fd |-> 0, tries |-> 0, timer |-> Nobody, evicted |-> Nobody,
     evictions |-> 0, target |-> Nobody]

Init ==
    /\ path = (IF First = Nobody THEN 0 ELSE 1)
    /\ holder = [n \in Inodes |-> IF n = path THEN First ELSE Nobody]
    /\ filePid = First
    /\ sock = First
    /\ leader = [l \in Leaders |-> [pc |-> IF l = First THEN "up" ELSE "none", fd |-> 0]]
    /\ client = [c \in Clients |-> NewClient]
    /\ faults = MaxFaults
    /\ unlinked = FALSE

-----------------------------------------------------------------------------
(***************************************************************************)
(* LeaderLock.                                                             *)
(***************************************************************************)
Alive(l) == leader[l].pc \notin {"none", "dead"}

InUse ==
    {n \in Inodes : holder[n] # Nobody} \union {leader[l].fd : l \in Leaders}
        \union {client[c].fd : c \in Clients}

\* open_lock_file: the inode at the path, created when there is none.
Target == IF path # 0 THEN path ELSE CHOOSE n \in Inodes \ InUse : TRUE

OpenLockFile ==
    /\ path' = Target
    /\ UNCHANGED <<holder, filePid>>

Flock(p, fd) ==
    /\ holder' = [holder EXCEPT ![fd] = p]
    /\ UNCHANGED <<path, filePid>>

Unlock(p) ==
    /\ holder' = [n \in Inodes |-> IF holder[n] = p THEN Nobody ELSE holder[n]]
    /\ UNCHANGED <<path, filePid>>

-----------------------------------------------------------------------------
(***************************************************************************)
(* run_leader.                                                             *)
(***************************************************************************)
At(l, pc) == leader[l].pc = pc

Goes(l, pc) == leader' = [leader EXCEPT ![l].pc = pc]

Exits(l) == leader' = [leader EXCEPT ![l] = [pc |-> "dead", fd |-> 0]]

\* try_acquire, and every poll of acquire_reopen_timeout, opens the path anew.
LeaderOpens(l) ==
    /\ leader[l].pc \in {"start", "poll"}
    /\ OpenLockFile
    /\ leader' = [leader EXCEPT ![l] =
          [pc |-> IF At(l, "start") THEN "try" ELSE "retry", fd |-> Target]]
    /\ UNCHANGED <<sock, client, faults, unlinked>>

\* Defect: a lock that another process holds counts as acquired.
LeaderLocks_Shared(l) ==
    /\ leader[l].pc \in {"try", "retry"}
    /\ Flock(l, leader[l].fd)
    /\ Goes(l, "held")
    /\ UNCHANGED <<sock, client, faults, unlinked>>

LeaderLocks(l) ==
    /\ leader[l].pc \in {"try", "retry"}
    /\ holder[leader[l].fd] = Nobody
    /\ Flock(l, leader[l].fd)
    /\ Goes(l, "held")
    /\ UNCHANGED <<sock, client, faults, unlinked>>

\* "Exiting so the client adopts it", or wait for the lock.
LeaderContended(l) ==
    /\ leader[l].pc \in {"try", "retry"}
    /\ holder[leader[l].fd] # Nobody
    /\ IF At(l, "try") /\ sock # Nobody THEN Exits(l) ELSE Goes(l, "poll")
    /\ UNCHANGED <<files, sock, client, faults, unlinked>>

\* Defect: a leader that never held the lock cleans up like one that did.
LeaderGivesUp_Cleans(l) ==
    /\ At(l, "poll")
    /\ Exits(l)
    /\ sock' = Nobody
    /\ UNCHANGED <<files, client, faults, unlinked>>

LeaderGivesUp(l) ==
    /\ At(l, "poll")
    /\ Exits(l)
    /\ UNCHANGED <<files, sock, client, faults, unlinked>>

WritePid(l) ==
    /\ At(l, "held")
    /\ filePid' = IF leader[l].fd = path THEN l ELSE filePid
    /\ leader' = [leader EXCEPT ![l] = [pc |-> "pid", fd |-> 0]]
    /\ UNCHANGED <<path, holder, sock, client, faults, unlinked>>

CleanupSocket(l) ==
    /\ At(l, "pid")
    /\ sock' = Nobody
    /\ Goes(l, "clean")
    /\ UNCHANGED <<files, client, faults, unlinked>>

\* run_leader_server removes the socket file again and binds.
Bind(l) ==
    /\ At(l, "clean")
    /\ sock' = l
    /\ Goes(l, "up")
    /\ UNCHANGED <<files, client, faults, unlinked>>

\* The server loop is cancelled by a shutdown nobody asked for, or by the
\* drain of a relaunch; it removes the socket file as it ends.
Shutdown(l) ==
    /\ faults > 0 /\ At(l, "up")
    /\ faults' = faults - 1
    /\ Goes(l, "closing")
    /\ sock' = Nobody
    /\ UNCHANGED <<files, client, unlinked>>

Drained(l) ==
    /\ At(l, "drain")
    /\ Goes(l, "closing")
    /\ sock' = Nobody
    /\ UNCHANGED <<files, client, faults, unlinked>>

\* Drop of the lock: two files are removed, then the flock goes with the fd.
DropLockFile(l) ==
    /\ At(l, "closing")
    /\ path' = 0 /\ filePid' = Nobody
    /\ unlinked' = TRUE
    /\ Goes(l, "dropping")
    /\ UNCHANGED <<holder, sock, client, faults>>

DropSocket(l) ==
    /\ At(l, "dropping")
    /\ sock' = Nobody
    /\ Goes(l, "dropped")
    /\ UNCHANGED <<files, client, faults, unlinked>>

Close(l) ==
    /\ At(l, "dropped")
    /\ Unlock(l)
    /\ Exits(l)
    /\ UNCHANGED <<sock, client, faults, unlinked>>

Crash(l) ==
    /\ faults > 0 /\ Alive(l)
    /\ faults' = faults - 1
    /\ Unlock(l)
    /\ Exits(l)
    /\ UNCHANGED <<sock, client, unlinked>>

\* The process lives and holds its lock, and refuses connections or accepts
\* them and stays silent.
Hang(l) ==
    /\ faults > 0 /\ At(l, "up")
    /\ faults' = faults - 1
    /\ Goes(l, "refuses") \/ Goes(l, "silent")
    /\ UNCHANGED <<files, sock, client, unlinked>>

-----------------------------------------------------------------------------
(***************************************************************************)
(* connect_or_spawn.                                                       *)
(***************************************************************************)
Moves(c, pc) == client' = [client EXCEPT ![c].pc = pc, ![c].fd = 0, ![c].target = Nobody]

Ends(c, pc) == client' = [client EXCEPT ![c] = [NewClient EXCEPT !.pc = pc]]

Connectable == sock # Nobody /\ leader[sock].pc \in {"up", "drain"}

\* request_leader_vacate: the leader drains, unless it does so already.
RequestVacate == leader' = [leader EXCEPT ![sock].pc = "drain"]

\* should_evict: only a leader that is strictly older than the client.
Outdated(c) == Connectable /\ sock \in Old /\ c \notin Old
Adoptable(c) == Connectable /\ ~Outdated(c)

\* The fast path: a socket whose file names a dead pid is not tried.
TryConnect(c) ==
    /\ client[c].pc = "fast"
    /\ IF Adoptable(c) /\ (filePid = Nobody \/ Alive(filePid))
       THEN Ends(c, "done") ELSE Moves(c, "open")
    /\ UNCHANGED <<files, sock, leader, faults, unlinked>>

ClientOpens(c) ==
    /\ client[c].pc = "open"
    /\ OpenLockFile
    /\ client' = [client EXCEPT ![c].pc = "lock", ![c].fd = Target]
    /\ UNCHANGED <<sock, leader, faults, unlinked>>

ClientLocks(c) ==
    /\ client[c].pc = "lock" /\ holder[client[c].fd] = Nobody
    /\ Flock(c, client[c].fd)
    /\ Moves(c, "held")
    /\ UNCHANGED <<sock, leader, faults, unlinked>>

ClientContended(c) ==
    /\ client[c].pc = "lock" /\ holder[client[c].fd] # Nobody
    /\ Moves(c, "wait")
    /\ UNCHANGED <<files, sock, leader, faults, unlinked>>

LeaderSeen == filePid # Nobody /\ Alive(filePid)

\* With the lock: adopt a leader a sibling has spawned, ...
AdoptSibling(c) ==
    /\ client[c].pc = "held" /\ LeaderSeen /\ Adoptable(c)
    /\ Unlock(c)
    /\ Ends(c, "done")
    /\ UNCHANGED <<sock, leader, faults, unlinked>>

\* ... evict one that is too old (evict_leader), ...
Evict(c) ==
    /\ client[c].pc = "held" /\ LeaderSeen /\ Outdated(c)
    /\ client' = [client EXCEPT ![c].pc = "replace", ![c].target = filePid]
    /\ RequestVacate
    /\ UNCHANGED <<files, sock, faults, unlinked>>

\* A signalled process is gone, goes, or is found alive after the grace.
Signalled(l) ==
    \/ UNCHANGED <<files, leader>>
    \/ Alive(l) /\ Unlock(l) /\ Exits(l)

\* ... wait for it to exit, or send SIGTERM after the grace, ...
Evicted(c) ==
    /\ client[c].pc = "replace"
    /\ Moves(c, "release")
    /\ Signalled(client[c].target)
    /\ UNCHANGED <<sock, faults, unlinked>>

\* ... or go on to spawn one.
NoLeader(c) ==
    /\ client[c].pc = "held" /\ ~(LeaderSeen /\ Connectable)
    /\ Moves(c, "release")
    /\ UNCHANGED <<files, sock, leader, faults, unlinked>>

\* "Acquired lock, spawning leader subprocess": the lock is free in between.
Release(c) ==
    /\ client[c].pc = "release"
    /\ Unlock(c)
    /\ Moves(c, "spawn")
    /\ UNCHANGED <<sock, leader, faults, unlinked>>

\* A client runs its own binary; starting the process may fail.
Fresh(c) == {l \in Leaders : At(l, "none") /\ (l \in Old <=> c \in Old)}

Spawn(c) ==
    /\ client[c].pc = "spawn"
    /\ \/ Fresh(c) # {} /\ Goes(CHOOSE l \in Fresh(c) : TRUE, "start") /\ Moves(c, "spawned")
       \/ Ends(c, "failed") /\ UNCHANGED leader
    /\ UNCHANGED <<files, sock, faults, unlinked>>

SpawnedConnects(c) ==
    /\ client[c].pc = "spawned" /\ Connectable
    /\ Ends(c, "done")
    /\ UNCHANGED <<files, sock, leader, faults, unlinked>>

\* SPAWN_WAIT_TIMEOUT: a socket that did not connect, now or earlier in the
\* wait, is an error; none at all counts as an attempt.
SpawnedTimeout(c) ==
    /\ client[c].pc = "spawned" /\ ~Connectable
    /\ LET n == client[c].tries + 1
       IN  \/ Ends(c, "failed")
           \/ /\ sock = Nobody /\ n < MaxSpawns
              /\ client' = [client EXCEPT ![c].tries = n, ![c].pc = "open"]
    /\ UNCHANGED <<files, sock, leader, faults, unlinked>>

\* Another process holds the lock: wait_for_socket_connectable ...
WaitConnects(c) ==
    /\ client[c].pc = "wait" /\ Adoptable(c)
    /\ Ends(c, "done")
    /\ UNCHANGED <<files, sock, leader, faults, unlinked>>

\* ... request_leader_vacate ...
Vacate(c) ==
    /\ client[c].pc = "wait" /\ Outdated(c)
    /\ client' = [client EXCEPT ![c].pc = "open", ![c].timer = Nobody]
    /\ RequestVacate
    /\ UNCHANGED <<files, sock, faults, unlinked>>

\* ... is_connect_level_failure: an error of a socket that answered ends it ...
Silent == sock # Nobody /\ leader[sock].pc = "silent"

WaitFails(c) ==
    /\ client[c].pc = "wait" /\ Silent
    /\ Ends(c, "failed")
    /\ UNCHANGED <<files, sock, leader, faults, unlinked>>

\* Defect: the holder is never confirmed.
Zombie_Unconfirmed == Nobody

\* evictable_holder: the pid in the file, if it is alive and holds the flock.
Zombie ==
    IF LeaderSeen /\ holder[path] = filePid THEN filePid ELSE Nobody

\* ... or zombie_evict_decision: a holder that is seen for the first time arms
\* the timer.  A sighting before ZOMBIE_EVICT_DEADLINE changes nothing.
WaitTimeout(c) ==
    /\ client[c].pc = "wait" /\ ~Connectable /\ ~Silent
    /\ Zombie = Nobody \/ Zombie # client[c].timer
    /\ client' = [client EXCEPT ![c].pc = "open", ![c].timer = Zombie]
    /\ UNCHANGED <<files, sock, leader, faults, unlinked>>

\* register_evict_attempt, for a holder that is still not connectable.
Condemn(c) ==
    LET n == IF client[c].evicted = Zombie THEN client[c].evictions + 1 ELSE 1
    IN  /\ client[c].pc = "wait" /\ ~Connectable /\ ~Silent
        /\ Zombie # Nobody /\ Zombie = client[c].timer
        /\ IF n > MaxEvicts
           THEN Ends(c, "failed")
           ELSE client' = [client EXCEPT ![c].pc = "kill", ![c].timer = Nobody,
                   ![c].target = Zombie, ![c].evicted = Zombie, ![c].evictions = n]
        /\ UNCHANGED <<files, sock, leader, faults, unlinked>>

\* evict_zombie_leader: SIGTERM, then SIGKILL.
KillZombie(c) ==
    /\ client[c].pc = "kill"
    /\ Moves(c, "open")
    /\ Signalled(client[c].target)
    /\ UNCHANGED <<sock, faults, unlinked>>

-----------------------------------------------------------------------------
LeaderStep(l) ==
    \/ LeaderOpens(l) \/ LeaderLocks(l) \/ LeaderContended(l) \/ LeaderGivesUp(l)
    \/ WritePid(l) \/ CleanupSocket(l) \/ Bind(l)
    \/ Drained(l) \/ DropLockFile(l) \/ DropSocket(l) \/ Close(l)

ClientStep(c) ==
    \/ TryConnect(c) \/ ClientOpens(c) \/ ClientLocks(c) \/ ClientContended(c)
    \/ AdoptSibling(c) \/ Evict(c) \/ Evicted(c) \/ NoLeader(c)
    \/ Release(c) \/ Spawn(c) \/ SpawnedConnects(c) \/ SpawnedTimeout(c)
    \/ WaitConnects(c) \/ Vacate(c) \/ WaitFails(c) \/ WaitTimeout(c) \/ Condemn(c) \/ KillZombie(c)

Next ==
    \/ \E l \in Leaders : LeaderStep(l) \/ Shutdown(l) \/ Crash(l) \/ Hang(l)
    \/ \E c \in Clients : ClientStep(c)

Spec == Init /\ [][Next]_vars

\* Processes run; they need not crash, hang or stop.
Fairness ==
    /\ \A l \in Leaders : WF_vars(LeaderStep(l))
    /\ \A c \in Clients : WF_vars(ClientStep(c))

FairSpec == Spec /\ Fairness

-----------------------------------------------------------------------------
(***************************************************************************)
(* Properties.                                                             *)
(***************************************************************************)
Serving == {l \in Leaders : leader[l].pc \in {"up", "drain"}}

\* "With flock mutual exclusion ... so no split-brain": two leaders never
\* serve at once.
NoSplitBrain == Cardinality(Serving) <= 1

\* As long as no leader has removed the lock file by shutting down, crashes,
\* hangs and kills at any step leave at most one leader serving, and it is
\* the process that holds the lock at the path and is named in it.
CrashesNeverSplit ==
    ~unlinked => \A l \in Serving : path # 0 /\ holder[path] = l /\ filePid = l

\* Nor does anyone remove the socket file of a leader that goes on serving.
SocketKept ==
    [][\A l \in Leaders :
          ~unlinked /\ sock = l /\ l \in Serving /\ l \in Serving' => sock' = l]_vars

\* A client that looks for a leader finds one or reports an error: whatever
\* crashes, hangs, shuts down or is evicted around it, it does not wait or
\* retry forever.
ClientsEnd ==
    <>(\A c \in Clients : client[c].pc \in {"done", "failed"})
=============================================================================
