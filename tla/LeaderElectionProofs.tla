------------------------ MODULE LeaderElectionProofs ------------------------
(***************************************************************************)
(* Proofs about LeaderElection, for every set of clients and leaders: as   *)
(* long as no leader has unlinked the lock file, crashes, hangs and kills  *)
(* at any step never leave two leaders, and nobody removes the socket file *)
(* of a leader that serves.                                                *)
(***************************************************************************)
EXTENDS LeaderElection, FiniteSetTheorems, TLAPS

-----------------------------------------------------------------------------
(***************************************************************************)
(* The strengthening that makes CrashesNeverSplit inductive.               *)
(***************************************************************************)
Named == {"pid", "clean", "up", "drain", "refuses", "silent", "closing"}
Locked == {"held"} \union Named
LeaderPc == {"none", "start", "poll", "try", "retry", "dropping", "dropped", "dead"} \union Locked
ClientPc == {"fast", "open", "lock", "held", "wait", "replace", "release", "spawn",
             "spawned", "kill", "done", "failed"}

MaybeLeader == Leaders \union {Nobody}
MaybeInode == Inodes \union {0}

LeaderState == [pc : LeaderPc, fd : MaybeInode]
ClientState == [pc : ClientPc, fd : MaybeInode, tries : Nat, timer : MaybeLeader,
                evicted : MaybeLeader, evictions : Nat, target : MaybeLeader]

\* Files, locks and processes are what their comments say.
TypeOK ==
    /\ path \in MaybeInode
    /\ holder \in [Inodes -> Procs \union {Nobody}]
    /\ filePid \in MaybeLeader /\ sock \in MaybeLeader
    /\ leader \in [Leaders -> LeaderState]
    /\ client \in [Clients -> ClientState]
    /\ faults \in Nat /\ unlinked \in BOOLEAN

\* A process has one inode at most, locked or open: only a process that is
\* between acquiring and closing has a lock, and on the inode it opened.
OneInode ==
    /\ \A n \in Inodes : \A l \in Leaders : holder[n] = l =>
          /\ leader[l].pc \in Locked \union {"dropping", "dropped"}
          /\ leader[l].fd \in {0, n}
          /\ \A m \in Inodes : holder[m] = l => m = n
    /\ \A l \in Leaders :
          /\ leader[l].pc \in {"try", "retry", "held"} => leader[l].fd # 0
          /\ leader[l].pc = "held" => holder[leader[l].fd] = l
    /\ \A n \in Inodes : \A c \in Clients : holder[n] = c =>
          /\ client[c].pc \in {"held", "replace", "release"}
          /\ \A m \in Inodes : holder[m] = c => m = n
    /\ \A c \in Clients :
          /\ client[c].fd # 0 <=> client[c].pc = "lock"
          /\ client[c].pc \in {"replace", "kill"} => client[c].target \in Leaders

\* As long as nothing was unlinked there is one inode, and the leader that
\* passed try_acquire holds it.
OneLockFile ==
    ~unlinked =>
        /\ \A n \in Inodes : holder[n] # Nobody => n = path
        /\ \A l \in Leaders : leader[l].fd # 0 => leader[l].fd = path
        /\ \A c \in Clients : client[c].fd # 0 => client[c].fd = path
        /\ \A l \in Leaders :
              /\ leader[l].pc \notin {"dropping", "dropped"}
              /\ leader[l].pc \in Locked => path # 0 /\ holder[path] = l
              /\ leader[l].pc \in Named => filePid = l

IInv == TypeOK /\ OneInode /\ OneLockFile

-----------------------------------------------------------------------------
(***************************************************************************)
(* Inodes.                                                                 *)
(***************************************************************************)
\* 0 is not an inode, Nobody is not a process.
LEMMA Constants ==
    /\ Inodes \subseteq Nat \ {0} /\ 1 \in Inodes /\ 0 \notin Inodes
    /\ IsFiniteSet(Inodes) /\ IsFiniteSet(Procs)
    /\ Cardinality(Procs) < Cardinality(Inodes)
    /\ Nobody \notin Procs /\ Nobody \notin Leaders /\ Nobody \notin Clients
    /\ \A c \in Clients : c \notin Leaders
<1>1. IsFiniteSet(Procs) /\ Cardinality(Procs) \in Nat
    BY ElectionAssumption, FS_CardinalityType DEF Procs
<1>2. /\ IsFiniteSet(1..(Cardinality(Procs) + 1))
      /\ Cardinality(1..(Cardinality(Procs) + 1)) = Cardinality(Procs) + 1
    BY <1>1, FS_Interval
<1> QED BY <1>1, <1>2, ElectionAssumption DEF Inodes, Procs

\* There are more inodes than processes.
LEMMA TwoInodes ==
    ASSUME NEW f \in [Inodes -> Procs]
    PROVE  \E x, y \in Inodes : x # y /\ f[x] = f[y]
<1>1. IsFiniteSet(Inodes) /\ IsFiniteSet(Procs) /\ Cardinality(Procs) < Cardinality(Inodes)
    BY Constants
<1> QED BY <1>1, FS_PigeonHole, Zenon

\* open_lock_file finds an inode: when the path names none, one is free that
\* no process has locked or open, since each has one at most.
LEMMA FreeInode ==
    ASSUME TypeOK, OneInode
    PROVE  /\ Target \in Inodes
           /\ path # 0 => Target = path
           /\ path = 0 => Target \notin InUse
<1>1. CASE path # 0
    BY <1>1 DEF Target, TypeOK, MaybeInode
<1>2. CASE path = 0
    <2>1. Inodes \ InUse # {}
        <3> SUFFICES ASSUME Inodes \subseteq InUse PROVE FALSE
            OBVIOUS
        <3> DEFINE Uses(p, n) ==
                     \/ holder[n] = p
                     \/ p \in Leaders /\ leader[p].fd = n
                     \/ p \in Clients /\ client[p].fd = n
                   f == [n \in Inodes |-> CHOOSE p \in Procs : Uses(p, n)]
        <3>1. \A n \in Inodes : \E p \in Procs : Uses(p, n)
            BY DEF InUse, TypeOK, Procs
        <3>2. f \in [Inodes -> Procs] /\ \A n \in Inodes : Uses(f[n], n)
            BY <3>1
        <3>3. PICK x, y \in Inodes : x # y /\ f[x] = f[y]
            BY <3>2, TwoInodes
        <3>4. PICK p \in Procs : Uses(p, x) /\ Uses(p, y)
            BY <3>2, <3>3
        <3>5. CASE p \in Leaders
            BY <3>3, <3>4, <3>5, Constants DEF OneInode
        <3>6. CASE p \in Clients
            BY <3>3, <3>4, <3>6, Constants DEF OneInode
        <3> QED BY <3>5, <3>6 DEF Procs
    <2>2. Target = CHOOSE n \in Inodes \ InUse : TRUE
        BY <1>2 DEF Target
    <2> QED BY <1>2, <2>1, <2>2
<1> QED BY <1>1, <1>2

-----------------------------------------------------------------------------
(***************************************************************************)
(* Every step keeps the invariant.                                         *)
(***************************************************************************)
\* What the updates of a client leave it in.
LEMMA ClientReplaced ==
    ASSUME client \in [Clients -> ClientState], NEW c \in Clients, NEW r \in ClientState,
           client' = [client EXCEPT ![c] = r]
    PROVE  client' \in [Clients -> ClientState]
    OBVIOUS

LEMMA ClientMoves ==
    ASSUME client \in [Clients -> ClientState], NEW c \in Clients, NEW pc \in ClientPc,
           Moves(c, pc)
    PROVE  client' \in [Clients -> ClientState]
<1> DEFINE r == [client[c] EXCEPT !.pc = pc, !.fd = 0, !.target = Nobody]
<1>1. r \in ClientState
    BY DEF ClientState, MaybeLeader, MaybeInode
<1>2. client' = [client EXCEPT ![c] = r]
    BY DEF Moves
<1> QED BY <1>1, <1>2, ClientReplaced

LEMMA ClientEnds ==
    ASSUME client \in [Clients -> ClientState], NEW c \in Clients, NEW pc \in ClientPc,
           Ends(c, pc)
    PROVE  client' \in [Clients -> ClientState]
<1>1. [NewClient EXCEPT !.pc = pc] \in ClientState
    BY DEF ClientState, NewClient, MaybeLeader, MaybeInode
<1>2. client' = [client EXCEPT ![c] = [NewClient EXCEPT !.pc = pc]]
    BY DEF Ends
<1> QED BY <1>1, <1>2, ClientReplaced

LEMMA KeepsLeaderOpens ==
    ASSUME IInv, NEW l \in Leaders, LeaderOpens(l)
    PROVE  IInv'
<1> USE Constants DEF IInv
<1> USE FreeInode
<1>1. TypeOK'
    BY DEF LeaderOpens, OpenLockFile, At, TypeOK, LeaderState, ClientState, MaybeInode,
       MaybeLeader, LeaderPc, ClientPc, Locked, Named, Procs
<1>2. OneInode'
    BY DEF LeaderOpens, OpenLockFile, At, OneInode, TypeOK, LeaderState, ClientState,
       MaybeInode, MaybeLeader, LeaderPc, ClientPc, Locked, Named, Procs
<1>3. OneLockFile'
    BY DEF LeaderOpens, OpenLockFile, At, OneInode, OneLockFile, TypeOK, LeaderState,
       ClientState, MaybeInode, MaybeLeader, LeaderPc, ClientPc, Locked, Named, Procs
<1> QED BY <1>1, <1>2, <1>3

LEMMA KeepsLeaderLocks ==
    ASSUME IInv, NEW l \in Leaders, LeaderLocks(l)
    PROVE  IInv'
<1> USE Constants DEF IInv
<1>1. TypeOK'
    BY DEF LeaderLocks, Flock, Goes, OneInode, TypeOK, LeaderState, ClientState, MaybeInode,
       MaybeLeader, LeaderPc, ClientPc, Locked, Named, Procs
<1>2. OneInode'
    BY DEF LeaderLocks, Flock, Goes, OneInode, TypeOK, LeaderState, ClientState, MaybeInode,
       MaybeLeader, LeaderPc, ClientPc, Locked, Named, Procs
<1>3. OneLockFile'
    BY DEF LeaderLocks, Flock, Goes, OneInode, OneLockFile, TypeOK, LeaderState,
       ClientState, MaybeInode, MaybeLeader, LeaderPc, ClientPc, Locked, Named, Procs
<1> QED BY <1>1, <1>2, <1>3

LEMMA KeepsLeaderContended ==
    ASSUME IInv, NEW l \in Leaders, LeaderContended(l)
    PROVE  IInv'
<1> USE Constants DEF IInv
<1>1. TypeOK'
    BY DEF LeaderContended, files, Goes, Exits, At, TypeOK, LeaderState, ClientState,
       MaybeInode, MaybeLeader, LeaderPc, ClientPc, Locked, Named, Procs
<1>2. OneInode'
    BY DEF LeaderContended, files, Goes, Exits, At, OneInode, TypeOK, LeaderState,
       ClientState, MaybeInode, MaybeLeader, LeaderPc, ClientPc, Locked, Named, Procs
<1>3. OneLockFile'
    <2>1. CASE Exits(l)
        BY <2>1 DEF LeaderContended, files, Exits, OneInode, OneLockFile, TypeOK,
           LeaderState, ClientState, MaybeInode, MaybeLeader, LeaderPc, ClientPc,
           Locked, Named, Procs
    <2>2. CASE Goes(l, "poll")
        BY <2>2 DEF LeaderContended, files, Goes, OneInode, OneLockFile, TypeOK,
           LeaderState, ClientState, MaybeInode, MaybeLeader, LeaderPc, ClientPc,
           Locked, Named, Procs
    <2> QED BY <2>1, <2>2 DEF LeaderContended
<1> QED BY <1>1, <1>2, <1>3

LEMMA KeepsLeaderGivesUp ==
    ASSUME IInv, NEW l \in Leaders, LeaderGivesUp(l)
    PROVE  IInv'
<1> USE Constants DEF IInv
<1>1. TypeOK'
    BY DEF LeaderGivesUp, files, Exits, At, TypeOK, LeaderState, ClientState, MaybeInode,
       MaybeLeader, LeaderPc, ClientPc, Locked, Named, Procs
<1>2. OneInode'
    BY DEF LeaderGivesUp, files, Exits, At, OneInode, TypeOK, LeaderState, ClientState,
       MaybeInode, MaybeLeader, LeaderPc, ClientPc, Locked, Named, Procs
<1>3. OneLockFile'
    BY DEF LeaderGivesUp, files, Exits, At, OneInode, OneLockFile, TypeOK, LeaderState,
       ClientState, MaybeInode, MaybeLeader, LeaderPc, ClientPc, Locked, Named, Procs
<1> QED BY <1>1, <1>2, <1>3

LEMMA KeepsWritePid ==
    ASSUME IInv, NEW l \in Leaders, WritePid(l)
    PROVE  IInv'
<1> USE Constants DEF IInv
<1>1. TypeOK'
    BY DEF WritePid, At, TypeOK, LeaderState, ClientState, MaybeInode, MaybeLeader,
       LeaderPc, ClientPc, Locked, Named, Procs
<1>2. OneInode'
    BY DEF WritePid, At, OneInode, TypeOK, LeaderState, ClientState, MaybeInode,
       MaybeLeader, LeaderPc, ClientPc, Locked, Named, Procs
<1>3. OneLockFile'
    BY DEF WritePid, At, OneInode, OneLockFile, TypeOK, LeaderState, ClientState,
       MaybeInode, MaybeLeader, LeaderPc, ClientPc, Locked, Named, Procs
<1> QED BY <1>1, <1>2, <1>3

LEMMA KeepsCleanupSocket ==
    ASSUME IInv, NEW l \in Leaders, CleanupSocket(l)
    PROVE  IInv'
<1> USE Constants DEF IInv
<1>1. TypeOK'
    BY DEF CleanupSocket, files, At, Goes, TypeOK, LeaderState, ClientState, MaybeInode,
       MaybeLeader, LeaderPc, ClientPc, Locked, Named, Procs
<1>2. OneInode'
    BY DEF CleanupSocket, files, At, Goes, OneInode, TypeOK, LeaderState, ClientState,
       MaybeInode, MaybeLeader, LeaderPc, ClientPc, Locked, Named, Procs
<1>3. OneLockFile'
    BY DEF CleanupSocket, files, At, Goes, OneInode, OneLockFile, TypeOK, LeaderState,
       ClientState, MaybeInode, MaybeLeader, LeaderPc, ClientPc, Locked, Named, Procs
<1> QED BY <1>1, <1>2, <1>3

LEMMA KeepsBind ==
    ASSUME IInv, NEW l \in Leaders, Bind(l)
    PROVE  IInv'
<1> USE Constants DEF IInv
<1>1. TypeOK'
    BY DEF Bind, files, At, Goes, TypeOK, LeaderState, ClientState, MaybeInode, MaybeLeader,
       LeaderPc, ClientPc, Locked, Named, Procs
<1>2. OneInode'
    BY DEF Bind, files, At, Goes, OneInode, TypeOK, LeaderState, ClientState, MaybeInode,
       MaybeLeader, LeaderPc, ClientPc, Locked, Named, Procs
<1>3. OneLockFile'
    BY DEF Bind, files, At, Goes, OneInode, OneLockFile, TypeOK, LeaderState, ClientState,
       MaybeInode, MaybeLeader, LeaderPc, ClientPc, Locked, Named, Procs
<1> QED BY <1>1, <1>2, <1>3

LEMMA KeepsShutdown ==
    ASSUME IInv, NEW l \in Leaders, Shutdown(l)
    PROVE  IInv'
<1> USE Constants DEF IInv
<1>1. TypeOK'
    BY DEF Shutdown, files, At, Goes, TypeOK, LeaderState, ClientState, MaybeInode,
       MaybeLeader, LeaderPc, ClientPc, Locked, Named, Procs
<1>2. OneInode'
    BY DEF Shutdown, files, At, Goes, OneInode, TypeOK, LeaderState, ClientState,
       MaybeInode, MaybeLeader, LeaderPc, ClientPc, Locked, Named, Procs
<1>3. OneLockFile'
    BY DEF Shutdown, files, At, Goes, OneInode, OneLockFile, TypeOK, LeaderState,
       ClientState, MaybeInode, MaybeLeader, LeaderPc, ClientPc, Locked, Named, Procs
<1> QED BY <1>1, <1>2, <1>3

LEMMA KeepsDrained ==
    ASSUME IInv, NEW l \in Leaders, Drained(l)
    PROVE  IInv'
<1> USE Constants DEF IInv
<1>1. TypeOK'
    BY DEF Drained, files, At, Goes, TypeOK, LeaderState, ClientState, MaybeInode,
       MaybeLeader, LeaderPc, ClientPc, Locked, Named, Procs
<1>2. OneInode'
    BY DEF Drained, files, At, Goes, OneInode, TypeOK, LeaderState, ClientState, MaybeInode,
       MaybeLeader, LeaderPc, ClientPc, Locked, Named, Procs
<1>3. OneLockFile'
    BY DEF Drained, files, At, Goes, OneInode, OneLockFile, TypeOK, LeaderState,
       ClientState, MaybeInode, MaybeLeader, LeaderPc, ClientPc, Locked, Named, Procs
<1> QED BY <1>1, <1>2, <1>3

LEMMA KeepsDropLockFile ==
    ASSUME IInv, NEW l \in Leaders, DropLockFile(l)
    PROVE  IInv'
<1> USE Constants DEF IInv
<1>1. TypeOK'
    BY DEF DropLockFile, At, Goes, TypeOK, LeaderState, ClientState, MaybeInode,
       MaybeLeader, LeaderPc, ClientPc, Locked, Named, Procs
<1>2. OneInode'
    BY DEF DropLockFile, At, Goes, OneInode, TypeOK, LeaderState, ClientState, MaybeInode,
       MaybeLeader, LeaderPc, ClientPc, Locked, Named, Procs
<1>3. OneLockFile'
    BY DEF DropLockFile, At, Goes, OneInode, OneLockFile, TypeOK, LeaderState, ClientState,
       MaybeInode, MaybeLeader, LeaderPc, ClientPc, Locked, Named, Procs
<1> QED BY <1>1, <1>2, <1>3

LEMMA KeepsDropSocket ==
    ASSUME IInv, NEW l \in Leaders, DropSocket(l)
    PROVE  IInv'
<1> USE Constants DEF IInv
<1>1. TypeOK'
    BY DEF DropSocket, files, At, Goes, TypeOK, LeaderState, ClientState, MaybeInode,
       MaybeLeader, LeaderPc, ClientPc, Locked, Named, Procs
<1>2. OneInode'
    BY DEF DropSocket, files, At, Goes, OneInode, TypeOK, LeaderState, ClientState,
       MaybeInode, MaybeLeader, LeaderPc, ClientPc, Locked, Named, Procs
<1>3. OneLockFile'
    BY DEF DropSocket, files, At, Goes, OneInode, OneLockFile, TypeOK, LeaderState,
       ClientState, MaybeInode, MaybeLeader, LeaderPc, ClientPc, Locked, Named, Procs
<1> QED BY <1>1, <1>2, <1>3

LEMMA KeepsClose ==
    ASSUME IInv, NEW l \in Leaders, Close(l)
    PROVE  IInv'
<1> USE Constants DEF IInv
<1>1. TypeOK'
    BY DEF Close, At, Unlock, Exits, TypeOK, LeaderState, ClientState, MaybeInode,
       MaybeLeader, LeaderPc, ClientPc, Locked, Named, Procs
<1>2. OneInode'
    BY DEF Close, At, Unlock, Exits, OneInode, TypeOK, LeaderState, ClientState, MaybeInode,
       MaybeLeader, LeaderPc, ClientPc, Locked, Named, Procs
<1>3. OneLockFile'
    BY DEF Close, At, Unlock, Exits, OneInode, OneLockFile, TypeOK, LeaderState,
       ClientState, MaybeInode, MaybeLeader, LeaderPc, ClientPc, Locked, Named, Procs
<1> QED BY <1>1, <1>2, <1>3

LEMMA KeepsCrash ==
    ASSUME IInv, NEW l \in Leaders, Crash(l)
    PROVE  IInv'
<1> USE Constants DEF IInv
<1>1. TypeOK'
    BY DEF Crash, Alive, Unlock, Exits, TypeOK, LeaderState, ClientState, MaybeInode,
       MaybeLeader, LeaderPc, ClientPc, Locked, Named, Procs
<1>2. OneInode'
    BY DEF Crash, Alive, Unlock, Exits, OneInode, TypeOK, LeaderState, ClientState,
       MaybeInode, MaybeLeader, LeaderPc, ClientPc, Locked, Named, Procs
<1>3. OneLockFile'
    BY DEF Crash, Alive, Unlock, Exits, OneInode, OneLockFile, TypeOK, LeaderState,
       ClientState, MaybeInode, MaybeLeader, LeaderPc, ClientPc, Locked, Named, Procs
<1> QED BY <1>1, <1>2, <1>3

LEMMA KeepsHang ==
    ASSUME IInv, NEW l \in Leaders, Hang(l)
    PROVE  IInv'
<1> USE Constants DEF IInv
<1>1. TypeOK'
    BY DEF Hang, files, At, Goes, TypeOK, LeaderState, ClientState, MaybeInode, MaybeLeader,
       LeaderPc, ClientPc, Locked, Named, Procs
<1>2. OneInode'
    <2>1. CASE Goes(l, "refuses")
        BY <2>1 DEF Hang, files, At, Goes, OneInode, TypeOK, LeaderState, ClientState,
           MaybeInode, MaybeLeader, LeaderPc, ClientPc, Locked, Named, Procs
    <2>2. CASE Goes(l, "silent")
        BY <2>2 DEF Hang, files, At, Goes, OneInode, TypeOK, LeaderState, ClientState,
           MaybeInode, MaybeLeader, LeaderPc, ClientPc, Locked, Named, Procs
    <2> QED BY <2>1, <2>2 DEF Hang
<1>3. OneLockFile'
    BY DEF Hang, files, At, Goes, OneInode, OneLockFile, TypeOK, LeaderState, ClientState,
       MaybeInode, MaybeLeader, LeaderPc, ClientPc, Locked, Named, Procs
<1> QED BY <1>1, <1>2, <1>3

\* A client that holds no lock, before or after, concerns nobody else.
LEMMA OnlyClient ==
    ASSUME IInv, NEW c \in Clients, NEW r \in ClientState,
           client' = [client EXCEPT ![c] = r],
           client[c].pc \notin {"held", "replace", "release"},
           r.fd = 0, r.pc \notin {"lock", "replace"}, r.pc = "kill" => r.target \in Leaders,
           UNCHANGED <<files, sock, leader, faults, unlinked>>
    PROVE  IInv'
<1> USE DEF IInv
<1>1. TypeOK'
    BY ClientReplaced DEF TypeOK, files
<1>2. /\ client'[c] = r
      /\ \A d \in Clients : d # c => client'[d] = client[d]
    BY DEF TypeOK
<1>3. UNCHANGED <<path, holder, filePid, leader, unlinked>>
    BY DEF files
<1>4. OneInode'
    BY <1>2, <1>3 DEF OneInode
<1>5. OneLockFile'
    BY <1>2, <1>3 DEF OneLockFile
<1> QED BY <1>1, <1>4, <1>5

LEMMA OnlyEnds ==
    ASSUME IInv, NEW c \in Clients, NEW pc \in {"done", "failed"}, Ends(c, pc),
           client[c].pc \notin {"held", "replace", "release"},
           UNCHANGED <<files, sock, leader, faults, unlinked>>
    PROVE  IInv'
<1> DEFINE r == [NewClient EXCEPT !.pc = pc]
<1>1. r \in ClientState /\ r.fd = 0 /\ r.pc = pc
    BY DEF NewClient, ClientState, ClientPc, MaybeInode, MaybeLeader
<1>2. client' = [client EXCEPT ![c] = r]
    BY DEF Ends
<1> QED BY <1>1, <1>2, OnlyClient

LEMMA OnlyMoves ==
    ASSUME IInv, NEW c \in Clients, NEW pc \in {"open", "wait"}, Moves(c, pc),
           client[c].pc \notin {"held", "replace", "release"},
           UNCHANGED <<files, sock, leader, faults, unlinked>>
    PROVE  IInv'
<1> DEFINE r == [client[c] EXCEPT !.pc = pc, !.fd = 0, !.target = Nobody]
<1>0. client[c] \in ClientState
    BY DEF IInv, TypeOK
<1>1. r \in ClientState /\ r.fd = 0 /\ r.pc = pc
    BY <1>0 DEF ClientState, ClientPc, MaybeInode, MaybeLeader
<1>2. client' = [client EXCEPT ![c] = r]
    BY DEF Moves
<1> QED BY <1>1, <1>2, OnlyClient

LEMMA KeepsTryConnect ==
    ASSUME IInv, NEW c \in Clients, TryConnect(c)
    PROVE  IInv'
<1>1. CASE Ends(c, "done")
    BY <1>1, OnlyEnds DEF TryConnect
<1>2. CASE Moves(c, "open")
    BY <1>2, OnlyMoves DEF TryConnect
<1> QED BY <1>1, <1>2 DEF TryConnect

LEMMA KeepsClientOpens ==
    ASSUME IInv, NEW c \in Clients, ClientOpens(c)
    PROVE  IInv'
<1> USE Constants DEF IInv
<1> USE FreeInode
<1>1. TypeOK'
    <2> DEFINE r == [client[c] EXCEPT !.pc = "lock", !.fd = Target]
    <2>1. r \in ClientState
        <3>1. client[c] \in ClientState /\ Target \in MaybeInode /\ "lock" \in ClientPc
            BY DEF TypeOK, ClientPc, MaybeInode
        <3> QED BY <3>1 DEF ClientState
    <2>2. client' = [client EXCEPT ![c] = r]
        BY DEF ClientOpens
    <2>3. client' \in [Clients -> ClientState]
        BY <2>1, <2>2, ClientReplaced DEF TypeOK
    <2> QED BY <2>3 DEF ClientOpens, OpenLockFile, OneInode, TypeOK, LeaderState,
       ClientState, MaybeInode, MaybeLeader, LeaderPc, ClientPc, Locked, Named, Procs
<1>2. OneInode'
    BY DEF ClientOpens, OpenLockFile, OneInode, TypeOK, LeaderState, ClientState,
       MaybeInode, MaybeLeader, LeaderPc, ClientPc, Locked, Named, Procs
<1>3. OneLockFile'
    BY DEF ClientOpens, OpenLockFile, OneInode, OneLockFile, TypeOK, LeaderState,
       ClientState, MaybeInode, MaybeLeader, LeaderPc, ClientPc, Locked, Named, Procs
<1> QED BY <1>1, <1>2, <1>3

LEMMA KeepsClientLocks ==
    ASSUME IInv, NEW c \in Clients, ClientLocks(c)
    PROVE  IInv'
<1> USE Constants DEF IInv
<1>1. TypeOK'
    <2>1. client' \in [Clients -> ClientState]
        BY ClientMoves DEF ClientLocks, TypeOK, ClientPc
    <2> QED BY <2>1 DEF ClientLocks, Flock, OneInode, TypeOK, LeaderState, ClientState,
       MaybeInode, MaybeLeader, LeaderPc, ClientPc, Locked, Named, Procs
<1>2. OneInode'
    BY DEF ClientLocks, Flock, Moves, OneInode, TypeOK, LeaderState, ClientState,
       MaybeInode, MaybeLeader, LeaderPc, ClientPc, Locked, Named, Procs
<1>3. OneLockFile'
    BY DEF ClientLocks, Flock, Moves, OneInode, OneLockFile, TypeOK, LeaderState,
       ClientState, MaybeInode, MaybeLeader, LeaderPc, ClientPc, Locked, Named, Procs
<1> QED BY <1>1, <1>2, <1>3

LEMMA KeepsClientContended ==
    ASSUME IInv, NEW c \in Clients, ClientContended(c)
    PROVE  IInv'
BY OnlyMoves DEF ClientContended

LEMMA KeepsAdoptSibling ==
    ASSUME IInv, NEW c \in Clients, AdoptSibling(c)
    PROVE  IInv'
<1> USE Constants DEF IInv
<1>1. TypeOK'
    BY DEF AdoptSibling, Unlock, Ends, NewClient, TypeOK, LeaderState, ClientState,
       MaybeInode, MaybeLeader, LeaderPc, ClientPc, Locked, Named, Procs
<1>2. OneInode'
    BY DEF AdoptSibling, Unlock, Ends, NewClient, OneInode, TypeOK, LeaderState,
       ClientState, MaybeInode, MaybeLeader, LeaderPc, ClientPc, Locked, Named, Procs
<1>3. OneLockFile'
    BY DEF AdoptSibling, Unlock, Ends, NewClient, OneInode, OneLockFile, TypeOK,
       LeaderState, ClientState, MaybeInode, MaybeLeader, LeaderPc, ClientPc, Locked, Named,
       Procs
<1> QED BY <1>1, <1>2, <1>3

LEMMA KeepsEvict ==
    ASSUME IInv, NEW c \in Clients, Evict(c)
    PROVE  IInv'
<1> USE Constants DEF IInv
<1>1. TypeOK'
    <2> DEFINE r == [client[c] EXCEPT !.pc = "replace", !.target = filePid]
    <2>1. r \in ClientState
        <3>1. client[c] \in ClientState /\ filePid \in MaybeLeader /\ "replace" \in ClientPc
            BY DEF TypeOK, ClientPc, MaybeLeader
        <3> QED BY <3>1 DEF ClientState
    <2>2. client' = [client EXCEPT ![c] = r]
        BY DEF Evict
    <2>3. client' \in [Clients -> ClientState]
        BY <2>1, <2>2, ClientReplaced DEF TypeOK
    <2> QED BY <2>3 DEF Evict, files, RequestVacate, Connectable, Outdated, LeaderSeen,
       OneInode, TypeOK, LeaderState, ClientState, MaybeInode, MaybeLeader, LeaderPc,
       ClientPc, Locked, Named, Procs
<1>2. OneInode'
    BY DEF Evict, files, RequestVacate, Connectable, Outdated, LeaderSeen, OneInode, TypeOK,
       LeaderState, ClientState, MaybeInode, MaybeLeader, LeaderPc, ClientPc, Locked, Named,
       Procs
<1>3. OneLockFile'
    BY DEF Evict, files, RequestVacate, Connectable, Outdated, LeaderSeen, OneInode,
       OneLockFile, TypeOK, LeaderState, ClientState, MaybeInode, MaybeLeader, LeaderPc,
       ClientPc, Locked, Named, Procs
<1> QED BY <1>1, <1>2, <1>3

LEMMA KeepsEvicted ==
    ASSUME IInv, NEW c \in Clients, Evicted(c)
    PROVE  IInv'
<1> USE Constants DEF IInv
<1>1. TypeOK'
    <2>1. client' \in [Clients -> ClientState]
        BY ClientMoves DEF Evicted, TypeOK, ClientPc
    <2> QED BY <2>1 DEF Evicted, files, Signalled, Unlock, Exits, Alive, OneInode, TypeOK,
       LeaderState, ClientState, MaybeInode, MaybeLeader, LeaderPc, ClientPc, Locked, Named,
       Procs
<1>2. OneInode'
    BY DEF Evicted, files, Signalled, Moves, Unlock, Exits, Alive, OneInode, TypeOK,
       LeaderState, ClientState, MaybeInode, MaybeLeader, LeaderPc, ClientPc, Locked, Named,
       Procs
<1>3. OneLockFile'
    BY DEF Evicted, files, Signalled, Moves, Unlock, Exits, Alive, OneInode, OneLockFile,
       TypeOK, LeaderState, ClientState, MaybeInode, MaybeLeader, LeaderPc, ClientPc,
       Locked, Named, Procs
<1> QED BY <1>1, <1>2, <1>3

LEMMA KeepsNoLeader ==
    ASSUME IInv, NEW c \in Clients, NoLeader(c)
    PROVE  IInv'
<1> USE Constants DEF IInv
<1>1. TypeOK'
    <2>1. client' \in [Clients -> ClientState]
        BY ClientMoves DEF NoLeader, TypeOK, ClientPc
    <2> QED BY <2>1 DEF NoLeader, files, OneInode, TypeOK, LeaderState, ClientState,
       MaybeInode, MaybeLeader, LeaderPc, ClientPc, Locked, Named, Procs
<1>2. OneInode'
    BY DEF NoLeader, files, Moves, OneInode, TypeOK, LeaderState, ClientState, MaybeInode,
       MaybeLeader, LeaderPc, ClientPc, Locked, Named, Procs
<1>3. OneLockFile'
    BY DEF NoLeader, files, Moves, OneInode, OneLockFile, TypeOK, LeaderState, ClientState,
       MaybeInode, MaybeLeader, LeaderPc, ClientPc, Locked, Named, Procs
<1> QED BY <1>1, <1>2, <1>3

LEMMA KeepsRelease ==
    ASSUME IInv, NEW c \in Clients, Release(c)
    PROVE  IInv'
<1> USE Constants DEF IInv
<1>1. TypeOK'
    <2>1. client' \in [Clients -> ClientState]
        BY ClientMoves DEF Release, TypeOK, ClientPc
    <2> QED BY <2>1 DEF Release, Unlock, OneInode, TypeOK, LeaderState, ClientState,
       MaybeInode, MaybeLeader, LeaderPc, ClientPc, Locked, Named, Procs
<1>2. OneInode'
    BY DEF Release, Unlock, Moves, OneInode, TypeOK, LeaderState, ClientState, MaybeInode,
       MaybeLeader, LeaderPc, ClientPc, Locked, Named, Procs
<1>3. OneLockFile'
    BY DEF Release, Unlock, Moves, OneInode, OneLockFile, TypeOK, LeaderState, ClientState,
       MaybeInode, MaybeLeader, LeaderPc, ClientPc, Locked, Named, Procs
<1> QED BY <1>1, <1>2, <1>3

LEMMA KeepsSpawn ==
    ASSUME IInv, NEW c \in Clients, Spawn(c)
    PROVE  IInv'
<1> USE Constants DEF IInv
<1>1. CASE Ends(c, "failed") /\ UNCHANGED leader
    <2>1. client' \in [Clients -> ClientState]
        BY <1>1, ClientEnds DEF TypeOK, ClientPc
    <2>2. TypeOK'
        BY <1>1, <2>1 DEF Spawn, files, Ends, NewClient, TypeOK, LeaderState,
           ClientState, MaybeInode, MaybeLeader, LeaderPc, ClientPc, Locked, Named,
           Procs
    <2>3. OneInode'
        BY <1>1, <2>1 DEF Spawn, files, Ends, NewClient, OneInode, TypeOK, LeaderState,
           ClientState, MaybeInode, MaybeLeader, LeaderPc, ClientPc, Locked, Named,
           Procs
    <2>4. OneLockFile'
        BY <1>1, <2>1 DEF Spawn, files, Ends, NewClient, OneInode, OneLockFile, TypeOK,
           LeaderState, ClientState, MaybeInode, MaybeLeader, LeaderPc, ClientPc,
           Locked, Named, Procs
    <2> QED BY <2>2, <2>3, <2>4
<1>2. CASE Fresh(c) # {} /\ Goes(CHOOSE l \in Fresh(c) : TRUE, "start") /\ Moves(c, "spawned")
    <2>1. PICK l \in Leaders : leader[l].pc = "none" /\ Goes(l, "start")
        BY <1>2 DEF Fresh, At
    <2>2. client' \in [Clients -> ClientState]
        BY <1>2, ClientMoves DEF TypeOK, ClientPc
    <2>3. client[c].pc = "spawn" /\ Moves(c, "spawned") /\ UNCHANGED <<path, holder, filePid, sock, faults, unlinked>>
        BY <1>2 DEF Spawn, files
    <2>4. TypeOK'
        BY <2>1, <2>2, <2>3 DEF Goes, Moves, TypeOK, LeaderState, ClientState,
           MaybeInode, MaybeLeader, LeaderPc, ClientPc, Locked, Named, Procs
    <2>5. OneInode'
        BY <2>1, <2>2, <2>3 DEF Goes, Moves, OneInode, TypeOK, LeaderState, ClientState,
           MaybeInode, MaybeLeader, LeaderPc, ClientPc, Locked, Named, Procs
    <2>6. OneLockFile'
        BY <2>1, <2>2, <2>3 DEF Goes, Moves, OneInode, OneLockFile, TypeOK, LeaderState,
           ClientState, MaybeInode, MaybeLeader, LeaderPc, ClientPc, Locked, Named,
           Procs
    <2> QED BY <2>4, <2>5, <2>6
<1> QED BY <1>1, <1>2 DEF Spawn

LEMMA KeepsSpawnedConnects ==
    ASSUME IInv, NEW c \in Clients, SpawnedConnects(c)
    PROVE  IInv'
BY OnlyEnds DEF SpawnedConnects

LEMMA KeepsSpawnedTimeout ==
    ASSUME IInv, NEW c \in Clients, SpawnedTimeout(c)
    PROVE  IInv'
<1>1. CASE Ends(c, "failed")
    BY <1>1, OnlyEnds DEF SpawnedTimeout
<1>2. CASE client' = [client EXCEPT ![c].tries = client[c].tries + 1, ![c].pc = "open"]
    <2>1. client[c] \in ClientState /\ client[c].fd = 0
        BY DEF IInv, TypeOK, OneInode, SpawnedTimeout
    <2>0. PICK n \in Nat : n = client[c].tries + 1
        BY <2>1 DEF ClientState
    <2> DEFINE r == [client[c] EXCEPT !.tries = n, !.pc = "open"]
    <2>2. r \in ClientState /\ r.fd = 0 /\ r.pc = "open"
        BY <2>1 DEF ClientState, ClientPc
    <2>3. client' = [client EXCEPT ![c] = r]
        BY <1>2, <2>0
    <2> QED BY <2>2, <2>3, OnlyClient DEF SpawnedTimeout
<1> QED BY <1>1, <1>2 DEF SpawnedTimeout

LEMMA KeepsWaitConnects ==
    ASSUME IInv, NEW c \in Clients, WaitConnects(c)
    PROVE  IInv'
BY OnlyEnds DEF WaitConnects

LEMMA KeepsVacate ==
    ASSUME IInv, NEW c \in Clients, Vacate(c)
    PROVE  IInv'
<1> USE Constants DEF IInv
<1>1. TypeOK'
    <2> DEFINE r == [client[c] EXCEPT !.pc = "open", !.timer = Nobody]
    <2>1. r \in ClientState
        <3>1. client[c] \in ClientState /\ Nobody \in MaybeLeader /\ "open" \in ClientPc
            BY DEF TypeOK, ClientPc, MaybeLeader
        <3> QED BY <3>1 DEF ClientState
    <2>2. client' = [client EXCEPT ![c] = r]
        BY DEF Vacate
    <2>3. client' \in [Clients -> ClientState]
        BY <2>1, <2>2, ClientReplaced DEF TypeOK
    <2> QED BY <2>3 DEF Vacate, files, RequestVacate, Connectable, Outdated, OneInode,
       TypeOK, LeaderState, ClientState, MaybeInode, MaybeLeader, LeaderPc, ClientPc,
       Locked, Named, Procs
<1>2. OneInode'
    BY DEF Vacate, files, RequestVacate, Connectable, Outdated, OneInode, TypeOK,
       LeaderState, ClientState, MaybeInode, MaybeLeader, LeaderPc, ClientPc, Locked, Named,
       Procs
<1>3. OneLockFile'
    BY DEF Vacate, files, RequestVacate, Connectable, Outdated, OneInode, OneLockFile,
       TypeOK, LeaderState, ClientState, MaybeInode, MaybeLeader, LeaderPc, ClientPc,
       Locked, Named, Procs
<1> QED BY <1>1, <1>2, <1>3

LEMMA KeepsWaitFails ==
    ASSUME IInv, NEW c \in Clients, WaitFails(c)
    PROVE  IInv'
BY OnlyEnds DEF WaitFails

LEMMA KeepsWaitTimeout ==
    ASSUME IInv, NEW c \in Clients, WaitTimeout(c)
    PROVE  IInv'
<1> DEFINE r == [client[c] EXCEPT !.pc = "open", !.timer = Zombie]
<1>1. client[c] \in ClientState /\ client[c].fd = 0
    BY DEF IInv, TypeOK, OneInode, WaitTimeout
<1>2. Zombie \in MaybeLeader
    BY DEF Zombie, LeaderSeen, IInv, TypeOK, MaybeLeader
<1>3. r \in ClientState /\ r.fd = 0 /\ r.pc = "open"
    BY <1>1, <1>2 DEF ClientState, ClientPc
<1>4. client' = [client EXCEPT ![c] = r]
    BY DEF WaitTimeout
<1> QED BY <1>3, <1>4, OnlyClient DEF WaitTimeout

LEMMA KeepsCondemn ==
    ASSUME IInv, NEW c \in Clients, Condemn(c)
    PROVE  IInv'
<1> DEFINE n == IF client[c].evicted = Zombie THEN client[c].evictions + 1 ELSE 1
           r == [client[c] EXCEPT !.pc = "kill", !.timer = Nobody, !.target = Zombie,
                                  !.evicted = Zombie, !.evictions = n]
<1>1. CASE Ends(c, "failed")
    BY <1>1, OnlyEnds DEF Condemn
<1>2. CASE client' = [client EXCEPT ![c] = r]
    <2>1. client[c] \in ClientState /\ client[c].fd = 0
        BY DEF IInv, TypeOK, OneInode, Condemn
    <2>2. Zombie \in Leaders
        BY DEF Condemn, Zombie, LeaderSeen, IInv, TypeOK, MaybeLeader
    <2>3. n \in Nat
        BY <2>1 DEF ClientState
    <2>4. r \in ClientState /\ r.fd = 0 /\ r.pc = "kill" /\ r.target = Zombie
        BY <2>1, <2>2, <2>3 DEF ClientState, ClientPc, MaybeLeader
    <2> QED BY <1>2, <2>2, <2>4, OnlyClient DEF Condemn
<1> QED BY <1>1, <1>2 DEF Condemn

LEMMA KeepsKillZombie ==
    ASSUME IInv, NEW c \in Clients, KillZombie(c)
    PROVE  IInv'
<1> USE Constants DEF IInv
<1>1. TypeOK'
    <2>1. client' \in [Clients -> ClientState]
        BY ClientMoves DEF KillZombie, TypeOK, ClientPc
    <2> QED BY <2>1 DEF KillZombie, files, Signalled, Unlock, Exits, Alive, OneInode,
       TypeOK, LeaderState, ClientState, MaybeInode, MaybeLeader, LeaderPc, ClientPc,
       Locked, Named, Procs
<1>2. OneInode'
    BY DEF KillZombie, files, Signalled, Moves, Unlock, Exits, Alive, OneInode, TypeOK,
       LeaderState, ClientState, MaybeInode, MaybeLeader, LeaderPc, ClientPc, Locked, Named,
       Procs
<1>3. OneLockFile'
    BY DEF KillZombie, files, Signalled, Moves, Unlock, Exits, Alive, OneInode, OneLockFile,
       TypeOK, LeaderState, ClientState, MaybeInode, MaybeLeader, LeaderPc, ClientPc,
       Locked, Named, Procs
<1> QED BY <1>1, <1>2, <1>3

\* A step that changes nothing.
LEMMA KeepsStutter ==
    ASSUME IInv, UNCHANGED vars
    PROVE  IInv'
    BY DEF IInv, TypeOK, OneInode, OneLockFile, vars, files

LEMMA Initially == Init => IInv
<1> SUFFICES ASSUME Init PROVE IInv
    OBVIOUS
<1> USE Constants, ElectionAssumption DEF Init
<1>1. \A c \in Clients : client[c] = NewClient
    OBVIOUS
<1>2. NewClient \in ClientState
    BY DEF NewClient, ClientState, ClientPc, MaybeInode, MaybeLeader
<1>3. TypeOK
    BY <1>2 DEF TypeOK, LeaderState, MaybeInode, MaybeLeader, LeaderPc, Locked, Named, Procs
<1>4. OneInode
    BY <1>1 DEF OneInode, NewClient, Locked, Named
<1>5. OneLockFile
    BY <1>1 DEF OneLockFile, NewClient, Locked, Named
<1> QED BY <1>3, <1>4, <1>5 DEF IInv

LEMMA LeaderKeeps ==
    ASSUME IInv, NEW l \in Leaders, LeaderStep(l) \/ Shutdown(l) \/ Crash(l) \/ Hang(l)
    PROVE  IInv'
    BY KeepsLeaderOpens, KeepsLeaderLocks, KeepsLeaderContended, KeepsLeaderGivesUp,
       KeepsWritePid, KeepsCleanupSocket, KeepsBind, KeepsDrained, KeepsDropLockFile,
       KeepsDropSocket, KeepsClose, KeepsShutdown, KeepsCrash, KeepsHang
    DEF LeaderStep

LEMMA ClientKeeps ==
    ASSUME IInv, NEW c \in Clients, ClientStep(c)
    PROVE  IInv'
    BY KeepsTryConnect, KeepsClientOpens, KeepsClientLocks, KeepsClientContended,
       KeepsAdoptSibling, KeepsEvict, KeepsEvicted, KeepsNoLeader, KeepsRelease, KeepsSpawn,
       KeepsSpawnedConnects, KeepsSpawnedTimeout, KeepsWaitConnects, KeepsVacate,
       KeepsWaitFails, KeepsWaitTimeout, KeepsCondemn, KeepsKillZombie
    DEF ClientStep

\* The inductive invariant holds: every process has one inode at most and,
\* until a lock file is unlinked, all of them the same one.
THEOREM InvariantHolds == Spec => []IInv
<1>1. Init => IInv
    BY Initially
<1>2. IInv /\ [Next]_vars => IInv'
    BY LeaderKeeps, ClientKeeps, KeepsStutter DEF Next
<1> QED BY <1>1, <1>2, PTL DEF Spec

\* Crashes, hangs and kills at any step leave at most one leader serving, and
\* it is the one that holds the lock file and is named in it, as long as no
\* leader has unlinked the file (LeaderLock::try_acquire and run_leader).
THEOREM CrashesLeaveOneLeader == Spec => []CrashesNeverSplit
<1>1. IInv => CrashesNeverSplit
    BY DEF IInv, OneLockFile, CrashesNeverSplit, Serving, Locked, Named
<1> QED BY <1>1, InvariantHolds, PTL

\* Of two leaders only one serves, as long as no lock file was unlinked.
THEOREM OneServesUntilUnlinked ==
    Spec => [](~unlinked => \A k, l \in Serving : k = l)
<1>1. CrashesNeverSplit => (~unlinked => \A k, l \in Serving : k = l)
    BY DEF CrashesNeverSplit
<1> QED BY <1>1, CrashesLeaveOneLeader, PTL

-----------------------------------------------------------------------------
(***************************************************************************)
(* The socket.                                                             *)
(***************************************************************************)
\* Only the process that holds the lock, or one that ends, touches the socket
\* file.
LEMMA SocketStep ==
    ASSUME IInv, [Next]_vars, NEW l \in Leaders,
           ~unlinked, sock = l, l \in Serving, l \in Serving'
    PROVE  sock' = l
<1> USE DEF IInv, Serving
<1>1. /\ leader[l].pc \in {"up", "drain"} /\ holder[path] = l
      /\ leader'[l].pc \in {"up", "drain"}
    BY DEF OneLockFile, Locked, Named
<1>2. \A k \in Leaders : leader[k].pc \in {"pid", "clean", "up", "drain"} => k = l
    BY <1>1 DEF OneLockFile, Locked, Named
<1>3. \A k \in Leaders : leader[k].pc # "dropping"
    BY DEF OneLockFile
<1>4. CASE UNCHANGED sock
    BY <1>4
<1>5. ASSUME NEW k \in Leaders, CleanupSocket(k) PROVE FALSE
    BY <1>1, <1>2, <1>5 DEF CleanupSocket, At
<1>6. ASSUME NEW k \in Leaders, Bind(k) PROVE FALSE
    BY <1>1, <1>2, <1>6 DEF Bind, At
<1>7. ASSUME NEW k \in Leaders, Shutdown(k) \/ Drained(k) PROVE FALSE
    BY <1>1, <1>2, <1>7 DEF Shutdown, Drained, At, Goes, TypeOK, LeaderState
<1>8. ASSUME NEW k \in Leaders, DropSocket(k) PROVE FALSE
    BY <1>3, <1>8 DEF DropSocket, At
<1>9. ASSUME NEW k \in Leaders, LeaderStep(k) \/ Crash(k) \/ Hang(k),
             ~CleanupSocket(k), ~Bind(k), ~Drained(k), ~DropSocket(k)
      PROVE  UNCHANGED sock
    BY <1>9 DEF LeaderStep, LeaderOpens, LeaderLocks, LeaderContended, LeaderGivesUp,
       WritePid, DropLockFile, Close, Crash, Hang
<1>10. ASSUME NEW c \in Clients, ClientStep(c) PROVE UNCHANGED sock
    BY <1>10 DEF ClientStep, TryConnect, ClientOpens, ClientLocks, ClientContended,
       AdoptSibling,
       Evict, Evicted, NoLeader, Release, Spawn, SpawnedConnects, SpawnedTimeout, WaitConnects,
       Vacate, WaitFails, WaitTimeout, Condemn, KillZombie
<1>11. CASE UNCHANGED vars
    BY <1>11, <1>4 DEF vars
<1> QED BY <1>4, <1>5, <1>6, <1>7, <1>8, <1>9, <1>10, <1>11 DEF Next

\* Nobody removes the socket file of a leader that goes on serving, as long as
\* no leader has unlinked the lock file: the cleanup of a new leader, its bind
\* and both removals at a shutdown are the lock holder's.
THEOREM SocketStays == Spec => SocketKept
<1>1. IInv /\ [Next]_vars =>
         [\A l \in Leaders :
             ~unlinked /\ sock = l /\ l \in Serving /\ l \in Serving' => sock' = l]_vars
    BY SocketStep
<1> QED BY <1>1, InvariantHolds, PTL DEF Spec, SocketKept
=============================================================================
