-------------------------- MODULE LeaderWireProofs --------------------------
(***************************************************************************)
(* Proofs about LeaderWire, for every number of frames and messages: the   *)
(* main loop is told of the registration, then of the client's frames in   *)
(* their order and without a gap, then of the end; and the client reads    *)
(* every message that was sent to it before it reads the shutdown.         *)
(***************************************************************************)
EXTENDS LeaderWire, SequenceTheorems, TLAPS

-----------------------------------------------------------------------------
(***************************************************************************)
(* The inductive invariant of the safety properties.                       *)
(***************************************************************************)
Early == {"none", "hello", "wait"}    \* states of a session not yet reported
Greeting == {"starting", "ready"}
Message == (Greeting \cup {"acp", "shutdown"}) \X Nat

TypeOK ==
    /\ ready \in BOOLEAN /\ cancel \in BOOLEAN /\ closed \in BOOLEAN
    /\ client \in {"off", "hello", "on", "left", "lost", "told"}
    /\ sess \in {"none", "hello", "wait", "up", "torn", "done"}
    /\ wrote \in Nat /\ pushed \in Nat
    /\ part \in {"none", "head", "held", "whole"}
    /\ inq \in Seq(Nat) /\ read \in Seq(Nat)
    /\ events \in Seq({"registered", "message", "gone"} \X Nat)
    /\ outq \in Seq(Message) /\ line \in Seq(Message)

Phases ==
    /\ client = "off" <=> sess = "none"
    /\ sess \in Early => client \in {"off", "hello", "lost"}
    /\ closed => cancel
    /\ client = "told" => closed

\* Upwards: what is unread continues what was reported.
Upwards ==
    /\ NoFrameSkipped
    /\ sess \in Early => wrote = 0 /\ part = "none" /\ inq = <<>> /\ events = <<>>
    /\ sess \in {"up", "torn"} =>
          /\ Len(events) > 0 /\ events[1][1] = "registered"
          /\ \A i \in 1..Len(events) : events[i][1] # "gone"
    /\ sess = "up" =>
          /\ \A i \in 1..Len(inq) : inq[i] = Len(events) - 1 + i
          /\ part \in {"held", "whole"} => inq = <<>>

\* Downwards: what is on its way to the client, and how much of it is left
\* before the shutdown.
Pending == line \o outq
Shut == Pending # <<>> /\ Pending[Len(Pending)][1] = "shutdown"
Left == Len(Pending) - (IF Shut THEN 1 ELSE 0)

\* At most one of each greeting goes first, the messages are numbered up to
\* `pushed', and the shutdown is the last of them.
Ordered ==
    /\ \A i \in 1..Left :
          /\ Pending[i][1] # "shutdown"
          /\ Pending[i][1] = "acp" => Pending[i][2] = pushed - (Left - i)
          /\ Pending[i][1] = "ready" => Left - i = pushed
          /\ Pending[i][1] \in Greeting => \A j \in 1..(i - 1) : Pending[j][1] = "starting"
    /\ \A i \in 1..Len(outq) : outq[i][1] \notin Greeting
    /\ Shut => closed

Downwards ==
    /\ Ordered
    /\ sess = "none" => outq = <<>> /\ pushed = 0
    /\ sess \in {"none", "hello"} => line = <<>>
    /\ sess = "wait" => line \in {<<>>, <<<<"starting", 0>>>>}
    /\ sess \in Early => Left = pushed + Len(line)
    /\ client \in {"off", "hello"} => read = <<>>
    /\ client = "on" => /\ Len(read) = pushed - Left
                        /\ \A i \in 1..Left : Pending[i][1] = "acp"
    /\ NothingDropped

IInv == TypeOK /\ Phases /\ Upwards /\ Downwards

-----------------------------------------------------------------------------
(***************************************************************************)
(* The way down.  Pending is `line' and then `outq': a message that moves  *)
(* from one to the other leaves it alone, the client takes its head, and   *)
(* the main loop appends to it.                                            *)
(***************************************************************************)
LEMMA PendingSeq ==
    ASSUME TypeOK
    PROVE  /\ Pending \in Seq(Message) /\ Len(Pending) = Len(line) + Len(outq)
           /\ Len(line) \in Nat /\ Len(outq) \in Nat /\ Left \in Int /\ Left \in 0..Len(Pending)
           /\ Shut => Left = Len(Pending) - 1
           /\ ~Shut => Left = Len(Pending)
           /\ \A i \in 1..Len(line) : Pending[i] = line[i]
           /\ \A i \in 1..Len(outq) : Pending[Len(line) + i] = outq[i]
<1>1. /\ Pending \in Seq(Message) /\ Len(Pending) = Len(line) + Len(outq)
      /\ Len(line) \in Nat /\ Len(outq) \in Nat
      /\ \A i \in 1..Len(line) : Pending[i] = line[i]
      /\ \A i \in 1..Len(outq) : Pending[Len(line) + i] = outq[i]
    BY DEF TypeOK, Pending
<1>2. Pending # <<>> => Len(Pending) > 0
    BY <1>1
<1> QED BY <1>1, <1>2 DEF Shut, Left

LEMMA PendingKept ==
    ASSUME Pending' = Pending
    PROVE  Shut' = Shut /\ Left' = Left
BY DEF Shut, Left

\* Nothing but the end of Pending is the shutdown.
LEMMA ShutLast ==
    ASSUME TypeOK, Ordered, NEW i \in 1..Len(Pending), Pending[i][1] = "shutdown"
    PROVE  i = Len(Pending) /\ Shut /\ Left = i - 1
<1>1. i \notin 1..Left
    BY DEF Ordered
<1> QED BY <1>1, PendingSeq

\* The session task writes the oldest message for the client.
LEMMA Moved ==
    ASSUME TypeOK, Ordered, outq # <<>>, outq' = Tail(outq), line' = Append(line, Head(outq)),
           UNCHANGED <<pushed, closed>>
    PROVE  /\ outq' \in Seq(Message) /\ line' \in Seq(Message)
           /\ Pending' = Pending /\ Shut' = Shut /\ Left' = Left /\ Ordered'
<1>1. /\ outq \in Seq(Message) /\ line \in Seq(Message) /\ Head(outq) \in Message
      /\ outq' \in Seq(Message) /\ line' \in Seq(Message)
      /\ Len(line') = Len(line) + 1 /\ Len(outq') = Len(outq) - 1 /\ Len(outq) \in Nat \ {0}
      /\ \A i \in 1..Len(outq') : outq'[i] = outq[i + 1]
    BY DEF TypeOK
<1>2. Pending' = Pending
    <2>1. Pending \in Seq(Message) /\ Pending' \in Seq(Message) /\ Len(Pending') = Len(Pending)
        BY <1>1 DEF Pending
    <2>2. ASSUME NEW i \in 1..Len(Pending) PROVE Pending'[i] = Pending[i]
        BY <1>1, <2>1 DEF Pending
    <2> QED BY <2>1, <2>2, SeqEqual
<1>3. Shut' = Shut /\ Left' = Left
    BY <1>2, PendingKept
<1> QED BY <1>1, <1>2, <1>3 DEF Ordered

\* The client takes the head of the line.
LEMMA Taken ==
    ASSUME TypeOK, Ordered, line # <<>>, line' = Tail(line), UNCHANGED <<outq, pushed, closed>>
    PROVE  /\ Head(line) \in Message /\ Head(line) = line[1] /\ Head(line) = Pending[1]
           /\ line' \in Seq(Message) /\ Len(line') = Len(line) - 1
           /\ Ordered'
           /\ Head(line)[1] = "shutdown" => Left = 0
           /\ Head(line)[1] # "shutdown" => /\ Left \in Nat \ {0} /\ Left' = Left - 1
                                            /\ \A i \in 1..Left' : Pending'[i] = Pending[i + 1]
<1>1. /\ outq \in Seq(Message) /\ line \in Seq(Message) /\ Head(line) \in Message
      /\ Head(line) = line[1] /\ Len(line) \in Nat \ {0}
      /\ line' \in Seq(Message) /\ Len(line') = Len(line) - 1
      /\ \A i \in 1..Len(line') : line'[i] = line[i + 1]
    BY DEF TypeOK
<1>2. /\ Pending' \in Seq(Message) /\ Len(Pending') = Len(Pending) - 1
      /\ \A i \in 1..Len(Pending') : Pending'[i] = Pending[i + 1]
    BY <1>1 DEF Pending
<1>3. Pending[1] = Head(line) /\ Len(Pending) > 0 /\ Len(Pending) \in Nat
    BY <1>1, PendingSeq
<1>4. CASE Head(line)[1] = "shutdown"
    <2>1. Left = 0 /\ Len(Pending) = 1
        <3>1. 1 \in 1..Len(Pending) /\ Pending[1][1] = "shutdown"
            BY <1>3, <1>4
        <3>2. 1 = Len(Pending) /\ Left = 1 - 1
            BY <3>1, ShutLast, Zenon
        <3> QED BY <3>2
    <2>2. Pending' = <<>> /\ ~Shut' /\ Left' = 0
        <3>1. Pending' \in Seq(Message) /\ Len(Pending') = 0
            BY <1>2, <2>1
        <3>2. Pending' = <<>>
            BY <3>1, EmptySeq
        <3> QED BY <3>1, <3>2 DEF Shut, Left
    <2> QED BY <1>1, <1>3, <1>4, <2>1, <2>2 DEF Ordered
<1>5. CASE Head(line)[1] # "shutdown"
    <2>1. Shut => Len(Pending) > 1
        BY <1>3, <1>5 DEF Shut
    <2>2. Shut' = Shut
        <3>1. CASE Len(Pending) > 1
            BY <1>2, <1>3, <3>1 DEF Shut
        <3>2. CASE Len(Pending) = 1
            <4>1. ~Shut
                BY <2>1, <3>2
            <4>2. Pending' = <<>>
                BY <1>2, <3>2, EmptySeq
            <4> QED BY <4>1, <4>2 DEF Shut
        <3>3. Len(Pending) > 1 \/ Len(Pending) = 1
            <4>1. PICK n \in Nat : n = Len(Pending) /\ n > 0
                BY <1>3, Zenon
            <4>2. n > 1 \/ n = 1
                BY <4>1
            <4> QED BY <4>1, <4>2, Zenon
        <3> QED BY <3>1, <3>2, <3>3, Zenon
    <2>3. Left \in Nat \ {0} /\ Left' = Left - 1
        BY <1>2, <1>3, <2>1, <2>2, PendingSeq DEF Left
    <2>4. Left <= Len(Pending)
        BY PendingSeq
    <2>5. \A i \in 1..Left' : Pending'[i] = Pending[i + 1] /\ i + 1 \in 1..Left
        BY <1>2, <1>3, <2>3, <2>4
    <2>6. Ordered'
        <3>1. \A i \in 1..Left' :
                 /\ Pending'[i][1] # "shutdown"
                 /\ Pending'[i][1] = "acp" => Pending'[i][2] = pushed' - (Left' - i)
                 /\ Pending'[i][1] = "ready" => Left' - i = pushed'
                 /\ Pending'[i][1] \in Greeting => \A j \in 1..(i - 1) : Pending'[j][1] = "starting"
            <4> SUFFICES ASSUME NEW i \in 1..Left'
                         PROVE  /\ Pending'[i][1] # "shutdown"
                                /\ Pending'[i][1] = "acp" => Pending'[i][2] = pushed' - (Left' - i)
                                /\ Pending'[i][1] = "ready" => Left' - i = pushed'
                                /\ Pending'[i][1] \in Greeting =>
                                      \A j \in 1..(i - 1) : Pending'[j][1] = "starting"
                OBVIOUS
            <4>1. /\ Pending'[i] = Pending[i + 1] /\ i + 1 \in 1..Left
                  /\ Left' - i = Left - (i + 1)
                  /\ \A j \in 1..(i - 1) : Pending'[j] = Pending[j + 1] /\ j + 1 \in 1..i
                BY <2>3, <2>5
            <4> QED BY <4>1 DEF Ordered
        <3> QED BY <2>2, <3>1 DEF Ordered
    <2> QED BY <1>1, <1>3, <1>5, <2>3, <2>5, <2>6
<1> QED BY <1>4, <1>5

\* The main loop sends one more message to the client.
LEMMA Pushed ==
    ASSUME TypeOK, Ordered, ~Shut, outq' = Append(outq, <<"acp", pushed + 1>>),
           pushed' = pushed + 1, UNCHANGED <<line, closed>>
    PROVE  /\ outq' \in Seq(Message) /\ Ordered' /\ Left' = Left + 1
           /\ \A i \in 1..Left : Pending'[i] = Pending[i]
           /\ Pending'[Left'] = <<"acp", pushed'>>
<1>1. <<"acp", pushed + 1>> \in Message
    BY DEF Message, TypeOK
<1>2. /\ outq \in Seq(Message) /\ line \in Seq(Message) /\ outq' \in Seq(Message)
      /\ Len(outq') = Len(outq) + 1 /\ outq'[Len(outq')] = <<"acp", pushed'>>
      /\ \A i \in 1..Len(outq) : outq'[i] = outq[i]
    BY <1>1 DEF TypeOK
<1>3. /\ Pending' \in Seq(Message) /\ Len(Pending') = Len(Pending) + 1
      /\ Pending'[Len(Pending')] = <<"acp", pushed'>>
      /\ \A i \in 1..Len(Pending) : Pending'[i] = Pending[i]
    BY <1>2 DEF Pending
<1>4. ~Shut'
    BY <1>3 DEF Shut
<1>5. Left' = Left + 1 /\ Left = Len(Pending) /\ Left \in Nat
    BY <1>3, <1>4, PendingSeq DEF Left
<1>6. \A i \in 1..Len(outq') : outq'[i][1] \notin Greeting
    <2> TAKE i \in 1..Len(outq')
    <2>1. CASE i = Len(outq')
        BY <1>2, <2>1 DEF Greeting
    <2>2. CASE i # Len(outq')
        <3>1. i \in 1..Len(outq) /\ outq'[i] = outq[i]
            BY <1>2, <2>2
        <3> QED BY <3>1 DEF Ordered
    <2> QED BY <2>1, <2>2
<1>7. ASSUME NEW i \in 1..Left'
      PROVE  /\ Pending'[i][1] # "shutdown"
             /\ Pending'[i][1] = "acp" => Pending'[i][2] = pushed' - (Left' - i)
             /\ Pending'[i][1] = "ready" => Left' - i = pushed'
             /\ Pending'[i][1] \in Greeting => \A j \in 1..(i - 1) : Pending'[j][1] = "starting"
    <2>1. pushed \in Nat /\ pushed' = pushed + 1
        BY DEF TypeOK
    <2>2. CASE i = Left'
        <3>1. Pending'[i] = <<"acp", pushed'>>
            BY <1>3, <1>5, <2>2
        <3>2. pushed' - (Left' - i) = pushed'
            BY <1>5, <2>1, <2>2
        <3> QED BY <3>1, <3>2 DEF Greeting
    <2>3. CASE i # Left'
        <3>1. /\ i \in 1..Left /\ Pending'[i] = Pending[i]
              /\ \A j \in 1..(i - 1) : Pending'[j] = Pending[j]
            BY <1>3, <1>5, <2>3
        <3>2. /\ pushed' - (Left' - i) = pushed - (Left - i)
              /\ Left - i = pushed => Left' - i = pushed'
            <4>1. i \in Int /\ Left \in Int /\ Left' = Left + 1
                BY <1>5, <3>1
            <4>2. (pushed + 1) - ((Left + 1) - i) = pushed - (Left - i)
                BY <2>1, <4>1
            <4>3. Left - i = pushed => (Left + 1) - i = pushed + 1
                BY <2>1, <4>1
            <4> QED BY <2>1, <4>1, <4>2, <4>3, Zenon
        <3> QED BY <3>1, <3>2 DEF Ordered
    <2> QED BY <2>2, <2>3
<1>8. Ordered'
    BY <1>4, <1>6, <1>7 DEF Ordered
<1> QED BY <1>2, <1>3, <1>5, <1>8

\* The shutdown goes behind everything else.
LEMMA Shuts ==
    ASSUME TypeOK, Ordered, ~Shut, outq' = Append(outq, <<"shutdown", 0>>), closed' = TRUE,
           UNCHANGED <<line, pushed>>
    PROVE  /\ outq' \in Seq(Message) /\ Ordered' /\ Left' = Left
           /\ \A i \in 1..Left : Pending'[i] = Pending[i]
<1>1. <<"shutdown", 0>> \in Message
    BY DEF Message
<1>2. /\ outq \in Seq(Message) /\ line \in Seq(Message) /\ outq' \in Seq(Message)
      /\ Len(outq') = Len(outq) + 1 /\ outq'[Len(outq')] = <<"shutdown", 0>>
      /\ \A i \in 1..Len(outq) : outq'[i] = outq[i]
    BY <1>1 DEF TypeOK
<1>3. /\ Pending' \in Seq(Message) /\ Len(Pending') = Len(Pending) + 1
      /\ Pending'[Len(Pending')] = <<"shutdown", 0>>
      /\ \A i \in 1..Len(Pending) : Pending'[i] = Pending[i]
    BY <1>2 DEF Pending
<1>4. Shut'
    BY <1>3, PendingSeq DEF Shut
<1>5. Left' = Left /\ Left = Len(Pending) /\ Left \in Nat
    BY <1>3, <1>4, PendingSeq DEF Left
<1>6. \A i \in 1..Len(outq') : outq'[i][1] \notin Greeting
    BY <1>2 DEF Ordered, Greeting, TypeOK
<1>7. ASSUME NEW i \in 1..Left'
      PROVE  /\ Pending'[i] = Pending[i] /\ i \in 1..Left
             /\ \A j \in 1..(i - 1) : Pending'[j] = Pending[j]
    BY <1>3, <1>5
<1>8. Ordered'
    <2>1. ASSUME NEW i \in 1..Left'
          PROVE  /\ Pending'[i][1] # "shutdown"
                 /\ Pending'[i][1] = "acp" => Pending'[i][2] = pushed' - (Left' - i)
                 /\ Pending'[i][1] = "ready" => Left' - i = pushed'
                 /\ Pending'[i][1] \in Greeting => \A j \in 1..(i - 1) : Pending'[j][1] = "starting"
        <3>1. pushed' = pushed /\ Left' = Left
            BY <1>5
        <3> QED BY <1>7, <3>1 DEF Ordered
    <2> QED BY <1>6, <2>1 DEF Ordered
<1> QED BY <1>2, <1>3, <1>5, <1>8

\* A greeting goes before everything that waits for the client.
LEMMA Greeted ==
    ASSUME TypeOK, Ordered, line \in {<<>>, <<<<"starting", 0>>>>}, Left = pushed + Len(line),
           NEW g \in Greeting, line' = Append(line, <<g, 0>>),
           UNCHANGED <<outq, pushed, closed>>
    PROVE  line' \in Seq(Message) /\ Ordered' /\ Left' = pushed' + Len(line')
<1>1. <<g, 0>> \in Message /\ g # "shutdown" /\ g # "acp"
    BY DEF Message, Greeting
<1>2. /\ outq \in Seq(Message) /\ line \in Seq(Message) /\ line' \in Seq(Message)
      /\ Len(line') = Len(line) + 1 /\ line'[Len(line')] = <<g, 0>> /\ Len(line) \in {0, 1}
      /\ \A i \in 1..Len(line) : line'[i] = <<"starting", 0>> /\ line[i] = <<"starting", 0>>
    BY <1>1 DEF TypeOK
<1>3. /\ Pending' \in Seq(Message) /\ Len(Pending') = Len(Pending) + 1
      /\ Pending'[Len(line')] = <<g, 0>>
      /\ \A i \in 1..Len(line) : Pending'[i] = <<"starting", 0>>
      /\ \A i \in Len(line') + 1..Len(Pending') : /\ Pending'[i] = Pending[i - 1]
                                                  /\ Pending'[i] = outq[i - Len(line')]
                                                  /\ i - Len(line') \in 1..Len(outq)
    <2>1. /\ Pending' \in Seq(Message) /\ Len(Pending') = Len(line') + Len(outq)
          /\ Len(Pending) = Len(line) + Len(outq) /\ Len(outq) \in Nat
        BY <1>2 DEF Pending
    <2>2. \A i \in 1..Len(line') : Pending'[i] = line'[i]
        BY <1>2 DEF Pending
    <2>3. \A i \in Len(line') + 1..Len(Pending') : Pending'[i] = outq[i - Len(line')]
        BY <1>2, <2>1 DEF Pending
    <2>4. \A i \in Len(line) + 1..Len(Pending) : Pending[i] = outq[i - Len(line)]
        BY <1>2, <2>1 DEF Pending
    <2>5. \A i \in Len(line') + 1..Len(Pending') :
             i - 1 \in Len(line) + 1..Len(Pending) /\ i - 1 - Len(line) = i - Len(line')
        BY <1>2, <2>1
    <2>6. \A i \in Len(line') + 1..Len(Pending') : Pending'[i] = Pending[i - 1]
        BY <2>3, <2>4, <2>5
    <2>7. \A i \in Len(line') + 1..Len(Pending') : i - Len(line') \in 1..Len(outq)
        BY <1>2, <2>1
    <2>8. Len(Pending') = Len(Pending) + 1 /\ Pending'[Len(line')] = <<g, 0>>
        <3>1. Len(line') \in 1..Len(line') /\ line'[Len(line')] = <<g, 0>>
            BY <1>2
        <3>2. Pending'[Len(line')] = line'[Len(line')]
            BY <2>2, <3>1
        <3>3. Len(Pending') = Len(Pending) + 1
            BY <1>2, <2>1
        <3> QED BY <3>1, <3>2, <3>3
    <2>9. \A i \in 1..Len(line) : Pending'[i] = <<"starting", 0>>
        BY <1>2, <2>2
    <2> QED BY <2>1, <2>3, <2>6, <2>7, <2>8, <2>9
<1>4. Len(Pending) = Len(line) + Len(outq) /\ Len(outq) \in Nat /\ Len(Pending) \in Nat
    BY PendingSeq
<1>5. Shut <=> (outq # <<>> /\ outq[Len(outq)][1] = "shutdown")
    <2>1. CASE Len(outq) = 0
        BY <1>2, <1>4, <2>1, PendingSeq DEF Shut
    <2>2. CASE Len(outq) # 0
        BY <1>2, <1>4, <2>2, PendingSeq DEF Shut
    <2> QED BY <2>1, <2>2
<1>6. Shut' <=> (outq # <<>> /\ outq[Len(outq)][1] = "shutdown")
    <2>1. CASE Len(outq) = 0
        BY <1>1, <1>2, <1>3, <1>4, <2>1 DEF Shut
    <2>2. CASE Len(outq) # 0
        <3>1. Len(Pending') \in Len(line') + 1..Len(Pending') /\ Len(Pending') - Len(line') = Len(outq)
            BY <1>2, <1>3, <1>4, <2>2
        <3>2. Pending'[Len(Pending')] = outq[Len(outq)]
            <4> DEFINE n == Len(Pending')
            <4>1. n \in Len(line') + 1..Len(Pending') /\ n - Len(line') = Len(outq)
                BY <3>1
            <4>2. Pending'[n] = outq[n - Len(line')]
                BY <1>3, <4>1
            <4> QED BY <4>1, <4>2
        <3>3. Pending' # <<>> /\ outq # <<>>
            BY <1>2, <1>3, <1>4, <2>2
        <3> QED BY <3>2, <3>3 DEF Shut
    <2> QED BY <2>1, <2>2
<1>7. Left' = Left + 1 /\ Left \in Nat /\ Left <= Len(Pending)
    BY <1>3, <1>4, <1>5, <1>6, PendingSeq DEF Left
<1>8. ASSUME NEW i \in 1..Left'
      PROVE  /\ Pending'[i][1] # "shutdown"
             /\ Pending'[i][1] = "acp" => Pending'[i][2] = pushed' - (Left' - i)
             /\ Pending'[i][1] = "ready" => Left' - i = pushed'
             /\ Pending'[i][1] \in Greeting => \A j \in 1..(i - 1) : Pending'[j][1] = "starting"
    <2>1. pushed \in Nat /\ pushed' = pushed /\ i \in 1..Len(Pending')
        BY <1>3, <1>4, <1>7 DEF TypeOK
    <2>2. CASE i <= Len(line)
        <3>1. Pending'[i] = <<"starting", 0>> /\ i = 1
            BY <1>2, <1>3, <2>1, <2>2
        <3> QED BY <3>1
    <2>3. CASE i = Len(line')
        <3>1. Pending'[i] = <<g, 0>> /\ \A j \in 1..(i - 1) : Pending'[j] = <<"starting", 0>>
            BY <1>2, <1>3, <2>3
        <3>2. Left' - i = pushed'
            BY <1>2, <1>7, <2>1, <2>3
        <3> QED BY <1>1, <3>1, <3>2
    <2>4. CASE i > Len(line')
        <3>1. /\ Pending'[i] = Pending[i - 1] /\ i - 1 \in 1..Left
              /\ Pending'[i][1] \notin Greeting
            <4>1. i \in Len(line') + 1..Len(Pending') /\ i - 1 \in 1..Left
                BY <1>2, <1>7, <2>1, <2>4
            <4> QED BY <1>3, <4>1 DEF Ordered
        <3> QED BY <1>7, <2>1, <3>1 DEF Ordered, Greeting
    <2> QED BY <1>2, <2>2, <2>3, <2>4
<1>9. Ordered'
    BY <1>5, <1>6, <1>8 DEF Ordered
<1> QED BY <1>2, <1>7, <1>9 DEF TypeOK

-----------------------------------------------------------------------------
(***************************************************************************)
(* The steps.  Most of them leave one of the two directions alone.         *)
(***************************************************************************)
LEMMA UpwardsKept ==
    ASSUME TypeOK, Upwards, UNCHANGED <<wrote, part, inq, events>>,
           sess' \in Early => sess \in Early,
           sess' = "up" => sess = "up",
           sess' = "torn" => sess \in {"up", "torn"}
    PROVE  Upwards'
BY DEF Upwards, NoFrameSkipped

LEMMA DownwardsKept ==
    ASSUME Downwards, UNCHANGED <<line, outq, pushed, read>>, closed => closed',
           sess' \in Early => sess' = sess,
           client' \in {"off", "hello", "on", "told"} => client' = client
    PROVE  Downwards'
<1>1. Pending' = Pending
    BY DEF Pending
<1>2. Shut' = Shut /\ Left' = Left
    BY <1>1, PendingKept
<1>3. Ordered'
    BY <1>1, <1>2 DEF Downwards, Ordered
<1>4. NothingDropped'
    BY DEF Downwards, NothingDropped
<1> QED BY <1>1, <1>2, <1>3, <1>4 DEF Downwards, Early

LEMMA KeepsConnect ==
    ASSUME IInv, Connect
    PROVE  IInv'
<1>1. TypeOK' /\ Phases'
    BY DEF Connect, IInv, TypeOK, Phases, Early
<1>2. Upwards'
    BY UpwardsKept DEF Connect, IInv, Phases, Early
<1>3. Downwards'
    <2>1. Pending' = Pending
        BY DEF Pending, Connect
    <2>2. Shut' = Shut /\ Left' = Left
        BY <2>1, PendingKept
    <2>3. Ordered' /\ NothingDropped'
        BY <2>1, <2>2 DEF Connect, IInv, Downwards, Ordered, NothingDropped
    <2> QED BY <2>1, <2>2, <2>3 DEF Connect, IInv, Phases, Downwards, Early
<1> QED BY <1>1, <1>2, <1>3 DEF IInv

\* The client is reported, before it can have written anything.
LEMMA Reported ==
    ASSUME TypeOK, Upwards, sess \in Early, events' = Append(events, <<"registered", 0>>),
           sess' = "up", UNCHANGED <<wrote, part, inq>>
    PROVE  Upwards' /\ events' \in Seq({"registered", "message", "gone"} \X Nat)
<1>1. events = <<>> /\ wrote = 0 /\ part = "none" /\ inq = <<>>
    BY DEF Upwards
<1>2. events' = <<<<"registered", 0>>>>
    BY <1>1
<1>3. Len(events') = 1 /\ events'[1] = <<"registered", 0>> /\ Len(inq') = 0
    BY <1>1, <1>2
<1>4. events' \in Seq({"registered", "message", "gone"} \X Nat)
    <2>1. <<"registered", 0>> \in {"registered", "message", "gone"} \X Nat
        OBVIOUS
    <2> DEFINE E == {"registered", "message", "gone"} \X Nat
    <2>2. <<>> \in Seq(E) /\ <<"registered", 0>> \in E
        BY <2>1
    <2> HIDE DEF E
    <2>3. Append(<<>>, <<"registered", 0>>) \in Seq(E)
        BY <2>2
    <2>4. events' \in Seq(E)
        BY <1>1, <2>3
    <2> QED BY <2>4 DEF E
<1> QED BY <1>1, <1>3, <1>4 DEF Upwards, NoFrameSkipped, Early

LEMMA KeepsSendRegistered ==
    ASSUME IInv, SendRegistered
    PROVE  IInv'
<1> DEFINE g == IF ready THEN "ready" ELSE "starting"
<1>1. g \in Greeting /\ line = <<>> /\ line' = Append(line, <<g, 0>>) /\ sess \in Early
    BY DEF SendRegistered, IInv, Downwards, Greeting, Early
<1>2. line' \in Seq(Message) /\ Ordered' /\ Left' = pushed' + Len(line')
    BY <1>1, Greeted DEF SendRegistered, IInv, Downwards, Early
<1>3. Upwards' /\ events' \in Seq({"registered", "message", "gone"} \X Nat)
    <2>1. CASE ready
        BY <1>1, <2>1, Reported DEF SendRegistered, IInv
    <2>2. CASE ~ready
        BY <1>1, <2>2, UpwardsKept DEF SendRegistered, IInv, Early, TypeOK
    <2> QED BY <2>1, <2>2
<1>4. TypeOK' /\ Phases'
    BY <1>2, <1>3 DEF SendRegistered, IInv, TypeOK, Phases, Early
<1>5. Downwards'
    <2>1. client # "on" /\ sess' \in {"up", "wait"} /\ UNCHANGED <<client, read, pushed>>
        BY DEF SendRegistered, IInv, Phases, Early
    <2>2. sess' = "wait" => line' = <<<<"starting", 0>>>>
        BY <1>1 DEF SendRegistered
    <2> QED BY <1>2, <2>1, <2>2 DEF IInv, Downwards, NothingDropped, Early
<1> QED BY <1>3, <1>4, <1>5 DEF IInv

LEMMA KeepsLeaderReady ==
    ASSUME IInv, LeaderReady
    PROVE  IInv'
<1>1. TypeOK' /\ Phases'
    BY DEF LeaderReady, IInv, TypeOK, Phases, Early
<1>2. Upwards' /\ Downwards'
    BY UpwardsKept, DownwardsKept DEF LeaderReady, IInv
<1> QED BY <1>1, <1>2 DEF IInv

LEMMA KeepsSendLeaderReady ==
    ASSUME IInv, SendLeaderReady
    PROVE  IInv'
<1>1. "ready" \in Greeting /\ line \in {<<>>, <<<<"starting", 0>>>>} /\ sess \in Early
    BY DEF SendLeaderReady, IInv, Downwards, Greeting, Early
<1>2. line' \in Seq(Message) /\ Ordered'
    BY <1>1, Greeted DEF SendLeaderReady, IInv, Downwards, Early
<1>3. Upwards' /\ events' \in Seq({"registered", "message", "gone"} \X Nat)
    BY <1>1, Reported DEF SendLeaderReady, IInv
<1>4. TypeOK' /\ Phases'
    BY <1>2, <1>3 DEF SendLeaderReady, IInv, TypeOK, Phases, Early
<1>5. Downwards'
    <2>1. client # "on" /\ sess' = "up" /\ UNCHANGED <<client, read, pushed>>
        BY DEF SendLeaderReady, IInv, Phases, Early
    <2> QED BY <1>2, <2>1 DEF IInv, Downwards, NothingDropped, Early
<1> QED BY <1>3, <1>4, <1>5 DEF IInv

LEMMA KeepsFinishRegister ==
    ASSUME IInv, FinishRegister
    PROVE  IInv'
<1>1. /\ Head(line) \in Message /\ Head(line) = line[1] /\ Head(line) = Pending[1]
      /\ line' \in Seq(Message) /\ Len(line') = Len(line) - 1 /\ Ordered'
      /\ Head(line)[1] # "shutdown" => /\ Left \in Nat \ {0} /\ Left' = Left - 1
                                       /\ \A i \in 1..Left' : Pending'[i] = Pending[i + 1]
    BY Taken DEF FinishRegister, IInv, Downwards
<1>2. sess # "none" /\ sess # "hello" /\ line # <<>>
    BY DEF FinishRegister, IInv, Phases, Downwards
<1>3. sess = "wait" => Head(line)[1] = "starting" /\ line' = <<>>
    BY <1>1, <1>2 DEF FinishRegister, IInv, Downwards
<1>4. client' \in {"hello", "on", "lost"} /\ (sess \in Early => client' = "hello")
    BY <1>2, <1>3 DEF FinishRegister, Early
<1>5. TypeOK' /\ Phases'
    BY <1>1, <1>2, <1>4 DEF FinishRegister, IInv, TypeOK, Phases, Early
<1>6. Upwards'
    BY UpwardsKept DEF FinishRegister, IInv, Early
<1>7. read = <<>> /\ read' = <<>> /\ pushed' = pushed /\ outq' = outq /\ sess' = sess
    BY DEF FinishRegister, IInv, Downwards
<1>8. NothingDropped'
    BY <1>4, <1>7 DEF NothingDropped
<1>9. client' = "on" => /\ Len(read') = pushed' - Left'
                        /\ \A i \in 1..Left' : Pending'[i][1] = "acp"
    <2> SUFFICES ASSUME client' = "on"
                 PROVE  Len(read') = pushed' - Left' /\ \A i \in 1..Left' : Pending'[i][1] = "acp"
        OBVIOUS
    <2>1. Head(line)[1] = "ready"
        BY DEF FinishRegister
    <2>2. Pending[1][1] = "ready" /\ Left \in Nat \ {0} /\ Left' = Left - 1
        BY <1>1, <2>1
    <2>3. Left - 1 = pushed
        BY <2>2 DEF IInv, Downwards, Ordered
    <2>4. Len(read') = 0
        BY <1>7
    <2>5. pushed' - Left' = 0
        BY <1>7, <2>2, <2>3
    <2>6. ASSUME NEW i \in 1..Left' PROVE Pending'[i][1] = "acp"
        <3>1. Pending'[i] = Pending[i + 1] /\ i + 1 \in 1..Left /\ 1 \in 1..((i + 1) - 1)
            BY <1>1, <2>1, <2>2
        <3>2. Pending[i + 1][1] \notin Greeting /\ Pending[i + 1][1] # "shutdown"
            BY <2>2, <3>1 DEF IInv, Downwards, Ordered
        <3>3. Pending[i + 1] \in Message
            BY <3>1, PendingSeq DEF IInv
        <3> QED BY <3>1, <3>2, <3>3 DEF Message
    <2> QED BY <2>4, <2>5, <2>6
<1>10. sess \in Early => Left' = pushed' + Len(line')
    BY <1>1, <1>2, <1>3, <1>7 DEF IInv, TypeOK, Downwards, Early
<1>11. Downwards'
    BY <1>1, <1>2, <1>3, <1>7, <1>8, <1>9, <1>10 DEF Downwards, Early
<1> QED BY <1>5, <1>6, <1>11 DEF IInv

LEMMA KeepsRegisterTimeout ==
    ASSUME IInv, RegisterTimeout
    PROVE  IInv'
<1>1. TypeOK' /\ Phases'
    BY DEF RegisterTimeout, IInv, TypeOK, Phases, Early
<1>2. Upwards' /\ Downwards'
    BY UpwardsKept, DownwardsKept DEF RegisterTimeout, IInv
<1> QED BY <1>1, <1>2 DEF IInv

LEMMA KeepsWriteLength ==
    ASSUME IInv, WriteLength
    PROVE  IInv'
<1>1. TypeOK' /\ Phases'
    BY DEF WriteLength, IInv, TypeOK, Phases, Early
<1>2. Downwards'
    BY DownwardsKept DEF WriteLength, IInv
<1>3. Upwards'
    <2>1. sess \notin Early /\ wrote \in Nat
        BY DEF WriteLength, IInv, TypeOK, Phases
    <2>2. NoFrameSkipped'
        BY <2>1 DEF WriteLength, IInv, Upwards, NoFrameSkipped
    <2> QED BY <2>1, <2>2 DEF WriteLength, IInv, Upwards
<1> QED BY <1>1, <1>2, <1>3 DEF IInv

LEMMA KeepsWriteData ==
    ASSUME IInv, WriteData
    PROVE  IInv'
<1>0. inq' \in Seq(Nat) /\ part' \in {"none", "whole"}
    <2>1. inq \in Seq(Nat) /\ Append(inq, wrote) \in Seq(Nat)
        BY DEF IInv, TypeOK
    <2> QED BY <2>1 DEF WriteData
<1>1. TypeOK' /\ Phases'
    BY <1>0 DEF WriteData, IInv, TypeOK, Phases, Early
<1>2. Downwards'
    BY DownwardsKept DEF WriteData, IInv
<1>3. Upwards'
    <2>1. sess \notin Early /\ wrote \in Nat /\ inq \in Seq(Nat) /\ Len(events) \in Nat
        BY DEF WriteData, IInv, TypeOK, Phases
    <2>2. CASE part = "head"
        <3>1. /\ part' = "none" /\ inq' = Append(inq, wrote) /\ Len(inq') = Len(inq) + 1
              /\ Len(inq) \in Nat /\ inq'[Len(inq) + 1] = wrote
              /\ \A i \in 1..Len(inq) : inq'[i] = inq[i]
              /\ UNCHANGED <<sess, wrote, events>>
            BY <2>1, <2>2 DEF WriteData
        <3>2. sess = "up" => Len(events) - 1 + Len(inq) = wrote - 1
            BY <2>2 DEF IInv, Upwards, NoFrameSkipped
        <3>3. sess = "up" => Len(events) - 1 + Len(inq') = wrote - 0
            BY <2>1, <3>1, <3>2
        <3>4. NoFrameSkipped'
            BY <3>1, <3>3 DEF IInv, Upwards, NoFrameSkipped
        <3>5. ASSUME sess = "up", NEW i \in 1..Len(inq') PROVE inq'[i] = Len(events) - 1 + i
            <4>1. CASE i = Len(inq')
                BY <2>1, <3>1, <3>2, <3>5, <4>1
            <4>2. CASE i # Len(inq')
                <5>1. i \in 1..Len(inq) /\ inq'[i] = inq[i]
                    BY <3>1, <4>2
                <5> QED BY <3>5, <5>1 DEF IInv, Upwards
            <4> QED BY <4>1, <4>2
        <3> QED BY <2>1, <3>1, <3>4, <3>5 DEF IInv, Upwards
    <2>3. CASE part = "held"
        <3>1. part' = "whole" /\ UNCHANGED <<sess, wrote, events, inq>>
            BY <2>3 DEF WriteData
        <3>2. NoFrameSkipped'
            BY <2>3, <3>1 DEF IInv, Upwards, NoFrameSkipped
        <3> QED BY <2>1, <2>3, <3>1, <3>2 DEF IInv, Upwards
    <2> QED BY <2>2, <2>3 DEF WriteData
<1> QED BY <1>1, <1>2, <1>3 DEF IInv

LEMMA KeepsLeave ==
    ASSUME IInv, Leave
    PROVE  IInv'
<1>1. TypeOK' /\ Phases'
    BY DEF Leave, IInv, TypeOK, Phases, Early
<1>2. Upwards' /\ Downwards'
    BY UpwardsKept, DownwardsKept DEF Leave, IInv
<1> QED BY <1>1, <1>2 DEF IInv

LEMMA KeepsReadServer ==
    ASSUME IInv, ReadServer
    PROVE  IInv'
<1>1. sess \notin Early /\ sess' = sess /\ client = "on"
    BY DEF ReadServer, IInv, Phases
<1>2. Upwards'
    BY <1>1, UpwardsKept DEF ReadServer, IInv
<1>3. CASE line = <<>>
    <2>1. TypeOK' /\ Phases'
        BY <1>1, <1>3 DEF ReadServer, IInv, TypeOK, Phases, Early
    <2>2. Downwards'
        BY <1>1, <1>3, DownwardsKept DEF ReadServer, IInv
    <2> QED BY <1>2, <2>1, <2>2 DEF IInv
<1>4. CASE line # <<>>
    <2>1. /\ line' = Tail(line)
          /\ read' = IF Head(line)[1] = "acp" THEN Append(read, Head(line)[2]) ELSE read
          /\ client' = IF Head(line)[1] = "shutdown" THEN "told" ELSE client
          /\ UNCHANGED <<outq, pushed, closed>>
        BY <1>4 DEF ReadServer
    <2>2. /\ Head(line) \in Message /\ Head(line) = Pending[1]
          /\ line' \in Seq(Message) /\ Ordered'
          /\ Head(line)[1] = "shutdown" => Left = 0
          /\ Head(line)[1] # "shutdown" => /\ Left \in Nat \ {0} /\ Left' = Left - 1
                                           /\ \A i \in 1..Left' : Pending'[i] = Pending[i + 1]
        BY <1>4, <2>1, Taken DEF IInv, Downwards
    <2>3. /\ Len(read) = pushed - Left /\ \A i \in 1..Left : Pending[i][1] = "acp"
          /\ read \in Seq(Nat) /\ pushed \in Nat /\ read = [i \in 1..Len(read) |-> i]
        BY <1>1 DEF IInv, TypeOK, Downwards, NothingDropped
    <2>4. CASE Head(line)[1] = "shutdown"
        <3>1. Len(read') = pushed' /\ read' = read /\ client' = "told"
            BY <2>1, <2>2, <2>3, <2>4
        <3>2. 1 \in 1..Len(Pending)
            BY <1>4, PendingSeq, EmptySeq DEF IInv, TypeOK
        <3>3. Shut
            BY <2>2, <2>4, <3>2, ShutLast DEF IInv, Downwards
        <3>4. closed
            BY <3>3 DEF IInv, Downwards, Ordered
        <3>5. TypeOK' /\ Phases'
            BY <1>1, <2>1, <2>2, <3>1, <3>4 DEF ReadServer, IInv, TypeOK, Phases, Early
        <3>6. Downwards'
            BY <1>1, <2>2, <2>3, <3>1 DEF Downwards, NothingDropped, Early
        <3> QED BY <1>2, <3>5, <3>6 DEF IInv
    <2>5. CASE Head(line)[1] # "shutdown"
        <3>1. Head(line)[1] = "acp"
            BY <2>2, <2>3, <2>5
        <3>2. Head(line)[2] = Len(read) + 1 /\ Head(line)[2] \in Nat
            <4>1. Pending[1][2] = pushed - (Left - 1)
                BY <2>2, <2>5, <3>1 DEF IInv, Downwards, Ordered
            <4> QED BY <2>2, <2>3, <2>5, <4>1 DEF Message
        <3>3. read' = Append(read, Len(read) + 1) /\ client' = "on"
            BY <1>1, <2>1, <2>5, <3>1, <3>2
        <3>4. /\ read' \in Seq(Nat) /\ Len(read') = Len(read) + 1
              /\ \A i \in 1..Len(read') : read'[i] = i
            BY <2>3, <3>3
        <3>5. read' = [i \in 1..Len(read') |-> i]
            BY <3>4
        <3>6. Len(read') = pushed' - Left'
            BY <2>1, <2>2, <2>3, <2>5, <3>4
        <3>7. ASSUME NEW i \in 1..Left' PROVE Pending'[i][1] = "acp"
            <4>1. Pending'[i] = Pending[i + 1] /\ i + 1 \in 1..Left
                BY <2>2, <2>5
            <4> QED BY <2>3, <4>1
        <3>8. TypeOK' /\ Phases'
            BY <1>1, <2>1, <2>2, <3>3, <3>4 DEF ReadServer, IInv, TypeOK, Phases, Early
        <3>9. Downwards'
            BY <1>1, <2>2, <3>3, <3>5, <3>6, <3>7 DEF Downwards, NothingDropped, Early
        <3> QED BY <1>2, <3>8, <3>9 DEF IInv
    <2> QED BY <2>4, <2>5
<1> QED BY <1>3, <1>4

\* A frame is reported: it is the next one.
LEMMA FrameReported ==
    ASSUME TypeOK, Upwards, sess = "up", sess' = "up", wrote' = wrote,
           events' = Append(events, <<"message", Len(events)>>),
           inq' \in Seq(Nat), part' \in {"none", "head", "held", "whole"},
           Len(events) + Len(inq') = wrote - (IF part' = "none" THEN 0 ELSE 1),
           \A i \in 1..Len(inq') : inq'[i] = Len(events) + i,
           part' \in {"held", "whole"} => inq' = <<>>
    PROVE  Upwards' /\ events' \in Seq({"registered", "message", "gone"} \X Nat)
<1>1. /\ Len(events) > 0 /\ events[1][1] = "registered" /\ Len(events) \in Nat
      /\ events \in Seq({"registered", "message", "gone"} \X Nat)
      /\ \A i \in 1..Len(events) : events[i][1] # "gone"
    BY DEF Upwards, TypeOK
<1>2. <<"message", Len(events)>> \in {"registered", "message", "gone"} \X Nat
    BY <1>1
<1>3. /\ events' \in Seq({"registered", "message", "gone"} \X Nat)
      /\ Len(events') = Len(events) + 1
      /\ events'[Len(events')] = <<"message", Len(events)>>
      /\ \A i \in 1..Len(events) : events'[i] = events[i]
    BY <1>1, <1>2
<1>4. ASSUME NEW i \in 1..Len(events')
      PROVE  /\ events'[i][1] = "registered" => i = 1
             /\ events'[i][1] = "message" => events'[1][1] = "registered" /\ events'[i][2] = i - 1
             /\ events'[i][1] # "gone"
    <2>1. events'[1] = events[1]
        BY <1>1, <1>3
    <2>2. CASE i = Len(events')
        BY <1>1, <1>3, <2>1, <2>2
    <2>3. CASE i # Len(events')
        <3>1. i \in 1..Len(events) /\ events'[i] = events[i]
            BY <1>1, <1>3, <2>3
        <3> QED BY <1>1, <2>1, <3>1 DEF Upwards, NoFrameSkipped
    <2> QED BY <2>2, <2>3
<1>5. Len(events') - 1 + Len(inq') = wrote' - (IF part' = "none" THEN 0 ELSE 1)
    BY <1>1, <1>3
<1>6. NoFrameSkipped'
    BY <1>4, <1>5 DEF NoFrameSkipped
<1>7. \A i \in 1..Len(inq') : inq'[i] = Len(events') - 1 + i
    BY <1>1, <1>3
<1>8. Len(events') > 0 /\ events'[1][1] = "registered"
    BY <1>1, <1>3
<1> QED BY <1>3, <1>4, <1>6, <1>7, <1>8 DEF Upwards, Early

LEMMA KeepsReadFrame ==
    ASSUME IInv, ReadFrame
    PROVE  IInv'
<1>1. /\ sess = "up" /\ UNCHANGED <<sess, part, wrote>> /\ inq # <<>>
      /\ events' = Append(events, <<"message", Head(inq)>>) /\ inq' = Tail(inq)
    BY DEF ReadFrame, Reading
<1>2. /\ inq \in Seq(Nat) /\ Len(inq) \in Nat \ {0} /\ Head(inq) = inq[1]
      /\ inq' \in Seq(Nat) /\ Len(inq') = Len(inq) - 1
      /\ \A i \in 1..Len(inq') : inq'[i] = inq[i + 1] /\ i + 1 \in 1..Len(inq)
      /\ part \in {"none", "head", "held", "whole"} /\ Len(events) \in Nat /\ wrote \in Nat
    BY <1>1, EmptySeq DEF IInv, TypeOK
<1>3. \A i \in 1..Len(inq) : inq[i] = Len(events) - 1 + i
    BY <1>1 DEF IInv, Upwards
<1>4. Head(inq) = Len(events) /\ part \notin {"held", "whole"}
    BY <1>1, <1>2, <1>3 DEF IInv, Upwards
<1>5. \A i \in 1..Len(inq') : inq'[i] = Len(events) + i
    <2> TAKE i \in 1..Len(inq')
    <2>1. inq'[i] = Len(events) - 1 + (i + 1)
        BY <1>2, <1>3
    <2> QED BY <1>2, <2>1
<1>6. Len(events) + Len(inq') = wrote - (IF part' = "none" THEN 0 ELSE 1)
    <2>1. Len(events) - 1 + Len(inq) = wrote - (IF part = "none" THEN 0 ELSE 1)
        BY <1>1 DEF IInv, Upwards, NoFrameSkipped
    <2> QED BY <1>1, <1>2, <2>1
<1>7. Upwards' /\ events' \in Seq({"registered", "message", "gone"} \X Nat)
    BY <1>1, <1>2, <1>4, <1>5, <1>6, FrameReported DEF IInv
<1>8. TypeOK' /\ Phases'
    BY <1>1, <1>2, <1>7 DEF ReadFrame, IInv, TypeOK, Phases, Early
<1>9. Downwards'
    BY DownwardsKept DEF ReadFrame, IInv
<1> QED BY <1>7, <1>8, <1>9 DEF IInv

LEMMA KeepsReadLength ==
    ASSUME IInv, ReadLength
    PROVE  IInv'
<1>1. TypeOK' /\ Phases'
    BY DEF ReadLength, IInv, TypeOK, Phases, Early
<1>2. Downwards'
    BY DownwardsKept DEF ReadLength, IInv
<1>3. NoFrameSkipped'
    BY DEF ReadLength, IInv, Upwards, NoFrameSkipped
<1>4. Upwards'
    BY <1>3 DEF ReadLength, Reading, IInv, Upwards, Early
<1> QED BY <1>1, <1>2, <1>4 DEF IInv

LEMMA KeepsReadData ==
    ASSUME IInv, ReadData
    PROVE  IInv'
<1>1. /\ sess = "up" /\ UNCHANGED <<sess, inq, wrote>> /\ part = "whole" /\ part' = "none"
      /\ events' = Append(events, <<"message", wrote>>)
    BY DEF ReadData, Reading
<1>2. inq = <<>> /\ Len(events) - 1 + Len(inq) = wrote - 1
    BY <1>1 DEF IInv, Upwards, NoFrameSkipped
<1>3. Len(inq') = 0 /\ Len(events) \in Nat /\ wrote \in Nat /\ Len(inq) = 0 /\ inq' \in Seq(Nat)
    BY <1>1, <1>2 DEF IInv, TypeOK
<1>4. wrote = Len(events)
    BY <1>2, <1>3
<1>5. Upwards' /\ events' \in Seq({"registered", "message", "gone"} \X Nat)
    BY <1>1, <1>2, <1>3, <1>4, FrameReported DEF IInv
<1>6. TypeOK' /\ Phases'
    BY <1>1, <1>5 DEF ReadData, IInv, TypeOK, Phases, Early
<1>7. Downwards'
    BY DownwardsKept DEF ReadData, IInv
<1> QED BY <1>5, <1>6, <1>7 DEF IInv

LEMMA KeepsWriteOutbound ==
    ASSUME IInv, WriteOutbound
    PROVE  IInv'
<1>1. /\ outq' \in Seq(Message) /\ line' \in Seq(Message)
      /\ Pending' = Pending /\ Shut' = Shut /\ Left' = Left /\ Ordered'
    BY Moved DEF WriteOutbound, IInv, Downwards
<1>2. sess \in {"up", "torn"} /\ sess' \in {"up", "torn"} /\ (sess' = "up" => sess = "up")
    BY DEF WriteOutbound
<1>3. TypeOK' /\ Phases'
    BY <1>1, <1>2 DEF WriteOutbound, IInv, TypeOK, Phases, Early
<1>4. Upwards'
    BY <1>2, UpwardsKept DEF WriteOutbound, IInv, Early
<1>5. Downwards'
    BY <1>1, <1>2 DEF WriteOutbound, IInv, Downwards, NothingDropped, Early
<1> QED BY <1>3, <1>4, <1>5 DEF IInv

\* The end is reported once, last.
LEMMA GoneReported ==
    ASSUME TypeOK, Upwards, sess \notin {"none", "done"}, sess' = "done",
           events' = Append(events, <<"gone", 0>>), UNCHANGED <<wrote, part, inq>>
    PROVE  Upwards' /\ events' \in Seq({"registered", "message", "gone"} \X Nat)
<1>1. <<"gone", 0>> \in {"registered", "message", "gone"} \X Nat
    OBVIOUS
<1>2. /\ events' \in Seq({"registered", "message", "gone"} \X Nat) /\ Len(events) \in Nat
      /\ Len(events') = Len(events) + 1 /\ events'[Len(events')] = <<"gone", 0>>
      /\ \A i \in 1..Len(events) : events'[i] = events[i]
    BY <1>1 DEF TypeOK
<1>3. \A i \in 1..Len(events) : events[i][1] # "gone"
    BY DEF Upwards, TypeOK, Early
<1>4. ASSUME NEW i \in 1..Len(events')
      PROVE  /\ events'[i][1] = "registered" => i = 1
             /\ events'[i][1] = "message" => events'[1][1] = "registered" /\ events'[i][2] = i - 1
             /\ events'[i][1] = "gone" => i = Len(events')
    <2>1. CASE i = Len(events')
        BY <1>2, <2>1
    <2>2. CASE i # Len(events')
        <3>1. i \in 1..Len(events) /\ events'[i] = events[i] /\ events'[1] = events[1]
            BY <1>2, <2>2
        <3> QED BY <1>3, <3>1 DEF Upwards, NoFrameSkipped
    <2> QED BY <2>1, <2>2
<1>5. NoFrameSkipped'
    BY <1>4 DEF NoFrameSkipped
<1> QED BY <1>2, <1>5 DEF Upwards, Early

LEMMA KeepsSessionEnds ==
    ASSUME IInv, SessionEnds
    PROVE  IInv'
<1>1. sess \in {"hello", "up", "torn"} /\ sess' = "done"
    BY DEF SessionEnds
<1>2. Upwards' /\ events' \in Seq({"registered", "message", "gone"} \X Nat)
    BY <1>1, GoneReported DEF SessionEnds, IInv
<1>3. TypeOK' /\ Phases'
    BY <1>1, <1>2 DEF SessionEnds, IInv, TypeOK, Phases, Early
<1>4. Downwards'
    BY <1>1, DownwardsKept DEF SessionEnds, IInv, Early
<1> QED BY <1>2, <1>3, <1>4 DEF IInv

LEMMA KeepsDrainOnCancel ==
    ASSUME IInv, DrainOnCancel
    PROVE  IInv'
<1>1. sess \in {"wait", "up", "torn"} /\ sess' = "done"
    BY DEF DrainOnCancel
<1>2. Upwards' /\ events' \in Seq({"registered", "message", "gone"} \X Nat)
    BY <1>1, GoneReported DEF DrainOnCancel, IInv
<1>3. line' = Pending /\ outq' = <<>> /\ Pending \in Seq(Message) /\ outq' \in Seq(Message)
    BY PendingSeq DEF DrainOnCancel, Pending, IInv
<1>4. Pending' = Pending
    BY <1>3, ConcatEmptySeq DEF Pending
<1>5. Shut' = Shut /\ Left' = Left
    BY <1>4, PendingKept
<1>6. TypeOK' /\ Phases'
    BY <1>1, <1>2, <1>3 DEF DrainOnCancel, IInv, TypeOK, Phases, Early
<1>7. Ordered'
    BY <1>3, <1>4, <1>5 DEF DrainOnCancel, IInv, Downwards, Ordered
<1>8. Downwards'
    BY <1>1, <1>4, <1>5, <1>7 DEF DrainOnCancel, IInv, Downwards, NothingDropped, Early
<1> QED BY <1>2, <1>6, <1>8 DEF IInv

LEMMA KeepsPush ==
    ASSUME IInv, Push
    PROVE  IInv'
<1>1. ~Shut /\ client # "told" /\ sess # "none"
    BY DEF Push, Listed, IInv, Phases, Downwards, Ordered
<1>2. /\ outq' \in Seq(Message) /\ Ordered' /\ Left' = Left + 1
      /\ \A i \in 1..Left : Pending'[i] = Pending[i]
      /\ Pending'[Left'] = <<"acp", pushed'>>
    BY <1>1, Pushed DEF Push, IInv, Downwards
<1>3. pushed' = pushed + 1 /\ pushed \in Nat /\ Left \in Nat /\ Len(line) \in Nat /\ Len(read) \in Nat
    BY PendingSeq DEF Push, IInv, TypeOK
<1>4. TypeOK' /\ Phases'
    BY <1>2, <1>3 DEF Push, IInv, TypeOK, Phases, Early
<1>5. Upwards'
    BY UpwardsKept DEF Push, IInv
<1>6. client = "on" => /\ Len(read') = pushed' - Left'
                       /\ \A i \in 1..Left' : Pending'[i][1] = "acp"
    <2> SUFFICES ASSUME client = "on"
                 PROVE  Len(read') = pushed' - Left' /\ \A i \in 1..Left' : Pending'[i][1] = "acp"
        OBVIOUS
    <2>1. Len(read) = pushed - Left /\ \A i \in 1..Left : Pending[i][1] = "acp"
        BY DEF IInv, Downwards
    <2>2. Len(read') = pushed' - Left'
        BY <1>2, <1>3, <2>1 DEF Push
    <2>3. ASSUME NEW i \in 1..Left' PROVE Pending'[i][1] = "acp"
        <3>1. CASE i = Left'
            BY <1>2, <3>1
        <3>2. CASE i # Left'
            <4>1. i \in 1..Left
                BY <1>2, <1>3, <3>2
            <4> QED BY <1>2, <2>1, <4>1
        <3> QED BY <3>1, <3>2
    <2> QED BY <2>2, <2>3
<1>7. sess \in Early => Left' = pushed' + Len(line')
    BY <1>2, <1>3 DEF Push, IInv, Downwards
<1>8. NothingDropped'
    BY <1>1 DEF Push, IInv, Downwards, NothingDropped
<1>9. Downwards'
    BY <1>1, <1>2, <1>6, <1>7, <1>8 DEF Push, IInv, Downwards, Early
<1> QED BY <1>4, <1>5, <1>9 DEF IInv

LEMMA KeepsCancel ==
    ASSUME IInv, Cancel
    PROVE  IInv'
<1>1. TypeOK' /\ Phases'
    BY DEF Cancel, IInv, TypeOK, Phases, Early
<1>2. Upwards' /\ Downwards'
    BY UpwardsKept, DownwardsKept DEF Cancel, IInv
<1> QED BY <1>1, <1>2 DEF IInv

LEMMA KeepsBroadcast ==
    ASSUME IInv, Broadcast
    PROVE  IInv'
<1>1. Upwards'
    BY UpwardsKept DEF Broadcast, IInv
<1>2. CASE ~Listed
    <2>1. Downwards'
        BY <1>2, DownwardsKept DEF Broadcast, IInv
    <2>2. TypeOK' /\ Phases'
        BY <1>2 DEF Broadcast, IInv, TypeOK, Phases, Early
    <2> QED BY <1>1, <2>1, <2>2 DEF IInv
<1>3. CASE Listed
    <2>1. ~Shut /\ sess # "none"
        BY <1>3 DEF Broadcast, Listed, IInv, Downwards, Ordered
    <2>2. /\ outq' \in Seq(Message) /\ Ordered' /\ Left' = Left
          /\ \A i \in 1..Left : Pending'[i] = Pending[i]
        BY <1>3, <2>1, Shuts DEF Broadcast, IInv, Downwards
    <2>3. TypeOK' /\ Phases'
        BY <2>2 DEF Broadcast, IInv, TypeOK, Phases, Early
    <2>4. Downwards'
        BY <2>1, <2>2 DEF Broadcast, IInv, Downwards, NothingDropped, Early
    <2> QED BY <1>1, <2>3, <2>4 DEF IInv
<1> QED BY <1>2, <1>3

LEMMA Initially ==
    ASSUME Init
    PROVE  IInv
<1>1. TypeOK
    <2>1. /\ <<>> \in Seq(Nat) /\ <<>> \in Seq({"registered", "message", "gone"} \X Nat)
          /\ <<>> \in Seq(Message) /\ 0 \in Nat
        BY EmptySeq
    <2> QED BY <2>1, Zenon DEF Init, TypeOK
<1>2. Phases
    BY DEF Init, Phases, Early
<1>3. Upwards
    BY DEF Init, Upwards, NoFrameSkipped
<1>4. Pending = <<>>
    BY DEF Init, Pending
<1>5. ~Shut /\ Left = 0
    BY <1>4 DEF Shut, Left
<1>6. Ordered
    BY <1>5 DEF Init, Ordered
<1>7. NothingDropped
    BY DEF Init, NothingDropped
<1>8. Downwards
    BY <1>5, <1>6, <1>7 DEF Init, Downwards
<1> QED BY <1>1, <1>2, <1>3, <1>8 DEF IInv

LEMMA StepKeeps ==
    ASSUME IInv, [Next]_vars
    PROVE  IInv'
<1>1. CASE Session
    BY <1>1, KeepsSendRegistered, KeepsSendLeaderReady, KeepsReadFrame, KeepsReadLength,
       KeepsReadData, KeepsWriteOutbound, KeepsSessionEnds, KeepsDrainOnCancel DEF Session
<1>2. CASE UNCHANGED vars
    <2>1. TypeOK' /\ Phases'
        BY <1>2 DEF vars, IInv, TypeOK, Phases, Early
    <2>2. Upwards' /\ Downwards'
        BY <1>2, UpwardsKept, DownwardsKept DEF vars, IInv
    <2> QED BY <2>1, <2>2 DEF IInv
<1> QED BY <1>1, <1>2, KeepsConnect, KeepsLeaderReady, KeepsFinishRegister, KeepsRegisterTimeout,
           KeepsWriteLength, KeepsWriteData, KeepsLeave, KeepsReadServer, KeepsPush, KeepsCancel,
           KeepsBroadcast DEF Next

\* What is under way in both directions continues what has arrived, in every
\* reachable state.
THEOREM InvariantHolds == Spec => []IInv
<1>1. Init => IInv
    BY Initially
<1>2. IInv /\ [Next]_vars => IInv'
    BY StepKeeps
<1> QED BY <1>1, <1>2, PTL DEF Spec

\* The main loop is told of the registration of a client, then of its frames in
\* the order they were written and without a gap, then of its end, whatever
\* reads the session's select drops half way.
THEOREM FramesInOrder == Spec => []NoFrameSkipped
<1>1. IInv => NoFrameSkipped
    BY DEF IInv, Upwards
<1> QED BY <1>1, InvariantHolds, PTL

\* A client that is connected reads what it is sent in order and without a gap,
\* and has read all of it when it reads the shutdown.
THEOREM NothingIsDropped == Spec => []NothingDropped
<1>1. IInv => NothingDropped
    BY DEF IInv, Downwards
<1> QED BY <1>1, InvariantHolds, PTL
=============================================================================
