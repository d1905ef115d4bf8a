----------------------------- MODULE LeaderWire -----------------------------
(***************************************************************************)
(* One connection between a client and the leader: the read and the write  *)
(* task of the client (leader/client.rs), the length-prefixed frames       *)
(* (leader/protocol.rs) and the session task of the leader                 *)
(* (run_client_session in leader/server.rs).  What the main loop does with *)
(* the messages it is sent is the subject of LeaderRequests.               *)
(*                                                                         *)
(* A frame is named by its number, in each direction.  write_frame writes  *)
(* the length and the data in two calls, and read_frame reads them in two: *)
(* `part' says how far the newest frame of the client has come.            *)
(*   "none"  between two frames                                            *)
(*   "head"  its length is in the socket                                   *)
(*   "held"  read_frame has taken the length and waits for the data        *)
(*   "whole" the data that read_frame waits for has come                   *)
(***************************************************************************)
EXTENDS Integers, Sequences

CONSTANTS
    MaxUp,     \* bound: frames the client writes
    MaxDown    \* bound: messages the leader sends to the client

ASSUME BoundsAssumption == MaxUp \in Nat /\ MaxDown \in Nat

VARIABLES
    ready,     \* ready_rx: the leader can forward ACP traffic
    client,    \* "off", "hello", "on", "left", "lost", "told"
    sess,      \* run_client_session: "none", "hello", "wait", "up", "torn", "done"
    wrote,     \* frames the client has begun to write
    part,      \* see above
    inq,       \* complete frames in the socket, unread
    events,    \* the ServerEvents of this client
    pushed,    \* messages the main loop has sent to this client
    outq,      \* server_rx of the session task
    line,      \* what the session has written and the client has not read
    read,      \* the messages the client's read task has passed on
    cancel,    \* the leader's cancellation token
    closed     \* the main loop has broadcast the shutdown and ended

vars == <<ready, client, sess, wrote, part, inq, events, pushed, outq, line, read, cancel, closed>>

Init ==
    /\ ready \in BOOLEAN
    /\ client = "off" /\ sess = "none"
    /\ wrote = 0 /\ part = "none" /\ inq = <<>>
    /\ events = <<>>
    /\ pushed = 0 /\ outq = <<>> /\ line = <<>> /\ read = <<>>
    /\ cancel = FALSE /\ closed = FALSE

-----------------------------------------------------------------------------
(***************************************************************************)
(* Registration.  A leader that is still starting answers `ready: false',  *)
(* and its session task waits before it reports the client.                *)
(***************************************************************************)
Connect ==
    /\ client = "off" /\ ~cancel
    /\ client' = "hello" /\ sess' = "hello"
    /\ UNCHANGED <<ready, wrote, part, inq, events, pushed, outq, line, read, cancel, closed>>

SendRegistered ==
    /\ sess = "hello"
    /\ sess' = IF ready THEN "up" ELSE "wait"
    /\ line' = Append(line, <<IF ready THEN "ready" ELSE "starting", 0>>)
    /\ events' = IF ready THEN Append(events, <<"registered", 0>>) ELSE events
    /\ UNCHANGED <<ready, client, wrote, part, inq, pushed, outq, read, cancel, closed>>

LeaderReady ==
    /\ ~ready
    /\ ready' = TRUE
    /\ UNCHANGED <<client, sess, wrote, part, inq, events, pushed, outq, line, read, cancel, closed>>

SendLeaderReady ==
    /\ sess = "wait" /\ ready /\ ~cancel
    /\ sess' = "up"
    /\ line' = Append(line, <<"ready", 0>>)
    /\ events' = Append(events, <<"registered", 0>>)
    /\ UNCHANGED <<ready, client, wrote, part, inq, pushed, outq, read, cancel, closed>>

\* register(): the client spawns its tasks once the leader is ready; it gives
\* up after REGISTRATION_RESPONSE_TIMEOUT or LEADER_READY_TIMEOUT.
FinishRegister ==
    /\ client = "hello" /\ line # <<>>
    /\ client' = CASE Head(line)[1] = "ready" -> "on"
                   [] Head(line)[1] = "starting" -> "hello"
                   [] OTHER -> "lost"
    /\ line' = Tail(line)
    /\ UNCHANGED <<ready, sess, wrote, part, inq, events, pushed, outq, read, cancel, closed>>

RegisterTimeout ==
    /\ client = "hello"
    /\ client' = "lost"
    /\ UNCHANGED <<ready, sess, wrote, part, inq, events, pushed, outq, line, read, cancel, closed>>

-----------------------------------------------------------------------------
(***************************************************************************)
(* The client's write task and read task.                                  *)
(***************************************************************************)
WriteLength ==
    /\ client = "on" /\ part = "none" /\ wrote < MaxUp
    /\ wrote' = wrote + 1 /\ part' = "head"
    /\ UNCHANGED <<ready, client, sess, inq, events, pushed, outq, line, read, cancel, closed>>

WriteData ==
    /\ client = "on"
    /\ \/ part = "head" /\ part' = "none" /\ inq' = Append(inq, wrote)
       \/ part = "held" /\ part' = "whole" /\ UNCHANGED inq
    /\ UNCHANGED <<ready, client, sess, wrote, events, pushed, outq, line, read, cancel, closed>>

\* cancel(): the write task sends Disconnect between two frames and both end.
Leave ==
    /\ client = "on" /\ part \in {"none", "whole"}
    /\ client' = "left"
    /\ UNCHANGED <<ready, sess, wrote, part, inq, events, pushed, outq, line, read, cancel, closed>>

\* One message, or the end of the connection: Shutdown was read ("told"), or
\* the socket closed without it ("lost").
ReadServer ==
    /\ client = "on"
    /\ \/ /\ line # <<>>
          /\ line' = Tail(line)
          /\ read' = IF Head(line)[1] = "acp" THEN Append(read, Head(line)[2]) ELSE read
          /\ client' = IF Head(line)[1] = "shutdown" THEN "told" ELSE client
       \/ /\ line = <<>> /\ sess = "done"
          /\ client' = "lost"
          /\ UNCHANGED <<line, read>>
    /\ UNCHANGED <<ready, sess, wrote, part, inq, events, pushed, outq, cancel, closed>>

-----------------------------------------------------------------------------
(***************************************************************************)
(* The session task: a biased select of cancellation, the messages for     *)
(* this client, and read_message.  A frame that is complete is read in one *)
(* poll; a frame whose data is missing leaves the future waiting with the  *)
(* length it has taken.                                                    *)
(***************************************************************************)
Reading == sess = "up" /\ ~cancel /\ outq = <<>>

ReadFrame ==
    /\ Reading /\ inq # <<>>
    /\ inq' = Tail(inq)
    /\ events' = Append(events, <<"message", Head(inq)>>)
    /\ UNCHANGED <<ready, client, sess, wrote, part, pushed, outq, line, read, cancel, closed>>

ReadLength ==
    /\ Reading /\ inq = <<>> /\ part = "head"
    /\ part' = "held"
    /\ UNCHANGED <<ready, client, sess, wrote, inq, events, pushed, outq, line, read, cancel, closed>>

ReadData ==
    /\ Reading /\ part = "whole"
    /\ part' = "none"
    /\ events' = Append(events, <<"message", wrote>>)
    /\ UNCHANGED <<ready, client, sess, wrote, inq, pushed, outq, line, read, cancel, closed>>

\* Defect: the read that comes next starts behind the frame that was half read.
WriteOutbound_Resyncs ==
    /\ sess = "up" /\ ~cancel /\ outq # <<>> /\ client \in {"hello", "on"}
    /\ outq' = Tail(outq)
    /\ line' = Append(line, Head(outq))
    /\ part' = IF part \in {"held", "whole"} THEN "none" ELSE part
    /\ UNCHANGED <<ready, client, sess, wrote, inq, events, pushed, read, cancel, closed>>

\* The other branch of the select wins: the read future is dropped, with the
\* length it has taken.
WriteOutbound ==
    /\ sess \in {"up", "torn"} /\ ~cancel /\ outq # <<>> /\ client \in {"hello", "on"}
    /\ outq' = Tail(outq)
    /\ line' = Append(line, Head(outq))
    /\ sess' = IF part \in {"held", "whole"} THEN "torn" ELSE sess
    /\ UNCHANGED <<ready, client, wrote, part, inq, events, pushed, read, cancel, closed>>

\* Defect: a length that is too large does not end the session.
SessionEnds_Skips ==
    /\ ~cancel
    /\ \/ /\ sess \in {"up", "torn"} /\ client \in {"left", "lost", "told"}
          /\ outq # <<>> \/ (inq = <<>> /\ part # "whole")
       \/ sess = "hello" /\ client = "lost"
    /\ sess' = "done"
    /\ events' = Append(events, <<"gone", 0>>)
    /\ UNCHANGED <<ready, client, wrote, part, inq, pushed, outq, line, read, cancel, closed>>

\* The loop breaks when the client is gone and nothing it wrote is unread,
\* or a write to it fails.  A read that lost a length takes the text of the
\* frame for one: it exceeds MAX_MESSAGE_SIZE, because a byte of JSON text is
\* at least 0x20, and the loop breaks too.
SessionEnds ==
    /\ ~cancel
    /\ \/ sess = "torn" /\ outq = <<>> /\ part = "whole"
       \/ /\ sess \in {"up", "torn"} /\ client \in {"left", "lost", "told"}
          /\ outq # <<>> \/ (inq = <<>> /\ part # "whole")
       \/ sess = "hello" /\ client = "lost"
    /\ sess' = "done"
    /\ events' = Append(events, <<"gone", 0>>)
    /\ UNCHANGED <<ready, client, wrote, part, inq, pushed, outq, line, read, cancel, closed>>

-----------------------------------------------------------------------------
(***************************************************************************)
(* The main loop, as far as this client sees it.                           *)
(***************************************************************************)
Listed == sess \in {"hello", "wait", "up", "torn"}

\* A handler that runs while the token is cancelled may still send.
Push ==
    /\ Listed /\ ~closed /\ pushed < MaxDown
    /\ pushed' = pushed + 1
    /\ outq' = Append(outq, <<"acp", pushed + 1>>)
    /\ UNCHANGED <<ready, client, sess, wrote, part, inq, events, line, read, cancel, closed>>

Cancel ==
    /\ ~cancel
    /\ cancel' = TRUE
    /\ UNCHANGED <<ready, client, sess, wrote, part, inq, events, pushed, outq, line, read, closed>>

\* broadcast_shutdown, as the loop ends.
Broadcast ==
    /\ cancel /\ ~closed
    /\ closed' = TRUE
    /\ outq' = IF Listed THEN Append(outq, <<"shutdown", 0>>) ELSE outq
    /\ UNCHANGED <<ready, client, sess, wrote, part, inq, events, pushed, line, read, cancel>>

\* Defect: the shutdown is sent and what is queued before it is not.
DrainOnCancel_LastOnly ==
    /\ cancel /\ sess \in {"wait", "up", "torn"}
    /\ sess' = "done"
    /\ line' = IF outq = <<>> THEN line ELSE Append(line, outq[Len(outq)])
    /\ outq' = <<>>
    /\ events' = Append(events, <<"gone", 0>>)
    /\ UNCHANGED <<ready, client, wrote, part, inq, pushed, read, cancel, closed>>

\* drain_client_outbound_on_cancel, in the loop or in the wait for readiness.
\* It yields a few times for the broadcast and does not wait for it.
DrainOnCancel ==
    /\ cancel /\ sess \in {"wait", "up", "torn"}
    /\ sess' = "done"
    /\ line' = line \o outq
    /\ outq' = <<>>
    /\ events' = Append(events, <<"gone", 0>>)
    /\ UNCHANGED <<ready, client, wrote, part, inq, pushed, read, cancel, closed>>

Session == \/ SendRegistered \/ SendLeaderReady \/ ReadFrame \/ ReadLength \/ ReadData
           \/ WriteOutbound \/ SessionEnds \/ DrainOnCancel

Next == \/ Connect \/ LeaderReady \/ FinishRegister \/ RegisterTimeout
        \/ WriteLength \/ WriteData \/ Leave \/ ReadServer
        \/ Session \/ Push \/ Cancel \/ Broadcast

Spec == Init /\ [][Next]_vars

\* The tasks of both ends run, and the leader becomes ready.
Fairness ==
    /\ WF_vars(Session) /\ WF_vars(WriteData) /\ WF_vars(ReadServer)
    /\ WF_vars(FinishRegister) /\ WF_vars(LeaderReady)

FairSpec == Spec /\ Fairness

-----------------------------------------------------------------------------
(***************************************************************************)
(* Properties.                                                             *)
(***************************************************************************)
\* The messages of a client reach the main loop after its registration and
\* before its disconnection, in the order they were written and without a
\* gap: a read that is dropped half way through a frame ends the connection,
\* it never skips a frame or passes text off as one.
NoFrameSkipped ==
    /\ \A i \in 1..Len(events) :
          /\ events[i][1] = "registered" => i = 1
          /\ events[i][1] = "message" => events[1][1] = "registered" /\ events[i][2] = i - 1
          /\ events[i][1] = "gone" => i = Len(events)
    /\ sess = "up" =>
          Len(events) - 1 + Len(inq) = wrote - (IF part = "none" THEN 0 ELSE 1)

\* A client that is connected reads the messages the leader sent it in their
\* order and without a gap, and learns of a shutdown only after all of them.
NothingDropped ==
    /\ read = [i \in 1..Len(read) |-> i]
    /\ client = "told" => Len(read) = pushed

\* A frame the client began to write reaches the main loop, unless the client
\* left or its connection ended and it knows.
FrameArrives ==
    \A n \in 1..MaxUp :
        wrote >= n ~> \/ \E i \in 1..Len(events) : events[i] = <<"message", n>>
                      \/ client \in {"left", "lost", "told"}

\* "Connection closed without a shutdown message (crash, kill, network
\* error)": with none of these, and the leader not shutting down, a client
\* that registered never loses its connection.
LostOnlyByFault == [][client = "on" /\ client' = "lost" => cancel]_vars
=============================================================================
