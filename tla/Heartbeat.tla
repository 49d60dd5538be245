----------------------------- MODULE Heartbeat ------------------------------
(***************************************************************************)
(* Time on a connection: the waits of wait_frame_inner, the blocking sends *)
(* of amqp_send_frame_inner and the read amqp_try_recv makes when a send   *)
(* has blocked too long, with the two heartbeat deadlines and the caller's *)
(* own.  One thread makes one call at a time (wait for a frame, publish,   *)
(* RPC); the broker sends chunks, or stays silent, and takes bytes off the *)
(* socket, or does not.                                                    *)
(*                                                                         *)
(* Time passes only where the program blocks in poll, one tick at a time,  *)
(* and poll returns at most one tick late; between calls it passes freely. *)
(* A chunk is a whole frame, a heartbeat frame or a part of a frame.       *)
(* Frames to send are FrameUnits units long; the socket may take any       *)
(* number of them at once.                                                 *)
(***************************************************************************)
EXTENDS Naturals, Sequences

CONSTANTS
    Heartbeats,     \* the intervals amqp_tune_connection may be given
    Timeouts,       \* relative timeouts of callers; Infinite for NULL
    Infinite,       \* UINT64_MAX
    MaxTime,        \* bound: the clock stops here
    FrameUnits,
    MaxFrames,      \* bound: frames of one publish
    MaxPending      \* bound: chunks on their way to the caller

ASSUME TimeAssumption ==
    /\ Heartbeats \subseteq Nat
    /\ MaxTime \in Nat /\ Infinite \in Nat
    /\ \A h \in Heartbeats : MaxTime + 2 * h + 1 < Infinite
    /\ MaxTime + 1 < Infinite
    /\ \A t \in Timeouts : t \in Nat /\ (t = Infinite \/ MaxTime + t < Infinite)
    /\ FrameUnits \in Nat \ {0} /\ MaxFrames \in Nat \ {0} /\ MaxPending \in Nat

VARIABLES
    now,
    heartbeat, next_send_heartbeat, next_recv_heartbeat,
    call,               \* the call in progress
    pc,                 \* where it stands
    timeout_deadline,   \* the caller's deadline
    deadline,           \* the deadline of the poll it is in
    sending,            \* what a blocked send is part of
    frames, left,       \* frames still to send, units left of the current one
    rx,                 \* chunks in the kernel's receive buffer
    buf,                \* unread chunks in sock_inbound_buffer
    queued,             \* frames put on the queue
    open,               \* the socket
    status,             \* what the last call returned
    since, began,       \* history: when this poll, and this wait, began
    lastHeard, lastSent \* history: when bytes last came in, a frame last went out

vars == <<now, heartbeat, next_send_heartbeat, next_recv_heartbeat, call, pc,
          timeout_deadline, deadline, sending, frames, left, rx, buf, queued,
          open, status, since, began, lastHeard, lastSent>>

timers == <<heartbeat, next_send_heartbeat, next_recv_heartbeat, lastHeard, lastSent>>
outgoing == <<sending, frames, left>>
incoming == <<rx, buf, queued>>

amqp_time_first(l, r) == IF l < r THEN l ELSE r

amqp_time_s_from_now(seconds) == IF seconds = 0 THEN Infinite ELSE now + seconds

amqp_time_from_now(t) == IF t = Infinite THEN Infinite ELSE now + t

amqp_time_has_past(t) == t # Infinite /\ now > t

amqp_heartbeat_send == heartbeat

(* Half the time the peer is given. *)
amqp_heartbeat_recvOnce == heartbeat

amqp_heartbeat_recv == 2 * heartbeat

(* amqp_tune_connection, at the end of the login. *)
Init == /\ now = 0
        /\ heartbeat \in Heartbeats
        /\ next_send_heartbeat = amqp_time_s_from_now(amqp_heartbeat_send)
        /\ next_recv_heartbeat = amqp_time_s_from_now(amqp_heartbeat_recv)
        /\ call = "none" /\ pc = "idle"
        /\ timeout_deadline = Infinite /\ deadline = Infinite
        /\ sending = "frames" /\ frames = 0 /\ left = 0
        /\ rx = << >> /\ buf = << >> /\ queued = << >>
        /\ open = TRUE /\ status = "none"
        /\ since = 0 /\ began = 0 /\ lastHeard = 0 /\ lastSent = 0

Return(st) == /\ call' = "none"
              /\ pc' = "idle"
              /\ status' = st
              /\ UNCHANGED <<timeout_deadline, deadline, since>>

(* To the next poll, which ends at d. *)
Block(where, d) == /\ pc' = where
                   /\ deadline' = d
                   /\ since' = now

(* start_send of amqp_send_frame_inner: no call bounds a send by its own deadline. *)
StartSend(recv) == Block("send", amqp_time_first(Infinite, recv))

-----------------------------------------------------------------------------
(* The calls.                                                              *)

Ready == call = "none" /\ open

amqp_simple_wait_frame_noblock(t) ==
    /\ Ready
    /\ IF queued # << >>
         THEN /\ status' = Head(queued)
              /\ queued' = Tail(queued)
              /\ UNCHANGED <<call, pc, timeout_deadline, began>>
         ELSE /\ call' = "wait"
              /\ pc' = "consume"
              /\ timeout_deadline' = amqp_time_from_now(t)
              /\ began' = now
              /\ status' = "none"
              /\ UNCHANGED queued
    /\ UNCHANGED <<now, timers, deadline, outgoing, rx, buf, open, since>>

(* Sends its request, then waits for the reply without a look at the queue. *)
amqp_simple_rpc(t) ==
    /\ Ready
    /\ call' = "rpc"
    /\ timeout_deadline' = amqp_time_from_now(t)
    /\ sending' = "frames" /\ frames' = 1 /\ left' = FrameUnits
    /\ StartSend(next_recv_heartbeat)
    /\ status' = "none"
    /\ UNCHANGED <<now, began, timers, incoming, open>>

(* A method, a header and body frames; first a read if the peer is late. *)
amqp_basic_publish(n) ==
    /\ Ready
    /\ call' = "publish"
    /\ sending' = "frames" /\ frames' = n
    /\ IF amqp_time_has_past(next_recv_heartbeat)
         THEN pc' = "try_consume" /\ left' = 0 /\ UNCHANGED <<deadline, since>>
         ELSE StartSend(next_recv_heartbeat) /\ left' = FrameUnits
    /\ status' = "none"
    /\ UNCHANGED <<now, began, timers, timeout_deadline, incoming, open>>

-----------------------------------------------------------------------------
(* wait_frame_inner: the buffered chunks first.                            *)

ConsumeNoFrame ==
    /\ pc = "consume"
    /\ buf # << >> /\ Head(buf) \in {"heartbeat", "part"}
    /\ buf' = Tail(buf)
    /\ UNCHANGED <<now, began, timers, call, pc, timeout_deadline, deadline, outgoing,
                   rx, queued, open, status, since>>

ReturnFrame ==
    /\ pc = "consume"
    /\ buf # << >> /\ Head(buf) = "frame"
    /\ buf' = Tail(buf)
    /\ Return("frame")
    /\ UNCHANGED <<now, began, timers, outgoing, rx, queued, open>>

(* An RPC keeps a frame that is not its reply for later. *)
QueueFrame ==
    /\ pc = "consume"
    /\ call = "rpc"
    /\ buf # << >> /\ Head(buf) = "frame"
    /\ buf' = Tail(buf)
    /\ queued' = Append(queued, "frame")
    /\ UNCHANGED <<now, began, timers, call, pc, timeout_deadline, deadline, outgoing,
                   rx, open, status, since>>

(* Deadlines that leave one of the three timers out. *)
RecvDeadlineNoRecv(send) == amqp_time_first(timeout_deadline, send)
RecvDeadlineNoSend(send) == amqp_time_first(timeout_deadline, next_recv_heartbeat)
RecvDeadlineNoTimeout(send) == amqp_time_first(next_recv_heartbeat, send)

(* A deadline rounded down, so that it is none of the timers. *)
RecvDeadlineEarly(send) ==
    LET d == amqp_time_first(timeout_deadline,
                             amqp_time_first(next_recv_heartbeat, send))
    IN  IF d \in {0, Infinite} THEN d ELSE d - 1

RecvDeadline(send) ==
    amqp_time_first(timeout_deadline, amqp_time_first(next_recv_heartbeat, send))

(* beginrecv: a heartbeat is sent when one is due, then the wait begins. *)
SendHeartbeat ==
    /\ pc = "beginrecv" \/ (pc = "consume" /\ buf = << >>)
    /\ amqp_time_has_past(next_send_heartbeat)
    /\ sending' = "heartbeat" /\ frames' = 1 /\ left' = FrameUnits
    /\ StartSend(next_recv_heartbeat)
    /\ UNCHANGED <<now, began, timers, call, timeout_deadline, incoming, open, status>>

BeginRecv ==
    /\ pc = "beginrecv" \/ (pc = "consume" /\ buf = << >>)
    /\ ~amqp_time_has_past(next_send_heartbeat)
    /\ Block("recv", RecvDeadline(next_send_heartbeat))
    /\ UNCHANGED <<now, began, timers, call, timeout_deadline, outgoing, incoming, open, status>>

(* recv() hands out the chunks that have come in, or the first of them. *)
TakeBytes == /\ rx # << >>
             /\ \E k \in 1 .. Len(rx) : /\ buf' = SubSeq(rx, 1, k)
                                        /\ rx' = SubSeq(rx, k + 1, Len(rx))
             /\ next_recv_heartbeat' = amqp_time_s_from_now(amqp_heartbeat_recv)
             /\ lastHeard' = now
             /\ UNCHANGED <<heartbeat, next_send_heartbeat, lastSent>>

recv_with_timeout ==
    /\ pc = "recv"
    /\ TakeBytes
    /\ pc' = "consume"
    /\ UNCHANGED <<now, began, call, timeout_deadline, deadline, outgoing, queued, open,
                   status, since>>

(* Why poll gave up: the deadline is compared with the timers in this order. *)
Reason == IF deadline = next_recv_heartbeat THEN "heartbeat_timeout"
          ELSE IF deadline = timeout_deadline THEN "timeout"
          ELSE IF deadline = next_send_heartbeat THEN "again"
          ELSE "abort"

RecvTimeout ==
    /\ pc = "recv" /\ rx = << >> /\ now >= deadline
    /\ IF Reason = "again"
         THEN pc' = "beginrecv" /\ UNCHANGED <<call, status, open, timeout_deadline,
                                               deadline, since>>
         ELSE /\ Return(Reason)
              /\ open' = (Reason = "timeout" /\ call = "wait")
    /\ UNCHANGED <<now, began, timers, outgoing, incoming>>

-----------------------------------------------------------------------------
(* Sending.                                                                *)

SendPart ==
    /\ pc = "send"
    /\ \E n \in 1 .. left : n < left /\ left' = left - n
    /\ UNCHANGED <<now, began, timers, call, pc, timeout_deadline, deadline, sending,
                   frames, incoming, open, status, since>>

(* The last units of a frame are out; the send timer starts anew. *)
FrameSent == /\ pc = "send"
             /\ left > 0
             /\ next_send_heartbeat' = amqp_time_s_from_now(amqp_heartbeat_send)
             /\ lastSent' = now
             /\ UNCHANGED <<now, heartbeat, next_recv_heartbeat, lastHeard,
                            timeout_deadline, sending, incoming, open>>

NextFrame ==
    /\ FrameSent
    /\ frames > 1
    /\ frames' = frames - 1 /\ left' = FrameUnits
    /\ StartSend(next_recv_heartbeat)
    /\ UNCHANGED <<call, status, began>>

(* On to the read, whatever has come into the buffer meanwhile. *)
HeartbeatSent ==
    /\ FrameSent
    /\ sending = "heartbeat"
    /\ frames' = 0 /\ left' = 0
    /\ Block("recv", RecvDeadline(next_send_heartbeat'))
    /\ UNCHANGED <<call, status, began>>

RequestSent ==
    /\ FrameSent
    /\ sending = "frames" /\ call = "rpc"
    /\ frames' = 0 /\ left' = 0
    /\ pc' = "consume"
    /\ began' = now
    /\ UNCHANGED <<call, status, deadline, since>>

Published ==
    /\ FrameSent
    /\ call = "publish" /\ frames = 1
    /\ frames' = 0 /\ left' = 0
    /\ call' = "none" /\ pc' = "idle" /\ status' = "ok"
    /\ UNCHANGED <<deadline, since, began>>

(* The socket took nothing until the deadline: read, to see whether the peer lives. *)
SendTimeout ==
    /\ pc = "send" /\ now >= deadline
    /\ pc' = "try_consume"
    /\ UNCHANGED <<now, began, timers, call, timeout_deadline, deadline, outgoing,
                   incoming, open, status, since>>

(* amqp_try_recv queues every frame in the buffer, heartbeats too. *)
TryConsume ==
    /\ pc = "try_consume"
    /\ buf # << >>
    /\ buf' = Tail(buf)
    /\ queued' = IF Head(buf) = "part" THEN queued ELSE Append(queued, Head(buf))
    /\ UNCHANGED <<now, began, timers, call, pc, timeout_deadline, deadline, outgoing,
                   rx, open, status, since>>

(***************************************************************************)
(* Then it reads, for 0 seconds from now: amqp_time_s_from_now takes 0 for *)
(* no timeout at all, so this poll has no end.                             *)
(***************************************************************************)
TryRecvBlocks ==
    /\ pc = "try_consume"
    /\ buf = << >>
    /\ Block("try_recv", amqp_time_s_from_now(0))
    /\ UNCHANGED <<now, began, timers, call, timeout_deadline, outgoing, incoming, open, status>>

amqp_try_recv ==
    /\ pc = "try_recv"
    /\ TakeBytes
    /\ left' = IF left = 0 THEN FrameUnits ELSE left
    /\ StartSend(next_recv_heartbeat')
    /\ UNCHANGED <<now, began, call, timeout_deadline, sending, frames, queued, open, status>>

-----------------------------------------------------------------------------
(* Time, and the peer.                                                     *)

Polling == pc \in {"recv", "send", "try_recv"}

Tick == /\ now < MaxTime
        /\ pc = "idle" \/ (Polling /\ now <= deadline)
        /\ now' = now + 1
        /\ UNCHANGED <<began, timers, call, pc, timeout_deadline, deadline, outgoing,
                       incoming, open, status, since>>

BrokerSends(chunk) ==
    /\ open
    /\ Len(rx) + Len(buf) + Len(queued) < MaxPending
    /\ rx' = Append(rx, chunk)
    /\ UNCHANGED <<now, began, timers, call, pc, timeout_deadline, deadline, outgoing,
                   buf, queued, open, status, since>>

(* The socket fails, or the broker closes it. *)
ConnectionLost ==
    /\ Polling
    /\ open' = FALSE
    /\ Return("closed")
    /\ UNCHANGED <<now, began, timers, outgoing, incoming>>

Next == \/ \E t \in Timeouts : amqp_simple_wait_frame_noblock(t) \/ amqp_simple_rpc(t)
        \/ \E n \in 1 .. MaxFrames : amqp_basic_publish(n)
        \/ ConsumeNoFrame \/ ReturnFrame \/ QueueFrame
        \/ SendHeartbeat \/ BeginRecv \/ recv_with_timeout \/ RecvTimeout
        \/ SendPart \/ NextFrame \/ HeartbeatSent \/ RequestSent \/ Published
        \/ SendTimeout \/ TryConsume \/ TryRecvBlocks \/ amqp_try_recv
        \/ Tick
        \/ \E chunk \in {"frame", "heartbeat", "part"} : BrokerSends(chunk)
        \/ ConnectionLost

Spec == Init /\ [][Next]_vars

-----------------------------------------------------------------------------
(* What consume_data makes of the bytes of one read. *)
Chunk == {"frame", "heartbeat", "part"}

Later(a, b) == IF a < b THEN b ELSE a

(* A call is in a wait: also while this one sends a heartbeat, and reads for it. *)
SendingHeartbeat ==
    sending = "heartbeat" /\ pc \in {"send", "try_consume", "try_recv"}

Waiting == pc \in {"consume", "beginrecv", "recv"} \/ SendingHeartbeat

(***************************************************************************)
(* A wait does not outlive a dead peer: at any point of it at most two     *)
(* heartbeat intervals have passed since the last byte came in, or since   *)
(* it began.  The one place where it can outlast them is the endless read  *)
(* of amqp_try_recv, entered when the wait's own heartbeat does not go out *)
(* before the receive timer ends.                                          *)
(***************************************************************************)
WaitNoticesSilence ==
    Waiting /\ heartbeat # 0
        => \/ now <= Later(began, lastHeard + 2 * heartbeat) + 1
           \/ pc = "try_recv"

(***************************************************************************)
(* A waiting client is never silent itself: at any point of a wait, however*)
(* many polls and reads it is made of, at most one interval has passed     *)
(* since the last frame went out or the wait began, or the heartbeat that  *)
(* is due is being sent.                                                   *)
(***************************************************************************)
WaitKeepsAlive ==
    Waiting /\ heartbeat # 0
        => \/ now <= Later(began, lastSent + heartbeat) + 1
           \/ SendingHeartbeat

(***************************************************************************)
(* A wait outlasts its caller's timeout only by the time its own heartbeat *)
(* takes to go out, which nothing bounds: bytes, parts of frames and the   *)
(* two heartbeat timers do not extend it.                                  *)
(***************************************************************************)
TimeoutHonoured ==
    Waiting => \/ now <= Later(Later(began, lastSent), timeout_deadline) + 1
               \/ SendingHeartbeat

(***************************************************************************)
(* A connection is declared dead only after two whole intervals without a  *)
(* byte from the peer.                                                     *)
(***************************************************************************)
DeclaredDeadOnlyWhenSilent ==
    status = "heartbeat_timeout" => /\ heartbeat # 0
                                    /\ now >= lastHeard + 2 * heartbeat

(***************************************************************************)
(* "Internal error: unable to determine timeout reason" (amqp_socket.c:828)*)
(* is never reached: no timer moves between the choice of the deadline and *)
(* the comparison with it.                                                 *)
(***************************************************************************)
ReasonKnown == status # "abort"

(***************************************************************************)
(* amqp.h:1894 of amqp_basic_publish: "AMQP_STATUS_HEARTBEAT_TIMEOUT:      *)
(* connection timed out waiting for a heartbeat from the broker".          *)
(***************************************************************************)
PublishNoticesSilence ==
    call = "publish" /\ Polling /\ heartbeat # 0
        => now <= Later(since, lastHeard + 2 * heartbeat) + 1
=============================================================================
