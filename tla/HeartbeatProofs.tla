-------------------------- MODULE HeartbeatProofs ---------------------------
(***************************************************************************)
(* Proofs about Heartbeat, for any heartbeat intervals, timeouts and frame *)
(* sizes: a wait notices a dead peer, keeps the client alive, keeps to its *)
(* caller's timeout, and never declares a live peer dead.                  *)
(***************************************************************************)
EXTENDS Heartbeat, SequenceTheorems, TLAPS

(* The clocks and the calls. *)
ClockOK == /\ now \in 0 .. MaxTime
           /\ heartbeat \in Heartbeats
           /\ since \in 0 .. now /\ began \in 0 .. now
           /\ lastHeard \in 0 .. now /\ lastSent \in 0 .. now
           /\ timeout_deadline \in Nat /\ deadline \in Nat

ChunksOK == /\ rx \in Seq(Chunk) /\ buf \in Seq(Chunk)
            /\ queued \in Seq({"frame", "heartbeat"})

(***************************************************************************)
(* The inductive invariant.  The timers are functions of the history; the  *)
(* deadline of a wait's poll is the first of the three timers, that of a   *)
(* send is the receive timer; and the three statements about waits hold,   *)
(* which are of a whole wait and so their own invariant.                   *)
(***************************************************************************)
TimerInv ==
    /\ next_recv_heartbeat = IF heartbeat = 0 THEN Infinite
                                              ELSE lastHeard + 2 * heartbeat
    /\ next_send_heartbeat = IF heartbeat = 0 THEN Infinite
                                              ELSE lastSent + heartbeat
    /\ pc = "recv" => deadline = RecvDeadline(next_send_heartbeat)
    /\ pc = "send" => deadline = amqp_time_first(Infinite, next_recv_heartbeat)

WaitInv == WaitNoticesSilence /\ WaitKeepsAlive /\ TimeoutHonoured

CallInv ==
    /\ pc # "idle" => call # "none" /\ status = "none"
    /\ pc = "idle" => call = "none"
    /\ status # "abort"
    /\ DeclaredDeadOnlyWhenSilent

IInv == ClockOK /\ ChunksOK /\ TimerInv /\ WaitInv /\ CallInv

LEMMA InitIInv == Init => IInv
<1> SUFFICES ASSUME Init PROVE IInv
  OBVIOUS
<1>1. ClockOK
  BY TimeAssumption DEF Init, ClockOK
<1>2. ChunksOK
  BY DEF Init, ChunksOK
<1>3. TimerInv
  <2>1. heartbeat \in Nat
    BY TimeAssumption DEF Init
  <2> QED
    BY <2>1 DEF Init, TimerInv, amqp_time_s_from_now, amqp_heartbeat_send, amqp_heartbeat_recv
<1>4. CallInv
  BY DEF Init, CallInv, DeclaredDeadOnlyWhenSilent
<1>5. WaitInv
  BY DEF Init, WaitInv, WaitNoticesSilence, WaitKeepsAlive, TimeoutHonoured,
         Waiting, SendingHeartbeat
<1> QED
  BY <1>1, <1>2, <1>3, <1>4, <1>5 DEF IInv

(* Chunks are moved, never made, on their way through the buffers. *)
LEMMA NextChunksOK == IInv /\ [Next]_vars => ChunksOK'
<1> SUFFICES ASSUME IInv, [Next]_vars PROVE ChunksOK'
  OBVIOUS
<1>1. rx \in Seq(Chunk) /\ buf \in Seq(Chunk) /\ queued \in Seq({"frame", "heartbeat"})
  BY DEF IInv, ChunksOK
<1>2. ASSUME UNCHANGED incoming PROVE ChunksOK'
  BY <1>1, <1>2 DEF ChunksOK, incoming
<1>3. ASSUME buf # << >>
      PROVE  Tail(buf) \in Seq(Chunk) /\ Head(buf) \in Chunk
  BY <1>1, <1>3, HeadTailProperties
<1>4. ASSUME NEW t \in Timeouts, amqp_simple_wait_frame_noblock(t) PROVE ChunksOK'
  <2>1. queued' \in Seq({"frame", "heartbeat"})
    BY <1>1, <1>4, HeadTailProperties DEF amqp_simple_wait_frame_noblock
  <2> QED
    BY <1>1, <1>4, <2>1 DEF amqp_simple_wait_frame_noblock, ChunksOK
<1>5. CASE ConsumeNoFrame \/ ReturnFrame
  BY <1>1, <1>3, <1>5 DEF ConsumeNoFrame, ReturnFrame, ChunksOK
<1>6. CASE QueueFrame
  <2>1. queued' \in Seq({"frame", "heartbeat"})
    BY <1>1, <1>6, AppendProperties DEF QueueFrame
  <2> QED
    BY <1>1, <1>3, <1>6, <2>1 DEF QueueFrame, ChunksOK
<1>7. ASSUME TakeBytes, UNCHANGED queued PROVE ChunksOK'
  <2>1. PICK k \in 1 .. Len(rx) : /\ buf' = SubSeq(rx, 1, k)
                                  /\ rx' = SubSeq(rx, k + 1, Len(rx))
    BY <1>7 DEF TakeBytes
  <2>2. Len(rx) \in Nat /\ \A i \in 1 .. Len(rx) : rx[i] \in Chunk
    BY <1>1
  <2>3. /\ \A i \in 1 .. k : rx[i] \in Chunk
        /\ \A i \in k + 1 .. Len(rx) : rx[i] \in Chunk
    BY <2>2
  <2>4. SubSeq(rx, 1, k) \in Seq(Chunk) /\ SubSeq(rx, k + 1, Len(rx)) \in Seq(Chunk)
    BY <2>2, <2>3, SubSeqProperties
  <2> QED
    BY <1>1, <1>7, <2>1, <2>4 DEF ChunksOK
<1>8. CASE recv_with_timeout
  BY <1>7, <1>8 DEF recv_with_timeout
<1>9. CASE amqp_try_recv
  BY <1>7, <1>9 DEF amqp_try_recv
<1>10. CASE TryConsume
  <2>1. Head(buf) # "part" => Head(buf) \in {"frame", "heartbeat"}
    BY <1>3, <1>10 DEF TryConsume, Chunk
  <2>2. queued' \in Seq({"frame", "heartbeat"})
    BY <1>1, <1>10, <2>1, AppendProperties DEF TryConsume
  <2> QED
    BY <1>1, <1>3, <1>10, <2>2 DEF TryConsume, ChunksOK
<1>11. ASSUME NEW chunk \in {"frame", "heartbeat", "part"}, BrokerSends(chunk)
       PROVE  ChunksOK'
  <2>1. rx' \in Seq(Chunk)
    BY <1>1, <1>11, AppendProperties DEF BrokerSends, Chunk
  <2> QED
    BY <1>1, <1>11, <2>1 DEF BrokerSends, ChunksOK
<1>12. ASSUME NEW t \in Timeouts, amqp_simple_rpc(t) PROVE ChunksOK'
  BY <1>2, <1>12 DEF amqp_simple_rpc
<1>13. ASSUME NEW n \in 1 .. MaxFrames, amqp_basic_publish(n) PROVE ChunksOK'
  BY <1>2, <1>13 DEF amqp_basic_publish
<1>14. CASE SendHeartbeat \/ BeginRecv \/ RecvTimeout
  BY <1>2, <1>14 DEF SendHeartbeat, BeginRecv, RecvTimeout
<1>15. CASE SendPart \/ NextFrame \/ HeartbeatSent \/ RequestSent \/ Published
  BY <1>2, <1>15 DEF SendPart, NextFrame, HeartbeatSent, RequestSent, Published, FrameSent
<1>16. CASE SendTimeout \/ TryRecvBlocks \/ Tick \/ ConnectionLost
  BY <1>2, <1>16 DEF SendTimeout, TryRecvBlocks, Tick, ConnectionLost
<1>17. CASE UNCHANGED vars
  BY <1>2, <1>17 DEF vars, incoming
<1> QED
  BY <1>4, <1>5, <1>6, <1>8, <1>9, <1>10, <1>11, <1>12, <1>13, <1>14, <1>15,
     <1>16, <1>17 DEF Next

(* What every step may use of the invariant and of the assumptions. *)
LEMMA ClockFacts ==
  ASSUME IInv
  PROVE  /\ now \in Nat /\ now <= MaxTime /\ MaxTime \in Nat
         /\ Infinite \in Nat /\ now + 1 < Infinite
         /\ heartbeat \in Nat
         /\ since \in Nat /\ since <= now /\ began \in Nat /\ began <= now
         /\ lastHeard \in Nat /\ lastHeard <= now
         /\ lastSent \in Nat /\ lastSent <= now
         /\ timeout_deadline \in Nat /\ deadline \in Nat
         /\ next_send_heartbeat \in Nat /\ next_recv_heartbeat \in Nat
<1>1. /\ now \in Nat /\ now <= MaxTime /\ MaxTime \in Nat /\ Infinite \in Nat
      /\ now + 1 < Infinite /\ heartbeat \in Nat
  BY TimeAssumption DEF IInv, ClockOK
<1>2. /\ since \in Nat /\ since <= now /\ began \in Nat /\ began <= now
      /\ lastHeard \in Nat /\ lastHeard <= now
      /\ lastSent \in Nat /\ lastSent <= now
      /\ timeout_deadline \in Nat /\ deadline \in Nat
  BY <1>1 DEF IInv, ClockOK
<1> QED
  BY <1>1, <1>2 DEF IInv, TimerInv

LEMMA NextClockOK == IInv /\ [Next]_vars => ClockOK'
<1> SUFFICES ASSUME IInv, [Next]_vars PROVE ClockOK'
  OBVIOUS
<1>0. /\ now \in Nat /\ MaxTime \in Nat /\ Infinite \in Nat
      /\ next_send_heartbeat \in Nat /\ next_recv_heartbeat \in Nat
      /\ heartbeat \in Nat
  BY ClockFacts
<1>1. ClockOK
  BY DEF IInv
<1>2. ASSUME NEW t \in Timeouts PROVE amqp_time_from_now(t) \in Nat
  BY <1>0, TimeAssumption DEF amqp_time_from_now
<1>3. ASSUME NEW t \in Timeouts, amqp_simple_wait_frame_noblock(t) PROVE ClockOK'
  BY <1>1, <1>2, <1>3 DEF amqp_simple_wait_frame_noblock, ClockOK, timers
<1>4. ASSUME NEW t \in Timeouts, amqp_simple_rpc(t) PROVE ClockOK'
  BY <1>0, <1>1, <1>2, <1>4
  DEF amqp_simple_rpc, StartSend, Block, amqp_time_first, ClockOK, timers
<1>5. ASSUME NEW n \in 1 .. MaxFrames, amqp_basic_publish(n) PROVE ClockOK'
  BY <1>0, <1>1, <1>5
  DEF amqp_basic_publish, StartSend, Block, amqp_time_first, ClockOK, timers
<1>6. CASE ConsumeNoFrame \/ ReturnFrame \/ QueueFrame
  BY <1>1, <1>6 DEF ConsumeNoFrame, ReturnFrame, QueueFrame, Return, ClockOK, timers
<1>7. CASE SendHeartbeat \/ BeginRecv
  BY <1>0, <1>1, <1>7
  DEF SendHeartbeat, BeginRecv, StartSend, Block, RecvDeadline, amqp_time_first, ClockOK, timers
<1>8. CASE recv_with_timeout
  BY <1>0, <1>1, <1>8 DEF recv_with_timeout, TakeBytes, ClockOK
<1>9. CASE RecvTimeout
  BY <1>1, <1>9 DEF RecvTimeout, Return, ClockOK, timers
<1>10. CASE SendPart \/ SendTimeout
  BY <1>1, <1>10 DEF SendPart, SendTimeout, ClockOK, timers
<1>11. CASE NextFrame
  BY <1>0, <1>1, <1>11 DEF NextFrame, FrameSent, StartSend, Block, amqp_time_first, ClockOK
<1>12. CASE HeartbeatSent
  <2>1. next_send_heartbeat' \in Nat
    BY <1>0, <1>12
    DEF HeartbeatSent, FrameSent, amqp_time_s_from_now, amqp_heartbeat_send
  <2>2. RecvDeadline(next_send_heartbeat') \in Nat
    BY <1>0, <1>1, <2>1 DEF RecvDeadline, amqp_time_first, ClockOK
  <2> QED
    BY <1>0, <1>1, <1>12, <2>2 DEF HeartbeatSent, FrameSent, Block, ClockOK
<1>13. CASE RequestSent \/ Published
  BY <1>0, <1>1, <1>13 DEF RequestSent, Published, FrameSent, ClockOK
<1>14. CASE TryConsume \/ TryRecvBlocks
  <2>1. CASE TryConsume
    BY <1>1, <2>1 DEF TryConsume, ClockOK, timers
  <2>2. CASE TryRecvBlocks
    <3>1. /\ deadline' = Infinite /\ since' = now
          /\ UNCHANGED <<now, began, heartbeat, lastHeard, lastSent, timeout_deadline>>
      BY <2>2 DEF TryRecvBlocks, Block, amqp_time_s_from_now, timers
    <3> QED
      BY <1>0, <1>1, <3>1 DEF ClockOK
  <2> QED
    BY <1>14, <2>1, <2>2
<1>15. CASE amqp_try_recv
  <2>1. next_recv_heartbeat' \in Nat
    BY <1>0, <1>15 DEF amqp_try_recv, TakeBytes, amqp_time_s_from_now, amqp_heartbeat_recv
  <2> QED
    BY <1>0, <1>1, <1>15, <2>1
    DEF amqp_try_recv, TakeBytes, StartSend, Block, amqp_time_first, ClockOK
<1>16. CASE Tick
  BY <1>0, <1>1, <1>16 DEF Tick, ClockOK, timers
<1>17. ASSUME NEW chunk \in {"frame", "heartbeat", "part"}, BrokerSends(chunk)
       PROVE  ClockOK'
  BY <1>1, <1>17 DEF BrokerSends, ClockOK, timers
<1>18. CASE ConnectionLost
  BY <1>1, <1>18 DEF ConnectionLost, Return, ClockOK, timers
<1>19. CASE UNCHANGED vars
  BY <1>1, <1>19 DEF vars, ClockOK
<1> QED
  BY <1>3, <1>4, <1>5, <1>6, <1>7, <1>8, <1>9, <1>10, <1>11, <1>12, <1>13,
     <1>14, <1>15, <1>16, <1>17, <1>18, <1>19 DEF Next

(***************************************************************************)
(* Outside of poll the timers alone matter: they move only with the        *)
(* history.                                                                *)
(***************************************************************************)
LEMMA NextTimerInv == IInv /\ [Next]_vars => TimerInv'
<1> SUFFICES ASSUME IInv, [Next]_vars PROVE TimerInv'
  OBVIOUS
<1>0. heartbeat \in Nat
  BY ClockFacts
<1>1. TimerInv
  BY DEF IInv
<1>2. ASSUME UNCHANGED timers, pc' \notin {"recv", "send"} PROVE TimerInv'
  BY <1>1, <1>2 DEF TimerInv, timers
<1>3. ASSUME UNCHANGED <<timers, pc, deadline, timeout_deadline>> PROVE TimerInv'
  BY <1>1, <1>3 DEF TimerInv, RecvDeadline, timers
<1>4. ASSUME UNCHANGED timers, StartSend(next_recv_heartbeat) PROVE TimerInv'
  BY <1>1, <1>4 DEF TimerInv, timers, StartSend, Block
<1>5. ASSUME NEW t \in Timeouts, amqp_simple_wait_frame_noblock(t) PROVE TimerInv'
  <2>1. CASE queued # << >>
    BY <1>3, <1>5, <2>1 DEF amqp_simple_wait_frame_noblock
  <2>2. CASE queued = << >>
    BY <1>2, <1>5, <2>2 DEF amqp_simple_wait_frame_noblock
  <2> QED
    BY <2>1, <2>2
<1>6. ASSUME NEW t \in Timeouts, amqp_simple_rpc(t) PROVE TimerInv'
  BY <1>4, <1>6 DEF amqp_simple_rpc
<1>7. ASSUME NEW n \in 1 .. MaxFrames, amqp_basic_publish(n) PROVE TimerInv'
  BY <1>2, <1>4, <1>7 DEF amqp_basic_publish
<1>8. CASE ConsumeNoFrame \/ QueueFrame \/ SendPart \/ TryConsume
  BY <1>3, <1>8 DEF ConsumeNoFrame, QueueFrame, SendPart, TryConsume
<1>9. CASE ReturnFrame \/ RecvTimeout \/ ConnectionLost \/ SendTimeout
  BY <1>2, <1>9 DEF ReturnFrame, RecvTimeout, ConnectionLost, SendTimeout, Return
<1>10. CASE SendHeartbeat
  BY <1>4, <1>10 DEF SendHeartbeat
<1>11. CASE TryRecvBlocks
  BY <1>2, <1>11 DEF TryRecvBlocks, Block
<1>12. CASE BeginRecv
  <2>1. /\ pc' = "recv" /\ deadline' = RecvDeadline(next_send_heartbeat)
        /\ UNCHANGED <<timeout_deadline, timers>>
    BY <1>12 DEF BeginRecv, Block
  <2> QED
    BY <1>1, <2>1 DEF TimerInv, RecvDeadline, timers
<1>13. CASE recv_with_timeout \/ amqp_try_recv
  <2>1. /\ next_recv_heartbeat' = amqp_time_s_from_now(amqp_heartbeat_recv)
        /\ lastHeard' = now /\ pc' # "recv"
        /\ pc' = "send" => deadline' = amqp_time_first(Infinite, next_recv_heartbeat')
        /\ UNCHANGED <<heartbeat, next_send_heartbeat, lastSent>>
    BY <1>13 DEF recv_with_timeout, amqp_try_recv, TakeBytes, StartSend, Block
  <2>2. next_recv_heartbeat' = IF heartbeat = 0 THEN Infinite ELSE now + 2 * heartbeat
    BY <1>0, <2>1 DEF amqp_time_s_from_now, amqp_heartbeat_recv
  <2> QED
    BY <1>1, <2>1, <2>2 DEF TimerInv
<1>14. ASSUME FrameSent,
              pc' = "recv" => /\ UNCHANGED timeout_deadline
                              /\ deadline' = RecvDeadline(next_send_heartbeat'),
              pc' = "send" => deadline' = amqp_time_first(Infinite, next_recv_heartbeat)
       PROVE  TimerInv'
  <2>1. /\ next_send_heartbeat' = IF heartbeat = 0 THEN Infinite ELSE now + heartbeat
        /\ lastSent' = now /\ UNCHANGED <<heartbeat, next_recv_heartbeat, lastHeard>>
    BY <1>0, <1>14 DEF FrameSent, amqp_time_s_from_now, amqp_heartbeat_send
  <2>2. pc' = "recv" => deadline' = RecvDeadline(next_send_heartbeat)'
    BY <1>14, <2>1 DEF RecvDeadline
  <2>3. pc' = "send" => deadline' = amqp_time_first(Infinite, next_recv_heartbeat)'
    BY <1>14, <2>1
  <2> QED
    BY <1>1, <2>1, <2>2, <2>3 DEF TimerInv
<1>15. CASE NextFrame \/ RequestSent \/ Published
  BY <1>14, <1>15 DEF NextFrame, RequestSent, Published, StartSend, Block
<1>16. CASE HeartbeatSent
  BY <1>14, <1>16 DEF HeartbeatSent, FrameSent, Block
<1>17. CASE Tick
  BY <1>3, <1>17 DEF Tick
<1>18. ASSUME NEW chunk \in {"frame", "heartbeat", "part"}, BrokerSends(chunk)
       PROVE  TimerInv'
  BY <1>3, <1>18 DEF BrokerSends
<1>19. CASE UNCHANGED vars
  BY <1>3, <1>19 DEF vars, timers
<1> QED
  BY <1>5, <1>6, <1>7, <1>8, <1>9, <1>10, <1>11, <1>12, <1>13, <1>15, <1>16,
     <1>17, <1>18, <1>19 DEF Next

(***************************************************************************)
(* The three statements about waits.  Time passes in a wait only where the *)
(* deadline of the poll has not passed, and in no other step does a wait   *)
(* reach a place of which they say more.                                   *)
(***************************************************************************)
LEMMA NextWaitInv == IInv /\ [Next]_vars => WaitInv'
<1> SUFFICES ASSUME IInv, [Next]_vars PROVE WaitInv'
  OBVIOUS
<1> USE DEF WaitInv, WaitNoticesSilence, WaitKeepsAlive, TimeoutHonoured,
            SendingHeartbeat
<1>0. /\ now \in Nat /\ Infinite \in Nat /\ now + 1 < Infinite /\ heartbeat \in Nat
      /\ next_send_heartbeat \in Nat /\ next_recv_heartbeat \in Nat
      /\ timeout_deadline \in Nat /\ deadline \in Nat
      /\ lastHeard \in Nat /\ lastSent \in Nat /\ began \in Nat
  BY ClockFacts
<1>1. WaitInv
  BY DEF IInv
<1>2. ASSUME ~Waiting' PROVE WaitInv'
  BY <1>2
<1>3. ASSUME began' = now, UNCHANGED <<now, heartbeat, lastHeard, lastSent>>,
             timeout_deadline' \in Nat
      PROVE  WaitInv'
  <2>1. \A a \in Nat, b \in Nat : a <= Later(a, b) /\ Later(a, b) \in Nat
    BY DEF Later
  <2>2. heartbeat' = heartbeat /\ lastHeard' + 2 * heartbeat \in Nat
        /\ lastSent' + heartbeat \in Nat
    BY <1>0, <1>3
  <2>3. \A a \in Nat, b \in Nat : now <= a => now <= Later(a, b) + 1
    BY <1>0, <2>1
  <2>4. /\ now <= Later(now, lastHeard' + 2 * heartbeat') + 1
        /\ now <= Later(now, lastSent' + heartbeat') + 1
    BY <1>0, <2>2, <2>3
  <2>5. now <= Later(Later(now, lastSent'), timeout_deadline') + 1
    BY <1>0, <1>3, <2>1, <2>3
  <2>6. now' = now /\ began' = now
    BY <1>3
  <2> QED
    BY <2>4, <2>5, <2>6 DEF Later
<1>4. ASSUME Waiting, UNCHANGED <<now, began, timers, timeout_deadline>>,
             pc = "try_recv" => pc' = "try_recv", SendingHeartbeat => SendingHeartbeat'
      PROVE  WaitInv'
  BY <1>1, <1>4 DEF timers, Later
<1>5. ASSUME UNCHANGED <<now, began, timers, timeout_deadline, pc, sending>>
      PROVE  WaitInv'
  BY <1>1, <1>5 DEF timers, Later, Waiting
<1>6. ASSUME NEW t \in Timeouts, amqp_simple_wait_frame_noblock(t) PROVE WaitInv'
  <2>1. CASE queued # << >>
    BY <1>5, <1>6, <2>1 DEF amqp_simple_wait_frame_noblock, outgoing
  <2>2. CASE queued = << >>
    <3>1. timeout_deadline' \in Nat
      BY NextClockOK DEF ClockOK
    <3> QED
      BY <1>3, <1>6, <2>2, <3>1 DEF amqp_simple_wait_frame_noblock, timers
  <2> QED
    BY <2>1, <2>2
<1>7. ASSUME NEW t \in Timeouts, amqp_simple_rpc(t) PROVE WaitInv'
  BY <1>2, <1>7 DEF amqp_simple_rpc, StartSend, Block, Waiting
<1>8. ASSUME NEW n \in 1 .. MaxFrames, amqp_basic_publish(n) PROVE WaitInv'
  BY <1>2, <1>8 DEF amqp_basic_publish, StartSend, Block, Waiting
<1>9. CASE ConsumeNoFrame \/ QueueFrame \/ SendPart \/ TryConsume
  BY <1>5, <1>9 DEF ConsumeNoFrame, QueueFrame, SendPart, TryConsume, outgoing
<1>10. CASE ReturnFrame \/ ConnectionLost
  BY <1>2, <1>10 DEF ReturnFrame, ConnectionLost, Return, Waiting
<1>11. CASE RecvTimeout
  <2>1. CASE Reason = "again"
    BY <1>4, <1>11, <2>1 DEF RecvTimeout, Waiting
  <2>2. CASE Reason # "again"
    BY <1>2, <1>11, <2>2 DEF RecvTimeout, Return, Waiting
  <2> QED
    BY <2>1, <2>2
<1>12. CASE SendHeartbeat \/ BeginRecv
  BY <1>4, <1>12 DEF SendHeartbeat, BeginRecv, StartSend, Block, Waiting
<1>13. CASE SendTimeout \/ TryRecvBlocks
  <2>1. /\ pc \in {"send", "try_consume"} /\ pc' \in {"try_consume", "try_recv"}
        /\ UNCHANGED <<now, began, timers, timeout_deadline, sending>>
    BY <1>13 DEF SendTimeout, TryRecvBlocks, Block, outgoing
  <2>2. CASE sending = "heartbeat"
    BY <1>4, <2>1, <2>2 DEF Waiting
  <2>3. CASE sending # "heartbeat"
    BY <1>2, <2>1, <2>3 DEF Waiting
  <2> QED
    BY <2>2, <2>3
<1>14. CASE recv_with_timeout
  <2>1. /\ lastHeard' = now /\ pc = "recv" /\ pc' = "consume"
        /\ UNCHANGED <<now, began, heartbeat, lastSent, timeout_deadline>>
    BY <1>14 DEF recv_with_timeout, TakeBytes
  <2> QED
    BY <1>0, <1>1, <2>1 DEF Later, Waiting
<1>15. CASE amqp_try_recv
  <2>1. /\ lastHeard' = now /\ pc' = "send"
        /\ UNCHANGED <<now, began, heartbeat, lastSent, timeout_deadline, sending>>
    BY <1>15 DEF amqp_try_recv, TakeBytes, StartSend, Block
  <2> QED
    BY <1>0, <2>1 DEF Later, Waiting
<1>16. CASE NextFrame
  <2>1. /\ pc = "send" /\ pc' = "send" /\ lastSent' = now
        /\ UNCHANGED <<now, began, heartbeat, lastHeard, timeout_deadline, sending>>
    BY <1>16 DEF NextFrame, FrameSent, StartSend, Block
  <2> QED
    BY <1>0, <1>1, <2>1 DEF Later, Waiting
<1>17. CASE HeartbeatSent
  <2>1. /\ pc = "send" /\ sending = "heartbeat" /\ pc' = "recv" /\ lastSent' = now
        /\ UNCHANGED <<now, began, heartbeat, lastHeard, timeout_deadline>>
    BY <1>17 DEF HeartbeatSent, FrameSent, Block
  <2> QED
    BY <1>0, <1>1, <2>1 DEF Later, Waiting
<1>18. CASE RequestSent
  <2>1. /\ began' = now /\ lastSent' = now
        /\ UNCHANGED <<now, heartbeat, lastHeard, timeout_deadline>>
    BY <1>18 DEF RequestSent, FrameSent
  <2> QED
    BY <1>0, <2>1 DEF Later
<1>19. CASE Published
  BY <1>2, <1>19 DEF Published, Waiting
<1>20. CASE Tick
  <2>1. /\ now' = now + 1
        /\ pc = "idle" \/ (Polling /\ now <= deadline)
        /\ UNCHANGED <<began, timers, timeout_deadline, pc, sending>>
    BY <1>20 DEF Tick, outgoing
  <2>2. /\ heartbeat # 0 => /\ next_recv_heartbeat = lastHeard + 2 * heartbeat
                            /\ next_send_heartbeat = lastSent + heartbeat
        /\ pc = "recv" => deadline = RecvDeadline(next_send_heartbeat)
        /\ pc = "send" => deadline = amqp_time_first(Infinite, next_recv_heartbeat)
    BY DEF IInv, TimerInv
  <2>3. CASE pc = "recv"
    <3>1. /\ now <= timeout_deadline /\ now <= next_recv_heartbeat
          /\ now <= next_send_heartbeat
      BY <1>0, <2>1, <2>2, <2>3 DEF RecvDeadline, amqp_time_first
    <3> QED
      BY <1>0, <2>1, <2>2, <2>3, <3>1 DEF Later, timers
  <2>4. CASE pc = "send"
    <3>1. now <= next_recv_heartbeat
      BY <1>0, <2>1, <2>2, <2>4 DEF amqp_time_first
    <3> QED
      BY <1>0, <2>1, <2>2, <2>4, <3>1 DEF Later, timers, Waiting
  <2>5. CASE pc = "try_recv"
    BY <2>1, <2>5 DEF Waiting
  <2>6. CASE pc = "idle"
    BY <1>2, <2>1, <2>6 DEF Waiting
  <2> QED
    BY <2>1, <2>3, <2>4, <2>5, <2>6 DEF Polling
<1>21. ASSUME NEW chunk \in {"frame", "heartbeat", "part"}, BrokerSends(chunk)
       PROVE  WaitInv'
  BY <1>5, <1>21 DEF BrokerSends, outgoing
<1>22. CASE UNCHANGED vars
  BY <1>5, <1>22 DEF vars, timers
<1> QED
  BY <1>6, <1>7, <1>8, <1>9, <1>10, <1>11, <1>12, <1>13, <1>14, <1>15, <1>16,
     <1>17, <1>18, <1>19, <1>20, <1>21, <1>22 DEF Next

(***************************************************************************)
(* A wait that gives up knows why, and blames the peer only when its time  *)
(* is up.                                                                  *)
(***************************************************************************)
LEMMA ReasonIsSound ==
  ASSUME IInv, RecvTimeout
  PROVE  /\ Reason \in {"heartbeat_timeout", "timeout", "again"}
         /\ Reason = "heartbeat_timeout"
               => heartbeat # 0 /\ now >= lastHeard + 2 * heartbeat
<1>1. /\ now \in Nat /\ Infinite \in Nat /\ now < Infinite /\ deadline \in Nat
      /\ next_send_heartbeat \in Nat /\ next_recv_heartbeat \in Nat
      /\ timeout_deadline \in Nat
  BY ClockFacts
<1>2. deadline = RecvDeadline(next_send_heartbeat) /\ now >= deadline
  BY DEF RecvTimeout, IInv, TimerInv
<1>3. deadline \in {timeout_deadline, next_recv_heartbeat, next_send_heartbeat}
  BY <1>1, <1>2 DEF RecvDeadline, amqp_time_first
<1>4. Reason \in {"heartbeat_timeout", "timeout", "again"}
  BY <1>3 DEF Reason
<1>5. Reason = "heartbeat_timeout" => deadline = next_recv_heartbeat
  BY DEF Reason
<1>6. next_recv_heartbeat # Infinite /\ now >= next_recv_heartbeat
         => heartbeat # 0 /\ now >= lastHeard + 2 * heartbeat
  BY DEF IInv, TimerInv
<1> QED
  BY <1>1, <1>2, <1>4, <1>5, <1>6

LEMMA NextCallInv == IInv /\ [Next]_vars => CallInv'
<1> SUFFICES ASSUME IInv, [Next]_vars PROVE CallInv'
  OBVIOUS
<1>0. /\ now \in Nat /\ heartbeat \in Nat /\ lastHeard \in Nat
      /\ queued \in Seq({"frame", "heartbeat"})
  BY ClockFacts DEF IInv, ChunksOK
<1>1. CallInv
  BY DEF IInv
<1>2. ASSUME pc' # "idle", call' # "none", status' = "none" PROVE CallInv'
  BY <1>2 DEF CallInv, DeclaredDeadOnlyWhenSilent
<1>3. ASSUME pc' = "idle", call' = "none", status' \notin {"abort", "heartbeat_timeout"}
      PROVE  CallInv'
  BY <1>3 DEF CallInv, DeclaredDeadOnlyWhenSilent
<1>4. ASSUME pc # "idle", pc' # "idle", UNCHANGED <<call, status>> PROVE CallInv'
  BY <1>1, <1>2, <1>4 DEF CallInv
<1>5. ASSUME UNCHANGED <<pc, call, status, heartbeat, lastHeard>>, now' >= now
      PROVE  CallInv'
  <2>1. now' >= now /\ now >= lastHeard + 2 * heartbeat
           => now' >= lastHeard + 2 * heartbeat
    <3>1. now' \in Nat
      BY NextClockOK DEF ClockOK
    <3> QED
      BY <1>0, <3>1
  <2> QED
    BY <1>1, <1>5, <2>1 DEF CallInv, DeclaredDeadOnlyWhenSilent
<1>6. ASSUME NEW t \in Timeouts, amqp_simple_wait_frame_noblock(t) PROVE CallInv'
  <2>1. CASE queued # << >>
    <3>1. Head(queued) \in {"frame", "heartbeat"}
      BY <1>0, <2>1, HeadTailProperties
    <3>2. pc = "idle"
      BY <1>1, <1>6 DEF CallInv, amqp_simple_wait_frame_noblock, Ready
    <3> QED
      BY <1>3, <1>6, <2>1, <3>1, <3>2 DEF amqp_simple_wait_frame_noblock, Ready
  <2>2. CASE queued = << >>
    BY <1>2, <1>6, <2>2 DEF amqp_simple_wait_frame_noblock
  <2> QED
    BY <2>1, <2>2
<1>7. ASSUME NEW t \in Timeouts, amqp_simple_rpc(t) PROVE CallInv'
  BY <1>2, <1>7 DEF amqp_simple_rpc, StartSend, Block
<1>8. ASSUME NEW n \in 1 .. MaxFrames, amqp_basic_publish(n) PROVE CallInv'
  BY <1>2, <1>8 DEF amqp_basic_publish, StartSend, Block
<1>9. CASE ConsumeNoFrame \/ QueueFrame
  BY <1>4, <1>9 DEF ConsumeNoFrame, QueueFrame
<1>10. CASE ReturnFrame \/ ConnectionLost
  BY <1>3, <1>10 DEF ReturnFrame, ConnectionLost, Return
<1>11. CASE SendHeartbeat \/ BeginRecv
  BY <1>4, <1>11 DEF SendHeartbeat, BeginRecv, StartSend, Block
<1>12. CASE recv_with_timeout \/ amqp_try_recv
  BY <1>4, <1>12 DEF recv_with_timeout, amqp_try_recv, StartSend, Block
<1>13. CASE RecvTimeout
  <2>1. /\ Reason \in {"heartbeat_timeout", "timeout", "again"}
        /\ Reason = "heartbeat_timeout"
              => heartbeat # 0 /\ now >= lastHeard + 2 * heartbeat
    BY <1>13, ReasonIsSound
  <2>2. CASE Reason = "again"
    BY <1>4, <1>13, <2>2 DEF RecvTimeout
  <2>3. CASE Reason = "timeout"
    BY <1>3, <1>13, <2>3 DEF RecvTimeout, Return
  <2>4. CASE Reason = "heartbeat_timeout"
    <3>1. /\ pc' = "idle" /\ call' = "none" /\ status' = "heartbeat_timeout"
          /\ UNCHANGED <<now, heartbeat, lastHeard>>
      BY <1>13, <2>4 DEF RecvTimeout, Return, timers
    <3> QED
      BY <2>1, <2>4, <3>1 DEF CallInv, DeclaredDeadOnlyWhenSilent
  <2> QED
    BY <2>1, <2>2, <2>3, <2>4
<1>14. CASE SendPart \/ SendTimeout \/ TryConsume \/ TryRecvBlocks
  BY <1>4, <1>14 DEF SendPart, SendTimeout, TryConsume, TryRecvBlocks, Block
<1>15. CASE NextFrame \/ HeartbeatSent \/ RequestSent
  BY <1>4, <1>15 DEF NextFrame, HeartbeatSent, RequestSent, FrameSent, StartSend, Block
<1>16. CASE Published
  BY <1>3, <1>16 DEF Published
<1>17. CASE Tick
  BY <1>0, <1>5, <1>17 DEF Tick, timers
<1>18. ASSUME NEW chunk \in {"frame", "heartbeat", "part"}, BrokerSends(chunk)
       PROVE  CallInv'
  BY <1>0, <1>5, <1>18 DEF BrokerSends, timers
<1>19. CASE UNCHANGED vars
  BY <1>0, <1>5, <1>19 DEF vars
<1> QED
  BY <1>6, <1>7, <1>8, <1>9, <1>10, <1>11, <1>12, <1>13, <1>14, <1>15, <1>16,
     <1>17, <1>18, <1>19 DEF Next

LEMMA NextIInv == IInv /\ [Next]_vars => IInv'
BY NextChunksOK, NextClockOK, NextTimerInv, NextWaitInv, NextCallInv DEF IInv

LEMMA AlwaysIInv == Spec => []IInv
BY InitIInv, NextIInv, PTL DEF Spec

(***************************************************************************)
(* Nowhere in a wait have more than two intervals and a tick passed since  *)
(* the last byte, but in the read behind its own blocked heartbeat.        *)
(***************************************************************************)
THEOREM WaitsNoticeSilence == Spec => []WaitNoticesSilence
<1>1. IInv => WaitNoticesSilence
  BY DEF IInv, WaitInv
<1> QED
  BY <1>1, AlwaysIInv, PTL

(***************************************************************************)
(* Nowhere in a wait have more than an interval and a tick passed since    *)
(* the last frame went out, but while its heartbeat is being sent.         *)
(***************************************************************************)
THEOREM WaitsKeepAlive == Spec => []WaitKeepsAlive
<1>1. IInv => WaitKeepsAlive
  BY DEF IInv, WaitInv
<1> QED
  BY <1>1, AlwaysIInv, PTL

(***************************************************************************)
(* No wait outlasts its caller's timeout by more than a tick and the time  *)
(* its own heartbeats take to be sent.                                     *)
(***************************************************************************)
THEOREM TimeoutsHonoured == Spec => []TimeoutHonoured
<1>1. IInv => TimeoutHonoured
  BY DEF IInv, WaitInv
<1> QED
  BY <1>1, AlwaysIInv, PTL

(***************************************************************************)
(* A live peer is never declared dead.                                     *)
(***************************************************************************)
THEOREM DeclaredDeadSoundly == Spec => []DeclaredDeadOnlyWhenSilent
<1>1. IInv => DeclaredDeadOnlyWhenSilent
  BY DEF IInv, CallInv
<1> QED
  BY <1>1, AlwaysIInv, PTL

(***************************************************************************)
(* The abort in wait_frame_inner is unreachable.                           *)
(***************************************************************************)
THEOREM ReasonAlwaysKnown == Spec => []ReasonKnown
<1>1. IInv => ReasonKnown
  BY DEF IInv, CallInv, ReasonKnown
<1> QED
  BY <1>1, AlwaysIInv, PTL
=============================================================================
