------------------------- MODULE FrameParserProofs --------------------------
(***************************************************************************)
(* Proofs about FrameParser, for every frame_max, every set of frames and  *)
(* of garbage, every way of cutting the stream into chunks and every       *)
(* mixture of waits and of sends that block.                               *)
(***************************************************************************)
EXTENDS FrameParser, TLAPS

(* The bytes below n are in place, but for one that is zero anyway. *)
Prefix(h, f, n) == \A i \in 0 .. n - 1 : i \in h \/ (i = HEADER_SIZE /\ f.zero7)

(***************************************************************************)
(* What each parser state says about the buffer and, in step, the stream.  *)
(* The first frame is parsed before there is a heartbeat to be sent.       *)
(***************************************************************************)
StateInv ==
    /\ state = "INITIAL" => /\ cur \in First /\ pos # Astray
                            /\ pc \in {"wait", "send"}
                            /\ target_size = HEADER_SIZE + 1
                            /\ buffer_len = HEADER_SIZE + 1
    /\ state = "IDLE" => /\ cur \in Frame \cup Garbage
                         /\ inbound_offset = 0
                         /\ target_size = HEADER_SIZE
                         /\ buffer_len = HEADER_SIZE + 1
    /\ state = "HEADER" => /\ cur \in Frame \cup Garbage
                           /\ target_size = HEADER_SIZE
                           /\ buffer_len = HEADER_SIZE + 1
    /\ state = "BODY" => /\ cur.type # "PROTOCOL"
                         /\ inbound_offset >= HEADER_SIZE
                         /\ target_size = WireSize(cur)
                         /\ buffer_len = WireSize(cur)

(* What the buffer holds of a frame the parser is in step with. *)
HeldInv ==
    pos # Astray => IF state = "BODY" THEN Prefix(held, cur, inbound_offset)
                                      ELSE held = 0 .. inbound_offset - 1

IInv == TypeOK /\ BufferFits /\ InStep /\ StateInv /\ HeldInv /\ DeliveredWhole

LEMMA InitIInv == Init => IInv
<1> SUFFICES ASSUME Init PROVE IInv
  OBVIOUS
<1> USE SizeAssumption, FrameAssumption
<1>1. NoFrame \in AnyFrame
  BY DEF NoFrame, AnyFrame, FrameType
<1>2. TypeOK
  <2>1. out \in [frame : AnyFrame, held : SUBSET Nat]
    BY <1>1 DEF Init
  <2>2. held \subseteq Nat /\ avail \in 0 .. MaxChunk /\ cur \in AnyFrame
    BY DEF Init
  <2>3. dead \in BOOLEAN
    BY DEF Init
  <2>4. /\ pos \in Int \cup {Astray} /\ inbound_offset \in Nat
        /\ target_size \in Nat /\ buffer_len \in Nat
    BY DEF Init
  <2>6. pc \in {"wait", "send", "beat", "resume"}
    BY DEF Init
  <2>5. state \in {"INITIAL", "IDLE", "HEADER", "BODY"}
    BY DEF Init
  <2> QED
    BY <2>1, <2>2, <2>3, <2>4, <2>5, <2>6 DEF TypeOK
<1>3. cur \in AnyFrame /\ cur.size \in Nat
  BY DEF Init, AnyFrame
<1>4. BufferFits /\ InStep
  BY <1>3 DEF Init, BufferFits, InStep, WireSize
<1>5. StateInv /\ HeldInv
  BY AstrayAssumption, <1>3 DEF Init, StateInv, HeldInv
<1>6. DeliveredWhole
  BY DEF Init, DeliveredWhole
<1> QED
  BY <1>2, <1>4, <1>5, <1>6 DEF IInv

(* What consume_data takes, in the two places where it is called. *)
LEMMA BiteFacts ==
  ASSUME IInv, avail > 0
  PROVE  /\ cur \in AnyFrame /\ cur.size \in Nat
         /\ FrameSize(cur) = WireSize(cur)
         /\ FirstBite \in Nat \ {0}
         /\ FirstBite <= avail
         /\ OffsetAfter \in Nat
         /\ OffsetAfter <= target_size
         /\ OffsetAfter > inbound_offset
<1> USE SizeAssumption DEF IInv, TypeOK, BufferFits
<1>1. cur \in AnyFrame /\ cur.size \in Nat
  BY DEF AnyFrame
<1>2. FrameSize(cur) = WireSize(cur)
  BY <1>1 DEF FrameSize, WireSize
<1> QED
  BY <1>1, <1>2 DEF FirstBite, OffsetAfter, Least

(* A complete header leaves the parser inside the frame it announces. *)
LEMMA HeaderFacts ==
  ASSUME IInv, avail > 0, HeaderComplete
  PROVE  /\ cur.type # "PROTOCOL"
         /\ OffsetAfter \in {HEADER_SIZE, HEADER_SIZE + 1}
         /\ OffsetAfter = HEADER_SIZE + 1 => cur.zero7
         /\ OffsetAfter < WireSize(cur)
         /\ SecondBite \in Nat
         /\ SecondBite <= avail - FirstBite
         /\ BodyOffset = OffsetAfter + SecondBite
         /\ BodyOffset <= WireSize(cur)
         /\ pos # Astray => Prefix(HeldInBody, cur, BodyOffset)
         /\ HeldInBody \subseteq Nat
<1> USE SizeAssumption
<1>1. /\ cur \in AnyFrame /\ cur.size \in Nat
      /\ FrameSize(cur) = WireSize(cur)
      /\ FirstBite \in Nat \ {0}
      /\ FirstBite <= avail
      /\ avail \in Nat
      /\ OffsetAfter \in Nat
  BY BiteFacts DEF IInv, TypeOK
<1>2. /\ cur.type # "PROTOCOL"
      /\ OffsetAfter \in {HEADER_SIZE, HEADER_SIZE + 1}
      /\ OffsetAfter = HEADER_SIZE + 1 => cur.zero7
      /\ OffsetAfter < WireSize(cur)
  BY <1>1, FrameAssumption, FirstAssumption
  DEF HeaderComplete, InHeader, IInv, StateInv, WireSize
<1>3. /\ SecondBite \in Nat
      /\ SecondBite <= avail - FirstBite
      /\ BodyOffset = OffsetAfter + SecondBite
      /\ BodyOffset <= WireSize(cur)
  BY <1>1, <1>2 DEF SecondBite, BodyOffset, Least, WireSize
<1>4. (pos # Astray => Prefix(HeldInBody, cur, BodyOffset)) /\ HeldInBody \subseteq Nat
  BY <1>1, <1>2, <1>3 DEF Prefix, HeldInBody
<1> QED
  BY <1>2, <1>3, <1>4

(* A whole frame goes out and the parser is idle at the start of the next. *)
LEMMA DeliverIInv ==
  ASSUME IInv, NEW h \in SUBSET Nat, NEW bite \in 1 .. avail, avail > 0,
         pos # Astray => Prefix(h, cur, WireSize(cur)) /\ pos + bite = WireSize(cur),
         out' = [frame |-> cur, held |-> h],
         return_to_idle(pos + bite - WireSize(cur)),
         Consume(bite)
  PROVE  IInv'
<1> USE SizeAssumption
<1>1. /\ cur \in AnyFrame /\ cur' \in Frame \cup Garbage /\ cur' \in AnyFrame
      /\ cur'.size \in Nat
      /\ pos' = IF pos = Astray THEN Astray ELSE 0
      /\ inbound_offset' = 0
  BY FrameAssumption DEF return_to_idle, IInv, TypeOK, AnyFrame, WireSize
<1>2. TypeOK'
  BY AstrayAssumption, <1>1 DEF return_to_idle, Consume, IInv, TypeOK
<1>3. BufferFits' /\ InStep'
  BY AstrayAssumption, <1>1 DEF return_to_idle, BufferFits, InStep, WireSize
<1>4. StateInv' /\ HeldInv'
  BY <1>1 DEF return_to_idle, StateInv, HeldInv, Prefix
<1>5. DeliveredWhole'
  <2>1. out'.frame = cur /\ out'.held = h /\ (pos' # Astray => pos # Astray)
    BY <1>1
  <2> QED
    BY <2>1 DEF DeliveredWhole, Prefix, WireSize
<1> QED
  BY <1>2, <1>3, <1>4, <1>5 DEF IInv

(* Steps of the socket and of the calls, which leave the parser alone. *)
LEMMA StutterIInv ==
  ASSUME IInv, dead' \in BOOLEAN, avail' \in 0 .. MaxChunk,
         pc' \in {"wait", "send", "beat", "resume"},
         state = "INITIAL" => pc' \in {"wait", "send"},
         UNCHANGED <<cur, pos, held, state, inbound_offset, target_size, buffer_len, out>>
  PROVE  IInv'
<1>1. TypeOK' /\ BufferFits' /\ InStep' /\ DeliveredWhole'
  BY DEF IInv, TypeOK, BufferFits, InStep, DeliveredWhole, WireSize
<1>2. StateInv' /\ HeldInv'
  BY DEF IInv, StateInv, HeldInv, WireSize, Prefix
<1> QED
  BY <1>1, <1>2 DEF IInv

(* The parser loses its place, but neither its state nor its buffer. *)
LEMMA OverwriteIInv ==
  ASSUME IInv, Overwrite, state # "INITIAL", avail' \in 0 .. MaxChunk, pc' = "wait",
         UNCHANGED <<state, inbound_offset, target_size, buffer_len, out, dead>>
  PROVE  IInv'
<1> USE SizeAssumption
<1>1. /\ pos' = Astray /\ held' = {} /\ cur' \in AnyFrame
      /\ state # "BODY" => cur' \in Garbage
      /\ state = "BODY" => cur'.size = cur.size /\ cur'.type = cur.type
  <2>1. CASE state = "BODY"
    <3>1. PICK b \in BOOLEAN : cur' = [cur EXCEPT !.sound = b]
      BY <2>1 DEF Overwrite
    <3> QED
      BY <2>1, <3>1 DEF Overwrite, IInv, TypeOK, AnyFrame
  <2>2. CASE state # "BODY"
    BY <2>2, FrameAssumption DEF Overwrite
  <2> QED
    BY <2>1, <2>2
<1>2. TypeOK'
  BY AstrayAssumption, <1>1 DEF IInv, TypeOK
<1>3. BufferFits' /\ InStep' /\ HeldInv' /\ DeliveredWhole'
  BY <1>1 DEF IInv, BufferFits, InStep, HeldInv, DeliveredWhole
<1>4. StateInv'
  BY <1>1 DEF IInv, StateInv, WireSize
<1> QED
  BY <1>2, <1>3, <1>4 DEF IInv

LEMMA PartialIInv ==
  ASSUME IInv, avail > 0, TakePartial
  PROVE  IInv'
<1> USE SizeAssumption
<1>1. /\ cur \in AnyFrame /\ cur.size \in Nat
      /\ FirstBite \in Nat \ {0}
      /\ FirstBite <= avail
      /\ OffsetAfter \in Nat
      /\ OffsetAfter = inbound_offset + FirstBite
      /\ OffsetAfter < target_size
  BY BiteFacts DEF TakePartial, OffsetAfter
<1>2. /\ UNCHANGED <<cur, target_size, buffer_len, out>>
      /\ inbound_offset' = OffsetAfter
      /\ pos' = IF pos = Astray THEN Astray ELSE OffsetAfter
      /\ held' = IF pos = Astray THEN {} ELSE held \cup (inbound_offset .. OffsetAfter - 1)
      /\ OffsetAfter # Astray
  BY AstrayAssumption, <1>1 DEF TakePartial, HeldAfter, Moved, IInv, InStep
<1>3. TypeOK'
  <2>1. held' \subseteq Nat
    <3>1. inbound_offset .. OffsetAfter - 1 \subseteq Nat
      BY <1>1 DEF IInv, TypeOK
    <3> QED
      BY <3>1, <1>2 DEF IInv, TypeOK
  <2>2. pos' \in Int \cup {Astray}
    BY AstrayAssumption, <1>1, <1>2
  <2>3. avail' \in 0 .. MaxChunk
    BY <1>1 DEF TakePartial, Consume, IInv, TypeOK
  <2>4. state' \in {"INITIAL", "IDLE", "HEADER", "BODY"}
    BY DEF TakePartial, IInv, TypeOK
  <2> QED
    BY <1>1, <1>2, <2>1, <2>2, <2>3, <2>4 DEF TakePartial, Consume, IInv, TypeOK
<1>4. BufferFits'
  BY <1>1, <1>2 DEF IInv, BufferFits
<1>5. target_size <= WireSize(cur)
  BY <1>1, FirstAssumption, FrameAssumption DEF IInv, TypeOK, StateInv, WireSize
<1>6. InStep'
  BY <1>1, <1>2, <1>5 DEF InStep, WireSize, IInv, TypeOK
<1>7. StateInv'
  <2>1. CASE state \in {"INITIAL", "IDLE", "HEADER"}
    BY <2>1, <1>2 DEF IInv, StateInv, TakePartial, Consume
  <2>2. CASE state = "BODY"
    BY <2>2, <1>1, <1>2 DEF IInv, TypeOK, StateInv, TakePartial, WireSize
  <2> QED
    BY <2>1, <2>2 DEF IInv, TypeOK
<1>9. HeldInv'
  <2> SUFFICES ASSUME pos' # Astray PROVE HeldInv'
    BY DEF HeldInv
  <2>0. pos # Astray
    BY <1>2
  <2>1. CASE state \in {"INITIAL", "IDLE", "HEADER"}
    <3>1. held = 0 .. inbound_offset - 1 /\ state' # "BODY"
      BY <2>0, <2>1 DEF IInv, HeldInv, TakePartial
    <3>2. held' = 0 .. inbound_offset' - 1
      BY <2>0, <3>1, <1>1, <1>2 DEF IInv, TypeOK
    <3> QED
      BY <3>1, <3>2 DEF HeldInv
  <2>2. CASE state = "BODY"
    <3>1. Prefix(held, cur, inbound_offset) /\ state' = "BODY"
      BY <2>0, <2>2 DEF IInv, HeldInv, TakePartial
    <3>2. Prefix(held', cur, OffsetAfter)
      BY <2>0, <3>1, <1>1, <1>2 DEF IInv, TypeOK, Prefix
    <3> QED
      BY <3>1, <3>2, <1>2 DEF HeldInv, Prefix
  <2> QED
    BY <2>1, <2>2 DEF IInv, TypeOK
<1>8. DeliveredWhole'
  BY <1>2 DEF IInv, DeliveredWhole, WireSize
<1> QED
  BY <1>3, <1>4, <1>6, <1>7, <1>8, <1>9 DEF IInv

LEMMA HeaderIInv ==
  ASSUME IInv, avail > 0, TakeHeader
  PROVE  IInv'
<1> USE SizeAssumption
<1>1. /\ cur \in AnyFrame /\ cur.size \in Nat
      /\ FrameSize(cur) = WireSize(cur)
      /\ FirstBite \in Nat \ {0} /\ OffsetAfter \in Nat
      /\ OffsetAfter = inbound_offset + FirstBite
  BY BiteFacts DEF OffsetAfter
<1>2. /\ cur.type # "PROTOCOL"
      /\ OffsetAfter \in {HEADER_SIZE, HEADER_SIZE + 1}
      /\ SecondBite \in Nat
      /\ SecondBite <= avail - FirstBite
      /\ BodyOffset = OffsetAfter + SecondBite
      /\ BodyOffset < WireSize(cur)
      /\ pos # Astray => Prefix(HeldInBody, cur, BodyOffset)
      /\ HeldInBody \subseteq Nat
  BY <1>1, HeaderFacts DEF TakeHeader
<1>3. /\ UNCHANGED <<cur, out>> /\ state' = "BODY"
      /\ target_size' = WireSize(cur) /\ buffer_len' = WireSize(cur)
      /\ inbound_offset' = BodyOffset
      /\ pos' = IF pos = Astray THEN Astray ELSE BodyOffset
      /\ held' = HeldInBody
  BY <1>1, <1>2 DEF TakeHeader, Moved, IInv, InStep, TypeOK
<1>4. TypeOK'
  BY AstrayAssumption, <1>1, <1>2, <1>3 DEF TakeHeader, Consume, IInv, TypeOK, WireSize
<1>5. BufferFits' /\ InStep'
  BY <1>1, <1>2, <1>3 DEF BufferFits, InStep, WireSize
<1>6. StateInv' /\ HeldInv'
  BY <1>1, <1>2, <1>3 DEF StateInv, HeldInv, WireSize, Prefix
<1>7. DeliveredWhole'
  BY <1>3 DEF IInv, DeliveredWhole, WireSize
<1> QED
  BY <1>4, <1>5, <1>6, <1>7 DEF IInv

(***************************************************************************)
(* Every recv and every call of amqp_handle_input preserves the invariant. *)
(***************************************************************************)
LEMMA NextIInv == IInv /\ [Next]_vars => IInv'
<1> SUFFICES ASSUME IInv, [Next]_vars PROVE IInv'
  OBVIOUS
<1> USE SizeAssumption
<1>1. ASSUME NEW n \in 1 .. MaxChunk, recv_with_timeout(n) PROVE IInv'
  <2>1. /\ avail' \in 0 .. MaxChunk /\ dead' \in BOOLEAN
        /\ pc' \in {"wait", "send", "beat", "resume"}
        /\ state = "INITIAL" => pc' \in {"wait", "send"}
        /\ pc = "resume" => pc' = "wait" /\ state # "INITIAL"
    BY <1>1 DEF recv_with_timeout, IInv, TypeOK, StateInv
  <2>2. CASE avail = 0
    BY <1>1, <2>1, <2>2, StutterIInv DEF recv_with_timeout
  <2>3. CASE avail # 0
    BY <1>1, <2>1, <2>3, OverwriteIInv DEF recv_with_timeout
  <2> QED
    BY <2>2, <2>3
<1>4. CASE amqp_send_frame \/ WaitTimeout
  <2>1. /\ state # "INITIAL" /\ pc' \in {"wait", "send", "beat", "resume"}
        /\ UNCHANGED <<cur, pos, held, state, inbound_offset, target_size, buffer_len,
                       avail, out, dead>>
    BY <1>4 DEF amqp_send_frame, WaitTimeout, Blocks
  <2>2. avail' \in 0 .. MaxChunk /\ dead' \in BOOLEAN
    BY <2>1 DEF IInv, TypeOK
  <2> QED
    BY <2>1, <2>2, StutterIInv
<1>2. CASE amqp_handle_input
  <2>0. avail > 0
    BY <1>2 DEF amqp_handle_input
  <2>1. CASE TakePartial
    BY <2>0, <2>1, PartialIInv
  <2>2. CASE TakeProtocolHeader
    <3>1. /\ cur \in First /\ cur.type = "PROTOCOL" /\ cur.size = 0 /\ pos # Astray
          /\ WireSize(cur) = HEADER_SIZE + 1
          /\ held = 0 .. inbound_offset - 1
          /\ target_size = HEADER_SIZE + 1
      BY <2>2, FirstAssumption DEF TakeProtocolHeader, IInv, StateInv, HeldInv, WireSize
    <3>2. /\ OffsetAfter = WireSize(cur) /\ FirstBite \in 1 .. avail
          /\ pos + FirstBite = WireSize(cur)
      BY <2>0, <2>2, <3>1, BiteFacts DEF TakeProtocolHeader, OffsetAfter, IInv, InStep, TypeOK
    <3>3. HeldAfter \in SUBSET Nat /\ Prefix(HeldAfter, cur, WireSize(cur))
      BY <3>1, <3>2 DEF HeldAfter, Prefix, IInv, TypeOK
    <3> QED
      BY <2>0, <2>2, <3>2, <3>3, DeliverIInv DEF TakeProtocolHeader
  <2>3. CASE Fail
    BY <2>3, StutterIInv DEF Fail, IInv, TypeOK, StateInv
  <2>4. CASE TakeHeader
    BY <2>0, <2>4, HeaderIInv
  <2>5. CASE TakeWholeFrame
    <3>1. CASE Deliver(HeldInBody, FirstBite + SecondBite)
      <4>1. /\ FrameSize(cur) = WireSize(cur)
            /\ FirstBite \in Nat \ {0} /\ FirstBite <= avail
            /\ OffsetAfter = inbound_offset + FirstBite
        BY <2>0, BiteFacts DEF OffsetAfter
      <4>2. /\ SecondBite \in Nat
            /\ SecondBite <= avail - FirstBite
            /\ BodyOffset = OffsetAfter + SecondBite
            /\ BodyOffset = WireSize(cur)
            /\ pos # Astray => Prefix(HeldInBody, cur, BodyOffset)
            /\ HeldInBody \subseteq Nat
        BY <2>0, <2>5, <4>1, HeaderFacts DEF TakeWholeFrame
      <4>3. FirstBite + SecondBite \in 1 .. avail
        BY <4>1, <4>2 DEF IInv, TypeOK
      <4>4. pos # Astray => pos + (FirstBite + SecondBite) = WireSize(cur)
        BY <4>1, <4>2 DEF IInv, TypeOK, InStep
      <4> QED
        BY <2>0, <3>1, <4>2, <4>3, <4>4, DeliverIInv DEF Deliver
    <3>2. CASE Fail
      BY <3>2, StutterIInv DEF Fail, IInv, TypeOK, StateInv
    <3> QED
      BY <2>5, <3>1, <3>2 DEF TakeWholeFrame
  <2>6. CASE TakeBody
    <3>1. CASE Deliver(HeldAfter, FirstBite)
      <4>1. /\ FirstBite \in 1 .. avail
            /\ OffsetAfter = inbound_offset + FirstBite
            /\ OffsetAfter = target_size
            /\ OffsetAfter \in Nat
        BY <2>0, <2>6, BiteFacts DEF OffsetAfter, TakeBody, IInv, TypeOK
      <4>2. /\ target_size = WireSize(cur)
            /\ pos # Astray => Prefix(held, cur, inbound_offset)
        BY <2>6 DEF TakeBody, IInv, StateInv, HeldInv
      <4>3. /\ HeldAfter \in SUBSET Nat
            /\ pos # Astray => Prefix(HeldAfter, cur, WireSize(cur))
        BY <4>1, <4>2 DEF HeldAfter, Prefix, IInv, TypeOK
      <4>4. pos # Astray => pos + FirstBite = WireSize(cur)
        BY <4>1, <4>2 DEF IInv, InStep
      <4> QED
        BY <2>0, <3>1, <4>1, <4>3, <4>4, DeliverIInv DEF Deliver
    <3>2. CASE Fail
      BY <3>2, StutterIInv DEF Fail, IInv, TypeOK, StateInv
    <3> QED
      BY <2>6, <3>1, <3>2 DEF TakeBody
  <2> QED
    BY <1>2, <2>1, <2>2, <2>3, <2>4, <2>5, <2>6
    DEF amqp_handle_input, RefuseHeader, NoMemory
<1>3. CASE UNCHANGED vars
  BY <1>3, StutterIInv DEF vars, IInv, TypeOK, StateInv
<1> QED
  BY <1>1, <1>2, <1>3, <1>4 DEF Next

(***************************************************************************)
(* consume_data never copies past the end of inbound_buffer and always has *)
(* a byte to take.                                                         *)
(***************************************************************************)
THEOREM ParserBufferFits == Spec => []BufferFits
<1>1. IInv => BufferFits
  BY DEF IInv
<1> QED
  BY InitIInv, NextIInv, <1>1, PTL DEF Spec

(***************************************************************************)
(* The parser stays in step with the frame boundaries of the stream,       *)
(* whichever loop reads it, until unread bytes have been read over.        *)
(***************************************************************************)
THEOREM ParserInStep == Spec => []InStep
<1>1. IInv => InStep
  BY DEF IInv
<1> QED
  BY InitIInv, NextIInv, <1>1, PTL DEF Spec

(***************************************************************************)
(* Every frame handed to the caller carries the bytes the broker sent,     *)
(* until unread bytes have been read over.                                 *)
(***************************************************************************)
THEOREM ParserDeliversWhole == Spec => []DeliveredWhole
<1>1. IInv => DeliveredWhole
  BY DEF IInv
<1> QED
  BY InitIInv, NextIInv, <1>1, PTL DEF Spec
=============================================================================
