---------------------------- MODULE FrameParser -----------------------------
(***************************************************************************)
(* amqp_handle_input: the incremental parser that turns the byte stream of *)
(* the broker, cut into arbitrary chunks by the socket, back into frames.  *)
(*                                                                         *)
(* Bytes are not represented by their values.  cur is the frame that the   *)
(* next unread byte of the stream belongs to, pos how many of its bytes    *)
(* the parser has taken from the socket buffer, and held the offsets of    *)
(* cur whose byte lies at its place in inbound_buffer.  The C code knows   *)
(* none of these three; it works with inbound_offset and target_size.      *)
(*                                                                         *)
(* The socket buffer has two readers: the loop of a wait, and              *)
(* amqp_try_recv behind a send that has blocked, which may be that of a    *)
(* heartbeat in the middle of a wait.  Such a wait goes from its heartbeat *)
(* straight to recv, over the bytes amqp_try_recv has left in the buffer.  *)
(* These are lost, and the parser is Astray: it takes what follows for     *)
(* whatever it looks like.                                                 *)
(***************************************************************************)
EXTENDS Integers

CONSTANTS
    HEADER_SIZE,    \* 7: type, channel and size of a frame
    FOOTER_SIZE,    \* 1: the end marker
    frame_max,      \* the negotiated largest frame
    Frame,          \* the frames a broker may send
    First,          \* what it may send first: a frame or a protocol header
    Garbage,        \* the frames that bytes out of step may be taken for
    MaxChunk,       \* sock_inbound_buffer.len, the most one recv returns
    Astray          \* where the parser stands once bytes have been lost

(***************************************************************************)
(* A frame is known by its type, the size of its payload, whether its end  *)
(* marker is in place and its method or properties decode, and whether the *)
(* byte at offset HEADER_SIZE is zero.                                     *)
(***************************************************************************)
FrameType == {"METHOD", "HEADER", "BODY", "HEARTBEAT", "OTHER"}

AnyFrame == [type : FrameType \cup {"PROTOCOL"}, size : Nat,
             sound : BOOLEAN, zero7 : BOOLEAN]

NoFrame == [type |-> "OTHER", size |-> 0, sound |-> FALSE, zero7 |-> FALSE]

ASSUME SizeAssumption == /\ HEADER_SIZE \in Nat \ {0}
                         /\ FOOTER_SIZE = 1
                         /\ frame_max \in Nat
                         /\ MaxChunk \in Nat \ {0}

ASSUME FrameAssumption == /\ Frame \subseteq {f \in AnyFrame : f.type # "PROTOCOL"}
                          /\ Garbage \subseteq {f \in AnyFrame : f.type # "PROTOCOL"}
                          /\ First \subseteq AnyFrame

(* No place in a frame. *)
ASSUME AstrayAssumption == Astray \notin Int

(***************************************************************************)
(* The protocol header is as long as the smallest frame.  Otherwise the    *)
(* first thing a broker sends is the method connection.start, whose first  *)
(* payload byte is the high byte of a class number below 256.              *)
(***************************************************************************)
ASSUME FirstAssumption ==
    \A f \in First : IF f.type = "PROTOCOL" THEN f.size = 0 ELSE f.zero7 /\ f.size > 0

VARIABLES
    cur, pos, held,     \* the stream, see above
    state,              \* CONNECTION_STATE_...
    inbound_offset, target_size,
    buffer_len,         \* inbound_buffer.len
    avail,              \* sock_inbound_limit - sock_inbound_offset
    pc,                 \* who reads: the "wait"; amqp_try_recv for a blocked
                        \* frame ("send") or heartbeat ("beat"); or the wait
                        \* whose heartbeat has just gone out ("resume")
    out,                \* the last decoded_frame returned, with what it held
    dead                \* an error was returned: the connection must be shut down

vars == <<cur, pos, held, state, inbound_offset, target_size, buffer_len,
          avail, pc, out, dead>>

Moved(n) == IF pos = Astray THEN Astray ELSE pos + n

Least(a, b) == IF a < b THEN a ELSE b

(* Without the footer the last byte of a frame would start the next one. *)
FrameSizeNoFooter(f) == f.size + HEADER_SIZE

FrameSize(f) == f.size + HEADER_SIZE + FOOTER_SIZE

(* The length of a frame on the wire, whatever the parser computes. *)
WireSize(f) == f.size + HEADER_SIZE + 1

Init == /\ cur \in First
        /\ pos = 0
        /\ held = {}
        /\ state = "INITIAL"
        /\ inbound_offset = 0
        /\ target_size = HEADER_SIZE + FOOTER_SIZE
        /\ buffer_len = HEADER_SIZE + 1
        /\ avail = 0
        /\ pc = "wait"
        /\ out = [frame |-> NoFrame, held |-> {}]
        /\ dead = FALSE

(***************************************************************************)
(* A send blocks until the receive timer runs out: amqp_try_recv.  No      *)
(* frame is sent before the first of the broker has come in, and no        *)
(* heartbeat with bytes in the buffer, but one that is due after a poll.   *)
(***************************************************************************)
Blocks(from, to) == /\ ~dead /\ state # "INITIAL"
                    /\ pc = from /\ pc' = to
                    /\ UNCHANGED <<cur, pos, held, state, inbound_offset, target_size,
                                   buffer_len, avail, out, dead>>

amqp_send_frame == \/ Blocks("wait", "send")
                   \/ avail = 0 /\ Blocks("wait", "beat")
                   \/ Blocks("resume", "beat")

(* The wait whose heartbeat has gone out ends on its caller's timeout. *)
WaitTimeout == Blocks("resume", "wait")

(* Unread bytes are overwritten; the size of a frame in inbound_buffer is known. *)
Overwrite == /\ pos' = Astray
             /\ held' = {}
             /\ cur' \in IF state = "BODY" THEN {[cur EXCEPT !.sound = b] : b \in BOOLEAN}
                                            ELSE Garbage

(***************************************************************************)
(* recv_with_timeout: the socket hands over some bytes of the stream, and  *)
(* sock_inbound_offset and sock_inbound_limit start anew.  The loops of    *)
(* wait_frame_inner and amqp_try_recv have emptied the buffer before; the  *)
(* wait that resumes after a heartbeat has not.                            *)
(***************************************************************************)
recv_with_timeout(n) ==
    /\ ~dead
    /\ pc = "resume" \/ avail = 0
    /\ IF avail = 0 THEN UNCHANGED <<cur, pos, held>> ELSE Overwrite
    /\ avail' = n
    /\ pc' \in CASE pc = "send" -> {"send", "wait"}
                 [] pc = "beat" -> {"beat", "resume"}
                 [] OTHER -> {"wait"}
    /\ UNCHANGED <<state, inbound_offset, target_size, buffer_len, out, dead>>

-----------------------------------------------------------------------------
(* amqp_handle_input.  consume_data takes what is there and what fits.     *)

FirstBite == Least(target_size - inbound_offset, avail)
OffsetAfter == inbound_offset + FirstBite
HeldAfter == IF pos = Astray THEN {} ELSE held \cup (inbound_offset .. OffsetAfter - 1)
InHeader == state \in {"INITIAL", "IDLE", "HEADER"}

SecondBite == Least(FrameSize(cur) - OffsetAfter, avail - FirstBite)
BodyOffset == OffsetAfter + SecondBite

Consume(n) == /\ avail' = avail - n
              /\ UNCHANGED <<pc, dead>>

(* An idle parser that expects the longer first header again. *)
return_to_idleLong(rest) ==
    /\ state' = "IDLE"
    /\ inbound_offset' = 0
    /\ target_size' = HEADER_SIZE + 2
    /\ buffer_len' = HEADER_SIZE + 1
    /\ held' = {}
    /\ cur' \in IF pos = Astray THEN Garbage ELSE Frame
    /\ pos' = IF pos = Astray THEN Astray ELSE rest

(***************************************************************************)
(* return_to_idle, after which the stream goes on with the next frame of   *)
(* the broker; rest counts bytes taken beyond the end of this one.         *)
(***************************************************************************)
return_to_idle(rest) ==
    /\ state' = "IDLE"
    /\ inbound_offset' = 0
    /\ target_size' = HEADER_SIZE
    /\ buffer_len' = HEADER_SIZE + 1
    /\ held' = {}
    /\ cur' \in IF pos = Astray THEN Garbage ELSE Frame
    /\ pos' = IF pos = Astray THEN Astray ELSE rest

Fail == /\ dead' = TRUE
        /\ UNCHANGED <<cur, pos, held, state, inbound_offset, target_size,
                       buffer_len, avail, pc, out>>

(* Less than target_size so far: remember the bytes and ask for more. *)
TakePartial ==
    /\ OffsetAfter < target_size
    /\ state' = IF state = "IDLE" THEN "HEADER" ELSE state
    /\ inbound_offset' = OffsetAfter
    /\ held' = HeldAfter
    /\ pos' = Moved(FirstBite)
    /\ Consume(FirstBite)
    /\ UNCHANGED <<cur, target_size, buffer_len, out>>

(* Eight bytes that spell AMQP before any frame: the broker's own version. *)
TakeProtocolHeader ==
    /\ OffsetAfter = target_size
    /\ state = "INITIAL" /\ cur.type = "PROTOCOL"
    /\ out' = [frame |-> cur, held |-> HeldAfter]
    /\ return_to_idle(pos + FirstBite - WireSize(cur))
    /\ Consume(FirstBite)

HeaderComplete == /\ OffsetAfter = target_size
                  /\ InHeader
                  /\ ~(state = "INITIAL" /\ cur.type = "PROTOCOL")

(* frame_size >= INT32_MAX or larger than frame_max: BAD_AMQP_DATA. *)
RefuseHeader == HeaderComplete /\ FrameSize(cur) > frame_max /\ Fail

(* No pool for the channel, or no block for the frame: NO_MEMORY. *)
NoMemory == HeaderComplete /\ FrameSize(cur) <= frame_max /\ Fail

(* One byte too few copied out of header_buffer. *)
HeldInBodyShort == (0 .. HEADER_SIZE - 2) \cup (OffsetAfter .. BodyOffset - 1)

(***************************************************************************)
(* A buffer of target_size bytes comes from the channel's pool, zeroed,    *)
(* and HEADER_SIZE bytes of header_buffer are copied into it.              *)
(***************************************************************************)
HeldInBody == IF pos = Astray THEN {}
              ELSE (0 .. HEADER_SIZE - 1) \cup (OffsetAfter .. BodyOffset - 1)

TakeHeader ==
    /\ HeaderComplete
    /\ FrameSize(cur) <= frame_max
    /\ BodyOffset < FrameSize(cur)
    /\ state' = "BODY"
    /\ target_size' = FrameSize(cur)
    /\ buffer_len' = FrameSize(cur)
    /\ inbound_offset' = BodyOffset
    /\ held' = HeldInBody
    /\ pos' = Moved(FirstBite + SecondBite)
    /\ Consume(FirstBite + SecondBite)
    /\ UNCHANGED <<cur, out>>

(* The frame now lies in inbound_buffer: check the footer, decode, return. *)
FooterInPlace(h) == (pos = Astray \/ FrameSize(cur) - 1 \in h) /\ cur.sound

Deliver(h, bite) ==
    /\ FooterInPlace(h)
    /\ out' = [frame |-> cur, held |-> h]
    /\ return_to_idle(pos + bite - WireSize(cur))
    /\ Consume(bite)

TakeWholeFrame ==
    /\ HeaderComplete
    /\ FrameSize(cur) <= frame_max
    /\ BodyOffset = FrameSize(cur)
    /\ \/ Deliver(HeldInBody, FirstBite + SecondBite)
       \/ ~FooterInPlace(HeldInBody) /\ Fail

(* Waits for a byte beyond the frame before it looks at the footer. *)
TakeBodyLate ==
    /\ state = "BODY"
    /\ OffsetAfter = target_size
    /\ avail > FirstBite
    /\ \/ Deliver(HeldAfter, FirstBite)
       \/ ~FooterInPlace(HeldAfter) /\ Fail

TakeBody ==
    /\ state = "BODY"
    /\ OffsetAfter = target_size
    /\ \/ Deliver(HeldAfter, FirstBite)
       \/ ~FooterInPlace(HeldAfter) /\ Fail

amqp_handle_input ==
    /\ ~dead
    /\ pc # "resume" /\ avail > 0
    /\ \/ TakePartial
       \/ TakeProtocolHeader
       \/ RefuseHeader
       \/ NoMemory
       \/ TakeHeader
       \/ TakeWholeFrame
       \/ TakeBody

Next == \/ \E n \in 1 .. MaxChunk : recv_with_timeout(n)
        \/ amqp_handle_input
        \/ amqp_send_frame \/ WaitTimeout

Spec == Init /\ [][Next]_vars

(***************************************************************************)
(* The caller loops on amqp_handle_input while there is data in the buffer *)
(* (wait_frame_inner, amqp_try_recv), and the broker completes a frame it  *)
(* has begun.                                                              *)
(***************************************************************************)
FairSpec == /\ Spec
            /\ WF_vars(amqp_handle_input)
            /\ WF_vars(\E n \in 1 .. MaxChunk : recv_with_timeout(n))

-----------------------------------------------------------------------------
(***************************************************************************)
(* Every variable has its type.                                            *)
(***************************************************************************)
TypeOK == /\ cur \in AnyFrame
          /\ pos \in Int \cup {Astray}
          /\ held \subseteq Nat
          /\ state \in {"INITIAL", "IDLE", "HEADER", "BODY"}
          /\ inbound_offset \in Nat
          /\ target_size \in Nat
          /\ buffer_len \in Nat
          /\ avail \in 0 .. MaxChunk
          /\ pc \in {"wait", "send", "beat", "resume"}
          /\ out \in [frame : AnyFrame, held : SUBSET Nat]
          /\ dead \in BOOLEAN

(***************************************************************************)
(* The next memcpy of consume_data stays inside inbound_buffer, whichever  *)
(* buffer that is, and takes at least one byte, so the loops over          *)
(* amqp_data_in_buffer make progress: also once the parser is astray.      *)
(***************************************************************************)
BufferFits == inbound_offset < target_size /\ target_size <= buffer_len

(***************************************************************************)
(* Between two calls the parser stands exactly inbound_offset bytes into   *)
(* the current frame: it never takes a byte of the next frame and never    *)
(* leaves one of the last frame behind, however the stream was cut and     *)
(* whichever loop read it, unless a wait has read over the bytes its own   *)
(* blocked heartbeat had left in the buffer.                               *)
(***************************************************************************)
InStep == pos # Astray => pos = inbound_offset /\ pos < WireSize(cur)

(***************************************************************************)
(* A frame handed to the caller carries all the bytes the broker sent,     *)
(* unless bytes have been read over as above.  The one byte that a first   *)
(* frame loses between header_buffer and the pool buffer is zero on both   *)
(* sides.                                                                  *)
(***************************************************************************)
DeliveredWhole ==
    out.frame # NoFrame /\ pos # Astray =>
        \A i \in 0 .. WireSize(out.frame) - 1 :
            i \in out.held \/ (i = HEADER_SIZE /\ out.frame.zero7)

(***************************************************************************)
(* A frame of which some bytes have been taken is completed or refused:    *)
(* the parser never waits for bytes it already has, astray or not.         *)
(***************************************************************************)
StartedFrameEnds == (inbound_offset > 0) ~> (inbound_offset = 0 \/ dead)
=============================================================================
