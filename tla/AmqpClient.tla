----------------------------- MODULE AmqpClient -----------------------------
(***************************************************************************)
(* The calls an application makes on one connection - RPCs, waits for a    *)
(* method or any frame, amqp_consume_message with its amqp_read_message -  *)
(* over the list of queued frames (FrameQueue) and the frames still on     *)
(* their way from the broker.  One thread makes one call at a time.        *)
(*                                                                         *)
(* Every call that waits looks at the queue once: it takes its frame from  *)
(* there (pc "queue") or goes on to the wire (pc "wire"), and then decides *)
(* what to do with it (pc "use").  A wait on the wire sends a heartbeat    *)
(* when one is due.  If that blocks (pc "blocked"), amqp_try_recv reads    *)
(* what comes and queues it, which the wait does not look at any more, and *)
(* what lies in the buffer when the heartbeat is out is read over.         *)
(*                                                                         *)
(* Frames carry what the calls look at: channel, type, length of a body,   *)
(* and for the properties the number of the message or request they belong *)
(* to and what is left of the body after them, which no call looks at.     *)
(* Bytes and timers are the business of FrameParser and Heartbeat; what a  *)
(* parser out of step takes the rest of a frame for is left to             *)
(* FrameParser, here it refuses it.  Allocation failures, after which the  *)
(* connection is given up, are left out.                                   *)
(*                                                                         *)
(* The application keeps to amqp.h: it has one request of a kind under way *)
(* on a channel, leaves a channel alone once it has seen its channel.close *)
(* and disconnects when it has seen connection.close.                      *)
(***************************************************************************)
EXTENDS Naturals, Sequences, FiniteSets

CONSTANTS
    Channel, Zero,  \* the channels in use, and channel 0
    Request,        \* kinds of requests; the reply has the type of its request
    Closable,       \* the channels the broker may close, Zero for the connection
    MaxClosed,      \* bound: how many of them it does close
    MaxMessages,    \* bound: messages the broker sends
    MaxBody,        \* bound: length of a body
    MaxRequests,    \* bound: requests the application sends
    MaxWork,        \* bound: messages and requests together
    MaxWire,        \* bound: frames on the wire
    NULL

ASSUME ClientAssumption ==
    /\ Zero \notin Channel
    /\ Closable \subseteq Channel \cup {Zero}
    /\ Request \cap {"deliver", "header", "body", "close"} = {}
    /\ MaxMessages \in Nat /\ MaxBody \in Nat /\ MaxRequests \in Nat

VARIABLES
    open,       \* the socket
    wire,       \* frames sent by the broker and not read
    q,          \* the queued frames
    frame,      \* decoded_frame
    call, pc,   \* the call in progress, and where it stands
    asked,      \* the request an RPC or wait_method is about, the channel of a read
    message,    \* the message being read
    missed,     \* history: a wait has lost frames behind its own heartbeat,
                \* or had the very frame it waits for put on the queue
    done,       \* what the last call returned
    delivered,  \* the messages returned on each channel
    pending,    \* the requests the application knows to be under way
    shut,       \* the channels whose close the application has seen
    nreq,       \* requests sent
    requests,   \* the broker: requests it has to answer, by channel
    content,    \* the message it is sending on each channel
    nmsg,       \* messages it has sent
    closed      \* the channels it has closed, Zero for the connection

Frame == [channel : Channel \cup {Zero},
          type : Request \cup {"deliver", "header", "body", "close"},
          id : 0 .. (MaxMessages + MaxRequests), len : 0 .. MaxBody,
          left : 0 .. MaxBody]

Queue == INSTANCE FrameQueue WITH Channel <- Channel \cup {Zero}, returned <- frame

app == <<done, delivered, pending, shut, nreq>>
broker == <<requests, content, nmsg, closed>>
vars == <<open, wire, q, frame, call, pc, asked, message, missed, app, broker>>

F(ch, type, id, len, left) ==
    [channel |-> ch, type |-> type, id |-> id, len |-> len, left |-> left]

NoMessage == [id |-> 0, parts |-> {}, read |-> 0, size |-> 0]
NoContent == [id |-> 0, left |-> 0, size |-> 0, part |-> "none"]

Init == /\ open = TRUE /\ wire = << >> /\ q = << >> /\ frame = NULL
        /\ call = "none" /\ pc = "idle" /\ asked = NULL /\ message = NoMessage
        /\ missed = FALSE
        /\ done = NULL
        /\ delivered = [ch \in Channel |-> << >>]
        /\ pending = {} /\ shut = {} /\ nreq = 0
        /\ requests = [ch \in Channel |-> << >>]
        /\ content = [ch \in Channel |-> NoContent]
        /\ nmsg = 0
        /\ closed = {}

-----------------------------------------------------------------------------
(* Taking a frame.                                                         *)

Used == pc' = "use" /\ UNCHANGED wire

FromQueue == Queue!TakeFirst /\ Used

FromWire == /\ wire # << >>
            /\ frame' = Head(wire) /\ wire' = Tail(wire)
            /\ pc' = "use"
            /\ UNCHANGED q

WireToQueue == /\ wire # << >>
               /\ Queue!Arrive(Head(wire))
               /\ wire' = Tail(wire)

QueuedOn(ch) == \E i \in DOMAIN q : q[i].channel = ch

(* The calls that take a frame of any channel, and those of one channel. *)
OnAny == {"method", "frame", "envelope"}
OnChannel == {"header", "body"}

(* Where a call that begins a wait finds its frame. *)
Look(c, ch) == IF (c \in OnAny /\ q # << >>) \/ (c \in OnChannel /\ QueuedOn(ch))
               THEN "queue" ELSE "wire"

amqp_simple_wait_frame_noblock ==
    \/ pc = "queue" /\ FromQueue
    \/ pc = "wire" /\ FromWire

amqp_simple_wait_frame_on_channel(ch) ==
    \/ pc = "queue" /\ Queue!TakeOnChannel(ch) /\ Used
    \/ /\ pc = "wire" /\ wire # << >>
       /\ \/ Head(wire).channel = ch /\ FromWire
          \/ Head(wire).channel # ch /\ WireToQueue /\ UNCHANGED pc

Take == /\ \/ call = "rpc" /\ pc = "wire" /\ FromWire
           \/ call \in OnAny /\ amqp_simple_wait_frame_noblock
           \/ call \in OnChannel /\ amqp_simple_wait_frame_on_channel(asked.channel)
        /\ UNCHANGED <<open, call, asked, message, missed, app, broker>>

-----------------------------------------------------------------------------
(* The end of a call.                                                      *)

(* The frame just taken is for one of these calls. *)
Using(calls) == call \in calls /\ pc = "use"

Finish(status, f) ==
    /\ call' = "none" /\ pc' = "idle"
    /\ asked' = NULL /\ message' = NoMessage
    /\ done' = [call |-> call, status |-> status, asked |-> asked, got |-> f]

(* What the application makes of a frame it is handed. *)
Learn(f) == /\ pending' = { r \in pending : ~(r.channel = f.channel /\ r.type = f.type) }
            /\ shut' = IF f.type = "close" THEN shut \cup {f.channel} ELSE shut
            /\ open' = (open /\ ~(f.type = "close" /\ f.channel = Zero))

(* With the call its decoded_frame is gone. *)
Return == frame' = NULL /\ UNCHANGED <<wire, q, missed, delivered, nreq, broker>>

LearnNothing == UNCHANGED <<pending, shut, open>>

Start(c, a) == /\ open /\ pc = "idle"
               /\ call' = c /\ pc' = Look(c, Zero) /\ asked' = a
               /\ done' = NULL
               /\ UNCHANGED <<wire, q, frame, message, missed, delivered, shut, open>>

-----------------------------------------------------------------------------
(* Requests and replies.                                                   *)

Send(ch, type) ==
    /\ open /\ pc = "idle"
    /\ ch \notin shut
    /\ nreq < MaxRequests /\ nmsg + nreq < MaxWork
    /\ \A r \in pending : r.channel # ch \/ r.type # type
    /\ nreq' = nreq + 1
    /\ LET r == F(ch, type, nreq', 0, 0) IN
         /\ pending' = pending \cup {r}
         /\ requests' = [requests EXCEPT ![ch] = Append(@, r)]
    /\ UNCHANGED <<content, nmsg, closed>>

amqp_send_method(ch, type) ==
    /\ Send(ch, type)
    /\ UNCHANGED <<wire, q, frame, call, pc, asked, message, missed, done, delivered,
                   shut, open>>

amqp_simple_rpc(ch, type) ==
    /\ Send(ch, type)
    /\ Start("rpc", F(ch, type, nreq + 1, 0, 0))

(* Any reply of the type will do. *)
IsReplyOnAny == frame.type = asked.type

IsReply == frame.channel = asked.channel /\ frame.type = asked.type

(* A channel.close does not end the RPC. *)
IsCloseOfConnection == frame.type = "close" /\ frame.channel = Zero

IsClose == frame.type = "close" /\ frame.channel \in {asked.channel, Zero}

RpcReturns == /\ Using({"rpc"}) /\ (IsReply \/ IsClose)
              /\ Finish(IF IsReply THEN "NORMAL" ELSE "SERVER_EXCEPTION", frame)
              /\ Learn(frame)
              /\ Return

RpcQueues == /\ Using({"rpc"}) /\ ~IsReply /\ ~IsClose
             /\ Queue!Arrive(frame)
             /\ pc' = "wire"
             /\ UNCHANGED <<open, wire, call, asked, message, missed, app, broker>>

(* With an rpc_timeout set; the socket is closed. *)
RpcTimeout == /\ call = "rpc" /\ pc = "wire"
              /\ open' = FALSE
              /\ Finish("TIMEOUT", NULL)
              /\ UNCHANGED <<pending, shut>>
              /\ Return

amqp_simple_wait_method ==
    \E r \in pending :
        /\ Start("method", r)
        /\ UNCHANGED <<pending, nreq, broker>>

(* A frame of the wrong kind is not handed to the application. *)
WaitMethodReturns ==
    /\ Using({"method"})
    /\ IF IsReply THEN Finish("NORMAL", frame) /\ Learn(frame)
                  ELSE Finish("WRONG_METHOD", NULL) /\ LearnNothing
    /\ Return

-----------------------------------------------------------------------------
(* Frames and messages.                                                    *)

amqp_simple_wait_frame ==
    /\ Start("frame", NULL)
    /\ UNCHANGED <<pending, nreq, broker>>

WaitFrameReturns ==
    /\ Using({"frame"})
    /\ Finish("NORMAL", frame) /\ Learn(frame)
    /\ Return

amqp_consume_message ==
    /\ Start("envelope", NULL)
    /\ UNCHANGED <<pending, nreq, broker>>

(* A wait for a frame with a timeout. *)
WaitTimeout ==
    /\ call \in {"frame", "envelope"} /\ pc = "wire"
    /\ Finish("TIMEOUT", NULL) /\ LearnNothing
    /\ Return

(* To amqp_read_message on the channel of the delivery. *)
EnvelopeRead ==
    /\ Using({"envelope"}) /\ frame.type = "deliver"
    /\ call' = "header" /\ pc' = Look("header", frame.channel)
    /\ asked' = frame
    /\ message' = [message EXCEPT !.id = frame.id]
    /\ UNCHANGED <<open, wire, q, frame, missed, app, broker>>

(* Not the expected frame: put back, or for a body lost, and an error returned. *)
UnexpectedPutBack ==
    /\ \/ Using({"envelope"}) /\ frame.type # "deliver"
       \/ Using({"header"}) /\ frame.type \notin {"header", "close"}
    /\ Queue!PutBack(frame)
    /\ Finish("UNEXPECTED_STATE", NULL) /\ LearnNothing
    /\ UNCHANGED <<wire, frame, missed, delivered, nreq, broker>>

ReadClosed ==
    /\ Using({"header", "body"}) /\ frame.type = "close"
    /\ Finish("SERVER_EXCEPTION", frame) /\ Learn(frame)
    /\ Return

HeaderRead ==
    /\ Using({"header"}) /\ frame.type = "header"
    /\ message' = [message EXCEPT !.parts = {frame.id}, !.size = frame.len]
    /\ call' = "body"
    /\ pc' = IF frame.len = 0 THEN "whole" ELSE Look("body", asked.channel)
    /\ UNCHANGED <<open, wire, q, frame, asked, missed, app, broker>>

(* One more frame read than the body has. *)
BodyReadOn ==
    /\ Using({"body"}) /\ frame.type = "body"
    /\ message.read + frame.len <= message.size
    /\ message' = [message EXCEPT !.parts = @ \cup {frame.id}, !.read = @ + frame.len]
    /\ pc' = IF message.read = message.size THEN "whole"
                                            ELSE Look("body", asked.channel)
    /\ UNCHANGED <<open, wire, q, frame, call, asked, missed, app, broker>>

(* The first fragment taken for the whole body. *)
BodyReadOnce ==
    /\ Using({"body"}) /\ frame.type = "body"
    /\ message.read + frame.len <= message.size
    /\ message' = [message EXCEPT !.parts = @ \cup {frame.id}, !.read = @ + frame.len]
    /\ pc' = "whole"
    /\ UNCHANGED <<open, wire, q, frame, call, asked, missed, app, broker>>

BodyRead ==
    /\ Using({"body"}) /\ frame.type = "body"
    /\ message.read + frame.len <= message.size
    /\ message' = [message EXCEPT !.parts = @ \cup {frame.id}, !.read = @ + frame.len]
    /\ pc' = IF message'.read = message.size THEN "whole"
                                            ELSE Look("body", asked.channel)
    /\ UNCHANGED <<open, wire, q, frame, call, asked, missed, app, broker>>

(* No body, or one too long. *)
BodyRefused ==
    /\ Using({"body"}) /\ frame.type # "close"
    /\ frame.type = "body" => message.read + frame.len > message.size
    /\ Finish("BAD_AMQP_DATA", NULL) /\ LearnNothing
    /\ Return

MessageRead ==
    /\ call = "body" /\ pc = "whole"
    /\ Finish("NORMAL", NULL) /\ LearnNothing
    /\ delivered' = [delivered EXCEPT ![asked.channel] = Append(@, message)]
    /\ UNCHANGED <<wire, q, frame, missed, nreq, broker>>

-----------------------------------------------------------------------------
(* Blocked sends.                                                          *)

(* The call in progress waits for this frame. *)
Awaited(f) == \/ call \in OnAny
              \/ call \in OnChannel /\ f.channel = asked.channel
              \/ /\ call = "rpc"
                 /\ \/ f.channel = asked.channel /\ f.type \in {asked.type, "close"}
                    \/ f.channel = Zero /\ f.type = "close"

(***************************************************************************)
(* amqp_try_recv, behind a publish or another send that has waited for too *)
(* long, or behind the heartbeat of a wait, reads what is there and queues *)
(* it unseen.                                                              *)
(***************************************************************************)
amqp_try_recv ==
    /\ open /\ pc \in {"idle", "blocked"}
    /\ WireToQueue
    /\ missed' = (missed \/ Awaited(Head(wire)))
    /\ UNCHANGED <<open, call, pc, asked, message, app, broker>>

(* amqp_send_frame of a wait's heartbeat does not get it out in time. *)
HeartbeatBlocks == /\ pc = "wire"
                   /\ pc' = "blocked"
                   /\ UNCHANGED <<open, wire, q, frame, call, asked, message, missed,
                                  app, broker>>

(***************************************************************************)
(* It is out at last, and the wait goes straight to recv_with_timeout: the *)
(* frames amqp_try_recv has read last and not taken are lost.              *)
(***************************************************************************)
HeartbeatSent ==
    /\ pc = "blocked"
    /\ pc' = "wire"
    /\ \E k \in 0 .. Len(wire) : /\ wire' = SubSeq(wire, k + 1, Len(wire))
                                 /\ missed' = (missed \/ k > 0)
    /\ UNCHANGED <<open, q, frame, call, asked, message, app, broker>>

(* Lost in the middle of a frame: the parser refuses what follows. *)
FrameCut == /\ pc = "blocked" /\ wire # << >>
            /\ open' = FALSE
            /\ Finish("BAD_AMQP_DATA", NULL)
            /\ UNCHANGED <<pending, shut>>
            /\ Return

-----------------------------------------------------------------------------
(* The broker.                                                             *)

Put(f) == /\ Zero \notin closed /\ f.channel \notin closed
          /\ Len(wire) < MaxWire
          /\ wire' = Append(wire, f)
          /\ UNCHANGED <<open, q, frame, call, pc, asked, message, missed, app>>

Answer(ch) == /\ requests[ch] # << >> /\ content[ch] = NoContent
              /\ Put(Head(requests[ch]))
              /\ requests' = [requests EXCEPT ![ch] = Tail(@)]
              /\ UNCHANGED <<content, nmsg, closed>>

Deliver(ch) == \E size \in 0 .. MaxBody :
    /\ content[ch] = NoContent /\ nmsg < MaxMessages /\ nmsg + nreq < MaxWork
    /\ nmsg' = nmsg + 1
    /\ Put(F(ch, "deliver", nmsg', 0, 0))
    /\ content' = [content EXCEPT ![ch] = [id |-> nmsg', left |-> size,
                                           size |-> size, part |-> "header"]]
    /\ UNCHANGED <<requests, closed>>

Rest(c, left) == IF left = 0 THEN NoContent ELSE [c EXCEPT !.left = left, !.part = "body"]

SendContent(ch) == LET c == content[ch] IN
    /\ \/ /\ c.part = "header"
          /\ Put(F(ch, "header", c.id, c.size, c.left))
          /\ content' = [content EXCEPT ![ch] = Rest(c, c.left)]
       \/ /\ c.part = "body"
          /\ \E n \in 1 .. c.left : /\ Put(F(ch, "body", c.id, n, c.left - n))
                                    /\ content' = [content EXCEPT ![ch] = Rest(c, c.left - n)]
    /\ UNCHANGED <<requests, nmsg, closed>>

Close(ch) == /\ ch \in Closable /\ Cardinality(closed) < MaxClosed
             /\ Put(F(ch, "close", 0, 0, 0))
             /\ closed' = closed \cup {ch}
             /\ UNCHANGED <<requests, content, nmsg>>

-----------------------------------------------------------------------------

Use == \/ RpcReturns \/ RpcQueues \/ WaitMethodReturns \/ WaitFrameReturns
       \/ EnvelopeRead \/ UnexpectedPutBack \/ ReadClosed
       \/ HeaderRead \/ BodyRead \/ BodyRefused \/ MessageRead

Calls == \/ \E ch \in Channel, type \in Request :
                amqp_send_method(ch, type) \/ amqp_simple_rpc(ch, type)
         \/ amqp_simple_wait_method \/ amqp_simple_wait_frame
         \/ amqp_consume_message \/ amqp_try_recv

Broker == \E ch \in Channel : Answer(ch) \/ SendContent(ch)

Next == \/ Calls \/ Take \/ Use \/ RpcTimeout \/ WaitTimeout
        \/ HeartbeatBlocks \/ HeartbeatSent \/ FrameCut
        \/ Broker
        \/ \E ch \in Channel : Deliver(ch)
        \/ \E ch \in Channel \cup {Zero} : Close(ch)

Spec == Init /\ [][Next]_vars

(***************************************************************************)
(* The thread runs; the broker takes a heartbeat at last, answers, and     *)
(* finishes what it has begun.  Between two heartbeats of a wait there is  *)
(* a recv, which looks at the wire before it polls: a frame there cannot   *)
(* be passed by for ever.                                                  *)
(***************************************************************************)
FairSpec == /\ Spec
            /\ SF_vars(Take) /\ WF_vars(Use) /\ WF_vars(HeartbeatSent)
            /\ \A ch \in Channel : WF_vars(Answer(ch)) /\ WF_vars(SendContent(ch))

-----------------------------------------------------------------------------
(***************************************************************************)
(* A call that returns a reply returns the one to the very request it is   *)
(* about, with other requests under way on its channel and on others.      *)
(***************************************************************************)
ReplyMatches == (done # NULL /\ done.status = "NORMAL" /\ done.call \in {"rpc", "method"})
                    => done.got = done.asked

(***************************************************************************)
(* With a broker that keeps its own order on a channel, a read neither     *)
(* misses nor repeats a part of a body, so that the two returns of         *)
(* AMQP_STATUS_BAD_AMQP_DATA in the loop over the body (amqp_consumer.c:278*)
(* and 286) do not give up a sound connection.                             *)
(***************************************************************************)
BodyAsAnnounced ==
    Using({"body"}) => \/ frame.type = "close"
                       \/ frame.type = "body" /\ message.read + frame.len <= message.size

(***************************************************************************)
(* A message handed to the application is one message of the broker, with  *)
(* its own header and its whole body, and the messages of a channel come   *)
(* in the broker's order, however the frames of the channels were mixed,   *)
(* queued and skipped, and no read of a message fails on what it is sent:  *)
(* unless a wait has lost frames behind its own blocked heartbeat, or went *)
(* on to later ones while the frame it waits for was put on the queue.     *)
(***************************************************************************)
MessagesIntact ==
    \/ missed
    \/ /\ BodyAsAnnounced
       /\ \A ch \in Channel : \A i \in DOMAIN delivered[ch] :
            LET d == delivered[ch][i] IN
              /\ d.parts = {d.id} /\ d.read = d.size
              /\ \A j \in 1 .. i - 1 : delivered[ch][j].id < d.id

(* The channel the call is about. *)
Asked == IF asked = NULL THEN Zero ELSE asked.channel

(* A close of the channel was read off the wire but not handed to the application. *)
CloseUnseen(ch) == /\ ch \in closed \ shut
                   /\ \A i \in DOMAIN wire : wire[i].channel = ch => wire[i].type # "close"
                   /\ frame = NULL \/ pc # "use" \/ frame.channel # ch \/ frame.type # "close"

(***************************************************************************)
(* An RPC ends, by its reply or by a close that comes in meanwhile, unless *)
(* a close had been queued, and not looked at, before it began, or the     *)
(* frame that would end it is missed behind a blocked heartbeat.           *)
(***************************************************************************)
RpcEnds == (call = "rpc" /\ ~CloseUnseen(Asked) /\ ~CloseUnseen(Zero))
               ~> (call # "rpc" \/ missed)

(***************************************************************************)
(* A message that has been begun is read to its end, or its channel's      *)
(* close is reported, unless a frame of it is missed behind a blocked      *)
(* heartbeat.  Not so when the broker closes the connection: the read      *)
(* queues that close, of channel 0, and waits on without end.              *)
(***************************************************************************)
ReadEnds == call \in {"header", "body"}
                ~> (call = "none" \/ Zero \in closed \/ Asked \in shut \/ missed)
=============================================================================
