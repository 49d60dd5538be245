---------------------------- MODULE Conversation ----------------------------
(***************************************************************************)
(* The control of a connection that is open: the application calls a       *)
(* method and waits for its answer, publishes a message frame by frame, or *)
(* waits for what the broker sends of its own.  What the frames look like  *)
(* as bytes is in Exchange: here a frame encodes or does not, and what     *)
(* arrives is read as it was sent.                                         *)
(*                                                                         *)
(* The calls follow one another, as the library is not thread safe.  The   *)
(* broker is not in the repository: it answers a method that asks for an   *)
(* answer by one that the protocol allows.                                 *)
(*                                                                         *)
(* Heartbeats and lost connections during a call are in Heartbeat, frames  *)
(* that arrive out of turn in AmqpClient; here every send goes through.    *)
(***************************************************************************)
EXTENDS Wire, MethodLayouts, Tuning

CONSTANTS
    Value,          \* for each type of field the values the runs use
    PropertyFlags,  \* the _flags of the properties a message is sent with
    BodyLength,     \* the lengths of the messages that are published
    Channel         \* the channels in use

\* amqp_bytes_t counts with a size_t
ASSUME BodyLengthAssumption == BodyLength \subseteq Nat

VARIABLES
    call,           \* the call in progress, or NoCall
    wire,           \* the frames on their way, and to whom
    log,            \* what the broker has taken of the message being published
    result          \* what the last call returned

conversationVars == <<call, wire, log, result, frame_max>>

\* a shorter buffer has no room for the fixed part of a header frame
MinFrameMax == HEADER_SIZE + 12 + FOOTER_SIZE

NoCall == [call |-> "none"]

\* the first value of each type is the one of the fields a message leaves alone
First(type) == Value[type][1]

(***************************************************************************)
(* The structures a method is tried with: in each at most one field has    *)
(* another value than the first of its type.  Two fields that change       *)
(* places, or that are read with the width of another, show.               *)
(***************************************************************************)
AllFirst(m) == [f \in DOMAIN Fields[m] |-> First(Fields[m][f])]

Samples(m) ==
    LET Changed(f) == {[AllFirst(m) EXCEPT ![f] = v] : v \in ToSet(Value[Fields[m][f]])}
    IN  {AllFirst(m)} \cup UNION {Changed(f) : f \in DOMAIN Fields[m]}

\* what the application passes to a call, with what the call sets itself
Requests(c) ==
    {[f \in DOMAIN m |-> IF f \in DOMAIN Call[c].fixed THEN Call[c].fixed[f] ELSE m[f]] :
        m \in Samples(Call[c].request)}

-----------------------------------------------------------------------------
\* the types of the properties of the class basic
BasicProperties ==
    [content_type |-> bytes_t, content_encoding |-> bytes_t, headers |-> table_t,
     delivery_mode |-> uint8_t, priority |-> uint8_t, correlation_id |-> bytes_t,
     reply_to |-> bytes_t, expiration |-> bytes_t, message_id |-> bytes_t,
     timestamp |-> uint64_t, type |-> bytes_t, user_id |-> bytes_t,
     app_id |-> bytes_t, cluster_id |-> bytes_t]

\* the bit of _flags of each property
BasicFlag ==
    [content_type |-> 15, content_encoding |-> 14, headers |-> 13,
     delivery_mode |-> 12, priority |-> 11, correlation_id |-> 10,
     reply_to |-> 9, expiration |-> 8, message_id |-> 7, timestamp |-> 6,
     type |-> 5, user_id |-> 4, app_id |-> 3, cluster_id |-> 2]

\* properties with these flags, each of the i-th value of its type
Properties(flags, i) ==
    LET type(f) == BasicProperties[f]
    IN  "_flags" :> flags
        @@ [f \in {f \in DOMAIN BasicFlag : Bit(flags, BasicFlag[f])} |->
               Value[type(f)][IF i \in DOMAIN Value[type(f)] THEN i ELSE 1]]

\* the message body of this length; no two neighbouring bytes are the same
Body(length) == [i \in 1 .. length |-> i % Base]

\* the messages that are published; the ticket of the method is 0
Publications ==
    LET Publication(ch, m, p, length) ==
            [channel |-> ch, method |-> [m EXCEPT !.ticket = 0], properties |-> p,
             length |-> length]
    IN  {Publication(ch, m, Properties(0, 1), length) :
            ch \in Channel, m \in Samples("BASIC_PUBLISH"), length \in BodyLength}
        \cup {Publication(ch, AllFirst("BASIC_PUBLISH"), Properties(flags, i), length) :
                 ch \in Channel, flags \in PropertyFlags, i \in 1..2, length \in BodyLength}

-----------------------------------------------------------------------------
MethodFrame(ch, number, m) ==
    [frame_type |-> AMQP_FRAME_METHOD, channel |-> ch, id |-> number, decoded |-> m]

HeaderFrame(ch, class, size, p) ==
    [frame_type |-> AMQP_FRAME_HEADER, channel |-> ch, class_id |-> class,
     body_size |-> size, decoded |-> p]

BodyFrame(ch, bytes) ==
    [frame_type |-> AMQP_FRAME_BODY, channel |-> ch, body_fragment |-> bytes]

To(side, frame) == [frame |-> frame, to |-> side]

-----------------------------------------------------------------------------
ConversationInit ==
    /\ call = NoCall
    /\ wire = <<>>
    /\ log = <<>>
    /\ result = OK
    /\ frame_max \in Nat

\* between two calls, with nothing left to observe of the last one
Idle == call = NoCall /\ wire = <<>> /\ log = <<>> /\ result = OK

\* the observations of the last call are dropped; the program has no such step
NextCall ==
    /\ call = NoCall /\ wire = <<>>
    /\ log' = <<>>
    /\ result' = OK
    /\ UNCHANGED <<call, wire, frame_max>>

\* a call returns
Return(status) ==
    /\ result' = status
    /\ call' = NoCall

(***************************************************************************)
(* amqp_send_frame_inner: with another status than OK the frame does not   *)
(* encode; then nothing is sent, and the call returns.                     *)
(***************************************************************************)
send_frame_inner(frame, s, Sent) ==
    IF s # OK THEN Return(s) /\ UNCHANGED wire
    ELSE wire' = Append(wire, To("server", frame)) /\ Sent

\* a call of the API: the request, and then amqp_simple_rpc's wait
RequestFrame(c, ch, m) == MethodFrame(ch, MethodId[Call[c].request], m)

StartCall(c, ch, m, s) ==
    LET Answered(replies) ==
            IF replies = {} THEN Return(OK)
            ELSE call' = [call |-> "rpc", replies |-> replies] /\ UNCHANGED result
    IN  /\ Idle
        /\ send_frame_inner(RequestFrame(c, ch, m), s, Answered(Call[c].replies))
        /\ UNCHANGED <<log, frame_max>>

\* amqp_send_method with a method number the library does not know
UnknownFrame(ch) == MethodFrame(ch, Id(10, 99), Empty)

SendUnknown(ch, s) ==
    /\ Idle
    /\ send_frame_inner(UnknownFrame(ch), s, Return(OK))
    /\ UNCHANGED <<log, frame_max>>

-----------------------------------------------------------------------------
(***************************************************************************)
(* amqp_basic_publish, after its look at the heartbeat.  body_offset tells *)
(* how much of the body is sent, -1 that the header is not.                *)
(***************************************************************************)
\* the end marker forgotten
usable_body_payload_sizeNoFooter == frame_max - HEADER_SIZE

usable_body_payload_size == frame_max - (HEADER_SIZE + FOOTER_SIZE)

PublishCall(ch, p, body, offset) ==
    [call |-> "publish", channel |-> ch, properties |-> p, body |-> body, body_offset |-> offset]

PublishFrame(p) == MethodFrame(p.channel, MethodId["BASIC_PUBLISH"], p.method)

StartPublish(p, s) ==
    LET Begun == /\ call' = PublishCall(p.channel, p.properties, Body(p.length), -1)
                 /\ UNCHANGED result
    IN  /\ Idle
        /\ send_frame_inner(PublishFrame(p), s, Begun)
        /\ UNCHANGED <<log, frame_max>>

\* the call returns AMQP_STATUS_OK when the last byte of the body is sent
PublishedTo(offset) ==
    IF offset >= Len(call.body) THEN Return(OK)
    ELSE call' = PublishCall(call.channel, call.properties, call.body, offset) /\ UNCHANGED result

HeaderDue == call.call = "publish" /\ call.body_offset = -1

MessageHeader ==
    HeaderFrame(call.channel, AMQP_BASIC_CLASS, Len(call.body), call.properties)

\* an empty body sent as one empty frame
PublishHeaderAndBody(s) ==
    /\ HeaderDue
    /\ send_frame_inner(MessageHeader, s,
                        /\ call' = PublishCall(call.channel, call.properties, call.body, 0)
                        /\ UNCHANGED result)
    /\ UNCHANGED <<log, frame_max>>

\* the buffer grows for a frame that does not fit, and with it the limit
PublishHeaderGrows(s) ==
    /\ HeaderDue
    /\ IF s = OK
       THEN /\ send_frame_inner(MessageHeader, s, PublishedTo(0))
            /\ UNCHANGED frame_max
       ELSE /\ frame_max' = 2 * frame_max
            /\ UNCHANGED <<call, wire, result>>
    /\ UNCHANGED log

PublishHeader(s) ==
    /\ HeaderDue
    /\ send_frame_inner(MessageHeader, s, PublishedTo(0))
    /\ UNCHANGED <<log, frame_max>>

BodyDue == call.call = "publish" /\ call.body_offset >= 0

FragmentLength ==
    LET remaining == Len(call.body) - call.body_offset
    IN  IF remaining >= usable_body_payload_size THEN usable_body_payload_size ELSE remaining

NextFragment ==
    BodyFrame(call.channel,
              SubSeq(call.body, call.body_offset + 1, call.body_offset + FragmentLength))

PublishBody(s) ==
    /\ BodyDue
    /\ send_frame_inner(NextFragment, s, PublishedTo(call.body_offset + FragmentLength))
    /\ UNCHANGED <<log, frame_max>>

-----------------------------------------------------------------------------
(***************************************************************************)
(* The broker.  A request with nowait set asks for no answer.              *)
(***************************************************************************)
WantsAnswer(m) == "nowait" \notin DOMAIN m \/ ~ m.nowait

\* the answers that the protocol has for a method
AnswerTo ==
    [CONNECTION_CLOSE |-> {"CONNECTION_CLOSE_OK"}, CHANNEL_OPEN |-> {"CHANNEL_OPEN_OK"},
     CHANNEL_FLOW |-> {"CHANNEL_FLOW_OK"}, CHANNEL_CLOSE |-> {"CHANNEL_CLOSE_OK"},
     EXCHANGE_DECLARE |-> {"EXCHANGE_DECLARE_OK"}, EXCHANGE_DELETE |-> {"EXCHANGE_DELETE_OK"},
     EXCHANGE_BIND |-> {"EXCHANGE_BIND_OK"}, EXCHANGE_UNBIND |-> {"EXCHANGE_UNBIND_OK"},
     QUEUE_DECLARE |-> {"QUEUE_DECLARE_OK"}, QUEUE_BIND |-> {"QUEUE_BIND_OK"},
     QUEUE_PURGE |-> {"QUEUE_PURGE_OK"}, QUEUE_DELETE |-> {"QUEUE_DELETE_OK"},
     QUEUE_UNBIND |-> {"QUEUE_UNBIND_OK"}, BASIC_QOS |-> {"BASIC_QOS_OK"},
     BASIC_CONSUME |-> {"BASIC_CONSUME_OK"}, BASIC_CANCEL |-> {"BASIC_CANCEL_OK"},
     BASIC_GET |-> {"BASIC_GET_OK", "BASIC_GET_EMPTY"}, BASIC_RECOVER |-> {"BASIC_RECOVER_OK"},
     TX_SELECT |-> {"TX_SELECT_OK"}, TX_COMMIT |-> {"TX_COMMIT_OK"},
     TX_ROLLBACK |-> {"TX_ROLLBACK_OK"}, CONFIRM_SELECT |-> {"CONFIRM_SELECT_OK"}]

Answers(name) == IF name \in DOMAIN AnswerTo THEN AnswerTo[name] ELSE {}

ServerAnswers(ch, name) ==
    \E answer \in Answers(name) : \E m \in Samples(answer) :
        wire' = Append(Tail(wire), To("client", MethodFrame(ch, MethodId[answer], m)))

\* what arrives first, if it is for this side
Arriving(side) == wire # <<>> /\ Head(wire).to = side

ServerTakes(read) ==
    /\ Arriving("server")
    /\ log' = IF call.call = "rpc" THEN log ELSE Append(log, read)
    /\ IF call.call = "rpc" /\ WantsAnswer(read.decoded)
       THEN ServerAnswers(read.channel, amqp_method_name(read.id))
       ELSE wire' = Tail(wire)
    /\ UNCHANGED <<call, result, frame_max>>

\* frames the broker sends of its own: what it delivers, returns or closes
ServerFrames ==
    UNION {{MethodFrame(ch, MethodId[name], m) : m \in Samples(name)} :
              ch \in Channel, name \in Method}
    \cup {HeaderFrame(ch, class, size, Properties(IF class = AMQP_BASIC_CLASS THEN flags ELSE 0, i)) :
              ch \in Channel, class \in PropertyClasses, size \in BodyLength,
              flags \in PropertyFlags, i \in 1..2}
    \cup {BodyFrame(ch, Body(length)) : ch \in Channel, length \in BodyLength}
    \cup {[frame_type |-> AMQP_FRAME_HEARTBEAT, channel |-> 0]}

ServerSends(frame) ==
    /\ Idle
    /\ frame.frame_type = AMQP_FRAME_BODY
           => Len(frame.body_fragment) <= usable_body_payload_size
    /\ call' = [call |-> "wait"]
    /\ wire' = <<To("client", frame)>>
    /\ UNCHANGED <<log, result, frame_max>>

(***************************************************************************)
(* amqp_simple_wait_frame and amqp_simple_rpc: an error of the decoder is  *)
(* what the call returns.  A call that has been sent something else than   *)
(* the answer it waits for queues it and waits on.                         *)
(***************************************************************************)
ClientTakes(read, s) ==
    /\ Arriving("client")
    /\ IF s # OK \/ call.call = "wait" \/ read.id \in {MethodId[r] : r \in call.replies}
       THEN Return(s)
       ELSE UNCHANGED <<call, result>>
    /\ wire' = Tail(wire)
    /\ UNCHANGED <<log, frame_max>>

-----------------------------------------------------------------------------
\* what amqp_frame_to_bytes may return
EncodeStatuses == {OK, BAD_AMQP_DATA, TABLE_TOO_BIG, UNKNOWN_METHOD, UNKNOWN_CLASS, INVALID_PARAMETER}

\* a login, or a new connection, brings limits of its own
Retuned ==
    /\ Idle
    /\ frame_max' \in Nat
    /\ UNCHANGED <<call, wire, log, result>>

ApplicationCalls ==
    \/ \E c \in DOMAIN Call, ch \in Channel, s \in EncodeStatuses :
           \E m \in Requests(c) : StartCall(c, ch, m, s)
    \/ \E ch \in Channel, s \in EncodeStatuses : SendUnknown(ch, s)
    \/ \E p \in Publications, s \in EncodeStatuses : StartPublish(p, s)

ConversationNext ==
    \/ Retuned
    \/ \E s \in EncodeStatuses : (s = OK => frame_max >= MinFrameMax) /\ PublishHeader(s)
    \/ PublishBody(OK)
    \/ Arriving("server") /\ ServerTakes(Head(wire).frame)
    \/ Arriving("client") /\ ClientTakes(Head(wire).frame, OK)
    \/ NextCall
    \/ Idle /\ call' = [call |-> "wait"] /\ \E frame \in ServerFrames : ServerSends(frame)
    \/ Idle /\ ApplicationCalls

(***************************************************************************)
(* The exchange of encoded frames is one of these: the codec makes the     *)
(* header fit a buffer only if there is room for it, lets every fragment   *)
(* of a body pass, and returns what was sent.                              *)
(***************************************************************************)
ConversationSpec == ConversationInit /\ [][ConversationNext]_conversationVars

-----------------------------------------------------------------------------
(***************************************************************************)
(* A call waits only for an answer that comes: the request it sent asks    *)
(* for one, and the answer is one of those the call accepts.               *)
(***************************************************************************)
AnswerComes == call.call = "rpc" => wire # <<>>

\* the i-th frame of a body of this size
Stretch(i, size) ==
    LET full == i * usable_body_payload_size
    IN  SubSeq(Body(size), full - usable_body_payload_size + 1, IF full < size THEN full ELSE size)

(***************************************************************************)
(* When amqp_basic_publish has succeeded and all of it has arrived, the    *)
(* broker has the method, one header with the size of the body, and the    *)
(* body from its first byte to its last, cut into frames that are as long  *)
(* as frame_max allows, the last one excepted, which is not empty.         *)
(***************************************************************************)
PublishedWhole ==
    (call = NoCall /\ wire = <<>> /\ result = OK /\ log # <<>>
     /\ log[1].id = MethodId["BASIC_PUBLISH"]) =>
        LET n == Len(log) - 2
            size == log[2].body_size
        IN  /\ n >= 0
            /\ log[2].frame_type = AMQP_FRAME_HEADER
            /\ (n - 1) * usable_body_payload_size < size
            /\ size <= n * usable_body_payload_size
            /\ \A i \in 1 .. n :
                   /\ log[i + 2].frame_type = AMQP_FRAME_BODY
                   /\ log[i + 2].body_fragment = Stretch(i, size)
=============================================================================
