------------------------------ MODULE Exchange ------------------------------
(***************************************************************************)
(* The conversation with the frames as they cross the wire: each as the    *)
(* bytes that amqp_frame_to_bytes puts into outbound_buffer, of frame_max  *)
(* bytes.  Whether a frame encodes, and what the other side reads, is what *)
(* the codec makes of it; the broker's codec is the library's own.         *)
(***************************************************************************)
EXTENDS FrameCodec, Conversation

VARIABLES
    raw,            \* the bytes of each frame on the wire
    got             \* the last frame that arrived: as sent and as decoded

exchangeVars == <<call, wire, log, result, raw, got>>

NoFrame == [frame_type |-> 0]
NothingGot == [sent |-> NoFrame, read |-> NoFrame]

ExchangeInit ==
    /\ call = NoCall
    /\ wire = <<>>
    /\ log = <<>>
    /\ result = OK
    /\ raw = <<>>
    /\ got = NothingGot

\* between two calls, what arrived last included
Quiet == Idle /\ got = NothingGot

-----------------------------------------------------------------------------
\* outbound_buffer with this frame; a set, for it is encoded once and used twice
InBuffer(frame) == {amqp_frame_to_bytes(frame, frame_max)}

Sends(e) ==
    /\ raw' = IF e.status = OK THEN Append(raw, e.bytes) ELSE raw
    /\ UNCHANGED got

\* the broker sends only what it can encode
Encodes(frame, before) ==
    \E e \in InBuffer(frame) : e.status = OK /\ raw' = Append(before, e.bytes)

Calls ==
    \/ \E c \in DOMAIN Call, ch \in Channel : \E m \in Requests(c) :
           \E e \in InBuffer(RequestFrame(c, ch, m)) : StartCall(c, ch, m, e.status) /\ Sends(e)
    \/ \E ch \in Channel : \E e \in InBuffer(UnknownFrame(ch)) :
           SendUnknown(ch, e.status) /\ Sends(e)
    \/ \E p \in Publications : \E e \in InBuffer(PublishFrame(p)) :
           StartPublish(p, e.status) /\ Sends(e)

SendsHeader ==
    HeaderDue /\ \E e \in InBuffer(MessageHeader) : PublishHeader(e.status) /\ Sends(e)

SendsBody == BodyDue /\ \E e \in InBuffer(NextFragment) : PublishBody(e.status) /\ Sends(e)

ServerReads ==
    /\ Arriving("server")
    /\ \E read \in {DecodeFrame(Head(raw)).frame} :
           ServerTakes(read) /\ got' = [sent |-> Head(wire).frame, read |-> read]
    /\ IF Len(wire') < Len(wire) THEN raw' = Tail(raw)
       ELSE Encodes(Last(wire').frame, Tail(raw))

ServerWrites(frame) == ServerSends(frame) /\ Encodes(frame, raw) /\ UNCHANGED got

ClientReads ==
    /\ Arriving("client")
    /\ \E d \in {DecodeFrame(Head(raw))} :
           ClientTakes(d.frame, d.status) /\ got' = [sent |-> Head(wire).frame, read |-> d.frame]
    /\ raw' = Tail(raw)

NextExchange == NextCall /\ ~ Quiet /\ got' = NothingGot /\ UNCHANGED raw

ExchangeNext ==
    \/ Quiet /\ Calls
    \/ SendsHeader
    \/ SendsBody
    \/ ServerReads
    \/ Quiet /\ \E frame \in ServerFrames : ServerWrites(frame)
    \/ ClientReads
    \/ NextExchange

-----------------------------------------------------------------------------
(***************************************************************************)
(* What arrives is what was sent: the decoder of a method or of properties *)
(* fills every field of the structure with the value that the encoder      *)
(* found in it, whatever the other fields hold.                            *)
(***************************************************************************)
SurvivesWire == got.read = got.sent

(***************************************************************************)
(* amqp_frame_to_bytes writes the frame into outbound_buffer, which is     *)
(* frame_max bytes long, and announces the size it has.                    *)
(***************************************************************************)
FitsBuffer ==
    \A i \in DOMAIN raw : Len(raw[i]) <= frame_max /\ TargetSize(raw[i]) = Len(raw[i])
=============================================================================
