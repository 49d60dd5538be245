----------------------------- MODULE FrameCodec -----------------------------
(***************************************************************************)
(* Methods, properties and frames as bytes and back: amqp_encode_method,   *)
(* amqp_decode_method, amqp_encode_properties, amqp_decode_properties,     *)
(* amqp_frame_to_bytes, and the part of amqp_handle_input that decodes a   *)
(* complete frame (FrameParser models how one becomes complete).           *)
(***************************************************************************)
EXTENDS TableCodec, MethodLayouts

AMQP_FRAME_END == 206

-----------------------------------------------------------------------------
\* a length and the bytes; a short string must have its length in one byte
PutString(w, n, bytes) ==
    IF w.status = OK /\ n = 1 /\ Len(bytes) > UINT8_MAX
    THEN [w EXCEPT !.status = BAD_AMQP_DATA]
    ELSE PutBytes(PutInt(w, n, Len(bytes), BAD_AMQP_DATA), bytes, BAD_AMQP_DATA)

PutField(w, m, f) ==
    CASE f.codec = "int"    -> PutInt(w, f.bytes, m[f.field], BAD_AMQP_DATA)
      [] f.codec = "string" -> PutString(w, f.bytes, m[f.field])
      [] f.codec = "table"  -> amqp_encode_table(w, m[f.field])
      [] f.codec = "bits"   ->
             LET set == {i \in DOMAIN f.fields : m[f.fields[i]]}
             IN  PutInt(w, 1, MapThenSumSet(LAMBDA i : 2^(i - 1), set), BAD_AMQP_DATA)

\* what is read from `encoded' so far: the reader, and the fields it filled
GetField(encoded, s, f) ==
    LET Filled(g) == [r |-> g, m |-> s.m @@ (f.field :> g.val)]
        Set(g, i) == g.status = OK /\ Bit(g.val, i - 1)
        Flags(g) ==
            [r |-> g,
             m |-> s.m @@ [b \in ToSet(f.fields) |->
                              \E i \in DOMAIN f.fields : f.fields[i] = b /\ Set(g, i)]]
    IN  CASE f.codec = "int"    -> Filled(GetInt(encoded, s.r, f.bytes))
          [] f.codec = "string" -> Filled(GetString(encoded, s.r, f.bytes))
          [] f.codec = "table"  -> Filled(Then(s.r, LAMBDA r : amqp_decode_table(encoded, r)))
          [] f.codec = "bits"   -> Flags(GetInt(encoded, s.r, 1))

-----------------------------------------------------------------------------
\* the status, and the bytes written into a buffer of this length
amqp_encode_method(number, m, len) ==
    LET name == amqp_method_name(number)
        Put(w, f) == PutField(w, m, f)
    IN  IF name = "NULL" THEN [Writer(len) EXCEPT !.status = UNKNOWN_METHOD]
        ELSE FoldLeft(Put, Writer(len), EncodeLayout[name])

amqp_decode_method(number, encoded) ==
    LET name == amqp_method_name(number)
        Get(s, f) == GetField(encoded, s, f)
    IN  IF name = "NULL" THEN [r |-> [Reader EXCEPT !.status = UNKNOWN_METHOD], m |-> Empty]
        ELSE FoldLeft(Get, [r |-> Reader, m |-> Empty], DecodeLayout[name])

-----------------------------------------------------------------------------
(***************************************************************************)
(* Properties.  _flags says which of them are there; only those of the     *)
(* class basic have any.  The flags are written 15 to a word, bit 0 of a   *)
(* word telling that another word follows.                                 *)
(***************************************************************************)
Property(bit, f) == [bit |-> bit, field |-> f]

DecodeBasicProperties ==
    <<Property(15, Short("content_type")), Property(14, Short("content_encoding")),
      Property(13, Table("headers")), Property(12, U8("delivery_mode")),
      Property(11, U8("priority")), Property(10, Short("correlation_id")),
      Property(9, Short("reply_to")), Property(8, Short("expiration")),
      Property(7, Short("message_id")), Property(6, U64("timestamp")),
      Property(5, Short("type")), Property(4, Short("user_id")),
      Property(3, Short("app_id")), Property(2, Short("cluster_id"))>>

EncodeBasicProperties ==
    <<Property(15, Short("content_type")), Property(14, Short("content_encoding")),
      Property(13, Table("headers")), Property(12, U8("delivery_mode")),
      Property(11, U8("priority")), Property(10, Short("correlation_id")),
      Property(9, Short("reply_to")), Property(8, Short("expiration")),
      Property(7, Short("message_id")), Property(6, U64("timestamp")),
      Property(5, Short("type")), Property(4, Short("user_id")),
      Property(3, Short("app_id")), Property(2, Short("cluster_id"))>>

RECURSIVE PutFlags(_, _), GetFlags(_, _, _, _)

PutFlags(w, remaining) ==
    LET rest == remaining \div 65536
        word == (remaining % 65536) - (remaining % 2) + (IF rest # 0 THEN 1 ELSE 0)
        More(x) == IF rest = 0 THEN x ELSE PutFlags(x, rest)
    IN  More(PutInt(w, 2, word, BAD_AMQP_DATA))

GetFlags(encoded, r, flags, index) ==
    LET Sum(g) == flags + g.val * 65536^index
    IN  Then(GetInt(encoded, r, 2),
             LAMBDA g : IF Bit(g.val, 0) THEN GetFlags(encoded, g, Sum(g), index + 1)
                        ELSE [g EXCEPT !.val = Sum(g)])

\* the properties of this class that the flags announce
Announce(class, flags, layout) ==
    IF class = AMQP_BASIC_CLASS
    THEN SelectSeq(layout, LAMBDA p : Bit(flags, p.bit)) ELSE <<>>

amqp_encode_properties(class, p, len) ==
    LET Put(x, q) == PutField(x, p, q.field)
    IN  Then(PutFlags(Writer(len), p._flags),
             LAMBDA w : IF class \in PropertyClasses
                        THEN FoldLeft(Put, w, Announce(class, p._flags, EncodeBasicProperties))
                        ELSE [w EXCEPT !.status = UNKNOWN_CLASS])

amqp_decode_properties(class, encoded) ==
    LET Get(s, q) == GetField(encoded, s, q.field)
        Flagged(g) ==
            CASE g.status # OK -> [r |-> g, m |-> Empty]
              [] class \notin PropertyClasses ->
                     [r |-> [g EXCEPT !.status = UNKNOWN_CLASS], m |-> Empty]
              [] OTHER -> FoldLeft(Get, [r |-> g, m |-> "_flags" :> g.val],
                                   Announce(class, g.val, DecodeBasicProperties))
    IN  Flagged(GetFlags(encoded, Reader, 0, 0))

-----------------------------------------------------------------------------
(***************************************************************************)
(* amqp_frame_to_bytes: the frame in a buffer of this length.  Only the    *)
(* method and the properties are written within bounds; the header, the    *)
(* body and the end marker are put where they belong.                      *)
(***************************************************************************)
FramePayload(frame, len) ==
    LET room == len - HEADER_SIZE - FOOTER_SIZE
        Behind(fixed, w) == [status |-> w.status, out |-> fixed \o w.out]
    IN  CASE frame.frame_type = AMQP_FRAME_BODY -> [status |-> OK, out |-> frame.body_fragment]
          [] frame.frame_type = AMQP_FRAME_METHOD ->
                 Behind(Digits[4, frame.id],
                        amqp_encode_method(frame.id, frame.decoded, room - 4))
          [] frame.frame_type = AMQP_FRAME_HEADER ->
                 Behind(Digits[2, frame.class_id] \o Digits[2, 0] \o Digits[8, frame.body_size],
                        amqp_encode_properties(frame.class_id, frame.decoded, room - 12))
          [] frame.frame_type = AMQP_FRAME_HEARTBEAT -> [status |-> OK, out |-> <<>>]
          [] OTHER -> [status |-> INVALID_PARAMETER, out |-> <<>>]

amqp_frame_to_bytes(frame, len) ==
    LET Framed(p) ==
            [status |-> p.status,
             bytes  |-> Digits[1, frame.frame_type] \o Digits[2, frame.channel]
                        \o Digits[4, Len(p.out)] \o p.out \o <<AMQP_FRAME_END>>]
    IN  Framed(FramePayload(frame, len))

\* the bytes at an offset, as many as given
At(raw, offset, n) == SubSeq(raw, offset + 1, offset + n)

\* target_size, as the header of the frame announces it
TargetSize(raw) == Number(At(raw, 3, 4)) + HEADER_SIZE + FOOTER_SIZE

\* what is left for the fields or properties of a frame behind its fixed part
Encoded(raw, fixed) ==
    At(raw, HEADER_SIZE + fixed, TargetSize(raw) - HEADER_SIZE - fixed - FOOTER_SIZE)

(***************************************************************************)
(* CONNECTION_STATE_BODY of amqp_handle_input, on a frame that is complete *)
(* and whose announced size lies within frame_max.                         *)
(***************************************************************************)
DecodePayload(raw, type) ==
    LET number == Number(At(raw, HEADER_SIZE, 4))
        class  == Number(At(raw, HEADER_SIZE, 2))
        With(fixed, d) == [status |-> d.r.status, payload |-> fixed @@ ("decoded" :> d.m)]
    IN  CASE type = AMQP_FRAME_METHOD ->
                 With([id |-> number], amqp_decode_method(number, Encoded(raw, 4)))
          [] type = AMQP_FRAME_HEADER ->
                 With([class_id |-> class, body_size |-> Number(At(raw, HEADER_SIZE + 4, 8))],
                      amqp_decode_properties(class, Encoded(raw, 12)))
          [] type = AMQP_FRAME_BODY ->
                 [status |-> OK, payload |-> [body_fragment |-> Encoded(raw, 0)]]
          [] OTHER -> [status |-> OK, payload |-> Empty]

KnownFrameTypes ==
    {AMQP_FRAME_METHOD, AMQP_FRAME_HEADER, AMQP_FRAME_BODY, AMQP_FRAME_HEARTBEAT}

\* the decoded frame; its type is 0 when the frame is to be ignored
DecodeFrame(raw) ==
    LET type == raw[1]
        footer == raw[TargetSize(raw)] = AMQP_FRAME_END
        Frame(d) ==
            [status |-> IF footer THEN d.status ELSE BAD_AMQP_DATA,
             frame  |-> [frame_type |-> IF type \in KnownFrameTypes THEN type ELSE 0,
                         channel |-> Number(At(raw, 1, 2))] @@ d.payload]
    IN  Frame(DecodePayload(raw, type))
=============================================================================
