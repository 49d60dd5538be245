-------------------------------- MODULE Wire --------------------------------
(***************************************************************************)
(* The codec of the base types (amqp_private.h): big-endian integers of 8, *)
(* 16, 32 and 64 bits and strings of bytes, put into and taken from a      *)
(* buffer that may be too short.                                           *)
(*                                                                         *)
(* An integer of n bytes is n digits in base 256.  TLC computes with 32    *)
(* bits, so the values of the runs lie below 2^31 in every width.          *)
(*                                                                         *)
(* The encoders of the library advance *offset even when they fail, and    *)
(* every caller gives up at the first failure.  Here a writer and a reader *)
(* keep the status of the first failure and ignore what follows it.        *)
(***************************************************************************)
EXTENDS Integers, SequencesExt

Base == 256

UINT8_MAX == Base - 1

UINT16_MAX == Base * Base - 1

\* around the payload of a frame
HEADER_SIZE == 7
FOOTER_SIZE == 1

Bit(n, k) == (n \div 2^k) % 2 = 1

OK == "AMQP_STATUS_OK"
BAD_AMQP_DATA == "AMQP_STATUS_BAD_AMQP_DATA"
TABLE_TOO_BIG == "AMQP_STATUS_TABLE_TOO_BIG"
INVALID_PARAMETER == "AMQP_STATUS_INVALID_PARAMETER"
UNKNOWN_METHOD == "AMQP_STATUS_UNKNOWN_METHOD"
UNKNOWN_CLASS == "AMQP_STATUS_UNKNOWN_CLASS"

(***************************************************************************)
(* amqp_e8 ... amqp_e64: the n bytes of an integer, the highest first.  A  *)
(* negative number gives its two's complement, as the cast to uintN_t.     *)
(***************************************************************************)
Digits[n \in Nat, v \in Int] ==
    IF n = 0 THEN <<>> ELSE Append(Digits[n - 1, v \div Base], v % Base)

\* amqp_d8 ... amqp_d64
Number(bytes) == FoldLeft(LAMBDA high, b : high * Base + b, 0, bytes)

\* the cast to intN_t forgotten
SignedUncast(bytes) == Number(bytes)

\* (intN_t) of an unsigned integer of that width
Signed(bytes) ==
    IF bytes[1] < Base \div 2 THEN Number(bytes)
    ELSE FoldLeft(LAMBDA high, b : high * Base + b, bytes[1] - Base, Tail(bytes))

-----------------------------------------------------------------------------
\* what is done next with a reader or a writer that has not failed
Then(x, Next(_)) == IF x.status = OK THEN Next(x) ELSE x

(***************************************************************************)
(* A writer: what is in the buffer so far, and the buffer's length.        *)
(***************************************************************************)
Writer(len) == [out |-> <<>>, len |-> len, status |-> OK]

(***************************************************************************)
(* amqp_encode_bytes: nothing to write always succeeds, whatever room      *)
(* there is.  failure is the status the caller returns when there is none. *)
(***************************************************************************)
PutBytes(w, bytes, failure) ==
    CASE w.status # OK \/ bytes = <<>> -> w
      [] OTHER -> IF Len(w.out) + Len(bytes) <= w.len
                  THEN [w EXCEPT !.out = @ \o bytes]
                  ELSE [w EXCEPT !.status = failure]

\* amqp_encode_8 ... amqp_encode_64, with the width in bytes
PutInt(w, n, v, failure) ==
    IF w.status = OK /\ Len(w.out) + n > w.len
    THEN [w EXCEPT !.status = failure]
    ELSE PutBytes(w, Digits[n, v], failure)

-----------------------------------------------------------------------------
(***************************************************************************)
(* A reader of the buffer `encoded': where it is and what it took last.    *)
(***************************************************************************)
Reader == [at |-> 0, val |-> <<>>, status |-> OK]

\* amqp_decode_bytes
GetBytes(encoded, r, len) ==
    CASE r.status # OK -> r
      [] OTHER -> IF r.at + len <= Len(encoded)
                  THEN [r EXCEPT !.at = @ + len,
                                 !.val = SubSeq(encoded, r.at + 1, r.at + len)]
                  ELSE [r EXCEPT !.at = @ + len, !.status = BAD_AMQP_DATA]

\* amqp_decode_8 ... amqp_decode_64
GetInt(encoded, r, n) ==
    Then(GetBytes(encoded, r, n), LAMBDA g : [g EXCEPT !.val = Number(@)])

\* a length and as many bytes: a short string (1) or a long one (4)
GetString(encoded, r, n) ==
    Then(GetInt(encoded, r, n), LAMBDA g : GetBytes(encoded, g, g.val))
=============================================================================
