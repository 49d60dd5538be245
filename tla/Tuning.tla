------------------------------- MODULE Tuning -------------------------------
(***************************************************************************)
(* The limits of a connection: what amqp_login_inner makes of its caller's *)
(* channel_max, frame_max and heartbeat and of those that the broker sends *)
(* with connection.tune.                                                   *)
(***************************************************************************)
EXTENDS Integers

VARIABLE frame_max   \* also the length of outbound_buffer (amqp_tune_connection)

\* UINT16_MAX, the number of channels that the protocol can name
AllChannels == 65535

TunedChannelMax(client, server) ==
    IF server # 0 /\ (server < client \/ client = 0) THEN server
    ELSE IF server = 0 /\ client = 0 THEN AllChannels ELSE client

\* 0 of the broker taken for a limit
TunedFrameMaxOfZero(client, server) == IF server < client THEN server ELSE client

TunedFrameMax(client, server) == IF server # 0 /\ server < client THEN server ELSE client

TunedHeartbeat(client, server) == IF server # 0 /\ server < client THEN server ELSE client

-----------------------------------------------------------------------------
(***************************************************************************)
(* The reference, from amqp.h: 0 sets no limit, and of two limits the      *)
(* lower one counts.                                                       *)
(***************************************************************************)
Bound(offer, all) == IF offer = 0 THEN all ELSE offer

LowerOf(client, server, all) ==
    LET c == Bound(client, all)
        s == Bound(server, all)
    IN  IF c <= s THEN c ELSE s
=============================================================================
