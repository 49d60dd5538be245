---------------------------- MODULE MCAmqpClient ----------------------------
(***************************************************************************)
(* Instance of AmqpClient: two channels, two kinds of requests.            *)
(***************************************************************************)
EXTENDS AmqpClient

(***************************************************************************)
(* Bound: once a frame has been missed, the run follows the call to its    *)
(* end, with at most one frame queued.  MessagesIntact, RpcEnds and        *)
(* ReadEnds say nothing of what comes after a missed frame.                *)
(***************************************************************************)
AfterMissed == missed => call # "none" /\ Len(q) <= 1
=============================================================================
