---------------------------- MODULE MCHeartbeat -----------------------------
(***************************************************************************)
(* Instance of Heartbeat: heartbeats off, every tick or every other one,   *)
(* a clock that runs beyond a silent deadline and a heartbeat after it,    *)
(* timeouts shorter and longer than a heartbeat deadline, frames that can  *)
(* be sent in two parts.                                                   *)
(***************************************************************************)
EXTENDS Heartbeat

MCTimeouts == {0, 3, Infinite}
=============================================================================
