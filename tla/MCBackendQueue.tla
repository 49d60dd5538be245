--------------------------- MODULE MCBackendQueue ---------------------------
(* Instance of BackendQueue: four cells, so that the array is filled,      *)
(* drained and found full again; two messages besides the priming ".".     *)
EXTENDS BackendQueue
=============================================================================
