--------------------------- MODULE MCSharedQueue ----------------------------
(***************************************************************************)
(* Instance of SharedQueue: two reading threads and four slots in two      *)
(* rows of two, so that the slot after the first is passed over, front     *)
(* comes to rest at slot 2 and rear comes round.                           *)
(***************************************************************************)
EXTENDS SharedQueue, TLC

Symmetry == Permutations(Reader)
=============================================================================
