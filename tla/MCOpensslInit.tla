--------------------------- MODULE MCOpensslInit ----------------------------
(***************************************************************************)
(* Instance of OpensslInit with three interchangeable threads: one whose   *)
(* socket is refused, one that makes a socket meanwhile, one that          *)
(* uninitializes the library.                                              *)
(***************************************************************************)
EXTENDS OpensslInit, TLC

Symmetry == Permutations(Thread)
=============================================================================
