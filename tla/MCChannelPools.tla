--------------------------- MODULE MCChannelPools ---------------------------
(***************************************************************************)
(* Instances of ChannelPools: channels 1 and 17 share an entry of the      *)
(* table, pages of 16 and 24 bytes hold up to three allocations, and 17    *)
(* bytes are a large block for the one and a full page for the other.      *)
(***************************************************************************)
EXTENDS ChannelPools, TLC

Channels == {1, 17}
Pages == {16, 24}
Bytes == {1, 17}

Symmetry == Permutations(Block)
=============================================================================
