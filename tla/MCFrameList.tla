---------------------------- MODULE MCFrameList -----------------------------
(***************************************************************************)
(* Instance of FrameList: two channels with a frame each and three cells,  *)
(* so that a list of three frames, and a list of two beside a half-read    *)
(* frame, both occur, and a recycled cell is soon handed out again.        *)
(***************************************************************************)
EXTENDS FrameList

MCFrame == {[channel |-> 0], [channel |-> 1]}
=============================================================================
