---------------------------- MODULE MCFrameParser ---------------------------
(***************************************************************************)
(* Instance of FrameParser with the real header and footer sizes.  Payload *)
(* sizes 0 (a heartbeat), 4 (a method id), 6 and one beyond frame_max;     *)
(* chunks of 1 to 19 bytes cut frames at every offset and span several.    *)
(* Bytes out of step look like any of these, or like a broken method.      *)
(***************************************************************************)
EXTENDS FrameParser

MkFrame(t, n, ok, z) == [type |-> t, size |-> n, sound |-> ok, zero7 |-> z]

MCFrame == { MkFrame("METHOD", 4, TRUE, TRUE), MkFrame("BODY", 6, TRUE, FALSE),
             MkFrame("HEARTBEAT", 0, TRUE, FALSE), MkFrame("OTHER", 1, TRUE, FALSE),
             MkFrame("BODY", 2, FALSE, FALSE), MkFrame("BODY", 9, TRUE, FALSE) }

MCGarbage == MCFrame \cup { MkFrame("METHOD", 3, FALSE, FALSE) }

MCFirst == { MkFrame("METHOD", 4, TRUE, TRUE), MkFrame("METHOD", 5, TRUE, TRUE),
             MkFrame("PROTOCOL", 0, TRUE, FALSE) }
=============================================================================
