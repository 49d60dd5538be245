----------------------------- MODULE FrameQueue -----------------------------
(***************************************************************************)
(* What the list of received but unread frames of a connection offers to   *)
(* the calls of the library: frames are added at the end in the order of   *)
(* their arrival, one can be put back in front, and one is taken either    *)
(* from the front or as the first of a channel.                            *)
(***************************************************************************)
EXTENDS Naturals, Sequences

CONSTANTS Frame, Channel, NULL

VARIABLES q, returned

Init == q = << >> /\ returned = NULL

Arrive(f) == q' = Append(q, f) /\ UNCHANGED returned

PutBack(f) == q' = << f >> \o q /\ UNCHANGED returned

TakeFirst == /\ q # << >>
             /\ returned' = Head(q)
             /\ q' = Tail(q)

(***************************************************************************)
(* The frames in front of the first one of the channel go with it.         *)
(***************************************************************************)
TakeOnChannel(ch) ==
    \E k \in 1 .. Len(q) :
        /\ q[k].channel = ch
        /\ \A j \in 1 .. k - 1 : q[j].channel # ch
        /\ returned' = q[k]
        /\ q' = SubSeq(q, k + 1, Len(q))

Next == \/ \E f \in Frame : Arrive(f) \/ PutBack(f)
        \/ TakeFirst
        \/ \E ch \in Channel : TakeOnChannel(ch)

Spec == Init /\ [][Next]_<<q, returned>>
=============================================================================
