----------------------------- MODULE FifoQueue ------------------------------
(***************************************************************************)
(* What a process-local message queue promises its callers: first in,      *)
(* first out, a read that does not remove, and a budget of Capacity        *)
(* insertions over its whole life (an insertion beyond the budget is       *)
(* refused and changes nothing).                                           *)
(***************************************************************************)
EXTENDS Naturals, Sequences

CONSTANTS Capacity, Message, NULL

VARIABLES q, accepted, peeked

Init == /\ q = << >>
        /\ accepted \in {0, 1}
        /\ peeked = NULL

Put(m) == /\ accepted < Capacity
          /\ q' = Append(q, m)
          /\ accepted' = accepted + 1
          /\ UNCHANGED peeked

Take == /\ q # << >>
        /\ q' = Tail(q)
        /\ UNCHANGED <<accepted, peeked>>

Look == /\ peeked' = IF q = << >> THEN NULL ELSE Head(q)
        /\ UNCHANGED <<q, accepted>>

Next == \/ \E m \in Message : Put(m)
        \/ Take
        \/ Look

Spec == Init /\ [][Next]_<<q, accepted, peeked>>
=============================================================================
