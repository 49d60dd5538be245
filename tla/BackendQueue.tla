---------------------------- MODULE BackendQueue ----------------------------
(***************************************************************************)
(* The message queue of the backend consumer (BackLibWaterRMQ.c): an array *)
(* of MAX_SIZE item pointers with a front and a rear index.  front points  *)
(* one BEFORE the first live item and neither index ever wraps, so an      *)
(* array cell is used once in the life of the process.                     *)
(***************************************************************************)
EXTENDS Integers, Sequences

CONSTANTS
    MAX_SIZE,   \* cells of items[]; 4056*10 in the code
    Message,    \* the strings a caller may enqueue
    Dot,        \* the "." that primes a new queue
    NULL        \* a cell that no successful malloc has filled

ASSUME MaxSizeAssumption == MAX_SIZE \in Nat \ {0}
ASSUME MessageAssumption == Dot \in Message /\ NULL \notin Message

VARIABLES
    items,      \* items[0 .. MAX_SIZE-1]
    front,
    rear,
    peeked      \* what the last peek() returned

vars == <<items, front, rear, peeked>>

Index == 0 .. MAX_SIZE - 1

isEmpty == front = rear - 1
isFull == rear = MAX_SIZE

(***************************************************************************)
(* initializeQueue, then the enqueue(".") and dequeue() with which         *)
(* create_WateRMQ_ConsumingQueue_private primes the queue: the first cell  *)
(* is spent before any message arrives.  When the malloc of that enqueue   *)
(* fails, the dequeue finds the queue empty and the indices stay.          *)
(***************************************************************************)
Primed == /\ items = [i \in Index |-> IF i = 0 THEN Dot ELSE NULL]
          /\ front = 0
          /\ rear = 1

Unprimed == /\ items = [i \in Index |-> NULL]
            /\ front = -1
            /\ rear = 0

Init == /\ Primed \/ Unprimed
        /\ peeked = NULL

enqueue(value) ==
    /\ ~isFull
    /\ items' = [items EXCEPT ![rear] = value]
    /\ rear' = rear + 1
    /\ UNCHANGED <<front, peeked>>

(* rear advanced before the result of malloc is looked at. *)
enqueueNoMemoryAdvances ==
    /\ ~isFull
    /\ items' = [items EXCEPT ![rear] = NULL]
    /\ rear' = rear + 1
    /\ UNCHANGED <<front, peeked>>

(* enqueue whose malloc fails: the NULL is stored, rear stays. *)
enqueueNoMemory ==
    /\ ~isFull
    /\ items' = [items EXCEPT ![rear] = NULL]
    /\ UNCHANGED <<front, rear, peeked>>

(* enqueue on a full queue prints a line and returns. *)
enqueueFull == isFull /\ UNCHANGED vars

dequeue ==
    /\ ~isEmpty
    /\ front' = front + 1
    /\ UNCHANGED <<items, rear, peeked>>

dequeueEmpty == isEmpty /\ UNCHANGED vars

peek ==
    /\ peeked' = IF isEmpty THEN NULL ELSE items[front + 1]
    /\ UNCHANGED <<items, front, rear>>

Next == \/ \E value \in Message : enqueue(value)
        \/ enqueueNoMemory
        \/ enqueueFull
        \/ dequeue
        \/ dequeueEmpty
        \/ peek

Spec == Init /\ [][Next]_vars

-----------------------------------------------------------------------------
(***************************************************************************)
(* The indices stay inside items[], front never overtakes rear, and every  *)
(* cell holds a message or NULL.                                           *)
(***************************************************************************)
TypeOK == /\ items \in [Index -> Message \cup {NULL}]
          /\ front \in -1 .. MAX_SIZE - 1
          /\ rear \in 0 .. MAX_SIZE
          /\ front < rear
          /\ peeked \in Message \cup {NULL}

(***************************************************************************)
(* Whatever enqueues ran out of memory in between, the cells between front *)
(* and rear are all filled: peek on a non-empty queue never hands a NULL   *)
(* to its caller.                                                          *)
(***************************************************************************)
LiveItemsFilled == \A i \in Index : front < i /\ i < rear => items[i] \in Message

(***************************************************************************)
(* The array with its two indices is a first-in first-out queue with a     *)
(* lifetime budget of MAX_SIZE insertions (FifoQueue).                     *)
(***************************************************************************)
Contents == [i \in 1 .. rear - 1 - front |-> items[front + i]]

Fifo == INSTANCE FifoQueue
            WITH q <- Contents, accepted <- rear, Capacity <- MAX_SIZE

FifoSpec == Fifo!Spec
=============================================================================
