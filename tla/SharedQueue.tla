---------------------------- MODULE SharedQueue -----------------------------
(***************************************************************************)
(* The queue the frontend reads (FrontendCPP): an array of item pointers   *)
(* with front, rear and count in a named shared-memory object, and a named *)
(* semaphore around it.  Threads of one frontend process call              *)
(* consumingMessage; the process may be killed at any moment and started   *)
(* again, and both named objects outlive it.                               *)
(*                                                                         *)
(* The repository has no code that fills this queue.  The producer is      *)
(* modelled from what _readMessage expects of it: it holds the semaphore   *)
(* while it stores a string at rear, it releases the semaphore once before *)
(* its first message (the frontend creates it with value 0), and it stores *)
(* only while a frontend runs.  Items are pointers into the heap of one    *)
(* process; here they are the numbers of the strings they point to.        *)
(***************************************************************************)
EXTENDS Integers, Sequences, FiniteSets

CONSTANTS
    ROW, UNIT,  \* MAX_SIZE is the text ROW * UNIT; 4096 * 10 in the code
    Reader,     \* the threads that call consumingMessage
    NULL,
    MaxMessage, \* bound: messages the producer stores
    MaxStarts   \* bound: incarnations of the process

ASSUME SizeAssumption == ROW \in Nat \ {0} /\ UNIT \in Nat \ {0}

(* No string is at the null pointer. *)
ASSUME NullAssumption == NULL \notin Nat

VARIABLES
    items, front, rear, count,  \* the Queue in shared memory
    sem,                        \* the value of the named semaphore
    up,                         \* the WateRMQ object has its _ptr_queue and _sem
    pc, msg,                    \* of each thread in _readMessage
    inc,                        \* the incarnation of the process
    stored, delivered           \* history: messages stored, and returned in order

queue == <<items, front, rear, count>>
vars == <<queue, sem, up, pc, msg, inc, stored, delivered>>

MAX_SIZE == ROW * UNIT
Index == 0 .. MAX_SIZE - 1

_isEmpty == count = 0

Occupied == { i \in Index : items[i] # NULL }

FreshQueue == /\ items' = [i \in Index |-> NULL]
              /\ front' = 0 /\ rear' = 0 /\ count' = 0

(* ftruncate fills a new object with zeros; a new semaphore has value 0. *)
Init == /\ items = [i \in Index |-> NULL]
        /\ front = 0 /\ rear = 0 /\ count = 0
        /\ sem = 0
        /\ up = TRUE
        /\ pc = [r \in Reader |-> "idle"]
        /\ msg = [r \in Reader |-> NULL]
        /\ inc = 1
        /\ stored = 0 /\ delivered = << >>

Goto(r, from, to) == pc[r] = from /\ pc' = [pc EXCEPT ![r] = to]

-----------------------------------------------------------------------------
(* _readMessage; without a semaphore it returns "" at once, which is no step. *)

Call(r) == /\ up
           /\ Goto(r, "idle", "wait")
           /\ UNCHANGED <<queue, sem, up, msg, inc, stored, delivered>>

Wait(r) == /\ sem > 0
           /\ sem' = sem - 1
           /\ Goto(r, "wait", "inside")
           /\ UNCHANGED <<queue, up, msg, inc, stored, delivered>>

_peek(r) == /\ ~_isEmpty /\ items[front] # NULL
            /\ Goto(r, "inside", "copied")
            /\ msg' = [msg EXCEPT ![r] = items[front]]
            /\ UNCHANGED <<queue, sem, up, inc, stored, delivered>>

PeekNothing(r) == /\ _isEmpty \/ items[front] = NULL
                  /\ Goto(r, "inside", "done")
                  /\ UNCHANGED <<queue, sem, up, msg, inc, stored, delivered>>

FreeItem(r) == /\ Goto(r, "copied", "freed")
               /\ items' = [items EXCEPT ![front] = NULL]
               /\ UNCHANGED <<front, rear, count, sem, up, msg, inc, stored, delivered>>

(***************************************************************************)
(* MAX_SIZE has no parentheses of its own: (front + 1) % 4096 * 10.        *)
(***************************************************************************)
Advance(r) == /\ Goto(r, "freed", "moved")
              /\ front' = ((front + 1) % ROW) * UNIT
              /\ UNCHANGED <<items, rear, count, sem, up, msg, inc, stored, delivered>>

CountDown(r) == /\ Goto(r, "moved", "done")
                /\ count' = count - 1
                /\ UNCHANGED <<items, front, rear, sem, up, msg, inc, stored, delivered>>

(* The result of one call is still there in the next. *)
PostKeepsResult(r) ==
    /\ Goto(r, "done", "idle")
    /\ sem' = sem + 1
    /\ delivered' = IF msg[r] = NULL THEN delivered ELSE Append(delivered, msg[r])
    /\ UNCHANGED <<queue, up, msg, inc, stored>>

Post(r) == /\ Goto(r, "done", "idle")
           /\ sem' = sem + 1
           /\ delivered' = IF msg[r] = NULL THEN delivered ELSE Append(delivered, msg[r])
           /\ msg' = [msg EXCEPT ![r] = NULL]
           /\ UNCHANGED <<queue, up, inc, stored>>

-----------------------------------------------------------------------------
(***************************************************************************)
(* destroy, or the destructor, by a program whose threads have stopped     *)
(* reading: every string is freed and the memory object unlinked, so that  *)
(* the next one starts from zeros.  The semaphore is closed, not unlinked. *)
(***************************************************************************)
_cleanup == /\ up /\ \A r \in Reader : pc[r] = "idle"
            /\ up' = FALSE
            /\ FreshQueue
            /\ UNCHANGED <<sem, pc, msg, inc, stored, delivered>>

(* The process is killed, wherever its threads are. *)
Kill == /\ inc < MaxStarts
        /\ inc' = inc + 1
        /\ up' = FALSE
        /\ pc' = [r \in Reader |-> "idle"]
        /\ msg' = [r \in Reader |-> NULL]
        /\ UNCHANGED <<queue, sem, stored, delivered>>

(* Each start takes the queue for a new one. *)
_initAnew == /\ ~up
             /\ up' = TRUE
             /\ front' = 0 /\ rear' = 0 /\ count' = 0
             /\ UNCHANGED <<items, sem, pc, msg, inc, stored, delivered>>

_init == /\ ~up
         /\ up' = TRUE
         /\ IF front = 0 /\ rear = 0 /\ count = 0 THEN FreshQueue ELSE UNCHANGED queue
         /\ UNCHANGED <<sem, pc, msg, inc, stored, delivered>>

-----------------------------------------------------------------------------
(* The producer. *)

Release == /\ stored = 0 /\ sem = 0
           /\ \A r \in Reader : pc[r] \in {"idle", "wait"}
           /\ sem' = 1
           /\ UNCHANGED <<queue, up, pc, msg, inc, stored, delivered>>

Store == /\ up
         /\ sem > 0
         /\ stored < MaxMessage
         /\ count < MAX_SIZE /\ items[rear] = NULL
         /\ stored' = stored + 1
         /\ items' = [items EXCEPT ![rear] = stored']
         /\ rear' = (rear + 1) % MAX_SIZE
         /\ count' = count + 1
         /\ UNCHANGED <<front, sem, up, pc, msg, inc, delivered>>

Read(r) == \/ Wait(r) \/ _peek(r) \/ PeekNothing(r)
           \/ FreeItem(r) \/ Advance(r) \/ CountDown(r) \/ Post(r)

Next == \/ \E r \in Reader : Call(r) \/ Read(r)
        \/ _cleanup \/ Kill \/ _init
        \/ Release \/ Store

Spec == Init /\ [][Next]_vars

-----------------------------------------------------------------------------
(***************************************************************************)
(* No message is returned twice, by whichever threads and whichever        *)
(* incarnations of the process, wherever the earlier one was killed.       *)
(***************************************************************************)
DeliveredOnce == \A i, j \in DOMAIN delivered : i # j => delivered[i] # delivered[j]

(***************************************************************************)
(* A queue that holds messages never counts as empty, nor as holding fewer *)
(* than it does, also after a kill between two steps of a removal;         *)
(* and the indices stay in the array, by (front + 1) % 4096 * 10 as well.  *)
(***************************************************************************)
CountCovers == /\ Cardinality(Occupied) <= count
               /\ front \in Index /\ rear \in Index

(***************************************************************************)
(* "Get next message from queue" (README.md): when a message is returned,  *)
(* none that was stored before it has been passed over and lies in the     *)
(* array still.  What destroy frees unread does not count.                 *)
(***************************************************************************)
ReadsNext == \A k \in DOMAIN delivered : \A i \in Occupied : delivered[k] < items[i]
=============================================================================
