------------------------- MODULE SharedQueueProofs --------------------------
(***************************************************************************)
(* Proofs about SharedQueue, for any size of the array, any set of reading *)
(* threads and any number of starts: no message is returned twice, and the *)
(* count covers the messages in the array, wherever the process is killed. *)
(***************************************************************************)
EXTENDS SharedQueue, FiniteSetTheorems, TLAPS

(* The threads between the wait and the post of the semaphore. *)
Holding == {"inside", "copied", "freed", "moved", "done"}

Message == 1 .. stored

TypeOK == /\ items \in [Index -> Nat \cup {NULL}]
          /\ front \in Index /\ rear \in Index /\ count \in Nat
          /\ sem \in {0, 1}
          /\ pc \in [Reader -> {"idle", "wait"} \cup Holding]
          /\ msg \in [Reader -> Nat \cup {NULL}]
          /\ stored \in Nat /\ delivered \in Seq(Nat)

(***************************************************************************)
(* The semaphore admits one thread at a time; the producer, which needs    *)
(* its value, stores while no thread is inside; without its queue, the     *)
(* process has no call under way.                                          *)
(***************************************************************************)
OneInside ==
    /\ \A r \in Reader : pc[r] \in Holding => sem = 0
    /\ \A r, s \in Reader : pc[r] \in Holding /\ pc[s] \in Holding => r = s
    /\ ~up => \A r \in Reader : pc[r] = "idle"

(* Where the message of a thread is: still in the array, or nowhere else. *)
MsgInv == \A r \in Reader :
    /\ pc[r] \in {"idle", "wait", "inside"} => msg[r] = NULL
    /\ pc[r] \in {"copied", "freed", "moved"} => msg[r] # NULL
    /\ pc[r] = "copied" => msg[r] = items[front]
    /\ pc[r] \in {"freed", "moved"} => count > Cardinality(Occupied)
    /\ msg[r] # NULL => msg[r] \in Message
    /\ pc[r] \in {"freed", "moved", "done"} /\ msg[r] # NULL => \A i \in Index : items[i] # msg[r]

(* A message is at one place: in one slot, or returned, once. *)
OnePlace ==
    /\ \A i \in Index : items[i] # NULL => items[i] \in Message
    /\ \A i, j \in Index : items[i] # NULL /\ items[i] = items[j] => i = j
    /\ \A k \in DOMAIN delivered : /\ delivered[k] \in Message
                                   /\ \A i \in Index : items[i] # delivered[k]
                                   /\ \A r \in Reader : msg[r] # delivered[k]

Covered == Cardinality(Occupied) <= count

(***************************************************************************)
(* The inductive invariant: both properties, and what keeps them - one     *)
(* thread inside at a time, a thread's message nowhere but where it found  *)
(* it, and a count that is too high by one from the first step of a        *)
(* removal to its last, where a kill leaves it.                            *)
(***************************************************************************)
IInv == TypeOK /\ OneInside /\ MsgInv /\ OnePlace /\ Covered /\ DeliveredOnce

-----------------------------------------------------------------------------
(* The array is not empty, and both ways of moving an index stay in it. *)
LEMMA SizeFacts ==
  /\ MAX_SIZE \in Nat \ {0} /\ 0 \in Index
  /\ \A k \in Index : k \in Nat /\ ((k + 1) % ROW) * UNIT \in Index /\ (k + 1) % MAX_SIZE \in Index
<1>1. ROW \in Nat \ {0} /\ UNIT \in Nat \ {0}
  BY SizeAssumption
<1>2. MAX_SIZE \in Nat \ {0}
  <2>1. ROW * UNIT \in Nat /\ ROW * UNIT >= 1
    BY <1>1
  <2> QED
    BY <2>1 DEF MAX_SIZE
<1>3. \A k \in Index : ((k + 1) % ROW) * UNIT \in Index
  <2> SUFFICES ASSUME NEW k \in Index PROVE ((k + 1) % ROW) * UNIT \in Index
    OBVIOUS
  <2> DEFINE m == (k + 1) % ROW
  <2>1. m \in 0 .. ROW - 1
    BY <1>1, <1>2 DEF Index
  <2> HIDE DEF m
  <2>2. m * UNIT \in Nat /\ m * UNIT <= (ROW - 1) * UNIT
    BY <1>1, <2>1
  <2>3. (ROW - 1) * UNIT = MAX_SIZE - UNIT
    BY <1>1 DEF MAX_SIZE
  <2>4. m * UNIT \in 0 .. MAX_SIZE - 1
    BY <1>1, <1>2, <2>2, <2>3
  <2> QED
    BY <2>4 DEF m, Index
<1> QED
  BY <1>2, <1>3 DEF Index

(* The slots in use are finitely many; one put to use, or emptied, counts for one. *)
LEMMA OccupiedCounts ==
  ASSUME TypeOK
  PROVE  /\ Cardinality(Occupied) \in Nat
         /\ Cardinality(Occupied \ {front}) \in Nat
         /\ front \in Occupied =>
              Cardinality(Occupied \ {front}) = Cardinality(Occupied) - 1
         /\ rear \notin Occupied =>
              Cardinality(Occupied \cup {rear}) = Cardinality(Occupied) + 1
<1>1. IsFiniteSet(Index)
  BY SizeFacts, FS_Interval DEF Index
<1>2. IsFiniteSet(Occupied)
  BY <1>1, FS_Subset DEF Occupied
<1> QED
  BY <1>2, FS_CardinalityType, FS_RemoveElement, FS_AddElement

LEMMA EmptyCounts ==
  ASSUME \A i \in Index : items[i] = NULL PROVE Cardinality(Occupied) = 0
<1>1. Occupied = {}
  BY DEF Occupied
<1> QED
  BY <1>1, FS_EmptySet

LEMMA InitIInv == Init => IInv
<1> SUFFICES ASSUME Init PROVE IInv
  OBVIOUS
<1>1. TypeOK
  BY SizeFacts DEF Init, TypeOK
<1>2. OneInside /\ MsgInv /\ OnePlace /\ DeliveredOnce
  BY DEF Init, OneInside, MsgInv, OnePlace, DeliveredOnce, Holding
<1>3. Covered
  BY EmptyCounts DEF Init, Covered
<1> QED
  BY <1>1, <1>2, <1>3 DEF IInv

-----------------------------------------------------------------------------
(* One lemma for each kind of step.                                        *)

(* Steps that touch the array and its count not at all. *)
LEMMA QueueKept ==
  ASSUME IInv, UNCHANGED <<queue, stored>>
  PROVE  /\ Covered' /\ Cardinality(Occupied') = Cardinality(Occupied)
         /\ items' \in [Index -> Nat \cup {NULL}]
         /\ front' \in Index /\ rear' \in Index /\ count' \in Nat /\ stored' \in Nat
         /\ \A i \in Index : items'[i] # NULL => items'[i] \in Message'
         /\ \A i, j \in Index : items'[i] # NULL /\ items'[i] = items'[j] => i = j
BY DEF IInv, TypeOK, Covered, Occupied, queue, OnePlace, Message

LEMMA CallStep == ASSUME IInv, NEW r \in Reader, Call(r) PROVE IInv'
<1>1. TypeOK' /\ OneInside'
  BY QueueKept DEF IInv, TypeOK, OneInside, Call, Goto, Holding
<1>2. MsgInv'
  BY QueueKept DEF IInv, TypeOK, MsgInv, Call, Goto, Message, queue
<1>3. OnePlace' /\ DeliveredOnce'
  BY DEF IInv, OnePlace, DeliveredOnce, Call, Message, queue
<1> QED
  BY <1>1, <1>2, <1>3, QueueKept DEF IInv, Call

LEMMA WaitStep == ASSUME IInv, NEW r \in Reader, Wait(r) PROVE IInv'
<1>1. TypeOK' /\ OneInside'
  BY QueueKept DEF IInv, TypeOK, OneInside, Wait, Goto, Holding
<1>2. MsgInv'
  BY QueueKept DEF IInv, TypeOK, MsgInv, Wait, Goto, Message, queue
<1>3. OnePlace' /\ DeliveredOnce'
  BY DEF IInv, OnePlace, DeliveredOnce, Wait, Message, queue
<1> QED
  BY <1>1, <1>2, <1>3, QueueKept DEF IInv, Wait

LEMMA PeekStep == ASSUME IInv, NEW r \in Reader, _peek(r) PROVE IInv'
<1>1. TypeOK' /\ OneInside'
  BY QueueKept DEF IInv, TypeOK, OneInside, _peek, Goto, Holding
<1>2. MsgInv'
  BY QueueKept DEF IInv, TypeOK, MsgInv, OnePlace, _peek, Goto, Message, queue
<1>3. OnePlace' /\ DeliveredOnce'
  BY DEF IInv, TypeOK, OnePlace, DeliveredOnce, _peek, Message, queue
<1> QED
  BY <1>1, <1>2, <1>3, QueueKept DEF IInv, _peek

LEMMA PeekNothingStep == ASSUME IInv, NEW r \in Reader, PeekNothing(r) PROVE IInv'
<1>1. TypeOK' /\ OneInside'
  BY QueueKept DEF IInv, TypeOK, OneInside, PeekNothing, Goto, Holding
<1>2. MsgInv'
  BY QueueKept DEF IInv, TypeOK, MsgInv, PeekNothing, Goto, Message, queue
<1>3. OnePlace' /\ DeliveredOnce'
  BY DEF IInv, OnePlace, DeliveredOnce, PeekNothing, Message, queue
<1> QED
  BY <1>1, <1>2, <1>3, QueueKept DEF IInv, PeekNothing

(* The string is freed: its slot is empty, and the count not yet less. *)
LEMMA FreeItemStep == ASSUME IInv, NEW r \in Reader, FreeItem(r) PROVE IInv'
<1>1. /\ pc[r] = "copied" /\ msg[r] = items[front] /\ msg[r] # NULL
      /\ \A s \in Reader : pc[s] \in Holding => s = r
      /\ pc' = [pc EXCEPT ![r] = "freed"] /\ items' = [items EXCEPT ![front] = NULL]
  BY DEF IInv, OneInside, MsgInv, FreeItem, Goto, Holding
<1>2. TypeOK' /\ OneInside'
  BY <1>1 DEF IInv, TypeOK, OneInside, FreeItem, Holding
<1>3. /\ front \in Occupied /\ Occupied' = Occupied \ {front}
      /\ \A i \in Index : items[i] = msg[r] => i = front
  BY <1>1 DEF IInv, TypeOK, OnePlace, Occupied, Index, MAX_SIZE
<1>4. Cardinality(Occupied') = Cardinality(Occupied) - 1 /\ Cardinality(Occupied) \in Nat
  BY <1>3, OccupiedCounts DEF IInv
<1>5. Covered' /\ count' > Cardinality(Occupied')
  BY <1>4 DEF IInv, TypeOK, Covered, FreeItem
<1>6. \A i \in Index : items'[i] # msg[r]
  BY <1>1, <1>3 DEF IInv, TypeOK
<1>7. MsgInv'
  BY <1>1, <1>5, <1>6 DEF IInv, TypeOK, MsgInv, FreeItem, Message, Holding
<1>8. OnePlace' /\ DeliveredOnce'
  BY <1>1, NullAssumption DEF IInv, TypeOK, OnePlace, DeliveredOnce, FreeItem, Message
<1> QED
  BY <1>2, <1>5, <1>7, <1>8 DEF IInv

(* front moves on, within the array; the count is still too high. *)
LEMMA AdvanceStep == ASSUME IInv, NEW r \in Reader, Advance(r) PROVE IInv'
<1>1. /\ pc[r] = "freed" /\ count > Cardinality(Occupied)
      /\ \A s \in Reader : pc[s] \in Holding => s = r
      /\ pc' = [pc EXCEPT ![r] = "moved"]
      /\ Cardinality(Occupied') = Cardinality(Occupied)
  BY DEF IInv, OneInside, MsgInv, Advance, Goto, Holding, Occupied
<1>2. front' \in Index
  BY SizeFacts DEF IInv, TypeOK, Advance
<1>3. TypeOK' /\ OneInside'
  BY <1>1, <1>2 DEF IInv, TypeOK, OneInside, Advance, Holding
<1>4. Covered' /\ count' > Cardinality(Occupied')
  BY <1>1 DEF IInv, Covered, Advance
<1>5. MsgInv'
  BY <1>1, <1>4 DEF IInv, TypeOK, MsgInv, Advance, Message, Holding
<1>6. OnePlace' /\ DeliveredOnce'
  BY DEF IInv, OnePlace, DeliveredOnce, Advance, Message
<1> QED
  BY <1>3, <1>4, <1>5, <1>6 DEF IInv

(* The last step of the removal. *)
LEMMA CountDownStep == ASSUME IInv, NEW r \in Reader, CountDown(r) PROVE IInv'
<1>1. /\ pc[r] = "moved" /\ count > Cardinality(Occupied)
      /\ \A s \in Reader : pc[s] \in Holding => s = r
      /\ pc' = [pc EXCEPT ![r] = "done"]
      /\ Cardinality(Occupied') = Cardinality(Occupied) /\ Cardinality(Occupied) \in Nat
  BY OccupiedCounts DEF IInv, OneInside, MsgInv, CountDown, Goto, Holding, Occupied
<1>2. count' = count - 1 /\ count \in Nat /\ count' \in Nat
  BY <1>1 DEF IInv, TypeOK, CountDown
<1>3. TypeOK' /\ OneInside'
  BY <1>1, <1>2 DEF IInv, TypeOK, OneInside, CountDown, Holding
<1>4. Covered'
  BY <1>1, <1>2 DEF Covered
<1>5. MsgInv'
  BY <1>1 DEF IInv, TypeOK, MsgInv, CountDown, Message, Holding
<1>6. OnePlace' /\ DeliveredOnce'
  BY DEF IInv, OnePlace, DeliveredOnce, CountDown, Message
<1> QED
  BY <1>3, <1>4, <1>5, <1>6 DEF IInv

(* The message becomes the last of those returned. *)
LEMMA PostStep == ASSUME IInv, NEW r \in Reader, Post(r) PROVE IInv'
<1>1. /\ pc[r] = "done" /\ pc' = [pc EXCEPT ![r] = "idle"] /\ msg' = [msg EXCEPT ![r] = NULL]
      /\ \A s \in Reader : pc[s] \in Holding => s = r
      /\ sem = 0 /\ sem' = 1
      /\ UNCHANGED <<queue, stored>>
  BY DEF IInv, OneInside, Post, Goto, Holding
<1>2. /\ \A s \in Reader : msg'[s] = NULL
      /\ msg[r] # NULL => msg[r] \in Message /\ \A i \in Index : items[i] # msg[r]
  BY <1>1 DEF IInv, TypeOK, MsgInv, Holding
<1>3. /\ delivered' \in Seq(Nat)
      /\ \A k \in DOMAIN delivered' : \/ k \in DOMAIN delivered /\ delivered'[k] = delivered[k]
                                      \/ /\ k = Len(delivered) + 1 /\ k \notin DOMAIN delivered
                                         /\ delivered'[k] = msg[r] /\ msg[r] # NULL
  BY <1>2 DEF IInv, TypeOK, Post, Message
<1>4. TypeOK' /\ OneInside'
  BY <1>1, <1>3, QueueKept DEF IInv, TypeOK, OneInside, Post, Holding
<1>5. MsgInv'
  BY <1>1, <1>2 DEF IInv, TypeOK, MsgInv, Holding
<1>6. OnePlace'
  BY <1>1, <1>2, <1>3, NullAssumption DEF IInv, TypeOK, OnePlace, Message, queue
<1>7. \A k \in DOMAIN delivered : delivered[k] # msg[r]
  BY DEF IInv, OnePlace
<1>8. DeliveredOnce'
  BY <1>3, <1>7 DEF IInv, DeliveredOnce
<1> QED
  BY <1>1, <1>4, <1>5, <1>6, <1>8, QueueKept DEF IInv

(* An array all of whose slots are empty. *)
LEMMA FreshStep ==
  ASSUME IInv, FreshQueue, \A r \in Reader : pc[r] = "idle",
         UNCHANGED <<sem, pc, msg, stored, delivered>>
  PROVE  IInv'
<1>1. TypeOK' /\ OneInside'
  BY SizeFacts DEF IInv, TypeOK, OneInside, FreshQueue, Holding
<1>2. Covered'
  <2>1. Occupied' = {}
    BY <1>1 DEF FreshQueue, Occupied
  <2> QED
    BY <2>1, FS_EmptySet DEF FreshQueue, Covered
<1>3. MsgInv'
  BY DEF IInv, MsgInv, TypeOK, Message, Holding
<1>4. OnePlace' /\ DeliveredOnce'
  BY NullAssumption DEF IInv, TypeOK, OnePlace, DeliveredOnce, FreshQueue, Message
<1> QED
  BY <1>1, <1>2, <1>3, <1>4 DEF IInv

LEMMA CleanupStep == ASSUME IInv, _cleanup PROVE IInv'
BY FreshStep DEF _cleanup

LEMMA InitQueueStep == ASSUME IInv, _init PROVE IInv'
<1>1. \A r \in Reader : pc[r] = "idle"
  BY DEF IInv, OneInside, _init
<1>2. CASE front = 0 /\ rear = 0 /\ count = 0
  BY <1>1, <1>2, FreshStep DEF _init
<1>3. CASE ~(front = 0 /\ rear = 0 /\ count = 0)
  <2>1. UNCHANGED <<queue, sem, pc, msg, stored, delivered>> /\ up'
    BY <1>3 DEF _init
  <2>2. TypeOK' /\ OneInside'
    BY <1>1, <2>1, QueueKept DEF IInv, TypeOK, OneInside, Holding
  <2>3. MsgInv' /\ OnePlace' /\ DeliveredOnce'
    BY <1>1, <2>1 DEF IInv, MsgInv, OnePlace, DeliveredOnce, Message, queue
  <2> QED
    BY <2>1, <2>2, <2>3, QueueKept DEF IInv
<1> QED
  BY <1>2, <1>3

(* The kill leaves the array as it is, and the semaphore taken if a thread was inside. *)
LEMMA KillStep == ASSUME IInv, Kill PROVE IInv'
<1>1. /\ \A r \in Reader : pc'[r] = "idle" /\ msg'[r] = NULL
      /\ UNCHANGED <<queue, sem, stored, delivered>>
      /\ pc' \in [Reader -> {"idle"}] /\ msg' \in [Reader -> {NULL}]
  BY DEF Kill
<1>2. TypeOK' /\ OneInside'
  BY <1>1, QueueKept DEF IInv, TypeOK, OneInside, Holding
<1>3. MsgInv'
  BY <1>1 DEF MsgInv
<1>4. OnePlace' /\ DeliveredOnce'
  BY <1>1, NullAssumption DEF IInv, TypeOK, OnePlace, DeliveredOnce, Message, queue
<1> QED
  BY <1>1, <1>2, <1>3, <1>4, QueueKept DEF IInv

LEMMA ReleaseStep == ASSUME IInv, Release PROVE IInv'
<1>1. /\ UNCHANGED <<queue, up, pc, msg, stored, delivered>> /\ sem' = 1
      /\ \A r \in Reader : pc[r] \notin Holding
  BY DEF Release, Holding
<1>2. TypeOK' /\ OneInside'
  BY <1>1, QueueKept DEF IInv, TypeOK, OneInside
<1>3. MsgInv' /\ OnePlace' /\ DeliveredOnce'
  BY <1>1 DEF IInv, MsgInv, OnePlace, DeliveredOnce, Message, queue, Holding
<1> QED
  BY <1>1, <1>2, <1>3, QueueKept DEF IInv

(* A new message, unlike any other, in a slot that was empty. *)
LEMMA StoreStep == ASSUME IInv, Store PROVE IInv'
<1>1. /\ items[rear] = NULL /\ rear \in Index
      /\ stored' = stored + 1 /\ stored' \in Nat /\ stored' \notin Message
      /\ \A k \in Message : k \in Message' /\ k # stored'
      /\ stored' \in Message' /\ stored' # NULL
      /\ items' = [items EXCEPT ![rear] = stored']
  BY NullAssumption DEF IInv, TypeOK, Store, Message
<1>2. \A r \in Reader : pc[r] \in {"idle", "wait"} /\ msg[r] = NULL
  BY DEF IInv, TypeOK, OneInside, MsgInv, Store, Holding
<1>3. TypeOK' /\ OneInside'
  <2>1. rear' \in Index
    BY <1>1, SizeFacts DEF Store
  <2> QED
    BY <1>1, <2>1 DEF IInv, TypeOK, OneInside, Store
<1>4. Covered'
  <2>1. Occupied' = Occupied \cup {rear} /\ rear \notin Occupied
    BY <1>1 DEF IInv, TypeOK, Occupied, Index, MAX_SIZE
  <2>2. Cardinality(Occupied') = Cardinality(Occupied) + 1 /\ Cardinality(Occupied) \in Nat
    BY <2>1, OccupiedCounts DEF IInv
  <2> QED
    BY <2>2 DEF IInv, TypeOK, Covered, Store
<1>5. MsgInv'
  BY <1>2 DEF MsgInv, Store
<1>6. OnePlace'
  <2>1. \A k \in DOMAIN delivered : delivered[k] # stored' /\ delivered[k] \in Message'
    BY <1>1 DEF IInv, OnePlace
  <2>2. /\ \A i \in Index : items'[i] = IF i = rear THEN stored' ELSE items[i]
        /\ \A i \in Index : items[i] # NULL => items[i] \in Message' /\ items[i] # stored'
    BY <1>1 DEF IInv, TypeOK, OnePlace
  <2>3. UNCHANGED <<delivered, msg>> /\ Index' = Index
    BY DEF Store, Index, MAX_SIZE
  <2>4. \A k \in DOMAIN delivered' : /\ delivered'[k] \in Message'
                                     /\ \A i \in Index : items'[i] # delivered'[k]
                                     /\ \A r \in Reader : msg'[r] # delivered'[k]
    BY <2>1, <2>2, <2>3 DEF IInv, OnePlace
  <2>5. \A i, j \in Index : items'[i] # NULL /\ items'[i] = items'[j] => i = j
    BY <2>2 DEF IInv, OnePlace
  <2> QED
    BY <1>1, <2>2, <2>3, <2>4, <2>5 DEF OnePlace
<1>7. DeliveredOnce'
  BY DEF IInv, DeliveredOnce, Store
<1> QED
  BY <1>3, <1>4, <1>5, <1>6, <1>7 DEF IInv

LEMMA NextIInv == IInv /\ [Next]_vars => IInv'
<1> SUFFICES ASSUME IInv, [Next]_vars PROVE IInv'
  OBVIOUS
<1>1. ASSUME NEW r \in Reader, Call(r) \/ Read(r) PROVE IInv'
  BY <1>1, CallStep, WaitStep, PeekStep, PeekNothingStep, FreeItemStep, AdvanceStep,
     CountDownStep, PostStep DEF Read
<1>2. CASE _cleanup \/ Kill \/ _init
  BY <1>2, CleanupStep, KillStep, InitQueueStep
<1>3. CASE Release \/ Store
  BY <1>3, ReleaseStep, StoreStep
<1>4. CASE UNCHANGED vars
  <2>1. UNCHANGED <<queue, sem, up, pc, msg, stored, delivered>>
    BY <1>4 DEF vars
  <2>2. TypeOK' /\ OneInside'
    BY <2>1, QueueKept DEF IInv, TypeOK, OneInside
  <2>3. MsgInv' /\ OnePlace' /\ DeliveredOnce'
    BY <2>1 DEF IInv, MsgInv, OnePlace, DeliveredOnce, Message, queue, Occupied
  <2> QED
    BY <2>1, <2>2, <2>3, QueueKept DEF IInv
<1> QED
  BY <1>1, <1>2, <1>3, <1>4 DEF Next

LEMMA AlwaysIInv == Spec => []IInv
BY InitIInv, NextIInv, PTL DEF Spec

-----------------------------------------------------------------------------
(***************************************************************************)
(* No message is returned twice by _readMessage, to whichever threads, in  *)
(* whichever incarnations of the process, wherever a kill fell.            *)
(***************************************************************************)
THEOREM NeverDeliveredTwice == Spec => []DeliveredOnce
<1>1. IInv => DeliveredOnce
  BY DEF IInv
<1> QED
  BY <1>1, AlwaysIInv, PTL

(***************************************************************************)
(* The count in the shared memory is never less than the number of strings *)
(* in the array, and front and rear stay in it, whatever ROW and UNIT are. *)
(***************************************************************************)
THEOREM CountAlwaysCovers == Spec => []CountCovers
<1>1. IInv => CountCovers
  BY DEF IInv, TypeOK, Covered, CountCovers
<1> QED
  BY <1>1, AlwaysIInv, PTL

(***************************************************************************)
(* A stored message is at one place: in one slot of the array, with the    *)
(* thread that took it out, or among those returned; and one thread at a   *)
(* time is between the semaphore's wait and its post.                      *)
(***************************************************************************)
THEOREM MessagesAtOnePlace == Spec => [](OneInside /\ OnePlace)
<1>1. IInv => OneInside /\ OnePlace
  BY DEF IInv
<1> QED
  BY <1>1, AlwaysIInv, PTL
=============================================================================
