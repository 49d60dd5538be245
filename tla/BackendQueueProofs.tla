------------------------- MODULE BackendQueueProofs -------------------------
(***************************************************************************)
(* Proofs about BackendQueue: for every MAX_SIZE and every set of messages *)
(* the array stays well formed, its live cells are filled, and it          *)
(* implements FifoQueue.                                                   *)
(***************************************************************************)
EXTENDS BackendQueue, SequenceTheorems, TLAPS

IInv == TypeOK /\ LiveItemsFilled

(***************************************************************************)
(* The two ways in which a new queue can come out of                       *)
(* create_WateRMQ_ConsumingQueue_private both establish the invariant.     *)
(***************************************************************************)
LEMMA InitIInv == Init => IInv
  BY MaxSizeAssumption, MessageAssumption
  DEF Init, Primed, Unprimed, IInv, TypeOK, LiveItemsFilled, Index

(***************************************************************************)
(* Every queue operation preserves the invariant.                          *)
(***************************************************************************)
LEMMA NextIInv == IInv /\ [Next]_vars => IInv'
<1> SUFFICES ASSUME IInv, [Next]_vars PROVE IInv'
  OBVIOUS
<1> USE MaxSizeAssumption, MessageAssumption
<1>1. ASSUME NEW value \in Message, enqueue(value) PROVE IInv'
  BY <1>1 DEF IInv, TypeOK, LiveItemsFilled, Index, enqueue, isFull
<1>2. CASE enqueueNoMemory
  BY <1>2 DEF IInv, TypeOK, LiveItemsFilled, Index, enqueueNoMemory, isFull
<1>3. CASE enqueueFull
  BY <1>3 DEF IInv, TypeOK, LiveItemsFilled, enqueueFull, vars
<1>4. CASE dequeue
  BY <1>4 DEF IInv, TypeOK, LiveItemsFilled, Index, dequeue, isEmpty
<1>5. CASE dequeueEmpty
  BY <1>5 DEF IInv, TypeOK, LiveItemsFilled, dequeueEmpty, vars
<1>6. CASE peek
  BY <1>6 DEF IInv, TypeOK, LiveItemsFilled, Index, peek, isEmpty
<1>7. CASE UNCHANGED vars
  BY <1>7 DEF IInv, TypeOK, LiveItemsFilled, vars
<1> QED
  BY <1>1, <1>2, <1>3, <1>4, <1>5, <1>6, <1>7 DEF Next

(***************************************************************************)
(* The indices never leave items[] and front never overtakes rear.         *)
(***************************************************************************)
THEOREM TypeCorrect == Spec => []TypeOK
<1>1. IInv => TypeOK
  BY DEF IInv
<1> QED
  BY InitIInv, NextIInv, <1>1, PTL DEF Spec

(***************************************************************************)
(* No failed malloc ever leaves a hole between front and rear.             *)
(***************************************************************************)
THEOREM LiveItemsFilledAlways == Spec => []LiveItemsFilled
<1>1. IInv => LiveItemsFilled
  BY DEF IInv
<1> QED
  BY InitIInv, NextIInv, <1>1, PTL DEF Spec

-----------------------------------------------------------------------------
(* What Contents denotes, and how each operation changes it.               *)

LEMMA ContentsSeq == IInv => /\ Contents \in Seq(Message)
                             /\ Len(Contents) = rear - 1 - front
                             /\ \A i \in 1 .. rear - 1 - front : Contents[i] = items[front + i]
<1> SUFFICES ASSUME IInv PROVE /\ Contents \in Seq(Message)
                               /\ Len(Contents) = rear - 1 - front
                               /\ \A i \in 1 .. rear - 1 - front : Contents[i] = items[front + i]
  OBVIOUS
<1>1. rear - 1 - front \in Nat
  BY MaxSizeAssumption DEF IInv, TypeOK
<1>2. \A i \in 1 .. rear - 1 - front : items[front + i] \in Message
  BY MaxSizeAssumption DEF IInv, TypeOK, LiveItemsFilled, Index
<1> QED
  BY <1>1, <1>2 DEF Contents

LEMMA EmptyContents == IInv => (isEmpty <=> Contents = << >>)
<1> SUFFICES ASSUME IInv PROVE isEmpty <=> Contents = << >>
  OBVIOUS
<1>1. Contents \in Seq(Message) /\ Len(Contents) = rear - 1 - front
  BY ContentsSeq
<1>2. Contents = << >> <=> Len(Contents) = 0
  BY <1>1
<1> QED
  BY <1>1, <1>2, MaxSizeAssumption DEF isEmpty, IInv, TypeOK

LEMMA EnqueueAppends ==
  ASSUME IInv, IInv', NEW value \in Message, enqueue(value)
  PROVE  Contents' = Append(Contents, value)
<1>1. /\ rear' - 1 - front' = rear - 1 - front + 1
      /\ rear - 1 - front \in Nat
  BY MaxSizeAssumption DEF enqueue, IInv, TypeOK
<1>2. /\ Contents \in Seq(Message)
      /\ Len(Contents) = rear - 1 - front
      /\ \A i \in 1 .. rear - 1 - front : Contents[i] = items[front + i]
  BY ContentsSeq
<1>3. /\ Contents' \in Seq(Message)
      /\ Len(Contents') = rear - front
      /\ \A i \in 1 .. rear - front : Contents'[i] = items'[front + i]
  BY <1>1, ContentsSeq DEF enqueue, Contents, IInv, TypeOK
<1>4. /\ Append(Contents, value) \in Seq(Message)
      /\ Len(Append(Contents, value)) = rear - front
      /\ \A i \in 1 .. rear - front :
            Append(Contents, value)[i] = IF i = rear - front THEN value ELSE Contents[i]
  BY <1>1, <1>2, AppendProperties DEF IInv, TypeOK
<1>5. ASSUME NEW i \in 1 .. rear - front
      PROVE  items'[front + i] = IF i = rear - front THEN value ELSE Contents[i]
  <2>1. front + i \in Index /\ rear \in Index
    BY MaxSizeAssumption DEF IInv, TypeOK, enqueue, isFull, Index
  <2>2. items'[front + i] = IF front + i = rear THEN value ELSE items[front + i]
    BY <2>1 DEF enqueue, IInv, TypeOK
  <2> QED
    BY <2>2, <1>2, <1>1 DEF IInv, TypeOK
<1> QED
  BY <1>3, <1>4, <1>5, SeqEqual

LEMMA DequeueTakesHead ==
  ASSUME IInv, IInv', dequeue
  PROVE  Contents # << >> /\ Contents' = Tail(Contents)
<1>1. Contents # << >>
  BY EmptyContents DEF dequeue
<1>2. /\ Contents \in Seq(Message)
      /\ Len(Contents) = rear - 1 - front
      /\ \A i \in 1 .. rear - 1 - front : Contents[i] = items[front + i]
  BY ContentsSeq
<1>3. /\ Tail(Contents) \in Seq(Message)
      /\ Len(Tail(Contents)) = rear - 2 - front
      /\ \A i \in 1 .. rear - 2 - front : Tail(Contents)[i] = Contents[i + 1]
  BY <1>1, <1>2, HeadTailProperties DEF IInv, TypeOK
<1>4. /\ Contents' \in Seq(Message)
      /\ Len(Contents') = rear - 2 - front
      /\ \A i \in 1 .. rear - 2 - front : Contents'[i] = items[front + 1 + i]
  BY ContentsSeq DEF Contents, dequeue, IInv, TypeOK
<1>5. \A i \in 1 .. rear - 2 - front : Contents[i + 1] = items[front + 1 + i]
  BY <1>2 DEF IInv, TypeOK
<1> QED
  BY <1>1, <1>3, <1>4, <1>5, SeqEqual

LEMMA PeekLooks ==
  ASSUME IInv, peek
  PROVE  /\ peeked' = IF Contents = << >> THEN NULL ELSE Head(Contents)
         /\ Contents' = Contents
<1>1. Contents' = Contents
  BY DEF Contents, peek
<1>2. CASE isEmpty
  BY <1>1, <1>2, EmptyContents DEF peek
<1>3. CASE ~isEmpty
  <2>1. Contents # << >> /\ Contents \in Seq(Message)
    BY <1>3, EmptyContents, ContentsSeq
  <2>2. 1 \in 1 .. rear - 1 - front
    BY <1>3 DEF isEmpty, IInv, TypeOK
  <2>3. Head(Contents) = items[front + 1]
    BY <2>1, <2>2, ContentsSeq
  <2> QED
    BY <1>1, <1>3, <2>1, <2>3 DEF peek
<1> QED
  BY <1>2, <1>3

(***************************************************************************)
(* The array queue implements the abstract queue: each new queue maps to   *)
(* an empty FIFO and each operation to a FIFO operation or a stutter.      *)
(***************************************************************************)
THEOREM ImplementsFifo == Spec => FifoSpec
<1>1. Init => Fifo!Init
  <2> SUFFICES ASSUME Init PROVE Fifo!Init
    OBVIOUS
  <2>1. IInv
    BY InitIInv
  <2>2. Contents = << >>
    BY <2>1, EmptyContents DEF Init, Primed, Unprimed, isEmpty
  <2> QED
    BY <2>2 DEF Init, Primed, Unprimed, Fifo!Init
<1>2. IInv /\ IInv' /\ [Next]_vars => [Fifo!Next]_<<Contents, rear, peeked>>
  <2> SUFFICES ASSUME IInv, IInv', [Next]_vars
               PROVE  [Fifo!Next]_<<Contents, rear, peeked>>
    OBVIOUS
  <2>1. ASSUME NEW value \in Message, enqueue(value) PROVE Fifo!Next
    <3>1. rear < MAX_SIZE
      BY <2>1, MaxSizeAssumption DEF enqueue, isFull, IInv, TypeOK
    <3>2. Fifo!Put(value)
      BY <2>1, <3>1, EnqueueAppends DEF Fifo!Put, enqueue
    <3> QED
      BY <3>2 DEF Fifo!Next
  <2>2. CASE enqueueNoMemory
    <3>1. Contents' = Contents
      <4>1. \A i \in 1 .. rear - 1 - front : items'[front + i] = items[front + i]
        BY <2>2, MaxSizeAssumption DEF enqueueNoMemory, IInv, TypeOK, Index, isFull
      <4> QED
        BY <2>2, <4>1 DEF Contents, enqueueNoMemory
    <3> QED
      BY <3>1, <2>2 DEF enqueueNoMemory
  <2>3. CASE UNCHANGED vars
    BY <2>3 DEF vars, Contents
  <2>4. CASE dequeue
    <3>1. Fifo!Take
      BY <2>4, DequeueTakesHead DEF Fifo!Take, dequeue
    <3> QED
      BY <3>1 DEF Fifo!Next
  <2>5. CASE peek
    <3>1. Fifo!Look
      BY <2>5, PeekLooks DEF Fifo!Look, peek
    <3> QED
      BY <3>1 DEF Fifo!Next
  <2> QED
    BY <2>1, <2>2, <2>3, <2>4, <2>5 DEF Next, enqueueFull, dequeueEmpty
<1> QED
  BY <1>1, <1>2, InitIInv, NextIInv, PTL DEF Spec, FifoSpec, Fifo!Spec
=============================================================================
