-------------------------- MODULE FrameListProofs ---------------------------
(***************************************************************************)
(* Proofs about FrameList, for any number of channels, frames and memory   *)
(* cells: the pointers always describe one list, and no pool is recycled   *)
(* under a queued frame or a half-read frame.                              *)
(***************************************************************************)
EXTENDS FrameList, SequenceTheorems, TLAPS

(***************************************************************************)
(* The shape of the list, said index by index: the cells ch[1], ..., ch[n] *)
(* are different and linked in this order by nx.                           *)
(***************************************************************************)
Linked(first, last, nx, ch, n) ==
    /\ n = 0 => first = NULL /\ last = NULL
    /\ n # 0 => first = ch[1] /\ last = ch[n] /\ nx[ch[n]] = NULL
    /\ \A i \in 1 .. n - 1 : nx[ch[i]] = ch[i + 1]
    /\ \A i, j \in 1 .. n : ch[i] = ch[j] => i = j

LEMMA LinkedIsWellFormed ==
  ASSUME NEW ch \in Seq(Cell), NEW first, NEW last, NEW nx
  PROVE  Linked(first, last, nx, ch, Len(ch))
         <=> /\ first = IF ch = << >> THEN NULL ELSE ch[1]
             /\ last = IF ch = << >> THEN NULL ELSE ch[Len(ch)]
             /\ \A i \in DOMAIN ch :
                   nx[ch[i]] = IF i = Len(ch) THEN NULL ELSE ch[i + 1]
             /\ \A i, j \in DOMAIN ch : ch[i] = ch[j] => i = j
<1>1. PICK n \in Nat : n = Len(ch) /\ DOMAIN ch = 1 .. n /\ (ch = << >> <=> n = 0)
  OBVIOUS
<1>2. (\A i \in 1 .. n : nx[ch[i]] = IF i = n THEN NULL ELSE ch[i + 1])
      <=> /\ n # 0 => nx[ch[n]] = NULL
          /\ \A i \in 1 .. n - 1 : nx[ch[i]] = ch[i + 1]
  <2>1. \A i : i \in 1 .. n <=> i \in 1 .. n - 1 \/ (i = n /\ n # 0)
    OBVIOUS
  <2>2. \A i \in 1 .. n - 1 : i # n
    OBVIOUS
  <2> QED
    BY <2>1, <2>2
<1> QED
  BY <1>1, <1>2 DEF Linked

LEMMA LinkedAppend ==
  ASSUME NEW n \in Nat, NEW ch, NEW ch2, NEW c \in Cell,
         NEW nx, NEW nx2, NEW first, NEW first2, NEW last,
         Linked(first, last, nx, ch, n),
         \A i \in 1 .. n : ch[i] \in Cell /\ ch[i] # c /\ ch2[i] = ch[i],
         ch2[n + 1] = c,
         nx2[c] = NULL,
         n = 0 => first2 = c,
         n # 0 => /\ first2 = first
                  /\ nx2[last] = c
                  /\ \A x \in Cell \ {c, last} : nx2[x] = nx[x]
  PROVE  Linked(first2, c, nx2, ch2, n + 1)
<1>1. CASE n = 0
  BY <1>1 DEF Linked
<1>2. CASE n # 0
  <2>1. /\ last = ch[n] /\ last \in Cell /\ last # c /\ first = ch[1]
        /\ ch2[1] = ch[1] /\ ch2[n] = ch[n] /\ n \in 1 .. n
    BY <1>2 DEF Linked
  <2>2. nx2[c] = NULL /\ nx2[last] = c /\ \A x \in Cell \ {c, last} : nx2[x] = nx[x]
    BY <1>2, <2>1
  <2>3. ASSUME NEW i \in 1 .. n PROVE nx2[ch2[i]] = ch2[i + 1]
    <3>1. CASE i = n
      BY <3>1, <2>1, <2>2
    <3>2. CASE i # n
      <4>1. i \in 1 .. n - 1 /\ i + 1 \in 1 .. n
        BY <3>2
      <4>2. ch[i] \in Cell \ {c, last} /\ nx[ch[i]] = ch[i + 1]
        BY <3>2, <4>1, <2>1 DEF Linked
      <4> QED
        BY <4>1, <4>2, <2>2
    <3> QED
      BY <3>1, <3>2
  <2>4. ASSUME NEW i \in 1 .. n + 1, NEW j \in 1 .. n + 1, ch2[i] = ch2[j] PROVE i = j
    <3>1. i \in 1 .. n \/ i = n + 1
      OBVIOUS
    <3>2. j \in 1 .. n \/ j = n + 1
      OBVIOUS
    <3> QED
      BY <3>1, <3>2, <2>4 DEF Linked
  <2>5. n + 1 # 0 /\ (n + 1) - 1 = n
    OBVIOUS
  <2> QED
    BY <1>2, <2>1, <2>2, <2>3, <2>4, <2>5 DEF Linked
<1> QED
  BY <1>1, <1>2

LEMMA LinkedPutBack ==
  ASSUME NEW n \in Nat, NEW ch, NEW ch2, NEW c \in Cell,
         NEW nx \in [Cell -> Cell \cup {NULL}], NEW nx2, NEW first, NEW last, NEW last2,
         Linked(first, last, nx, ch, n),
         \A i \in 1 .. n : ch[i] \in Cell /\ ch[i] # c /\ ch2[i + 1] = ch[i],
         ch2[1] = c,
         nx2 = [nx EXCEPT ![c] = first],
         last2 = IF n = 0 THEN c ELSE last
  PROVE  Linked(c, last2, nx2, ch2, n + 1)
<1>1. nx2[c] = first /\ \A x \in Cell \ {c} : nx2[x] = nx[x]
  OBVIOUS
<1>2. CASE n = 0
  BY <1>1, <1>2 DEF Linked
<1>3. CASE n # 0
  <2>1. /\ first = ch[1] /\ last2 = ch[n] /\ nx[ch[n]] = NULL
        /\ ch2[n + 1] = ch[n] /\ ch2[2] = ch[1] /\ n \in 1 .. n /\ ch[n] \in Cell \ {c}
    <3>1. n \in 1 .. n /\ 1 \in 1 .. n /\ 1 + 1 = 2
      BY <1>3
    <3> QED
      BY <1>3, <3>1 DEF Linked
  <2>2. ASSUME NEW i \in 1 .. n PROVE nx2[ch2[i]] = ch2[i + 1]
    <3>1. CASE i = 1
      BY <3>1, <1>1, <2>1
    <3>2. CASE i # 1
      <4>1. PICK j \in 1 .. n - 1 : i = j + 1
        BY <3>2
      <4>2. j \in 1 .. n /\ j + 1 \in 1 .. n
        OBVIOUS
      <4>3. nx[ch[j]] = ch[j + 1] /\ ch2[j + 1] = ch[j] /\ ch2[(j + 1) + 1] = ch[j + 1]
        BY <4>2 DEF Linked
      <4> QED
        BY <4>1, <4>2, <4>3, <1>1
    <3> QED
      BY <3>1, <3>2
  <2>3. ASSUME NEW i \in 1 .. n + 1, NEW j \in 1 .. n + 1, ch2[i] = ch2[j] PROVE i = j
    <3>1. i = 1 \/ \E k \in 1 .. n : i = k + 1
      <4>1. i = 1 \/ (i - 1 \in 1 .. n /\ i = (i - 1) + 1)
        OBVIOUS
      <4> QED
        BY <4>1
    <3>2. j = 1 \/ \E k \in 1 .. n : j = k + 1
      <4>1. j = 1 \/ (j - 1 \in 1 .. n /\ j = (j - 1) + 1)
        OBVIOUS
      <4> QED
        BY <4>1
    <3> QED
      BY <3>1, <3>2, <2>3 DEF Linked
  <2>4. n + 1 # 0 /\ (n + 1) - 1 = n
    OBVIOUS
  <2>5. nx2[ch2[n + 1]] = NULL
    BY <1>1, <2>1
  <2> QED
    BY <1>3, <2>1, <2>2, <2>3, <2>4, <2>5 DEF Linked
<1> QED
  BY <1>2, <1>3

LEMMA LinkedCut ==
  ASSUME NEW n \in Nat, NEW k \in 1 .. n, NEW ch, NEW ch2, NEW nx,
         NEW first, NEW last,
         Linked(first, last, nx, ch, n),
         \A i \in 1 .. n : ch[i] # NULL,
         \A i \in 1 .. n - k : ch2[i] = ch[k + i]
  PROVE  Linked(nx[ch[k]], IF nx[ch[k]] = NULL THEN NULL ELSE last, nx, ch2, n - k)
<1>1. CASE k = n
  BY <1>1 DEF Linked
<1>2. CASE k # n
  <2>1. k \in 1 .. n - 1 /\ k + 1 \in 1 .. n /\ n - k \in 1 .. n - k /\ 1 \in 1 .. n - k
    BY <1>2
  <2>2. nx[ch[k]] = ch[k + 1] /\ ch[k + 1] # NULL /\ last = ch[n] /\ nx[ch[n]] = NULL
    BY <2>1 DEF Linked
  <2>3. ch2[1] = ch[k + 1] /\ ch2[n - k] = ch[n]
    <3>1. k + (n - k) = n
      OBVIOUS
    <3> QED
      BY <2>1, <3>1
  <2>4. ASSUME NEW i \in 1 .. (n - k) - 1 PROVE nx[ch2[i]] = ch2[i + 1]
    <3>1. /\ i \in 1 .. n - k /\ i + 1 \in 1 .. n - k /\ k + i \in 1 .. n - 1
          /\ k + (i + 1) = (k + i) + 1
      OBVIOUS
    <3>2. ch2[i] = ch[k + i] /\ ch2[i + 1] = ch[(k + i) + 1]
      BY <3>1
    <3> QED
      BY <3>1, <3>2 DEF Linked
  <2>5. ASSUME NEW i \in 1 .. n - k, NEW j \in 1 .. n - k, ch2[i] = ch2[j] PROVE i = j
    <3>1. k + i \in 1 .. n /\ k + j \in 1 .. n
      OBVIOUS
    <3>2. k + i = k + j
      BY <3>1, <2>5 DEF Linked
    <3> QED
      BY <3>2
  <2>6. n - k # 0
    BY <1>2
  <2> QED
    BY <2>2, <2>3, <2>4, <2>5, <2>6 DEF Linked
<1> QED
  BY <1>1, <1>2

-----------------------------------------------------------------------------
(***************************************************************************)
(* Where a walk stands: the frames it has passed belong to other channels, *)
(* so a walk that reaches the end has seen that none belongs to its own.   *)
(***************************************************************************)
Passed(k) == \A j \in 1 .. k - 1 : data[chain[j]].channel # scan.channel

ScanInv ==
    /\ idle => inbound = NULL
    /\ scan.op = "release" => idle
    /\ scan.op = "none" => scan = NoScan
    /\ scan.op # "none" =>
          /\ scan.channel \in Channel
          /\ \/ scan.cursor = NULL /\ Passed(Len(chain) + 1)
             \/ \E k \in 1 .. Len(chain) : scan.cursor = chain[k] /\ Passed(k)

IInv == TypeOK /\ ListWellFormed /\ QueuedFramesLive /\ InboundLive /\ ScanInv

LEMMA InitIInv == Init => IInv
<1> SUFFICES ASSUME Init PROVE IInv
  OBVIOUS
<1>1. TypeOK
  <2>1. idle \in BOOLEAN
    BY DEF Init
  <2>2. scan \in ScanType
    BY DEF Init, ScanType, NoScan
  <2>3. chain \in Seq(Cell)
    BY DEF Init
  <2> QED
    BY <2>1, <2>2, <2>3 DEF Init, TypeOK
<1>2. ListWellFormed /\ QueuedFramesLive
  BY DEF Init, ListWellFormed, QueuedFramesLive
<1>3. InboundLive /\ ScanInv
  BY DEF Init, InboundLive, ScanInv, NoScan
<1> QED
  BY <1>1, <1>2, <1>3 DEF IInv

(* A cell the pool hands out is not on the list and not the parser's. *)
LEMMA FreshCell ==
  ASSUME IInv, NEW c \in Cell, owner[c] = Released
  PROVE  /\ \A i \in 1 .. Len(chain) : chain[i] \in Cell /\ chain[i] # c
         /\ inbound # c
         /\ c # NULL
<1>1. chain \in Seq(Cell) /\ DOMAIN chain = 1 .. Len(chain)
  BY DEF IInv, TypeOK
<1>2. \A i \in 1 .. Len(chain) : chain[i] \in Cell /\ owner[chain[i]] \in Channel
  BY <1>1, ListAssumption DEF IInv, QueuedFramesLive
<1> QED
  BY <1>2, ListAssumption DEF IInv, InboundLive


(* What the invariant says of the list, index by index. *)
LEMMA ChainFacts ==
  ASSUME IInv
  PROVE  /\ Len(chain) \in Nat
         /\ \A i \in 1 .. Len(chain) : chain[i] \in Cell /\ chain[i] # NULL
         /\ Linked(first_queued_frame, last_queued_frame, next, chain, Len(chain))
         /\ \A i \in 1 .. Len(chain) : /\ data[chain[i]] \in Frame
                                       /\ owner[chain[i]] = data[chain[i]].channel
         /\ next \in [Cell -> Cell \cup {NULL}]
         /\ chain = << >> <=> Len(chain) = 0
         /\ first_queued_frame = NULL <=> Len(chain) = 0
<1>1. chain \in Seq(Cell) /\ next \in [Cell -> Cell \cup {NULL}]
  BY DEF IInv, TypeOK
<1>2. Linked(first_queued_frame, last_queued_frame, next, chain, Len(chain))
  BY <1>1, LinkedIsWellFormed DEF IInv, ListWellFormed
<1>3. /\ Len(chain) \in Nat /\ DOMAIN chain = 1 .. Len(chain)
      /\ \A i \in 1 .. Len(chain) : chain[i] \in Cell /\ chain[i] # NULL
      /\ chain = << >> <=> Len(chain) = 0
  BY <1>1, ListAssumption
<1>4. \A i \in 1 .. Len(chain) : /\ data[chain[i]] \in Frame
                                 /\ owner[chain[i]] = data[chain[i]].channel
  BY <1>3 DEF IInv, QueuedFramesLive
<1>5. first_queued_frame = NULL <=> Len(chain) = 0
  BY <1>2, <1>3 DEF Linked
<1> QED
  BY <1>1, <1>2, <1>3, <1>4, <1>5

(***************************************************************************)
(* The list grows at its end, whichever pointer the append looks at: both  *)
(* are NULL exactly when the list is empty.                                *)
(***************************************************************************)
Appended(c, f) ==
    /\ amqp_create_link_for_frame(c, f)
    /\ chain = << >> => /\ first_queued_frame' = c
                        /\ next' = [next EXCEPT ![c] = NULL]
    /\ chain # << >> =>
          /\ next' = [next EXCEPT ![c] = NULL, ![last_queued_frame] = c]
          /\ UNCHANGED first_queued_frame
    /\ last_queued_frame' = c
    /\ chain' = Append(chain, c)
    /\ UNCHANGED <<idle, inbound, scan, returned>>

LEMMA AppendIInv ==
  ASSUME IInv, NEW c \in Cell, NEW f \in Frame, Appended(c, f)
  PROVE  IInv'
<1>1. PICK n \in Nat : n = Len(chain)
  BY ChainFacts
<1>2. /\ chain' \in Seq(Cell) /\ Len(chain') = n + 1 /\ DOMAIN chain' = 1 .. n + 1
      /\ \A i \in 1 .. n : chain'[i] = chain[i]
      /\ chain'[n + 1] = c
  BY <1>1, AppendProperties DEF IInv, TypeOK, Appended
<1>3. /\ \A i \in 1 .. n : chain[i] \in Cell /\ chain[i] # c
      /\ inbound # c /\ c # NULL
  BY <1>1, FreshCell DEF Appended, amqp_create_link_for_frame
<1>4. /\ n = 0 => first_queued_frame' = c /\ next' = [next EXCEPT ![c] = NULL]
      /\ n # 0 => /\ first_queued_frame' = first_queued_frame
                  /\ next' = [next EXCEPT ![c] = NULL, ![last_queued_frame] = c]
      /\ last_queued_frame' = c
  BY <1>1, ChainFacts DEF Appended
<1>5. /\ data' = [data EXCEPT ![c] = f] /\ owner' = [owner EXCEPT ![c] = f.channel]
      /\ scan.op = "none" /\ UNCHANGED <<idle, inbound, scan, returned>>
  BY DEF Appended, amqp_create_link_for_frame
<1>6. TypeOK'
  <2>1. idle' \in BOOLEAN /\ scan' \in ScanType'
    BY <1>5 DEF IInv, TypeOK, ScanType
  <2>2. /\ next' \in [Cell -> Cell \cup {NULL}]
        /\ data' \in [Cell -> Frame \cup {NULL}]
        /\ owner' \in [Cell -> Channel \cup {Released}]
    BY <1>4, <1>5, ListAssumption DEF IInv, TypeOK
  <2>3. first_queued_frame' \in Cell \cup {NULL}
    BY <1>4 DEF IInv, TypeOK
  <2> QED
    BY <1>2, <1>4, <1>5, <2>1, <2>2, <2>3 DEF IInv, TypeOK
<1>7. ListWellFormed'
  <2>1. Linked(first_queued_frame', c, next', chain', n + 1)
    <3>1. Linked(first_queued_frame, last_queued_frame, next, chain, n)
          /\ next \in [Cell -> Cell \cup {NULL}]
      BY <1>1, ChainFacts
    <3>2. \A i \in 1 .. n : chain[i] \in Cell /\ chain[i] # c /\ chain'[i] = chain[i]
      BY <1>2, <1>3
    <3>3. chain'[n + 1] = c
      BY <1>2
    <3>4. n # 0 => last_queued_frame \in Cell /\ last_queued_frame # c
      BY <1>3, <3>1 DEF Linked
    <3>5. /\ next'[c] = NULL
          /\ n = 0 => first_queued_frame' = c
          /\ n # 0 => /\ first_queued_frame' = first_queued_frame
                      /\ next'[last_queued_frame] = c
                      /\ \A x \in Cell \ {c, last_queued_frame} : next'[x] = next[x]
      BY <1>4, <3>1, <3>4
    <3> QED
      BY <3>1, <3>2, <3>3, <3>5, LinkedAppend, ZenonT(30)
  <2>2. /\ Linked(first_queued_frame', last_queued_frame', next', chain', Len(chain'))
        /\ chain' \in Seq(Cell)
    BY <1>2, <1>4, <2>1
  <2> QED
    BY <2>2, LinkedIsWellFormed DEF ListWellFormed
<1>8. QueuedFramesLive'
  <2>1. data'[c] = f /\ owner'[c] = f.channel
    BY <1>5 DEF IInv, TypeOK
  <2>2. ASSUME NEW i \in 1 .. n
        PROVE  data'[chain[i]] = data[chain[i]] /\ owner'[chain[i]] = owner[chain[i]]
    BY <1>3, <1>5 DEF IInv, TypeOK
  <2>3. ASSUME NEW i \in 1 .. n
        PROVE  data[chain[i]] \in Frame /\ owner[chain[i]] = data[chain[i]].channel
    BY <1>1, ChainFacts
  <2>4. \A i \in 1 .. n + 1 : i \in 1 .. n \/ i = n + 1
    OBVIOUS
  <2>5. \A i \in 1 .. n + 1 : /\ data'[chain'[i]] \in Frame
                              /\ owner'[chain'[i]] = data'[chain'[i]].channel
    <3>1. ASSUME NEW i \in 1 .. n
          PROVE  /\ data'[chain'[i]] \in Frame
                 /\ owner'[chain'[i]] = data'[chain'[i]].channel
      BY <1>2, <2>2, <2>3
    <3>2. data'[chain'[n + 1]] \in Frame
          /\ owner'[chain'[n + 1]] = data'[chain'[n + 1]].channel
      BY <1>2, <2>1
    <3> QED
      BY <2>4, <3>1, <3>2
  <2>6. DOMAIN chain' = 1 .. n + 1
    BY <1>2
  <2> QED
    BY <2>5, <2>6 DEF QueuedFramesLive
<1>9. InboundLive' /\ ScanInv'
  BY <1>3, <1>5 DEF IInv, TypeOK, InboundLive, ScanInv, NoScan
<1> QED
  BY <1>6, <1>7, <1>8, <1>9 DEF IInv

(* The list grows at its front. *)
LEMMA PutBackIInv ==
  ASSUME IInv, NEW c \in Cell, NEW f \in Frame, amqp_put_back_frame(c, f)
  PROVE  IInv'
<1>1. PICK n \in Nat : n = Len(chain)
  BY ChainFacts
<1>2. /\ chain' \in Seq(Cell) /\ Len(chain') = n + 1 /\ DOMAIN chain' = 1 .. n + 1
      /\ \A i \in 1 .. n : chain'[i + 1] = chain[i]
      /\ chain'[1] = c
  <2>1. /\ chain \in Seq(Cell) /\ << c >> \in Seq(Cell) /\ Len(<< c >>) = 1
        /\ chain' = << c >> \o chain
        /\ << c >>[1] = c
    BY DEF IInv, TypeOK, amqp_put_back_frame
  <2>2. /\ chain' \in Seq(Cell) /\ Len(chain') = n + 1 /\ DOMAIN chain' = 1 .. n + 1
        /\ \A i \in 2 .. n + 1 : chain'[i] = chain[i - 1]
        /\ chain'[1] = c
    BY <1>1, <2>1, ConcatProperties, LenProperties
  <2>3. \A i \in 1 .. n : i + 1 \in 2 .. n + 1 /\ (i + 1) - 1 = i
    OBVIOUS
  <2> QED
    BY <2>2, <2>3
<1>3. /\ \A i \in 1 .. n : chain[i] \in Cell /\ chain[i] # c
      /\ inbound # c /\ c # NULL
  BY <1>1, FreshCell DEF amqp_put_back_frame, amqp_create_link_for_frame
<1>4. /\ scan.op = "none" /\ UNCHANGED <<idle, inbound, scan, returned>>
      /\ first_queued_frame' = c
      /\ next' = [next EXCEPT ![c] = first_queued_frame]
      /\ last_queued_frame' = IF n = 0 THEN c ELSE last_queued_frame
      /\ data' = [data EXCEPT ![c] = f]
      /\ owner' = [owner EXCEPT ![c] = f.channel]
  BY <1>1, ChainFacts DEF amqp_put_back_frame, amqp_create_link_for_frame
<1>5. TypeOK'
  <2>1. idle' \in BOOLEAN /\ scan' \in ScanType'
    BY <1>4 DEF IInv, TypeOK, ScanType
  <2>2. /\ next' \in [Cell -> Cell \cup {NULL}]
        /\ data' \in [Cell -> Frame \cup {NULL}]
        /\ owner' \in [Cell -> Channel \cup {Released}]
    BY <1>4, ListAssumption DEF IInv, TypeOK
  <2> QED
    BY <1>2, <1>4, <2>1, <2>2 DEF IInv, TypeOK
<1>6. ListWellFormed'
  <2>1. Linked(c, last_queued_frame', next', chain', n + 1)
    <3>1. Linked(first_queued_frame, last_queued_frame, next, chain, n)
          /\ next \in [Cell -> Cell \cup {NULL}]
      BY <1>1, ChainFacts
    <3> QED
      BY <1>2, <1>3, <1>4, <3>1, LinkedPutBack
  <2>2. /\ Linked(first_queued_frame', last_queued_frame', next', chain', Len(chain'))
        /\ chain' \in Seq(Cell)
    BY <1>2, <1>4, <2>1
  <2> QED
    BY <2>2, LinkedIsWellFormed DEF ListWellFormed
<1>7. QueuedFramesLive'
  <2>1. data'[c] = f /\ owner'[c] = f.channel
    BY <1>4 DEF IInv, TypeOK
  <2>2. ASSUME NEW i \in 1 .. n
        PROVE  data'[chain[i]] = data[chain[i]] /\ owner'[chain[i]] = owner[chain[i]]
    BY <1>3, <1>4 DEF IInv, TypeOK
  <2>3. ASSUME NEW i \in 1 .. n
        PROVE  data[chain[i]] \in Frame /\ owner[chain[i]] = data[chain[i]].channel
    BY <1>1, ChainFacts
  <2>4. ASSUME NEW i \in 1 .. n + 1
        PROVE  i = 1 \/ \E j \in 1 .. n : i = j + 1
    <3>1. i = 1 \/ (i - 1 \in 1 .. n /\ i = (i - 1) + 1)
      OBVIOUS
    <3> QED
      BY <3>1
  <2>5. ASSUME NEW j \in 1 .. n
        PROVE  /\ data'[chain'[j + 1]] \in Frame
               /\ owner'[chain'[j + 1]] = data'[chain'[j + 1]].channel
    <3>1. chain'[j + 1] = chain[j]
      BY <1>2
    <3> QED
      BY <3>1, <2>2, <2>3
  <2>6. data'[chain'[1]] \in Frame /\ owner'[chain'[1]] = data'[chain'[1]].channel
    BY <1>2, <2>1
  <2>7. \A i \in 1 .. n + 1 : /\ data'[chain'[i]] \in Frame
                              /\ owner'[chain'[i]] = data'[chain'[i]].channel
    <3>1. TAKE i \in 1 .. n + 1
    <3>2. CASE i = 1
      BY <3>2, <2>6
    <3>3. ASSUME NEW j \in 1 .. n, i = j + 1
          PROVE  /\ data'[chain'[i]] \in Frame
                 /\ owner'[chain'[i]] = data'[chain'[i]].channel
      BY <3>3, <2>5
    <3> QED
      BY <2>4, <3>2, <3>3
  <2>8. DOMAIN chain' = 1 .. n + 1
    BY <1>2
  <2> QED
    BY <2>7, <2>8 DEF QueuedFramesLive
<1>8. InboundLive' /\ ScanInv'
  BY <1>3, <1>4 DEF IInv, TypeOK, InboundLive, ScanInv, NoScan
<1> QED
  BY <1>5, <1>6, <1>7, <1>8 DEF IInv

(* Cutting the list behind its k-th link, for both kinds of removal. *)
Cut(k) ==
    /\ returned' = data[chain[k]]
    /\ first_queued_frame' = next[chain[k]]
    /\ last_queued_frame' = IF next[chain[k]] = NULL THEN NULL
                                                     ELSE last_queued_frame
    /\ chain' = SubSeq(chain, k + 1, Len(chain))
    /\ scan' = NoScan
    /\ UNCHANGED <<next, data, owner, idle, inbound>>

LEMMA CutIInv ==
  ASSUME IInv, NEW n \in Nat, n = Len(chain), NEW k \in 1 .. n, Cut(k)
  PROVE  IInv'
<1>1. /\ chain' \in Seq(Cell) /\ Len(chain') = n - k /\ DOMAIN chain' = 1 .. n - k
      /\ \A i \in 1 .. n - k : chain'[i] = chain[k + i]
  <2>1. chain \in Seq(Cell) /\ chain' = SubSeq(chain, k + 1, n)
    BY DEF IInv, TypeOK, Cut
  <2>2. /\ chain' \in Seq(Cell)
        /\ Len(chain') = IF k + 1 <= n THEN n - (k + 1) + 1 ELSE 0
        /\ \A i \in 1 .. n - (k + 1) + 1 : chain'[i] = chain[(k + 1) + i - 1]
    BY <2>1, SubSeqProperties
  <2>3. /\ n - (k + 1) + 1 = n - k
        /\ k + 1 <= n \/ n - k = 0
        /\ \A i \in 1 .. n - k : (k + 1) + i - 1 = k + i
    OBVIOUS
  <2>4. Len(chain') = n - k /\ \A i \in 1 .. n - k : chain'[i] = chain[k + i]
    BY <2>2, <2>3
  <2> QED
    BY <2>2, <2>4, LenProperties
<1>2. /\ Linked(first_queued_frame, last_queued_frame, next, chain, n)
      /\ \A i \in 1 .. n : /\ chain[i] \in Cell /\ chain[i] # NULL
                           /\ data[chain[i]] \in Frame
                           /\ owner[chain[i]] = data[chain[i]].channel
  BY ChainFacts
<1>3. TypeOK'
  <2>1. idle' \in BOOLEAN /\ scan' \in ScanType'
    BY DEF IInv, TypeOK, ScanType, NoScan, Cut
  <2>2. returned' \in Frame \cup {NULL}
    BY <1>2 DEF Cut
  <2>3. first_queued_frame' \in Cell \cup {NULL} /\ last_queued_frame' \in Cell \cup {NULL}
    BY <1>2 DEF Cut, IInv, TypeOK
  <2>4. /\ next' \in [Cell -> Cell \cup {NULL}]
        /\ data' \in [Cell -> Frame \cup {NULL}]
        /\ owner' \in [Cell -> Channel \cup {Released}]
        /\ inbound' \in Cell \cup {NULL}
    BY DEF Cut, IInv, TypeOK
  <2> QED
    BY <1>1, <2>1, <2>2, <2>3, <2>4 DEF TypeOK
<1>4. ListWellFormed'
  <2>1. Linked(first_queued_frame', last_queued_frame', next, chain', n - k)
    <3>1. Linked(next[chain[k]],
                 IF next[chain[k]] = NULL THEN NULL ELSE last_queued_frame,
                 next, chain', n - k)
      BY <1>1, <1>2, LinkedCut
    <3> QED
      BY <3>1 DEF Cut
  <2>2. /\ Linked(first_queued_frame', last_queued_frame', next', chain', Len(chain'))
        /\ chain' \in Seq(Cell)
    BY <1>1, <2>1 DEF Cut
  <2> QED
    BY <2>2, LinkedIsWellFormed DEF ListWellFormed
<1>5. QueuedFramesLive'
  <2>1. \A i \in 1 .. n - k : k + i \in 1 .. n
    OBVIOUS
  <2> QED
    BY <1>1, <1>2, <2>1 DEF QueuedFramesLive, Cut
<1>6. InboundLive' /\ ScanInv'
  BY DEF IInv, InboundLive, ScanInv, NoScan, Cut
<1> QED
  BY <1>3, <1>4, <1>5, <1>6 DEF IInv

(* Steps that touch neither the list nor the memory it lies in. *)
LEMMA ListUntouched ==
  ASSUME IInv, UNCHANGED list,
         owner' \in [Cell -> Channel \cup {Released}],
         \A i \in DOMAIN chain : owner'[chain[i]] = owner[chain[i]],
         idle' \in BOOLEAN, inbound' \in Cell \cup {NULL}, scan' \in ScanType,
         UNCHANGED returned, InboundLive', ScanInv'
  PROVE  IInv'
<1>1. TypeOK'
  BY DEF IInv, TypeOK, list, ScanType
<1>2. ListWellFormed' /\ QueuedFramesLive'
  BY DEF IInv, TypeOK, ListWellFormed, QueuedFramesLive, list
<1> QED
  BY <1>1, <1>2 DEF IInv

(* A new walk starts at the head of the list, with nothing passed. *)
LEMMA NewScan ==
  ASSUME IInv, NEW ch \in Channel, NEW others \in SUBSET Channel,
         scan' \in {WaitScan(ch), ReleaseScan(ch, others)},
         UNCHANGED <<list, inbound, idle>>, idle
  PROVE  scan' \in ScanType /\ ScanInv'
<1>1. scan' \in ScanType
  BY DEF IInv, TypeOK, ScanType, WaitScan, ReleaseScan
<1>2. /\ scan'.channel = ch /\ scan'.cursor = first_queued_frame
      /\ scan'.op # "none"
  BY DEF WaitScan, ReleaseScan
<1>3. chain \in Seq(Cell) /\ Len(chain) \in Nat /\ (chain = << >> <=> Len(chain) = 0)
  BY DEF IInv, TypeOK
<1>4. \/ scan'.cursor = NULL /\ Passed(Len(chain) + 1)'
      \/ \E k \in 1 .. Len(chain) : scan'.cursor = chain[k] /\ Passed(k)'
  <2>1. CASE chain = << >>
    BY <2>1, <1>2, <1>3 DEF IInv, ListWellFormed, Passed, list
  <2>2. CASE chain # << >>
    BY <2>2, <1>2, <1>3 DEF IInv, ListWellFormed, Passed, list
  <2> QED
    BY <2>1, <2>2
<1> QED
  BY <1>1, <1>2, <1>4 DEF IInv, ScanInv, list

LEMMA NextPoolScan ==
  ASSUME IInv, scan.op = "release", NextPool, UNCHANGED <<list, inbound, idle>>
  PROVE  scan' \in ScanType /\ ScanInv'
<1>1. idle /\ scan.rest \subseteq Channel
  BY DEF IInv, ScanInv, TypeOK, ScanType
<1>2. CASE scan.rest = {}
  BY <1>1, <1>2 DEF NextPool, NoScan, ScanType, ScanInv, IInv
<1>3. CASE scan.rest # {}
  BY <1>1, <1>3, NewScan DEF NextPool
<1> QED
  BY <1>2, <1>3

(***************************************************************************)
(* Every operation on the list, on the pools and of the parser preserves   *)
(* the invariant.                                                          *)
(***************************************************************************)
LEMMA NextIInv == IInv /\ [Next]_vars => IInv'
<1> SUFFICES ASSUME IInv, [Next]_vars PROVE IInv'
  OBVIOUS
<1>0. /\ chain \in Seq(Cell) /\ DOMAIN chain = 1 .. Len(chain) /\ Len(chain) \in Nat
      /\ first_queued_frame = NULL <=> chain = << >>
      /\ last_queued_frame = NULL <=> chain = << >>
      /\ \A i \in 1 .. Len(chain) : chain[i] \in Cell /\ chain[i] # NULL
      /\ chain = << >> <=> Len(chain) = 0
      /\ idle \in BOOLEAN /\ scan \in ScanType /\ inbound \in Cell \cup {NULL}
      /\ owner \in [Cell -> Channel \cup {Released}]
  <2>1. /\ chain \in Seq(Cell) /\ DOMAIN chain = 1 .. Len(chain) /\ Len(chain) \in Nat
        /\ \A i \in 1 .. Len(chain) : chain[i] \in Cell /\ chain[i] # NULL
        /\ chain = << >> <=> Len(chain) = 0
    BY ListAssumption DEF IInv, TypeOK
  <2>2. idle \in BOOLEAN /\ scan \in ScanType
    BY DEF IInv, TypeOK
  <2>3. inbound \in Cell \cup {NULL} /\ owner \in [Cell -> Channel \cup {Released}]
    BY DEF IInv, TypeOK
  <2> QED
    BY <2>1, <2>2, <2>3 DEF IInv, ListWellFormed
<1>1. ASSUME NEW c \in Cell, NEW f \in Frame, AppendAtLast(c, f) PROVE IInv'
  BY <1>0, <1>1, AppendIInv DEF AppendAtLast, Appended
<1>2. ASSUME NEW c \in Cell, NEW f \in Frame, amqp_queue_frame(c, f) PROVE IInv'
  BY <1>0, <1>2, AppendIInv DEF amqp_queue_frame, Appended
<1>3. ASSUME NEW c \in Cell, NEW f \in Frame, amqp_put_back_frame(c, f) PROVE IInv'
  BY <1>3, PutBackIInv
<1>4. CASE TakeFirst
  <2>1. 1 \in 1 .. Len(chain) /\ first_queued_frame = chain[1]
    BY <1>0, <1>4 DEF TakeFirst, IInv, ListWellFormed
  <2>2. chain' = SubSeq(chain, 1 + 1, Len(chain))
    BY <1>0, <1>4, <2>1, TailIsSubSeq DEF TakeFirst
  <2>3. scan' = NoScan
    BY <1>4 DEF TakeFirst, IInv, ScanInv
  <2>4. Cut(1)
    BY <1>4, <2>1, <2>2, <2>3 DEF TakeFirst, Cut
  <2> QED
    BY <1>0, <2>1, <2>4, CutIInv
<1>5. ASSUME NEW ch \in Channel, StartWait(ch) PROVE IInv'
  <2>1. scan' \in ScanType
    BY <1>5 DEF StartWait, IInv, TypeOK, ScanType, WaitScan
  <2>2. ScanInv'
    <3>1. scan'.channel = ch /\ scan'.cursor = first_queued_frame /\ scan'.op = "wait"
      BY <1>5 DEF StartWait, WaitScan
    <3>2. \/ scan'.cursor = NULL /\ Passed(Len(chain) + 1)'
          \/ \E k \in 1 .. Len(chain) : scan'.cursor = chain[k] /\ Passed(k)'
      <4>1. CASE chain = << >>
        BY <4>1, <3>1, <1>0, <1>5 DEF StartWait, IInv, ListWellFormed, Passed, list
      <4>2. CASE chain # << >>
        BY <4>2, <3>1, <1>0, <1>5 DEF StartWait, IInv, ListWellFormed, Passed, list
      <4> QED
        BY <4>1, <4>2
    <3> QED
      BY <3>1, <3>2, <1>5 DEF StartWait, IInv, ScanInv, list
  <2>3. InboundLive'
    BY <1>5 DEF StartWait, IInv, InboundLive
  <2> QED
    BY <1>0, <1>5, <2>1, <2>2, <2>3, ListUntouched DEF StartWait
<1>6. ASSUME NEW ch \in Channel, StartRelease(ch) PROVE IInv'
  <2>1. scan' \in ScanType /\ ScanInv'
    BY <1>6, NewScan DEF StartRelease
  <2>2. InboundLive'
    BY <1>6 DEF StartRelease, IInv, InboundLive
  <2> QED
    BY <1>0, <1>6, <2>1, <2>2, ListUntouched DEF StartRelease
<1>7. CASE ScanOn
  <2>1. PICK k \in 1 .. Len(chain) : scan.cursor = chain[k] /\ Passed(k)
    BY <1>7 DEF ScanOn, IInv, ScanInv
  <2>2. next[chain[k]] = IF k = Len(chain) THEN NULL ELSE chain[k + 1]
    BY <1>0 DEF IInv, ListWellFormed
  <2>3. scan' = [scan EXCEPT !.cursor = next[chain[k]]]
    BY <1>7, <2>1 DEF ScanOn
  <2>4. scan' \in ScanType /\ scan'.channel = scan.channel /\ scan'.op = scan.op
    BY <1>0, <2>2, <2>3 DEF ScanType
  <2>5. scan'.cursor = next[chain[k]]
    BY <1>0, <2>3 DEF ScanType
  <2>0. Len(chain) \in Nat /\ chain' = chain
    BY <1>0, <1>7 DEF ScanOn, list
  <2>6. Passed(k + 1)'
    BY <1>0, <1>7, <2>1, <2>4 DEF ScanOn, Passed, list
  <2>7. \/ scan'.cursor = NULL /\ Passed(Len(chain) + 1)'
        \/ \E j \in 1 .. Len(chain) : scan'.cursor = chain[j] /\ Passed(j)'
    <3>1. CASE k = Len(chain)
      <4>1. scan'.cursor = NULL
        BY <3>1, <2>2, <2>5
      <4>2. Passed(Len(chain) + 1)'
        BY <3>1, <2>0, <2>6 DEF Passed
      <4> QED
        BY <4>1, <4>2
    <3>2. CASE k # Len(chain)
      <4>1. k + 1 \in 1 .. Len(chain)
        BY <3>2, <2>0
      <4>2. scan'.cursor = chain[k + 1]
        BY <3>2, <2>2, <2>5
      <4> QED
        BY <4>1, <4>2, <2>6
    <3> QED
      BY <3>1, <3>2
  <2>8. ScanInv'
    BY <1>7, <2>4, <2>7 DEF ScanOn, IInv, ScanInv, list
  <2>9. InboundLive'
    BY <1>7 DEF ScanOn, IInv, InboundLive
  <2> QED
    BY <1>0, <1>7, <2>4, <2>8, <2>9, ListUntouched DEF ScanOn
<1>8. CASE TakeScanned
  <2>1. PICK k \in DOMAIN chain : /\ chain[k] = scan.cursor
                                  /\ chain' = SubSeq(chain, k + 1, Len(chain))
    BY <1>8 DEF TakeScanned
  <2>2. Cut(k)
    BY <1>8, <2>1 DEF TakeScanned, Cut
  <2> QED
    BY <1>0, <2>2, CutIInv
<1>9. CASE WaitEnds
  <2>1. scan' \in ScanType /\ ScanInv' /\ InboundLive'
    BY <1>0, <1>9 DEF WaitEnds, NoScan, ScanType, IInv, ScanInv, InboundLive
  <2> QED
    BY <1>0, <1>9, <2>1, ListUntouched DEF WaitEnds
<1>10. CASE amqp_release_buffers
  <2>1. PICK ch \in Channel : scan' = ReleaseScan(ch, Channel \ {ch})
    BY <1>10 DEF amqp_release_buffers
  <2>2. scan' \in ScanType /\ ScanInv'
    BY <1>10, <2>1, NewScan DEF amqp_release_buffers
  <2>3. InboundLive'
    BY <1>10 DEF amqp_release_buffers, IInv, InboundLive
  <2> QED
    BY <1>0, <1>10, <2>2, <2>3, ListUntouched DEF amqp_release_buffers
<1>11. CASE ReleaseRefused
  <2>1. scan' \in ScanType /\ ScanInv'
    BY <1>11, NextPoolScan DEF ReleaseRefused
  <2>2. InboundLive'
    BY <1>11 DEF ReleaseRefused, IInv, InboundLive
  <2> QED
    BY <1>0, <1>11, <2>1, <2>2, ListUntouched DEF ReleaseRefused
<1>12. CASE recycle_amqp_pool
  <2>1. scan' \in ScanType /\ ScanInv'
    BY <1>12, NextPoolScan DEF recycle_amqp_pool
  <2>2. /\ scan.op = "release" /\ scan.cursor = NULL /\ idle /\ inbound = NULL
        /\ scan.channel \in Channel
    BY <1>12 DEF recycle_amqp_pool, IInv, ScanInv
  <2>3. Passed(Len(chain) + 1)
    BY <1>0, <2>2 DEF IInv, ScanInv
  <2>4. \A i \in DOMAIN chain : owner[chain[i]] # scan.channel
    BY <1>0, <2>3 DEF Passed, IInv, QueuedFramesLive
  <2>5. owner' = [c \in Cell |-> IF owner[c] = scan.channel THEN Released ELSE owner[c]]
    BY <1>12 DEF recycle_amqp_pool
  <2>6. \A i \in DOMAIN chain : owner'[chain[i]] = owner[chain[i]]
    BY <1>0, <2>4, <2>5
  <2>7. owner' \in [Cell -> Channel \cup {Released}]
    BY <1>0, <2>5
  <2>8. InboundLive'
    BY <1>12, <2>2 DEF recycle_amqp_pool, InboundLive
  <2> QED
    BY <1>0, <1>12, <2>1, <2>6, <2>7, <2>8, ListUntouched DEF recycle_amqp_pool
<1>13. CASE BeginHeader
  <2>1. ScanInv' /\ InboundLive'
    BY <1>13 DEF BeginHeader, IInv, ScanInv, InboundLive
  <2> QED
    BY <1>0, <1>13, <2>1, ListUntouched DEF BeginHeader
<1>14. ASSUME NEW c \in Cell, NEW ch \in Channel, BeginBody(c, ch) PROVE IInv'
  <2>1. ScanInv'
    BY <1>14 DEF BeginBody, IInv, ScanInv
  <2>2. owner' \in [Cell -> Channel \cup {Released}] /\ owner'[c] = ch
    BY <1>0, <1>14 DEF BeginBody
  <2>3. InboundLive'
    BY <1>14, <2>2, ListAssumption DEF BeginBody, InboundLive
  <2>4. \A i \in DOMAIN chain : owner'[chain[i]] = owner[chain[i]]
    BY <1>0, <1>14, FreshCell DEF BeginBody
  <2>5. idle' \in BOOLEAN /\ inbound' \in Cell \cup {NULL} /\ scan' \in ScanType
    BY <1>0, <1>14 DEF BeginBody
  <2> QED
    BY <1>14, <2>1, <2>2, <2>3, <2>4, <2>5, ListUntouched DEF BeginBody
<1>15. CASE CompleteFrame
  <2>1. ScanInv' /\ InboundLive'
    BY <1>15 DEF CompleteFrame, IInv, ScanInv, InboundLive
  <2> QED
    BY <1>0, <1>15, <2>1, ListUntouched DEF CompleteFrame
<1>16. CASE UNCHANGED vars
  <2>1. ScanInv' /\ InboundLive'
    BY <1>16 DEF vars, IInv, ScanInv, InboundLive, Passed
  <2> QED
    BY <1>0, <1>16, <2>1, ListUntouched DEF vars, list
<1> QED
  BY <1>1, <1>2, <1>3, <1>4, <1>5, <1>6, <1>7, <1>8, <1>9, <1>10, <1>11,
     <1>12, <1>13, <1>14, <1>15, <1>16 DEF Next

(***************************************************************************)
(* The pointers of the queue always describe one loop-free list.           *)
(***************************************************************************)
THEOREM ListAlwaysWellFormed == Spec => []ListWellFormed
<1>1. IInv => ListWellFormed
  BY DEF IInv
<1> QED
  BY InitIInv, NextIInv, <1>1, PTL DEF Spec

(***************************************************************************)
(* No channel pool is ever recycled while it holds a queued frame.         *)
(***************************************************************************)
THEOREM QueuedFramesAlwaysLive == Spec => []QueuedFramesLive
<1>1. IInv => QueuedFramesLive
  BY DEF IInv
<1> QED
  BY InitIInv, NextIInv, <1>1, PTL DEF Spec

(***************************************************************************)
(* No channel pool is ever recycled while it holds a half-read frame.      *)
(***************************************************************************)
THEOREM InboundAlwaysLive == Spec => []InboundLive
<1>1. IInv => InboundLive
  BY DEF IInv
<1> QED
  BY InitIInv, NextIInv, <1>1, PTL DEF Spec

-----------------------------------------------------------------------------
(* The frames of the list, in order. *)
LEMMA QueuedSeq ==
  ASSUME NEW ch \in Seq(Cell), NEW d, \A i \in 1 .. Len(ch) : d[ch[i]] \in Frame
  PROVE  /\ [i \in 1 .. Len(ch) |-> d[ch[i]]] \in Seq(Frame)
         /\ Len([i \in 1 .. Len(ch) |-> d[ch[i]]]) = Len(ch)
         /\ \A i \in 1 .. Len(ch) : [j \in 1 .. Len(ch) |-> d[ch[j]]][i] = d[ch[i]]
<1>1. Len(ch) \in Nat
  OBVIOUS
<1> QED
  BY <1>1

QueuedAre == /\ Queued \in Seq(Frame)
             /\ Len(Queued) = Len(chain)
             /\ \A i \in 1 .. Len(chain) : Queued[i] = data[chain[i]]

LEMMA QueuedFrames == IInv => QueuedAre
<1> SUFFICES ASSUME IInv PROVE QueuedAre
  OBVIOUS
<1>1. chain \in Seq(Cell) /\ \A i \in 1 .. Len(chain) : data[chain[i]] \in Frame
  BY ChainFacts DEF IInv, TypeOK
<1> QED
  BY <1>1, QueuedSeq DEF Queued, QueuedAre

LEMMA QueuedFramesNext == IInv' => QueuedAre'
  BY QueuedFrames, PTL

(* An append of either kind is the arrival of a frame. *)
LEMMA AppendArrives ==
  ASSUME IInv, IInv', NEW c \in Cell, NEW f \in Frame, Appended(c, f)
  PROVE  Queued' = Append(Queued, f)
<1>1. /\ Len(chain) \in Nat /\ Len(chain') = Len(chain) + 1
      /\ \A i \in 1 .. Len(chain) : chain'[i] = chain[i]
      /\ chain'[Len(chain) + 1] = c
  BY AppendProperties DEF IInv, TypeOK, Appended
<1>2. \A i \in 1 .. Len(chain) : chain[i] \in Cell /\ chain[i] # c
  BY FreshCell DEF Appended, amqp_create_link_for_frame
<1>3. data' = [data EXCEPT ![c] = f] /\ data \in [Cell -> Frame \cup {NULL}]
  BY DEF Appended, amqp_create_link_for_frame, IInv, TypeOK
<1>4. /\ Queued \in Seq(Frame) /\ Len(Queued) = Len(chain)
      /\ \A i \in 1 .. Len(chain) : Queued[i] = data[chain[i]]
  BY QueuedFrames DEF QueuedAre
<1>5. /\ Queued' \in Seq(Frame) /\ Len(Queued') = Len(chain) + 1
      /\ \A i \in 1 .. Len(chain) + 1 : Queued'[i] = data'[chain'[i]]
  BY <1>1, QueuedFramesNext DEF QueuedAre
<1>6. /\ Append(Queued, f) \in Seq(Frame) /\ Len(Append(Queued, f)) = Len(chain) + 1
      /\ \A i \in 1 .. Len(chain) : Append(Queued, f)[i] = Queued[i]
      /\ Append(Queued, f)[Len(chain) + 1] = f
  BY <1>4, AppendProperties
<1>7. ASSUME NEW i \in 1 .. Len(chain) + 1
      PROVE  Queued'[i] = Append(Queued, f)[i]
  <2>1. CASE i = Len(chain) + 1
    BY <2>1, <1>1, <1>3, <1>5, <1>6
  <2>2. CASE i # Len(chain) + 1
    <3>1. i \in 1 .. Len(chain)
      BY <1>1, <2>2
    <3> QED
      BY <3>1, <1>1, <1>2, <1>3, <1>4, <1>5, <1>6
  <2> QED
    BY <2>1, <2>2
<1> QED
  BY <1>5, <1>6, <1>7, SeqEqual

LEMMA PutBackPuts ==
  ASSUME IInv, IInv', NEW c \in Cell, NEW f \in Frame, amqp_put_back_frame(c, f)
  PROVE  Queued' = << f >> \o Queued
<1>1. /\ Len(chain) \in Nat /\ Len(chain') = Len(chain) + 1
      /\ \A i \in 2 .. Len(chain) + 1 : chain'[i] = chain[i - 1]
      /\ chain'[1] = c
  <2>1. /\ chain \in Seq(Cell) /\ << c >> \in Seq(Cell) /\ Len(<< c >>) = 1
        /\ chain' = << c >> \o chain
        /\ << c >>[1] = c
    BY DEF IInv, TypeOK, amqp_put_back_frame
  <2> QED
    BY <2>1, ConcatProperties
<1>2. \A i \in 1 .. Len(chain) : chain[i] \in Cell /\ chain[i] # c
  BY FreshCell DEF amqp_put_back_frame, amqp_create_link_for_frame
<1>3. data' = [data EXCEPT ![c] = f] /\ data \in [Cell -> Frame \cup {NULL}]
  BY DEF amqp_put_back_frame, amqp_create_link_for_frame, IInv, TypeOK
<1>4. /\ Queued \in Seq(Frame) /\ Len(Queued) = Len(chain)
      /\ \A i \in 1 .. Len(chain) : Queued[i] = data[chain[i]]
  BY QueuedFrames DEF QueuedAre
<1>5. /\ Queued' \in Seq(Frame) /\ Len(Queued') = Len(chain) + 1
      /\ \A i \in 1 .. Len(chain) + 1 : Queued'[i] = data'[chain'[i]]
  BY <1>1, QueuedFramesNext DEF QueuedAre
<1>6. /\ << f >> \o Queued \in Seq(Frame) /\ Len(<< f >> \o Queued) = Len(chain) + 1
      /\ \A i \in 2 .. Len(chain) + 1 : (<< f >> \o Queued)[i] = Queued[i - 1]
      /\ (<< f >> \o Queued)[1] = f
  <2>1. << f >> \in Seq(Frame) /\ Len(<< f >>) = 1 /\ << f >>[1] = f
    OBVIOUS
  <2> QED
    BY <1>1, <1>4, <2>1, ConcatProperties
<1>7. ASSUME NEW i \in 1 .. Len(chain) + 1
      PROVE  Queued'[i] = (<< f >> \o Queued)[i]
  <2>1. CASE i = 1
    BY <2>1, <1>1, <1>3, <1>5, <1>6
  <2>2. CASE i # 1
    <3>1. i \in 2 .. Len(chain) + 1 /\ i - 1 \in 1 .. Len(chain)
      BY <1>1, <2>2
    <3>2. Queued'[i] = data'[chain[i - 1]] /\ (<< f >> \o Queued)[i] = data[chain[i - 1]]
      BY <3>1, <1>1, <1>4, <1>5, <1>6
    <3> QED
      BY <3>1, <3>2, <1>2, <1>3
  <2> QED
    BY <2>1, <2>2
<1> QED
  BY <1>5, <1>6, <1>7, SeqEqual

(* A removal of either kind takes the frame at k and everything before it. *)
LEMMA CutTakes ==
  ASSUME IInv, IInv', NEW k \in 1 .. Len(chain), Cut(k)
  PROVE  /\ returned' = Queued[k]
         /\ Queued' = SubSeq(Queued, k + 1, Len(Queued))
<1>1. /\ Queued \in Seq(Frame) /\ Len(Queued) = Len(chain) /\ Len(chain) \in Nat
      /\ \A i \in 1 .. Len(chain) : Queued[i] = data[chain[i]]
  BY QueuedFrames, ChainFacts DEF QueuedAre
<1>2. /\ Queued' \in Seq(Frame) /\ Len(Queued') = Len(chain')
      /\ \A i \in 1 .. Len(chain') : Queued'[i] = data[chain'[i]]
  BY QueuedFramesNext DEF Cut, QueuedAre
<1>3. /\ Len(chain') = Len(chain) - k
      /\ \A i \in 1 .. Len(chain) - k : chain'[i] = chain[k + i]
  <2>1. chain \in Seq(Cell) /\ chain' = SubSeq(chain, k + 1, Len(chain))
    BY DEF IInv, TypeOK, Cut
  <2>2. /\ Len(chain') = IF k + 1 <= Len(chain) THEN Len(chain) - (k + 1) + 1 ELSE 0
        /\ \A i \in 1 .. Len(chain) - (k + 1) + 1 : chain'[i] = chain[(k + 1) + i - 1]
    BY <1>1, <2>1, SubSeqProperties
  <2>3. /\ Len(chain) - (k + 1) + 1 = Len(chain) - k
        /\ k + 1 <= Len(chain) \/ Len(chain) - k = 0
        /\ \A i \in 1 .. Len(chain) - k : (k + 1) + i - 1 = k + i
    BY <1>1
  <2> QED
    BY <2>2, <2>3
<1>4. /\ SubSeq(Queued, k + 1, Len(Queued)) \in Seq(Frame)
      /\ Len(SubSeq(Queued, k + 1, Len(Queued))) = Len(chain) - k
      /\ \A i \in 1 .. Len(chain) - k : SubSeq(Queued, k + 1, Len(Queued))[i] = Queued[k + i]
  <2>1. \A i \in k + 1 .. Len(Queued) : Queued[i] \in Frame
    BY <1>1
  <2>2. /\ SubSeq(Queued, k + 1, Len(Queued)) \in Seq(Frame)
        /\ Len(SubSeq(Queued, k + 1, Len(Queued)))
              = IF k + 1 <= Len(Queued) THEN Len(Queued) - (k + 1) + 1 ELSE 0
        /\ \A i \in 1 .. Len(Queued) - (k + 1) + 1 :
              SubSeq(Queued, k + 1, Len(Queued))[i] = Queued[(k + 1) + i - 1]
    BY <1>1, <2>1, SubSeqProperties
  <2>3. /\ Len(chain) - (k + 1) + 1 = Len(chain) - k
        /\ k + 1 <= Len(chain) \/ Len(chain) - k = 0
        /\ \A i \in 1 .. Len(chain) - k : (k + 1) + i - 1 = k + i
    BY <1>1
  <2> QED
    BY <1>1, <2>2, <2>3
<1>5. ASSUME NEW i \in 1 .. Len(chain) - k
      PROVE  Queued'[i] = SubSeq(Queued, k + 1, Len(Queued))[i]
  <2>1. k + i \in 1 .. Len(chain)
    BY <1>1
  <2>2. Queued[k + i] = data[chain[k + i]]
    BY <2>1, <1>1
  <2>3. Queued'[i] = data[chain[k + i]]
    BY <1>2, <1>3
  <2> QED
    BY <2>2, <2>3, <1>4
<1>6. Queued' = SubSeq(Queued, k + 1, Len(Queued))
  BY <1>2, <1>3, <1>4, <1>5, SeqEqual
<1>7. returned' = Queued[k]
  BY <1>1 DEF Cut
<1> QED
  BY <1>6, <1>7

(***************************************************************************)
(* The linked list offers the calls of the library what FrameQueue says,   *)
(* for any number of frames, channels and cells: both appends are one and  *)
(* the same arrival, and a walk that has found its frame has found the     *)
(* first one of its channel.                                               *)
(***************************************************************************)
THEOREM ImplementsQueue == Spec => QueueSpec
<1>1. Init => Abstract!Init
  BY DEF Init, Abstract!Init, Queued
<1>2. IInv /\ IInv' /\ [Next]_vars => [Abstract!Next]_<<Queued, returned>>
  <2> SUFFICES ASSUME IInv, IInv', [Next]_vars
               PROVE  [Abstract!Next]_<<Queued, returned>>
    OBVIOUS
  <2>0. /\ chain \in Seq(Cell) /\ DOMAIN chain = 1 .. Len(chain) /\ Len(chain) \in Nat
        /\ first_queued_frame = NULL <=> chain = << >>
        /\ last_queued_frame = NULL <=> chain = << >>
    <3>1. chain \in Seq(Cell) /\ \A i \in 1 .. Len(chain) : chain[i] # NULL
      BY ChainFacts DEF IInv, TypeOK
    <3> QED
      BY <3>1 DEF IInv, ListWellFormed
  <2>1. ASSUME NEW c \in Cell, NEW f \in Frame,
               AppendAtLast(c, f) \/ amqp_queue_frame(c, f)
        PROVE  Abstract!Next
    <3>1. Appended(c, f)
      BY <2>0, <2>1 DEF AppendAtLast, amqp_queue_frame, Appended
    <3>2. Abstract!Arrive(f)
      BY <3>1, AppendArrives DEF Abstract!Arrive, Appended
    <3> QED
      BY <3>2 DEF Abstract!Next
  <2>2. ASSUME NEW c \in Cell, NEW f \in Frame, amqp_put_back_frame(c, f)
        PROVE  Abstract!Next
    <3>1. Abstract!PutBack(f)
      BY <2>2, PutBackPuts DEF Abstract!PutBack, amqp_put_back_frame
    <3> QED
      BY <3>1 DEF Abstract!Next
  <2>3. CASE TakeFirst
    <3>1. 1 \in 1 .. Len(chain) /\ first_queued_frame = chain[1]
      BY <2>0, <2>3 DEF TakeFirst, IInv, ListWellFormed
    <3>2. chain' = SubSeq(chain, 1 + 1, Len(chain)) /\ scan' = NoScan
      BY <2>0, <2>3, <3>1, TailIsSubSeq DEF TakeFirst, IInv, ScanInv
    <3>3. Cut(1)
      BY <2>3, <3>1, <3>2 DEF TakeFirst, Cut
    <3>4. returned' = Queued[1] /\ Queued' = SubSeq(Queued, 1 + 1, Len(Queued))
      BY <3>1, <3>3, CutTakes
    <3>5. Queued \in Seq(Frame) /\ Queued # << >>
      BY <2>0, <3>1, QueuedFrames DEF QueuedAre
    <3>6. returned' = Head(Queued) /\ Queued' = Tail(Queued)
      BY <3>4, <3>5, TailIsSubSeq
    <3>7. Abstract!TakeFirst
      BY <3>5, <3>6 DEF Abstract!TakeFirst
    <3> QED
      BY <3>7 DEF Abstract!Next
  <2>4. CASE TakeScanned
    <3>1. PICK k \in 1 .. Len(chain) : /\ chain[k] = scan.cursor
                                       /\ chain' = SubSeq(chain, k + 1, Len(chain))
      BY <2>0, <2>4 DEF TakeScanned
    <3>2. Cut(k) /\ data[chain[k]].channel = scan.channel
      BY <2>4, <3>1 DEF TakeScanned, Cut
    <3>3. returned' = Queued[k] /\ Queued' = SubSeq(Queued, k + 1, Len(Queued))
      BY <3>1, <3>2, CutTakes
    <3>4. scan.channel \in Channel /\ Passed(k)
      <4>1. /\ scan.channel \in Channel /\ chain[k] # NULL
            /\ \/ scan.cursor = NULL
               \/ \E j \in 1 .. Len(chain) : scan.cursor = chain[j] /\ Passed(j)
        BY <2>4, <3>1, ChainFacts DEF TakeScanned, IInv, ScanInv
      <4>2. PICK j \in 1 .. Len(chain) : chain[k] = chain[j] /\ Passed(j)
        BY <3>1, <4>1
      <4>3. j = k
        BY <2>0, <4>2 DEF IInv, ListWellFormed
      <4> QED
        BY <4>1, <4>2, <4>3
    <3>5. /\ k \in 1 .. Len(Queued) /\ Queued[k].channel = scan.channel
          /\ \A j \in 1 .. k - 1 : Queued[j].channel # scan.channel
      <4>1. \A j \in 1 .. k - 1 : j \in 1 .. Len(chain)
        BY <2>0
      <4> QED
        BY <3>2, <3>4, <4>1, QueuedFrames DEF Passed, QueuedAre
    <3>6. Abstract!TakeOnChannel(scan.channel)
      BY <3>3, <3>5 DEF Abstract!TakeOnChannel
    <3> QED
      BY <3>4, <3>6 DEF Abstract!Next
  <2>5. ASSUME UNCHANGED <<list, returned>> PROVE UNCHANGED <<Queued, returned>>
    BY <2>5 DEF list, Queued
  <2>6. ASSUME NEW ch \in Channel, StartWait(ch) \/ StartRelease(ch)
        PROVE  UNCHANGED <<Queued, returned>>
    BY <2>5, <2>6 DEF StartWait, StartRelease
  <2>7. CASE ScanOn \/ WaitEnds \/ amqp_release_buffers \/ ReleaseRefused
    BY <2>5, <2>7 DEF ScanOn, WaitEnds, amqp_release_buffers, ReleaseRefused
  <2>8. CASE recycle_amqp_pool \/ BeginHeader \/ CompleteFrame
    BY <2>5, <2>8 DEF recycle_amqp_pool, BeginHeader, CompleteFrame
  <2>9. ASSUME NEW c \in Cell, NEW ch \in Channel, BeginBody(c, ch)
        PROVE  UNCHANGED <<Queued, returned>>
    BY <2>5, <2>9 DEF BeginBody
  <2>10. CASE UNCHANGED vars
    BY <2>5, <2>10 DEF vars, list
  <2> QED
    BY <2>1, <2>2, <2>3, <2>4, <2>6, <2>7, <2>8, <2>9, <2>10 DEF Next
<1> QED
  BY <1>1, <1>2, InitIInv, NextIInv, PTL DEF Spec, QueueSpec, Abstract!Spec
=============================================================================
