------------------------- MODULE ChannelPoolsProofs -------------------------
(***************************************************************************)
(* Proofs about ChannelPools, for any number of channels, blocks, sizes of *)
(* pages and amounts, and for any pattern of failed allocations.           *)
(***************************************************************************)
EXTENDS ChannelPools, SequenceTheorems, TLAPS

(* The pages that have been handed out since the last recycling. *)
Used(ch) == { pool[ch].pages[i] : i \in 1 .. pool[ch].next_page }

(* Where the allocations of a channel may lie. *)
Home(ch) == Used(ch) \cup pool[ch].large_blocks \cup lost[ch]

(* The current page of a pool, and the sizes of its pages. *)
PageInv(ch) ==
    /\ pool[ch].alloc_used % 8 = 0 /\ pool[ch].alloc_used <= pool[ch].pagesize
    /\ \A b \in PageBlocks(ch) : size[b] = pool[ch].pagesize
    /\ pool[ch].alloc_block # NULL => /\ pool[ch].alloc_block \in Used(ch) \cup lost[ch]
                                      /\ size[pool[ch].alloc_block] = pool[ch].pagesize
    /\ ~HasPool(ch) => Kept(ch) = {}

(* An allocation lies in its block, in the part of the current page that is used. *)
Placed(a) ==
    /\ HasPool(a.channel)
    /\ a.block \in Home(a.channel)
    /\ a.from % 8 = 0 /\ a.from + a.len <= a.to /\ a.to <= size[a.block]
    /\ a.block = pool[a.channel].alloc_block => a.to <= pool[a.channel].alloc_used

IInv == /\ TypeOK /\ Accounted /\ Disjoint
        /\ \A ch \in Channel : PageInv(ch)
        /\ \A a \in live : Placed(a)

-----------------------------------------------------------------------------
(* Numbers and sequences.                                                  *)

LEMMA RoundedIsEnough ==
  ASSUME NEW n \in Nat \ {0}
  PROVE  Rounded(n) \in Nat /\ n <= Rounded(n) /\ Rounded(n) % 8 = 0 /\ 0 < Rounded(n)
BY DEF Rounded

LEMMA AmountFacts ==
  ASSUME NEW amount \in Amounts
  PROVE  /\ amount \in Nat /\ Rounded(amount) \in Nat /\ amount <= Rounded(amount)
         /\ Rounded(amount) % 8 = 0 /\ 0 < Rounded(amount)
BY RoundedIsEnough, PoolAssumption DEF PoolAssumption

LEMMA AppendFacts ==
  ASSUME NEW s \in Seq(Block), NEW b \in Block
  PROVE  /\ Append(s, b) \in Seq(Block)
         /\ Len(s) \in Nat /\ DOMAIN s = 1 .. Len(s)
         /\ DOMAIN Append(s, b) = 1 .. Len(s) + 1 /\ Len(Append(s, b)) = Len(s) + 1
         /\ \A i \in 1 .. Len(s) : Append(s, b)[i] = s[i]
         /\ Append(s, b)[Len(s) + 1] = b
BY AppendProperties, LenProperties

(* The pages after one more has been recorded. *)
LEMMA AppendPages ==
  ASSUME NEW s \in Seq(Block), NEW b \in Block,
         NEW t, t = Append(s, b),
         \A i, j \in DOMAIN s : s[i] = s[j] => i = j,
         \A i \in DOMAIN s : s[i] # b
  PROVE  /\ { t[i] : i \in DOMAIN t } = { s[i] : i \in DOMAIN s } \cup {b}
         /\ { t[i] : i \in 1 .. Len(s) + 1 } = { s[i] : i \in DOMAIN s } \cup {b}
         /\ \A i, j \in DOMAIN t : t[i] = t[j] => i = j
<1>1. PICK n \in Nat : n = Len(s)
  BY LenProperties
<1>2. /\ DOMAIN s = 1 .. n /\ DOMAIN t = 1 .. n + 1
      /\ \A i \in 1 .. n : t[i] = s[i]
      /\ t[n + 1] = b
  BY <1>1, AppendFacts
<1>3. \A i : i \in 1 .. n + 1 <=> i \in 1 .. n \/ i = n + 1
  OBVIOUS
<1>4. { t[i] : i \in 1 .. n + 1 } = { s[i] : i \in 1 .. n } \cup {b}
  BY <1>2, <1>3
<1>5. ASSUME NEW i \in DOMAIN t, NEW j \in DOMAIN t, t[i] = t[j] PROVE i = j
  BY <1>2, <1>3, <1>5
<1> QED
  BY <1>1, <1>2, <1>4, <1>5

(* One more page used: the next kept one. *)
LEMMA NextUsed ==
  ASSUME NEW s \in Seq(Block), NEW k \in Nat, k < Len(s),
         \A i, j \in DOMAIN s : s[i] = s[j] => i = j
  PROVE  /\ s[k + 1] \in { s[i] : i \in DOMAIN s }
         /\ s[k + 1] \in Block
         /\ s[k + 1] \notin { s[i] : i \in 1 .. k }
         /\ { s[i] : i \in 1 .. k + 1 } = { s[i] : i \in 1 .. k } \cup {s[k + 1]}
<1>1. PICK n \in Nat : n = Len(s) /\ DOMAIN s = 1 .. n
  BY LenProperties
<1>2. k + 1 \in 1 .. n /\ \A i \in 1 .. k : i \in 1 .. n /\ i # k + 1
  BY <1>1
<1>3. \A i : i \in 1 .. k + 1 <=> i \in 1 .. k \/ i = k + 1
  OBVIOUS
<1>4. s[k + 1] \in Block
  BY <1>1, <1>2, ElementOfSeq
<1> QED
  BY <1>1, <1>2, <1>3, <1>4

-----------------------------------------------------------------------------
(* What an action leaves alone.                                            *)

LEMMA BecomesFacts ==
  ASSUME pool \in [Channel -> Pool], NEW ch \in Channel, NEW p \in Pool, Becomes(ch, p)
  PROVE  /\ pool' \in [Channel -> Pool]
         /\ pool'[ch] = p
         /\ \A d \in Channel \ {ch} : pool'[d] = pool[d]
BY DEF Becomes

LEMMA SamePool ==
  ASSUME NEW d \in Channel, pool'[d] = pool[d]
  PROVE  PageBlocks(d)' = PageBlocks(d) /\ Used(d)' = Used(d) /\ Kept(d)' = Kept(d)
BY DEF PageBlocks, Used, Kept

LEMMA UsedArePages ==
  ASSUME TypeOK, NEW ch \in Channel
  PROVE  Used(ch) \subseteq PageBlocks(ch) /\ PageBlocks(ch) \subseteq Block
<1>1. pool[ch] \in Pool /\ pool[ch].next_page <= Len(pool[ch].pages)
  BY DEF TypeOK
<1>2. pool[ch].pages \in Seq(Block) /\ pool[ch].next_page \in Nat
  BY <1>1 DEF Pool
<1>3. PICK n \in Nat : n = Len(pool[ch].pages) /\ DOMAIN pool[ch].pages = 1 .. n
  BY <1>2, LenProperties
<1>4. \A i \in 1 .. n : pool[ch].pages[i] \in Block
  BY <1>2, <1>3, ElementOfSeq
<1>5. \A i \in 1 .. pool[ch].next_page : i \in 1 .. n
  BY <1>1, <1>2, <1>3
<1> QED
  BY <1>3, <1>4, <1>5 DEF Used, PageBlocks

(* A block of size 0 is held by nobody and no allocation lies in it. *)
LEMMA FreeBlock ==
  ASSUME IInv, NEW b \in Block, size[b] = 0
  PROVE  /\ \A ch \in Channel : b \notin Kept(ch) \cup lost[ch]
         /\ \A a \in live : a.block # b
<1>1. \A ch \in Channel : b \notin Kept(ch) \cup lost[ch]
  BY DEF IInv, Accounted
<1>2. ASSUME NEW a \in live, a.block = b PROVE FALSE
  <2>1. a \in Allocation
    BY DEF IInv, TypeOK
  <2>2. a.channel \in Channel
    BY <2>1 DEF Allocation
  <2>3. Home(a.channel) \subseteq Kept(a.channel) \cup lost[a.channel]
    BY <2>2, UsedArePages DEF Home, Kept, IInv
  <2> QED
    BY <1>1, <1>2, <2>2, <2>3 DEF IInv, Placed
<1> QED
  BY <1>1, <1>2

LEMMA Types ==
  ASSUME IInv, NEW ch \in Channel
  PROVE  /\ pool \in [Channel -> Pool] /\ pool[ch] \in Pool
         /\ pool[ch].pages \in Seq(Block) /\ pool[ch].large_blocks \subseteq Block
         /\ pool[ch].pagesize \in Nat /\ pool[ch].pagesize # 0
         /\ pool[ch].next_page \in Nat /\ pool[ch].alloc_used \in Nat
         /\ pool[ch].alloc_block \in Block \cup {NULL}
         /\ pool[ch].next_page <= Len(pool[ch].pages) /\ Len(pool[ch].pages) \in Nat
         /\ size \in [Block -> Nat] /\ lost \in [Channel -> SUBSET Block]
         /\ NULL \notin Block
<1>1. pool \in [Channel -> Pool] /\ pool[ch] \in Pool
  BY DEF IInv, TypeOK
<1>2. Len(pool[ch].pages) \in Nat
  BY <1>1, LenProperties DEF Pool
<1> QED
  BY <1>1, <1>2, PoolAssumption DEF IInv, TypeOK, Pool, PoolAssumption

LEMMA LiveTypes ==
  ASSUME IInv, NEW a \in live
  PROVE  /\ a.channel \in Channel /\ a.block \in Block /\ a.from \in Nat /\ a.to \in Nat
         /\ a.len \in Amounts /\ a.id \in 1 .. allocs
BY DEF IInv, TypeOK, Allocation

(* The allocation HandOut adds. *)
LEMMA HandOutFacts ==
  ASSUME IInv, NEW ch \in Channel, NEW b \in Block, NEW from \in Nat,
         NEW amount \in Amounts, HandOut(ch, b, from, amount)
  PROVE  \E a : /\ live' = live \cup {a}
                /\ a.channel = ch /\ a.block = b /\ a.from = from /\ a.len = amount
                /\ a.to = from + Rounded(amount)
                /\ live' \subseteq Allocation' /\ allocs' \in Nat
<1> DEFINE a == [id |-> allocs', channel |-> ch, block |-> b, from |-> from,
                 len |-> amount, to |-> from + Rounded(amount)]
<1>1. allocs \in Nat /\ allocs' = allocs + 1 /\ live' = live \cup {a}
  BY DEF HandOut, IInv, TypeOK
<1>2. from + Rounded(amount) \in Nat
  BY AmountFacts
<1>3. a \in Allocation'
  <2>1. allocs' \in 1 .. allocs'
    BY <1>1
  <2> QED
    BY <1>2, <2>1 DEF Allocation
<1>4. ASSUME NEW x \in live PROVE x \in Allocation'
  <2>1. x \in Allocation
    BY DEF IInv, TypeOK
  <2>2. \A i \in 1 .. allocs : i \in 1 .. allocs'
    BY <1>1
  <2> QED
    BY <2>1, <2>2 DEF Allocation
<1>5. /\ a.channel = ch /\ a.block = b /\ a.from = from /\ a.len = amount
      /\ a.to = from + Rounded(amount)
  OBVIOUS
<1> HIDE DEF a
<1> QED
  BY <1>1, <1>3, <1>4, <1>5

LEMMA NewBlockHandOut ==
  ASSUME IInv, NEW ch \in Channel, NEW b \in Block,
         NEW amount \in Amounts, HandOut(ch, b, 0, amount)
  PROVE  \E a : /\ live' = live \cup {a}
                /\ a.channel = ch /\ a.block = b /\ a.from = 0 /\ a.len = amount
                /\ a.to = Rounded(amount)
                /\ live' \subseteq Allocation' /\ allocs' \in Nat
<1>1. 0 \in Nat /\ 0 + Rounded(amount) = Rounded(amount)
  BY AmountFacts
<1>2. PICK a : /\ live' = live \cup {a}
               /\ a.channel = ch /\ a.block = b /\ a.from = 0 /\ a.len = amount
               /\ a.to = 0 + Rounded(amount)
               /\ live' \subseteq Allocation' /\ allocs' \in Nat
  BY <1>1, HandOutFacts
<1> QED
  BY <1>1, <1>2

(* What an allocation needs to keep its place. *)
LEMMA StaysPlaced ==
  ASSUME IInv, NEW a \in live, NEW d \in Channel, d = a.channel,
         HasPool(d)',
         Home(d) \subseteq Home(d)',
         size'[a.block] = size[a.block],
         pool'[d].alloc_block = a.block =>
            pool[d].alloc_block = a.block /\ pool[d].alloc_used <= pool'[d].alloc_used,
         pool'[d].alloc_used \in Nat
  PROVE  Placed(a)'
<1>1. Placed(a) /\ a.to \in Nat /\ pool[d].alloc_used \in Nat
  BY LiveTypes, Types DEF IInv
<1>2. a.block \in Home(a.channel)'
  BY <1>1 DEF Placed
<1>3. a.block = pool'[d].alloc_block => a.to <= pool'[d].alloc_used
  BY <1>1 DEF Placed
<1> QED
  BY <1>1, <1>2, <1>3 DEF Placed

(* An allocation at the place where no other is. *)
LEMMA StaysDisjoint ==
  ASSUME Disjoint, NEW a, live' = live \cup {a},
         \A x \in live : a.block # x.block \/ (x.to <= a.from)
  PROVE  Disjoint'
BY DEF Disjoint

-----------------------------------------------------------------------------
(* Accounted.                                                              *)

LEMMA SameAccounted ==
  ASSUME IInv, UNCHANGED <<size, lost>>,
         \A d \in Channel : /\ pool'[d].pages = pool[d].pages
                            /\ pool'[d].large_blocks = pool[d].large_blocks
  PROVE  Accounted'
<1>1. \A d \in Channel : PageBlocks(d)' = PageBlocks(d) /\ Kept(d)' = Kept(d)
  BY DEF PageBlocks, Kept
<1> QED
  BY <1>1 DEF IInv, Accounted

(* A new block goes to one of the three sets of one channel. *)
LEMMA FreshAccounted ==
  ASSUME IInv, NEW ch \in Channel, NEW b \in Block, NEW n \in Nat, n # 0,
         calloc(b, n),
         \A d \in Channel \ {ch} : pool'[d] = pool[d] /\ lost'[d] = lost[d],
         \A i, j \in DOMAIN pool'[ch].pages : pool'[ch].pages[i] = pool'[ch].pages[j] => i = j,
         \/ /\ PageBlocks(ch)' = PageBlocks(ch) \cup {b}
            /\ pool'[ch].large_blocks = pool[ch].large_blocks /\ lost'[ch] = lost[ch]
         \/ /\ PageBlocks(ch)' = PageBlocks(ch)
            /\ pool'[ch].large_blocks = pool[ch].large_blocks \cup {b} /\ lost'[ch] = lost[ch]
         \/ /\ PageBlocks(ch)' = PageBlocks(ch)
            /\ pool'[ch].large_blocks = pool[ch].large_blocks /\ lost'[ch] = lost[ch] \cup {b}
  PROVE  Accounted'
<1>1. \A d \in Channel : b \notin PageBlocks(d) /\ b \notin pool[d].large_blocks /\ b \notin lost[d]
  BY FreeBlock DEF calloc, Kept
<1>2. \A d \in Channel \ {ch} : Kept(d)' = Kept(d) /\ PageBlocks(d)' = PageBlocks(d)
  BY SamePool
<1>3. \A d \in Channel : /\ PageBlocks(d) \cap pool[d].large_blocks = {}
                         /\ Kept(d) \cap lost[d] = {}
  BY DEF IInv, Accounted
<1>4. PageBlocks(ch)' \cap pool'[ch].large_blocks = {} /\ Kept(ch)' \cap lost'[ch] = {}
  BY <1>1, <1>3 DEF Kept
<1>5. (Kept(ch) \cup lost[ch])' = Kept(ch) \cup lost[ch] \cup {b}
  BY DEF Kept
<1>6. ASSUME NEW c \in Channel, NEW d \in Channel, c # d
      PROVE  (Kept(c) \cup lost[c])' \cap (Kept(d) \cup lost[d])' = {}
  <2>1. (Kept(c) \cup lost[c]) \cap (Kept(d) \cup lost[d]) = {}
    BY <1>6 DEF IInv, Accounted
  <2>2. b \notin Kept(c) \cup lost[c] /\ b \notin Kept(d) \cup lost[d]
    BY <1>1 DEF Kept
  <2>3. CASE c = ch
    BY <1>2, <1>5, <1>6, <2>1, <2>2, <2>3
  <2>4. CASE d = ch
    BY <1>2, <1>5, <1>6, <2>1, <2>2, <2>4
  <2>5. CASE c # ch /\ d # ch
    BY <1>2, <2>1, <2>5
  <2> QED
    BY <2>3, <2>4, <2>5
<1>7. ASSUME NEW x \in Block
      PROVE  size'[x] # 0 <=> \E d \in Channel : x \in (Kept(d) \cup lost[d])'
  <2>1. size[x] # 0 <=> \E d \in Channel : x \in Kept(d) \cup lost[d]
    BY DEF IInv, Accounted
  <2>2. size'[x] = IF x = b THEN n ELSE size[x]
    BY Types DEF calloc
  <2>3. CASE x = b
    BY <1>5, <2>2, <2>3
  <2>4. CASE x # b
    <3>1. \A d \in Channel : x \in (Kept(d) \cup lost[d])' <=> x \in Kept(d) \cup lost[d]
      BY <1>2, <1>5, <2>4
    <3> QED
      BY <2>1, <2>2, <2>4, <3>1
  <2> QED
    BY <2>3, <2>4
<1>8. \A c \in Channel \ {ch} :
        \A i, j \in DOMAIN pool'[c].pages : pool'[c].pages[i] = pool'[c].pages[j] => i = j
  BY DEF IInv, Accounted
<1>9. \A c \in Channel \ {ch} : /\ PageBlocks(c)' \cap pool'[c].large_blocks = {}
                                /\ Kept(c)' \cap lost'[c] = {}
  BY <1>2, <1>3
<1> QED
  BY <1>4, <1>6, <1>7, <1>8, <1>9 DEF Accounted

-----------------------------------------------------------------------------
(* amqp_pool_alloc in the current page.                                    *)

LEMMA InPageInv ==
  ASSUME IInv, NEW ch \in Channel, NEW amount \in Amounts, AllocInPage(ch, amount)
  PROVE  IInv'
<1> DEFINE p == pool[ch]
           q == [p EXCEPT !.alloc_used = p.alloc_used + Rounded(amount)]
<1>1. /\ p \in Pool /\ p.alloc_used \in Nat /\ Rounded(amount) \in Nat
      /\ p.alloc_used % 8 = 0 /\ Rounded(amount) % 8 = 0
      /\ amount \in Nat /\ amount <= Rounded(amount) /\ 0 < Rounded(amount)
  BY Types, AmountFacts DEF IInv, PageInv
<1>2. /\ HasPool(ch) /\ p.alloc_block # NULL /\ p.alloc_used + Rounded(amount) <= p.pagesize
      /\ Becomes(ch, q) /\ UNCHANGED <<size, lost, pool_table>>
      /\ HandOut(ch, p.alloc_block, p.alloc_used, amount)
  BY DEF AllocInPage, FitsPage, HandOut
<1>3. /\ q \in Pool /\ q.alloc_used = p.alloc_used + Rounded(amount)
      /\ q.pages = p.pages /\ q.large_blocks = p.large_blocks /\ q.pagesize = p.pagesize
      /\ q.next_page = p.next_page /\ q.alloc_block = p.alloc_block
  <2> HIDE DEF p
  <2> QED
    BY <1>1 DEF Pool
<1> HIDE DEF q
<1>4. /\ pool' \in [Channel -> Pool] /\ pool'[ch] = q
      /\ \A d \in Channel \ {ch} : pool'[d] = pool[d]
  BY <1>2, <1>3, BecomesFacts, Types
<1>5. ASSUME NEW d \in Channel
      PROVE  /\ pool'[d].pages = pool[d].pages
             /\ pool'[d].large_blocks = pool[d].large_blocks
             /\ pool'[d].pagesize = pool[d].pagesize
             /\ pool'[d].next_page = pool[d].next_page
             /\ pool'[d].alloc_block = pool[d].alloc_block
             /\ pool'[d].alloc_used \in Nat
             /\ pool[d].alloc_used <= pool'[d].alloc_used
  <2>1. CASE d = ch
    <3>1. p.alloc_used + Rounded(amount) \in Nat /\ p.alloc_used <= p.alloc_used + Rounded(amount)
      BY <1>1
    <3> QED
      BY <1>3, <1>4, <2>1, <3>1
  <2>2. CASE d # ch
    <3>1. pool'[d] = pool[d] /\ pool[d].alloc_used \in Nat
      BY <1>4, <2>2, Types
    <3> QED
      BY <3>1
  <2> QED
    BY <2>1, <2>2
<1>6. \A d \in Channel : /\ PageBlocks(d)' = PageBlocks(d) /\ Used(d)' = Used(d)
                         /\ Kept(d)' = Kept(d) /\ Home(d)' = Home(d)
                         /\ (HasPool(d)' <=> HasPool(d))
  BY <1>2, <1>5 DEF PageBlocks, Used, Kept, Home, HasPool
<1>7. PICK a : /\ live' = live \cup {a}
               /\ a.channel = ch /\ a.block = p.alloc_block /\ a.from = p.alloc_used
               /\ a.len = amount /\ a.to = p.alloc_used + Rounded(amount)
               /\ live' \subseteq Allocation' /\ allocs' \in Nat
  <2>1. p.alloc_block \in Block
    BY <1>2, Types
  <2> QED
    BY <1>1, <1>2, <2>1, HandOutFacts
<1>8. TypeOK'
  BY <1>2, <1>4, <1>5, <1>7, Types DEF TypeOK, IInv
<1>9. Accounted'
  BY <1>2, <1>5, SameAccounted
<1>10. Disjoint'
  <2>1. ASSUME NEW x \in live, a.block = x.block PROVE x.to <= a.from
    <3>1. x.channel \in Channel /\ Placed(x)
      BY LiveTypes DEF IInv
    <3>2. x.block \in Kept(x.channel) \cup lost[x.channel]
      BY <3>1, UsedArePages DEF Placed, Home, Kept, IInv
    <3>3. p.alloc_block \in Kept(ch) \cup lost[ch]
      BY <1>2, UsedArePages DEF IInv, PageInv, Kept
    <3>4. x.channel = ch
      BY <1>7, <2>1, <3>1, <3>2, <3>3 DEF IInv, Accounted
    <3> QED
      BY <1>7, <2>1, <3>1, <3>4 DEF Placed
  <2> QED
    BY <1>7, <2>1, StaysDisjoint DEF IInv
<1>11. ASSUME NEW d \in Channel PROVE PageInv(d)'
  <2>1. PageInv(d)
    BY DEF IInv
  <2>2. pool'[d].alloc_used % 8 = 0 /\ pool'[d].alloc_used <= pool'[d].pagesize
    <3>1. (p.alloc_used + Rounded(amount)) % 8 = 0
      BY <1>1
    <3> QED
      BY <1>2, <1>3, <1>4, <2>1, <3>1 DEF PageInv
  <2> QED
    BY <1>2, <1>5, <1>6, <2>1, <2>2 DEF PageInv
<1>12. ASSUME NEW x \in live PROVE Placed(x)'
  <2>1. x.channel \in Channel /\ Placed(x)
    BY LiveTypes DEF IInv
  <2> QED
    BY <1>2, <1>5, <1>6, <2>1, StaysPlaced DEF Placed
<1>13. Placed(a)'
  <2>1. a.block \in Home(ch)' /\ size'[a.block] = p.pagesize
    BY <1>2, <1>6, <1>7 DEF IInv, PageInv, Home
  <2>2. a.from % 8 = 0 /\ a.from + a.len <= a.to /\ a.to <= p.pagesize
    BY <1>1, <1>2, <1>7
  <2>3. a.to <= pool'[ch].alloc_used
    BY <1>1, <1>3, <1>4, <1>7
  <2> QED
    BY <1>2, <1>6, <1>7, <2>1, <2>2, <2>3 DEF Placed
<1> QED
  BY <1>7, <1>8, <1>9, <1>10, <1>11, <1>12, <1>13 DEF IInv

-----------------------------------------------------------------------------
(* The next kept page.                                                     *)

LEMMA KeptPageInv ==
  ASSUME IInv, NEW ch \in Channel, NEW amount \in Amounts, AllocKeptPage(ch, amount)
  PROVE  IInv'
<1> DEFINE p == pool[ch]
           b == p.pages[p.next_page + 1]
           q == [p EXCEPT !.alloc_block = b, !.alloc_used = Rounded(amount),
                          !.next_page = p.next_page + 1]
<1>1. /\ p \in Pool /\ p.pages \in Seq(Block) /\ Rounded(amount) \in Nat
      /\ Rounded(amount) % 8 = 0 /\ p.next_page \in Nat /\ p.next_page + 1 \in Nat
      /\ amount \in Nat /\ amount <= Rounded(amount) /\ 0 < Rounded(amount)
      /\ p.pagesize \in Nat /\ Len(p.pages) \in Nat
  BY Types, AmountFacts
<1>2. /\ HasPool(ch) /\ p.next_page < Len(p.pages) /\ Rounded(amount) <= p.pagesize
      /\ Becomes(ch, q) /\ UNCHANGED <<size, lost, pool_table>>
      /\ HandOut(ch, b, 0, amount)
  BY <1>1 DEF AllocKeptPage, NeedsPage, IsLarge, HasKeptPage, HandOut
<1>3. /\ b \in PageBlocks(ch) /\ b \in Block /\ b \notin Used(ch)
      /\ { p.pages[i] : i \in 1 .. p.next_page + 1 } = Used(ch) \cup {b}
  <2>1. \A i, j \in DOMAIN p.pages : p.pages[i] = p.pages[j] => i = j
    BY DEF IInv, Accounted
  <2> QED
    BY <1>1, <1>2, <2>1, NextUsed DEF Used, PageBlocks
<1> HIDE DEF b
<1>4. /\ q \in Pool /\ q.alloc_used = Rounded(amount) /\ q.alloc_block = b
      /\ q.pages = p.pages /\ q.large_blocks = p.large_blocks /\ q.pagesize = p.pagesize
      /\ q.next_page = p.next_page + 1
  <2> HIDE DEF p
  <2> QED
    BY <1>1, <1>3 DEF Pool
<1> HIDE DEF q
<1>5. /\ pool' \in [Channel -> Pool] /\ pool'[ch] = q
      /\ \A d \in Channel \ {ch} : pool'[d] = pool[d]
  BY <1>2, <1>4, BecomesFacts, Types
<1>6. \A d \in Channel : /\ pool'[d].pages = pool[d].pages
                         /\ pool'[d].large_blocks = pool[d].large_blocks
                         /\ pool'[d].pagesize = pool[d].pagesize
                         /\ pool'[d].alloc_used \in Nat
  <2>1. ASSUME NEW d \in Channel PROVE pool'[d].alloc_used \in Nat
    <3>1. pool'[d] \in Pool
      BY <1>5
    <3> QED
      BY <3>1 DEF Pool
  <2>2. ASSUME NEW d \in Channel
        PROVE  /\ pool'[d].pages = pool[d].pages
               /\ pool'[d].large_blocks = pool[d].large_blocks
               /\ pool'[d].pagesize = pool[d].pagesize
    <3>1. CASE d = ch
      BY <1>4, <1>5, <3>1
    <3>2. CASE d # ch
      BY <1>5, <3>2
    <3> QED
      BY <3>1, <3>2
  <2> QED
    BY <2>1, <2>2
<1>7. /\ \A d \in Channel : PageBlocks(d)' = PageBlocks(d) /\ Kept(d)' = Kept(d)
      /\ \A d \in Channel : HasPool(d)' <=> HasPool(d)
      /\ \A d \in Channel \ {ch} : Used(d)' = Used(d) /\ Home(d)' = Home(d)
      /\ Used(ch)' = Used(ch) \cup {b} /\ Home(ch)' = Home(ch) \cup {b}
  <2>1. \A d \in Channel : /\ PageBlocks(d)' = PageBlocks(d) /\ Kept(d)' = Kept(d)
                           /\ (HasPool(d)' <=> HasPool(d))
    BY <1>2, <1>6 DEF PageBlocks, Kept, HasPool
  <2>2. \A d \in Channel \ {ch} : Used(d)' = Used(d) /\ Home(d)' = Home(d)
    BY <1>2, <1>5 DEF Used, Home
  <2>3. Used(ch)' = Used(ch) \cup {b}
    BY <1>3, <1>4, <1>5 DEF Used
  <2> QED
    BY <1>2, <1>6, <2>1, <2>2, <2>3 DEF Home
<1>8. PICK a : /\ live' = live \cup {a}
               /\ a.channel = ch /\ a.block = b /\ a.from = 0
               /\ a.len = amount /\ a.to = Rounded(amount)
               /\ live' \subseteq Allocation' /\ allocs' \in Nat
  BY <1>2, <1>3, NewBlockHandOut
<1>9. TypeOK'
  <2>1. \A d \in Channel : pool'[d].next_page <= Len(pool'[d].pages)
    <3>1. p.next_page + 1 <= Len(p.pages)
      BY <1>1, <1>2
    <3>2. ASSUME NEW d \in Channel \ {ch} PROVE pool'[d].next_page <= Len(pool'[d].pages)
      BY <1>5, Types
    <3> QED
      BY <1>4, <1>5, <3>1, <3>2
  <2> QED
    BY <1>2, <1>5, <1>8, <2>1 DEF TypeOK, IInv
<1>10. Accounted'
  BY <1>2, <1>6, SameAccounted
<1>11. ASSUME NEW x \in live PROVE x.block # b
  <2>1. x.channel \in Channel /\ Placed(x)
    BY LiveTypes DEF IInv
  <2>2. x.block \in Kept(x.channel) \cup lost[x.channel]
    BY <2>1, UsedArePages DEF Placed, Home, Kept, IInv
  <2>3. b \notin Home(ch) /\ b \in Kept(ch)
    BY <1>3 DEF IInv, Accounted, Home, Kept
  <2>4. CASE x.channel = ch
    BY <2>1, <2>3, <2>4 DEF Placed
  <2>5. CASE x.channel # ch
    BY <2>1, <2>2, <2>3, <2>5 DEF IInv, Accounted
  <2> QED
    BY <2>4, <2>5
<1>12. Disjoint'
  BY <1>8, <1>11, StaysDisjoint DEF IInv
<1>13. ASSUME NEW d \in Channel PROVE PageInv(d)'
  <2>1. PageInv(d)
    BY DEF IInv
  <2>2. CASE d = ch
    <3>1. size[b] = p.pagesize
      BY <1>3 DEF IInv, PageInv
    <3>2. /\ pool'[d].alloc_used % 8 = 0 /\ pool'[d].alloc_used <= pool'[d].pagesize
          /\ pool'[d].alloc_block = b /\ size'[b] = pool'[d].pagesize /\ b \in Used(d)'
      BY <1>1, <1>2, <1>4, <1>5, <1>7, <2>2, <3>1
    <3> QED
      BY <1>2, <1>6, <1>7, <2>1, <2>2, <3>2 DEF PageInv
  <2>3. CASE d # ch
    BY <1>2, <1>5, <1>7, <2>1, <2>3 DEF PageInv
  <2> QED
    BY <2>2, <2>3
<1>14. ASSUME NEW x \in live PROVE Placed(x)'
  <2>1. x.channel \in Channel /\ Placed(x)
    BY LiveTypes DEF IInv
  <2>2. pool'[x.channel].alloc_block = x.block => x.channel # ch
    BY <1>4, <1>5, <1>11
  <2>3. x.channel # ch => /\ pool'[x.channel].alloc_block = pool[x.channel].alloc_block
                          /\ pool[x.channel].alloc_used <= pool'[x.channel].alloc_used
    BY <1>5, <2>1, Types
  <2>4. HasPool(x.channel)' /\ Home(x.channel) \subseteq Home(x.channel)'
    BY <1>7, <2>1 DEF Placed
  <2> QED
    BY <1>2, <1>6, <2>1, <2>2, <2>3, <2>4, StaysPlaced
<1>15. Placed(a)'
  <2>1. a.block \in Home(ch)' /\ size'[a.block] = p.pagesize
    BY <1>2, <1>3, <1>7, <1>8 DEF IInv, PageInv
  <2>2. a.from % 8 = 0 /\ a.from + a.len <= a.to /\ a.to <= p.pagesize /\ a.to = Rounded(amount)
    <3>1. 0 % 8 = 0 /\ 0 + amount <= Rounded(amount)
      BY <1>1
    <3> QED
      BY <1>2, <1>8, <3>1
  <2>3. a.to <= pool'[ch].alloc_used
    BY <1>1, <1>4, <1>5, <2>2
  <2> QED
    BY <1>2, <1>7, <1>8, <2>1, <2>2, <2>3 DEF Placed
<1> QED
  BY <1>8, <1>9, <1>10, <1>12, <1>13, <1>14, <1>15 DEF IInv

-----------------------------------------------------------------------------
(* The actions that take a new block.                                      *)

(***************************************************************************)
(* What they have in common: b was free, channel ch takes it up as page,   *)
(* large block or lost page, and what was in place stays there.            *)
(***************************************************************************)
PagesOf(p) == { p.pages[i] : i \in DOMAIN p.pages }

UsedOf(p) == { p.pages[i] : i \in 1 .. p.next_page }

TakenUp(ch, b, n, p) ==
    \/ /\ PagesOf(p) = PageBlocks(ch) \cup {b} /\ n = pool[ch].pagesize
       /\ p.large_blocks = pool[ch].large_blocks /\ lost'[ch] = lost[ch]
    \/ /\ PagesOf(p) = PageBlocks(ch)
       /\ p.large_blocks = pool[ch].large_blocks \cup {b} /\ lost'[ch] = lost[ch]
    \/ /\ PagesOf(p) = PageBlocks(ch)
       /\ p.large_blocks = pool[ch].large_blocks /\ lost'[ch] = lost[ch] \cup {b}

CurrentPage(ch, b, n, p) ==
    \/ /\ p.alloc_block = pool[ch].alloc_block /\ p.alloc_used = pool[ch].alloc_used
    \/ /\ p.alloc_block = b /\ n = pool[ch].pagesize
       /\ b \in UsedOf(p) \cup lost'[ch]
       /\ p.alloc_used % 8 = 0 /\ p.alloc_used <= pool[ch].pagesize

TakesBlock(ch, b, n, p) ==
    /\ n \in Nat /\ n # 0 /\ calloc(b, n) /\ HasPool(ch) /\ UNCHANGED pool_table
    /\ Becomes(ch, p)
    /\ p.pagesize = pool[ch].pagesize /\ p.next_page <= Len(p.pages)
    /\ lost' \in [Channel -> SUBSET Block]
    /\ \A d \in Channel \ {ch} : lost'[d] = lost[d]
    /\ \A i, j \in DOMAIN p.pages : p.pages[i] = p.pages[j] => i = j
    /\ Used(ch) \subseteq UsedOf(p)
    /\ TakenUp(ch, b, n, p)
    /\ CurrentPage(ch, b, n, p)

LEMMA NewBlock ==
  ASSUME IInv, NEW ch \in Channel, NEW b \in Block, NEW n, NEW p \in Pool,
         TakesBlock(ch, b, n, p)
  PROVE  /\ pool' \in [Channel -> Pool] /\ pool'[ch] = p
         /\ \A d \in Channel : pool'[d].next_page <= Len(pool'[d].pages)
         /\ size' \in [Block -> Nat] /\ size'[b] = n
         /\ Accounted'
         /\ \A d \in Channel : PageInv(d)'
         /\ \A x \in live : x.block # b /\ Placed(x)'
         /\ HasPool(ch)'
<1> USE DEF TakesBlock, TakenUp, CurrentPage
<1>1. /\ pool' \in [Channel -> Pool] /\ pool'[ch] = p
      /\ \A d \in Channel \ {ch} : pool'[d] = pool[d]
  BY BecomesFacts, Types
<1>a. PageBlocks(ch)' = PagesOf(p) /\ Used(ch)' = UsedOf(p)
  BY <1>1 DEF PageBlocks, Used, PagesOf, UsedOf
<1>2. \A d \in Channel : pool'[d].next_page <= Len(pool'[d].pages)
  BY <1>1, Types
<1>3. /\ size' \in [Block -> Nat] /\ size'[b] = n
      /\ \A x \in Block : x # b => size'[x] = size[x]
  BY Types DEF calloc
<1>4. /\ \A d \in Channel : b \notin Kept(d) \cup lost[d]
      /\ \A x \in live : x.block # b
  BY FreeBlock DEF calloc
<1>5. Accounted'
  BY <1>1, <1>a, FreshAccounted
<1>6. /\ \A d \in Channel \ {ch} : /\ PageBlocks(d)' = PageBlocks(d) /\ Used(d)' = Used(d)
                                  /\ Kept(d)' = Kept(d) /\ Home(d)' = Home(d)
      /\ \A d \in Channel : HasPool(d)' <=> HasPool(d)
  BY <1>1 DEF PageBlocks, Used, Kept, Home, HasPool
<1>7. Home(ch) \subseteq Home(ch)'
  BY <1>1, <1>a DEF Home
<1>8. ASSUME NEW d \in Channel PROVE PageInv(d)'
  <2>1. PageInv(d)
    BY DEF IInv
  <2>2. /\ \A x \in PageBlocks(d) : x \in Block /\ x # b
        /\ \A x \in Used(d) \cup lost[d] : x \in Block /\ x # b
    BY <1>4, UsedArePages, Types DEF IInv, Kept
  <2>3. CASE d = ch
    <3>1. \A x \in PageBlocks(ch)' : size'[x] = p.pagesize
      BY <1>3, <1>a, <2>1, <2>2, <2>3 DEF PageInv
    <3>2. p.alloc_used % 8 = 0 /\ p.alloc_used <= p.pagesize
      BY <2>1, <2>3 DEF PageInv
    <3>3. p.alloc_block # NULL => /\ p.alloc_block \in (Used(ch) \cup lost[ch])'
                                  /\ size'[p.alloc_block] = p.pagesize
      <4>1. CASE p.alloc_block = b
        BY <1>3, <1>4, <1>a, <2>1, <2>2, <2>3, <4>1 DEF PageInv
      <4>2. CASE p.alloc_block # b
        BY <1>3, <1>a, <2>1, <2>2, <2>3, <4>2 DEF PageInv
      <4> QED
        BY <4>1, <4>2
    <3> QED
      BY <1>1, <1>6, <2>3, <3>1, <3>2, <3>3 DEF PageInv
  <2>4. CASE d # ch
    BY <1>1, <1>3, <1>6, <2>1, <2>2, <2>4 DEF PageInv
  <2> QED
    BY <2>3, <2>4
<1>9. ASSUME NEW x \in live PROVE Placed(x)'
  <2>1. x.channel \in Channel /\ x.block \in Block /\ x.block # b /\ Placed(x)
    BY <1>4, LiveTypes DEF IInv
  <2>2. HasPool(x.channel)' /\ Home(x.channel) \subseteq Home(x.channel)'
    BY <1>6, <1>7, <2>1 DEF Placed
  <2>3. /\ pool'[x.channel].alloc_used \in Nat
        /\ pool'[x.channel].alloc_block = x.block =>
              /\ pool[x.channel].alloc_block = x.block
              /\ pool[x.channel].alloc_used <= pool'[x.channel].alloc_used
    <3>1. pool'[x.channel].alloc_used \in Nat /\ pool[x.channel].alloc_used \in Nat
      <4>1. pool'[x.channel] \in Pool
        BY <1>1, <2>1
      <4> QED
        BY <2>1, <4>1, Types DEF Pool
    <3> QED
      BY <1>1, <2>1, <3>1
  <2> QED
    BY <1>3, <2>1, <2>2, <2>3, StaysPlaced
<1> QED
  BY <1>1, <1>2, <1>3, <1>4, <1>5, <1>6, <1>8, <1>9

(* The new allocation begins a block of its own. *)
LEMMA NewBlockInv ==
  ASSUME IInv, NEW ch \in Channel, NEW b \in Block, NEW amount \in Amounts,
         HandOut(ch, b, 0, amount),
         pool' \in [Channel -> Pool], lost' \in [Channel -> SUBSET Block],
         \A d \in Channel : pool'[d].next_page <= Len(pool'[d].pages),
         size' \in [Block -> Nat], Rounded(amount) <= size'[b],
         Accounted', HasPool(ch)',
         \A d \in Channel : PageInv(d)',
         \A x \in live : x.block # b /\ Placed(x)',
         b \in Home(ch)',
         pool'[ch].alloc_block = b => pool'[ch].alloc_used = Rounded(amount)
  PROVE  IInv'
<1>1. PICK a : /\ live' = live \cup {a}
               /\ a.channel = ch /\ a.block = b /\ a.from = 0 /\ a.len = amount
               /\ a.to = Rounded(amount)
               /\ live' \subseteq Allocation' /\ allocs' \in Nat
  BY NewBlockHandOut
<1>2. TypeOK'
  BY <1>1 DEF TypeOK, IInv, HandOut
<1>3. Disjoint'
  BY <1>1, StaysDisjoint DEF IInv
<1>4. Placed(a)'
  <2>1. /\ 0 % 8 = 0 /\ 0 + amount <= Rounded(amount) /\ Rounded(amount) \in Nat
    BY AmountFacts
  <2>2. a.block = pool'[a.channel].alloc_block => a.to <= pool'[a.channel].alloc_used
    BY <1>1, <2>1
  <2>3. a.from % 8 = 0 /\ a.from + a.len <= a.to /\ a.to <= size'[a.block]
    BY <1>1, <2>1
  <2> QED
    BY <1>1, <2>2, <2>3 DEF Placed
<1> QED
  BY <1>1, <1>2, <1>3, <1>4 DEF IInv

LEMMA LargeInv ==
  ASSUME IInv, NEW ch \in Channel, NEW amount \in Amounts, AllocLarge(ch, amount)
  PROVE  IInv'
<1> DEFINE p == pool[ch]
<1>1. PICK b \in Block : /\ calloc(b, Rounded(amount))
                         /\ Becomes(ch, [p EXCEPT !.large_blocks = p.large_blocks \cup {b}])
                         /\ HandOut(ch, b, 0, amount)
  BY DEF AllocLarge
<1> DEFINE q == [p EXCEPT !.large_blocks = p.large_blocks \cup {b}]
<1>2. HasPool(ch) /\ UNCHANGED lost /\ UNCHANGED pool_table
  BY <1>1 DEF AllocLarge, HandOut
<1>3. /\ p \in Pool /\ p.large_blocks \cup {b} \in SUBSET Block
      /\ Rounded(amount) \in Nat /\ 0 < Rounded(amount) /\ Rounded(amount) # 0
  BY Types, AmountFacts
<1>4. /\ q \in Pool /\ q.large_blocks = p.large_blocks \cup {b}
      /\ q.pages = p.pages /\ q.pagesize = p.pagesize /\ q.next_page = p.next_page
      /\ q.alloc_block = p.alloc_block /\ q.alloc_used = p.alloc_used
  <2> HIDE DEF p
  <2> QED
    BY <1>3 DEF Pool
<1>5. Becomes(ch, q)
  BY <1>1
<1> HIDE DEF q
<1>6. pool'[ch] = q
  BY <1>4, <1>5, BecomesFacts, Types
<1>7. PagesOf(q) = PageBlocks(ch) /\ UsedOf(q) = Used(ch)
  BY <1>4 DEF PageBlocks, Used, PagesOf, UsedOf
<1>8. \A i, j \in DOMAIN q.pages : q.pages[i] = q.pages[j] => i = j
  BY <1>4 DEF IInv, Accounted
<1>9. /\ pool' \in [Channel -> Pool] /\ pool'[ch] = q
      /\ \A d \in Channel : pool'[d].next_page <= Len(pool'[d].pages)
      /\ size' \in [Block -> Nat] /\ size'[b] = Rounded(amount)
      /\ Accounted' /\ HasPool(ch)'
      /\ \A d \in Channel : PageInv(d)'
      /\ \A x \in live : x.block # b /\ Placed(x)'
  <2>1. TakenUp(ch, b, Rounded(amount), q) /\ CurrentPage(ch, b, Rounded(amount), q)
    BY <1>2, <1>4, <1>7 DEF TakenUp, CurrentPage
  <2>2. q.next_page <= Len(q.pages) /\ lost' \in [Channel -> SUBSET Block]
    BY <1>2, <1>4, Types
  <2>3. TakesBlock(ch, b, Rounded(amount), q)
    BY <1>1, <1>2, <1>3, <1>4, <1>5, <1>7, <1>8, <2>1, <2>2 DEF TakesBlock
  <2> QED
    BY <1>3, <1>4, <2>3, NewBlock
<1>10. b \in Home(ch)'
  BY <1>4, <1>6 DEF Home
<1>11. pool'[ch].alloc_block # b
  <2>1. p.alloc_block # b
    <3>1. b \notin Kept(ch) \cup lost[ch]
      BY <1>1, FreeBlock DEF calloc
    <3>2. p.alloc_block # NULL => p.alloc_block \in Kept(ch) \cup lost[ch]
      BY UsedArePages DEF IInv, PageInv, Kept
    <3> QED
      BY <3>1, <3>2, Types
  <2> QED
    BY <1>4, <1>6, <2>1
<1>12. Rounded(amount) <= size'[b] /\ lost' \in [Channel -> SUBSET Block]
  BY <1>2, <1>3, <1>9, Types
<1> QED
  BY <1>1, <1>9, <1>10, <1>11, <1>12, NewBlockInv

LEMMA NewPageInv ==
  ASSUME IInv, NEW ch \in Channel, NEW amount \in Amounts, AllocNewPage(ch, amount)
  PROVE  IInv'
<1> DEFINE p == pool[ch]
           n == Len(p.pages) + 1
<1>1. PICK b \in Block :
         /\ calloc(b, p.pagesize)
         /\ Becomes(ch, [p EXCEPT !.pages = Append(p.pages, b), !.alloc_block = b,
                                  !.next_page = n, !.alloc_used = Rounded(amount)])
         /\ HandOut(ch, b, 0, amount)
  BY DEF AllocNewPage
<1> DEFINE ap == Append(p.pages, b)
           q == [p EXCEPT !.pages = ap, !.alloc_block = b,
                          !.next_page = n, !.alloc_used = Rounded(amount)]
<1>2. HasPool(ch) /\ UNCHANGED lost /\ UNCHANGED pool_table /\ Rounded(amount) <= p.pagesize
  <2>1. ~(Rounded(amount) > p.pagesize) /\ HasPool(ch) /\ UNCHANGED lost /\ UNCHANGED pool_table
    BY <1>1 DEF AllocNewPage, NeedsPage, IsLarge, HandOut
  <2> QED
    BY <2>1, Types, AmountFacts
<1>3. /\ p \in Pool /\ p.pages \in Seq(Block) /\ n \in Nat /\ p.pagesize \in Nat /\ p.pagesize # 0
      /\ Rounded(amount) \in Nat /\ Rounded(amount) % 8 = 0
  BY Types, AmountFacts
<1>4. \A i, j \in DOMAIN p.pages : p.pages[i] = p.pages[j] => i = j
  BY DEF IInv, Accounted
<1>5. \A i \in DOMAIN p.pages : p.pages[i] # b
  BY <1>1, FreeBlock DEF calloc, Kept, PageBlocks
<1>6. /\ ap \in Seq(Block) /\ Len(ap) = n
      /\ { ap[i] : i \in DOMAIN ap } = PageBlocks(ch) \cup {b}
      /\ { ap[i] : i \in 1 .. n } = PageBlocks(ch) \cup {b}
      /\ \A i, j \in DOMAIN ap : ap[i] = ap[j] => i = j
  <2>1. ap \in Seq(Block) /\ Len(ap) = n
    BY <1>3, AppendFacts
  <2>2. /\ { ap[i] : i \in DOMAIN ap } = { p.pages[i] : i \in DOMAIN p.pages } \cup {b}
        /\ { ap[i] : i \in 1 .. n } = { p.pages[i] : i \in DOMAIN p.pages } \cup {b}
        /\ \A i, j \in DOMAIN ap : ap[i] = ap[j] => i = j
    <3> DEFINE s == p.pages
    <3>1. /\ s \in Seq(Block) /\ ap = Append(s, b)
          /\ \A i, j \in DOMAIN s : s[i] = s[j] => i = j
          /\ \A i \in DOMAIN s : s[i] # b
      BY <1>3, <1>4, <1>5
    <3> HIDE DEF s, ap
    <3>2. /\ { ap[i] : i \in DOMAIN ap } = { s[i] : i \in DOMAIN s } \cup {b}
          /\ { ap[i] : i \in 1 .. Len(s) + 1 } = { s[i] : i \in DOMAIN s } \cup {b}
          /\ \A i, j \in DOMAIN ap : ap[i] = ap[j] => i = j
      BY <3>1, AppendPages
    <3> QED
      BY <3>2 DEF s
  <2> QED
    BY <2>1, <2>2 DEF PageBlocks
<1> HIDE DEF ap, n
<1>7. /\ q \in Pool /\ q.pages = ap /\ q.alloc_block = b
      /\ q.next_page = n /\ q.alloc_used = Rounded(amount)
      /\ q.large_blocks = p.large_blocks /\ q.pagesize = p.pagesize
  <2> HIDE DEF p
  <2> QED
    BY <1>3, <1>6 DEF Pool
<1>8. Becomes(ch, q)
  BY <1>1 DEF ap
<1> HIDE DEF q
<1>9. pool'[ch] = q
  BY <1>7, <1>8, BecomesFacts, Types
<1>10. /\ PagesOf(q) = PageBlocks(ch) \cup {b}
       /\ UsedOf(q) = PageBlocks(ch) \cup {b}
  <2>1. /\ PagesOf(q) = { ap[i] : i \in DOMAIN ap }
        /\ UsedOf(q) = { ap[i] : i \in 1 .. n }
    BY <1>7 DEF PagesOf, UsedOf
  <2> QED
    BY <1>6, <2>1
<1>11. Used(ch) \subseteq UsedOf(q)
  BY <1>10, UsedArePages DEF IInv
<1>12. /\ pool' \in [Channel -> Pool] /\ pool'[ch] = q
       /\ \A d \in Channel : pool'[d].next_page <= Len(pool'[d].pages)
       /\ size' \in [Block -> Nat] /\ size'[b] = p.pagesize
       /\ Accounted' /\ HasPool(ch)'
       /\ \A d \in Channel : PageInv(d)'
       /\ \A x \in live : x.block # b /\ Placed(x)'
  <2>1. q.next_page <= Len(q.pages)
    BY <1>3, <1>6, <1>7
  <2>2. b \in UsedOf(q) \cup lost'[ch] /\ lost' \in [Channel -> SUBSET Block]
    BY <1>2, <1>10, Types
  <2>3. TakenUp(ch, b, p.pagesize, q) /\ CurrentPage(ch, b, p.pagesize, q)
    BY <1>2, <1>3, <1>7, <1>10, <2>2 DEF TakenUp, CurrentPage
  <2>4. TakesBlock(ch, b, p.pagesize, q)
    BY <1>1, <1>2, <1>3, <1>6, <1>7, <1>8, <1>11, <2>1, <2>2, <2>3 DEF TakesBlock
  <2> QED
    BY <1>3, <1>7, <2>4, NewBlock
<1>13. b \in Home(ch)'
  BY <1>9, <1>10 DEF Home, Used, UsedOf
<1>14. /\ Rounded(amount) <= size'[b] /\ lost' \in [Channel -> SUBSET Block]
       /\ pool'[ch].alloc_used = Rounded(amount)
  BY <1>2, <1>7, <1>12, Types
<1> QED
  BY <1>1, <1>12, <1>13, <1>14, NewBlockInv

LEMMA NotRecordedInv ==
  ASSUME IInv, NEW ch \in Channel, NEW amount \in Amounts, PageNotRecorded(ch, amount)
  PROVE  IInv'
<1> DEFINE p == pool[ch]
<1>1. PICK b \in Block : /\ calloc(b, p.pagesize)
                         /\ Becomes(ch, [p EXCEPT !.alloc_block = b])
                         /\ lost' = [lost EXCEPT ![ch] = lost[ch] \cup {b}]
  BY DEF PageNotRecorded
<1> DEFINE q == [p EXCEPT !.alloc_block = b]
<1>2. HasPool(ch) /\ UNCHANGED <<pool_table, live, allocs>>
  BY DEF PageNotRecorded, NeedsPage
<1>3. p \in Pool /\ p.pagesize \in Nat /\ p.pagesize # 0 /\ lost[ch] \subseteq Block
  BY Types
<1>4. /\ q \in Pool /\ q.alloc_block = b
      /\ q.pages = p.pages /\ q.pagesize = p.pagesize /\ q.next_page = p.next_page
      /\ q.large_blocks = p.large_blocks /\ q.alloc_used = p.alloc_used
  <2> HIDE DEF p
  <2> QED
    BY <1>3 DEF Pool
<1>5. Becomes(ch, q)
  BY <1>1
<1> HIDE DEF q
<1>6. pool'[ch] = q
  BY <1>4, <1>5, BecomesFacts, Types
<1>7. PagesOf(q) = PageBlocks(ch) /\ UsedOf(q) = Used(ch)
  BY <1>4 DEF PageBlocks, Used, PagesOf, UsedOf
<1>8. /\ \A i, j \in DOMAIN q.pages : q.pages[i] = q.pages[j] => i = j
      /\ q.alloc_used % 8 = 0 /\ q.alloc_used <= p.pagesize
  BY <1>4 DEF IInv, Accounted, PageInv
<1>9. /\ lost' \in [Channel -> SUBSET Block] /\ lost'[ch] = lost[ch] \cup {b}
      /\ \A d \in Channel \ {ch} : lost'[d] = lost[d]
  BY <1>1, <1>3, Types
<1>10. /\ pool' \in [Channel -> Pool] /\ pool'[ch] = q
       /\ \A d \in Channel : pool'[d].next_page <= Len(pool'[d].pages)
       /\ size' \in [Block -> Nat]
       /\ Accounted'
       /\ \A d \in Channel : PageInv(d)'
       /\ \A x \in live : x.block # b /\ Placed(x)'
  <2>1. q.next_page <= Len(q.pages) /\ b \in lost'[ch]
    BY <1>4, <1>9, Types
  <2>2. TakenUp(ch, b, p.pagesize, q)
    BY <1>4, <1>7, <1>9 DEF TakenUp
  <2>3. CurrentPage(ch, b, p.pagesize, q)
    BY <1>4, <1>8, <2>1 DEF CurrentPage
  <2>4. TakesBlock(ch, b, p.pagesize, q)
    BY <1>1, <1>2, <1>3, <1>4, <1>5, <1>7, <1>8, <1>9, <2>1, <2>2, <2>3 DEF TakesBlock
  <2> QED
    BY <1>3, <1>4, <2>4, NewBlock
<1>11. TypeOK' /\ Disjoint'
  BY <1>2, <1>9, <1>10 DEF IInv, TypeOK, Disjoint, Allocation
<1> QED
  BY <1>2, <1>10, <1>11 DEF IInv

LEMMA NoMemoryInv ==
  ASSUME IInv, NEW ch \in Channel, NEW amount \in Amounts, NoMemoryForPage(ch, amount)
  PROVE  IInv'
<1> DEFINE p == pool[ch]
           q == [p EXCEPT !.alloc_block = NULL]
<1>1. Becomes(ch, q) /\ UNCHANGED <<pool_table, size, lost, live, allocs>>
  BY DEF NoMemoryForPage
<1>2. p \in Pool
  BY Types
<1>3. /\ q \in Pool /\ q.alloc_block = NULL
      /\ q.pages = p.pages /\ q.pagesize = p.pagesize /\ q.next_page = p.next_page
      /\ q.large_blocks = p.large_blocks /\ q.alloc_used = p.alloc_used
  <2> HIDE DEF p
  <2> QED
    BY <1>2 DEF Pool
<1> HIDE DEF q
<1>4. /\ pool' \in [Channel -> Pool] /\ pool'[ch] = q
      /\ \A d \in Channel \ {ch} : pool'[d] = pool[d]
  BY <1>1, <1>3, BecomesFacts, Types
<1>5. ASSUME NEW d \in Channel
      PROVE  /\ pool'[d].pages = pool[d].pages
             /\ pool'[d].large_blocks = pool[d].large_blocks
             /\ pool'[d].pagesize = pool[d].pagesize
             /\ pool'[d].next_page = pool[d].next_page
             /\ pool'[d].alloc_used = pool[d].alloc_used
             /\ pool'[d].alloc_block \in {NULL, pool[d].alloc_block}
  <2>1. CASE d = ch
    BY <1>3, <1>4, <2>1
  <2>2. CASE d # ch
    BY <1>4, <2>2
  <2> QED
    BY <2>1, <2>2
<1>6. \A d \in Channel : /\ PageBlocks(d)' = PageBlocks(d) /\ Used(d)' = Used(d)
                         /\ Kept(d)' = Kept(d) /\ Home(d)' = Home(d)
                         /\ (HasPool(d)' <=> HasPool(d))
  BY <1>1, <1>5 DEF PageBlocks, Used, Kept, Home, HasPool
<1>7. TypeOK' /\ Disjoint'
  BY <1>1, <1>4, <1>5 DEF IInv, TypeOK, Disjoint, Allocation
<1>8. Accounted'
  BY <1>1, <1>5, SameAccounted
<1>9. ASSUME NEW d \in Channel PROVE PageInv(d)'
  <2>1. PageInv(d)
    BY DEF IInv
  <2> QED
    BY <1>1, <1>5, <1>6, <2>1 DEF PageInv
<1>10. ASSUME NEW x \in live PROVE Placed(x)'
  <2>1. x.channel \in Channel /\ x.block \in Block /\ x.block # NULL /\ Placed(x)
    BY LiveTypes, PoolAssumption DEF IInv, PoolAssumption
  <2>2. x.block = pool'[x.channel].alloc_block => x.block = pool[x.channel].alloc_block
    BY <1>5, <2>1
  <2> QED
    BY <1>1, <1>5, <1>6, <2>1, <2>2 DEF Placed
<1> QED
  BY <1>1, <1>7, <1>8, <1>9, <1>10 DEF IInv

-----------------------------------------------------------------------------
(* The actions that make and empty pools.                                  *)

LEMMA EmptyPool ==
  ASSUME NEW n \in Nat
  PROVE  /\ init_amqp_pool(n) \in Pool
         /\ init_amqp_pool(n).pages = << >> /\ init_amqp_pool(n).large_blocks = {}
         /\ init_amqp_pool(n).next_page = 0 /\ init_amqp_pool(n).alloc_block = NULL
         /\ init_amqp_pool(n).alloc_used = 0
         /\ init_amqp_pool(n).next_page <= Len(init_amqp_pool(n).pages)
         /\ DOMAIN init_amqp_pool(n).pages = {}
<1>1. << >> \in Seq(Block) /\ Len(<< >>) = 0 /\ DOMAIN << >> = {}
  BY EmptySeq
<1>2. (IF n = 0 THEN 4096 ELSE n) \in Nat \ {0}
  OBVIOUS
<1> QED
  BY <1>1, <1>2 DEF init_amqp_pool, Pool

(* What an empty pool satisfies. *)
LEMMA EmptyPoolInv ==
  ASSUME NEW d \in Channel, NEW n \in Nat, pool'[d] = init_amqp_pool(n)
  PROVE  /\ PageInv(d)' /\ Kept(d)' = {} /\ PageBlocks(d)' = {}
         /\ pool'[d].next_page <= Len(pool'[d].pages)
         /\ DOMAIN pool'[d].pages = {}
<1> DEFINE p == init_amqp_pool(n)
<1>1. /\ p \in Pool /\ p.large_blocks = {} /\ p.alloc_block = NULL /\ p.alloc_used = 0
      /\ p.next_page <= Len(p.pages) /\ DOMAIN p.pages = {}
  BY EmptyPool
<1> HIDE DEF p
<1>2. pool'[d] = p
  BY DEF p
<1>3. p.alloc_used % 8 = 0 /\ p.alloc_used <= p.pagesize
  <2>1. 0 % 8 = 0 /\ p.pagesize \in Nat
    BY <1>1 DEF Pool
  <2> QED
    BY <1>1, <2>1
<1>4. PageBlocks(d)' = {} /\ Kept(d)' = {}
  BY <1>1, <1>2 DEF PageBlocks, Kept
<1> QED
  BY <1>1, <1>2, <1>3, <1>4 DEF PageInv

LEMMA NewPool ==
  ASSUME IInv, NEW ch \in Channel, amqp_get_or_create_channel_pool(ch)
  PROVE  /\ pool_table' \in [0 .. POOL_TABLE_SIZE - 1 -> Seq(Channel)]
         /\ \A d \in Channel : HasPool(d) => HasPool(d)'
<1> DEFINE old == pool_table[Index(ch)]
           new == <<ch>> \o old
<1>1. /\ pool_table \in [0 .. POOL_TABLE_SIZE - 1 -> Seq(Channel)]
      /\ pool_table' = [pool_table EXCEPT ![Index(ch)] = new]
  BY DEF IInv, TypeOK, amqp_get_or_create_channel_pool
<1>2. \A d \in Channel : Index(d) \in 0 .. POOL_TABLE_SIZE - 1
  <2>1. \A d \in Nat : d % 16 \in 0 .. 16 - 1
    OBVIOUS
  <2> QED
    BY <2>1, PoolAssumption DEF PoolAssumption, Index, POOL_TABLE_SIZE
<1>3. old \in Seq(Channel)
  BY <1>1, <1>2
<1>4. new \in Seq(Channel)
  BY <1>3, ConcatProperties
<1>5. PICK n \in Nat : n = Len(old) /\ DOMAIN old = 1 .. n
  BY <1>3, LenProperties
<1>6. \A i \in DOMAIN old : i + 1 \in DOMAIN new /\ new[i + 1] = old[i]
  <2> HIDE DEF old
  <2>1. /\ <<ch>> \in Seq(Channel) /\ Len(<<ch>>) = 1
        /\ Len(new) = 1 + n /\ DOMAIN new = 1 .. 1 + n
    BY <1>3, <1>4, <1>5, ConcatProperties, LenProperties
  <2>2. ASSUME NEW i \in DOMAIN old PROVE i + 1 \in DOMAIN new /\ new[i + 1] = old[i]
    <3>1. i \in 1 .. n /\ i + 1 \in 1 .. 1 + n /\ i + 1 > 1 /\ (i + 1) - 1 = i
      BY <1>5, <2>2
    <3>2. new[i + 1] = old[(i + 1) - 1]
      BY <1>3, <1>5, <2>1, <3>1, ConcatProperties
    <3> QED
      BY <2>1, <3>1, <3>2
  <2> QED
    BY <2>2
<1> HIDE DEF old, new
<1>7. ASSUME NEW d \in Channel, HasPool(d) PROVE HasPool(d)'
  <2>1. PICK i \in DOMAIN pool_table[Index(d)] : pool_table[Index(d)][i] = d
    BY <1>7 DEF HasPool
  <2>2. CASE Index(d) = Index(ch)
    <3>1. pool_table'[Index(d)] = new /\ pool_table[Index(d)] = old
      BY <1>1, <1>2, <2>2 DEF old
    <3> QED
      BY <1>6, <2>1, <3>1 DEF HasPool
  <2>3. CASE Index(d) # Index(ch)
    <3>1. pool_table'[Index(d)] = pool_table[Index(d)]
      BY <1>1, <1>2, <2>3
    <3> QED
      BY <2>1, <3>1 DEF HasPool
  <2> QED
    BY <2>2, <2>3
<1> QED
  BY <1>1, <1>2, <1>4, <1>7

LEMMA NewPoolInv ==
  ASSUME IInv, NEW ch \in Channel, amqp_get_or_create_channel_pool(ch)
  PROVE  IInv'
<1>1. PICK n \in Nat : Becomes(ch, init_amqp_pool(n))
  BY PoolAssumption DEF amqp_get_or_create_channel_pool, PoolAssumption
<1>2. ~HasPool(ch) /\ UNCHANGED <<size, lost, live, allocs>>
  BY DEF amqp_get_or_create_channel_pool
<1>3. /\ pool' \in [Channel -> Pool] /\ pool'[ch] = init_amqp_pool(n)
      /\ \A d \in Channel \ {ch} : pool'[d] = pool[d]
  BY <1>1, EmptyPool, BecomesFacts, Types
<1>4. /\ PageInv(ch)' /\ Kept(ch)' = {} /\ PageBlocks(ch)' = {}
      /\ pool'[ch].next_page <= Len(pool'[ch].pages) /\ DOMAIN pool'[ch].pages = {}
  BY <1>3, EmptyPoolInv
<1>5. Kept(ch) = {}
  BY <1>2 DEF IInv, PageInv
<1>6. \A d \in Channel : HasPool(d) => HasPool(d)'
  BY NewPool
<1>7. \A d \in Channel : d # ch => /\ PageBlocks(d)' = PageBlocks(d) /\ Used(d)' = Used(d)
                                  /\ Kept(d)' = Kept(d) /\ Home(d)' = Home(d)
  BY <1>2, <1>3 DEF PageBlocks, Used, Kept, Home
<1>8. TypeOK'
  <2>1. \A d \in Channel : pool'[d].next_page <= Len(pool'[d].pages)
    BY <1>3, <1>4, Types
  <2> QED
    BY <1>2, <1>3, <2>1, NewPool DEF IInv, TypeOK, Allocation
<1>9. Accounted'
  <2>1. \A d \in Channel : Kept(d)' = Kept(d)
    BY <1>4, <1>5, <1>7
  <2>2. ASSUME NEW d \in Channel
        PROVE  /\ \A i, j \in DOMAIN pool'[d].pages : pool'[d].pages[i] = pool'[d].pages[j] => i = j
               /\ PageBlocks(d)' \cap pool'[d].large_blocks = {}
    BY <1>3, <1>4, <1>7 DEF IInv, Accounted
  <2> QED
    BY <1>2, <2>1, <2>2 DEF IInv, Accounted
<1>10. Disjoint'
  BY <1>2 DEF IInv, Disjoint
<1>11. ASSUME NEW d \in Channel PROVE PageInv(d)'
  <2>1. PageInv(d)
    BY DEF IInv
  <2>2. CASE d = ch
    BY <1>4, <2>2
  <2>3. CASE d # ch
    BY <1>2, <1>3, <1>6, <1>7, <2>1, <2>3 DEF PageInv
  <2> QED
    BY <2>2, <2>3
<1>12. ASSUME NEW x \in live PROVE Placed(x)'
  <2>1. x.channel \in Channel /\ Placed(x)
    BY LiveTypes DEF IInv
  <2>2. HasPool(x.channel) /\ x.channel # ch
    BY <1>2, <2>1 DEF Placed
  <2> QED
    BY <1>2, <1>3, <1>6, <1>7, <2>1, <2>2 DEF Placed
<1> QED
  BY <1>2, <1>8, <1>9, <1>10, <1>11, <1>12 DEF IInv

LEMMA RecycleInv ==
  ASSUME IInv, NEW ch \in Channel, recycle_amqp_pool(ch)
  PROVE  IInv'
<1> DEFINE p == pool[ch]
           q == [p EXCEPT !.large_blocks = {}, !.next_page = 0,
                          !.alloc_block = NULL, !.alloc_used = 0]
<1>1. /\ HasPool(ch) /\ Freed(p.large_blocks) /\ Becomes(ch, q)
      /\ live' = { a \in live : a.channel # ch }
      /\ UNCHANGED <<pool_table, lost, allocs>>
  BY DEF recycle_amqp_pool, Forgotten
<1>2. p \in Pool /\ p.pagesize \in Nat /\ Len(p.pages) \in Nat
  BY Types
<1>3. /\ q \in Pool /\ q.pages = p.pages /\ q.pagesize = p.pagesize
      /\ q.large_blocks = {} /\ q.next_page = 0 /\ q.alloc_block = NULL /\ q.alloc_used = 0
  <2> HIDE DEF p
  <2> QED
    BY <1>2 DEF Pool
<1> HIDE DEF q
<1>4. /\ pool' \in [Channel -> Pool] /\ pool'[ch] = q
      /\ \A d \in Channel \ {ch} : pool'[d] = pool[d]
  BY <1>1, <1>3, BecomesFacts, Types
<1>5. /\ size' \in [Block -> Nat]
      /\ \A x \in Block : size'[x] = IF x \in p.large_blocks THEN 0 ELSE size[x]
  BY <1>1, Types DEF Freed
<1>6. /\ \A d \in Channel : PageBlocks(d)' = PageBlocks(d)
      /\ \A d \in Channel : HasPool(d)' <=> HasPool(d)
      /\ \A d \in Channel : d # ch => Kept(d)' = Kept(d) /\ Used(d)' = Used(d) /\ Home(d)' = Home(d)
      /\ Kept(ch)' = PageBlocks(ch)
  <2>1. ASSUME NEW d \in Channel PROVE PageBlocks(d)' = PageBlocks(d)
    <3>1. pool'[d].pages = pool[d].pages
      BY <1>3, <1>4
    <3> QED
      BY <3>1 DEF PageBlocks
  <2>2. \A d \in Channel : d # ch => Kept(d)' = Kept(d) /\ Used(d)' = Used(d) /\ Home(d)' = Home(d)
    BY <1>1, <1>4 DEF PageBlocks, Kept, Used, Home
  <2>3. Kept(ch)' = PageBlocks(ch)
    BY <1>3, <1>4, <2>1 DEF Kept
  <2> QED
    BY <1>1, <2>1, <2>2, <2>3 DEF HasPool
<1>7. /\ \A d \in Channel : PageBlocks(d) \cap p.large_blocks = {}
      /\ \A d \in Channel : lost[d] \cap p.large_blocks = {}
      /\ \A d \in Channel : d # ch => Kept(d) \cap p.large_blocks = {}
  BY DEF IInv, Accounted, Kept
<1>8. TypeOK'
  <2>1. \A d \in Channel : pool'[d].next_page <= Len(pool'[d].pages)
    BY <1>2, <1>3, <1>4, Types
  <2> QED
    BY <1>1, <1>4, <1>5, <2>1 DEF IInv, TypeOK, Allocation
<1>9. Accounted'
  <2>1. ASSUME NEW d \in Channel
        PROVE  /\ \A i, j \in DOMAIN pool'[d].pages : pool'[d].pages[i] = pool'[d].pages[j] => i = j
               /\ PageBlocks(d)' \cap pool'[d].large_blocks = {}
               /\ Kept(d)' \cap lost'[d] = {}
    <3>1. /\ \A i, j \in DOMAIN pool[d].pages : pool[d].pages[i] = pool[d].pages[j] => i = j
          /\ PageBlocks(d) \cap pool[d].large_blocks = {} /\ Kept(d) \cap lost[d] = {}
      BY DEF IInv, Accounted
    <3>2. CASE d = ch
      BY <1>1, <1>3, <1>4, <1>6, <3>1, <3>2 DEF Kept
    <3>3. CASE d # ch
      BY <1>1, <1>4, <1>6, <3>1, <3>3
    <3> QED
      BY <3>2, <3>3
  <2>2. \A d \in Channel : Kept(d)' \subseteq Kept(d)
    BY <1>6 DEF Kept
  <2>3. \A c, d \in Channel :
          c # d => (Kept(c) \cup lost[c])' \cap (Kept(d) \cup lost[d])' = {}
    <3>1. \A c, d \in Channel : c # d => (Kept(c) \cup lost[c]) \cap (Kept(d) \cup lost[d]) = {}
      BY DEF IInv, Accounted
    <3> QED
      BY <1>1, <2>2, <3>1
  <2>4. ASSUME NEW x \in Block
        PROVE  size'[x] # 0 <=> \E d \in Channel : x \in (Kept(d) \cup lost[d])'
    <3>1. size[x] # 0 <=> \E d \in Channel : x \in Kept(d) \cup lost[d]
      BY DEF IInv, Accounted
    <3>2. CASE x \in p.large_blocks
      <4>1. size'[x] = 0
        BY <1>5, <3>2
      <4>2. \A d \in Channel : x \notin Kept(d)' /\ x \notin lost'[d]
        BY <1>1, <1>6, <1>7, <3>2
      <4> QED
        BY <4>1, <4>2
    <3>3. CASE x \notin p.large_blocks
      <4>1. size'[x] = size[x]
        BY <1>5, <3>3
      <4>2. \A d \in Channel : x \in Kept(d)' <=> x \in Kept(d)
        BY <1>6, <3>3 DEF Kept
      <4> QED
        BY <1>1, <3>1, <4>1, <4>2
    <3> QED
      BY <3>2, <3>3
  <2> QED
    BY <2>1, <2>3, <2>4 DEF Accounted
<1>10. Disjoint'
  BY <1>1 DEF IInv, Disjoint
<1>11. ASSUME NEW d \in Channel PROVE PageInv(d)'
  <2>1. PageInv(d) /\ PageBlocks(d) \subseteq Block /\ Used(d) \subseteq PageBlocks(d)
        /\ lost[d] \subseteq Block
    BY UsedArePages, Types DEF IInv
  <2>2. \A x \in PageBlocks(d) \cup lost[d] : size'[x] = size[x]
    BY <1>5, <1>7, <2>1
  <2>3. CASE d = ch
    <3>1. 0 % 8 = 0 /\ 0 <= p.pagesize
      BY <1>2
    <3> QED
      BY <1>1, <1>3, <1>4, <1>6, <2>1, <2>2, <2>3, <3>1 DEF PageInv
  <2>4. CASE d # ch
    BY <1>1, <1>4, <1>6, <2>1, <2>2, <2>4 DEF PageInv
  <2> QED
    BY <2>3, <2>4
<1>12. ASSUME NEW x \in live, x.channel # ch PROVE Placed(x)'
  <2>1. x.channel \in Channel /\ x.block \in Block /\ Placed(x)
    BY LiveTypes DEF IInv
  <2>2. x.block \in Kept(x.channel) \cup lost[x.channel]
    BY <2>1, UsedArePages DEF Placed, Home, Kept, IInv
  <2>3. size'[x.block] = size[x.block]
    BY <1>5, <1>7, <1>12, <2>1, <2>2
  <2> QED
    BY <1>4, <1>6, <1>12, <2>1, <2>3 DEF Placed
<1> QED
  BY <1>1, <1>8, <1>9, <1>10, <1>11, <1>12 DEF IInv

LEMMA DestroyInv ==
  ASSUME IInv, amqp_destroy_connection
  PROVE  IInv'
<1> DEFINE held == UNION { PageBlocks(ch) \cup pool[ch].large_blocks : ch \in Channel }
           empty == init_amqp_pool(0)
<1>1. /\ Freed(held) /\ live' = {} /\ UNCHANGED <<lost, allocs>>
      /\ pool_table' = [i \in 0 .. POOL_TABLE_SIZE - 1 |-> << >>]
      /\ pool' = [ch \in Channel |-> empty]
  BY DEF amqp_destroy_connection
<1>2. \A x : x \in held <=> \E d \in Channel : x \in Kept(d)
  BY DEF Kept
<1>3. empty \in Pool /\ \A d \in Channel : pool'[d] = empty
  BY <1>1, EmptyPool
<1> HIDE DEF held
<1>4. /\ size \in [Block -> Nat] /\ lost \in [Channel -> SUBSET Block] /\ allocs \in Nat
  BY DEF IInv, TypeOK
<1>5. /\ size' \in [Block -> Nat]
      /\ \A x \in Block : size'[x] = IF x \in held THEN 0 ELSE size[x]
  BY <1>1, <1>4 DEF Freed
<1>6. \A d \in Channel : /\ PageInv(d)' /\ Kept(d)' = {} /\ PageBlocks(d)' = {}
                         /\ pool'[d].next_page <= Len(pool'[d].pages)
                         /\ DOMAIN pool'[d].pages = {}
  BY <1>3, EmptyPoolInv
<1>7. TypeOK'
  <2>1. pool_table' \in [0 .. POOL_TABLE_SIZE - 1 -> Seq(Channel)]
    BY <1>1, EmptySeq
  <2>2. pool' \in [Channel -> Pool]
    <3> HIDE DEF empty
    <3> QED
      BY <1>1, <1>3
  <2> QED
    BY <1>1, <1>4, <1>5, <1>6, <2>1, <2>2 DEF TypeOK
<1>8. Accounted'
  <2>1. \A c, d \in Channel : c # d => lost[c] \cap lost[d] = {}
    BY DEF IInv, Accounted
  <2>2. ASSUME NEW x \in Block
        PROVE  size'[x] # 0 <=> \E d \in Channel : x \in lost[d]
    <3>1. size[x] # 0 <=> \E d \in Channel : x \in Kept(d) \cup lost[d]
      BY DEF IInv, Accounted
    <3>2. \A c, d \in Channel : x \in Kept(c) => x \notin lost[d]
      BY DEF IInv, Accounted
    <3> QED
      BY <1>2, <1>5, <3>1, <3>2
  <2> QED
    BY <1>1, <1>6, <2>1, <2>2 DEF Accounted
<1> QED
  BY <1>1, <1>6, <1>7, <1>8 DEF IInv, Disjoint

-----------------------------------------------------------------------------
(* The invariant and what it gives.                                        *)

LEMMA InitInv == Init => IInv
<1> SUFFICES ASSUME Init PROVE IInv
  OBVIOUS
<1> DEFINE empty == init_amqp_pool(0)
<1>1. /\ empty \in Pool /\ empty.pages = << >> /\ empty.large_blocks = {}
      /\ empty.next_page = 0 /\ empty.alloc_block = NULL /\ empty.alloc_used = 0
      /\ empty.next_page <= Len(empty.pages) /\ DOMAIN empty.pages = {}
  BY EmptyPool
<1>2. pool = [ch \in Channel |-> empty]
  BY DEF Init
<1> HIDE DEF empty
<1>3. \A d \in Channel : pool[d] = empty
  BY <1>2
<1>4. pool \in [Channel -> Pool]
  BY <1>1, <1>2
<1>5. \A d \in Channel : PageBlocks(d) = {} /\ Kept(d) = {}
  BY <1>1, <1>3 DEF PageBlocks, Kept
<1>6. TypeOK
  <2>1. pool_table \in [0 .. POOL_TABLE_SIZE - 1 -> Seq(Channel)]
    BY EmptySeq DEF Init
  <2> QED
    BY <1>1, <1>3, <1>4, <2>1 DEF Init, TypeOK
<1>7. Accounted
  BY <1>1, <1>3, <1>5 DEF Init, Accounted
<1>8. ASSUME NEW d \in Channel PROVE PageInv(d)
  <2>1. 0 % 8 = 0 /\ empty.pagesize \in Nat
    BY <1>1 DEF Pool
  <2> QED
    BY <1>1, <1>3, <1>5, <2>1 DEF PageInv
<1> QED
  BY <1>6, <1>7, <1>8 DEF IInv, Init, Disjoint

LEMMA NextInv == IInv /\ [Next]_vars => IInv'
<1> SUFFICES ASSUME IInv, [Next]_vars PROVE IInv'
  OBVIOUS
<1>1. ASSUME NEW ch \in Channel, amqp_get_or_create_channel_pool(ch) PROVE IInv'
  BY <1>1, NewPoolInv
<1>2. ASSUME NEW ch \in Channel, recycle_amqp_pool(ch) PROVE IInv'
  BY <1>2, RecycleInv
<1>3. ASSUME NEW ch \in Channel, NEW amount \in Amounts, amqp_pool_alloc(ch, amount)
      PROVE  IInv'
  <2>1. CASE AllocLarge(ch, amount)
    BY <2>1, LargeInv
  <2>2. CASE AllocInPage(ch, amount)
    BY <2>2, InPageInv
  <2>3. CASE AllocKeptPage(ch, amount)
    BY <2>3, KeptPageInv
  <2>4. CASE AllocNewPage(ch, amount)
    BY <2>4, NewPageInv
  <2>5. CASE NoMemoryForPage(ch, amount)
    BY <2>5, NoMemoryInv
  <2>6. CASE PageNotRecorded(ch, amount)
    BY <2>6, NotRecordedInv
  <2> QED
    BY <1>3, <2>1, <2>2, <2>3, <2>4, <2>5, <2>6 DEF amqp_pool_alloc
<1>4. CASE amqp_destroy_connection
  BY <1>4, DestroyInv
<1>5. CASE UNCHANGED vars
  <2>1. UNCHANGED <<pool_table, pool, size, lost, live, allocs>>
    BY <1>5 DEF vars
  <2>2. \A d \in Channel : /\ PageBlocks(d)' = PageBlocks(d) /\ Used(d)' = Used(d)
                           /\ Kept(d)' = Kept(d) /\ Home(d)' = Home(d)
                           /\ (HasPool(d)' <=> HasPool(d))
    BY <2>1 DEF PageBlocks, Used, Kept, Home, HasPool
  <2>3. TypeOK' /\ Disjoint'
    BY <2>1 DEF IInv, TypeOK, Allocation, Disjoint
  <2>4. Accounted'
    BY <2>1, SameAccounted
  <2>5. \A d \in Channel : PageInv(d)'
    BY <2>1, <2>2 DEF IInv, PageInv
  <2>6. ASSUME NEW x \in live PROVE Placed(x)'
    <3>1. x.channel \in Channel /\ Placed(x)
      BY LiveTypes DEF IInv
    <3> QED
      BY <2>1, <2>2, <3>1 DEF Placed
  <2> QED
    BY <2>1, <2>3, <2>4, <2>5, <2>6 DEF IInv
<1> QED
  BY <1>1, <1>2, <1>3, <1>4, <1>5 DEF Next

THEOREM Invariance == Spec => []IInv
BY InitInv, NextInv, PTL DEF Spec

(***************************************************************************)
(* Every variable has its type, and the next page to use is never past the *)
(* pages there are.                                                        *)
(***************************************************************************)
THEOREM TypeCorrect == Spec => []TypeOK
<1>1. IInv => TypeOK
  BY DEF IInv
<1> QED
  BY <1>1, Invariance, PTL

(***************************************************************************)
(* Two allocations handed out since the last recycling of their pools      *)
(* share no byte.                                                          *)
(***************************************************************************)
THEOREM AllocationsDisjoint == Spec => []Disjoint
<1>1. IInv => Disjoint
  BY DEF IInv
<1> QED
  BY <1>1, Invariance, PTL

(***************************************************************************)
(* An allocation is aligned, long enough and inside a block that is not    *)
(* freed before its own pool is recycled.                                  *)
(***************************************************************************)
THEOREM AllocationsStayInHeap == Spec => []AllocationsInHeap
<1>1. IInv => AllocationsInHeap
  BY DEF IInv, AllocationsInHeap, Placed
<1> QED
  BY <1>1, Invariance, PTL

(***************************************************************************)
(* Every block of the heap is held exactly once, and only pages that could *)
(* not be recorded are lost.                                               *)
(***************************************************************************)
THEOREM BlocksAccounted == Spec => []Accounted
<1>1. IInv => Accounted
  BY DEF IInv
<1> QED
  BY <1>1, Invariance, PTL
=============================================================================
