---------------------------- MODULE ChannelPools ----------------------------
(***************************************************************************)
(* The memory a connection decodes frames into: one pool per channel,      *)
(* found through a hash table, each pool a list of pages that are filled   *)
(* from the front, kept when the pool is recycled and filled again, and a  *)
(* list of large blocks of one allocation each.                            *)
(*                                                                         *)
(* calloc and the growing of the lists of blocks may fail at any time; a   *)
(* failure that leaves the state alone (no memory for a table entry or for *)
(* a large block, whose block is freed at once) is not a step.  When a     *)
(* pool may be recycled is the business of FrameList.                      *)
(***************************************************************************)
EXTENDS Integers, Sequences, FiniteSets

CONSTANTS
    Channel,    \* channel numbers
    Block,      \* the blocks of memory calloc can return
    PageSizes,  \* the values frame_max may have when a pool is made
    Amounts,    \* bytes asked for
    NULL,
    MaxAllocs   \* bound: allocations

POOL_TABLE_SIZE == 16

ASSUME PoolAssumption ==
    /\ Channel \subseteq Nat
    /\ PageSizes \subseteq Nat
    /\ Amounts \subseteq Nat \ {0}
    /\ NULL \notin Block

VARIABLES
    pool_table,  \* the channels that have an entry, by index, newest first
    pool,        \* the amqp_pool_t of each channel
    size,        \* the heap: the size of each block, 0 when it is free
    lost,        \* history: pages that could not be recorded, by channel
    live,        \* history: the allocations handed out since the last recycling
    allocs       \* number of allocations

vars == <<pool_table, pool, size, lost, live, allocs>>

init_amqp_pool(pagesize) ==
    [pagesize |-> IF pagesize = 0 THEN 4096 ELSE pagesize,
     pages |-> << >>, large_blocks |-> {},
     next_page |-> 0, alloc_block |-> NULL, alloc_used |-> 0]

Index(ch) == ch % POOL_TABLE_SIZE

(* Only the newest entry of each index is compared. *)
HasPoolAtHead(ch) == LET chain == pool_table[Index(ch)] IN chain # << >> /\ Head(chain) = ch

HasPool(ch) == \E i \in DOMAIN pool_table[Index(ch)] : pool_table[Index(ch)][i] = ch

Init == /\ pool_table = [i \in 0 .. POOL_TABLE_SIZE - 1 |-> << >>]
        /\ pool = [ch \in Channel |-> init_amqp_pool(0)]
        /\ size = [b \in Block |-> 0]
        /\ lost = [ch \in Channel |-> {}]
        /\ live = {}
        /\ allocs = 0

Becomes(ch, p) == pool' = [pool EXCEPT ![ch] = p]

amqp_get_or_create_channel_pool(ch) ==
    /\ ~HasPool(ch)
    /\ pool_table' = [pool_table EXCEPT ![Index(ch)] = <<ch>> \o @]
    /\ \E frame_max \in PageSizes : Becomes(ch, init_amqp_pool(frame_max))
    /\ UNCHANGED <<size, lost, live, allocs>>

-----------------------------------------------------------------------------
(* amqp_pool_alloc.                                                        *)

RoundedDown(amount) == (amount \div 8) * 8

Rounded(amount) == ((amount + 7) \div 8) * 8

calloc(b, bytes) == size[b] = 0 /\ size' = [size EXCEPT ![b] = bytes]

HandOut(ch, b, from, amount) ==
    /\ allocs < MaxAllocs
    /\ allocs' = allocs + 1
    /\ live' = live \cup {[id |-> allocs', channel |-> ch, block |-> b, from |-> from,
                           len |-> amount, to |-> from + Rounded(amount)]}
    /\ UNCHANGED pool_table

IsLarge(ch, amount) == Rounded(amount) > pool[ch].pagesize

AllocLarge(ch, amount) ==
    /\ HasPool(ch) /\ IsLarge(ch, amount)
    /\ \E b \in Block : /\ calloc(b, Rounded(amount))
                        /\ Becomes(ch, [pool[ch] EXCEPT !.large_blocks = @ \cup {b}])
                        /\ HandOut(ch, b, 0, amount)
    /\ UNCHANGED lost

FitsPage(ch, amount) ==
    /\ pool[ch].alloc_block # NULL
    /\ pool[ch].alloc_used + Rounded(amount) <= pool[ch].pagesize

AllocInPage(ch, amount) ==
    /\ HasPool(ch) /\ ~IsLarge(ch, amount) /\ FitsPage(ch, amount)
    /\ HandOut(ch, pool[ch].alloc_block, pool[ch].alloc_used, amount)
    /\ Becomes(ch, [pool[ch] EXCEPT !.alloc_used = @ + Rounded(amount)])
    /\ UNCHANGED <<size, lost>>

NeedsPage(ch, amount) == HasPool(ch) /\ ~IsLarge(ch, amount) /\ ~FitsPage(ch, amount)

HasKeptPage(ch) == pool[ch].next_page < Len(pool[ch].pages)

(* next_page stays at the page that has been taken. *)
AllocKeptPageAgain(ch, amount) ==
    /\ NeedsPage(ch, amount) /\ HasKeptPage(ch)
    /\ LET b == pool[ch].pages[pool[ch].next_page + 1] IN
         /\ Becomes(ch, [pool[ch] EXCEPT !.alloc_block = b, !.alloc_used = Rounded(amount)])
         /\ HandOut(ch, b, 0, amount)
    /\ UNCHANGED <<size, lost>>

AllocKeptPage(ch, amount) ==
    /\ NeedsPage(ch, amount) /\ HasKeptPage(ch)
    /\ LET b == pool[ch].pages[pool[ch].next_page + 1] IN
         /\ Becomes(ch, [pool[ch] EXCEPT !.alloc_block = b, !.alloc_used = Rounded(amount),
                                         !.next_page = @ + 1])
         /\ HandOut(ch, b, 0, amount)
    /\ UNCHANGED <<size, lost>>

(* next_page is counted up on its own, past the pages of a failed allocation. *)
AllocNewPageOneOn(ch, amount) ==
    /\ NeedsPage(ch, amount) /\ ~HasKeptPage(ch)
    /\ \E b \in Block :
         /\ calloc(b, pool[ch].pagesize)
         /\ Becomes(ch, [pool[ch] EXCEPT !.pages = Append(@, b), !.alloc_block = b,
                                         !.next_page = @ + 2,
                                         !.alloc_used = Rounded(amount)])
         /\ HandOut(ch, b, 0, amount)
    /\ UNCHANGED lost

AllocNewPage(ch, amount) ==
    /\ NeedsPage(ch, amount) /\ ~HasKeptPage(ch)
    /\ \E b \in Block :
         /\ calloc(b, pool[ch].pagesize)
         /\ Becomes(ch, [pool[ch] EXCEPT !.pages = Append(@, b), !.alloc_block = b,
                                         !.next_page = Len(pool[ch].pages) + 1,
                                         !.alloc_used = Rounded(amount)])
         /\ HandOut(ch, b, 0, amount)
    /\ UNCHANGED lost

NoMemoryForPage(ch, amount) ==
    /\ NeedsPage(ch, amount) /\ ~HasKeptPage(ch)
    /\ Becomes(ch, [pool[ch] EXCEPT !.alloc_block = NULL])
    /\ UNCHANGED <<pool_table, size, lost, live, allocs>>

(* The page stays the current one, alloc_used that of the page before it. *)
PageNotRecorded(ch, amount) ==
    /\ NeedsPage(ch, amount) /\ ~HasKeptPage(ch)
    /\ \E b \in Block :
         /\ calloc(b, pool[ch].pagesize)
         /\ Becomes(ch, [pool[ch] EXCEPT !.alloc_block = b])
         /\ lost' = [lost EXCEPT ![ch] = @ \cup {b}]
    /\ UNCHANGED <<pool_table, live, allocs>>

-----------------------------------------------------------------------------

Freed(blocks) == size' = [b \in Block |-> IF b \in blocks THEN 0 ELSE size[b]]

(* What the users of the pool had from it they may not touch any more. *)
Forgotten(channels) == live' = { a \in live : a.channel \notin channels }

recycle_amqp_pool(ch) ==
    /\ HasPool(ch)
    /\ Freed(pool[ch].large_blocks)
    /\ Becomes(ch, [pool[ch] EXCEPT !.large_blocks = {}, !.next_page = 0,
                                    !.alloc_block = NULL, !.alloc_used = 0])
    /\ Forgotten({ch})
    /\ UNCHANGED <<pool_table, lost, allocs>>

PageBlocks(ch) == { pool[ch].pages[i] : i \in DOMAIN pool[ch].pages }

(* empty_amqp_pool for every entry of the table; the next connection starts anew. *)
amqp_destroy_connection ==
    /\ Freed(UNION { PageBlocks(ch) \cup pool[ch].large_blocks : ch \in Channel })
    /\ pool_table' = [i \in 0 .. POOL_TABLE_SIZE - 1 |-> << >>]
    /\ pool' = [ch \in Channel |-> init_amqp_pool(0)]
    /\ live' = {}
    /\ UNCHANGED <<lost, allocs>>

amqp_pool_alloc(ch, amount) ==
    \/ AllocLarge(ch, amount) \/ AllocInPage(ch, amount) \/ AllocKeptPage(ch, amount)
    \/ AllocNewPage(ch, amount) \/ NoMemoryForPage(ch, amount) \/ PageNotRecorded(ch, amount)

Next == \/ \E ch \in Channel : \/ amqp_get_or_create_channel_pool(ch)
                               \/ recycle_amqp_pool(ch)
                               \/ \E amount \in Amounts : amqp_pool_alloc(ch, amount)
        \/ amqp_destroy_connection

Spec == Init /\ [][Next]_vars

-----------------------------------------------------------------------------
(***************************************************************************)
(* Every variable has its type.                                            *)
(***************************************************************************)
Pool == [pagesize : Nat \ {0}, pages : Seq(Block), large_blocks : SUBSET Block,
         next_page : Nat, alloc_block : Block \cup {NULL}, alloc_used : Nat]

Allocation == [id : 1 .. allocs, channel : Channel, block : Block,
               from : Nat, len : Amounts, to : Nat]

TypeOK == /\ pool_table \in [0 .. POOL_TABLE_SIZE - 1 -> Seq(Channel)]
          /\ pool \in [Channel -> Pool]
          /\ \A ch \in Channel : pool[ch].next_page <= Len(pool[ch].pages)
          /\ size \in [Block -> Nat]
          /\ lost \in [Channel -> SUBSET Block]
          /\ live \subseteq Allocation
          /\ allocs \in Nat

(***************************************************************************)
(* Two allocations handed out since the last recycling of their pools      *)
(* share no byte, of one channel or of two, whatever failed in between:    *)
(* a queued frame and its link, decoded properties and half-read buffers   *)
(* do not overwrite each other.                                            *)
(***************************************************************************)
Disjoint == \A a, b \in live :
    a.id # b.id => a.block # b.block \/ a.to <= b.from \/ b.to <= a.from

(***************************************************************************)
(* An allocation has the bytes it was asked for, on an 8-byte boundary and *)
(* inside a block that is not freed before its channel's pool is recycled, *)
(* whatever happens to other channels' pools.                              *)
(***************************************************************************)
AllocationsInHeap == \A a \in live : /\ a.from % 8 = 0
                                     /\ a.from + a.len <= a.to
                                     /\ a.to <= size[a.block]

(* The blocks a channel's pool holds. *)
Kept(ch) == PageBlocks(ch) \cup pool[ch].large_blocks

(***************************************************************************)
(* Every block of the heap is held by one list of one pool, and what is    *)
(* held is in the heap: nothing is freed twice or while another channel    *)
(* uses it, and nothing is lost but the pages that could not be recorded.  *)
(***************************************************************************)
Accounted ==
    /\ \A ch \in Channel :
         /\ \A i, j \in DOMAIN pool[ch].pages : pool[ch].pages[i] = pool[ch].pages[j] => i = j
         /\ PageBlocks(ch) \cap pool[ch].large_blocks = {}
         /\ Kept(ch) \cap lost[ch] = {}
    /\ \A c, d \in Channel : c # d => (Kept(c) \cup lost[c]) \cap (Kept(d) \cup lost[d]) = {}
    /\ \A b \in Block : size[b] # 0 <=> \E ch \in Channel : b \in Kept(ch) \cup lost[ch]
=============================================================================
