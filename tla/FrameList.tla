----------------------------- MODULE FrameList ------------------------------
(***************************************************************************)
(* The linked list of queued frames of a connection and the channel pools  *)
(* its links live in.  A link (with the frame copy it points to) is        *)
(* allocated from the pool of the frame's channel; taking a frame off the  *)
(* list frees nothing; recycling a pool frees all its cells at once and is *)
(* only right when no frame of that channel is on the list and the parser  *)
(* holds no half-read frame.                                               *)
(*                                                                         *)
(* Loops over the list are taken one link per step: scan says which call   *)
(* is walking the list and how far it has come.  One thread uses the       *)
(* connection, so nothing else happens before the walk ends.               *)
(***************************************************************************)
EXTENDS Naturals, Sequences

CONSTANTS
    Cell,       \* memory cells the pools can hand out
    Channel,
    Frame,      \* records with a field channel
    NULL,
    Released    \* the owner of a cell that no pool has handed out

ASSUME ListAssumption == /\ NULL \notin Cell
                         /\ NULL \notin Frame
                         /\ NULL \notin Channel
                         /\ Released \notin Channel
                         /\ \A f \in Frame : f.channel \in Channel

VARIABLES
    first_queued_frame, last_queued_frame,
    next, data,         \* the fields of amqp_link_t, per cell
    owner,              \* the channel whose pool has handed out a cell
    idle,               \* state->state == CONNECTION_STATE_IDLE
    inbound,            \* the pool cell of a half-read frame, or NULL
    scan,               \* the walk in progress
    returned,           \* the last frame handed to the caller
    chain               \* history: the cells of the list, in order

vars == <<first_queued_frame, last_queued_frame, next, data, owner, idle,
          inbound, scan, returned, chain>>

list == <<first_queued_frame, last_queued_frame, next, data, chain>>

(***************************************************************************)
(* The walk of no call, of amqp_simple_wait_frame_on_channel(channel), or  *)
(* of amqp_maybe_release_buffers_on_channel(channel) with the channels     *)
(* amqp_release_buffers still has to visit.                                *)
(***************************************************************************)
NoScan == [op |-> "none", channel |-> NULL, cursor |-> NULL, rest |-> {}]

WaitScan(ch) == [op |-> "wait", channel |-> ch,
                 cursor |-> first_queued_frame, rest |-> {}]

ReleaseScan(ch, others) == [op |-> "release", channel |-> ch,
                            cursor |-> first_queued_frame, rest |-> others]

Init == /\ first_queued_frame = NULL
        /\ last_queued_frame = NULL
        /\ next = [c \in Cell |-> NULL]
        /\ data = [c \in Cell |-> NULL]
        /\ owner = [c \in Cell |-> Released]
        /\ idle = TRUE
        /\ inbound = NULL
        /\ scan = NoScan
        /\ returned = NULL
        /\ chain = << >>

(* A cell fresh from the pool of the frame's channel, the frame in it. *)
amqp_create_link_for_frame(c, f) ==
    /\ scan.op = "none"
    /\ owner[c] = Released
    /\ owner' = [owner EXCEPT ![c] = f.channel]
    /\ data' = [data EXCEPT ![c] = f]

(***************************************************************************)
(* The append of amqp_try_recv and of simple_rpc_inner, which looks at the *)
(* last pointer.  The frame has just been completed: the parser is idle.   *)
(***************************************************************************)
AppendAtLast(c, f) ==
    /\ idle
    /\ amqp_create_link_for_frame(c, f)
    /\ IF last_queued_frame = NULL
         THEN /\ first_queued_frame' = c
              /\ next' = [next EXCEPT ![c] = NULL]
         ELSE /\ next' = [next EXCEPT ![c] = NULL, ![last_queued_frame] = c]
              /\ UNCHANGED first_queued_frame
    /\ last_queued_frame' = c
    /\ chain' = Append(chain, c)
    /\ UNCHANGED <<idle, inbound, scan, returned>>

(* amqp_queue_frame looks at the first pointer instead. *)
amqp_queue_frame(c, f) ==
    /\ idle
    /\ amqp_create_link_for_frame(c, f)
    /\ IF first_queued_frame = NULL
         THEN /\ first_queued_frame' = c
              /\ next' = [next EXCEPT ![c] = NULL]
         ELSE /\ next' = [next EXCEPT ![c] = NULL, ![last_queued_frame] = c]
              /\ UNCHANGED first_queued_frame
    /\ last_queued_frame' = c
    /\ chain' = Append(chain, c)
    /\ UNCHANGED <<idle, inbound, scan, returned>>

amqp_put_back_frame(c, f) ==
    /\ amqp_create_link_for_frame(c, f)
    /\ first_queued_frame' = c
    /\ next' = [next EXCEPT ![c] = first_queued_frame]
    /\ last_queued_frame' = IF first_queued_frame = NULL THEN c
                                                         ELSE last_queued_frame
    /\ chain' = << c >> \o chain
    /\ UNCHANGED <<idle, inbound, scan, returned>>

(* Unlinks the first frame but forgets the pointer to the last one. *)
TakeFirstKeepsLast ==
    /\ scan.op = "none"
    /\ first_queued_frame # NULL
    /\ returned' = data[first_queued_frame]
    /\ first_queued_frame' = next[first_queued_frame]
    /\ chain' = Tail(chain)
    /\ UNCHANGED <<last_queued_frame, next, data, owner, idle, inbound, scan>>

(* amqp_simple_wait_frame_noblock when frames are queued. *)
TakeFirst ==
    /\ scan.op = "none"
    /\ first_queued_frame # NULL
    /\ returned' = data[first_queued_frame]
    /\ first_queued_frame' = next[first_queued_frame]
    /\ last_queued_frame' = IF next[first_queued_frame] = NULL
                              THEN NULL ELSE last_queued_frame
    /\ chain' = Tail(chain)
    /\ UNCHANGED <<next, data, owner, idle, inbound, scan>>

-----------------------------------------------------------------------------
(* The walks.                                                              *)

StartWait(ch) ==
    /\ scan.op = "none"
    /\ scan' = WaitScan(ch)
    /\ UNCHANGED <<list, owner, idle, inbound, returned>>

(* Passes by frames of the channel it looks for as well. *)
ScanOnAny ==
    /\ scan.op # "none"
    /\ scan.cursor # NULL
    /\ scan' = [scan EXCEPT !.cursor = next[scan.cursor]]
    /\ UNCHANGED <<list, owner, idle, inbound, returned>>

(* Follows the first link again and again. *)
ScanOnStuck ==
    /\ scan.op # "none"
    /\ scan.cursor # NULL
    /\ data[scan.cursor].channel # scan.channel
    /\ scan' = [scan EXCEPT !.cursor = next[first_queued_frame]]
    /\ UNCHANGED <<list, owner, idle, inbound, returned>>

(* A link of another channel is passed by, on either walk. *)
ScanOn ==
    /\ scan.op # "none"
    /\ scan.cursor # NULL
    /\ data[scan.cursor].channel # scan.channel
    /\ scan' = [scan EXCEPT !.cursor = next[scan.cursor]]
    /\ UNCHANGED <<list, owner, idle, inbound, returned>>

(* The list ends before the cursor, not behind it. *)
TakeScannedAndRest ==
    /\ scan.op = "wait"
    /\ scan.cursor # NULL
    /\ data[scan.cursor].channel = scan.channel
    /\ returned' = data[scan.cursor]
    /\ first_queued_frame' = NULL
    /\ last_queued_frame' = NULL
    /\ chain' = << >>
    /\ scan' = NoScan
    /\ UNCHANGED <<next, data, owner, idle, inbound>>

(* The list goes on behind the frame found: first = cur->next. *)
TakeScanned ==
    /\ scan.op = "wait"
    /\ scan.cursor # NULL
    /\ data[scan.cursor].channel = scan.channel
    /\ returned' = data[scan.cursor]
    /\ first_queued_frame' = next[scan.cursor]
    /\ last_queued_frame' = IF next[scan.cursor] = NULL THEN NULL
                                                        ELSE last_queued_frame
    /\ \E k \in DOMAIN chain : /\ chain[k] = scan.cursor
                               /\ chain' = SubSeq(chain, k + 1, Len(chain))
    /\ scan' = NoScan
    /\ UNCHANGED <<next, data, owner, idle, inbound>>

(* No queued frame on the channel: the call goes on to wait_frame_inner. *)
WaitEnds ==
    /\ scan.op = "wait"
    /\ scan.cursor = NULL
    /\ scan' = NoScan
    /\ UNCHANGED <<list, owner, idle, inbound, returned>>

(* A release that does not look at the parser first. *)
StartReleaseBusy(ch) ==
    /\ scan.op = "none"
    /\ scan' = ReleaseScan(ch, {})
    /\ UNCHANGED <<list, owner, idle, inbound, returned>>

(* amqp_maybe_release_buffers_on_channel; a no-op while a frame is half read. *)
StartRelease(ch) ==
    /\ scan.op = "none"
    /\ idle
    /\ scan' = ReleaseScan(ch, {})
    /\ UNCHANGED <<list, owner, idle, inbound, returned>>

(* amqp_release_buffers and amqp_maybe_release_buffers visit every pool. *)
amqp_release_buffers ==
    /\ scan.op = "none"
    /\ idle
    /\ \E ch \in Channel : scan' = ReleaseScan(ch, Channel \ {ch})
    /\ UNCHANGED <<list, owner, idle, inbound, returned>>

NextPool ==
    IF scan.rest = {}
      THEN scan' = NoScan
      ELSE \E ch \in scan.rest : scan' = ReleaseScan(ch, scan.rest \ {ch})

(* A queued frame of the channel: its pool stays. *)
ReleaseRefused ==
    /\ scan.op = "release"
    /\ scan.cursor # NULL
    /\ data[scan.cursor].channel = scan.channel
    /\ NextPool
    /\ UNCHANGED <<list, owner, idle, inbound, returned>>

recycle_amqp_pool ==
    /\ scan.op = "release"
    /\ scan.cursor = NULL
    /\ owner' = [c \in Cell |-> IF owner[c] = scan.channel THEN Released ELSE owner[c]]
    /\ NextPool
    /\ UNCHANGED <<list, idle, inbound, returned>>

-----------------------------------------------------------------------------
(***************************************************************************)
(* The parser (FrameParser): a chunk ends in a frame header, or in a frame *)
(* whose buffer has come from the pool of its channel; later the frame is  *)
(* complete and inbound_buffer is header_buffer again.                     *)
(***************************************************************************)
BeginHeader ==
    /\ scan.op = "none"
    /\ idle
    /\ idle' = FALSE
    /\ UNCHANGED <<list, owner, inbound, scan, returned>>

BeginBody(c, ch) ==
    /\ scan.op = "none"
    /\ inbound = NULL
    /\ owner[c] = Released
    /\ owner' = [owner EXCEPT ![c] = ch]
    /\ inbound' = c
    /\ idle' = FALSE
    /\ UNCHANGED <<list, scan, returned>>

CompleteFrame ==
    /\ scan.op = "none"
    /\ inbound # NULL
    /\ inbound' = NULL
    /\ idle' = TRUE
    /\ UNCHANGED <<list, owner, scan, returned>>

Next == \/ \E c \in Cell, f \in Frame : \/ AppendAtLast(c, f)
                                        \/ amqp_queue_frame(c, f)
                                        \/ amqp_put_back_frame(c, f)
        \/ TakeFirst
        \/ \E ch \in Channel : StartWait(ch) \/ StartRelease(ch)
        \/ ScanOn
        \/ TakeScanned
        \/ WaitEnds
        \/ amqp_release_buffers
        \/ ReleaseRefused
        \/ recycle_amqp_pool
        \/ BeginHeader
        \/ \E c \in Cell, ch \in Channel : BeginBody(c, ch)
        \/ CompleteFrame

Spec == Init /\ [][Next]_vars

(* Every walk over the list goes on until it ends. *)
FairSpec == Spec /\ WF_vars(ScanOn \/ TakeScanned \/ WaitEnds
                            \/ ReleaseRefused \/ recycle_amqp_pool)

-----------------------------------------------------------------------------
(***************************************************************************)
(* Every variable has its type.                                            *)
(***************************************************************************)
ScanType == [op : {"none", "wait", "release"}, channel : Channel \cup {NULL},
             cursor : Cell \cup {NULL}, rest : SUBSET Channel]

TypeOK == /\ first_queued_frame \in Cell \cup {NULL}
          /\ last_queued_frame \in Cell \cup {NULL}
          /\ next \in [Cell -> Cell \cup {NULL}]
          /\ data \in [Cell -> Frame \cup {NULL}]
          /\ owner \in [Cell -> Channel \cup {Released}]
          /\ idle \in BOOLEAN
          /\ inbound \in Cell \cup {NULL}
          /\ scan \in ScanType
          /\ returned \in Frame \cup {NULL}
          /\ chain \in Seq(Cell)

(***************************************************************************)
(* Whatever mixture of the two kinds of append, of put-backs and of the    *)
(* two kinds of removal has run, the pointers describe one list without    *)
(* loops, and first is NULL exactly when last is: the two appends, which   *)
(* look at different pointers, always agree on whether the list is empty.  *)
(***************************************************************************)
ListWellFormed ==
    /\ first_queued_frame = IF chain = << >> THEN NULL ELSE chain[1]
    /\ last_queued_frame = IF chain = << >> THEN NULL ELSE chain[Len(chain)]
    /\ \A i \in DOMAIN chain :
          next[chain[i]] = IF i = Len(chain) THEN NULL ELSE chain[i + 1]
    /\ \A i, j \in DOMAIN chain : chain[i] = chain[j] => i = j

(***************************************************************************)
(* No pool is recycled under the list: every queued frame still lies in    *)
(* memory that its own channel's pool has handed out.                      *)
(***************************************************************************)
QueuedFramesLive ==
    \A i \in DOMAIN chain : /\ data[chain[i]] \in Frame
                            /\ owner[chain[i]] = data[chain[i]].channel

(***************************************************************************)
(* No pool is recycled under the parser: the buffer of a half-read frame   *)
(* is never handed out a second time.                                      *)
(***************************************************************************)
InboundLive == inbound # NULL => owner[inbound] # Released

(***************************************************************************)
(* The pointers implement the abstract frame queue.                        *)
(***************************************************************************)
Queued == [i \in 1 .. Len(chain) |-> data[chain[i]]]

Abstract == INSTANCE FrameQueue WITH q <- Queued

QueueSpec == Abstract!Spec

(***************************************************************************)
(* A walk over the list ends: the links never form a loop under it.        *)
(***************************************************************************)
WalkEnds == (scan.op # "none") ~> (scan.op = "none")

(***************************************************************************)
(* "We store the frame for later processing" (amqp_socket.c:1067): a       *)
(* queued frame leaves the queue only when it is handed to the caller.     *)
(* amqp_simple_wait_frame_on_channel drops the frames of other channels    *)
(* in front of the one it takes.                                           *)
(***************************************************************************)
QueuedUntilReturned ==
    [][\A i \in DOMAIN chain :
          \/ \E j \in DOMAIN chain' : chain'[j] = chain[i]
          \/ returned' = data[chain[i]]]_vars
=============================================================================
