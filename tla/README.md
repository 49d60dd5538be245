# A verification project for WateRMQ

WateRMQ carries messages from a RabbitMQ broker to a C++ program in two halves:
a backend process in C, which reads from the broker through a copy of
rabbitmq-c 0.11.0, and a frontend in C++, which reads a queue in shared memory.
This directory holds TLA+ models of the parts that decide whether a message
arrives once, whole and in order, the TLC configurations that check them, and
TLAPS proofs about most of them.

Paths below are relative to the repository; `L/` stands for
`BackendC/librabbitmq/librabbitmq/`, `W/` for `BackendC/librabbitmq/watermq/`,
`F/` for `FrontendCPP/`.

## 1. Inventory

| part | state it keeps | operations | what is hard | what makes it correct |
|---|---|---|---|---|
| **Frame parser** `L/amqp_connection.c` | `state`, `inbound_buffer`, `inbound_offset`, `target_size`, the unread part of `sock_inbound_buffer` | `amqp_handle_input`, `consume_data`, `return_to_idle` | frames cut at any byte; two buffers; a size taken from the stream | stays in step, writes inside its buffer, hands over whole frames, finishes what it began |
| **Queued frames and release of memory** `L/amqp_socket.c`, `L/amqp_connection.c` | `first_queued_frame`, `last_queued_frame`, the links, which pool a link lives in | `amqp_queue_frame`, `amqp_put_back_frame`, `amqp_simple_wait_frame_noblock`, `amqp_simple_wait_frame_on_channel`, `amqp_release_buffers*`, `amqp_maybe_release_buffers*` | two pointers tested in different places; memory freed by the pool and not by the link | one loop-free list; no pool recycled under a queued or half-read frame |
| **Pool allocator** `L/amqp_mem.c` | the table of channel pools, pages, large blocks, `next_page`, `alloc_block`, `alloc_used` | `amqp_get_or_create_channel_pool`, `amqp_pool_alloc`, `recycle_amqp_pool`, `empty_amqp_pool` | failures half-way; pages kept and used again | allocations do not overlap, stay in the heap, blocks are held once |
| **Timed I/O and heartbeats** `L/amqp_socket.c` | `next_send_heartbeat`, `next_recv_heartbeat`, the deadlines of a call | `wait_frame_inner`, `recv_with_timeout`, `amqp_try_recv`, `amqp_send_frame_inner` | three timers behind one poll; a send that reads, also the heartbeat of a wait | dead peers are noticed, live ones are not declared dead, timeouts are kept |
| **Client calls** `L/amqp_socket.c`, `L/amqp_consumer.c`, `L/amqp_api.c` | the frame just taken, the message being put together | `simple_rpc_inner`, `amqp_simple_wait_method`, `amqp_consume_message`, `amqp_read_message` | channels mixed on one wire; frames queued by one call and read by another; closes | whole messages in order; a reply answers its request; calls end |
| **OpenSSL library state** `L/amqp_openssl.c` | five process-wide variables under a mutex | `amqp_initialize_ssl_library`, `amqp_uninitialize_ssl_library`, `amqp_ssl_socket_new`, `_delete` | threads; failure between two critical sections | the library stays while a socket uses it; the count is exact |
| **Publishing** `L/amqp_api.c` | the outbound buffer | `amqp_basic_publish`, `amqp_send_frame_inner` | a body of an exact multiple of the frame size; a failure half-way | the fragments add up to the body, none is empty or too long |
| **Connecting** `L/amqp_socket.c`, `L/amqp_tcp_socket.c`, `L/amqp_openssl.c` | a socket, its SSL object, a deadline | `amqp_open_socket_inner`, `connect_socket`, `amqp_poll`, `amqp_ssl_socket_open` | several addresses, one deadline; signals; an error at every step | no descriptor is lost; the deadline is kept; a wrong certificate is refused |
| **Login and tuning** `L/amqp_socket.c`, `L/amqp_connection.c` | `channel_max`, `frame_max`, `heartbeat`, the properties of both sides | `amqp_login_inner`, `amqp_tune_connection`, `amqp_merge_capabilities` | a protocol of seven messages, each of which may fail, be late or be answered by a close | both sides end with the same limits; the socket is closed on error; the call ends |
| **Time** `L/amqp_time.c` | none | `amqp_time_from_now`, `amqp_time_s_from_now`, `amqp_time_ms_until`, `amqp_time_tv_until` | 64-bit arithmetic, and its result in an int | never an earlier deadline than asked for, never a sleep beyond it |
| **Tables** `L/amqp_table.c` | none | encoding, decoding, cloning, lookup | nesting; sizes filled in afterwards | decoding inverts encoding |
| **Method framing** `L/amqp_framing.c`, `L/amqp_framing.h` | none | an encoder and a decoder for each of 64 methods and of the properties, and a call for most | a field in the wrong place or of the wrong width shows only against a peer that has it right | both sides read what was written; a frame fits its buffer; a call waits for answers that come |
| **URLs, host names** `L/amqp_url.c`, `L/amqp_hostcheck.c`, `L/amqp_openssl_hostname_validation.c` | none | pure functions | percent-encodings, optional parts; wildcards | the grammar of `amqp.h`; RFC 6125 |
| **Backend queue** `W/BackLibWaterRMQ.c` | `items`, `front`, `rear` | `enqueue`, `dequeue`, `peek` | indices that never wrap; `malloc` failing | a FIFO with no hole |
| **Backend program** `W/BackLibWaterRMQ.c` | configuration, the semaphore, a private mapping | options, login, the consumer loop | does not compile as it stands | every message taken is passed on |
| **Frontend queue** `F/WateRMQ.cpp`, `F/SemaphoreCPP.cpp` | `items`, `front`, `rear`, `count` in shared memory, a named semaphore, the object's pointers | `start`, `consumingMessage`, `destroy`, constructor and destructor | two threads, a producer in another process, kills and restarts | each message once and in order; `count` is what is there |
| **Frontend program** `F/WateRMQCPP.cpp` | arguments | a loop without end | - | - |
| **Tools, examples, sketches, tests** | - | programs around single calls | - | - |

How they interact: the application makes one call at a time on a connection.
A call takes frames from the queued frames first and then from the parser; the
parser takes bytes from `recv_with_timeout`; both put what they build into the
pool of the frame's channel. A connection comes from `amqp_socket_open` and is
agreed on by `amqp_login`, whose messages are frames like any other, encoded
into the buffer whose length the login itself changes. A call that must wait for a particular frame
queues the others. Timers are renewed by the bytes and frames that pass. TLS
sockets of different threads share only the state of `OpensslInit`. The backend
and the frontend were meant to share a queue, and in this commit do not: the
backend maps a file `queue.bridge` privately, the frontend opens the
shared-memory object `watemq_shm`, and nothing in the repository writes to it.

## 2. Modules

| module | models | extends / instantiates |
|---|---|---|
| `FifoQueue` | abstract: a first-in first-out queue with a budget of insertions | - |
| `BackendQueue` | the array queue of the backend | refines `FifoQueue` |
| `BackendQueueProofs` | proofs | `BackendQueue` |
| `FrameParser` | `amqp_handle_input` under `recv_with_timeout`, called by a wait or behind a blocked send | - |
| `FrameParserProofs` | proofs | `FrameParser` |
| `FrameQueue` | abstract: what the list of queued frames offers to the calls | - |
| `FrameList` | the linked list, the walks over it, the pools' release | refines `FrameQueue` |
| `FrameListProofs` | proofs | `FrameList` |
| `ChannelPools` | `amqp_mem.c` | - |
| `ChannelPoolsProofs` | proofs | `ChannelPools` |
| `Heartbeat` | waits, sends and timers against a clock | - |
| `HeartbeatProofs` | proofs | `Heartbeat` |
| `OpensslInit` | the process-wide state behind TLS sockets | - |
| `SharedQueue` | the frontend's queue, semaphore, restarts | - |
| `SharedQueueProofs` | proofs | `SharedQueue` |
| `AmqpClient` | the calls of the library over queued frames and wire | composes with `FrameQueue` |
| `AmqpClientProofs` | proofs | `AmqpClient` |
| `Wire` | integers and strings of bytes in a bounded buffer (`L/amqp_private.h`) | - |
| `TableCodec` | `L/amqp_table.c`, `amqp_merge_capabilities` | `Wire` |
| `MethodLayouts` | the fields of each method: structure, decoder, encoder, call | - |
| `FrameCodec` | `amqp_encode_method`, `amqp_decode_method`, properties, whole frames | `TableCodec`, `MethodLayouts` |
| `Conversation` | the control of an open connection: calls and their answers, publishes frame by frame, deliveries | `Wire`, `MethodLayouts`, `Tuning` |
| `Exchange` | the same with its frames in bytes | `FrameCodec`, `Conversation` |
| `MonotonicTime` | `L/amqp_time.c` | - |
| `AmqpUrl` | `L/amqp_url.c`, with the grammar it is held against | - |
| `HostCheck` | host names and certificates, with RFC 6125 as the reference | - |
| `SocketOpening` | from a URL to a connected TCP or TLS socket | `MonotonicTime`, `AmqpUrl`, `HostCheck` |
| `Tuning` | the arithmetic of the limits | - |
| `Handshake` | the control of a session: what a login sends, waits for, closes and agrees on | `SocketOpening`, `Tuning` |
| `Session` | the life of a connection, with the contents of its messages | `Handshake`, `Exchange`; refines `HandshakeSpec` and `ConversationSpec` |
| `SessionProofs` | proofs | `Handshake`, `OpensslInit`, `Conversation` |

The modules meet at abstract interfaces. `AmqpClient` works on the `FrameQueue`
that `FrameList` is checked to implement, so the pointer structure is argued
about once. `FrameList` takes "a pool's memory is gone when it is recycled" for
granted, `ChannelPools` shows that it is gone exactly then, and not before
because of another channel. `FrameParser` hands over whole frames, which is what
`AmqpClient` receives. `Heartbeat` knows of frames only that they arrive whole, in
parts, or not at all. `Session` composes the rest in one state space: what
`SocketOpening` opens, its login agrees on, and `Exchange` uses the
`frame_max` that came out of it. Its control alone is `Handshake`, in which a message of the login is a
kind and an outcome, and `Conversation`, in which a frame encodes or does not and arrives as it was
sent; the proofs are about these two, and that `Session` with all its data implements both
(`ControlSpec`) is checked.

### State and actions

**BackendQueue.** `items`, `front`, `rear` are the fields of `Queue`. An action is one
call: `enqueue` when there is room, when there is not (`enqueueFull`) and when
`malloc` fails (`enqueueNoMemory`, which stores NULL at `rear` and does not advance);
`dequeue`, `dequeueEmpty`, `peek`. `Init` includes the enqueue and dequeue
of "." with which `create_WateRMQ_ConsumingQueue_private` primes a queue, failed
or not.

**FrameParser.** Bytes have no values; `held` is the set of offsets of the current
frame whose byte is at its place in `inbound_buffer`. `recv_with_timeout(n)` puts n
bytes in the buffer, `amqp_handle_input` is one call: the partial header, the
whole header and what follows it, the rest of the body, the error returns.
`pc` is who reads: a wait, or `amqp_try_recv` behind a send that has blocked (`amqp_send_frame`). When that
send was the heartbeat of a wait, the wait goes on at line 816 (`resume`) and reads over what is still in the
buffer: `Overwrite`, after which `pos` is `Astray` and the bytes are taken for any frame of `Garbage`.
`dead` is a connection given up after an error.

**FrameList.** Cells are owned by the channel whose pool handed them out. A walk
(`amqp_simple_wait_frame_on_channel`, `amqp_maybe_release_buffers_on_channel`) takes one
link per step (`ScanOn`), because the bound of a walk is the shape of the list.
`chain` is the list as a sequence, the witness of the refinement. `inbound` is
the cell of a half-read frame.

**ChannelPools.** `size` is the heap; `live` holds the allocations handed out since
the last recycling of their pool, `lost` the pages that `record_pool_block` could
not record. One action per path through `amqp_pool_alloc`; a failure that
leaves everything as it was is not a step.

**Heartbeat.** Time is a number of ticks that passes in `poll`, and poll returns at most one
tick late; between calls it passes freely. `since`, `began`, `lastHeard`, `lastSent` are history and
say what the timers should know. A call is `Waiting` from the first look into its buffer to its return; a
heartbeat that it sends (`SendHeartbeat`) goes through the same sending states as a publish, and when it blocks
through the endless read of `amqp_try_recv`, and `HeartbeatSent` leads straight to the next `recv`.

**OpensslInit.** A step is a body under `openssl_init_mutex`; threads interleave
between bodies. `doing` is what a thread is at, `misinit` records that an initialization has failed.

**SharedQueue.** One step per access of `_readMessage` to the shared fields (`FreeItem`, `Advance`,
`CountDown` are lines 117, 119 and 120), so that a kill can come between any two. The producer is external: it holds the
semaphore while it writes. Messages are numbered in the order they are stored.

**AmqpClient.** A call that waits takes a frame (`Take`) and then decides about it
(`Use`). The broker answers requests and sends messages in fragments on every
channel, closes channels and the connection; `wire` carries its frames. A send that blocks, the application's own
(`pc = "idle"`) or the heartbeat of a wait (`HeartbeatBlocks`), lets `amqp_try_recv` queue what comes, the frame that
is waited for among them; `HeartbeatSent` drops whole frames that are read over, `FrameCut` is the loss of a part of one.
`missed` remembers that one of the two has happened to a wait. A frame has its
channel, type and length, and as history the message or request it belongs to (`id`) and what is
left of the body after it (`left`); no call looks at these. The
application keeps to the contract of `amqp.h`: one request of a kind at a time
on a channel, no further use of a channel whose close it has seen, and a
connection is abandoned after an error or `AMQP_STATUS_BAD_AMQP_DATA`.

**MethodLayouts, FrameCodec.** Each method is three rows: the fields and types of its
structure (`Fields`), what `amqp_decode_method` reads (`Decoder`) and what
`amqp_encode_method` writes (`Encoder`), each with order and width and each
transcribed from its own code. An encoder and a decoder that disagree, or a field
that only one of them knows, is a frame that does not come back as it was sent. `Call`
is what a function of the API sends, and the answers it waits for.

**Conversation.** `call` is the call in progress, `wire` the frames under way, `log` what the broker
has taken since the last call began, `result` what that call returned. The calls follow one another: `StartCall`
(`amqp_simple_rpc` and the calls that expect no answer), `SendUnknown`, `StartPublish`, then `PublishHeader` and
`PublishBody`, one frame a step with `body_offset` as in `amqp_basic_publish`; each takes the status
of the encoder, and with any but OK the call returns with what was sent so far. The broker (`ServerTakes`,
`ServerSends`) is external: it answers a method with one of the methods that `AnswerTo` names and that
the protocol allows, and sends frames of its own when no call is in progress. `ClientTakes` ends a call,
or queues what is not its answer. `Retuned` stands for a login between two calls.

**Exchange.** The same steps with frames as the bytes that `amqp_frame_to_bytes` writes into a buffer of
`frame_max` (`InBuffer`); `Sends` puts what was encoded on the wire beside the frame it was made of, and
`ServerReads` and `ClientReads` go on with what `amqp_handle_input` makes of the bytes.

**SocketOpening.** `pc` is where the call stands; `wait` is the poll in progress with the moment it began,
its milliseconds and its deadline. The clock is `now`, and passes only in a sleep that has an end;
`Tick` never passes the end of a sleep, so that a late return is the library's doing and not the
scheduler's. A signal is `PollAgain`. `Open`, `Resolve`, `ConnectSocket`, `ConnectInProgress`, `ConnectEnds` and
the `Tls...` actions have one disjunct per error return. `fds` and `ssls` are what the process
holds; `limit` is the moment the caller meant.

**Handshake.** `step` is the message of the handshake that is sent or waited for. `Login` starts it;
`Send`, `SendBlocks`, `SendEnds` send, `Reads` and `ReadEnds` are the read of a send that has found no room until the
broker was overdue, `Expect` computes the wait, and `StartTaken`, `TuneTaken`, `TakeOpenOk`,
`TakeClose`, `TakeOther`, `HearOther`, `AwaitFails` are what may come. `timer` holds the two heartbeat timers that
`amqp_tune_connection` starts: tune-ok and `connection.open` may block into a read, and while open-ok is awaited
a heartbeat is sent when due, as one more message of that step, and a silent broker is noticed. What the codecs and the memory make of a message is one of
`Outcomes`. `conn` holds the fields of the connection that `amqp_tune_connection` sets, `heard` what it was told,
`Destroy` is `amqp_destroy_connection`.

**Session.** `TakeStart`, `TakeTune` and `MakeOpen` are steps of `Handshake` with their data: all
that the code does between the receipt of one method and the sending of the next - SASL, the merge of
the properties, the tuning, the encoding of the answer - and the outcome that this has. `properties` are those of
the connection, `told` is a ghost.

## 3. What is checked

| run | question | bounds, and why they are enough |
|---|---|---|
| `backend_queue` | is the array queue a FIFO without holes? (`FifoSpec`; a NULL between `front` and `rear` would be an item nobody put) | four cells, three messages: full, drained and refused all occur; an index behaves the same at every cell but the first and the last, and the proofs cover every size |
| `frame_parser` | `BufferFits`, `InStep`, `DeliveredWhole`, `StartedFrameEnds` | the real header and footer sizes, payloads 0, 4, 6 and one beyond `frame_max`, chunks of 1 to 19 bytes: every offset is cut, and a chunk spans up to two frames; a send may block at any of them, and bytes out of step look like any of the frames or like a broken one |
| `frame_list` | `ListWellFormed`, `QueuedFramesLive`, `InboundLive`, refinement `QueueSpec`, `WalkEnds` | three cells and two channels: lists of length 0 to 3, removal at the head, in the middle and at the end, a cell used again at once |
| `channel_pools` | `TypeOK`, `Disjoint`, `AllocationsInHeap`, `Accounted` | channels 1 and 17 share an entry of the table; pages of 16 and 24 bytes hold up to three small allocations, 17 bytes fill a page or are a large block; four allocations and three blocks let a page be filled, recycled and filled again |
| `heartbeat` | `WaitNoticesSilence`, `WaitKeepsAlive`, `TimeoutHonoured`, `DeclaredDeadOnlyWhenSilent`, `ReasonKnown` | intervals 0, 1 and 2, six ticks: a silent deadline of the longest interval and a heartbeat after it, three of the shorter; timeouts 0, 3 and none; frames of two units so that a send can stop half-way |
| `openssl_init` | `CountExact`, `BioKept`, `LocksThere` | three threads: one refused, one whose socket falls in between, one that uninitializes |
| `shared_queue` | `DeliveredOnce`, `CountCovers` | `4096 * 10` becomes `2 * 2`, in which the macro goes wrong in the same way; two readers, five messages (more than the ring holds), three starts |
| `client_calls` | `MessagesIntact`, `ReplyMatches`, `RpcEnds`, `ReadEnds` | two channels, two kinds of request, two messages or requests (`MaxWork` bounds their sum), bodies of up to two fragments, one close, of a channel or of the connection (`MaxClosed`). One frame on the wire at a time: the calls look at its head only, so a longer wire adds delay and no other order. After a missed frame the run follows the call in progress to its return, with one frame queued at most (`AfterMissed`): three of the four properties say nothing of what comes later, and of `ReplyMatches` the rest is proved |
| `session` | `UrlRoundTrip`, `ResourcesHeld`, `DeadlineKept`, `CallReturns`, `HostAsReference`, `TuningAgreed`, `PropertiesKept`, `SurvivesWire`, `FitsBuffer`, `AnswerComes`, `PublishedWhole`, refinement `ControlSpec` | see below |
| `frame_list_drop`, `publish_silence`, `shared_queue_order` | three places where the code departs from what the repository says (section 6) | as their siblings; `shared_queue_order` with one start and four messages, so that no kill is part of its trace |

Deadlock is left unchecked where the system may stop: a parser or a client
whose connection is dead, a clock at its bound, a shared queue whose processes
are used up, the client when its bounded work is done.

Each property has a mutant in `PROJECT.json`: a plausible slip in the code it is
about, under which TLC finds it violated. Some of the pool mutants are: rounding
sizes down; a kept page taken without moving `next_page`; `next_page` counted
up by itself where the code sets it to the number of pages; comparing only the
first entry of a hash chain.

The bounds of `session`, about 135,000 states:

- *Time.* `uint64_t` ends at 31 and an int at 3, a second has four units, a millisecond two, a
  microsecond one: timeouts of 7 s and 3 µs or more overflow, those of 3 s and 5 s leave more milliseconds than an int
  holds, one of 3 µs is no whole number of milliseconds, and -1 s is refused. The clock runs to 24; it may also fail.
- *Opening.* Two addresses, two calls of `amqp_socket_open` on one socket, two messages
  of the TLS handshake that are waited for: each error comes with and without something to try next.
- *URLs.* Every combination of scheme, user, password, host, port and virtual host out of absent, empty and
  present with delimiters in it; and those of scheme `amqp` with a sound port and three virtual hosts once more with each
  delimiter of `Strays` (a broken encoding among them) put in at every position. For all others see `StrayRefused` (section 5).
- *Certificates.* All names of up to four characters over `a`, `b`, `*` and `.`,
  and chosen longer ones, against the hosts `a.b.c`, `aB.b.c` and `b.a`; NULs, several names, names that are not of DNS, no name at all.
- *Tuning.* 0, lower and higher limits on both sides; an interval of heartbeats that ends within the deadlines of a login, in
  which a send blocks, reads and goes on, a heartbeat of the library falls due and the broker's is missed; `frame_max` is between 24 and 200, around the 128 of a new
  connection, so that the buffer grows and shrinks and an answer may not fit it.
- *Tables.* Empty, flat, nested, replaced at the outer and the inner level, by a table and by a
  value, with an empty key, and one that does not fit the buffer.
- *Exchange.* Every method from the broker and every call of the application, each field at every value of its type while the
  others keep the first; every property alone, all and none; bodies of 0, 1, and one less, equal and one more than a multiple of what a frame of 24 bytes holds,
  and around 120, what a frame of 128 holds.

A product of all of these would be out of reach and tell nothing more, since most of them do not look at
one another. `Some` and `SomeOffers` let the choices of data, the offers with heartbeats among them, be made at the first attempt,
before time has passed, and the limits vary when the tables are the usual ones; `InUse` lets frames be
exchanged on a TCP connection without deadline. The two share `frame_max`, which does vary.

### Invariants in words

`TypeOK` is a run's property for the pools only, whose addresses and sizes are the point of it.

- *Parser.* `BufferFits`: the next copy fits the buffer and is not empty. `InStep`: the
  parser stands at the byte of the frame that `inbound_offset` says. `DeliveredWhole`: every
  byte of a frame handed over was copied to its place. Both hold until a wait has read over what its own blocked
  heartbeat left in the buffer (`Astray`, section 6) and not beyond; `BufferFits` and `StartedFrameEnds` hold even then. One byte may be
  missing: when the first eight bytes of a connection are not a protocol
  header, the eighth stays in `header_buffer`; it is the high byte of
  a class number, and zero (`FirstAssumption`).
- *List.* `ListWellFormed`: `first`, `last` and the links are one loop-free list.
  `QueuedFramesLive`, `InboundLive`: nothing on it, and no half-read frame, is freed.
- *Pools.* `Disjoint`, `AllocationsInHeap`, `Accounted`: see the comments in the module.
- *Time.* Said of every point of a wait, not only of its polls: at most two intervals and a tick have passed since the
  last byte came in or the wait began, unless it is in the endless read behind its own blocked heartbeat
  (`WaitNoticesSilence`); at most an interval and a tick since a frame went out, or a heartbeat is on its way out
  (`WaitKeepsAlive`); and the caller's timeout is outlasted by a tick and by the time a heartbeat takes to go out, by
  nothing else (`TimeoutHonoured`). Nothing in the code bounds that time. A peer is
  declared dead only after two silent intervals. The `abort()` for an
  unknown reason is unreachable.
- *TLS.* `CountExact` and `BioKept` hold until an initialization has failed, and no longer
  (section 6); that the count is never too high, and `LocksThere`, always.
- *Shared queue.* No message is returned twice, whatever is killed; `count` is not too
  low to hide a message that is there.
- *Client.* A message handed out is one message of the broker, whole and in its
  channel's order; a reply is the one to the request asked about; no mixture
  of calls makes a read give up a sound connection; no body is longer than announced.
  An RPC and a read that have begun end. All but the second hold unless a wait has missed a frame behind its own blocked
  heartbeat: the frame it waits for was queued by `amqp_try_recv`, where the wait does not look any more, or was read over.
  Besides, `RpcEnds` leaves out a close queued before the RPC began, and `ReadEnds` a close of the connection, which a read queues.
- *Opening.* `UrlRoundTrip`: a URL written from its parts is parsed into them, and accepted if and only if its parts are
  sound and nothing is out of place. `ResourcesHeld`: whatever fails, a descriptor is the socket's, the pending connect's, or closed.
  `DeadlineKept`: no sleep outlasts the deadline of the caller and no timeout comes a millisecond early, as long as the milliseconds that
  are left fit an int, but for the waits that the library makes without the deadline, which both properties name:
  the read of a blocked send (line 763), and the sending of `connection.open` (1049) and of a heartbeat (805). `CallReturns`: such a call returns. `HostAsReference`: a socket that verifies the name is open only if the
  certificate names the host by RFC 6125, and only a malformed certificate is refused beyond that.
- *Login.* `TuningAgreed`: the limits are the lower ones of both sides, in what is sent and in what the library then does; while there is a
  socket, the buffer has the length it is taken to have. `ControlSpec`: no content of a message and no frame in use takes
  socket, deadlines or limits where `HandshakeSpec` alone does not go, and no encoding takes a call where `ConversationSpec` alone does not. `PropertiesKept`: the merged properties are those of the application over the default ones, key by key.
- *Exchange.* `SurvivesWire`: what arrives is what was sent, field by field. `FitsBuffer`: no frame is longer than the buffer, and each announces its length.
  `AnswerComes`: no call waits for an answer that nobody sends. `PublishedWhole`: a publish that succeeded is a method, a header and the body in full frames.

## 4. Fairness

- `StartedFrameEnds`: the parser runs while it has bytes, and bytes arrive as long as the
  connection lives. `wait_frame_inner` loops around both.
- `WalkEnds`: one thread walks the list and nothing else runs meanwhile.
- `RpcEnds`, `ReadEnds`: fairness of the thread (`Take`, `Use`), of the broker
  answering a request it has received, and of the broker finishing a message
  it has begun. AMQP requires both of a broker. A heartbeat that blocks goes out at last (`WF(HeartbeatSent)`: the broker
  takes bytes again), and the fairness of `Take` is strong: a wait may send heartbeats again and again, but after
  each it is in `recv`, which looks at the socket before it polls, so that a frame that is there is taken. Neither deliveries, closes nor
  timeouts are fair: the properties do not lean on them.
- `CallReturns`: the clock runs, and a call that need not wait goes on, if only to fail. The second is weak fairness of
  `GoesOn`, every step that moves the call; it can be taken whenever `InCall /\ Due`, so the specification says so in these
  terms. It also says that a call that could give up at every moment from some point on moves: that a broker keeps `wait_frame_inner`
  busy for ever with bytes that are there before each poll begins is assumed away. Nothing is assumed of the broker, the addresses of the resolver, or the application. `GoesOn` leaves out signals: a poll that is
  interrupted for ever still ends, because each round waits for what is left. A poll without an end in one of the three waits above (`Endless`) is
  the exception that the property names; when the broker owes a heartbeat, the sends among them do end, in the read of line 763 at the latest.

No property of `Heartbeat` needs fairness: "notices" is stated as a bound on the clock.

## 5. What is proved

TLAPS checks these for every value of the constants, under the named
assumptions in the modules, which TLC evaluates in the runs.

| module | theorems | along what |
|---|---|---|
| `BackendQueueProofs` | `TypeCorrect`, `LiveItemsFilledAlways`, `ImplementsFifo` | `TypeOK /\ LiveItemsFilled` is inductive; under the map of the cells between `front` and `rear` to a sequence each step is one of the FIFO or a stutter. `MAX_SIZE` is any positive number. |
| `FrameParserProofs` | `ParserBufferFits`, `ParserInStep`, `ParserDeliversWhole` | the three are not inductive alone: `StateInv` adds what each parser state says of `target_size`, the buffer length and `held` (in BODY the target is the size of the current frame; before it, of a header), `HeldInv` that a parser out of step holds nothing. `OverwriteIInv` is the step that reads over unread bytes: sizes stay right, so that `BufferFits` needs no exception; `InStep` and `DeliveredWhole` say nothing from there on. Assumed: `Astray` is no number, a positive header, a footer of one byte, and what a broker sends first. |
| `FrameListProofs` | `ListAlwaysWellFormed`, `QueuedFramesAlwaysLive`, `InboundAlwaysLive`, `ImplementsQueue` | `ScanInv` adds what a walk has seen: no frame it has passed belongs to its channel, so that a walk at its end knows that no frame of the channel is left. `Linked` states the list index by index, with lemmas for append, put-back and cut. `ImplementsQueue` maps `chain` and `data` to the sequence of `FrameQueue`; a walk is a stutter until it takes a frame, and that it takes the first of its channel is `ScanInv`. |
| `HeartbeatProofs` | `WaitsNoticeSilence`, `WaitsKeepAlive`, `DeclaredDeadSoundly`, `ReasonAlwaysKnown`, `TimeoutsHonoured` | `TimerInv`: the timers are functions of the history, and the deadline of a poll in `recv` is the first of the three and passed by a tick at most. `WaitInv`, the three statements about waits together, is carried through the states in which no time passes and through the wait's own heartbeat: its send ends with the receive timer, and only the endless read and the time a heartbeat takes to go out are excepted. `CallInv` ties the status to the silence. Assumed: infinity is larger than any deadline. |
| `ChannelPoolsProofs` | `TypeCorrect`, `AllocationsDisjoint`, `AllocationsStayInHeap`, `BlocksAccounted` | `PageInv` (the pages have the pool's page size; the current page is one that is used or lost) and `Placed` (an allocation lies in a block of its pool that has been used since the last recycling, below `alloc_used` if that block is the current page). Without `Placed`, taking a kept page again could overlap. The three actions that take a new block share the lemma `NewBlock`. Assumed: channels and sizes are naturals, amounts positive, NULL is no block. |
| `SessionProofs`, arithmetic | `DeadlineExact`, `SleepWithinDeadline`, `ChannelMaxAgreed`, `FrameMaxAgreed` | `SumExact`: the test after an addition finds every overflow and nothing else; `IntKeeps`: an int holds what is not above `INT_MAX`. From there `DeadlineExact` (a deadline is the moment asked for, or the call is refused) and `SleepWithinDeadline`, for every width of clock and int. Assumed: the units are positive. |
| `SessionProofs`, OpenSSL state | `CountAlwaysExact`, `BioAlwaysKept`, `LocksAlwaysThere` | For any number of threads, `SharedInv`: what is counted (`Counted`, sockets and calls between their two critical sections) is finite, a thread is refused only after a failure, and as long as none has failed the BIO method is there for whatever is counted. |
| `SessionProofs`, sessions | `ResourcesAlwaysHeld`, `DeadlineAlwaysKept`, `TuningAlwaysAgreed` | `LoginInv`, see below |
| `SessionProofs`, host names | `HostcheckAsReference`, `CertificateAsReference`, `HostAlwaysAsReference` | The code works with positions and lengths from two ends, RFC 6125 says what a wildcard may stand for. `ComparesIs` says what its two partial comparisons cover together, `ExpandedIs` what the reference does, and `WildcardIs` that the only replacement that can fit is the one that makes both first labels end together, because case folding makes no dot. It needs no induction: what is said of every position is one quantifier. For strings of any length over any set of characters. `HostInv`: only the state after a call of open, and the next call forgets it, remembers a certificate; while a call goes on its status is not yet a refusal. |
| `SessionProofs`, URLs | `PartsRead`, `StrayRefused`, `UrlAlwaysReadBack` | Read back: what is left of a URL written from its parts is a text and a rest (`Ahead`, `TextAhead`), each step of the parser finds the text, undoes its encoding and stops at the head of the rest (`HostFound`, `PortFound`, `VhostFound`). Where a colon leads to, a port or a password, is open until the next delimiter; `HostNext` is the state in which the two ways meet. Refused: a URL that is accepted has none of the delimiters `Strays` or a pair of them (`StraysPaired`, by what the parser has passed so far), so a rendered URL with one more has an odd one out (`StraysUnpaired`). No induction: a position in a text is one quantifier, and the least delimiter ahead exists. For texts of any length over any words. `UrlInv` says which URL was read. |
| `SessionProofs`, publishing | `PublishedAlwaysWhole` | Not inductive: what the broker holds after a publish says nothing of one in progress. `TalkInv`: what the broker has taken, followed by what is on the wire, is a first part of the frames that the call should send, as many as `body_offset` says (`Stretch` cuts the body at multiples of the payload size, so the last fragment ends where the body does); after an error it may be shorter, and after a call that is no publish it holds no publish method. One lemma for each step. For any lengths of bodies, any `frame_max` of at least a header's, any values of the fields. Assumed: `BodyLengthAssumption`. |
| `SessionProofs`, answers | `AnswerAlwaysComes` | `AskInv`: while a call waits, exactly one frame is under way, its own request to the broker or one of the answers it waits for back to it. The rest is about three tables that are transcribed from different files: whatever the protocol answers to the request of a call is one of the replies the call waits for, and where a method may ask for no answer, the call that waits sets `nowait` to FALSE (`CallsAsk`, `WhoForgoes`, `RequestAsks`); a number names one method (`NumbersDiffer`, `NameOfNumber`). For any values of the fields and any channels. |
| `SharedQueueProofs` | `NeverDeliveredTwice`, `CountAlwaysCovers` | Neither is inductive: `OneInside` (one thread at a time between `sem_wait` and `sem_post`, none after a kill), `MsgInv` (a thread's message is the one at `front` until the slot is emptied, and nowhere afterwards) and `OnePlace` (a message is in one slot or delivered) make them so. Between the two halves of a removal, where a kill leaves it, `count` is one too high and never too low. For any size of the array, threads and restarts; nothing depends on the order in which `front` goes through the slots. Assumed: positive sizes, NULL is no message. |
| `AmqpClientProofs` | `MessagesAlwaysIntact`, `RepliesAlwaysMatch` | One sequence holds the frame in the call's hand, the queued frames and those under way (`Stream`). On each channel `StreamInv` says which frame may follow which (`Linked`), that identities only grow (`Ordered`), that a reply comes once (`Distinct`), and that the last frame is the one the broker goes on from (`Expected`). Every step of a call keeps it, because what it does to the stream is one of five things: nothing, a frame in front dropped (`Dropped`), one taken out (`Removed`), one moved up over frames of other channels (`MovedUp`), one added by the broker (`Appended`). `ReadInv` says how far the message in hand has been read, `WireInv` that a call waiting on the wire has no frame of its own among the queued ones; a blocked heartbeat breaks that when it queues one, so this invariant holds only until a frame is missed (`missed \/ IInv`). That a reply answers its request holds also afterwards, by an invariant of its own that counts the places a reply can be at (`ReplyInv`, `PlaceInv`): a frame that is lost takes nothing to another. The theorems are about the safety part `Spec`, which `FairSpec` implies. Assumed: the types of requests are none of the content frames, the bounds are naturals. |

`TypeOK` of `BackendQueue`, `FrameParser` and `FrameList` is part of those invariants.

`LoginInv`, the inductive invariant of a session, and why its parts are needed:

- `StepInv` ties `pc`, `step` and `wait` together: a poll is in progress exactly in the four states that sleep.
- `FdInv` makes `ResourcesHeld` inductive: `fds` *is* the descriptor of the socket and that of the `connect()` under
  way, and the two are never held together, so that an error that closes the one has closed all. `SslInv` says the
  same of SSL objects, up to those that `abandoned` names.
- `DueInv`: while a call runs, its deadline is the moment its caller meant, or infinity if it meant none.
- `WaitInv` follows the deadline through its conversions. `amqp_simple_wait_method_list` turns it into a timeout and back
  into a deadline, which loses up to a microsecond; and an int that is too small for the milliseconds that are left
  gives a poll that is too short, or has no end. So the deadline of a poll is `Close` to the caller's, or it is `Far` before
  it, in which case the caller's lies beyond what an int holds and `InRange` is false however long the
  clock runs on. Without `Far` the invariant would break there: a poll started out of range can end, by another
  signal, in range. `Own` tells the polls that have the caller's deadline from those that end with a heartbeat timer
  or, `Unbounded`, were given none; a timeout is returned only from one of the first (`TimeUp`).
- `Timely` is the part of `DeadlineKept` that looks back: a timeout stays soundly given while the clock moves on.
- `TuneInv`: the buffer has its length but for a connection given up in the middle of `amqp_tune_connection`, which has no socket;
  and from tune-ok on the limits stay those it names.

Assumed, and evaluated in the `session` run: `UnitAssumption` (positive units), `ClockAssumption` (the clock does not reach
its last value; a second is not shorter than a millisecond, and its microseconds fit an int, as `tv_usec` has to), `OfferAssumption` (both
sides name limits that their fields hold; the application's `frame_max` is not 0, for which section 6 says what happens).
`HostAlwaysAsReference` assumes `NameAssumption`: hosts and names are written in characters, and a certificate has the fields of one.
`UrlAlwaysReadBack` assumes `UrlAssumption`: a URL is written from texts, in any words but the names that the model gives to
encodings, and what stands in brackets holds no delimiter but `:` and `@`; at most one delimiter more is out of its place.
These five theorems are about `HandshakeSpec`, for any number of addresses, opens, rounds of a TLS handshake and interrupted polls;
`PublishedAlwaysWhole` and `AnswerAlwaysComes` are about `ConversationSpec`. They
reach `Session` by its refinement of `ControlSpec`, the conjunction of the two, which TLC checks in the `session` run; it cannot
be a theorem, because `Session` reaches the recursive operators of `TableCodec`.

Only model-checked:

- every liveness property (`StartedFrameEnds`, `WalkEnds`, `RpcEnds`, `ReadEnds`, `CallReturns`), because liveness under
  fairness and `ENABLED` are beyond the proof system;
- `PropertiesKept`, `SurvivesWire`, `FitsBuffer` and the refinement of `ControlSpec`:
  `TableCodec` and `FrameCodec` use recursive operators, because tables nest; what a codec does to every table is
  an induction over data, and no theorem may rest on a module that has them.

## 6. Where the code departs from what is written of it

Shown by a run of its own:

1. `L/amqp_socket.c:908`: a wait on a channel throws away the frames of other channels
   queued before the one it takes. The trace of `frame_list_drop` shows it: a frame of one channel is queued in front of a
   frame of the other, the wait on that other channel takes its own, and the one in front has left the list without having been
   returned. `FrameQueue!TakeOnChannel` says so, and the client's properties are checked with it.
2. `L/amqp_socket.c:763`: a publish to a silent broker blocks in a read with an infinite
   deadline and never reports a heartbeat timeout (`publish_silence`).
3. `F/WateRMQ.cpp:119`: `front` leaves the order of the ring because `MAX_SIZE` is not in
   parentheses. `ReadsNext` speaks only of messages that still lie in the array, so those that a restart discards
   do not count: in the trace of `shared_queue_order` a message is returned while an earlier one lies in the array unread, because
   `(front + 1) % 4096 * 10` has passed over its slot. In the code `front` stays
   at slot 4550 from its twelfth step on.

Seen while modelling, in the models, and without a run:

- `W/BackLibWaterRMQ.c:36`: a drained backend queue is still full once `MAX_SIZE` items have
  passed. `FifoQueue` carries the budget.
- `L/amqp_socket.c:805`: the heartbeat that a wait sends may block, and amqp_try_recv then reads behind the back of the wait,
  without end (763). The frame the wait is for may be queued there, where the wait does not look any more; and at line 816 it
  reads over data that was left in the buffer (the comment at 655 wants an empty one), after which the parser is out of step. The
  properties of `FrameParser`, `Heartbeat`, `AmqpClient` and `Handshake` name it as their exception, or hold in spite of it (section 3).
- `L/amqp_socket.c:733`: heartbeats read during a publish are queued and returned to the
  application; `amqp.h:1513` says they are not.
- `L/amqp_socket.c:1057`: an RPC does not look at a close that was queued before it began, and waits
  without end. `RpcEnds` leaves this case out.
- `L/amqp_consumer.c:219`: a read of a message waits for frames of its channel and queues a `connection.close`, for which the code
  has a test that is never met; the read then waits without end. `ReadEnds` leaves this case out.
- `L/amqp_socket.c:987`: `amqp_simple_wait_method` discards a wrong method and leaves the connection
  open; `amqp.h:1571` says it is closed.
- `L/amqp_openssl.c:372`: a failed initialization in `amqp_ssl_socket_new` decrements a count it has
  not incremented; the assertion `amqp_openssl_bio.c:187` can fail. `L/amqp_openssl.c:758`:
  uninitializing without a socket in between fails the assertion `amqp_openssl_bio.c:174`,
  and a second time frees the lock array again.
- `L/amqp_mem.c:147`: a page that cannot be recorded is never released, though `amqp.h:901`
  says all memory is. `Accounted` names these pages.
- `L/amqp_mem.c:163`: `amqp_pool_alloc_bytes` leaves the length set when it has no memory;
  `amqp.h:940` says it is 0.
- `L/amqp_api.c:263`: the last fragment of a body that is an exact multiple of the frame size
  goes out with `MSG_MORE`; the change log of 0.9.0 speaks of the last frame without it.
- `L/amqp_api.c:247`: the method of a publish is on the wire before its header is encoded; if the header does not fit, the
  publish returns an error and the broker waits for the rest.
- `L/amqp_socket.c:1355`: the client properties are kept in the pool of channel 0, which line 1373 recycles;
  `amqp.h:2416` says `amqp_get_client_properties` returns what was passed to the broker. In `Session` they keep their value.
- `L/amqp_socket.c:1049`: `connection.open` is sent without the deadline of the login, and so is a heartbeat that falls due while
  open-ok is awaited (805). After the tuning, a send that blocks until the broker is overdue reads without a deadline (763).
- `L/amqp_socket.c:528`: a timeout while sending the protocol header returns the number of bytes sent, and 0 of them
  is success to the caller.
- `L/amqp_socket.c:635`: an empty identity of SASL EXTERNAL is answered by `AMQP_STATUS_NO_MEMORY`.
- `L/amqp_socket.c:1209`: a key that the application's properties hold twice and the default ones do not is looked up in a
  table that does not have it.
- `L/amqp_connection.c:168`: a `frame_max` of 0 is accepted from the application, and the buffer is reallocated to nothing.
- `L/amqp_openssl.c:191`: an SSL object is left behind when the deadline cannot be computed. `abandoned` names it.
- `L/amqp_time.c:187`: the milliseconds that are left are cast to an int; beyond 24 days a poll may return at once or never.
- `L/amqp_table.c:82`: entries of a nested table are bounded by the whole encoding and not by the table's own length.
  `L/amqp_table.c:335`: the length of a key is cut to a byte and the key written in full.
- `F/WateRMQ.cpp:111`: the semaphore is created with 0 and nothing here posts first, so
  `consumingMessage` blocks; `README.md:171` calls it non-blocking. `F/WateRMQ.cpp:79`: a restart
  keeps the pointers of the dead process.
- `W/BackLibWaterRMQ.c:620`: the comment says a message is passed on only if it was consumed;
  the call is made in every case.

## 7. Not modelled, and why

The TLS conversation and the records it exchanges belong to OpenSSL; of it there is what the library waits for and what
it asks afterwards. The backend program outside the queue does not compile (functions are
called with arguments they do not take, the thread that should run the loop is
commented out), so there is no behaviour to be faithful to. The command-line tools, examples,
sketches, tests, build files and packaging are programs around single calls, or
no behaviour at all; so is `amqp_error_string2`. The variants for `select()` and for Windows are not what the build takes.
`PROJECT.json` lists every part with its status.

Abstractions to keep in mind:

- In `AmqpClient` the bytes after a frame that was lost in part are refused; that they may as well look like frames is in `FrameParser`.
- The modules that count bytes (`FrameParser`, `FrameList`, `AmqpClient`) do not know their values, `Exchange` does;
  in `AmqpClient` a frame has a channel, a type and the length of its part of the body.
- Allocations fail in `ChannelPools`, `BackendQueue` and `TakeTune`, and succeed in the table and method decoders and
  in `AmqpClient`, where a connection is given up after them.
- In `Session` the timers of the heartbeats run from connection.tune to open-ok and are dropped with the end of the login (`Heartbeat` has them from there);
  `poll` may end less than a millisecond before a heartbeat is due, here it is due then; a login is not tried again on the same connection; a frame that
  `amqp_simple_rpc` queues while it waits for open-ok is `HearOther`; data is chosen where the code first
  looks at it; `close()` does not fail.
- In `Conversation` sends go through; lost connections are in `Heartbeat` and frames out of turn in `AmqpClient`.
- Integers on the wire lie below 2^31, because TLC computes with 32 bits; every width is written and read in full.
- Several connections share only what `OpensslInit` models.

## 8. Plan

Done: the backend queue, the parser, the list with its pools, the timers, the TLS state, the shared queue, the
client calls that compose them; then opening, login, tuning, publishing, method framing, and the pure
functions below them. What would add most next:

1. Proofs: the codec with tables of bounded depth, which needs no recursive operator.
2. `BackendConsumer`: the loop of `rabbitmqConsuming_private` with its replies over `AmqpClient`'s
   promises, into `BackendQueue`, once it compiles. Property: what is taken is passed on, once.
3. The pools under a login: the tables of `Session` placed in the pools of `ChannelPools`, in which the recycling of the client
   properties shows as a state of its own.
4. The constructors of tables and values (`amqp_table_add` and its like), and the TLS records of `L/amqp_openssl_bio.c`.
