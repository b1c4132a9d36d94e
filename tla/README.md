# Formal models of nem

nem moves messages between two hosts through rings that one side fills with
RDMA writes and the other side polls. This directory holds TLA+ models of its
components, TLC configurations that check them on small instances, and proofs
checked by TLAPS. Paths below are relative to the repository's root.

- [The system](#the-system)
- [Plan](#plan)
- [The modules and the code](#the-modules-and-the-code)
- [The runs](#the-runs)
- [Fairness](#fairness)
- [Proofs](#proofs)
- [Disagreements between code and comments](#disagreements-between-code-and-comments)
- [What is not modelled](#what-is-not-modelled)

## The system

| Component | Source | State | Operations |
|---|---|---|---|
| RDMAMessageBuffer | `src/RDMAMessageBuffer.{h,cpp}` | `sendBuffer`, `sendPos`, `currentRemoteReceive`; `receiveBuffer`, `readPos`; each registered with the card | `send`, `receive()`, `receive(whereTo, maxSize)`, `hasData` |
| ECBuffer | `src/ECBuffer.{hpp,cpp}` | the same, in stripes of k data and m parity blocks; `read_qp`, `message_count`, the extra buffers for a block that crosses the ring's end | `send`, `receive`, `hasData` |
| CompletionQueuePair | `src/rdma/CompletionQueuePair.{hpp,cpp}` | two completion queues, one event channel, `cachedCompletions`, the mutex `guard` | three waits, polls with and without an expected opcode, blocking polls |
| ECCalc | `src/rdma/ECCalc.{hpp,cpp}` | a free list of calculations under a spinlock, a semaphore; per calculation a mutex, a condition variable, erasure arrays and a matrix | `encode`, `decode`, the callbacks of the offload library |
| QueuePair | `src/rdma/QueuePair.{hpp,cpp}` | a reliable-connection queue pair with 8000 send slots | `connect`, `postWorkRequest` |
| WorkRequest | `src/rdma/WorkRequest.{hpp,cpp}` | one request under construction | setters for address, keys, signalling, slices |
| MemoryRegion | `src/rdma/MemoryRegion.{hpp,cpp}` | a registered range and its keys | constructor, destructor, `slice` |
| Network | `src/rdma/Network.{hpp,cpp}` | device context, protection domain, shared completion queue pair and receive queue | constructor, destructor |
| ReceiveQueue | `src/rdma/ReceiveQueue.{hpp,cpp}` | a shared receive queue nothing is posted to | constructor, destructor |
| Bootstrap | the constructors of the two buffers, `src/tcpWrapper.{h,cpp}` | a TCP stream | exchange of addresses, then of remote memory descriptors |
| gid conversion | `src/rdma/head.{hpp,cpp}` | none | gid to and from hexadecimal text |
| programs | `src/pingPong.cpp`, `src/rdmaPingPong.cpp` | loop counters | a client and a server that send and receive in turn |

### How they interact

An application thread on each host owns one buffer object. Its constructor
creates queue pairs on the host's Network, exchanges addresses over TCP,
connects, and exchanges the addresses and keys of `receiveBuffer` and
`readPos`. From then on the two hosts share memory through the card only:

1. `send` copies a frame to `sendBuffer` and posts unsignalled RDMA writes that
   copy it to the same offsets of the peer's `receiveBuffer`. It returns before
   the card has read the bytes (`maxInlineSize` is 0).
2. `receive` spins on `receiveBuffer` until a validity word appears, copies the
   payload, zeroes the frame and then advances `readPos`.
3. When the ring looks full, `send` posts one signalled RDMA read of the peer's
   `readPos` into `currentRemoteReceive` and polls the completion queue until it
   completes. This read is the only acknowledgement and the only thing that
   reclaims slots of the send queue.

`ECBuffer` does this with k + m queue pairs, one per block of a stripe, all of
which report to one completion queue. Of every 100 messages the first 5 are sent
without data block 0 and with the parity blocks that `ECCalc` computes; the
receiver decodes when K blocks are there and a data block is missing.

Each direction of a pair uses variables the other one never touches, so one
direction is a system of its own.

### What makes it hard, and what makes it right

| Component | Hard | Right when |
|---|---|---|
| RDMAMessageBuffer | the card places a frame byte by byte while the reader looks at it; the card reads `sendBuffer` after `send` returned; `currentRemoteReceive` is stale; frames wrap; the connection fails in the middle of a frame; the send queue fills | no overrun, no reuse of bytes in flight, the ring ahead is zero, messages arrive whole, once, in order, and everything sent arrives |
| ECBuffer | blocks of one stripe arrive in any order, or not at all; a block may arrive after the stripe was consumed | the same, and a validity word always belongs to the stripe it is read in |
| CompletionQueuePair | completions arrive between `ibv_get_cq_event` and `ibv_req_notify_cq`; threads wait for different kinds; polls take from the queue under a wait; a failed completion throws out of the drain | each completion is handed out once, in order, and nobody sleeps beside one |
| ECCalc | the callback returns a calculation to the pool while the call that used it is still waking up; failed starts; refusals; a semaphore that admits too many | a calculation is in one place, a call that returns has its result, every call returns |
| Bootstrap | short reads, a peer that closes, order of several exchanges on one stream | both sides hold each other's addresses, queue pair by queue pair; nobody sends before the peer is prepared |
| Network and the other owners | exceptions half-way through a constructor, order of destruction | nothing is freed while something uses it, and nothing is left behind that has an owner |

`PROJECT.json` lists every hazard at its line with the properties that watch it.

## Plan

Modules, most important behaviour first. Those marked * exist.

1. *`MessageChannel`*: the abstract specification, a bounded FIFO channel.
2. *`RDMAMessageBuffer`* with `MCRDMAMessageBuffer`; refines `MessageChannel`.
   Proved: *`RDMAMessageBufferSender`* (types, flow control and
   `UnacknowledgedKept`), *`RDMAMessageBufferRing`* (what lies in the
   ring and what the receiver makes of it, the refinement and
   `SendQueueSuffices`).
3. *`CompletionQueuePair`* with `MCCompletionQueuePair`. Proved:
   *`CompletionQueuePairProofs`* (all safety properties and `WaitOrder`).
4. *`ECBuffer`* with `MCECBuffer`; refines `MessageChannel`. Proved:
   *`ECBufferSender`* (types and the state of `send`), *`ECBufferRing`* (the card and
   `receive`: `PendingKept`, `ValidIsCurrent`, the refinement and `QueuesSuffice`).
5. *`ECCalc`* with `MCECCalc`: the pool, and the erasure arrays and matrix that a
   calculation keeps from job to job. Proved: *`ECCalcProofs`* (all safety
   properties).
6. *`Lifecycle`*: what a constructor acquires call by call, and what destructors
   give back. *`Gid`*: the conversion of a gid. *`Bootstrap`*, which extends both:
   the two constructors, their exchange over TCP, exceptions and destructors.
   *`PingPong`* with `MCPingPong`: the two programs, composed of `Bootstrap` and one
   `MessageChannel` per direction. Proved: *`BootstrapProofs`* (`Paired`,
   `PeerReady`, the gid, `NothingUsedIsFreed`, `AbortsOnlyHalfConnected`,
   `OnlyOrphansLeft`) and *`PingPongProofs`* (`LockStep`, `OnlyLastLost`, types).

`MessageChannel` is what both buffers are checked against, and what `PingPong` is
built on: both by `INSTANCE`. `QueuePair`, `WorkRequest` and `MemoryRegion` are
small enough to be part of the actions of the two buffers and of the steps of
`Lifecycle` rather than modules.

## The modules and the code

`PROJECT.json` ("map") gives the lines each definition stands for.

### MessageChannel

`sent` and `received` are what the applications passed to `send` and got from
`receive`. `Send` appends while fewer than `Capacity` messages are in flight;
`Receive` returns the oldest one. It knows nothing of rings.

### RDMAMessageBuffer

One direction of a pair: `send` of one endpoint, `receive` and `hasData` of the
other, one queue pair.

- *send.* `StartSend` is the size check and the computation of the slices.
  `WriteToSendBuffer` is one call of `writeToSendBuffer` (length, payload,
  validity) that finds room; `PostRead`, `PollRead` and `PollError` are its loop
  when it does not. `PostWrite` posts one slice; `SendQueueFull` is the exception
  of `postWorkRequest`. A failed `send` stays in `"failed"`: the exception leaves
  the object half-way through a frame.
- *the card* (external). `PlaceByte` copies one byte of the oldest write, reading
  `sendBuffer` at that time. Posted requests of one queue pair execute in order.
  `ExecuteRead` and `LandRead` split the read in two: the value is fetched from
  the peer before it lands. `Break` fails the connection between any two bytes;
  what was outstanding turns into error completions.
- *receive, hasData.* `ReadByte` copies one byte of the length or the validity
  word from a volatile buffer; `SizeRead`, `Retry`, `Accept` and `HasDataReturn`
  are the decisions of the loop. `CopyPayload`, `ZeroReceiveBuffer` and
  `AdvanceReadPos` are three steps because the card and the sender's read come
  between them. `TooLong` is the exception of `receive(whereTo, maxSize)`.

A `size_t` is a word of `WordLen` bytes; `Encode` and `Decode` are its object
representation. `EncodingAssumption` says that a word read while some of its
bytes are still zero decodes to at most the whole. Positions are unbounded
integers and `pos & (totalSize - 1)` is `pos % Size` for a power of two. The two
overloads of `receive` are one operation with a maximum; the one that returns a
vector has none that matters.

### CompletionQueuePair

A constructed pair and the threads that call it. A wait is `Lock`, the look at
the cache (`FromCache`, `NothingCached`), and a loop of `GetEvent`,
`RequestNotify` and the drain (`Drain`, `DrainError`, `Drained`) up to `Return`.
`WaitError` is a verbs call of the wait that fails: `ibv_get_cq_event`,
`ibv_req_notify_cq` or `ibv_poll_cq`. `Take` is the body the polls share; polls
hold no lock and are single steps. The card adds completions at any time
(`Complete`) and turns an armed queue's next one into an event. A completion may
have succeeded with the opcode that the typed polls of its queue expect, with
another, or failed.

The histories count, per completion, how often it was `handed` to a caller and
how often an exception consumed it (`lost`). `abandoned` are the queues that a
wait left by an exception after taking their event, until another wait drains
them: nothing announces what is left in them. `Leave` forgets the locals of a
call. The guard `Len(cq[q]) < CQ_SIZE` keeps the card from overflowing a queue:
an overflow is fatal to the real queue and no code handles it.

### ECBuffer

`send` writes K + M blocks, each followed by a validity word: `WriteToSendBuffer`
is one call of `writeToSendBuffer` or `zeroSendBuffer`, `PostData` posts a data
block once written, `Encode` is `calc->encode` together with the copy of a parity
block back from the extra buffer, `PostParity` posts the parity blocks.
`PostRead` goes to queue pair `readQp`, in turn. `receive` looks at the validity
words one by one (`PollBlock`, `PollAgain`), decides (`EnoughBlocks`), decodes in
place, and copies, zeroes and advances like RDMAMessageBuffer.

Each queue pair has a send queue of `MaxSendWr` slots: a block takes one, or two
if it crosses the end of the ring, a read takes one, and the completion of a read
gives back all that its queue pair had in use. `PostFull` is the exception of
`postWorkRequest`, which may come between the two requests of one block.

Nothing tests what `encode` and `decode` return: up to `MaxCalcErrors` of them fail
(`MayFail`), the parity blocks then keep their padding (`unencoded`), or the stripe
is read with a block missing (`undecoded`). What a failure leaves behind is that of
`ECCalc`. A matrix that cannot be made harms one message. A calculation that cannot be
started goes back to the head of the free list with its mutex locked, and the
endpoint's next `encode` or `decode` waits for that mutex: `Encode` is enabled only
while `unencoded` is empty, `Decode` only while `unstarted` is. An endpoint has
one `ECCalc` for both of its directions; the module is one direction, so a failure
on the other one is not in it. If the callback of the calculation before is late,
another one is in front and the wait comes a message or more later; that is left
out. A length that no `encode` has produced is eight bytes of anything, and
`vector(receiveSize)` may not find the memory: `AllocateResult` lets `receive` throw
(`"failed"`) whenever the length is beyond what a stripe carries, with the stripe still
in the ring, and the exception ends the program.

Coarser than RDMAMessageBuffer: a length or validity word is one byte and is
never seen torn; the two requests of a block that wraps are posted in one step
unless the queue is full. `Parity` and `Recover` are any maximum
distance separable code (`CodeAssumption`); the instances use a Vandermonde code
modulo 5. 100 and 5 are `Period` and `Coded`.

### ECCalc

`Call`, `SemWait` and `Pop` are the start of a call and `get_ec_comp`; `LockComp`,
`Start`, `CondWait`, `Wake` and `Return` are the rest. `StartError` and
`PutBack`/`PostBack` return the calculation with its mutex still locked, as the
code does. The callback is `DoneLock` to `DonePost`; both callbacks have the same
text. With `Spurious` a thread may `Wake` without having been signalled, as POSIX
allows.

`decode` comes between `Pop` and `LockComp`. `Token` is one round of the loop in
`extract_erasures`: one call of `strtok`, whose position `scan` all threads
share, and the mark it leaves in the arrays of the calculation (`Mark`). `Texts`
is what `strtok` may have before it, which is anything once the call whose text
it stood in has returned and the text was freed. Too many digits or erasures are
refused with the arrays half written. `Matrix` is `alloc_decode_matrix`: a column
for each missing block (`Columns`), copied from past the calculated rows if that
is a parity block; columns that no missing block needs stay as the previous job
left them. Calls that took their texts apart at the same time are `tangled`.

What is calculated is not modelled: a call is a number, which stands for the
addresses it gives the library; `finished` are the calls whose calculation the
library finished.

`Listed` are the calculations the constructor puts on the list. The constructor
tests the result of `alloc_comp_ec_mrs`, which returns nothing, so `Listed`
depends on the build; the runs use all of them, the outcome of a build without
optimisation. Nothing relates their number to that of the threads: the semaphore
starts at `MaxInflight` and is posted once more for each of them. `Pop` of an empty list
follows a null pointer, which ends the program; in the model the thread is then
`"crashed"` and the others go on.

### Lifecycle, Gid, Bootstrap and PingPong

`Lifecycle` lists, for both classes and both endpoints, the calls that the
program makes before its loop (`Plan`): the socket, Network with its queues,
the buffer's completion queues, its queue pairs, memory, registrations, the
exchange, the calculations. What a call acquires is in the hands of a raw
pointer until an object that frees it is complete; the step that completes an
object carries the calls of its destructor. `Takeover` puts them in front of what
remains to be freed, where they replace those of the object's members: the
members are the youngest, so that `Older` drops as many calls from the front.
`Uses` is what the driver and the card need as long as a resource lives; `Refuses`
is the `EBUSY` of the driver.

`Gid` formats and parses a gid byte by byte, with the byte order of the host and
of the network.

`Bootstrap` runs both plans at once, one action per kind of call. `ReceiveAddress`
and `ReceiveAndSetupRmr` are `tcp_read`, which does not look at how many bytes
`recv` returned. Records are sequences of 8-byte words, 5 of an Address and 3 of
an RmrInfo; a read may take any first part of what is there (`Received`) and puts
it over the record (`Over`), so that later reads of the stream are out of step;
at the end of the stream it takes nothing, and the endpoint's own address or
zeroes stay. `DestinationOf` is what `connect` makes of the result, with the gid
that `Gid` parses. `misread` remembers who has read in part.

Any call may fail (`Throw`; `Refused` when nobody listens), with two exceptions.
The result of `listen()` is not looked at, and a failure shows at `accept`; a
throw of the step `"listen"` is one of the socket's or of `bind`'s.
`alloc_comp_ec_mrs` reports that the arrays of a calculation could not be
allocated, and the constructor goes on; what that means for the list of
calculations is `Listed` in `ECCalc`. Either nobody catches the exception and the
process dies, or the caller does and the destructors of what is complete run one
call at a time (`Release`, `Destroyed`). A destructor that throws ends the process
(`"aborted"`), as destructors are `noexcept`.

`PingPong` adds the loops of the two programs over a `MessageChannel` in each
direction, and their ends. The server destroys its buffer right after the last
`send` returned, which does not wait for the card: an answer still under way when
the send buffer's registration goes may be `lost`. `SendFails` is a `send` that
finds the connection failed.

## The runs

Every bound is a constant of the cfg.

| Run | Question | Bounds and why they suffice |
|---|---|---|
| `ring_bytes` | Is RDMAMessageBuffer safe, and is it a FIFO channel, with torn words, wrapping, failures and refusals? | Ring of 8 bytes, words of 2 bytes, payloads of 0, 1 and 4 bytes: frames of 4, 5 and 8 bytes. Three of them lap the ring more than twice, wrap at different offsets and fill it exactly. Two send slots make `SendQueueFull` and the read both happen. |
| `ring_progress` | Does everything arrive? | Ring of 4 bytes, words of 1 byte, payloads of 0 to 2 bytes, four messages: each but the first may have to wait for a read. Four slots, the number `SendQueueSuffices` asks for. |
| `ring_collision` | May a payload hold the validity word? (violation) | One payload that begins with it. |
| `cq_calls` | Is an event ever missed, an order changed, a completion handed out twice, a thread left asleep? | Two threads, every wait and every poll at once, three completions on queues of two entries: one can be in the cache, one in the queue and one to come. One fault, of any kind, at any time. |
| `cq_abandoned` | Is a wait ever asleep beside its completion? (violation) | One completion may fail; no call does. |
| `ec_ring` | Is ECBuffer safe and a FIFO channel whichever block is slow or lost? | K = 2, M = 1, blocks of 2 bytes: a stripe of 9 bytes in a ring of 16, so that the second one wraps inside a block and each `send` after the first waits. Two coded messages and a plain one; three slots per queue pair, so that a wrapped block and a read fill a queue. One calculation may fail, an encode or a decode, and the connection of queue pair 1, which carries a block of every message. |
| `ec_progress` | Does everything arrive, coded or not? | K = 2, M = 1, stripes of 6 bytes in a ring of 8, six messages: the reads go round the three queue pairs, and coded and plain messages take turns more than once. Five slots, the number `QueuesSuffice` asks for. One calculation may fail, an encode or a decode, at its matrix or at its start: after a failed start there are coded messages to come, which wait for it. |
| `ec_early` | Is the size always right with two parity blocks? (violation) | K = 2, M = 2, two messages. |
| `calc_pool` | Is the pool sound, does the library get what its call asked for, and does every call return? | Two threads, two calculations, three calls, so that a calculation is taken again while its last user wakes up and with the marks of another job in it, and so that a thread may call again while the callback has yet to return its calculation and the other thread holds the other one: it finds the list empty. K = M = 1: one thread encodes or misses both blocks, which is refused; the other misses the data block. Matrices and starts may fail. |
| `calc_unasked` | Is `encode` synchronous if a condition variable wakes unasked? (violation) | Only `encode`, four calls. |
| `ping_pong` | Do the endpoints match, is nobody used before it is ready, is nothing freed too early or left behind, and do both programs end? | Both classes of buffer, three queue pairs, so that one side can be a record ahead at the first, a middle and the last one; three messages; one fault: any call of either constructor fails, caught or not, or any record is read in part. The second port's gid has a zero digit in front of a group. |
| `boot_segments` | Is the address that was read the peer's while the peer is there? (violation) | As above, one message. |

### What they show

- **RDMAMessageBuffer.** `NoOverrun`: the stale copy of `readPos` never lets the
  sender lap the reader. `UnacknowledgedKept`: the bytes the card may still read
  stay as `send` wrote them. `AheadIsZero`: what the sender may still be granted
  is zero until the card places a byte. `HasDataSound`: a `true` of `hasData`
  means the whole frame is there. `ImplementsChannel` and `ImplementsFairChannel`:
  the ring implements `MessageChannel` with a capacity of `Size \div (2 * WordLen)
  + 1` messages, the one more being the frame `send` is still laying out.
  `EverySendReturns`, `SendQueueSuffices`: `send` does not block for ever, and
  fails only with the connection if the send queue has a slot for every frame of
  one ring, one for a split frame and one for the read.
- **CompletionQueuePair.** `ExactlyOnce`: what completes is in one queue, in the
  cache, in one thread's hands, or has been handed out or thrown, once.
  `WaitOrder`: waits return the completions of a queue in their order.
  `EventDiscipline` and `NoLostWakeup`: a queue that is not empty has an event, a
  thread draining it, or was left by a wait that threw. `Served`: whoever waits
  while its completion is there gets one, unless another wait for the other kind
  sleeps with the mutex held, or a failure left a queue behind.
- **ECBuffer.** With at most one parity block: `PendingKept` (writes on any queue
  pair find the bytes they were posted for), `ValidIsCurrent`, and the refinement
  of `MessageChannel`: of the messages received only those whose own calculation
  failed may be spoilt. That messages go on arriving after a failed calculation is
  another matter: `ImplementsFairChannel` and `EverySendReturns` say that
  everything sent is received and every `send` returns unless an endpoint is
  `Stalled`: it waits for a calculation that a failed start left locked, or its
  `receive` threw on a length that cannot be allocated. A failure at a matrix
  costs one message. `QueuesSuffice`: no `send` fails for want of a slot if
  `MaxSendWr` is at least K + M times the stripes that pass from one read to the
  next, plus K + 2M + 1 if blocks can cross the end of the ring, plus 2. As many
  stripes pass as fit the ring, and one more when behind them there is space for a
  message's data blocks: `receive` may take the message before `send` has padded
  its parity blocks, and the read then answers with a position in front of which a
  stripe more lies than fits. Without that stripe the bound is refuted (a ring of
  16, K = 2, M = 1, blocks of 1, eight slots, twelve messages). It is safe rather
  than tight: in the ring of `ec_progress` it asks for five slots, four would do
  and three do not.
- **ECCalc.** `PoolIntact`, `SignalToCome` and, where condition variables wake
  only when signalled, `Synchronous`. `EmptyTakesAsManyCalls`: the list is empty
  for a call only when as many calls are under way as there are calculations. The
  run reaches this crash, which the semaphore should prevent and, being
  initialised and posted as well, does not; what the property says is that too
  many calls are its only cause: no failed call and no callback keeps a
  calculation, and the one a callback has yet to return is made up for by the call
  that misses it. `JobKept`: the library works with the erasures of the call it
  works for and a fitting matrix, whatever earlier and refused calls left in them;
  only calls that decode at the same time get each other's digits.
  `EveryCallReturns`: calls end, by returning or in that crash; it excuses exactly
  the calls that meet a calculation a failed start left locked.
- **Bootstrap and PingPong.** `Paired`: queue pair i is connected to queue pair i
  at the peer's gid, unless the peer is gone or the endpoint itself read a record
  in part: a short read harms only the side that reads. `PeerReady`: whoever has
  finished the exchange may send, because the peer's queue pairs take requests and
  its memory is registered with what that needs; the connections have a retry
  count of 0, so this matters. `Constructed`: neither constructor waits for ever.
  `NothingUsedIsFreed`: destructors run in an order in which nothing loses what it
  uses. `AbortsOnlyHalfConnected`: a destructor meets the driver's refusal, which
  ends the process, only when connecting one of ECBuffer's queue pairs fails:
  `RDMANetworking` is not complete then, its queue pairs live on, and the
  completion queues they use cannot be destroyed. `OnlyOrphansLeft`: what
  destructors leave behind is what raw pointers held at the time of the exception,
  and the arrays of the calculations, which `~ECCalc` does not free. `LockStep`,
  `OnlyLastLost` and `ClientEnds`: one message is under way at a time, and only
  the last answer can be lost, in which case the client waits for ever.

`CHECK_DEADLOCK FALSE` is set where the system may stop: waits with no more
completions to come, both endpoints of an ECBuffer waiting behind a calculation that a
failed start left locked or ended by an exception, the end of the calls of `ECCalc`,
and the end of the ping-pong programs.

### Excused cases

Some fairness properties hold of the code only with an exception, and the exception is a
defect the code has rather than something the model leaves out. No document of
the repository promises otherwise, so they are no findings:

| Property | Excuses | Why the code does it |
|---|---|---|
| `Served` | a wait for one kind while another sleeps in `ibv_get_cq_event` with the mutex | `CompletionQueuePair.cpp:148-173` |
| `JobKept` | calls of `decode` that take apart their texts at the same time | `strtok`, `ECCalc.cpp:448` |
| `EveryCallReturns` | calls that meet a calculation a failed start left locked | `ECCalc.cpp:313-316` |
| `ImplementsFairChannel`, `EverySendReturns` (ECBuffer) | an endpoint that waits for such a calculation, or threw on a spoilt length | `ECBuffer.cpp:377`, `131` |

## Fairness

- RDMAMessageBuffer and ECBuffer: weak fairness of the sending thread, of the
  card and of the receiving thread. The threads spin and never block, and a card
  with a working connection executes what it was given; the progress runs exclude
  failures, since after one the receiver spins for ever by design. In
  RDMAMessageBuffer the receiving application also has strong fairness on
  starting a `receive`: the ping-pong programs call it in a loop, and a program
  that calls `hasData` for ever is not meant. In ECBuffer, where `receive` is the
  only call, starting it is a step of the receiver like any other.
- CompletionQueuePair: weak fairness of each thread inside a call. Nothing is
  assumed of the card, nor of who gets the mutex: a thread that never gets it is
  overtaken only by others that take completions. Nothing has to fail: `WaitError`
  is no part of the fair steps.
- ECCalc: weak fairness of each thread inside a call and of the library.
- PingPong: weak fairness of both processes; nothing has to fail. That a message
  sent is eventually received is what the progress runs of the buffers show. A
  connection made from a record read in part delivers nothing, so `ClientEnds`
  excuses it.

## Proofs

`RDMAMessageBufferSender` proves

    THEOREM TypeCorrect == Spec => []TypeOK

for every ring size, word width, encoding, set of payloads and send queue. The
interesting conjuncts are those about slices: every write request starts inside
the ring and has a positive length, and no more than `MaxSendWr` are outstanding.
`TypeOK` is not inductive on its own: that `Slices[posted + 1]` exists, that a
split frame has two parts and that the card's next byte lies in the ring need to
know where frames begin (`Frames`), where `send` stands in its frame
(`SendState`) and which bytes the posted writes cover (`Queue`). The inductive
invariant is `SenderInv == TypeOK /\ Frames /\ SendState /\ Queue`.
The proof has lemmas on ring
arithmetic (`Cell`, `Overlay`, `Wraparound`), one lemma per action, and one
temporal step. It uses `SizeAssumption`, `ByteAssumption`, `EncodingAssumption`
and `BoundAssumption`, and not `CollisionFree`: types do not depend on it.

It goes on, from the same assumptions, to

    THEOREM Kept == Spec => []UnacknowledgedKept
    THEOREM FlowControl == Spec => [](Granted /\ sendPos - readPos <= Size)

The first says that the card, which reads `sendBuffer` long after `send` has
returned, finds there what that `send` copied. The inductive invariant is
`KeptInv == SenderInv /\ Granted /\ Ordered /\ UnacknowledgedKept`. `Granted` is
the part of `NoOverrun` that says nothing of how far the receiver may get;
`Ordered` says that earlier frames end before the current one begins, which the
links between neighbouring frames in `Frames` imply only by induction. The one hard
step is `WriteToSendBuffer`: a byte that is still
unacknowledged lies less than a ring behind the end of the copy, so `Overlay`
spares its cell, and the bytes copied belong to no frame but the current one.

`RDMAMessageBufferRing` goes on with the receiving half:

    THEOREM OverrunFree == CollisionFree => (Spec => []NoOverrun)
    THEOREM ZeroAhead   == CollisionFree => (Spec => []AheadIsZero)
    THEOREM HasDataTrue == CollisionFree => (Spec => []HasDataSound)

None of the three is inductive. The receiver may pass what was placed as soon as it
takes a word for the validity word that is none; so the invariant has to say what
the ring holds, cell by cell, and what the receiver can have read of it.
`RingInv` adds to `KeptInv`: frames do not overlap (`Disjoint`); `readPos` is where
the frame being read begins and what was received is what was sent (`Position`);
between `readPos` and `placed` each cell holds its frame's byte, or zero once
`receive` has cleared it (`Arrived`); each byte of `rWord` is zero or the frame's
byte that was placed by now, and `receiveSize` is the frame's length read whole or
in part (`Words`). The step everything hangs on is the validity word
(`WordComplete`): read at the place a torn length points to, it would have to
be made of payload bytes.
`CollisionFree` says that no payload has the validity word there, and is as weak as
the proof allows: `ring_collision` shows what happens without it. It is a
hypothesis of these theorems and no assumption of the module. It is satisfied, for
instance, by all payloads without the first byte of the validity word
(`PlainPayloads`), and TLC checks on every run of `MCRDMAMessageBuffer` that it
holds of the payload sets of the passing runs and fails for that of
`ring_collision` (`Hypothesis`).

The last part of the module proves the refinement,

    THEOREM RingIsChannel == CollisionFree => (Spec => ImplementsChannel)

where the channel's `Capacity` is `Size \div (2 * WordLen) + 1`. Initial states map
to initial states; `StartSend` is the channel's `Send`, the copy of the payload its
`Receive`, every other step stutters. That the capacity suffices
needs one more conjunct, `Spread`: the n-th frame begins at least n times two words
after the first, so that the frames within one ring's length are bounded.

The same bound gives

    THEOREM SlotsSuffice == CollisionFree => (Spec => []SendQueueSuffices)

Slots come back only when a read completes, so the invariant (`SlotInv`) has to
remember where that was: some frame `f` is the first that was posted since
(`Since`), `currentRemoteReceive` is not past it, hence `send` never gets more than
a ring ahead of it; the frames from `f` on have taken a slot each and one more if
one of them goes on at the start of the ring (`Taken`), which happens once within
one ring's length (`WrapsOnce`). What fails otherwise fails with the connection
(`ErrorsMeanBroken`). `CollisionFree` is needed here as well: a receiver that takes
a word for the validity word may advance `readPos` past what was sent.

`ECBufferSender` proves

    THEOREM TypesHold == Spec => []TypeOK

for every number of blocks, block size and ring that holds a stripe, with failed
calculations and connections. Its invariant is `SendInv`: stripes follow each other
(`Stripes`), `send` advances through its own (`Progress`) without getting more than a
ring ahead of the receiver (`Granted`), and what it has written lies in the
`sendBuffer` as it should, parity included (`Laid`). That no slice leaves the ring
is needed from each call of `wraparound`; that a decode is given exactly K blocks
(`Survivors`) is what `CodeAssumption` speaks about.

`ECBufferRing` goes on with the card and the receiving half:

    THEOREM PendingIsKept     == NoSpare => (Spec => []PendingKept)
    THEOREM ValidBelongs      == NoSpare => (Spec => []ValidIsCurrent)
    THEOREM StripesAreChannel == NoSpare => (Spec => ImplementsChannel)
    THEOREM SlotsAreEnough    == NoSpare => (Spec => []QueuesSuffice)

`NoSpare == M <= 1 \/ Coded = 0` says that no message has more than K blocks sent.
It is a hypothesis and no assumption of the module. The code accepts any number of
parity blocks, but with two or more a coded message has a block to spare: `receive`
goes on while the card still holds a write for the stripe it leaves, and the first
three properties fail: TLC refutes each in the configuration of `ec_early`.
`ec_ring` and `ec_progress` satisfy `NoSpare`, with coded and with plain messages.

The invariant is `RingInv == SendInv /\ RingPart`. Nothing orders one queue pair
after another, so it speaks of one block at a time: which blocks `send` has posted
(`Posted`, a function of where it stands); each write with queue pair q carries the
bytes of a posted block and finds them in the `sendBuffer` (`Slices`); the writes of
a queue pair follow each other, and what comes before the first of them is placed
(`Order`); behind a validity word all of its block is there and no write of it is
left (`Whole`); every byte of the `receiveBuffer` that is not zero belongs to the
stripe `receive` is taking out or to a posted block from then on (`Nonzero`).
`Receiving` says at each statement of `receive` what it has made of its stripe.
The argument turns on two places. A found validity word belongs to the current stripe
because of `Nonzero` and because two bytes that share a cell are a ring apart, and
posted stripes lie within one ring (`Window`, `SameSpot`). And a stripe is left only
when nothing of it is with the card: the K blocks that were found are all that are due
(`DueSize`), which is where `NoSpare` is used.

`StartSend` is the channel's `Send`, `CopyPayload` its `Receive`. A message that
was received although its encode or decode failed counts as received right, as in
`ImplementsChannel`: what is proved of it is that it takes one message's place and
spoils no other. Whether anything is received after it is a question of liveness.
The decoding uses `CodeAssumption` and nothing else of the code.

`SlotsAreEnough` counts slots by queue pair. Those of queue pair b come back when its
own read completes, and the reads go round: by then K + M - 1 others have landed.
`SlotInv` remembers, for each b, how many stripes f were known to be received when b
had its slots back (`Since`), and how many reads have landed after it (`Turns`, a
function of `readQp`). Each of those moved `currentRemoteReceive` by at most
`ReadStripes` stripes (`ReadGrants`), because a stripe that was received had its last
data block posted, and `send` never posts further than a ring ahead of what it knows
(`Granting`). So the blocks of b from f on are bounded; each takes a slot and one more
if it crosses the end of the ring, which the positions of the stripes count
(`Slots`, `Laps`, `LapsBound`). The proof attempt corrected the property: in a ring
whose remainder behind the last whole stripe holds a stripe's data blocks but
not its parity blocks, one read can grant a stripe more than fit the ring, and a
bound without it is too small.

`ECCalcProofs` treats any number of threads, calculations, blocks and jobs:

    THEOREM TypesHold            == Spec => []TypeOK
    THEOREM PoolStaysIntact      == Spec => []PoolIntact
    THEOREM JobsAreKept          == Spec => []JobKept
    THEOREM EmptyListTakesCalls  == ~Spurious => (Spec => []EmptyTakesAsManyCalls)
    THEOREM CallsAreSynchronous  == ~Spurious => (Spec => []Synchronous)
    THEOREM SignalsReachSleepers == ~Spurious => (Spec => []SignalToCome)

`TypeOK` bounds the semaphore, which is posted from two places; the bound needs a
count of who holds a unit (`Counted`: calls, started calculations, the callback)
and that each call has a job of its own (`OwnJobs`). `PoolIntact` is a sum of
cardinalities; the invariant `PoolInv` says the same without numbers, that no two
places hold the same calculation (`Distinct`) and none is nowhere (`Covered`).
`SyncInv` pairs sleepers and calculations: the mutex is with whom the program
counter says (`Locked`), and each started calculation or unsignalled callback has
exactly one call waiting for it (`Answered`). `~Spurious` excludes what POSIX
allows and the code does not provide for, a condition variable that returns
unasked. Without that hypothesis `Synchronous` fails (run `calc_unasked`), and so
does `EmptyTakesAsManyCalls`: a call that returned early leaves its calculation
with the library. `EmptyTakesAsManyCalls` follows from `PoolInv` and `SyncInv`:
with an empty list each calculation is with a call that took it, with the library,
and then a call waits for it, or with the callback, which runs for one at a time;
that one is matched with the call at the empty list. So there are no more
calculations than calls. `JobInv` follows a text through strtok: the digits a call
has consumed are in its array, the others are still ahead, and what it counted is
what it marked (`Scanned`), after which nobody else writes the calculation's
arrays (`MarksKept`, `Ready`). That the k-th missing block exists is an induction
over blocks; it is proved from the well-foundedness of finite sets
(`LeastElement`), which gives induction without an operator parameter.

`CompletionQueuePairProofs` treats any number of threads, completions and faults:

    THEOREM TypesHold            == Spec => []TypeOK
    THEOREM EachExactlyOnce      == Spec => []ExactlyOnce
    THEOREM EventsAreDisciplined == Spec => []EventDiscipline
    THEOREM WakeupsAreKept       == Spec => []NoLostWakeup
    THEOREM WaitsKeepOrder       == Spec => WaitOrder

The mutex conjunct of `TypeOK` makes everything inside a wait sequential
(`OneInside`), but polls and the card go on beside it. `ExactlyOnce` is inductive
together with the types; its proof is about how often an element occurs in a
sequence from which one is removed (`HitsWithout`). `NoLostWakeup` needs
`DrainsArmed`: a wait that is emptying a queue has armed it again, so what completes
after the last poll has raised an event. `WaitOrder` is an action property; it
follows from `OrderInv`, which orders a completion in a wait's hands before all
that is in the cache and in the queue, and these among themselves, and says that
a wait that goes to the card has nothing to find in the cache (`NoneCached`).

`PingPongProofs` proves, for any number of messages, wherever either program
throws or is destroyed,

    THEOREM InLockStep        == Spec => []LockStep
    THEOREM OnlyTheLastIsLost == Spec => []OnlyLastLost

by `LoopInv`: each sequence is a prefix of the one it echoes (`Echoes`), their
lengths differ by whose turn it is (`Rounds`), and the phase tells how far the
server had come when it began to give back its buffer (`Ends`), which is what the
loss of an answer depends on.

`BootstrapProofs` proves, for every number of queue pairs, both classes, any number
of failures and of reads that come short,

    THEOREM QueuePairsArePaired == Spec => []Paired
    THEOREM PeerIsReady         == Spec => []PeerReady
    THEOREM GidSurvives == \A gid \in [1 .. 16 -> Byte] : wire_gid_to_gid(gid_to_wire_gid(gid)) = gid

The first two are about two programs that wait for each other only in `tcp_read`.
Where an endpoint stands in its `Plan` says what it has written and read, so the
proof begins with the plans: `PlanShape` finds in each of them the seven calls per
queue pair, the registrations and the exchange of the descriptors, and `Counting`
and `StateSteps` say what each step adds to the words written, the words read and
the state of a queue pair. `BootInv` then relates the two endpoints: a stream holds
what its writer has written beyond what the reader has read, word for word
(`Streams`), as long as the reader is `Sound`, that is, it never read in part and
its peer has not closed; the record `exchangeQPNAndConnect` writes from and reads
into is the endpoint's own address and then its peer's (`Records`); queue pairs and
resources are what the steps so far have made them, until something is given back
(`Built`). `Paired` is not inductive without `Records`, nor `Records` without
`Streams`. `PeerReady` follows: the words of the peer's descriptor cannot have been
read unless the peer had written them, and by then it had connected every queue
pair and registered its memory. That `BootInv` survives an exception, a
destructor and the end of a program is one lemma (`StopInv`).
`GidSurvives` uses `PortGid` nowhere; `Paired` needs it for the destinations.

`BootstrapProofs` also proves, in the same generality, what destructors do,

    THEOREM NothingIsFreedInUse     == Spec => []NothingUsedIsFreed
    THEOREM OnlyHalfConnectedAborts == Spec => []AbortsOnlyHalfConnected
    THEOREM OnlyOrphansAreLeft      == Spec => []OnlyOrphansLeft

by one invariant, `HoldInv`. With `A` what the steps so far have acquired and `O`
what objects have taken over, it says that the calls the destructors would make
are distinct, free nothing but `O`, and free every resource before what it uses,
unless that has no owner; while the endpoint runs they free all of `O`; and what
the endpoint holds is what has no owner and what is yet to be freed (`Holding`).
The three properties follow from it, none of them is inductive: what is freed next
is in order only if what comes after it in the list is.

A completed object must then fit into that order, which depends on the plan
(`StepHolds`): everything its destructor frees and what that uses has been acquired
(`Supplied`), and either it takes over every call that is in the list, as Network
does with the receive queue's, or it frees nothing that the objects before it free
or use (`OwnersApart`). Both are shown once for all numbers of queue pairs. The
plan is cut into sections (`PlanSections`), of each of which it is known what it
acquires and what it completes (`AcquiresAt`, `FreesAt`). Resources have the rank of
the part of the program they belong to, and use only what has a lower one
(`Ranks`), so that two objects of different parts need not be compared. Within a
part there are a few objects, each a few calls long, but for the queue pairs, whose
destructor is a sequence as long as there are queue pairs. `TakeoverOf` shows that
the calls `Takeover` drops are those of the members; it is written with `Older`
instead of a filter of the list because a filter is defined by recursion over it.

`AbortsOnlyHalfConnected` rests on `Orphans`: if a resource has an owner, what it
uses was acquired without one, and the driver would refuse to free the first
because of the second, then the step is one of the exchange of an ECBuffer and the
second resource is a queue pair.

`PingPongProofs` proves with these invariants

    THEOREM TypesHold == Spec => []TypeOK

whose part that is not about the types alone is that a record being read never
holds a word of a descriptor, and a stream nothing but the words of the records in
their order, even when an endpoint reads out of step. `WordInv` states it: a reader
has never taken more words than it asked for, so that the reads of addresses end
within the words of addresses (`SentWordSorted`, `WordsReceived`).

Only model-checked:

- liveness and fairness, which the prover cannot treat;
- `ECBuffer` in configurations with spare blocks, of which `ec_early` shows that
  the properties fail, `QueuesSuffice` excepted.

## Disagreements between code and comments

| Run | What happens |
|---|---|
| `ring_collision` | While the length word still reads as zero, `receive` takes the first word of the payload for the validity word. A payload that begins with `0xDEADDEADBEEFBEEF` is delivered as an empty message. The comment at `src/RDMAMessageBuffer.cpp:11` calls the value arbitrary. |
| `cq_abandoned` | A failed completion throws out of the drain after the queue was armed again. What is left in the queue raises no event, against the comment at `src/rdma/CompletionQueuePair.cpp:154`, and the next wait sleeps beside it. |
| `ec_early` | With two or more parity blocks, K of the K - 1 + M blocks sent are enough to finish a stripe. The last block arrives later, in a stripe that is already zeroed, and counts for the next one. `src/rdmaPingPong.cpp:58` throws on the wrong size. |
| `calc_unasked` | `encode` waits once on a condition variable and tests nothing, so it may return before the parity is there. The comment at `src/rdma/ECCalc.cpp:310` calls it synchronous. |
| `boot_segments` | `tcp_read` takes what `recv` returns for the whole record. If an address comes in two segments, the queue pair is connected to a mixture of two addresses, and later reads are out of step. The comment at `src/ECBuffer.cpp:49` says of the call "receive qpn". |

## What is not modelled

- Endpoints started with different ring sizes, block sizes or numbers of blocks.
  Nothing is exchanged about them; the models give both sides the same.
- `ECBuffer::hasData`, which changes no state, and torn words of ECBuffer: the
  same loop is modelled byte by byte in RDMAMessageBuffer.
- The builders and setters of WorkRequest that have no caller: compare-and-swap,
  fetch-and-add, immediate data, more than one slice. What the two buffers build
  is part of their actions.
- A poll whose `ibv_poll_cq` fails reads a completion nobody wrote before it
  throws; no state changes.
- Completion queues that overflow: fatal to the queue, handled nowhere.
- What `alloc_decode_matrix` reads and writes outside its arrays when tangled texts
  mark more blocks than M, and what `decode` writes to erased parity blocks, which
  are zeroed next.
- The arithmetic of the offload library and of Jerasure: any maximum distance
  separable code.
- The int bit masks of ECBuffer from 31 blocks on, and 64-bit positions that wrap:
  out of reach of what can be configured and sent.
- Arguments of the programs, time measurement, `printCapabilities`,
  `printQueuePairDetails`, `print_matrix_u8` and error messages: output only.
