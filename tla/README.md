# Verification of IocpServer_1

TLA+ models, TLC runs and TLAPS proofs for the IOCP echo server in
`src/IocpServer_1` and for the part of FlatBuffers that its protocol needs.

## The system

A Windows server with one listening socket, one I/O completion port and five
threads: the main thread, which runs `IOCompletionPort::Process` and takes
completions from the port, and four worker threads, one each for accepts, receives,
sends and disconnects. The dispatcher turns each completion into a `Packet` and
pushes it onto the queue of a worker; the worker calls the callback of `EchoServer`
for it and pops the packet when the callback returns. The callbacks look up the
client (`ClientDataSet`) and arm its socket again. Messages are FlatBuffers, with
code that flatc has generated from a schema; the library is vendored with the server.

At this commit the bodies of `EchoServer::Init` and `EchoServer::Process` are
commented out (EchoServer.h:76-98 and :123), `MessageProcess` is not finished, and the
brace that closes it is missing (EchoServer.h has 22 `{` and 21 `}`). Everything
here about the composed server is about the server as those two bodies wire it.
The queue, the port, the buffering, the packets and the library do not depend on that.

### Inventory

| Component | State | Operations | What is hard | Correct when |
|---|---|---|---|---|
| `LockFreeCircleQueue` | slots, `inputIndex`, `outputIndex` | `push`, `pop`, `empty`, `Front`, `size` | no lock: slot accesses against index stores, wrap-around, full against empty | it is a bounded first-in first-out queue |
| `IOCompletionPort` | completion port, four queues, four workers | the loop of `Process`, four worker loops | results routed by type, success and byte count; results of `push` ignored | one ordered channel per callback |
| Winsock set-up | sockets, port handle, `mAcceptExPointer` | `IOCompletionPort::Init`, `PrepareSocket`, the first `TryAccept` | seven calls that may fail, a caller that does not hear of it and goes on | what was done is undone but for the ports; nobody waits for a connection that nobody would hear of |
| `EchoServer` | client map, `accumulatedClientId`, `currentClientCount`, `currentClientMax` | `Accept`, `Receive`, `Send`, `Disconnect`, `PrepareSocket` | counters loaded and stored from two threads; events of one client on different threads | a socket is in one place; data is handled before the disconnect |
| `ClientDataSet`, arming | `mIsConnet`, `mAcceptContext`, `mReceiveContext` | `TryAccept`, `FeedBack_Accept`, `ReceiveReady` | contexts reused while in flight, failures ignored | one call in flight per context |
| `ClientDataSet`, receiving | `mReceiveBuffer`, `mReceiveDataQueue` | `FeedBack_Receive`, `ReceiveInternalWork` | packet against DataPacket boundaries | the byte stream survives |
| `ClientDataSet`, sending | `mSendDataQueue` | `SendRequest`, `SendInternalWork`, `FeedBack_Send` | who starts the next WSASend | one WSASend at a time, in order, no queue that waits for nothing |
| `Packet`, `CustomOverlapped` | heap buffers | copy, assignment, `Set`, destructor | copies in slots, parameters and results | each buffer deleted once |
| `main` | | `Init`, `Process` | the server starts after a set-up that may have failed | see the set-up |
| Message schema | | generated builders, accessors, `Verify` | offsets read from a buffer | what was sent is read |
| `MessageProcess` | none | a switch whose cases do nothing | | not called |
| FlatBuffers: `vector_downward` | one allocation, two vectors | push, pop, fill, scratch pad, growing | reallocation at every moment | contents kept |
| FlatBuffers: memory | allocators, buffers, slices | move, swap, reset, release of three classes | who frees what, with which allocator | once, and rightly |
| FlatBuffers: builder | buffer, vtables, fields, string pool | everything that writes | alignment, shared vtables and strings, 64-bit offsets | all reads back |
| FlatBuffers: verifier | limits, position | every `Verify...` | any bytes at all may arrive | accepted means readable |
| the rest of FlatBuffers, `Player` | | | schema compiler, reflection at run time, FlexBuffers; an empty header | |

How they interact: the operating system completes a call; `Process` pushes a packet
(dispatcher thread); a worker calls back (worker thread); the callback changes the
client and the counters and issues the next AcceptEx or WSARecv, which completes
later. Between the threads there are only the queues, the atomic counters and the
operating system.

## Modules

### The server

**LockFreeCircleQueue** is the queue at the grain of its accesses to shared memory:
one producer and one consumer, each load of the other thread's index, each slot
access and each store of an index is a step. `PushCheck, PushWrite, PushPublish` are
`push`; `NotEmpty, Front` and `PopCheck, PopRead, PopRelease` are the worker's
`empty(); Front(); pop();`; `SizeAhead, SizeBehind, SizeReload` are `size`. Loads and
stores of the indices are acquire and release in the code, and all accesses to a slot
are ordered by them, so interleaving them over one memory loses no behaviour.
**BoundedFifo** is what the queue promises, in atomic steps.

**IOCompletionPort** takes the queues as such atomic queues and models the dispatcher
(`Dispatch`: route by `Destinations`, `Push` with its ignored result) and the workers
(`Call`, then `Pop`). **CompletionDelivery** is what it promises: one first-in
first-out channel per callback, which loses a packet only when full.

**EchoServer** composes the port (an INSTANCE on the variables `port`, `queue`,
`working`) with the callbacks. `at[w]` is where worker `w` is: `Start` (`Front` and the
lookup), the steps of the callback, `Return` (`pop`). In `Accept` they are
`FeedBack_Accept` (mIsConnet and the first WSARecv), `LoadCount`, `StoreCount`, the
check (`StillRoom` or `PrepareMore`); in `Disconnect`, `LoadCount`, `StoreCount`,
`DisconnectTryAccept`; in `Receive`, `FeedBack_Receive`. The operating system and the
peers are the environment: they connect, send, close or reset at any time, and complete
AcceptEx and WSARecv calls, with any part of the unread data; an AcceptEx may fail, and
a WSARecv on a reset connection may fail at the call, after which nothing completes.
**ConnectionLifecycle** is what it promises about each client: armed once, connected
once, data in order and only while connected, left once, and only with everything
handled or after a reset.

`PrepareFirst`, the last thing `Init` does, and `PrepareMore` call `PrepareSocket`, whose
WSASocket and CreateIoCompletionPort may fail and are not checked: a client of the map may
have no socket (it is not in `created`; its AcceptEx fails), or one that is not tied to the
port (not in `tied`; its WSARecv is in flight for ever, since nobody hears of it). The
completion of an AcceptEx comes through the listening socket, so such a client is accepted.

**WinsockSetup** is `IOCompletionPort::Init` call by call, each of which may fail and
then takes its early return, and what the first `PrepareSocket` finds after it, with the
ports it makes when mIOCPHandle is NULL and the null pointer that `TryAccept` may call.
**Main** composes it with EchoServer: `Init`, then `Process`, whatever has failed before.

**ReceiveReassembly** is `FeedBack_Receive` and the recursion of `ReceiveInternalWork`
on the bytes of one client, a byte being its position in the stream. That packets of
one client come one at a time, each after the `ReceiveReady` of the one before, is
`ReceiveChain` of EchoServer.

**ClientSend** is the other direction: `SendRequest` and `FeedBack_Send`, each a step,
with `SendInternalWork`, whose WSASend may fail when it is called. In the code SendRequest
would run on the send worker, and nothing calls FeedBack_Send. The module says what the two
promise an owner that calls them from one thread, in any order: nothing is assumed about
when, only that FeedBack_Send is called no more often than a WSASend has completed.

**PacketOwnership** follows the heap buffers of received messages through every Packet
object there is: `newPacket` in `Process`, the slots of `receiveQueue`, what `Front`
returns, the callback's parameter, the local and the result of `pop`. `Replace` is the
delete-then-allocate that the constructors, the assignment, `Set` and the destructor
share. The callback either makes DataPackets or answers with `SendRequest`, whose
context takes the Packet's buffer.

### The messages

**FlatBufferFormat** reads the wire format from a sequence of bytes: scalars, vtables,
fields, vectors, strings, roots. **VectorDownward** is the memory of a builder, byte by
byte: `back` and `front` are what the caller pushed, `mem` is the allocation, and each
call may move it. **BufferOwnership** is who owns such allocations: FlatBufferBuilder,
DetachedBuffer and the MessageBuilder of grpc.h under moves, swaps, resets and releases.
Left out are the operations that MessageBuilder inherits from FlatBufferBuilder and does not
redefine, Release above all, and a move from it into a plain builder: the buffer and the
slice allocator would part, which the assertions of SliceAllocator (grpc.h) forbid, and no
code calls them.
**MCBuilderMemory** runs both; they have no state in common, so an invariant of one is
unaffected by steps of the other, and each behaviour takes steps of one of them.

**FlatBufferBuilder** has every operation of the builder as a function from a builder to
a builder; **BuilderSession** calls them in any order their assertions allow and
remembers what was created.

**TableTypes** says how generated code is described: a table type is a list of fields in
the order of `Verify`, and the order in which `Create` adds them. **MessageSchema**
(MESSAGE_WRAPPER_generated.h) and **ReflectionSchema** (reflection_generated.h) are two
schemas, one definition per table. **GeneratedCode** is what all generated `Create`,
`CreateDirect`, accessors and key lookups do, and **Verifier** what all `Verify` members
do, check by check and with the limits of the Verifier class. **BufferExchange** sends a
finished buffer, damages it or not, verifies and reads it.

Modules named MC... give the constants of a module the values of a run, as model values or
definitions; ClientSend, Main and EchoServer need none, their configurations are enough.

The operators commented "Fault" are wrong variants of code definitions. Nothing uses
them; each shows that some property would notice such a bug.

## Runs

| Run | Question | Bounds |
|---|---|---|
| `queue` | Do two threads ever touch the same slot, is the ring a bounded queue, is every element delivered? | 4 slots, 2 elements; the indices wrap in both directions |
| `queue_size` | Is `size()` the difference of the indices? No | same |
| `port` | Are dispatcher, queues and workers one channel per callback? | 2 clients, capacity 2, 3 completions under way: enough to overflow a queue |
| `server` | What does a failing set-up leave behind, and does such a program wait for a connection; what can be outstanding for a client, in which order are its events handled, what do lost counter updates do; does every socket follow its life cycle? | every call of the set-up fails or not, and so does the making and tying of each socket; 2 connections on up to 4 sockets, 2 segments per peer, capacity 3 |
| `server_liveness` | Is everything sent handled, every close noticed, and is there another AcceptEx while nobody leaves and none fails? | 2 connections, sockets that are not made or not tied; see ServerLiveness.cfg |
| `server_recycles` | Is the socket of a client that left armed again? No | as `server`, fewer segments |
| `reassembly` | Does the stream survive buffering, and is all of it handled before the next WSARecv? | 24 bytes, DataPackets of 3, received packets of 1 to 8, capacity 3 |
| `send` | Is a completion always that of the front, is everything queued started once and in order, does a queue always wait for exactly one WSASend? | queue of 3, 8 requests, WSASend may fail |
| `packets` | Does every buffer have one owner, through all copies? | ring of 3 slots, 7 blocks, 2 DataPackets, 1 send context |
| `memory` | Does a builder's memory keep what was pushed; is each block freed once, rightly? | 6 bytes, calls of up to 3; two objects of each of three classes, 4 blocks, one custom allocator |
| `builder` | Does everything built read back, aligned, with vtables and strings shared? | two objects of any kind with all options; three tables; four strings; 64-bit offsets |
| `exchange` | Is what the verifier accepts readable, and is what was sent accepted and read? | all messages; some damaged at every byte; trees of tables with every kind of field; binary schemas |

Why the bounds are enough.

* A ring of 4 slots has every relative position of two indices, with and without a wrap.
* Two connections on the sockets prepared give every pair of events of one client and of
  two clients on different workers: an accept against a disconnect, a receive against a
  disconnect, `PrepareSocket` against both. Capacity 3 is the smallest that `ReceiveChain`
  allows: a receive packet stays in its queue until its callback has returned, that is,
  after the next WSARecv has been posted, so one client may have two packets in
  `receiveQueue`, and two clients three; the fault `PushShort`, which has room for two,
  violates ReceiveChain. With n connected clients the queue must hold n + 1: the code's 99
  slots are enough for 98 clients that send at the same time, and beyond that a packet,
  and with it the client's only WSARecv, can be lost.
* In `reassembly` the capacity is the least that BufferAssumption allows (3 * 3 >= 8); the
  code has 99 * 10 >= 256. The stream is long enough for two packets larger than two
  DataPackets, and for the buffer to be at every length in between.
* In `send` a queue of 3 is empty, has one, has some, is full, and refuses; 8 requests refill
  it after each of those. In `packets`, 3 slots are all used again several times; 7 blocks are
  enough for all Packets alive at once (3 slots, newPacket, two copies) and a DataPacket.
* In `memory` lengths up to 3 with an initial size of 1 and an alignment of 2 make the
  allocation grow several times from every state of the two vectors. Two objects of a
  class are what a move, a swap or an assignment has.
* In `builder`, two objects are enough for any pair of neighbours, three tables for two
  that share a vtable with one in between. In `exchange`, every byte of the damaged
  buffers takes values that are offsets inside, outside and just at the ends.

Deadlock is not checked where the system may rest or a bound ends it: the server rests
when no peer does anything more, streams, messages and documents are bounded.

Fairness. Liveness assumes that each thread keeps running its loop (weak fairness of the
dispatcher and of each worker; the loops in IOCompletionPort.h have no exit while the
server is on), that the operating system completes a WSARecv whose connection has
data, an end or an error, if its socket is tied to the port. Peers need never act, and
no AcceptEx need complete. Of the calls of `SendRequest` and `FeedBack_Send` nothing is
assumed: `WaitsForOne` is a safety property.

### What the runs found

* `queue_size`: `size()` compares one load of `outputIndex` and computes with a second
  one (LockFreeCircleQueue.h:75). If the consumer wraps to 0 in between it returns
  MAX_QUEUE_SIZE or more.
* `server_recycles`: the comments speak of recycled sockets (ClientDataSet.h:31, :69),
  and `Disconnect` calls `TryAccept` for the client that left; but `mIsConnet` is never
  reset, so `TryAccept` returns at once. As `Disconnect` also lowers
  `currentClientCount`, the next `Accept` believes that a socket is free and prepares
  none: the server ends up with no AcceptEx in flight. `KeepsAccepting` shows that it
  keeps accepting as long as nobody leaves.

### What modelling showed besides

Not runs of their own; the modules are written so that the properties checked are true.

* The comment at ClientDataSet.h:133 says data is released from the threshold on; the
  loop in the next line releases it above the threshold, so that up to ten bytes stay in
  the buffer, also when no more data ever comes.
* As wired nothing is ever sent: the send worker's callback calls `SendRequest`, but its
  queue gets a packet only from a completed WSASend, and only `SendRequest` starts one.
  Main.cpp:183 calls the program an echo server that returns what clients send.
* `SendRequest` and `FeedBack_Send`, which nothing calls, would only be right on one thread: on two, `size() == 1`
  (ClientDataSet.h:191) and `!empty()` (:217) can both start the same context.
* `SendInternalWork` gives WSASend the member `mSendContext.wsabuf`, which nothing sets,
  and `FeedBack_Send` prints the buffer of the queued context as sent (:204, :212).
* The context queued by `SendRequest` points to the buffer of a Packet that is destroyed
  when the callback returns, and `FeedBack_Send` deletes it again (:185, :214). `NoneLost`
  and `OneOwner` say what holds until then, and when the callback does not answer.
* Updates of `currentClientCount` are lost when `Accept` and `Disconnect` overlap, and it
  may be -1 for a while; `CountAtMostConnected` is the part that survives, and it is why
  `PrepareSocket`, which calls `TryAccept` for the whole map, still arms new sockets
  only (`AcceptChain`).
* When WSAIoctl fails, `Init` goes on and prints "Ready Complete"
  (IOCompletionPort.h:134-142), and the first `TryAccept` calls a null pointer. When
  tying the listening socket to the port fails, the port is left open (:119). When the port
  cannot be created, mIOCPHandle is NULL and the socket of `PrepareSocket` is
  INVALID_SOCKET, which is INVALID_HANDLE_VALUE: CreateIoCompletionPort (:148) then makes a
  port that nothing refers to. `LeftByInit` names both.
* When WSASocket fails in `Accept`'s `PrepareSocket` (:147), currentClientMax is raised all
  the same: `Accept` takes the missing socket for a free one and, with no AcceptEx left in
  flight, prepares none again. So it does when an AcceptEx fails. `KeepsAccepting` holds
  without either, though with sockets that could not be tied.
* `MessageProcess` constructs a verifier, never asks it, and follows the offsets of whatever
  the packet holds (EchoServer.h:189-195); a packet has at most ten bytes, fewer than any
  message. Nothing calls it.
* `vector_downward::max_size_` is "the maximum size the vector can be", but the assertion
  at :146 is made before the push and is of `size() < max_size_`; and `size()`, called the
  size of both parts (:165), is that of the data alone.
* With 64-bit offsets in front, `EndTable` looks for earlier vtables at offsets relative to
  the 32-bit region, but from the end of the whole buffer (flatbuffer_builder.h:461-466):
  it compares with other bytes. The string pool looks up shared strings the same way (:1335).
  In BuilderSession a 64-bit builder shares neither (`UsesAssumption`).
* The string pool's comparison keeps a pointer to the buffer of the builder that made it
  (flatbuffer_builder.h:1340): after a swap or a move it compares strings in the wrong one.
  BuilderSession has one builder and does not move it.

## Proofs

TLAPS checks all of these for every value of the constants that the named assumptions
allow. The inductive invariant is `IInv` (`MainInv` in Main, `ServerInv` in EchoServer);
TLC has checked it on an instance (the builder's, which quantifies over all sequences of
bytes, only in what follows from it), and each proof module has a lemma for each operation
or group of them.

`Main_proofs`, of EchoServer, for any numbers of connections, sockets, segments and port
sockets that CountsAssumption and BoundsAssumption allow: `TypeCorrect`, `SocketsArmedOnce`
(AcceptChain), `CountBounded` (CountAtMostConnected), `HandledBeforeDisconnect`
(DataBeforeDisconnect), `NoPacketDropped` (ReceiveChain) and `LivesOnce`
(ImplementsLifecycle). The properties count calls in flight, packets in two queues and
callbacks being run, of one client or of all. `Chain` is such a sum, so the first third of
the module says what each step does to its terms: what an append to a queue, the callback
at its front and the removal of the front do to the packets counted (`Counted...`), and a
worker going on to the sum over all workers (`Sums`, `SumsNext`). On these rest the parts
of `ServerInv`:

* `ServerTypes`: besides TypeOK, a packet in a worker's hands is the front of its queue
  (`InHand`), each callback is at a label of its own (`InCallback`), and no WSASend is made
  and nothing unread was not sent (`Segments`).
* `ConnectionFirst`: peers connect on sockets of the map, on at most MaxConnections of
  them, and before their accept is under way, so that `TryAccept` finds nobody connected
  who has not come by `Accept`.
* `AcceptChain`, which is inductive with these, and `AtMostOneChain`: the WSARecvs,
  received packets, disconnects and callbacks of one client are together at most one if it
  is connected and none if not, also when a packet was lost.
* `CountInv`: `currentClientCount`, and what the callbacks under way have loaded and will
  store, are bounded by the connected clients, so that no lost update lifts it.
* `NothingSkipped`: wherever the next segments of a client are, in flight or in a queue,
  what was handled before them, they and what is unread make up what was sent; a
  disconnect comes only when nothing is left.

`NoPacketDropped` is for `Capacity > MaxConnections`: in a queue of one place less than
that, a client finds room because the packets there are of different clients, except one
that is still at the front while its callback has already posted the next WSARecv
(`FindsRoom`, by an injection of the queue's places into the connected clients; `NoneLost`
then says that each connected client has exactly one chain). The bound cannot be better:
with capacity and connections equal TLC finds a lost packet. The code's 99 places are
enough for 98 clients. For `LivesOnce` each step of the server is a step of
ConnectionLifecycle or a stutter: `FeedBack_Accept` is Connect, `PrepareSocket` Arm, the
disconnect callback's start Leave, `FeedBack_Receive` Handle, the peers' steps Send and
Reset, and all others leave the mapped state alone.

`LockFreeCircleQueue_proofs`, for every MAX_QUEUE_SIZE of at least 2 and any elements:
`Invariance`, `TypeCorrect`, `NoRace` and `RefinesFifo`. NoSlotRace is not inductive:
that the producer is about to write a free slot follows from its earlier check, so the
invariant `IInv` says of both threads that what they have checked is still true
(`RoomToWrite`, `SomethingToRead`), because the other thread can only make it more
true, and that what they have copied is still there (`Written`, `CopiesAgree`). For the
refinement, `Items` is the stretch of the ring from the output to the input index;
`WriteKeepsItems`, `PublishAppends` and `ReleaseRemoves` say what each step does to it.

`IOCompletionPort_proofs`, for any clients, sizes and capacity: `TypeCorrect` and
`RefinesDelivery`, that dispatcher, queues and workers are one ordered channel per
callback. The strengthening is `InHand`: a worker's packet stays the oldest of its queue
until `pop`, because nobody else removes and `push` appends. The packets of a channel are
those in its queue and then those the port has for it, so what has to be shown is what an
arrival and a removal at the port do to the latter. They are selected by the place of
their completions, the k-th smallest of a set of places (`Nth`; that there is exactly one
for each k is shown by an injection of the set into the numbers up to its size), and
`SelectedAppend` and `SelectedTail` say how the selection follows the port. Each step is
then one of the channel: a completion is Arrive or, when it leads to no callback, nothing;
`Dispatch` moves a packet within its channel or, when the queue is full, is Lose; a call
is Begin and a pop End. All this holds of any use of the port (`PortSpec`, without the
bound MaxWaiting of the run): that is `AnyUseDelivers`, and `RefinesDelivery` follows.
`UsesThePort` in Main_proofs shows that the server is such a use, step by step, so
`DeliversInOrder` holds of the server and `ProgramDeliversInOrder` of the program.

`ReceiveReassembly_proofs`, for all sizes with
`MAX_SOCK_RECVBUF <= Capacity * mBufferSize`: `Invariance`, `TypeCorrect`,
`StreamIsPreserved` and `NoneIsLeftBehind`. The queue and the buffer are stretches of the
stream; a push that found the queue full would break that, so `IInv` adds
`RoomForTheRest`: queue and buffer together are never more than the queue holds and one
more DataPacket, hence there is room whenever the loop has something to push.

`ClientSend_proofs`, for every capacity of at least 2 and any number of requests:
`OneIsWaitedFor` (WaitsForOne), `FrontIsCompleted` and `OrderIsKept`. `Ordered` says that
the queue is the end of what was stored and what was started its beginning: all that was
removed, and the front. `StartKeeps` is the heart: of a queue that nobody waits for, the
front is the next in order, and once it is started it is what is waited for. The
capacity of 2 is needed: in a queue of one, `size()` is 1 also after a refused request.

`PacketOwnership_proofs`, for every ring of at least 2 slots and any blocks:
`EveryBlockHasOneOwner` and `NoBlockIsLost`. `Unborn` is the strengthening: an object that
is not alive holds nothing, so that constructing it loses nothing; `Owned` is NoneLost
without its premise. `Replace` has a lemma of its own, and each operation cites it.

`Main_proofs`, of the whole program, for any numbers of sockets and whichever calls fail:
`FailureLeaves` (LeftByInit) and `ArmedMeansHeard` (ArmedIsHeard). `InOrder` says what has
been done by each label of the code when nothing has failed, `GaveUp` what a failure
allows, and `ClientsLast` that PrepareSocket finds sockets only after an `Init` in which
nothing failed: WSASocket needs Winsock, which every early return has shut down, and
TryAccept the pointer. Process is not held back by a failure; that nothing is in flight
then is because an AcceptEx needs a socket (`AcceptChain`), and so does a completion
(`ConnectionFirst`). As every step of Main is one of EchoServer or leaves it alone,
corollaries state the theorems about the server for the program.

`BuilderMemory_proofs`, for all sizes, alignments and bytes: `VectorsIntact`, that data and
scratch pad never meet and hold what was pushed through every reallocation; it is
inductive as it stands, and what has to be shown is that growing moves every byte to where
it is looked for.

The same module, for any builders, buffers, messages, allocators and blocks with
different names (ClassesAssumption, NamesAssumption): `RightlyFreed`, `EachBlockOwned` and
`AllocatorsOutlive`. An operation is a composition of operators on states (a move
assignment constructs a temporary, swaps twice and destroys it), so the invariant `Sound`
is one of every state, those within an operation included, and each operator has one
lemma. Its parts: what is not constructed holds nothing (`Unborn`); an object is the
allocator of its own slice, which is the block it writes to, or has an allocator that
exists (`Served`); a block is held by an object whose allocator is the one it came from,
or the caller has it (`Returnable`); no two objects hold one block, and an owned allocator
has one user (`Apart`). `Returnable` is why AllocatorOutlives is inductive: an object that
deletes its allocator is the only one with blocks from it.

`BuilderSession_proofs`, for any uses that UsesAssumption allows, any contents, any number
of objects and any order of the calls: `Readable` (ReadsAsWritten), `AlignedWhenFinished`
(Aligned), `OneVTablePerLayout` (VTablesShared), `OneStringPerContent` (PooledOnce),
`TypeCorrect` and `BytesStay`. The run `builder` has at most four objects and a few strings
and scalars; here nothing is bounded but what the code bounds: a buffer stays below
FLATBUFFERS_MAX_BUFFER_SIZE and a table below 65536 bytes, as the assertions in
`ensure_space` and `EndTable` have it (`CanHold`, `CanEndTable`).

ReadsAsWritten is not inductive: that the readers return the right value now says too
little of what is in the buffer to know that they will after the next push, which moves
every address. The argument is therefore about bytes and distances. The builder writes at
the front and hands out offsets from the end, so an object is described by the bytes at
such an offset: `Spot(d, off, x, al)` says that the bytes x are there, that off is a
multiple of al, and that minalign_ is at least al. `Kept(d, c)` says that the buffer of c
ends with that of d and minalign_ has not fallen; it keeps every Spot (this is `BytesStay`
as an action property), and each operation is shown to be Kept and to put its own Spots
in front. An object's Spots (`ObjectThere`) are, for a string, its length, its bytes and the
terminator; for a vector of offsets, references to things further back; for a table, the
offset to its vtable, the vtable and the fields where its slots say. The parts of `IInv`:

* `AllBuilt`: the Spots of every object made are there; `Open`: those of the fields of the
  table under construction, and the scratch pad says where.
* `Layouts`: what vtables_ remembers are whole vtables, so that the comparison in EndTable
  is one of vtables; `Shares`: each table made uses one of them, no two of which are equal.
* `PoolThere`, `OncePooled`: string_pool has offsets of strings, of different contents.
* `RootPlaced`: a finished buffer has the way to its root in front and a multiple of
  minalign_ bytes, so a distance from the end is aligned as the address is.
* `Sound`, `Stage`, `Classes`: the two classes of builder, and which members go together.

EndTable and CreateSharedString write something and may take it back: `EndingSharedLayout`
and the lemmas on shared strings show that what is popped is exactly what was pushed.
That the readers undo the writers is a lemma for each kind (`ReadsString`, `ReadsTheObject`
and those between). Loops over elements are folds in the model, and what a fold returns
for a list of any length is shown by induction over its places: the library's induction
theorems take an operator as a parameter, so `Induction` is stated for a set, and follows
from the well-foundedness of the natural numbers.

UsesAssumption says what the C++ types of the arguments say (bytes; scalars of 1, 2, 4 or 8;
field offsets of 16 bits), and that a 64-bit builder shares neither vtables nor strings.
That last part is a restriction: sharing is on by default, and with it the 64-bit builder
is wrong (see above).

Only model-checked: liveness (PushedIsDelivered, SegmentsHandled, CloseNoticed,
KeepsAccepting), which is beyond the prover here; and the verifier, the
generated code and the exchange, whose definitions are RECURSIVE operators
(tables within tables): the prover does not reason about those.

## Not modelled

* `MessageProcess`: it changes no state, every case of its switch only breaks, and nothing
  calls it.
* Shutdown: `mServerOn` is cleared only by the destructor, and the threads are detached.
* `clear`, `print`, `capacity` of the queue (never called), `OP_DEFAULT` (never used),
  the copy constructor of CustomOverlapped (never called), console output.
* The SO_ERROR check in `TryAccept` once the server runs: a socket gets past the test of
  `mIsConnet` only when it is new (`AcceptChain`), and then it has no error.
* The bytes that WSASend is given: the member it passes is never set.
* The memory of contexts and DataPackets apart from their buffers: contexts are members or
  deleted by `FeedBack_Send`; DataPackets are never deleted.
* Of FlatBuffers, the headers of the schema compiler (idl.h, util.h, code generators), of
  reflection at run time (reflection.h), FlexBuffers (flexbuffers.h), the registry, the
  STL emulation and the hash functions: the server uses none of it, and no code modelled
  here calls it in a way that changes a buffer. `Player` is an empty header.
* The compiler's view: memory orders other than those the queue uses, alignment of the
  memory that `new char[]` returns.

## Plan

Done: the queue, the port, the server with its life cycle, the set-up, receiving, sending,
packet ownership, and the FlatBuffers code the protocol uses, with the proofs above.

Left: properties of `BufferExchange`, for which the verifier and the generated code would
have to be written without RECURSIVE operators, as functions of the depth of tables; and a
session of several builders that are moved and swapped, for the string pool's pointer.
