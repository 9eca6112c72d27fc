# Verification of dart-iouring-transport

TLA+ modules, TLC configurations and TLAPS proofs about the transport library in
`src/`: a Dart package (`src/dart`) on a C library (`src/native`) that performs
network and file operations through Linux io_uring.

1. [The system](#1-the-system)
2. [The modules](#2-the-modules)
3. [Conventions of the models](#3-conventions-of-the-models)
4. [The runs and their bounds](#4-the-runs-and-their-bounds)
5. [Fairness](#5-fairness)
6. [What is proved](#6-what-is-proved)
7. [Where code and documentation disagree](#7-where-code-and-documentation-disagree)
8. [What is only model-checked, what is not modelled](#8-what-is-only-model-checked-what-is-not-modelled)
9. [Plan](#9-plan)

Paths of Dart files below are relative to `src/dart/lib/transport/`, those of C
files to `src/native/`.

## 1. The system

A `Transport` spawns workers. Each worker is an isolate with its own native
structure: a ring, a table of tracked operations, and a fixed number of buffers
of fixed size. Channels (clients, servers, connections, files) belong to one
worker and share its buffers. Applications call the providers; every operation
takes a buffer, submits an SQE whose `user_data` packs descriptor, buffer and
event, and ends when the event loop finds its CQE.

| component | state | operations | interacts with |
|---|---|---|---|
| native buffer pool (`transport_buffers_pool.h`) | `ids`, `count` | push, pop | `Buffers` only |
| `Buffers` (`buffers.dart`) | `_finalizers`, a queue of completers | `get`, `allocate`, `allocateArray`, `release` | every channel; suspends and wakes their futures |
| native worker (`transport_worker.c`) | the ring, its submission queue, `events` keyed by `user_data`, one `msghdr` per buffer | initialize, submit of each kind, `peek`, `cancel_by_fd`, `check_event_timeouts`, `remove_event`, destroy | kernel; channels; event loop; timer; clock |
| hash table of events (`collections/mhash.h`) | buckets, dirty slots, a shadow while it is resized | find, put, del, reserve, resize in steps | the native worker |
| sockets and configurations (`transport_socket.c`, the factories) | descriptors, socket files, fields of configurations | create and bind a socket of each kind, open a file, clean up a failed creation | kernel, file system, registries |
| event loop (`worker.dart`) | `_active`, `_done`, batch of CQEs | `_listen`, `_handleCqes` | routes a CQE by descriptor to the channel in a registry |
| timer (`timeout.dart`) | periodic `Timer` | `start`, `stop` | event table |
| client (`client/`) | `_pending`, `_active`, `_closing`, `_closer`, `_connector`, handlers per buffer | connect, read, write, receive, send (one and many), notify, close | buffers, ring, client registry |
| stream server (`server/`) | the above per connection, `connections`, two maps in the registry | accept loop, connection read/write/close, server close | buffers, ring, server registry, its connections |
| datagram server, responders | as a client; responder pool | receive, respond (one and many), take, release, close | buffers, ring, the message headers of other buffers |
| file (`file/`) | as a client; counters of `writeMany`, locals of `load()` | read, write (one and many, linked), `load`, close | buffers, ring, its own inbound stream |
| registries | descriptor to channel | add, remove, close all | event loop, closer |
| `Transport`, worker life cycle (`transport.dart`, `worker.dart`) | ports, list of workers, native worker | `worker`, `initialize`, `shutdown`, the closer | messages between isolates |

What is hard:

* **Interleaving at awaits.** An isolate runs to completion between awaits, but
  a request that waits for a buffer resumes later, in a microtask, after anything
  may have happened: the channel may be closing, the buffer that woke it taken by
  someone else, the datagram it answers released.
* **Asynchrony of the kernel.** Operations complete in any order, cancelled or
  not; results are queued and handled in batches; a cancel or timeout races with
  a result that is already in the queue.
* **Names that are reused.** `user_data`, buffer identifiers and descriptors are
  all reused as soon as they are free. Completions are routed by descriptor.
* **Closing.** `close()` counts pending operations, may wait for them for a
  while, then cancels them, waits again, waits for the inbound stream and only
  then closes the descriptor; errors and end of stream close from inside a
  completion handler; servers close connections that may be closing already.
* **Partial failure.** One buffer of a write of several fails; a connect fails;
  a short read severs a chain; a socket is created and an option refused; the
  worker is half made when memory runs out.
* **Limits.** A submission queue that is full, a table that must grow while
  entries are deleted by index, whole seconds and unsigned differences of time.
* **Crashes.** The only state that outlives a process are the socket files of unix
  servers.
* **Start and shutdown.** Messages of four ports cross while workers start.

What makes each component correct, and the property that says so:

| component | correctness | property |
|---|---|---|
| buffers | each buffer has one owner; no waiter sleeps beside a free buffer or is forgotten; a request is served unless it is overtaken again and again | `BufferOwnership`, `NoLostWakeup`, `SinglesServed`, `ImplementsAllocator` |
| ring | entries correspond to operations; the kernel only uses buffers of the operation's request | `EventsTrackOperations`, `KernelBuffersOwned` |
| native worker | its queue has room; it frees what it made; operations time out, by whole seconds of its clock, and not before | `StuckOnlyIfSmall`, `DestroyExact`, `NeverEarly`, `TimeoutsExpire` |
| hash table | it is a map; its loops end; cancellations forget the entries meant | `TableSound`, `ForgetsExactly`, `ImplementsSet` |
| endpoints | no descriptor is lost, paths lead to their servers, fields set the options they are named for | `DescriptorsAccounted`, `PathsLeadToServers`, `OptionsAsNamed` |
| channels | `_pending` is exact; results reach the issuer; the closer fires once; close ends; callers are told | `PendingExact`, `CompletionReachesIssuer`, `OperationsAccounted`, `EstablishedCloses`, `ClosesEnd`, `CloseEnds`, `WritesReported`, `ImplementsLifecycle` |
| servers | maps agree; the accept loop lives; closing closes all | `MapsAgree`, `AcceptLoopAlive`, `ClosingServerClosesConnections` |
| responders | answers go to the sender | `AnswersReachSender` |
| files | `load()` returns the content and ends; `writeMany` reports once | `LoadReturnsContent`, `LoadReleasesBuffers`, `LoadEnds`, `WritesReportedOnce` |
| shutdown | neither loop nor timer runs on freed memory; channels are closed first; shutdown returns | `NoUseAfterDestroy`, `FoundChannelsClosed`, `ShutdownDestroysWorkers`, `ShutdownReturns` |

`PROJECT.json` lists the hazards, each at its line, and the definitions with the
lines they translate.

## 2. The modules

```
BufferAllocator   <-- implemented by --  TransportBuffers      <-- TransportBuffersProofs
                                             | INSTANCE, in each of
                                             v
WorkerRing  -- EXTENDS -->  TransportClient   TransportServer   DatagramServer   TransportFile
                                  |                 |
ChannelLifecycle <-- implemented by --------------- +

WorkerRingProofs -- EXTENDS -->  TransportClientProofs  TransportServerProofs  DatagramServerProofs  TransportFileProofs
                                 (each EXTENDS its module, and INSTANCE TransportBuffersProofs)

TransportShutdown   (channels reduced to their phases)          <-- TransportProofs
TransportEndpoints  (creation and end of sockets and files)    <-- TransportProofs
TransportWorker     (the ring's capacity, memory and clock)    <-- TransportWorkerProofs
EventSet  <-- implemented by --  EventsTable (worker->events)   <-- TransportProofs
```

* **`BufferAllocator`** (abstract). What the pool promises to its users: free
  buffers are given in as many steps as it takes, a served request returns them
  one at a time. No stack, completer or microtask.
* **`TransportBuffers`**. The stack `ids`, the completers `finalizers` (each the
  sequence of its awaiters), the microtask queue `ready`. `Request` is
  `get() ?? await allocate()` or `allocateArray(n)` up to the first await,
  `Resume` the next microtask, `Release` the push together with the completion of
  the last completer. `got[t]` are the buffers of a request, `want[t]` how many it
  asked for.
* **`WorkerRing`** (operators over the ring's variables, used by the channels).
  `events`, `inflight`, `cancelled`, `cq`, `batch`; `Submit`, `CancelByFd`,
  `CheckTimeouts`, `KernelComplete`, `PeekBatch`, `TakeCqe`, `RemoveEvent`. An
  operation is a record; the code's view of it is `Data(op)`, the `user_data`.
* **`ChannelLifecycle`** (abstract). What `close()` promises of a channel: nothing
  is started once it began, the descriptor is closed once, and not before every
  started operation was handed back.
* **`TransportClient`** composes buffers, ring, the event loop and the client
  channel. `Request` and `Resume` with `Start` are the six read and write methods;
  `OpenStream`, `NotifyConnect` and `ConnectErrorHandler` the factories and
  connect; `HandleCqe` with `NotifyActive` and `NotifyInactive` the round of
  `_handleCqes` and `notifyData`; `Close`, `GracefulTimeout`, `ResumeClose` and
  `EndClose` the segments of `close()` between its awaits (`closePc`).
* **`TransportServer`** does the same for stream servers and their connections:
  `Open`, `NotifyAccept`, `CloseServer`, `ConnectionsClosed`, both registry maps
  and the kernel's descriptor table.
* **`DatagramServer`**: `Receive`, `Respond`, `TakeBytes`, `ReleaseResponder` and
  the addresses in the message headers (`address`), with the copy that
  `transport_worker_send_message` makes at submission.
* **`TransportFile`**: one file, with chains (`IOSQE_IO_LINK`), the counters of
  `writeMany`, `load()` with its rounds, the delivery of stream events
  (`inbound`) and the cancellation of the subscription.
* **`TransportShutdown`**: the handshake (`Construct`, `Register`, `Initialize`,
  `Configure`), `Shutdown`, the closer (`Closer`, `NextRegistry`), `EndLoop`,
  `Destroy`, for several workers. A channel is a `status`: `Open` registers it, for
  clients perhaps while they connect (`Connect`), also while its worker closes or after
  it was freed, which no factory asks. The application may close it (`BeginClose`),
  `Settle` and `Remove` end a `close()`; `Join` is `close()` of a registry, which finds
  channels that are closing already (`joined`), and `Awaited` says what the closer waits
  for of each. `CancelConnect` is the forced `close()` of a connecting client, which never
  returns: its status is `"hung"`.
* **`EventSet`** (abstract). What the worker expects of `worker->events`: a map from
  `user_data` to the entry that was added last.
* **`EventsTable`**: that table as it is. `table` and `shadow` are `struct
  mh_events_t` and its shadow: the slots in use (`at`), the dirty ones, the
  counters `size` and `used` (`n_dirty` of the code, which counts used and dirty
  slots), `prime` (the index of the size to choose from next, which moves on even when
  a resize fails for want of memory), `position` (`resize_position`). `Find`, `Place`, `PutSlot`, `FreeSlot`,
  `StartResize`, `ResizeStep`, `Put` and `Del` are the functions of `mhash.h` on one
  table or on the pair; `AddEvent`, `RemoveEvent`, `CancelByFd` and
  `CheckEventTimeouts` what the worker does with them, with its loops over indices
  that were collected before the first deletion (`Collected`, `DelAll`).
* **`TransportWorker`**: the same worker as a resource. `Initialize` fails at any of
  its `Parts`, `Destroy` frees; `Submit`, `Peek`, `CancelByFd` and
  `CheckEventTimeouts` take entries of a submission queue of `ring` entries through
  `ProvideSqe`; `Tick` and `SetClock` are the clock of the system, which somebody may
  set back or forward; `InSeconds` is what the factories make of a `Duration`;
  `StartTimer` and `StopTimer` are those of `timeout.dart`. `stage = "undefined"` stands
  for a read or write of memory that was not made.
* **`TransportEndpoints`**: the factories with the native functions they call. A
  creation is one action, because no await lies between `socket()` and the
  registration: `CreateServer`, `CreateClient`, `CreateUdpClient`, `OpenFile`, or
  `CreateFails` at one of the calls. `Close`, `ConnectFails`, `Crash` and
  `RemoveStale` end endpoints and socket files. Configurations are sets of fields
  of their class (`Fields`); `TcpClientConfiguration` and the like pair each option with
  the field that sets it, and `TcpOptions`, `UdpOptions` and `UnixOptions` say which
  options a socket knows.
* **`*Proofs`**: theorems about the module they extend. `WorkerRingProofs` has the
  lemmas about the ring that the channels share, and the pool's theorems are
  instantiated by each channel with its own variables. `TransportProofs` is about the
  transport around the channels: it extends `TransportShutdown` and
  `TransportEndpoints`, which is why the specification of the latter has a name of its
  own, `EndpointSpec`.
* **`MC*`**: what TLC needs in addition, symmetry sets and constant functions.

Operators under a comment that begins with "Mutant" are plausible mistakes in the
operator below them. The specifications do not use them: they document which
mistake each property notices.

## 3. Conventions of the models

* *One action per uninterrupted segment.* A worker is single-threaded, so code
  between two awaits is one action. Completing a `Completer` only queues its
  awaiters; `ready` is a FIFO of microtasks. The handlers of one batch of
  completions run without microtasks between them (`batch > 0` disables `Resume`
  and the continuations of `close()`), because `_handleCqes` has no await. Timers
  and the next turn need an empty microtask queue.
* *The application* may call from any turn, and from callbacks inside a batch, so
  its requests are not disabled by `batch > 0`.
* *Submission.* SQEs reach the kernel at the next submit. The kernel may take any
  time for an operation, which covers the delay. In the modules over `WorkerRing`
  the submission queue has no bound; `TransportWorker` is about that bound, and
  shows when leaving it out is sound (`StuckOnlyIfSmall`).
* *Results* are `positive`, `zero` or `negative`, which is all the code compares;
  only files need byte counts, and there contents are positions.
* *Linked operations.* `TransportFile` models chains exactly: an operation starts
  after the one it is linked behind and is cancelled when the chain is severed.
  The other modules let every operation fail at any time, which includes
  cancellation by a link.
* *Cancelling* is asynchronous: a cancelled operation still completes, with any
  result.
* *Buffers of a refused request* (the channel began to close while it waited)
  stay with the task, as in the code, which throws without releasing them.
* *The event table* is a set of the operations in `WorkerRing`. `EventsTable` shows
  what that abstracts: the table is a map, except that an entry may be lost when
  memory is, and that a cancellation that completes a resize forgets other entries
  than it should.
* *Timeouts.* In the modules over `WorkerRing` any operation that can time out may be
  found due at any check; `TransportWorker` has the clock.
* *Type invariants.* `TypeOK` says what the variables of a module hold. It is not a
  property of a run: it documents the variables, and the theorems prove it (or the
  `Types` of a proof module) as a part of their invariants.
* *Second calls of `close()`* change no state and are left out, except in
  `TransportShutdown`, where it matters when they return.
* *Inbound streams.* `close()` awaits `_inboundEvents.close()` only if the stream
  has a listener; the models choose either (`Drain`).
* *Write handlers* are in `TransportClient`. Those of a connection are the same
  code and are left out of `TransportServer`; a file's write always has both
  callbacks and reports through its counters.

## 4. The runs and their bounds

`MCx.tla` with `X.cfg`. All bounds are CONSTANTS of the configurations: the
tasks, `BuffersCount`, `MaxWant` (buffers of one request), `MaxCalls` (requests of
one task, or `Unbounded`), `MaxSets`, `MaxBack` and `MaxForward` (how often, and by how
many seconds, the clock is set), `Fd` or `MaxFd` (descriptors), `MaxConnections`, `PeekCount` (completions
of a turn), `Sender`, `Sizes`, `Offsets`, `Block`.

| run | configuration | distinct states | shows |
|---|---|---|---|
| `buffers` | `Buffers.cfg` | 17 678 | four tasks, which ask for one or two of two buffers again and again, without end: ownership, wakeups, queueing; a request of one buffer is served or overtaken for ever; the pool implements `BufferAllocator` |
| `client_safety` | `ClientSafety.cfg` | 220 602 | a TCP and a datagram client, one descriptor that they get one after the other, two buffers, batches of up to two: counting, routing, buffers, events, closer, write reports, `ChannelLifecycle` |
| `client_live` | `ClientLive.cfg` | 32 216 | a unix stream client: a failed connect is cleaned up, every close of a client that is not connecting ends |
| `server` | `Server.cfg` | 254 135 | a server, two connections, three descriptors that are given again, requests of one and two buffers: maps, accept loop, counting and routing, closing with connections in every phase, ends of all closes, `ChannelLifecycle` |
| `datagram` | `Datagram.cfg` | 412 725 | three tasks receive and answer with two buffers and two senders while the server closes: addresses, counting, end of close |
| `file` | `File.cfg` | 587 230 | `load()` of files of 0, 3, 4 and 5 bytes with blocks of 2 from offsets 0 and 2, in rounds of one to three, beside a write, with `close()` at any time |
| `shutdown` | `Shutdown.cfg` | 103 080 | two workers, one with a client and a server, one with a file, that are told to close while they start, connect, run or close: channels first, then the loop and the timer, then the memory; shutdown() returns |
| `events` | `Events.cfg` | 9 790 | four keys that come and go over four that stand, in tables of 3, 11 and 23 buckets that are moved four slots at a time, with and without memory: counters, chains, shadow; what each operation forgets; the table implements `EventSet` |
| `worker` | `Worker.cfg` | 231 172 | three operations, queues of two and six entries, two buffers, every failure of `initialize`, timeouts of half a second, one and a half and none, a clock that is set once by up to a second in either direction, two ticks to a second, a timer that stops: a full queue, destruction, timeouts |
| `endpoints` | `Endpoints.cfg` | 66 800 | seven kinds of endpoint, each with several configurations, three descriptors, one path, two addresses, crashes: descriptors, socket files, options |
| `client_close_connecting`, `server_leak` | | | disagreements, section 7 |

Why these bounds reach the interesting cases:

* Two buffers are what the library itself guarantees (`max(buffersCount, 2)`).
  With two buffers and requests of two, the pool is empty while others wait; with
  four tasks there are several awaiters on one completer while others hold
  buffers and still others are in the microtask queue.
* One descriptor for two clients forces reuse; three for a server and two
  connections let a connection be closed and its number be given again while the
  other lives and an accept is under way.
* `PeekCount = 2` gives batches with a second completion for a channel that the
  first one closed. `ClientLive` uses one, which suffices for liveness: batches
  only group turns.
* One request per task and two or three tasks give two to four operations in
  flight. In `Buffers.cfg` tasks come back without bound, so that an
  awaiter may be overtaken for ever.
* Sizes 0, 3, 4 and 5 are an empty file, a short last block, a file of whole
  blocks and one of three blocks of which the last is short; offset 2 begins at its second block; three blocks read behind the end.
* In `events`, keys 1 and 2 have the same low 32 bits, as two connects of different
  descriptors have (the hash ignores the high half of `user_data`), and 3 and 4
  meet them only in the smaller tables. Four standing entries and a batch of four
  make the move from 11 to 23 buckets last three steps, so that additions, deletions
  and cancellations fall before, within and at the end of it, on entries that were
  moved and that were not. The real batch is 256 and the real table has thousands of
  buckets; `BatchAssumption` is what the code says of the smallest batch.
* In `worker`, a ring of two entries is too small for three operations and their
  cancellations, one of six is just large enough. Two ticks to a second and a
  submission in either half show the rounding of `time(NULL)`; timeouts of one tick and
  of three have no and one whole second. `Modulus = 16` stands for 2^64:
  `TimeAssumption` says that all differences are far below it. Differences of seconds
  stop at `Ceiling`, above what any comparison tells apart after all settings of the
  clock, and ages at `Late`. One setting of a second is enough for a clock that is behind
  a submission, and for one that skips a timeout; the proof is for any number of them.
* In `endpoints`, three descriptors hold a server, its client and a half-made third
  socket. The configurations (`MCSettings`) contain none, single fields that share
  an option or have none, and sets of several.
* Two workers are enough for one that is told to close beside one that
  registers later, and one that fails to start. A client, a server and a file are one
  channel for each registry of the closer.

`CHECK_DEADLOCK FALSE` where a system may really stop: tasks make a bounded number of
requests, nobody has to open a channel or to shut down, and a destroyed worker does
nothing more. `events` and `endpoints` never stop and are checked for deadlock.
Symmetry is used only in runs without liveness properties, where the tasks are
interchangeable.

In `TransportFile` a task of the application makes one request and `load()` is
called once. The run `file` has one application task beside the loader, so that
requests of several buffers do not block each other (see `BuffersArrays.cfg`
below) and `LoadEnds` speaks of `load()` itself. `TransportShutdown` lets each
channel be opened once. In `Datagram.cfg`, `Patient` says that an application does
not release a responder while an answer through it still waits for a buffer, neither
with `release()` nor with `takeBytes()`; `DatagramAddress.cfg` shows why that is
needed. The guard of `TakeBytes` came from the proof of `AnswersReachSenders`: two
tasks that answer the same responder, one of them after taking its bytes, need five
tasks, which the run does not have.

## 5. Fairness

Assumed of the code's scheduling, with the reason:

* *Weak fairness of microtasks, of the turn of the loop, of each round of the
  batch, of timers and of the continuations of `close()`*: an isolate runs what is
  queued. `_listen` polls for ever while the worker is active.
* *Weak fairness of the completion of cancelled operations*: io_uring completes an
  operation it was asked to cancel, with or without success. Nothing is assumed of
  other socket operations: peers may be silent for ever. File operations all
  complete.
* *`EndClose`*: the listener of an inbound stream takes its events, that is, it is
  not paused for ever.
* *Strong fairness of `BetweenTurns`* in `TransportServer` (the graceful timeout and
  the continuations of close): accepts may fail without end and each failure
  makes another turn, which disables them for a moment, again and again. The
  isolate does not pass over a due timer for ever.
* In `TransportWorker`: time goes on, and the check of timeouts is called again and
  again while the timer runs (`Timer.periodic`), that is until the closer stops it
  (`worker.dart:55`), before the channels are closed. Nothing is assumed of the kernel
  or of the application. The clock is set a bounded number of times.
* In `TransportBuffers`: microtasks run and holders release their buffers. Without the
  latter no allocation need ever be served. Nobody has to make a request.
* In `TransportShutdown`: messages arrive, loops see that they end, and the operations
  that a `close()` of an open channel waits for come to their end (`Settle`). The other
  modules check that: `EstablishedCloses`, `ClosesEnd` and `CloseEnds`; `LoadEnds` for
  files, all operations of which complete. They do so for clients that are not
  connecting: that the `close()` of a connecting one returns is not assumed, since
  `CloseTerminates` refutes it. It hangs when its graceful timeout is over
  (`CancelConnect`), and `ShutdownReturns` speaks of behaviours in which that does
  not happen. Nobody has to call `initialize()` or `shutdown()`, or to close a channel
  himself, and the stream of a channel that the application closes may be paused for ever.

## 6. What is proved

| module | theorem | statement |
|---|---|---|
| `TransportBuffersProofs` | `TypeCorrect` | `Spec => []TypeOK` |
| | `BuffersOwned` | `Spec => []BufferOwnership` |
| | `WakeupsNotLost` | `Spec => []NoLostWakeup` |
| | `AllocatorImplemented` | `Spec => ImplementsAllocator`, that is `BufferAllocator!Spec` under the mapping |
| `TransportClientProofs` | `BuffersOwned` | `Spec => [](B!BufferOwnership /\ B!NoLostWakeup)`: the pool's invariants in the composition |
| | `KernelBuffersAreOwned` | `Spec => []KernelBuffersOwned` |
| | `PendingIsExact` | `Spec => [](DestroyedOnce => PendingExact)` |
| | `CompletionsReachIssuers` | `Spec => [](DestroyedOnce => CompletionReachesIssuer)` |
| | `EventsTrack` | `Spec => [](DestroyedOnce => EventsTrackOperations)` |
| | `WritesAreReported` | `Handled = Task => (Spec => [](DestroyedOnce => WritesReported))` |
| | `DescriptorsAreOwn` | `Spec => [](DestroyedOnce => DescriptorIsOwn)` |
| | `ClientsImplementLifecycle` | `Spec /\ []DestroyedOnce => ImplementsLifecycle` |
| | `DestroyedOnceWithoutUnix` | `Unix = {} => (Spec => []DestroyedOnce)` |
| | `SafeWithoutUnix` | the above with `Unix = {}` and without `DestroyedOnce` |
| `TransportServerProofs` | `TypeCorrect`, `BuffersOwned` | `Spec => []TypeOK`; as for the clients |
| | `MapsAlwaysAgree` | `Spec => []MapsAgree` |
| | `OperationsAreAccounted` | `Spec => []OperationsAccounted` |
| | `ServersCloseConnections` | `Spec => []ClosingServerClosesConnections` |
| | `AcceptLoopStaysAlive` | `Spec => []AcceptLoopAlive` |
| | `ConnectionsImplementLifecycle` | `Spec => ImplementsLifecycle` |
| `DatagramServerProofs` | `TypeCorrect`, `BuffersOwned` | as for the stream server |
| | `PendingIsExact` | `Spec => []PendingExact` |
| | `RespondersKeepSenders` | `Spec => []ResponderKeepsSender` |
| | `AnswersReachSenders` | `Patient => (Spec => []AnswersReachSender)` |
| `TransportWorkerProofs` | `NeverStuckWithRoom` | `Spec => []StuckOnlyIfSmall` |
| | `DestructionIsExact` | `Spec => []DestroyExact` |
| | `TimeoutsAreNotEarly` | `Spec => NeverEarly` |
| `TransportFileProofs` | `FileTypeCorrect`, `BuffersOwned` | as for the stream server |
| | `WritesAreReportedOnce` | `Spec => []WritesReportedOnce` |
| | `LoadReturnsFile` | `Spec => []LoadReturnsContent` |
| | `LoadFreesBuffers` | `Spec => []LoadReleasesBuffers` |
| `TransportProofs` | `DestroyedUnused` | `Spec => []NoUseAfterDestroy` |
| | `ChannelsClosedFirst` | `Spec => []FoundChannelsClosed` |
| | `ShutdownIsComplete` | `Spec => ShutdownDestroysWorkers` |
| | `DescriptorsAreAccounted` | `EndpointSpec => []DescriptorsAccounted` |
| | `PathsAreRight` | `EndpointSpec => []PathsLeadToServers` |
| | `OptionsAreNamed` | `EndpointSpec => []OptionsAsNamed` |
| | `TableIsSound` | `EventsSpec => []TableSound` |
| | `ForgettingIsExact` | `EventsSpec => []ForgetsExactly` |
| | `TableIsMap` | `EventsSpec => ImplementsSet`, that is `EventSet!Spec` under the mapping |

With these, every invariant of a passing run is stated by a theorem.

The assumptions are the named ones of the modules, which TLC evaluates in the runs.

### Buffers

For every set of tasks, every number of buffers of at least two and every `MaxWant`
and `MaxCalls`, from `BuffersCountAssumption` and `BoundsAssumption`.

*The invariant* `IInv` is `TypeOK /\ BufferOwnership /\ NoLostWakeup /\
GotWithinWant`. Ownership alone is not inductive: a resumed task pops
`want - Cardinality(got)` buffers, and only if a task never holds more than it
asked for (`GotWithinWant`) is that a number of pops the stack has a meaning for.
`NoLostWakeup` has two halves that need each other: because there is at most one
completer, the release that completes the last one leaves none, so a stack that is
not empty again has no waiter; and because a request parks only on an empty stack,
the completer it finds or makes is the only one. The type of `finalizers` in a
release again needs that there is at most one.

*The lemmas* say what the stack operations do: the `k` topmost elements of an
injective stack are `k` buffers that were on it (`TopCount`), popping removes
exactly those (`PopRest`), pushing a buffer that is not on the stack adds exactly
that (`PushRest`). Each action has a lemma with one step per conjunct.

*The refinement* needs one fact more: `BufferAllocator` lets only a *served* task
return a buffer, whereas the guard of `Release` is that the task is not queued
anywhere. That the two agree is `WaitersHeld`: a task that misses a buffer is an
awaiter or in the microtask queue. It is inductive together with `IInv` (`RInv`):
parking keeps the awaiters that were there (`ParkKeeps`), a release moves all of
them to the microtask queue (`ConcatKeeps`), and a microtask takes only itself from
it (`TailKeeps`). Then `Request`, `Resume` and `Release` are `Request`, `Grant` and
`Return` of the abstract module, with the popped set as the granted one.

The proof covers the safety part of `BufferAllocator`, which has no fairness.

For the channels the module states this once more in the form that they use: `PInv`
is `RInv` with `QueuedOnce` (a task is queued once, as an awaiter or as a microtask),
and `PoolRequest`, `PoolResume`, `PoolRelease` say what each step of the pool does to
the buffers and to the requests that wait. Without `QueuedOnce` a channel could not
know that the request a microtask resumes is not started a second time.

### The ring

`WorkerRingProofs` is about sets of operations of any shape. `RingInv` says that an
operation is outstanding once, in the kernel or under one completion; it is kept by
every operator of `WorkerRing`, for which there is a lemma each on what happens to
`Outstanding` and to the table of events. `Tracked` relates the table to the
operations. It is kept only while `user_data` tells the outstanding operations apart
(`DataUnique`), which each channel shows of its own operations: two operations with
the same descriptor and event have different buffers, because one task has each.

### Clients

For all finite and infinite sets of clients, tasks and descriptors, any number of buffers
of at least two, any `MaxWant`, `MaxCalls` and batch (`PoolAssumption`,
`ClientAssumption`). The invariant `IInv` has three layers:

* `BaseInv` holds in every state: the pool's invariant, the ring's, and `Operations`:
  every outstanding operation is the connect of a client or the transfer of one
  buffer of a request that was served and whose payload the application does not
  have. Hence `KernelBuffersOwned`, and what `TransportBuffersProofs` says of the pool
  (`BuffersOwned`). A release is a step of the holder of a buffer; an application that
  releases one payload twice is outside the model.
* `ClientInv` is stated under `DestroyedOnce`. `Sockets`: a live client owns its
  descriptor, in the kernel's table and in the registry. `Engaged`: only live
  clients have operations. `Closing`: a client that is inactive and whose `close()` went
  on has no pending operation. `PendingCounts` and `Tracked`. None is inductive alone:
  that the count is zero when the descriptor is released needs the count to be exact,
  that it is exact needs completions to reach their issuer, and that they do
  needs the descriptor not to be released while operations are outstanding.
* `Reports`, under `Handled = Task` as well: the handlers of an outstanding write are
  those of its task. When some callers give no handler, a stale one may be
  called in their place (`ClientStaleHandler.cfg`), also instead of that of a write that has one.

`DestroyedOnce` is a real condition: `connect` and `close()` of a unix client both
release the native structure if the connect fails during the close
(`ClientDoubleClose.cfg`), and what a released number of somebody else does to the
registry is not covered by any guarantee. `DestroyedOnceWithoutUnix` proves
that it holds of clients of tcp and udp (`FreedOnce`: a structure is released where
`close()` ends, and nowhere else), and `SafeWithoutUnix` draws the conclusions.

*The refinement.* `LifeStep(c)` is a step of `ChannelLifecycle` for one client;
`NextLife` has one case per action. `Finish` needs that a completion takes exactly one
operation from the count of the client that issued it, `End` that nothing is pending
when the descriptor is released.

### Stream servers

For any sets of servers and tasks, any `MaxConnections`, `MaxFd`, pool and batch
(`PoolAssumption`, `ServerAssumption`), with no condition. `SInv` joins:

* `BaseInv` as for clients; accepts are told apart by a number of the model, because the
  code's own data cannot tell two accepts of one descriptor apart.
* `Made`, `Maps`, `Accepted`. `MapsAgree` is not inductive: when the result of an accept
  is handled, the descriptor it brings must not be served already. `Accepted`
  says so: a successful accept in the completion queue brings a descriptor of its own,
  of a socket that no server has made a connection of. That stays true because the kernel
  gives only free numbers and a number is released by its own connection only, which is
  what `Made` and `Maps` say.
* `Closing`: where `close()` of each connection is, and that the connections of a closing
  server are closing. A server adds no connection once it closes.
* `PendingCounts`, which needs `Maps` for the routing, and
* `AcceptLoopAlive`, which is inductive beside them: the result of any accept on a
  server's descriptor, its own or one that an earlier server left, issues the next one.

`OperationsAccounted` and the refinement of `ChannelLifecycle` follow as for clients;
connections are released in one place, so that no condition is left.

### Datagram servers

For any tasks, buffers and senders (`PoolAssumption`, `DatagramAssumption`).
`DInv` joins `BaseInv`, `Closing`, `PendingExact` and what the message headers hold:

* `Addressed`: the header of a received datagram, in the completion queue (`Received`)
  or with the application (`ResponderKeepsSender`), has the address of its sender, and
  the buffer of a responder that is answered after `takeBytes()` is on top of the stack
  when the answer takes a buffer (`OnTop`).
* `Promised`, under `Patient`: the header that a waiting answer will read belongs to a
  buffer that this answer has taken already, or that the application still holds;
  in either case no receive clears it. Without `Patient` this is false
  (`DatagramAddress.cfg`); the count and the responders need no such promise.

### Files

For any tasks, at least two buffers, any size of a block, any sizes and offsets, and any
number of blocks of a round (`PoolAssumption`, `FileAssumption`). No condition is left:
what the properties except, they name themselves. `FInv` joins:

* `BaseInv` as for clients: whose the operations are, one for each place of a served
  request (`Operations`); whose the buffers of events are that wait in the inbound stream
  (`Events`) and of payloads that the application has (`Payloads`). A buffer is under one
  of them at most. `PendingExact` and `Closing` as before, for one channel.
* `Chains`: completions of one request come in the order of its blocks, and behind one
  that is not a whole block there are cancellations only, those that came (`cq`) and those
  that will come (`severed`). This is the kernel's part of the contract, and an
  invariant of the model, since completions are also queued by the cancellation of the
  whole file.
* `Written`: what `writeMany` has counted. A request that was refused told `onError` and
  has no operation; any other has counted exactly the blocks that it gave back, as long
  as completions are reported, and after the first error what is left of its chain is
  cut (`Cut`). Without the last part the counters could reach the number of blocks with
  an error followed by a success, and neither callback would come.
* `Streams`: whether the application or `load()` listens. Once `load()` does, all
  events are its own.
* `Loading`: `Round` says that events, then operations, are those of the blocks behind
  `counter`, one for each block; `Placed` that such an operation brings the bytes that
  follow what was collected and what is before it, or lies behind the end of the file;
  `Collected` that whole blocks were collected, or the end was reached; `Cancellations`
  that what `load()` takes for the end of the file (a block that was cancelled) comes
  behind that end only, as long as the file is open. From these `Bytes` follows.
  `Released` has what `LoadReleasesBuffers` needs: a `load()` that ended has only
  cancelled blocks left, and every buffer that the loader holds is under an operation
  or an event.

`LoadReturnsContent` and `LoadReleasesBuffers` need each other's parts: a `load()` that
ended too early would leave blocks with buffers behind, which is what `Overread` does.
The invariant was checked by TLC on four small instances before it was proved.

### The native worker

For every finite set of operations with any timeouts, any descriptors, at least two
buffers, any sizes of the ring, any resolution and settings of the clock and any modulus
above the timeouts (`TimeAssumption`, `SizeAssumption`). The invariant joins:

* `QueueBounded`: `sq` is at most the number of operations in the state `queued`, as
  long as the isolate is not stuck. An operation puts its submission in the queue once,
  and the cancellations of a step are flushed in that step, which needs at most one
  more entry for each operation of the table. A queue of `2 * Cardinality(Op)` entries
  is therefore never exceeded: that is `StuckOnlyIfSmall`, which is not inductive
  without the count.
* `Allocated`: what a worker owns are parts of `Parts`: all of them, but perhaps the
  array of completions, while it runs; after a failed initialisation either the
  queue of free buffers was not made or everything that `destroy` reads was.
  `PartsLayout`, `QueueIndex`, `LastPart` and `FailurePoint` say where in the sequence
  the parts are, for any number of buffers.
* `ClockBehind`: the difference of two times of the clock is less than a second more than
  the time that has passed and that by which the clock was set forward. It is kept by every
  step of the clock (`ClockKeepsBehind`), whichever way it is set, because ticks become
  seconds only by what they carry (`CarryKeeps`). So an entry is not found older than
  the whole seconds of its timeout before it is, unless the difference is negative and
  becomes a large number: `NeverEarly`.

`Freed` lists what `transport_worker_destroy` frees; that this is all that `Parts` makes,
for any number of buffers, is `FreedAll`.

### The hash table

For every finite set of keys with any hashes, any increasing list of primes of at least
3, any batch of at least 10/3 (the code's 1/(1 - 0.7), rounded up by integers to four),
and any additions, removals, cancellations, timeouts and failures of memory
(`KeyAssumption`, `PrimesAssumption`, `RoomAssumption`, `BatchAssumption`,
`UseAssumption`). The argument goes in four layers:

* *Probes.* `PrimesAssumption` says of a prime that no product of two smaller numbers is
  a multiple of it. Hence the `n` probes of a key are different slots (`ProbeInjective`),
  and so all slots (`ProbeSurjective`): a loop that looks for a slot which is not dirty
  ends if there is one (`CleanProbe`).
* *One table.* `TableOK` is `TableSound` of one table as an inductive statement: exact
  counters, one entry for a key, and for each entry a place in the probes of its key with
  dirty slots only before it (`Chained`). Slots that are dirty stay so for the life of a
  table, which is why a deletion breaks no chain. `FindFacts`, `PlaceFacts`, `PutSlotFacts`
  and `FreeSlotFacts` say what each function finds and leaves.
* *The pair.* `PairOK` joins the two tables of a resize: the shadow holds entries of the
  table only, and all those before `position` (`InStep`), and both have room
  (`Shadowed`). Room is the hard part, as nothing in the code looks at the shadow's:
  what is used of it, with what is still to be moved (`Load`), and one addition for each
  step that is left of the resize, stays below the density. It is inductive because each
  addition and each deletion also makes a step. At the end of a resize the shadow
  has exactly the entries of the table, so that the sizes agree and `abort()` is not
  reached, and an addition has room again.
* *The worker.* `PutFacts`, `DelFacts` and `DelAllFacts` say what becomes of the set of
  entries: an addition replaces the entry of its key, and is lost only if there is no
  memory; a deletion by index removes the entry that is there; deletions by collected
  indices remove the entries that were there, as long as none of them completes a resize.

*Recursion.* `Moved`, `DelAll` and `Filled` are recursive functions over an interval.
`IterationExists` shows that such a function exists and `IntervalInduction` replaces
the induction theorems that take an operator: both are about sets, the least element of
which `MinNat` provides.

*The assumption of room.* `RoomAssumption` says that the next table has room for as many
entries as fill the one before, and for the additions while they are moved. The sizes of
`__ac_prime_list` about double, and fulfil it for any number of keys but at the
two largest: 3221225473 is followed by 4294967291, and nothing by that, so that there
it needs fewer than two fifths of 2^32 keys.
The model is exact for tables of fewer than 2^26 buckets: above, the batch grows with
the table (`BatchAssumption` admits any fixed one), and in the last two sizes the sum of
`next_slot` may exceed `uint32_t`.

*The refinement* maps the entries of the table, wherever they are, to a function of their
keys (`EntriesOf`, `EntriesFacts`). It says of a step only that it is a step of the map:
that an addition with memory is not lost is `PutFacts`.

### Endpoints

For every finite set of descriptors, all paths and addresses, and all configurations
that set fields their class has (`SettingsAssumption`). The
invariant is the two properties with the types: a path leads to a server only if it
is registered, which needs that registered descriptors are open, which is what
`DescriptorsAccounted` says. `LowestIsFree` gives the choice of a descriptor a meaning.

`OptionsAsNamed` rests on two lemmas about the tables of the translation, kind by
kind: whatever a translation enables is the option that the field it takes is named for
(`TranslatesField`), and every field that is not ignored is translated to an option that
the socket knows (`FieldIsTranslated`). `GivenIsAsked` joins them for any set of fields, so
that the statement is not about the configurations of a run any more.

### Shutdown

For every finite set of workers and all channels and kinds. `IInv` joins:

* `LoopStops`: the loop ends only when the closer is through, a timer that the closer
  stopped is not started again, and a worker is destroyed only after both.
* `ToldOnce`: a worker is told to close at most once, and only after `shutdown()` began.
* `RegistriesClosed`: a channel that the closer found and that is not closed belongs to
  a registry the closer has not passed yet, or is awaited; or it was closing already and
  is one of the exceptions of `FoundChannelsClosed`.
* `Counted`: the destroyer has counted exactly the destroyed workers, and the workers
  that were told and did not fail are workers with a closer, at most `expected` of them.

The last is what makes `ShutdownDestroysWorkers` follow: when as many answers as
expected have arrived, as many workers are destroyed, so no worker with a closer is left.

## 7. Where code and documentation disagree

Runs that TLC must find violated; each is a finding in `PROJECT.json`.

* `client_close_connecting`: `close()` of a connecting client never returns. It
  makes the client inactive, and `notifyConnect` of an inactive client does not
  complete `_closer`.
  An application has the connection only when it is connected, so this is met by the
  closer of the worker, which closes all clients (`worker.dart:57`).
* `server_leak`: a socket accepted while the server closes is never closed.

Further configurations reproduce, when run by hand, behaviour worth knowing. They
violate the property they name; of the two that name several, `tlc -continue` reports each:

| configuration | property | what happens |
|---|---|---|
| `ClientConnectError.cfg` | `ConnectErrorCloses` | a failed connect of `clients.tcp` leaves channel, registration and descriptor; `src/documentation/docs/errors.mdx:8` says "TCP client connects -> close on error, throw an exception". For `clients.unixStream`, which has a handler of its own, the property holds (`client_live`) |
| `FileLoadLeak.cfg` | `LoadLeavesNoBuffer` | `load()` whose first round asks for more blocks than a file of whole blocks has keeps a buffer for ever; `src/dart/test/buffers.dart:159` expects none to be used |
| `BuffersStarvation.cfg` | `EveryRequestServed` | even with requests of one buffer only, an awaiter that a release woke may find the buffer taken by a `get()` that ran before its microtask, again and again |
| `BuffersArrays.cfg` | `EveryRequestServed` | two requests of several buffers hold what they have and wait for each other |
| `ClientBufferLeak.cfg` | `NoBufferLeak` | a request refused by a closing client keeps its buffer |
| `ClientForcedWrite.cfg` | `EveryWriteReported` | a forced close completes writes without a word to their callers |
| `ClientDoubleClose.cfg` | `DescriptorIsOwn` | the error handler of a unix connect and `close()` both close the descriptor, the second time somebody else's |
| `ClientStaleHandler.cfg` | `NoExtraReport` | of the two handlers of a buffer only one is cleared: the other may be called for the next write through the buffer |
| `ServerStaleAccept.cfg` | `ConnectionOfItsListener` | an accept that outlives its server is handed to the next server on the same descriptor |
| `DatagramAddress.cfg` | `AnswersReachSender` | an answer that waits for a buffer while its responder is released goes to the sender of another datagram |
| `EventsCancelResizing.cfg` | `ForgetsOnly` | the deletions of a cancellation complete a resize, and the remaining indices are deleted in the new table: other entries are forgotten, those meant stay |
| `WorkerEarly.cfg` | `NeverEarlyAtAll` | `Duration.inSeconds` makes one second of 1.75, after which the operation is cancelled. With the constants that its comment gives, a timeout of whole seconds is early too: a clock that is set forward skips it, and behind a clock that is set back before the submission the unsigned difference is huge |
| `WorkerTimerStopped.cfg` | `TimeoutsAlwaysExpire` | the closer stops the timer before it closes the channels: what a graceful close waits for does not time out any more |
| `ShutdownConnecting.cfg` | `ShutdownAlwaysReturns` | a client that is connecting when the worker closes holds up the closer, and `shutdown()`, for ever |
| `ShutdownServer.cfg` | `AllFoundClosed` | a second `close()` of a stream server that waits for its connections returns at once, and the worker is freed under them |
| `ShutdownServer.cfg` | `OpenedBefore` | a channel that is opened after its registry was closed stays open on a freed worker |
| `EndpointsRefuted.cfg` | `NoDescriptorLost` | an option that is refused ends the creation before the structure knows the descriptor, which stays open |
| `EndpointsRefuted.cfg` | `ServersReachable` | `transport_client_destroy` unlinks the destination's path: a unix client that closes, or does not connect, removes the path of a running server |
| `EndpointsRefuted.cfg` | `EveryOptionAsDocumented` | `socketCloexec` goes through `F_SETFL`, `ipMulticastLoop` (an integer) is compared with `true`, a TCP client's `tcpNoDelay` is not read, the interval of keep-alive probes is taken from `tcpKeepAliveIdle`. Where the code follows the names of the fields, `src/documentation/docs/api/02-configuration.mdx` gives others: it exchanges `SO_REUSEADDR` and `SO_REUSEPORT` of clients (51-52, 104-105), `TCP_FASTOPEN` and `TCP_NODELAY` of TCP clients (58-59), and gives `socketBroadcast` as `SO_KEEPALIVE` (81, 106) |
| `EndpointsRefuted.cfg` | `DatagramsGoToDestination` | `clients.udp` passes source and destination in each other's place (`client/factory.dart:96`) |

The properties of the passing runs are stated around these cases, and say so:
`EstablishedCloses` excludes connecting clients, `WritesReported` speaks of clients
that were not forced to close and of callers that give both callbacks,
`LoadReleasesBuffers` names the exception `Overread`, `SinglesServed` speaks of
requests of one buffer that are not overtaken again and again, `FoundChannelsClosed` of
channels that were open when the closer began and that the application was not closing,
`NoUseAfterDestroy` of the loop and the timer, `ShutdownReturns` of workers that are running
and whose connects are not cancelled, `ForgetsExactly` of cancellations that complete no
resize, `NeverEarly` of whole seconds, of a clock that is not behind the submission and of
real time with what the clock was set forward, `TimeoutsExpire` of a timer that runs,
`StuckOnlyIfSmall` of rings with two entries for each operation,
`DestroyExact` of workers that were made up to their ring, `DescriptorsAccounted` of
descriptors other than those of refused options, `PathsLeadToServers` of paths that no
client removed, `OptionsAsNamed` of fields that are not in `Ignored`, and of the names of
fields where the documentation says something else.

## 8. What is only model-checked, what is not modelled

*Only model-checked:*

* all liveness properties (`SinglesServed`, `EstablishedCloses`, `ConnectErrorCloses`,
  `ClosesEnd`, `CloseEnds`, `LoadEnds`, `ShutdownReturns`, `TimeoutsExpire`): liveness
  under fairness is outside what the prover can do;
* `WritesReported` for callers of which only some give handlers, and what is said of
  clients in states in which a unix client was destroyed twice.

*Not modelled:*

* of the hash table, `random`, `remove`, `clear`, `memsize` and `dump`, which nothing calls;
* multicast memberships and their manager (`transport_socket.c:402-448`), which keeps a
  pointer to the native structure of an endpoint after that was freed;
* a pool of clients of which one creation throws, which leaves the earlier ones
  registered and connecting;
* the packing of `user_data`: the models use the triple;
* exceptions thrown by application callbacks in the middle of a batch;
* the re-arming of `stream()` for clients and connections (their reads are
  requests of tasks), except for the datagram server and `load()`;
* `writeMany` without links, whose counters miss an error followed by a success;
* the pools of clients (`select`), the adaptive delays of the loop;
* the memory of a destroyed server whose address an outstanding accept still has;
* payloads that an application releases twice, which would overflow the stack of buffers;
* the flags of file modes, the values of options, error texts (the error of a failed
  `bind` or `listen` is reported as that of code 1), library lookup, macros: data;
* generated bindings.

## 9. Plan

The order puts the most important behaviour first: buffers, because every
operation takes one; the client, because its close and notification code is the
pattern of all channels; then what multiplies it (servers, datagrams, files) and
what ends it (shutdown); then what they stand on, the native worker with its table,
queue and clock, and what surrounds them, the creation and the end of sockets and
files. That much exists. Next:

1. `LinkedChain`: the link flag that `sendMany` leaves on its last SQE and the
   unlinked `writeMany`; re-arming of `stream()`.
2. A variant of the event loop whose callbacks may throw.
3. A pool of clients with creations that throw half-way.

New questions replace or join the properties of existing runs where that is
possible, so that the whole of the checks stays a matter of minutes.
