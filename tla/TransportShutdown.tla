------------------------- MODULE TransportShutdown -------------------------
(***************************************************************************)
(* How workers come and go (transport.dart, worker.dart): the handshake    *)
(* between a worker's isolate and the isolate of the Transport, the event  *)
(* loop and the timer of a worker, and shutdown(), which makes each worker *)
(* close its channels, stop its loop and free its native memory.           *)
(*                                                                         *)
(* Isolates share nothing but the native worker and exchange messages,     *)
(* which arrive in the order in which one port sent them.  Of a channel    *)
(* only how far its life is matters here: what it does meanwhile is in     *)
(* TransportClient, TransportServer, DatagramServer and TransportFile.     *)
(***************************************************************************)
EXTENDS Integers, Sequences, FiniteSets

CONSTANTS
  Worker,
  Channel,     \* what the workers may open
  Host,        \* Channel -> its worker
  Kind         \* Channel -> 1 file, 2 client, 3 server

ASSUME WorkerAssumption == IsFiniteSet(Worker)
ASSUME KindAssumption == Host \in [Channel -> Worker] /\ Kind \in [Channel -> 1..3]

VARIABLES
  \* The isolate of the Transport.
  workerClosers,   \* the workers whose SendPorts it has
  shutdown,    \* "none", "waiting" for _workerDestroyer, "done"
  expected,    \* how many workers shutdown() waits for
  \* Messages.
  toTransport, \* workers whose SendPorts are on their way
  toWorker,    \* worker -> messages from the transport, oldest first
  destroyer,   \* how many messages _workerDestroyer has got
  \* The isolate of each worker.
  phase,       \* worker -> "new", "constructed", "initializing", "running"
  input,       \* workers whose configuration waits for initialize()
  timer,       \* workers whose TransportTimeoutChecker runs
  active, done,    \* worker -> _active; workers whose _done is completed
  status,      \* channel -> "new", "connecting", "open", "closing" (its close() waits for
               \* operations), "ending" (for its stream), "closed", or "hung"
  closing,     \* worker -> the registry that the closer waits for, 4: _done
  awaited,     \* channels whose close() a closer called first
  joined,      \* channels whose close() ran when a closer called it again
  found,       \* channels that the registries held when the closer of their worker began
  destroyed    \* workers whose native memory is freed

transportVars == <<workerClosers, shutdown, expected>>
messageVars == <<toTransport, toWorker, destroyer>>
loopVars == <<phase, input, timer, active, done>>
closerVars == <<closing, awaited, joined, found, destroyed>>
vars == <<transportVars, messageVars, loopVars, status, closerVars>>

Init ==
  /\ workerClosers = {} /\ shutdown = "none" /\ expected = 0
  /\ toTransport = {} /\ toWorker = [w \in Worker |-> <<>>] /\ destroyer = 0
  /\ phase = [w \in Worker |-> "new"]
  /\ input = {} /\ timer = {}
  /\ active = [w \in Worker |-> TRUE] /\ done = {}
  /\ status = [c \in Channel |-> "new"]
  /\ closing = [w \in Worker |-> 0]
  /\ awaited = {} /\ joined = {} /\ found = {}
  /\ destroyed = {}

-----------------------------------------------------------------------------
(* The isolate of the Transport.                                             *)

\* The RawReceivePort of worker(): the worker gets its memory and
\* configuration, or the native initialisation fails.  Once shutdown() is
\* over the port is closed.
Register(w) ==
  /\ w \in toTransport
  /\ toTransport' = toTransport \ {w}
  /\ IF shutdown = "done"
       THEN UNCHANGED <<workerClosers, toWorker>>
       ELSE /\ workerClosers' = workerClosers \cup {w}
            /\ \/ toWorker' = [toWorker EXCEPT ![w] = Append(@, "configuration")]
               \/ UNCHANGED toWorker
  /\ UNCHANGED <<shutdown, expected, destroyer, loopVars, status, closerVars>>

\* Mutant: shutdown() waits for the workers that it did not tell, too.
ExpectedAll == Cardinality(Worker)
Expected == Cardinality(workerClosers)

\* shutdown(), by the application, once.
Shutdown ==
  /\ shutdown = "none"
  /\ shutdown' = "waiting"
  /\ expected' = Expected
  /\ toWorker' = [w \in Worker |-> IF w \in workerClosers THEN Append(toWorker[w], "close") ELSE toWorker[w]]
  /\ UNCHANGED <<workerClosers, toTransport, destroyer, loopVars, status, closerVars>>

\* Mutant: one message is enough.
EnoughFirst == destroyer > 0 \/ expected = 0
\* _workerDestroyer.take(expected) is complete.
Enough == destroyer >= expected
ShutdownEnds ==
  /\ shutdown = "waiting"
  /\ Enough
  /\ shutdown' = "done"
  /\ UNCHANGED <<workerClosers, expected, messageVars, loopVars, status, closerVars>>

-----------------------------------------------------------------------------
(* The start of a worker.                                                    *)

\* TransportWorker(toTransport)
Construct(w) ==
  /\ phase[w] = "new"
  /\ phase' = [phase EXCEPT ![w] = "constructed"]
  /\ toTransport' = toTransport \cup {w}
  /\ UNCHANGED <<transportVars, toWorker, destroyer, input, timer, active, done, status, closerVars>>

\* What initialize() does with the configuration: the timer and the loop.
Run(w) == phase' = [phase EXCEPT ![w] = "running"] /\ timer' = timer \cup {w}

\* initialize(), which waits for the configuration unless it has arrived.
Initialize(w) ==
  /\ phase[w] = "constructed"
  /\ IF w \in input
       THEN Run(w)
       ELSE phase' = [phase EXCEPT ![w] = "initializing"] /\ UNCHANGED timer
  /\ input' = input \ {w}
  /\ UNCHANGED <<transportVars, messageVars, active, done, status, closerVars>>

\* The configuration arrives at _fromTransport.
Configure(w) ==
  /\ toWorker[w] # <<>> /\ Head(toWorker[w]) = "configuration"
  /\ toWorker' = [toWorker EXCEPT ![w] = Tail(@)]
  /\ IF phase[w] = "initializing"
       THEN Run(w) /\ UNCHANGED input
       ELSE input' = input \cup {w} /\ UNCHANGED <<phase, timer>>
  /\ UNCHANGED <<transportVars, toTransport, destroyer, active, done, status, closerVars>>

-----------------------------------------------------------------------------
(* A running worker.                                                         *)

Becomes(c, next) ==
  /\ status' = [status EXCEPT ![c] = next]
  /\ UNCHANGED <<transportVars, messageVars, loopVars, closerVars>>

\* The channels that the registries of a worker hold.
Registered(w) == {c \in Channel : Host[c] = w /\ status[c] \notin {"new", "closed"}}

\* servers.tcp, clients.udp, files.open, ...: nothing forbids them while the
\* worker closes, nor when it is destroyed.  Clients of tcp and unixStream are
\* registered before they are connected.
Open(c) ==
  /\ phase[Host[c]] = "running"
  /\ status[c] = "new"
  /\ \/ Becomes(c, "open")
     \/ Kind[c] = 2 /\ Becomes(c, "connecting")

\* notifyConnect: if the close() of the closer waits, that completes it;
\* otherwise the client is connected, or refused and perhaps removed.
Connect(c) ==
  /\ status[c] = "connecting" /\ Host[c] \notin done
  /\ IF c \in awaited
       THEN Becomes(c, "ending")
       ELSE Becomes(c, "open") \/ Becomes(c, "closed")

\* The close() of a client that is still connecting does not wait (any longer)
\* for it: the connect is cancelled, and what notifies of that completes nothing.
CancelConnect(c) ==
  /\ status[c] = "connecting" /\ c \in awaited
  /\ Becomes(c, "hung")

\* The application calls close(): it gets a client when it is connected.
BeginClose(c) ==
  /\ status[c] = "open"
  /\ Becomes(c, "closing") \/ Becomes(c, "ending")

\* The last operation, or connection, that close() waits for comes to its end.
Settle(c) ==
  /\ status[c] = "closing" /\ Host[c] \notin done
  /\ Becomes(c, "ending")

\* The stream of the channel ends, and the channel leaves its registry.
Remove(c) ==
  /\ status[c] = "ending"
  /\ Becomes(c, "closed")

\* _listen: after a delay the loop sees that the worker is not active.
EndLoop(w) ==
  /\ phase[w] = "running" /\ ~active[w] /\ w \notin done
  /\ done' = done \cup {w}
  /\ UNCHANGED <<transportVars, messageVars, phase, input, timer, active, status, closerVars>>

-----------------------------------------------------------------------------
(* The closer of a worker.                                                   *)

\* close() of the channels that a registry holds at this moment: the first
\* one, or another one of those that are closing already.
Join(w, kind) ==
  LET all == {c \in Registered(w) : Kind[c] = kind}
      first == {c \in all : status[c] \in {"connecting", "open"}}
  IN
  /\ awaited' = awaited \cup first
  /\ joined' = joined \cup (all \ first)
  /\ status' = [c \in Channel |-> IF c \in first /\ status[c] = "open" THEN "closing" ELSE status[c]]

\* Future.wait over a registry.
Await(w, kind) == closing' = [closing EXCEPT ![w] = kind] /\ Join(w, kind)

\* The first close() ends when the channel is closed.  Another one waits for
\* _closer at most, and not even that if _pending is zero, as it always is of a
\* stream server, whose close() waits for its connections.
Awaited(w) ==
  /\ \A c \in awaited : Host[c] = w => status[c] = "closed"
  /\ \A c \in joined : Host[c] = w => Kind[c] = 3 \/ status[c] \in {"ending", "closed"}

\* Mutant: the timer goes on.
StopTimerNot(w) == timer' = timer \cup {w}
StopTimer(w) == timer' = timer \ {w}

\* The message of shutdown() at a running worker.  Before initialize() the
\* late fields are not there: the handler fails and the worker is never
\* destroyed.
Closer(w) ==
  /\ toWorker[w] # <<>> /\ Head(toWorker[w]) = "close"
  /\ toWorker' = [toWorker EXCEPT ![w] = Tail(@)]
  /\ IF phase[w] = "running"
       THEN /\ StopTimer(w)
            /\ Await(w, 1)
            /\ found' = found \cup Registered(w)
       ELSE UNCHANGED <<timer, status, closing, awaited, joined, found>>
  /\ UNCHANGED <<transportVars, toTransport, destroyer, phase, input, active, done, destroyed>>

\* Mutant: the servers are forgotten.
RegistriesTwo == 2
Registries == 3

\* A registry is closed: the next one, or the end of the loop.
NextRegistry(w) ==
  /\ closing[w] \in 1..3
  /\ Awaited(w)
  /\ IF closing[w] < Registries
       THEN Await(w, closing[w] + 1) /\ UNCHANGED active
       ELSE /\ closing' = [closing EXCEPT ![w] = 4]
            /\ active' = [active EXCEPT ![w] = FALSE]
            /\ UNCHANGED <<status, awaited, joined>>
  /\ UNCHANGED <<transportVars, messageVars, phase, input, timer, done, found, destroyed>>

NotifyTransport == destroyer' = destroyer + 1

\* await _done.future, transport_worker_destroy, _destroyer.send.
Destroy(w) ==
  /\ closing[w] = 4 /\ w \in done /\ w \notin destroyed
  /\ destroyed' = destroyed \cup {w}
  /\ NotifyTransport
  /\ UNCHANGED <<transportVars, toTransport, toWorker, loopVars, status, closing, awaited, joined, found>>

-----------------------------------------------------------------------------
Next ==
  \/ Shutdown
  \/ ShutdownEnds
  \/ \E w \in Worker :
       \/ Register(w)
       \/ Construct(w) \/ Initialize(w) \/ Configure(w)
       \/ EndLoop(w)
       \/ Closer(w) \/ NextRegistry(w) \/ Destroy(w)
  \/ \E c \in Channel :
       Open(c) \/ Connect(c) \/ CancelConnect(c) \/ BeginClose(c) \/ Settle(c) \/ Remove(c)

\* Messages arrive and isolates run.  Operations of a channel that closes come to
\* an end, as they complete or are cancelled.  Of the channels that the closer
\* closes, the listener of the stream takes its end, and a graceful timeout
\* for a connect runs out.
Fairness ==
  /\ WF_vars(ShutdownEnds)
  /\ \A w \in Worker :
       /\ WF_vars(Register(w)) /\ WF_vars(Configure(w)) /\ WF_vars(EndLoop(w))
       /\ WF_vars(Closer(w)) /\ WF_vars(NextRegistry(w)) /\ WF_vars(Destroy(w))
  /\ \A c \in Channel :
       WF_vars(Settle(c)) /\ WF_vars(c \in awaited /\ Remove(c)) /\ WF_vars(CancelConnect(c))

Spec == Init /\ [][Next]_vars /\ Fairness

-----------------------------------------------------------------------------
TypeOK ==
  /\ workerClosers \subseteq Worker /\ toTransport \subseteq Worker
  /\ shutdown \in {"none", "waiting", "done"}
  /\ expected \in 0..Cardinality(Worker) /\ destroyer \in 0..Cardinality(Worker)
  /\ toWorker \in [Worker -> Seq({"configuration", "close"})]
  /\ phase \in [Worker -> {"new", "constructed", "initializing", "running"}]
  /\ input \subseteq Worker /\ timer \subseteq Worker
  /\ active \in [Worker -> BOOLEAN] /\ done \subseteq Worker
  /\ status \in [Channel -> {"new", "connecting", "open", "closing", "ending", "closed", "hung"}]
  /\ closing \in [Worker -> 0..4]
  /\ awaited \subseteq Channel /\ joined \subseteq Channel /\ found \subseteq Channel
  /\ destroyed \subseteq Worker

\* After transport_worker_destroy neither a turn of the loop nor a check of the
\* timeouts touches the freed memory.  (A channel may: see OpenedBefore.)
NoUseAfterDestroy == \A w \in destroyed : w \in done /\ ~active[w] /\ w \notin timer

\* A worker is destroyed with every channel closed that its registries held when
\* the closer began, except those which the application was closing itself: of
\* a file or client the operations are over and its stream may not have ended, a
\* server may still wait for its connections.
FoundChannelsClosed ==
  \A c \in found : Host[c] \in destroyed =>
    \/ status[c] = "closed"
    \/ c \in joined /\ (Kind[c] = 3 \/ status[c] = "ending")

\* The same without the exception, which the close() of a server by the
\* application breaks: shutdown() frees the worker under its connections.
AllFoundClosed == \A c \in found : Host[c] \in destroyed => status[c] = "closed"

\* A destroyed worker has no channel but those its closer found, which a channel
\* that is opened later breaks.
OpenedBefore == \A w \in destroyed : Registered(w) \subseteq found

\* When shutdown() returns, the workers that it told to close are destroyed;
\* a worker whose SendPorts arrived later was not told.
ShutdownDestroysWorkers ==
  [][shutdown' = "done" /\ shutdown = "waiting" =>
       Cardinality(destroyed) = expected /\ destroyed \subseteq workerClosers]_vars

\* shutdown() returns if, at any time from some time on, each of the workers
\* that it has to wait for is running, and if the closer cancels no connect: a
\* worker that fails to start, or that nobody initialises before the closer's
\* message arrives, holds it up for ever, and so does a client that is connecting
\* when its close() stops waiting for it.
Told(w) == \E i \in 1..Len(toWorker[w]) : toWorker[w][i] = "close"
Startup == \A w \in Worker : Told(w) => phase[w] = "running"
Hangs == \E c \in Channel : status[c] = "hung"
ShutdownReturns == [](Startup /\ ~Hangs) /\ <>(shutdown = "waiting") => <>(shutdown = "done")

\* The same of connecting clients, too.
ShutdownAlwaysReturns == []Startup /\ <>(shutdown = "waiting") => <>(shutdown = "done")
=============================================================================
