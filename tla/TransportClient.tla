-------------------------- MODULE TransportClient --------------------------
(***************************************************************************)
(* The clients of one worker (client.dart, client/provider.dart), with     *)
(* what they stand on: the worker's buffers (TransportBuffers), its event  *)
(* table and ring (WorkerRing) and the loop that hands completions to the  *)
(* channel registered for their descriptor (worker.dart).                  *)
(*                                                                         *)
(* Three parties take steps: the application, which opens, uses and closes *)
(* clients; the isolate, which runs microtasks and handles completions;    *)
(* the kernel, which completes operations in any order.  Every read or     *)
(* write is a Task; a task's buffers stay in got[task] while the kernel or *)
(* the application uses them.                                              *)
(***************************************************************************)
EXTENDS WorkerRing, FiniteSets

CONSTANTS
  Task, BuffersCount, MaxWant, MaxCalls,   \* see TransportBuffers
  Client,      \* TransportClientChannel objects, each opened at most once
  Tcp,         \* the clients opened by clients.tcp
  Unix,        \* the clients opened by clients.unixStream; the rest are datagram
  Fd,          \* BOUND: descriptor numbers, given again after close(2)
  Handled,     \* the tasks whose caller passes onDone and onError
  None

\* transport.dart passes max(buffersCount, 2) to the native worker.
ASSUME PoolAssumption ==
  /\ BuffersCount \in Nat /\ BuffersCount >= 2
  /\ MaxWant \in Nat \ {0} /\ MaxCalls \in Nat

\* What a task asks of a client.
RequestType == [client : Client, kind : {"read", "write", "receive", "send"}, count : 1..MaxWant]

ASSUME ClientAssumption ==
  /\ Tcp \cup Unix \subseteq Client /\ Tcp \cap Unix = {}
  /\ Handled \subseteq Task
  /\ None \notin Client \cup Task \cup Fd \cup RequestType

VARIABLES
  ids, finalizers, ready, got, want, calls,   \* TransportBuffers
  req,         \* task -> its request: client, kind and number of buffers
  refused,     \* tasks told that the client is closed
  payloads,    \* tasks whose buffer is with the application, as a payload
  reports,     \* task -> what its onDone and onError were told, in order
  fdOf,        \* client -> its descriptor (None before it is opened)
  connector,   \* client -> state of _connector
  pending, active, closing,   \* client -> _pending, _active, _closing
  closer,      \* client -> _closer is completed
  closePc,     \* client -> where the first call of close() is
  doneHandlers, errorHandlers,   \* client -> buffer -> the task to call, or None
  freed,       \* client -> how often its native structure was freed
  registry,    \* TransportClientRegistry: descriptor -> client or None
  descriptor   \* the kernel's table: descriptor -> the client whose socket it is

bufferVars == <<ids, finalizers, ready, got, want, calls>>
taskVars == <<req, refused, payloads, reports>>
handlerVars == <<doneHandlers, errorHandlers>>
closeVars == <<active, closing, closer, closePc>>
socketVars == <<fdOf, freed, registry, descriptor>>
vars == <<bufferVars, taskVars, handlerVars, closeVars, socketVars, ringVars,
          connector, pending>>

B == INSTANCE TransportBuffers
Buffer == B!Buffer

Stream == Tcp \cup Unix
Kinds(c) == IF c \in Stream THEN {"read", "write"} ELSE {"receive", "send"}
Outbound == {"write", "send"}
Result == {"positive", "zero", "negative"}

OutstandingOf(c) == {op \in Outstanding : op.client = c}

Live(c) == fdOf[c] # None /\ freed[c] = 0

-----------------------------------------------------------------------------
Init ==
  /\ B!Init
  /\ req = [t \in Task |-> None]
  /\ refused = {} /\ payloads = {}
  /\ reports = [t \in Task |-> <<>>]
  /\ fdOf = [c \in Client |-> None]
  /\ connector = [c \in Client |-> "none"]
  /\ pending = [c \in Client |-> 0]
  /\ active = [c \in Client |-> TRUE]
  /\ closing = [c \in Client |-> FALSE]
  /\ closer = [c \in Client |-> FALSE]
  /\ closePc = [c \in Client |-> "none"]
  /\ doneHandlers = [c \in Client |-> [b \in Buffer |-> None]]
  /\ errorHandlers = [c \in Client |-> [b \in Buffer |-> None]]
  /\ freed = [c \in Client |-> 0]
  /\ registry = [f \in Fd |-> None]
  /\ descriptor = [f \in Fd |-> None]
  /\ RingInit

-----------------------------------------------------------------------------
(* The kernel and the timer.                                                 *)

\* The kernel ends an operation with a result of its own or an error.  A
\* connect has no positive result.
Complete(op) ==
  /\ \E res \in (IF op.event = "connect" THEN Result \ {"positive"} ELSE Result) :
       KernelComplete(op, res)
  /\ UNCHANGED <<bufferVars, taskVars, handlerVars, closeVars, socketVars, connector, pending>>

\* Mutant: the buffer of a timed out operation is released at once.
CheckEventTimeoutsReleasing ==
  /\ batch = 0 /\ ready = <<>>
  /\ \E op \in inflight :
       /\ Data(op) \in events /\ op.event # "connect"
       /\ CancelEvents({Data(op)}, events)
       /\ B!Release(op.task, op.buf)
  /\ UNCHANGED <<inflight, cq, batch, taskVars, handlerVars, closeVars, socketVars,
                 connector, pending>>

\* transport_worker_check_event_timeouts, from the periodic timer.
CheckEventTimeouts ==
  /\ ready = <<>>
  /\ CheckTimeouts
  /\ UNCHANGED <<bufferVars, taskVars, handlerVars, closeVars, socketVars, connector, pending>>

-----------------------------------------------------------------------------
(* Opening and connecting.                                                   *)

\* The factories: a socket, which gets any free descriptor, a channel and its
\* registration.
Open(c) ==
  /\ fdOf[c] = None
  /\ \E f \in Fd :
       /\ descriptor[f] = None
       /\ fdOf' = [fdOf EXCEPT ![c] = f]
       /\ descriptor' = [descriptor EXCEPT ![f] = c]
       /\ registry' = [registry EXCEPT ![f] = c]
  /\ UNCHANGED <<bufferVars, taskVars, handlerVars, closeVars, freed, cancelled, cq, batch>>

\* clients.udp
OpenDatagram(c) ==
  /\ c \notin Stream
  /\ Open(c)
  /\ UNCHANGED <<inflight, events, pending, connector>>

\* clients.tcp, clients.unixStream: the client connects at once.
OpenStream(c) ==
  /\ c \in Stream
  /\ Open(c)
  /\ Submit({[client |-> c, fd |-> fdOf'[c], buf |-> 0, event |-> "connect", task |-> None]}, events)
  /\ pending' = [pending EXCEPT ![c] = @ + 1]
  /\ connector' = [connector EXCEPT ![c] = "waiting"]

\* The application has the connection once connect() has returned it, the
\* datagram client at once, and both keep it after close().
Usable(c) == fdOf[c] # None /\ (c \in Stream => connector[c] = "connected")

-----------------------------------------------------------------------------
(* Reading and writing.                                                      *)

\* Mutant: a request of several buffers is counted once.
CountOne(c, n) == pending' = [pending EXCEPT ![c] = @ + 1]

\* _pending++, _pending += bytes.length
Count(c, n) == pending' = [pending EXCEPT ![c] = @ + n]

\* The part of read, write, receive and send after the allocation.  A client
\* that began to close refuses the request and keeps its buffers.
Start(t, r) ==
  LET c == r.client IN
  IF closing[c]
    THEN /\ refused' = refused \cup {t}
         /\ UNCHANGED <<inflight, events, pending, handlerVars>>
    ELSE /\ Submit({[client |-> c, fd |-> fdOf[c], buf |-> b, event |-> r.kind, task |-> t]
                      : b \in got'[t]}, events)
         /\ Count(c, r.count)
         /\ LET Register(handlers) ==
                  [handlers EXCEPT ![c] = [b \in Buffer |->
                     IF b \in got'[t] /\ r.kind \in Outbound /\ t \in Handled THEN t ELSE @[b]]]
            IN  doneHandlers' = Register(doneHandlers) /\ errorHandlers' = Register(errorHandlers)
         /\ UNCHANGED refused

Served(t) == Cardinality(got'[t]) = want'[t]

\* read, receive, writeSingle, sendSingle (n = 1) and writeMany, sendMany.
\* The allocation of one buffer that need not wait continues at once, that of
\* an array always resumes in a microtask.  The application calls from its
\* own turns and from onDone and onError, in the middle of a batch.
Request(t, c, kind, n) ==
  /\ Usable(c) /\ kind \in Kinds(c)
  /\ B!Request(t, n)
  /\ kind \notin Outbound => n = 1 /\ UNCHANGED ready
  /\ req' = [req EXCEPT ![t] = [client |-> c, kind |-> kind, count |-> n]]
  /\ reports' = [reports EXCEPT ![t] = <<>>]
  /\ IF ~B!Waiting(t)'
       THEN Start(t, req'[t])
       ELSE UNCHANGED <<refused, inflight, events, pending, handlerVars>>
  /\ UNCHANGED <<payloads, closeVars, socketVars, connector, cancelled, cq, batch>>

\* The next microtask of an allocation.
Resume(t) ==
  /\ batch = 0
  /\ B!Resume(t)
  /\ IF Served(t)
       THEN Start(t, req[t])
       ELSE UNCHANGED <<refused, inflight, events, pending, handlerVars>>
  /\ UNCHANGED <<req, payloads, reports, closeVars, socketVars, connector, cancelled, cq, batch>>

\* TransportPayload.release, by the application.
ReleasePayload(t) ==
  /\ t \in payloads
  /\ \E b \in got[t] : B!Release(t, b)
  /\ payloads' = payloads \ {t}
  /\ UNCHANGED <<req, refused, reports, handlerVars, closeVars, socketVars, ringVars,
                 connector, pending>>

-----------------------------------------------------------------------------
(* Closing.                                                                  *)

\* The end of close(): the descriptor is closed and forgotten, the native
\* structure is freed.
Destroy(c) ==
  /\ descriptor' = [descriptor EXCEPT ![fdOf[c]] = None]
  /\ registry' = [registry EXCEPT ![fdOf[c]] = None]
  /\ freed' = [freed EXCEPT ![c] = @ + 1]

\* close() past its waits.  With a listener on the inbound stream it waits
\* for the stream to be done, without one it ends at once.
Drain(c) ==
  \/ closePc' = [closePc EXCEPT ![c] = "drain"] /\ UNCHANGED <<registry, descriptor, freed>>
  \/ closePc' = [closePc EXCEPT ![c] = "closed"] /\ Destroy(c)

\* close(gracefulTimeout) up to its first wait, with p operations pending and
\* the event table known.  A second call changes nothing.
BeginClose(c, graceful, p, known) ==
  /\ ~closing[c]
  /\ closing' = [closing EXCEPT ![c] = TRUE]
  /\ active' = [active EXCEPT ![c] = p > 0 /\ graceful]
  /\ \/ p > 0 /\ graceful
        /\ closePc' = [closePc EXCEPT ![c] = "graceful"]
        /\ events' = known
        /\ UNCHANGED <<cancelled, registry, descriptor, freed>>
     \/ p > 0 /\ ~graceful
        /\ closePc' = [closePc EXCEPT ![c] = "forced"]
        /\ CancelByFd(fdOf[c], known)
        /\ UNCHANGED <<registry, descriptor, freed>>
     \/ p = 0
        /\ Drain(c)
        /\ events' = known
        /\ UNCHANGED cancelled

\* Called by the application, or by the registry when the worker stops.
Close(c, graceful) ==
  /\ Live(c)
  /\ BeginClose(c, graceful, pending[c], events)
  /\ UNCHANGED <<bufferVars, taskVars, handlerVars, closer, fdOf, connector, pending,
                 inflight, cq, batch>>

\* Mutant: the expired timeout does not wait for the cancelled operations.
GracefulTimeoutNoWait(c) ==
  /\ batch = 0 /\ ready = <<>>
  /\ closePc[c] = "graceful" /\ ~closer[c]
  /\ active' = [active EXCEPT ![c] = FALSE]
  /\ CancelByFd(fdOf[c], events)
  /\ Drain(c)
  /\ UNCHANGED <<bufferVars, taskVars, handlerVars, closing, closer, fdOf,
                 connector, pending, inflight, cq, batch>>

\* The graceful timeout expires first: cancel what is left.
GracefulTimeout(c) ==
  /\ batch = 0 /\ ready = <<>>
  /\ closePc[c] = "graceful" /\ ~closer[c]
  /\ closePc' = [closePc EXCEPT ![c] = "forced"]
  /\ active' = [active EXCEPT ![c] = FALSE]
  /\ CancelByFd(fdOf[c], events)
  /\ UNCHANGED <<bufferVars, taskVars, handlerVars, closing, closer, socketVars,
                 connector, pending, inflight, cq, batch>>

\* _closer completed: close() resumes.
ResumeClose(c) ==
  /\ batch = 0
  /\ closePc[c] \in {"graceful", "forced"} /\ closer[c]
  /\ active' = [active EXCEPT ![c] = FALSE]
  /\ Drain(c)
  /\ UNCHANGED <<bufferVars, taskVars, handlerVars, closing, closer, fdOf,
                 connector, pending, ringVars>>

\* The listener has seen the end of the inbound stream.
EndClose(c) ==
  /\ batch = 0
  /\ closePc[c] = "drain"
  /\ closePc' = [closePc EXCEPT ![c] = "closed"]
  /\ Destroy(c)
  /\ UNCHANGED <<bufferVars, taskVars, handlerVars, active, closing, closer, fdOf,
                 connector, pending, ringVars>>

\* Mutant: the handler only rethrows, as for a TCP client.
ConnectErrorHandlerRethrows(c) ==
  /\ batch = 0
  /\ c \in Unix
  /\ connector[c] = "failed"
  /\ connector' = [connector EXCEPT ![c] = "handled"]
  /\ UNCHANGED <<bufferVars, taskVars, handlerVars, closeVars, socketVars, pending, ringVars>>

\* The onError that clients.unixStream attaches to connect().
ConnectErrorHandler(c) ==
  /\ batch = 0
  /\ c \in Unix
  /\ connector[c] = "failed"
  /\ connector' = [connector EXCEPT ![c] = "handled"]
  /\ Destroy(c)
  /\ UNCHANGED <<bufferVars, taskVars, handlerVars, closeVars, fdOf, pending, ringVars>>

-----------------------------------------------------------------------------
(* The event loop.                                                           *)

\* A turn of the loop begins when no microtask is left.
Peek ==
  /\ ready = <<>>
  /\ PeekBatch
  /\ UNCHANGED <<bufferVars, taskVars, handlerVars, closeVars, socketVars, connector, pending>>

\* The prologue of notifyConnect and notifyData on an active client: the last
\* completion of a closing client completes _closer.
LastCompletion(c) == pending[c] = 1 /\ closing[c]

\* Mutant: the last completion is only noticed on an active client.
CompleteCloserActive(c) == closer' = [closer EXCEPT ![c] = @ \/ (LastCompletion(c) /\ active[c])]

CompleteCloser(c) == closer' = [closer EXCEPT ![c] = @ \/ LastCompletion(c)]

Settle(c) ==
  /\ CompleteCloser(c)
  /\ active' = [active EXCEPT ![c] = @ /\ ~LastCompletion(c)]

\* notifyConnect
NotifyConnect(c, res) ==
  /\ pending' = [pending EXCEPT ![c] = @ - 1]
  /\ connector' = [connector EXCEPT ![c] = IF active[c] /\ res = "zero" THEN "connected" ELSE "failed"]
  /\ IF active[c] THEN Settle(c) ELSE UNCHANGED <<closer, active>>
  /\ UNCHANGED <<bufferVars, taskVars, handlerVars, closing, closePc,
                 registry, descriptor, freed, cancelled>>

\* Mutant: a closing client calls nobody.
ReportOpen(c, handlers, b, what) ==
  /\ handlers' = [handlers EXCEPT ![c][b] = None]
  /\ reports' = IF handlers[c][b] = None \/ closing[c]
                  THEN reports
                  ELSE [reports EXCEPT ![handlers[c][b]] = Append(@, what)]

\* Takes the handler registered for the buffer and calls it.
Report(c, handlers, b, what) ==
  /\ handlers' = [handlers EXCEPT ![c][b] = None]
  /\ reports' = IF handlers[c][b] = None
                  THEN reports
                  ELSE [reports EXCEPT ![handlers[c][b]] = Append(@, what)]

\* notifyData on an active client.
NotifyActive(c, op, res, known) ==
  \/ /\ op.event \notin Outbound /\ res = "positive"
     /\ payloads' = payloads \cup {op.task}
     /\ Settle(c)
     /\ events' = known
     /\ UNCHANGED <<bufferVars, reports, handlerVars, closing, closePc,
                    registry, descriptor, freed, cancelled>>
  \/ /\ op.event \in Outbound
     /\ B!Release(op.task, op.buf)
     /\ IF res = "positive"
          THEN Report(c, doneHandlers, op.buf, "done") /\ UNCHANGED errorHandlers
          ELSE Report(c, errorHandlers, op.buf, "error") /\ UNCHANGED doneHandlers
     /\ Settle(c)
     /\ events' = known
     /\ UNCHANGED <<payloads, closing, closePc, registry, descriptor, freed, cancelled>>
  \/ /\ op.event = "receive" /\ res # "positive"
     /\ B!Release(op.task, op.buf)
     /\ Settle(c)
     /\ events' = known
     /\ UNCHANGED <<payloads, reports, handlerVars, closing, closePc,
                    registry, descriptor, freed, cancelled>>
  \/ /\ op.event = "read" /\ res # "positive"      \* end of stream or error: close()
     /\ B!Release(op.task, op.buf)
     /\ IF closing[c]
          THEN Settle(c) /\ events' = known
               /\ UNCHANGED <<closing, closePc, registry, descriptor, freed, cancelled>>
          ELSE BeginClose(c, FALSE, pending[c] - 1, known) /\ UNCHANGED closer
     /\ UNCHANGED <<payloads, reports, handlerVars>>

\* notifyData on a client that no longer is: the buffer is released, and
\* nobody is told the result.
NotifyInactive(c, op, known) ==
  /\ B!Release(op.task, op.buf)
  /\ CompleteCloser(c)
  /\ events' = known
  /\ UNCHANGED <<payloads, reports, handlerVars, active, closing, closePc,
                 registry, descriptor, freed, cancelled>>

NotifyData(c, op, res, known) ==
  /\ pending' = [pending EXCEPT ![c] = @ - 1]
  /\ IF active[c] THEN NotifyActive(c, op, res, known) ELSE NotifyInactive(c, op, known)
  /\ UNCHANGED <<req, refused, connector>>

\* One round of _handleCqes: the event is forgotten, then the channel
\* registered for the descriptor, if there is one, is notified.
HandleCqe ==
  LET op == Head(cq).op
      c == registry[op.fd]
      known == RemoveEvent(Data(op))
  IN
  /\ TakeCqe
  /\ IF c = None
       THEN events' = known
            /\ UNCHANGED <<bufferVars, taskVars, handlerVars, closeVars, registry,
                           descriptor, freed, connector, pending, cancelled>>
       ELSE IF op.event = "connect"
              THEN NotifyConnect(c, Head(cq).res) /\ events' = known
              ELSE NotifyData(c, op, Head(cq).res, known)
  /\ UNCHANGED <<fdOf, inflight>>

-----------------------------------------------------------------------------
Next ==
  \/ \E c \in Client :
       \/ OpenDatagram(c) \/ OpenStream(c)
       \/ \E t \in Task, kind \in Kinds(c), n \in 1..MaxWant : Request(t, c, kind, n)
       \/ \E graceful \in BOOLEAN : Close(c, graceful)
       \/ GracefulTimeout(c)
       \/ ResumeClose(c)
       \/ EndClose(c)
       \/ ConnectErrorHandler(c)
  \/ \E t \in Task : Resume(t) \/ ReleasePayload(t)
  \/ \E op \in inflight : Complete(op)
  \/ CheckEventTimeouts
  \/ Peek
  \/ HandleCqe

\* The isolate runs: its microtasks, its timers, its event loop.  The kernel
\* completes what it was asked to cancel, and nothing else for certain.
Fairness ==
  /\ WF_vars(\E t \in Task : Resume(t))
  /\ WF_vars(Peek) /\ WF_vars(HandleCqe)
  /\ WF_vars(\E op \in cancelled : Complete(op))
  /\ \A c \in Client : WF_vars(GracefulTimeout(c)) /\ WF_vars(ResumeClose(c)) /\ WF_vars(EndClose(c))
                       /\ WF_vars(ConnectErrorHandler(c))

Spec == Init /\ [][Next]_vars /\ Fairness

-----------------------------------------------------------------------------
TypeOK ==
  /\ B!TypeOK
  /\ req \in [Task -> RequestType \cup {None}]
  /\ refused \subseteq Task /\ payloads \subseteq Task
  /\ reports \in [Task -> Seq({"done", "error"})]
  /\ fdOf \in [Client -> Fd \cup {None}]
  /\ connector \in [Client -> {"none", "waiting", "connected", "failed", "handled"}]
  /\ pending \in [Client -> Nat]
  /\ active \in [Client -> BOOLEAN] /\ closing \in [Client -> BOOLEAN]
  /\ closer \in [Client -> BOOLEAN]
  /\ closePc \in [Client -> {"none", "graceful", "forced", "drain", "closed"}]
  /\ doneHandlers \in [Client -> [Buffer -> Task \cup {None}]]
  /\ errorHandlers \in [Client -> [Buffer -> Task \cup {None}]]
  /\ freed \in [Client -> Nat]
  /\ registry \in [Fd -> Client \cup {None}] /\ descriptor \in [Fd -> Client \cup {None}]
  /\ RingTypeOK

\* notifyConnect and notifyData call _closer.complete() without asking
\* whether it is completed: that is safe because an active client that
\* closes has not completed it.
CloserCompletedOnce == \A c \in Client : active[c] /\ closing[c] => ~closer[c] /\ pending[c] > 0

\* _pending counts the client's operations that have not been notified, in
\* the kernel or in the completion queue: close() relies on it to know when
\* nothing refers to the descriptor and the buffers any more, and the
\* notifications to complete _closer once.
PendingExact ==
  /\ \A c \in Client : Live(c) => pending[c] = Cardinality(OutstandingOf(c))
  /\ CloserCompletedOnce

\* A completion finds, under its descriptor, the client that issued the
\* operation, although descriptors are reused as soon as they are closed.
CompletionReachesIssuer == \A op \in Outstanding : registry[op.fd] = op.client

\* The kernel reads and writes only buffers that belong to the operation's
\* request: never one that is free, or in the hands of another task.
KernelBuffersOwned ==
  /\ \A op \in Outstanding : op.event # "connect" => op.buf \in got[op.task]
  /\ \A op1, op2 \in Outstanding :
       op1 # op2 /\ op1.event # "connect" /\ op2.event # "connect" => op1.buf # op2.buf

\* Every operation that was not asked to be cancelled can be found by
\* cancel_by_fd and by the timeout checker, and no entry outlives its
\* operation: removing the event of a completion never takes the entry of a
\* later operation with the same user_data.
EventsTrackOperations ==
  /\ \A op \in inflight \ cancelled : Data(op) \in events
  /\ \A e \in events : \E op \in Outstanding : Data(op) = e
  /\ \A op1, op2 \in Outstanding : Data(op1) = Data(op2) => op1 = op2

\* A live client's number denotes its own socket: no other client's close
\* has taken its descriptor.
DescriptorIsOwn == \A c \in Client : Live(c) => descriptor[fdOf[c]] = c

\* As long as a client was not forced to close, onDone or onError has been
\* called once for each completed buffer of a write whose caller gave both.
Undisturbed(c) == active[c] \/ closePc[c] = "graceful"
Answered(t) == req[t].count - Cardinality({op \in Outstanding : op.task = t})
WritesReported ==
  \A t \in Handled :
    /\ req[t] # None /\ req[t].kind \in Outbound
    /\ t \notin refused /\ ~B!Waiting(t) /\ Undisturbed(req[t].client)
    => Len(reports[t]) = Answered(t)

\* close() of a client that is not connecting returns, gracefully or not,
\* whatever the kernel does with the operations that were not cancelled.
EstablishedCloses ==
  \A c \in Client :
    closing[c] /\ (c \in Stream => connector[c] = "connected") ~> closePc[c] = "closed"

\* A client lives the way ChannelLifecycle promises.
Phase(c) == IF fdOf[c] = None THEN "new"
            ELSE IF freed[c] > 0 THEN "closed"
            ELSE IF closing[c] THEN "closing" ELSE "open"
Lifecycle == INSTANCE ChannelLifecycle
               WITH Channel <- Client,
                    phase <- [c \in Client |-> Phase(c)],
                    outstanding <- [c \in Client |-> Cardinality(OutstandingOf(c))]
ImplementsLifecycle == Lifecycle!Spec

\* errors.mdx: "TCP client connects -> close on error": it holds for the
\* clients of unixStream and fails for those of tcp.
ConnectErrorCloses ==
  \A c \in Stream : connector[c] = "failed" ~> closing[c] \/ freed[c] > 0

-----------------------------------------------------------------------------
(* What documentation and tests say and the code does not do.                *)

\* errors.mdx: "TCP client writes: result <= 0 -> throw an exception", and so
\* for datagrams: the caller of a failed write is told, forced close or not.
EveryWriteReported ==
  \A t \in Handled :
    /\ req[t] # None /\ req[t].kind \in Outbound
    /\ t \notin refused /\ ~B!Waiting(t)
    => Len(reports[t]) = Answered(t)

\* The same page: only a write that failed is told so, each of its buffers
\* once, whoever had the buffer before.
NoExtraReport == \A t \in Task : req[t] # None => Len(reports[t]) <= Answered(t)

\* 04-client.mdx, "close: Closes the connection": it comes to an end, ...
CloseTerminates == \A c \in Client : closing[c] ~> closePc[c] = "closed"

\* test/shutdown.dart: once every client is closed and idle, no buffer is used.
Quiet == /\ \A c \in Client : fdOf[c] # None => closePc[c] = "closed"
         /\ Outstanding = {} /\ payloads = {} /\ ready = <<>>
NoBufferLeak == Quiet => Len(ids) = BuffersCount
=============================================================================
