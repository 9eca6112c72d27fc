-------------------------- MODULE TransportServer --------------------------
(***************************************************************************)
(* The stream servers of one worker and their connections (server.dart,    *)
(* server/registry.dart, server/factory.dart), on the worker's buffers     *)
(* (TransportBuffers) and ring (WorkerRing).                               *)
(*                                                                         *)
(* A server keeps an accept under way; each accepted socket becomes a      *)
(* connection that reads and writes on its own and that both its owner and *)
(* the server may close.  A Connection stands for the socket that the      *)
(* kernel makes and for the channel that notifyAccept makes of it.         *)
(*                                                                         *)
(* The handlers of a connection's writes work as those of a client, in     *)
(* TransportClient, and are left out.                                      *)
(***************************************************************************)
EXTENDS WorkerRing, FiniteSets

CONSTANTS
  Task, BuffersCount, MaxWant, MaxCalls,   \* see TransportBuffers
  Server,      \* TransportServerChannel objects, each opened at most once
  MaxConnections,   \* BOUND: accepted sockets
  MaxFd,       \* BOUND: descriptor numbers, given again after close(2)
  None

\* Connections are numbered in the order in which the kernel makes them.
Connection == 1..MaxConnections
Channel == Server \cup Connection
Fd == 1..MaxFd

\* What a task asks of a connection: to read into one buffer, or to write some.
RequestType == [connection : Connection, kind : {"read", "write"}, count : 1..MaxWant]

\* transport.dart passes max(buffersCount, 2) to the native worker.
ASSUME PoolAssumption ==
  /\ BuffersCount \in Nat /\ BuffersCount >= 2
  /\ MaxWant \in Nat \ {0} /\ MaxCalls \in Nat

ASSUME ServerAssumption ==
  /\ MaxConnections \in Nat /\ MaxFd \in Nat
  /\ Server \cap Connection = {}
  /\ None \notin Server \cup Task \cup Connection \cup Fd \cup RequestType

VARIABLES
  ids, finalizers, ready, got, want, calls,   \* TransportBuffers
  req,         \* task -> its request: connection, kind and number of buffers
  refused,     \* tasks told that the connection is closed
  payloads,    \* tasks whose buffer is with the application, as a payload
  fdOf,        \* server or connection -> its descriptor
  listener,    \* connection -> the server on whose socket it was accepted
  owner,       \* connection -> _server, the channel that was notified
  connections, \* server -> _connections: descriptor -> connection or None
  servers, serverConnections,   \* TransportServerRegistry
  descriptor,  \* the kernel's table: descriptor -> server, connection or None
  pending, active, closer,      \* connection -> _pending, _active, _closer done
  closing,     \* server or connection -> _closing
  closePc,     \* connection -> where the first call of close() is
  serverPc,    \* server -> where the first call of its close() is
  awaited      \* server -> the connections whose close() its own close() began

\* A new socket gets the lowest free descriptor.
Lowest(S) == CHOOSE x \in S : \A y \in S : x <= y
FreeFds == {f \in Fd : descriptor[f] = None}
Result == {"positive", "zero", "negative"}

bufferVars == <<ids, finalizers, ready, got, want, calls>>
taskVars == <<req, refused, payloads>>
registryVars == <<connections, serverConnections>>
channelVars == <<fdOf, listener, owner, servers, descriptor>>
closeVars == <<active, closer, closing, closePc, serverPc, awaited>>
vars == <<bufferVars, taskVars, registryVars, channelVars, closeVars, ringVars, pending>>

B == INSTANCE TransportBuffers
Buffer == B!Buffer

OutstandingOf(x) == {op \in Outstanding : op.of = x}

Init ==
  /\ B!Init
  /\ req = [t \in Task |-> None]
  /\ refused = {} /\ payloads = {}
  /\ fdOf = [x \in Channel |-> None]
  /\ listener = [k \in Connection |-> None]
  /\ owner = [k \in Connection |-> None]
  /\ connections = [s \in Server |-> [f \in Fd |-> None]]
  /\ servers = [f \in Fd |-> None] /\ serverConnections = [f \in Fd |-> None]
  /\ descriptor = [f \in Fd |-> None]
  /\ pending = [k \in Connection |-> 0]
  /\ active = [k \in Connection |-> TRUE]
  /\ closer = [k \in Connection |-> FALSE]
  /\ closing = [x \in Channel |-> FALSE]
  /\ closePc = [k \in Connection |-> "none"]
  /\ serverPc = [s \in Server |-> "none"]
  /\ awaited = [s \in Server |-> {}]
  /\ RingInit

-----------------------------------------------------------------------------
(* The kernel, and the timer of the worker.                                  *)

\* An accept ends with a new socket, or an error.  It holds on to the
\* listening socket: closing the descriptor neither ends it nor stops it
\* from accepting.
CompleteAccept(op) ==
  /\ op.event = "accept"
  /\ \/ LET unmade == {k \in Connection : listener[k] = None} IN
        /\ unmade # {} /\ FreeFds # {}
        /\ listener' = [listener EXCEPT ![Lowest(unmade)] = op.of]
        /\ descriptor' = [descriptor EXCEPT ![Lowest(FreeFds)] = Lowest(unmade)]
        /\ KernelComplete(op, Lowest(FreeFds))
     \/ KernelComplete(op, None) /\ UNCHANGED <<listener, descriptor>>
  /\ UNCHANGED <<bufferVars, taskVars, registryVars, fdOf, owner, servers, closeVars, pending>>

CompleteData(op) ==
  /\ op.event # "accept"
  /\ \E res \in Result : KernelComplete(op, res)
  /\ UNCHANGED <<bufferVars, taskVars, registryVars, channelVars, closeVars, pending>>

CheckEventTimeouts ==
  /\ ready = <<>>
  /\ CheckTimeouts
  /\ UNCHANGED <<bufferVars, taskVars, registryVars, channelVars, closeVars, pending>>

-----------------------------------------------------------------------------
(* Opening and accepting.                                                    *)

\* transport_worker_accept.  The field nth only tells apart the accepts of
\* one server; others are the operations that stay outstanding.
Accept(s, fd, others, known) ==
  LET nth == CHOOSE i \in 0..Cardinality(others) :
               \A op \in others : op.of = s => op.nth # i
  IN  Submit({[of |-> s, fd |-> fd, buf |-> 0, event |-> "accept", task |-> None, nth |-> nth]}, known)

\* servers.tcp, servers.unixStream: a listening socket, a channel and the
\* first accept.
Open(s) ==
  /\ fdOf[s] = None
  /\ FreeFds # {}
  /\ LET f == Lowest(FreeFds) IN
       /\ fdOf' = [fdOf EXCEPT ![s] = f]
       /\ descriptor' = [descriptor EXCEPT ![f] = s]
       /\ servers' = [servers EXCEPT ![f] = s]
       /\ Accept(s, f, Outstanding, events)
  /\ UNCHANGED <<bufferVars, taskVars, registryVars, listener, owner, closeVars, pending,
                 cancelled, cq, batch>>

\* A new connection of s on descriptor f, registered in both maps.
AddConnection(s, f) ==
  LET k == descriptor[f] IN
  /\ fdOf' = [fdOf EXCEPT ![k] = f]
  /\ owner' = [owner EXCEPT ![k] = s]
  /\ serverConnections' = [serverConnections EXCEPT ![f] = k]
  /\ connections' = [connections EXCEPT ![s][f] = k]

\* Mutants: notifyAccept does not ask whether the server is closing; it
\* accepts again only after a success.
NotifyAcceptClosing(s, op, res, known) ==
  /\ IF res = None THEN UNCHANGED <<fdOf, owner, registryVars>> ELSE AddConnection(s, res)
  /\ Accept(s, fdOf[s], Outstanding \ {op}, known)
NotifyAcceptOnce(s, op, res, known) ==
  IF closing[s] \/ res = None
    THEN UNCHANGED <<fdOf, owner, registryVars, inflight>> /\ events' = known
    ELSE AddConnection(s, res) /\ Accept(s, fdOf[s], Outstanding \ {op}, known)

NotifyAccept(s, op, res, known) ==
  IF closing[s]
    THEN UNCHANGED <<fdOf, owner, registryVars, inflight>> /\ events' = known
    ELSE /\ IF res = None THEN UNCHANGED <<fdOf, owner, registryVars>> ELSE AddConnection(s, res)
         /\ Accept(s, fdOf[s], Outstanding \ {op}, known)

-----------------------------------------------------------------------------
(* Reading and writing on a connection.                                      *)

\* Mutant: a connection's request of several buffers is counted once.
CountOne(k, n) == pending' = [pending EXCEPT ![k] = @ + (IF n > 0 THEN 1 ELSE 0)]

\* _pending++, _pending += bytes.length
Count(k, n) == pending' = [pending EXCEPT ![k] = @ + n]

\* Mutant: only the server's state is checked after the allocation.
StartOpen(t, r) ==
  LET k == r.connection IN
  IF closing[owner[k]]
    THEN refused' = refused \cup {t} /\ UNCHANGED <<inflight, events, pending>>
    ELSE /\ Submit({[of |-> k, fd |-> fdOf[k], buf |-> b, event |-> r.kind, task |-> t, nth |-> 0]
                      : b \in got'[t]}, events)
         /\ Count(k, r.count)
         /\ UNCHANGED refused

\* The part of read, writeSingle and writeMany after the allocation.
Start(t, r) ==
  LET k == r.connection IN
  IF closing[k] \/ closing[owner[k]]
    THEN refused' = refused \cup {t} /\ UNCHANGED <<inflight, events, pending>>
    ELSE /\ Submit({[of |-> k, fd |-> fdOf[k], buf |-> b, event |-> r.kind, task |-> t, nth |-> 0]
                      : b \in got'[t]}, events)
         /\ Count(k, r.count)
         /\ UNCHANGED refused

Served(t) == Cardinality(got'[t]) = want'[t]

\* read, writeSingle (n = 1) and writeMany, up to the first wait: from the
\* acceptor, from a callback or from a turn of the application.
Request(t, k, kind, n) ==
  /\ owner[k] # None
  /\ B!Request(t, n)
  /\ kind = "read" => n = 1 /\ UNCHANGED ready
  /\ req' = [req EXCEPT ![t] = [connection |-> k, kind |-> kind, count |-> n]]
  /\ IF ~B!Waiting(t)'
       THEN Start(t, req'[t])
       ELSE UNCHANGED <<refused, inflight, events, pending>>
  /\ UNCHANGED <<payloads, registryVars, channelVars, closeVars, cancelled, cq, batch>>

\* The next microtask of an allocation.
Resume(t) ==
  /\ batch = 0
  /\ B!Resume(t)
  /\ IF Served(t)
       THEN Start(t, req[t])
       ELSE UNCHANGED <<refused, inflight, events, pending>>
  /\ UNCHANGED <<req, payloads, registryVars, channelVars, closeVars, cancelled, cq, batch>>

\* TransportPayload.release, by the application.
ReleasePayload(t) ==
  /\ t \in payloads
  /\ \E b \in got[t] : B!Release(t, b)
  /\ payloads' = payloads \ {t}
  /\ UNCHANGED <<req, refused, registryVars, channelVars, closeVars, pending, ringVars>>

-----------------------------------------------------------------------------
(* Closing connections.                                                      *)

\* The descriptors of those of the connections K that s accepted.
NumbersOf(s, K) == {fdOf[k] : k \in {c \in K : owner[c] = s}}

\* Mutant: the connection stays in the map of the registry.
DestroyKeeping(K) ==
  /\ connections' = [s \in Server |-> [f \in Fd |->
                       IF f \in NumbersOf(s, K) THEN None ELSE connections[s][f]]]
  /\ descriptor' = [f \in Fd |-> IF descriptor[f] \in K THEN None ELSE descriptor[f]]
  /\ UNCHANGED serverConnections

\* The end of close() of the connections K: _removeConnection, which takes
\* whatever has the number out of the two maps, and close(2).
Destroy(K) ==
  LET closed == {fdOf[k] : k \in K} IN
  /\ connections' = [s \in Server |-> [f \in Fd |->
                       IF f \in NumbersOf(s, K) THEN None ELSE connections[s][f]]]
  /\ serverConnections' = [f \in Fd |-> IF f \in closed THEN None ELSE serverConnections[f]]
  /\ descriptor' = [f \in Fd |-> IF f \in closed THEN None ELSE descriptor[f]]

\* close(gracefulTimeout) of the connections K, none of which is closing, up
\* to their first waits; p is the number of their pending operations.  Those
\* that need not wait and have no listener on the inbound stream are closed.
BeginClose(K, graceful, p, known) ==
  LET busy == {k \in K : p[k] > 0} IN
  /\ active' = [k \in Connection |-> active[k] /\ (k \in K => graceful /\ k \in busy)]
  /\ IF graceful
       THEN events' = known /\ UNCHANGED cancelled
       ELSE CancelEvents({e \in known : \E k \in busy : fdOf[k] = e.fd}, known)
  /\ \E draining \in SUBSET (K \ busy) :
       LET closed == (K \ busy) \ draining IN
       /\ closePc' = [k \in Connection |->
                        CASE k \in busy -> IF graceful THEN "graceful" ELSE "forced"
                          [] k \in draining -> "drain"
                          [] k \in closed -> "closed"
                          [] OTHER -> closePc[k]]
       /\ Destroy(closed)

\* close() of a connection, by the application.  A second call changes nothing.
CloseConnection(k, graceful) ==
  /\ owner[k] # None /\ ~closing[k]
  /\ closing' = [closing EXCEPT ![k] = TRUE]
  /\ BeginClose({k}, graceful, pending, events)
  /\ UNCHANGED <<bufferVars, taskVars, fdOf, listener, owner, servers, closer, serverPc, awaited,
                 pending, inflight, cq, batch>>

\* The graceful timeout expires first: cancel what is left.
GracefulTimeout(k) ==
  /\ batch = 0 /\ ready = <<>>
  /\ closePc[k] = "graceful" /\ ~closer[k]
  /\ closePc' = [closePc EXCEPT ![k] = "forced"]
  /\ active' = [active EXCEPT ![k] = FALSE]
  /\ CancelByFd(fdOf[k], events)
  /\ UNCHANGED <<bufferVars, taskVars, registryVars, channelVars, closing, closer, serverPc, awaited,
                 pending, inflight, cq, batch>>

\* _closer is completed: close() resumes.
ResumeClose(k) ==
  /\ batch = 0
  /\ closePc[k] \in {"graceful", "forced"} /\ closer[k]
  /\ active' = [active EXCEPT ![k] = FALSE]
  /\ \/ closePc' = [closePc EXCEPT ![k] = "drain"] /\ UNCHANGED <<registryVars, descriptor>>
     \/ closePc' = [closePc EXCEPT ![k] = "closed"] /\ Destroy({k})
  /\ UNCHANGED <<bufferVars, taskVars, fdOf, listener, owner, servers, closing, closer, serverPc, awaited,
                 pending, ringVars>>

\* The listener has seen the end of the inbound stream.
EndClose(k) ==
  /\ batch = 0
  /\ closePc[k] = "drain"
  /\ closePc' = [closePc EXCEPT ![k] = "closed"]
  /\ Destroy({k})
  /\ UNCHANGED <<bufferVars, taskVars, fdOf, listener, owner, servers, active, closing, closer,
                 serverPc, awaited, pending, ringVars>>

-----------------------------------------------------------------------------
(* Closing a server.                                                         *)

\* close() of a server calls close() of its connections, in one turn.
CloseServer(s, graceful) ==
  LET K == {k \in Connection : (\E f \in Fd : connections[s][f] = k) /\ ~closing[k]} IN
  /\ fdOf[s] # None /\ ~closing[s]
  /\ closing' = [x \in Channel |-> closing[x] \/ x = s \/ x \in K]
  /\ BeginClose(K, graceful, pending, events)
  /\ awaited' = [awaited EXCEPT ![s] = K]
  /\ serverPc' = [serverPc EXCEPT ![s] = "connections"]
  /\ UNCHANGED <<bufferVars, taskVars, fdOf, listener, owner, servers, closer,
                 pending, inflight, cq, batch>>

ConnectionsClosed(s) ==
  \A k \in Connection : owner[k] = s =>
    IF k \in awaited[s] THEN closePc[k] = "closed" ELSE closer[k] \/ pending[k] = 0

\* A stream server counts no operation of its own: past its connections
\* close() neither cancels nor awaits the accept that is under way.
FinishServer(s) ==
  /\ batch = 0
  /\ serverPc[s] = "connections"
  /\ ConnectionsClosed(s)
  /\ serverPc' = [serverPc EXCEPT ![s] = "closed"]
  /\ servers' = [servers EXCEPT ![fdOf[s]] = None]
  /\ descriptor' = [descriptor EXCEPT ![fdOf[s]] = None]
  /\ UNCHANGED <<bufferVars, taskVars, registryVars, fdOf, listener, owner, active, closer, closing,
                 closePc, awaited, pending, ringVars>>

-----------------------------------------------------------------------------
(* The event loop.                                                           *)

\* A turn of the loop begins when no microtask is left.
Peek ==
  /\ ready = <<>>
  /\ PeekBatch
  /\ UNCHANGED <<bufferVars, taskVars, registryVars, channelVars, closeVars, pending>>

\* The last completion of a closing connection completes _closer and makes
\* it inactive.
LastCompletion(k) == pending[k] = 1 /\ closing[k]
\* Mutant: an inactive connection does not complete _closer.
SettleActive(k) ==
  /\ closer' = [closer EXCEPT ![k] = @ \/ (LastCompletion(k) /\ active[k])]
  /\ active' = [active EXCEPT ![k] = @ /\ ~LastCompletion(k)]
Settle(k) ==
  /\ closer' = [closer EXCEPT ![k] = @ \/ LastCompletion(k)]
  /\ active' = [active EXCEPT ![k] = @ /\ ~LastCompletion(k)]

\* notify: a read that fails or ends the stream, and a write that fails,
\* close the connection.
Notify(k, op, res, known) ==
  /\ pending' = [pending EXCEPT ![k] = @ - 1]
  /\ IF active[k] /\ op.event = "read" /\ res = "positive"
       THEN payloads' = payloads \cup {op.task} /\ UNCHANGED bufferVars
       ELSE B!Release(op.task, op.buf) /\ UNCHANGED payloads
  /\ IF active[k] /\ res # "positive" /\ ~closing[k]
       THEN /\ closing' = [closing EXCEPT ![k] = TRUE]
            /\ BeginClose({k}, FALSE, pending', known)
            /\ UNCHANGED closer
       ELSE /\ Settle(k)
            /\ events' = known
            /\ UNCHANGED <<closing, closePc, registryVars, descriptor, cancelled>>

\* One round of _handleCqes: the event is forgotten, then the channel
\* registered for the descriptor, if there is one, is notified.
HandleCqe ==
  LET op == Head(cq).op
      res == Head(cq).res
      known == RemoveEvent(Data(op))
  IN
  /\ TakeCqe
  /\ \/ /\ op.event = "accept" /\ servers[op.fd] # None
        /\ NotifyAccept(servers[op.fd], op, res, known)
        /\ UNCHANGED <<bufferVars, payloads, pending, active, closer, closing, closePc, descriptor, cancelled>>
     \/ /\ op.event # "accept" /\ serverConnections[op.fd] # None
        /\ Notify(serverConnections[op.fd], op, res, known)
        /\ UNCHANGED <<fdOf, owner, inflight>>
     \/ /\ (IF op.event = "accept" THEN servers ELSE serverConnections)[op.fd] = None
        /\ events' = known
        /\ UNCHANGED <<bufferVars, payloads, pending, active, closer, closing, closePc, descriptor, cancelled,
                       registryVars, fdOf, owner, inflight>>
  /\ UNCHANGED <<req, refused, listener, servers, serverPc, awaited>>

-----------------------------------------------------------------------------
Next ==
  \/ \E s \in Server :
       \/ Open(s)
       \/ \E graceful \in BOOLEAN : CloseServer(s, graceful)
       \/ FinishServer(s)
  \/ \E k \in Connection :
       \/ \E t \in Task, kind \in {"read", "write"}, n \in 1..MaxWant : Request(t, k, kind, n)
       \/ \E graceful \in BOOLEAN : CloseConnection(k, graceful)
       \/ GracefulTimeout(k)
       \/ ResumeClose(k)
       \/ EndClose(k)
  \/ \E t \in Task : Resume(t) \/ ReleasePayload(t)
  \/ \E op \in inflight : CompleteAccept(op) \/ CompleteData(op)
  \/ CheckEventTimeouts
  \/ Peek
  \/ HandleCqe

\* As in TransportClient: the isolate runs, the kernel completes what it was
\* asked to cancel.  Nobody has to connect.  Accepts may fail for ever and
\* keep the loop turning: what runs between two turns gets its chance again
\* and again, and is not passed over for ever.
BetweenTurns ==
  \/ \E k \in Connection : GracefulTimeout(k) \/ ResumeClose(k) \/ EndClose(k)
  \/ \E s \in Server : FinishServer(s)

Fairness ==
  /\ WF_vars(\E t \in Task : Resume(t))
  /\ WF_vars(Peek) /\ WF_vars(HandleCqe)
  /\ WF_vars(\E op \in cancelled : CompleteAccept(op) \/ CompleteData(op))
  /\ SF_vars(BetweenTurns)

Spec == Init /\ [][Next]_vars /\ Fairness

-----------------------------------------------------------------------------
TypeOK ==
  /\ B!TypeOK
  /\ req \in [Task -> RequestType \cup {None}]
  /\ refused \subseteq Task /\ payloads \subseteq Task
  /\ fdOf \in [Channel -> Fd \cup {None}]
  /\ listener \in [Connection -> Server \cup {None}] /\ owner \in [Connection -> Server \cup {None}]
  /\ connections \in [Server -> [Fd -> Connection \cup {None}]]
  /\ servers \in [Fd -> Server \cup {None}]
  /\ serverConnections \in [Fd -> Connection \cup {None}]
  /\ descriptor \in [Fd -> Channel \cup {None}]
  /\ pending \in [Connection -> Nat]
  /\ active \in [Connection -> BOOLEAN] /\ closer \in [Connection -> BOOLEAN]
  /\ closing \in [Channel -> BOOLEAN]
  /\ closePc \in [Connection -> {"none", "graceful", "forced", "drain", "closed"}]
  /\ serverPc \in [Server -> {"none", "connections", "closed"}]
  /\ awaited \in [Server -> SUBSET Connection]
  /\ RingTypeOK

Live(k) == owner[k] # None /\ closePc[k] # "closed"

\* _pending counts the operations of a connection that it has not been
\* notified of: close() and the server's close() rely on it.
PendingExact == \A k \in Connection : Live(k) => pending[k] = Cardinality(OutstandingOf(k))

\* The result of a read or a write reaches the connection that asked for it,
\* although descriptors are reused, and the buffers of the operation are still
\* its own.
CompletionReachesIssuer ==
  \A op \in Outstanding : op.event # "accept" =>
    serverConnections[op.fd] = op.of /\ op.buf \in got[op.task]

OperationsAccounted == PendingExact /\ CompletionReachesIssuer

\* The server's map and the registry hold the same connections: those that are
\* not closed, each under the descriptor of its own socket.  removeConnection
\* of a closing connection never takes another one that got the same number.
MapsAgree ==
  /\ \A k \in Connection : Live(k) =>
       /\ serverConnections[fdOf[k]] = k
       /\ connections[owner[k]][fdOf[k]] = k
       /\ descriptor[fdOf[k]] = k
  /\ \A f \in Fd : serverConnections[f] # None => Live(serverConnections[f])
  /\ \A f \in Fd, s \in Server : connections[s][f] # None => connections[s][f] = serverConnections[f]

\* A closing server leaves no connection open, not even one accepted while
\* its close() was called; and when close() ends, none of its connections has
\* an operation under way any more, whoever began to close it and how.
ClosingServerClosesConnections ==
  \A k \in Connection : owner[k] # None =>
    /\ closing[owner[k]] => closing[k]
    /\ serverPc[owner[k]] = "closed" => OutstandingOf(k) = {}

\* An open server always has an accept under way, whatever became of the
\* earlier ones: no error ends the loop.
AcceptLoopAlive ==
  \A s \in Server : fdOf[s] # None /\ ~closing[s] => \E op \in OutstandingOf(s) : op.fd = fdOf[s]

\* close() of a server or of a connection comes to an end.
ClosesEnd ==
  /\ \A k \in Connection : closing[k] ~> closePc[k] = "closed"
  /\ \A s \in Server : closing[s] ~> serverPc[s] = "closed"

\* A connection lives the way ChannelLifecycle promises.
Phase(k) == IF owner[k] = None THEN "new"
            ELSE IF closePc[k] = "closed" THEN "closed"
            ELSE IF closing[k] THEN "closing" ELSE "open"
Lifecycle == INSTANCE ChannelLifecycle
               WITH Channel <- Connection,
                    phase <- [k \in Connection |-> Phase(k)],
                    outstanding <- [k \in Connection |-> Cardinality(OutstandingOf(k))]
ImplementsLifecycle == Lifecycle!Spec

-----------------------------------------------------------------------------
(* What documentation says and the code does not do.                         *)

\* 05-server.mdx, "Closes the server. It will close all TCP connections": once
\* every server and connection is closed and nothing is left to be handled,
\* no descriptor is open.
Idle == /\ \A s \in Server : fdOf[s] # None => serverPc[s] = "closed"
        /\ \A k \in Connection : owner[k] # None => closePc[k] = "closed"
        /\ cq = <<>>
NoDescriptorLeak == Idle => \A f \in Fd : descriptor[f] = None

\* The same page: a closed server serves no new connection, so a connection is
\* only given to the acceptor of the server that it was made to.
ConnectionOfItsListener == \A k \in Connection : owner[k] \in {None, listener[k]}
=============================================================================
