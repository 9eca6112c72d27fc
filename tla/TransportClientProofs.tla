------------------------ MODULE TransportClientProofs ------------------------
(***************************************************************************)
(* Any number of clients, requests, buffers and descriptors.               *)
(*                                                                         *)
(* The proof has three layers.  BaseInv holds in every state: the pool is  *)
(* used as TransportBuffersProofs wants it, the kernel has buffers of      *)
(* requests that were served, and nobody else's.  ClientInv relates        *)
(* _pending, the progress of close() and the two descriptor tables to the  *)
(* outstanding operations; it needs that no structure was freed twice,     *)
(* which the error handler of clients.unixStream does when close() is      *)
(* running, so it is stated under DestroyedOnce.  Reports adds what the    *)
(* handlers of writes were told.                                           *)
(***************************************************************************)
EXTENDS TransportClient, WorkerRingProofs

BP == INSTANCE TransportBuffersProofs

\* The native structure and the descriptor of a client are released once.  It
\* fails when a client of unixStream is closed while its connect fails; for
\* the others it always holds.
DestroyedOnce == \A c \in Client : freed[c] <= 1

-----------------------------------------------------------------------------
(* The inductive invariant.                                                  *)

\* The operations that a client can have.
Connect(c) == [client |-> c, fd |-> fdOf[c], buf |-> 0, event |-> "connect", task |-> None]
Transfer(t, b) ==
  [client |-> req[t].client, fd |-> fdOf[req[t].client], buf |-> b, event |-> req[t].kind, task |-> t]
Transfers(t) == {Transfer(t, b) : b \in got[t]}

Requests ==
  \A t \in Task :
    /\ req[t] # None => fdOf[req[t].client] # None
    /\ want[t] > 0 => req[t] # None
    /\ B!Waiting(t) => want[t] = req[t].count
    /\ req[t] # None /\ req[t].kind \notin Outbound => want[t] <= 1
    /\ t \in payloads => want[t] > 0 /\ ~B!Waiting(t)

\* The kernel has the buffers of requests that were served and submitted.
Submitted(t) == req[t] # None /\ ~B!Waiting(t) /\ t \notin payloads

Operations ==
  \A op \in Outstanding :
    /\ op.client \in Client /\ fdOf[op.client] # None
    /\ \/ op = Connect(op.client)
       \/ /\ op.task \in Task /\ op = Transfer(op.task, op.buf)
          /\ op.buf \in got[op.task] /\ Submitted(op.task)

\* What holds of every client.
BaseInv ==
  /\ BP!PInv /\ RingInv
  /\ payloads \subseteq Task
  /\ fdOf \in [Client -> Fd \cup {None}]
  /\ freed \in [Client -> Nat]
  /\ req \in [Task -> RequestType \cup {None}]
  /\ Requests /\ Operations

Types ==
  /\ connector \in [Client -> {"none", "waiting", "connected", "failed", "handled"}]
  /\ pending \in [Client -> Nat]
  /\ active \in [Client -> BOOLEAN] /\ closing \in [Client -> BOOLEAN]
  /\ closer \in [Client -> BOOLEAN]
  /\ closePc \in [Client -> {"none", "graceful", "forced", "drain", "closed"}]
  /\ registry \in [Fd -> Client \cup {None}] /\ descriptor \in [Fd -> Client \cup {None}]

\* A live client owns its descriptor and is registered under it.
Sockets ==
  \A c \in Client :
    /\ Live(c) => descriptor[fdOf[c]] = c /\ registry[fdOf[c]] = c
    /\ fdOf[c] = None => freed[c] = 0 /\ ~closing[c] /\ connector[c] = "none"
    /\ freed[c] # 0 => closing[c] \/ connector[c] = "handled"
    /\ c \notin Stream => connector[c] = "none"

\* Where close() is, and what it knows about the pending operations.
ClosingAt(c) ==
  /\ closing[c] <=> closePc[c] # "none"
  /\ ~closing[c] => active[c]
  /\ closer[c] => closing[c] /\ pending[c] = 0
  /\ closePc[c] \in {"drain", "closed"} => pending[c] = 0
  /\ active[c] /\ closing[c] => ~closer[c] /\ pending[c] > 0
  /\ closePc[c] = "graceful" => active[c] \/ closer[c]
Closing == \A c \in Client : ClosingAt(c)

\* Only a live client has operations: its connect, or those of its requests.
Engaged ==
  /\ \A t \in Task : req[t] # None => Usable(req[t].client)
  /\ \A op \in Outstanding :
       /\ Live(op.client)
       /\ op.event = "connect" => op.client \in Stream /\ connector[op.client] = "waiting"

PendingCounts == \A c \in Client : pending[c] = Cardinality(OutstandingOf(c))

ClientInv == Types /\ Sockets /\ Closing /\ Engaged /\ PendingCounts /\ Tracked

\* The handlers of a write are in place until it is completed, and its task
\* has been told of the buffers that were.
Reports ==
  /\ doneHandlers \in [Client -> [Buffer -> Task \cup {None}]]
  /\ errorHandlers \in [Client -> [Buffer -> Task \cup {None}]]
  /\ reports \in [Task -> Seq({"done", "error"})]
  /\ \A op \in Outstanding : op.event \in Outbound =>
       doneHandlers[op.client][op.buf] = op.task /\ errorHandlers[op.client][op.buf] = op.task
  /\ \A t \in Task : B!Waiting(t) => reports[t] = <<>>
  /\ WritesReported

IInv ==
  /\ BaseInv
  /\ DestroyedOnce => ClientInv
  /\ DestroyedOnce /\ Handled = Task => Reports

-----------------------------------------------------------------------------
(* The pool, as the actions of the clients use it.                           *)

LEMMA SameCount == \A S : BP!Cardinality(S) = Cardinality(S) /\ B!Cardinality(S) = Cardinality(S)
  BY DEF BP!Cardinality, B!Cardinality, Cardinality, BP!IsFiniteSet, IsFiniteSet

\* The pool of the proofs is the pool of the specification.
LEMMA SamePool ==
  /\ BP!Buffer = Buffer
  /\ B!Init <=> BP!Init
  /\ \A t : B!Waiting(t) <=> BP!Waiting(t)
  /\ \A t : B!Waiting(t)' <=> BP!Waiting(t)'
  /\ \A t, n : B!Request(t, n) <=> BP!Request(t, n)
  /\ \A t : B!Resume(t) <=> BP!Resume(t)
  /\ \A t, b : B!Release(t, b) <=> BP!Release(t, b)
<1>1. BP!Buffer = Buffer
  BY DEF Buffer, B!Buffer, BP!Buffer
<1>2. B!Init <=> BP!Init
  BY DEF B!Init, BP!Init, B!InitialIds, BP!InitialIds
<1>3. \A t : B!Waiting(t) <=> BP!Waiting(t)
  BY DEF B!Waiting, BP!Waiting, B!Parked, BP!Parked, B!InSeq, BP!InSeq
<1>4. \A t : B!Waiting(t)' <=> BP!Waiting(t)'
  BY DEF B!Waiting, BP!Waiting, B!Parked, BP!Parked, B!InSeq, BP!InSeq
<1>5. \A t : B!Park(t) <=> BP!Park(t)
  BY DEF B!Park, BP!Park
<1>6. \A k : B!Top(k) = BP!Top(k) /\ (B!Pop(k) <=> BP!Pop(k)) /\ B!Available(k) = BP!Available(k)
  BY DEF B!Top, BP!Top, B!Pop, BP!Pop, B!Available, BP!Available
<1>7. \A t, n : B!Request(t, n) <=> BP!Request(t, n)
  BY <1>5, <1>6 DEF B!Request, BP!Request, B!ReturnArray, BP!ReturnArray, B!Counted, BP!Counted,
       B!Unbounded, BP!Unbounded
<1>8. \A t : B!Resume(t) <=> BP!Resume(t)
  BY <1>5, <1>6, SameCount DEF B!Resume, BP!Resume
<1>9. \A t, b : B!Release(t, b) <=> BP!Release(t, b)
  BY <1>3 DEF B!Release, BP!Release, B!ReleaseBuffer, BP!ReleaseBuffer, B!Holding, BP!Holding
<1> QED
  BY <1>1, <1>2, <1>3, <1>4, <1>7, <1>8, <1>9

LEMMA PoolFacts ==
  ASSUME BP!PInv
  PROVE  /\ got \in [Task -> SUBSET Buffer] /\ want \in [Task -> 0..MaxWant]
         /\ \A t \in Task : IsFiniteSet(got[t]) /\ (want[t] = 0 => got[t] = {})
         /\ \A t, u \in Task : t # u => got[t] \cap got[u] = {}
         /\ \A t \in Task : B!Waiting(t) => want[t] > 0
         /\ \A t \in Task : ~B!Waiting(t) => Cardinality(got[t]) = want[t]
<1>1. \A S : BP!IsFiniteSet(S) <=> IsFiniteSet(S)
  BY DEF BP!IsFiniteSet, IsFiniteSet
<1> QED
  BY <1>1, BP!PoolState, SamePool, SameCount, PoolAssumption

LEMMA PoolTypesNext ==
  ASSUME BP!PInv'
  PROVE  got' \in [Task -> SUBSET Buffer] /\ \A t \in Task : IsFiniteSet(got'[t])
<1>1. got' \in [Task -> SUBSET BP!Buffer]
  BY DEF BP!PInv, BP!RInv, BP!IInv, BP!TypeOK
<1>2. \A S : BP!IsFiniteSet(S) <=> IsFiniteSet(S)
  BY DEF BP!IsFiniteSet, IsFiniteSet
<1>3. \A t \in Task : IsFiniteSet(got'[t])
  BY <1>1, <1>2, BP!BufferFinite, PoolAssumption
<1> QED
  BY <1>1, <1>3, SamePool

LEMMA RequestPool ==
  ASSUME BP!PInv, NEW t \in Task, NEW n \in 1..MaxWant, B!Request(t, n)
  PROVE  /\ BP!PInv' /\ B!Next
         /\ want[t] = 0 /\ got[t] = {} /\ ~B!Waiting(t)
         /\ want' = [want EXCEPT ![t] = n]
         /\ \A u \in Task \ {t} : got'[u] = got[u] /\ (B!Waiting(u)' <=> B!Waiting(u))
         /\ ~B!Waiting(t)' => n = 1 /\ Cardinality(got'[t]) = n
<1>1. BP!Request(t, n) /\ B!Next
  BY SamePool DEF B!Next
<1> QED
  BY <1>1, BP!PoolRequest, SamePool, SameCount, PoolAssumption

LEMMA ResumePool ==
  ASSUME BP!PInv, NEW t \in Task, B!Resume(t)
  PROVE  /\ BP!PInv' /\ B!Next
         /\ B!Waiting(t) /\ want' = want
         /\ \A u \in Task \ {t} : got'[u] = got[u] /\ (B!Waiting(u)' <=> B!Waiting(u))
         /\ B!Waiting(t)' <=> Cardinality(got'[t]) # want[t]
<1>1. BP!Resume(t) /\ B!Next
  BY SamePool DEF B!Next
<1> QED
  BY <1>1, BP!PoolResume, SamePool, SameCount, PoolAssumption

LEMMA ReleasePool ==
  ASSUME BP!PInv, NEW t \in Task, NEW b \in Buffer, B!Release(t, b)
  PROVE  /\ BP!PInv' /\ B!Next
         /\ b \in got[t] /\ ~B!Waiting(t) /\ want[t] > 0
         /\ want' = [want EXCEPT ![t] = @ - 1]
         /\ got' = [got EXCEPT ![t] = @ \ {b}]
         /\ \A u \in Task : B!Waiting(u)' <=> B!Waiting(u)
<1>1. BP!Release(t, b) /\ B!Next
  BY SamePool DEF B!Next, Buffer
<1> QED
  BY <1>1, BP!PoolRelease, SamePool, PoolAssumption

\* An action that leaves the pool alone.
LEMMA KeepPool ==
  ASSUME UNCHANGED bufferVars
  PROVE  (BP!PInv => BP!PInv') /\ \A t : B!Waiting(t)' <=> B!Waiting(t)
<1>1. BP!vars' = BP!vars
  BY DEF bufferVars, BP!vars
<1>2. BP!PInv => BP!PInv'
  BY <1>1, BP!NextPInv, PoolAssumption
<1> QED
  BY <1>2 DEF bufferVars, B!Waiting, B!Parked, B!InSeq

-----------------------------------------------------------------------------
(* What holds of every client.                                               *)

LEMMA InitBase == Init => BaseInv
<1> SUFFICES ASSUME Init PROVE BaseInv
  OBVIOUS
<1>1. BP!PInv
  BY BP!InitPInv, SamePool, PoolAssumption DEF Init
<1>2. RingInv /\ Outstanding = {}
  BY InitRing DEF Init
<1>3. \A t \in Task : want[t] = 0 /\ req[t] = None
  BY DEF Init, B!Init
<1>4. \A t \in Task : ~B!Waiting(t)
  BY <1>1, <1>3, PoolFacts
<1>5. Requests
  BY <1>3, <1>4 DEF Init, Requests
<1> QED
  BY <1>1, <1>2, <1>5 DEF Init, BaseInv, Operations

\* One operation for each of the buffers S.
Each(S, c, f, k, t) == {[client |-> c, fd |-> f, buf |-> b, event |-> k, task |-> t] : b \in S}

LEMMA OneEach ==
  ASSUME NEW S, IsFiniteSet(S), NEW c, NEW f, NEW k, NEW t
  PROVE  IsFiniteSet(Each(S, c, f, k, t)) /\ Cardinality(Each(S, c, f, k, t)) = Cardinality(S)
<1> DEFINE op(b) == [client |-> c, fd |-> f, buf |-> b, event |-> k, task |-> t]
           ops == Each(S, c, f, k, t)
           g == [b \in S |-> op(b)]
<1>1. g \in Surjection(S, ops)
  BY DEF Surjection, Each
<1>2. \A a, b \in S : op(a) = op(b) => a = b
  <2>1. \A b \in S : op(b).buf = b
    OBVIOUS
  <2> QED
    BY <2>1
<1>3. g \in Injection(S, ops)
  BY <1>1, <1>2 DEF Injection, Surjection, IsInjective
<1> QED
  BY <1>1, <1>3, FS_Surjection

\* The submission of a request that has no operation yet.
LEMMA StartRing ==
  ASSUME RingInv, NEW t, Start(t, req'[t]), UNCHANGED <<fdOf, cancelled, cq, batch>>,
         IsFiniteSet(got'[t]), \A op \in Outstanding : op.task # t
  PROVE  /\ RingInv' /\ (Tracked => Tracked')
         /\ \/ closing[req'[t].client] /\ Outstanding' = Outstanding
            \/ ~closing[req'[t].client] /\ Outstanding' = Outstanding \cup Transfers(t)'
<1> DEFINE r == req'[t]
           c == r.client
           ops == {[client |-> c, fd |-> fdOf[c], buf |-> b, event |-> r.kind, task |-> t] : b \in got'[t]}
<1>1. CASE closing[c]
  <2>1. UNCHANGED <<inflight, events>>
    BY <1>1 DEF Start
  <2>2. RingInv' /\ Outstanding' = Outstanding
    BY <2>1, KeepRing DEF RingInv
  <2> QED
    BY <1>1, <2>1, <2>2 DEF Tracked
<1>2. CASE ~closing[c]
  <2>1. Submit(ops, events)
    BY <1>2 DEF Start
  <2>2. IsFiniteSet(ops)
    <3>1. ops = Each(got'[t], c, fdOf[c], r.kind, t)
      BY DEF Each
    <3> HIDE DEF ops, c, r
    <3> QED
      BY <3>1, OneEach
  <2>3. ops \cap Outstanding = {}
    OBVIOUS
  <2>4. Transfers(t)' = ops
    BY DEF Transfers, Transfer
  <2> HIDE DEF ops
  <2> QED
    BY <1>2, <2>1, <2>2, <2>3, <2>4, SubmitRing
<1> QED
  BY <1>1, <1>2

\* A task that asks for buffers, or waits for them, has no operation.
LEMMA NoneOutstanding ==
  ASSUME BaseInv, NEW t \in Task, B!Waiting(t) \/ want[t] = 0
  PROVE  (\A op \in Outstanding : op.task # t) /\ t \notin payloads
<1>1. t \notin payloads
  BY DEF BaseInv, Requests
<1>2. ASSUME NEW op \in Outstanding, op.task = t PROVE FALSE
  <2>1. op = Connect(op.client) \/ (op.buf \in got[t] /\ ~B!Waiting(t))
    BY <1>2 DEF BaseInv, Operations, Submitted
  <2>2. op # Connect(op.client)
    BY <1>2, ClientAssumption DEF Connect
  <2> QED
    BY <2>1, <2>2, PoolFacts DEF BaseInv
<1> QED
  BY <1>1, <1>2

\* The operations of a task that asks or resumes are those of its request.
LEMMA IssueBase ==
  ASSUME BaseInv, NEW t \in Task, NEW S, BP!PInv', RingInv',
         UNCHANGED <<fdOf, freed, payloads>>,
         req' \in [Task -> RequestType \cup {None}], req'[t] # None, fdOf[req'[t].client] # None,
         B!Waiting(t) \/ want[t] = 0,
         \A u \in Task \ {t} : /\ req'[u] = req[u] /\ got'[u] = got[u] /\ want'[u] = want[u]
                               /\ B!Waiting(u)' <=> B!Waiting(u),
         want'[t] = req'[t].count, req'[t].kind \notin Outbound => want'[t] = 1,
         \/ Outstanding' = Outstanding
         \/ Outstanding' = Outstanding \cup Transfers(t)' /\ ~B!Waiting(t)'
  PROVE  BaseInv'
<1>1. (\A op \in Outstanding : op.task # t) /\ t \notin payloads
  BY NoneOutstanding
<1>2. Requests'
  BY <1>1 DEF BaseInv, Requests
<1>3. ASSUME NEW op \in Outstanding
      PROVE  /\ op.client \in Client /\ fdOf'[op.client] # None
             /\ \/ op = Connect(op.client)'
                \/ /\ op.task \in Task /\ op = Transfer(op.task, op.buf)'
                   /\ op.buf \in got'[op.task] /\ Submitted(op.task)'
  <2>1. op.client \in Client /\ fdOf'[op.client] # None
    BY DEF BaseInv, Operations
  <2>2. CASE op = Connect(op.client)
    BY <2>1, <2>2 DEF Connect
  <2>3. CASE /\ op.task \in Task /\ op = Transfer(op.task, op.buf)
             /\ op.buf \in got[op.task] /\ Submitted(op.task)
    <3> DEFINE u == op.task
    <3>1. u \in Task \ {t}
      BY <1>1, <2>3
    <3> HIDE DEF u
    <3>2. Transfer(u, op.buf)' = Transfer(u, op.buf) /\ Submitted(u)' = Submitted(u) /\ got'[u] = got[u]
      BY <3>1 DEF Transfer, Submitted
    <3> QED
      BY <2>1, <2>3, <3>1, <3>2 DEF u
  <2> QED
    BY <2>1, <2>2, <2>3 DEF BaseInv, Operations
<1>4. ASSUME NEW op \in Transfers(t)', ~B!Waiting(t)'
      PROVE  /\ op.client \in Client /\ fdOf'[op.client] # None
             /\ op.task \in Task /\ op = Transfer(op.task, op.buf)'
             /\ op.buf \in got'[op.task] /\ Submitted(op.task)'
  <2>1. PICK b \in got'[t] : op = Transfer(t, b)'
    BY DEF Transfers
  <2>2. op.client = req'[t].client /\ op.task = t /\ op.buf = b
    BY <2>1 DEF Transfer
  <2>3. req'[t] \in RequestType
    OBVIOUS
  <2>4. Submitted(t)'
    BY <1>1, <1>4 DEF Submitted
  <2> QED
    BY <2>1, <2>2, <2>3, <2>4 DEF RequestType
<1>5. Operations'
  BY <1>3, <1>4 DEF Operations
<1> QED
  BY <1>2, <1>5 DEF BaseInv

\* The handlers that the operations of a request begin with.
WithHandlers(t, c, kind, handlers) ==
  [handlers EXCEPT ![c] = [b \in Buffer |->
     IF b \in got'[t] /\ kind \in Outbound /\ t \in Handled THEN t ELSE @[b]]]
Registers(t, c, kind) ==
  /\ doneHandlers' = WithHandlers(t, c, kind, doneHandlers)
  /\ errorHandlers' = WithHandlers(t, c, kind, errorHandlers)

\* A request either waits or is refused, or has its operations from now on.
Issues(t, c, kind, n) ==
  \/ /\ Outstanding' = Outstanding /\ pending' = pending /\ UNCHANGED handlerVars
     /\ B!Waiting(t)' \/ t \in refused'
  \/ /\ Outstanding' = Outstanding \cup Transfers(t)' /\ ~closing[c] /\ ~B!Waiting(t)'
     /\ pending' = [pending EXCEPT ![c] = @ + n] /\ Cardinality(got'[t]) = n
     /\ Registers(t, c, kind)

\* Request and Resume of a task, with the facts that the other parts need.
LEMMA RequestBase ==
  ASSUME BaseInv, NEW c \in Client, NEW t \in Task, NEW kind \in Kinds(c), NEW n \in 1..MaxWant,
         Request(t, c, kind, n)
  PROVE  /\ BaseInv' /\ B!Next
         /\ \A op \in Outstanding : op.task # t
         /\ Tracked => Tracked'
         /\ req' = [req EXCEPT ![t] = [client |-> c, kind |-> kind, count |-> n]]
         /\ \A u \in Task \ {t} : B!Waiting(u)' <=> B!Waiting(u)
         /\ Issues(t, c, kind, n)
<1> DEFINE r == [client |-> c, kind |-> kind, count |-> n]
<1>1. /\ Usable(c) /\ (kind \notin Outbound => n = 1) /\ B!Request(t, n)
      /\ req' = [req EXCEPT ![t] = r]
      /\ UNCHANGED <<payloads, closeVars, socketVars, connector, cancelled, cq, batch>>
      /\ IF ~B!Waiting(t)' THEN Start(t, req'[t])
         ELSE UNCHANGED <<refused, inflight, events, pending, handlerVars>>
  BY DEF Request
<1>2. req'[t] = r /\ r \in RequestType /\ r.client = c /\ r.kind = kind /\ r.count = n
  BY <1>1 DEF RequestType, Kinds, BaseInv
<1> HIDE DEF r
<1>3. req' \in [Task -> RequestType \cup {None}] /\ req'[t] # None
  BY <1>1, <1>2, ClientAssumption DEF BaseInv
<1>4. BP!PInv /\ RingInv
  BY DEF BaseInv
<1>5. /\ BP!PInv' /\ B!Next
      /\ want[t] = 0 /\ want' = [want EXCEPT ![t] = n]
      /\ \A u \in Task \ {t} : got'[u] = got[u] /\ (B!Waiting(u)' <=> B!Waiting(u))
      /\ ~B!Waiting(t)' => n = 1 /\ Cardinality(got'[t]) = n
  BY <1>1, <1>4, RequestPool
<1>6. \A op \in Outstanding : op.task # t
  BY <1>5, NoneOutstanding
<1>7. want'[t] = n /\ (Served(t) <=> Cardinality(got'[t]) = n)
  BY <1>4, <1>5, PoolFacts DEF Served
<1>8. IsFiniteSet(got'[t])
  BY <1>5, PoolTypesNext
<1>9. fdOf[c] # None /\ UNCHANGED <<fdOf, freed>>
  BY <1>1 DEF Usable, socketVars
<1>10. /\ req'[t] # None /\ fdOf[req'[t].client] # None
       /\ \A u \in Task \ {t} : req'[u] = req[u] /\ want'[u] = want[u]
       /\ want'[t] = req'[t].count /\ (req'[t].kind \notin Outbound => want'[t] = 1)
  BY <1>1, <1>2, <1>3, <1>4, <1>5, <1>7, <1>9, PoolFacts
<1>11. CASE ~B!Waiting(t)'
  <2>1. Start(t, req'[t]) /\ ~B!Waiting(t)' /\ Cardinality(got'[t]) = n
    BY <1>1, <1>5, <1>7, <1>11
  <2>2. /\ RingInv' /\ (Tracked => Tracked')
        /\ \/ closing[c] /\ Outstanding' = Outstanding
           \/ ~closing[c] /\ Outstanding' = Outstanding \cup Transfers(t)'
    BY <1>1, <1>2, <1>4, <1>6, <1>8, <1>9, <2>1, StartRing
  <2>3. BaseInv'
    BY <1>1, <1>3, <1>5, <1>9, <1>10, <2>1, <2>2, IssueBase
  <2>4. /\ closing[c] => t \in refused' /\ pending' = pending /\ UNCHANGED handlerVars
        /\ ~closing[c] => pending' = [pending EXCEPT ![c] = @ + n] /\ Registers(t, c, kind)
    BY <1>2, <2>1 DEF Start, Count, Registers, WithHandlers
  <2> QED
    BY <1>1, <1>5, <1>6, <2>1, <2>2, <2>3, <2>4 DEF r, Issues
<1>12. CASE B!Waiting(t)'
  <2>1. UNCHANGED <<refused, inflight, events, pending, handlerVars>> /\ B!Waiting(t)'
    BY <1>1, <1>5, <1>7, <1>12
  <2>2. RingInv' /\ Outstanding' = Outstanding
    BY <1>1, <1>4, <2>1, KeepRing DEF RingInv
  <2>3. BaseInv'
    BY <1>1, <1>3, <1>5, <1>9, <1>10, <2>2, IssueBase
  <2>4. Tracked => Tracked'
    BY <1>1, <2>1, <2>2 DEF Tracked
  <2> QED
    BY <1>1, <1>5, <1>6, <2>1, <2>2, <2>3, <2>4 DEF r, Issues
<1> QED
  BY <1>11, <1>12

LEMMA ResumeBase ==
  ASSUME BaseInv, NEW t \in Task, Resume(t)
  PROVE  /\ BaseInv' /\ B!Next
         /\ B!Waiting(t) /\ req[t] \in RequestType
         /\ \A op \in Outstanding : op.task # t
         /\ Tracked => Tracked'
         /\ \A u \in Task \ {t} : B!Waiting(u)' <=> B!Waiting(u)
         /\ Issues(t, req[t].client, req[t].kind, req[t].count)
<1>1. /\ B!Resume(t)
      /\ UNCHANGED <<req, payloads, closeVars, socketVars, connector, cancelled, cq, batch>>
      /\ IF Served(t) THEN Start(t, req[t])
         ELSE UNCHANGED <<refused, inflight, events, pending, handlerVars>>
  BY DEF Resume
<1>2. BP!PInv /\ RingInv
  BY DEF BaseInv
<1>3. /\ BP!PInv' /\ B!Next
      /\ B!Waiting(t) /\ want' = want
      /\ \A u \in Task \ {t} : got'[u] = got[u] /\ (B!Waiting(u)' <=> B!Waiting(u))
      /\ B!Waiting(t)' <=> Cardinality(got'[t]) # want[t]
  BY <1>1, <1>2, ResumePool
<1>4. want[t] > 0 /\ want \in [Task -> 0..MaxWant]
  BY <1>2, <1>3, PoolFacts
<1>5. /\ req[t] # None /\ req[t] \in RequestType /\ fdOf[req[t].client] # None
      /\ want[t] = req[t].count /\ (req[t].kind \notin Outbound => want[t] = 1)
  BY <1>3, <1>4, PoolAssumption DEF BaseInv, Requests
<1>6. \A op \in Outstanding : op.task # t
  BY <1>3, NoneOutstanding
<1>7. Served(t) <=> ~B!Waiting(t)'
  BY <1>3 DEF Served
<1>8. IsFiniteSet(got'[t])
  BY <1>3, PoolTypesNext
<1>9. UNCHANGED <<fdOf, freed>> /\ req' = req
  BY <1>1 DEF socketVars
<1>10. /\ req' \in [Task -> RequestType \cup {None}] /\ req'[t] # None /\ fdOf[req'[t].client] # None
       /\ \A u \in Task \ {t} : req'[u] = req[u] /\ want'[u] = want[u]
       /\ want'[t] = req'[t].count /\ (req'[t].kind \notin Outbound => want'[t] = 1)
  BY <1>3, <1>5, <1>9 DEF BaseInv
<1>11. CASE Served(t)
  <2>1. Start(t, req'[t]) /\ ~B!Waiting(t)' /\ Cardinality(got'[t]) = req[t].count
    BY <1>1, <1>3, <1>5, <1>7, <1>9, <1>11
  <2>2. /\ RingInv' /\ (Tracked => Tracked')
        /\ \/ closing[req[t].client] /\ Outstanding' = Outstanding
           \/ ~closing[req[t].client] /\ Outstanding' = Outstanding \cup Transfers(t)'
    BY <1>1, <1>2, <1>6, <1>8, <1>9, <2>1, StartRing
  <2>3. BaseInv'
    BY <1>1, <1>3, <1>9, <1>10, <2>1, <2>2, IssueBase
  <2>4. /\ closing[req[t].client] => t \in refused' /\ pending' = pending /\ UNCHANGED handlerVars
        /\ ~closing[req[t].client] =>
             /\ pending' = [pending EXCEPT ![req[t].client] = @ + req[t].count]
             /\ Registers(t, req[t].client, req[t].kind)
    BY <1>9, <2>1 DEF Start, Count, Registers, WithHandlers
  <2> QED
    BY <1>3, <1>5, <1>6, <2>1, <2>2, <2>3, <2>4 DEF Issues
<1>12. CASE ~Served(t)
  <2>1. UNCHANGED <<refused, inflight, events, pending, handlerVars>> /\ B!Waiting(t)'
    BY <1>1, <1>7, <1>12
  <2>2. RingInv' /\ Outstanding' = Outstanding
    BY <1>1, <1>2, <2>1, KeepRing DEF RingInv
  <2>3. BaseInv'
    BY <1>1, <1>3, <1>9, <1>10, <2>2, IssueBase
  <2>4. Tracked => Tracked'
    BY <1>1, <2>1, <2>2 DEF Tracked
  <2> QED
    BY <1>3, <1>5, <1>6, <2>1, <2>2, <2>3, <2>4 DEF Issues
<1> QED
  BY <1>11, <1>12

\* A step that leaves the pool and the requests alone, and ends operations
\* that have no buffer to return, if any.
LEMMA KeepBase ==
  ASSUME BaseInv, UNCHANGED <<bufferVars, req, payloads, fdOf>>, freed' \in [Client -> Nat],
         RingInv', Outstanding' \subseteq Outstanding
  PROVE  BaseInv'
<1>1. BP!PInv' /\ \A t : B!Waiting(t)' <=> B!Waiting(t)
  BY KeepPool DEF BaseInv
<1>2. got' = got /\ want' = want
  BY DEF bufferVars
<1>3. \A t : Submitted(t)' <=> Submitted(t)
  BY <1>1 DEF Submitted
<1>4. Requests'
  BY <1>1, <1>2 DEF BaseInv, Requests
<1>5. /\ \A c : Connect(c)' = Connect(c)
      /\ \A t, b : Transfer(t, b)' = Transfer(t, b)
  BY DEF Connect, Transfer
<1>6. Operations'
  BY <1>2, <1>3, <1>5 DEF BaseInv, Operations
<1> QED
  BY <1>1, <1>4, <1>6 DEF BaseInv

\* A step that returns a buffer of a task, whose operation or payload it was.
LEMMA ReleaseBase ==
  ASSUME BaseInv, NEW t \in Task, NEW b \in Buffer, B!Release(t, b),
         UNCHANGED <<req, fdOf>>, freed' \in [Client -> Nat],
         RingInv', Outstanding' \subseteq Outstanding, payloads' = payloads \ {t},
         \A op \in Outstanding' : op.task = t => op.buf # b
  PROVE  BaseInv'
<1>1. /\ BP!PInv' /\ b \in got[t] /\ ~B!Waiting(t) /\ want[t] > 0
      /\ want' = [want EXCEPT ![t] = @ - 1]
      /\ got' = [got EXCEPT ![t] = @ \ {b}]
      /\ \A u \in Task : B!Waiting(u)' <=> B!Waiting(u)
  BY ReleasePool DEF BaseInv
<1>2. got \in [Task -> SUBSET Buffer] /\ want \in [Task -> 0..MaxWant]
  BY PoolFacts DEF BaseInv
<1>3. Requests'
  <2>1. ASSUME NEW u \in Task
        PROVE  /\ u # t => want'[u] = want[u]
               /\ u = t => ~B!Waiting(u)' /\ want'[u] < want[u]
               /\ want[u] \in Int /\ want'[u] \in Int
    BY <1>1, <1>2, PoolAssumption
  <2> QED
    BY <1>1, <2>1 DEF BaseInv, Requests
<1>4. /\ \A c : Connect(c)' = Connect(c)
      /\ \A u, x : Transfer(u, x)' = Transfer(u, x)
      /\ \A u \in Task : Submitted(u) => Submitted(u)'
  BY <1>1 DEF Connect, Transfer, Submitted
<1>5. \A u \in Task : \A x : x \in got[u] /\ ~(u = t /\ x = b) => x \in got'[u]
  BY <1>1, <1>2
<1>6. Operations'
  BY <1>4, <1>5 DEF BaseInv, Operations
<1>7. payloads' \subseteq Task
  BY DEF BaseInv
<1> QED
  BY <1>1, <1>3, <1>6, <1>7 DEF BaseInv

\* A completed inbound operation is the only one of its task.
LEMMA InboundAlone ==
  ASSUME BaseInv, NEW op \in Outstanding, NEW o \in Outstanding, op.task = o.task,
         op.event \notin Outbound \cup {"connect"}, o.event # "connect"
  PROVE  op = o /\ want[op.task] = 1
<1> DEFINE t == op.task
<1>1. /\ t \in Task /\ req[t] # None /\ op = Transfer(t, op.buf) /\ op.buf \in got[t] /\ ~B!Waiting(t)
      /\ o = Transfer(t, o.buf) /\ o.buf \in got[t]
  BY DEF BaseInv, Operations, Connect, Submitted
<1>2. op.event = req[t].kind
  BY <1>1 DEF Transfer
<1> HIDE DEF t
<1>3. want[t] <= 1 /\ Cardinality(got[t]) = want[t] /\ IsFiniteSet(got[t]) /\ want[t] \in 0..MaxWant
  BY <1>1, <1>2, PoolFacts DEF BaseInv, Requests, t
<1>4. want[t] # 0
  BY <1>1, PoolFacts DEF BaseInv
<1>5. want[t] = 1
  BY <1>3, <1>4, PoolAssumption
<1>6. \E x : got[t] = {x}
  BY <1>3, <1>5, FS_Singleton
<1> QED
  BY <1>1, <1>5, <1>6 DEF t

\* The buffer of a completed inbound operation becomes a payload.
LEMMA PayloadBase ==
  ASSUME BaseInv, NEW op \in Outstanding, op.event \notin Outbound \cup {"connect"},
         UNCHANGED <<bufferVars, req, fdOf, freed>>, payloads' = payloads \cup {op.task},
         RingInv', Outstanding' = Outstanding \ {op}
  PROVE  BaseInv'
<1> DEFINE t == op.task
<1>1. BP!PInv' /\ \A u : B!Waiting(u)' <=> B!Waiting(u)
  BY KeepPool DEF BaseInv
<1>2. got' = got /\ want' = want
  BY DEF bufferVars
<1>3. t \in Task /\ ~B!Waiting(t) /\ want[t] = 1
  BY InboundAlone DEF BaseInv, Operations, Connect, Submitted
<1>4. \A o \in Outstanding' : o.event # "connect" => o.task # t
  BY InboundAlone
<1>5. /\ \A c : Connect(c)' = Connect(c)
      /\ \A u, x : Transfer(u, x)' = Transfer(u, x)
      /\ \A u \in Task : u # t => (Submitted(u)' <=> Submitted(u))
  BY <1>1 DEF Connect, Transfer, Submitted
<1>6. Requests'
  BY <1>1, <1>2, <1>3 DEF BaseInv, Requests
<1>7. Operations'
  <2>1. ASSUME NEW o \in Outstanding'
        PROVE  /\ o.client \in Client /\ fdOf'[o.client] # None
               /\ \/ o = Connect(o.client)'
                  \/ /\ o.task \in Task /\ o = Transfer(o.task, o.buf)'
                     /\ o.buf \in got'[o.task] /\ Submitted(o.task)'
    <3>1. CASE o = Connect(o.client)
      BY <1>5, <3>1 DEF BaseInv, Operations
    <3>2. CASE o # Connect(o.client)
      <4>1. /\ o.task \in Task /\ o = Transfer(o.task, o.buf)
            /\ o.buf \in got[o.task] /\ Submitted(o.task)
            /\ o.client \in Client /\ fdOf[o.client] # None
        BY <3>2 DEF BaseInv, Operations
      <4>2. o.event # "connect"
        BY <4>1 DEF Transfer, Submitted, BaseInv, RequestType
      <4> QED
        BY <1>2, <1>4, <1>5, <4>1, <4>2
    <3> QED
      BY <3>1, <3>2
  <2> QED
    BY <2>1 DEF Operations
<1> QED
  BY <1>1, <1>3, <1>6, <1>7 DEF BaseInv

\* A client that is opened had no request and no operation.
LEMMA OpenBase ==
  ASSUME BaseInv, NEW c \in Client, NEW f \in Fd, fdOf[c] = None, fdOf' = [fdOf EXCEPT ![c] = f],
         UNCHANGED <<bufferVars, req, payloads, freed>>, RingInv',
         Outstanding' = Outstanding \/ Outstanding' = Outstanding \cup {Connect(c)'}
  PROVE  BaseInv'
<1>1. BP!PInv' /\ \A t : B!Waiting(t)' <=> B!Waiting(t)
  BY KeepPool DEF BaseInv
<1>2. got' = got /\ want' = want
  BY DEF bufferVars
<1>3. /\ fdOf' \in [Client -> Fd \cup {None}]
      /\ fdOf'[c] = f /\ f # None
      /\ \A x \in Client : x # c => fdOf'[x] = fdOf[x]
  BY ClientAssumption DEF BaseInv
<1>4. Requests'
  <2>1. \A t \in Task : req[t] # None => req[t].client \in Client /\ fdOf'[req[t].client] # None
    BY <1>3 DEF BaseInv, Requests, RequestType
  <2> QED
    BY <1>1, <1>2, <2>1 DEF BaseInv, Requests
<1>5. /\ \A x \in Client : x # c => Connect(x)' = Connect(x)
      /\ \A t \in Task : \A b : req[t] # None => Transfer(t, b)' = Transfer(t, b)
      /\ \A t \in Task : Submitted(t)' <=> Submitted(t)
  <2>1. \A t \in Task : req[t] # None => fdOf'[req[t].client] = fdOf[req[t].client]
    BY <1>3 DEF BaseInv, Requests, RequestType
  <2> QED
    BY <1>1, <1>3, <2>1 DEF Connect, Transfer, Submitted
<1>6. Operations'
  <2>1. ASSUME NEW o \in Outstanding
        PROVE  /\ o.client \in Client /\ fdOf'[o.client] # None
               /\ \/ o = Connect(o.client)'
                  \/ /\ o.task \in Task /\ o = Transfer(o.task, o.buf)'
                     /\ o.buf \in got'[o.task] /\ Submitted(o.task)'
    BY <1>2, <1>3, <1>5 DEF BaseInv, Operations, Submitted
  <2>2. Connect(c)'.client = c
    BY DEF Connect
  <2> QED
    BY <1>3, <2>1, <2>2 DEF Operations
<1> QED
  BY <1>1, <1>3, <1>4, <1>6 DEF BaseInv


-----------------------------------------------------------------------------
(* The steps of the ring.                                                    *)

Ended == Head(cq).op
Notified == registry[Ended.fd]
Known == RemoveEvent(Data(Ended))

\* close() cancels or leaves the table as it is, and destroys at most its client.
LEMMA BeginCloseCancels ==
  ASSUME NEW c, NEW graceful, NEW p, NEW known, BeginClose(c, graceful, p, known)
  PROVE  (\E E : CancelEvents(E, known)) /\ (freed' = freed \/ Destroy(c))
<1>1. CASE events' = known /\ cancelled' = cancelled
  <2>1. CancelEvents({}, known)
    BY <1>1 DEF CancelEvents
  <2> QED
    BY <2>1 DEF BeginClose, Drain
<1>2. CASE CancelByFd(fdOf[c], known)
  BY <1>2 DEF BeginClose, Drain, CancelByFd
<1> QED
  BY <1>1, <1>2 DEF BeginClose

\* What HandleCqe does, by what it finds.
LEMMA HandleCases ==
  ASSUME HandleCqe
  PROVE  /\ TakeCqe /\ UNCHANGED <<req, refused, fdOf, inflight>>
         /\ \E c, op, res, known :
              /\ c = Notified /\ op = Ended /\ res = Head(cq).res /\ known = Known
              /\ \/ /\ c = None /\ events' = known
                    /\ UNCHANGED <<bufferVars, taskVars, handlerVars, closeVars, registry, descriptor,
                                   freed, connector, pending, cancelled>>
                 \/ c # None /\ op.event = "connect" /\ NotifyConnect(c, res) /\ events' = known
                 \/ c # None /\ op.event # "connect" /\ NotifyData(c, op, res, known)
<1>1. TakeCqe /\ UNCHANGED <<req, refused, fdOf, inflight>>
  BY DEF HandleCqe, NotifyConnect, NotifyData, taskVars
<1>2. PICK c, op, res, known :
             c = Notified /\ op = Ended /\ res = Head(cq).res /\ known = Known
  OBVIOUS
<1>3. CASE Notified = None
  BY <1>1, <1>2, <1>3 DEF HandleCqe, Ended, Notified, Known
<1>4. CASE Notified # None /\ Ended.event = "connect"
  <2>1. NotifyConnect(Notified, Head(cq).res) /\ events' = Known
    BY <1>4 DEF HandleCqe, Ended, Notified, Known
  <2>2. NotifyConnect(c, res)
    BY <1>2, <2>1 DEF NotifyConnect, Settle, CompleteCloser, LastCompletion
  <2> QED
    BY <1>1, <1>2, <1>4, <2>1, <2>2
<1>5. CASE Notified # None /\ Ended.event # "connect"
  <2>1. NotifyData(Notified, Ended, Head(cq).res, Known)
    BY <1>5 DEF HandleCqe, Ended, Notified, Known
  <2>2. NotifyData(c, op, res, known)
    BY <1>2, <2>1 DEF NotifyData, NotifyActive, NotifyInactive, Report, Settle, CompleteCloser,
         LastCompletion, BeginClose, Drain, Destroy, CancelByFd, CancelEvents,
         B!Release, B!ReleaseBuffer, B!Holding
  <2> QED
    BY <1>1, <1>2, <1>5, <2>2
<1> QED
  BY <1>3, <1>4, <1>5

LEMMA DataCases ==
  ASSUME NEW c, NEW op, NEW res, NEW known, NotifyData(c, op, res, known)
  PROVE  /\ \/ B!Release(op.task, op.buf) /\ UNCHANGED payloads
            \/ /\ active[c] /\ op.event \notin Outbound /\ UNCHANGED bufferVars
               /\ payloads' = payloads \cup {op.task}
         /\ freed' = freed \/ Destroy(c)
         /\ \E E : CancelEvents(E, known)
<1>1. CASE events' = known /\ cancelled' = cancelled
  <2>1. CancelEvents({}, known)
    BY <1>1 DEF CancelEvents
  <2> QED
    BY <2>1, BeginCloseCancels DEF NotifyData, NotifyActive, NotifyInactive
<1>2. CASE BeginClose(c, FALSE, pending[c] - 1, known)
  BY <1>2, BeginCloseCancels DEF NotifyData, NotifyActive, NotifyInactive
<1> QED
  BY <1>1, <1>2 DEF NotifyData, NotifyActive, NotifyInactive

LEMMA HandleRing ==
  ASSUME RingInv, HandleCqe
  PROVE  /\ RingInv' /\ inflight' = inflight
         /\ Ended \in Outstanding \ inflight /\ Outstanding' = Outstanding \ {Ended}
         /\ \E E : CancelEvents(E, Known)
<1>1. TakeCqe /\ inflight' = inflight
  BY HandleCases
<1>2. \E E : CancelEvents(E, Known)
  <2>1. CASE events' = Known /\ cancelled' = cancelled
    <3>1. CancelEvents({}, Known)
      BY <2>1 DEF CancelEvents
    <3> QED
      BY <3>1
  <2>2. ASSUME NEW c, NEW op, NEW res, NEW known, known = Known, NotifyData(c, op, res, known)
        PROVE  \E E : CancelEvents(E, Known)
    BY <2>2, DataCases
  <2> QED
    BY <2>1, <2>2, HandleCases DEF NotifyConnect
<1>3. cancelled' \subseteq inflight'
  BY <1>1, <1>2 DEF CancelEvents, RingInv
<1>4. inflight' = inflight \cup {} /\ IsFiniteSet({})
  BY <1>1, FS_EmptySet
<1> QED
  BY <1>1, <1>2, <1>3, <1>4, TakeRing DEF Ended

\* The steps that end no operation.
LEMMA CancelRing ==
  ASSUME RingInv, NEW E, CancelEvents(E, events), UNCHANGED <<inflight, cq, batch>>
  PROVE  RingInv' /\ Outstanding' = Outstanding /\ (Tracked => Tracked')
<1>1. cancelled' \subseteq inflight /\ batch' \in 0..Len(cq)
  BY DEF CancelEvents, RingInv
<1> QED
  BY <1>1, KeepRing, CancelTracked

LEMMA StillRing ==
  ASSUME RingInv, UNCHANGED <<events, cancelled, inflight, cq, batch>>
  PROVE  RingInv' /\ Outstanding' = Outstanding /\ (Tracked => Tracked')
<1>1. cancelled' \subseteq inflight /\ batch' \in 0..Len(cq)
  BY DEF RingInv
<1>2. RingInv' /\ Outstanding' = Outstanding
  BY <1>1, KeepRing
<1> QED
  BY <1>2 DEF Tracked

\* The parts of close() past its call.
ClosePart(c) == GracefulTimeout(c) \/ ResumeClose(c) \/ EndClose(c) \/ ConnectErrorHandler(c)

LEMMA CloseRing ==
  ASSUME RingInv, NEW c, (\E graceful \in BOOLEAN : Close(c, graceful)) \/ ClosePart(c)
  PROVE  /\ RingInv' /\ Outstanding' = Outstanding /\ (Tracked => Tracked')
         /\ UNCHANGED <<bufferVars, taskVars, handlerVars, fdOf, pending>>
         /\ freed' = freed \/ Destroy(c)
<1>1. CASE \E graceful \in BOOLEAN : Close(c, graceful)
  <2>1. PICK graceful \in BOOLEAN : Close(c, graceful)
    BY <1>1
  <2>2. /\ \E E : CancelEvents(E, events)
        /\ freed' = freed \/ Destroy(c)
    BY <2>1, BeginCloseCancels DEF Close
  <2>3. UNCHANGED <<bufferVars, taskVars, handlerVars, fdOf, pending, inflight, cq, batch>>
    BY <2>1 DEF Close
  <2> QED
    BY <2>2, <2>3, CancelRing
<1>2. CASE GracefulTimeout(c)
  <2>1. \E E : CancelEvents(E, events)
    BY <1>2 DEF GracefulTimeout, CancelByFd
  <2>2. UNCHANGED <<bufferVars, taskVars, handlerVars, fdOf, freed, pending, inflight, cq, batch>>
    BY <1>2 DEF GracefulTimeout, socketVars
  <2> QED
    BY <2>1, <2>2, CancelRing
<1>3. CASE ResumeClose(c)
  <2>1. UNCHANGED <<bufferVars, taskVars, handlerVars, fdOf, pending, ringVars>>
        /\ (freed' = freed \/ Destroy(c))
    BY <1>3 DEF ResumeClose, Drain
  <2> QED
    BY <2>1, StillRing DEF ringVars
<1>4. CASE EndClose(c)
  <2>1. UNCHANGED <<bufferVars, taskVars, handlerVars, fdOf, pending, ringVars>> /\ Destroy(c)
    BY <1>4 DEF EndClose
  <2> QED
    BY <2>1, StillRing DEF ringVars
<1>5. CASE ConnectErrorHandler(c)
  <2>1. UNCHANGED <<bufferVars, taskVars, handlerVars, fdOf, pending, ringVars>> /\ Destroy(c)
    BY <1>5 DEF ConnectErrorHandler
  <2> QED
    BY <2>1, StillRing DEF ringVars
<1> QED
  BY <1>1, <1>2, <1>3, <1>4, <1>5 DEF ClosePart

LEMMA FreedGrows ==
  ASSUME freed \in [Client -> Nat], NEW c, freed' = freed \/ Destroy(c)
  PROVE  freed' \in [Client -> Nat] /\ \A x \in Client : freed[x] <= freed'[x]
BY DEF Destroy

\* A completion, whoever is notified of it.
LEMMA HandleBase ==
  ASSUME BaseInv, HandleCqe
  PROVE  BaseInv' /\ [B!Next]_bufferVars /\ \A x \in Client : freed[x] <= freed'[x]
<1>1. /\ RingInv' /\ Ended \in Outstanding /\ Outstanding' = Outstanding \ {Ended}
  BY HandleRing DEF BaseInv
<1>2. PICK c, op, res, known :
        /\ c = Notified /\ op = Ended /\ res = Head(cq).res /\ known = Known
        /\ \/ /\ c = None /\ events' = known
              /\ UNCHANGED <<bufferVars, taskVars, handlerVars, closeVars, registry, descriptor,
                             freed, connector, pending, cancelled>>
           \/ c # None /\ op.event = "connect" /\ NotifyConnect(c, res) /\ events' = known
           \/ c # None /\ op.event # "connect" /\ NotifyData(c, op, res, known)
  BY HandleCases
<1>3. UNCHANGED <<req, fdOf>>
  BY HandleCases
<1>4. op \in Outstanding /\ Outstanding' = Outstanding \ {op}
  BY <1>1, <1>2
<1>5. CASE UNCHANGED <<bufferVars, payloads, freed>>
  <2>1. BaseInv'
    BY <1>1, <1>3, <1>4, <1>5, KeepBase DEF BaseInv
  <2> QED
    BY <1>5, <2>1 DEF BaseInv
<1>6. CASE c # None /\ op.event # "connect" /\ NotifyData(c, op, res, known)
  <2>1. /\ op.task \in Task /\ op.buf \in Buffer /\ op.task \notin payloads
        /\ \A o \in Outstanding : o.event # "connect" => o = Transfer(o.task, o.buf)
    BY <1>4, <1>6, PoolFacts DEF BaseInv, Operations, Connect, Submitted
  <2>2. freed' \in [Client -> Nat] /\ \A x \in Client : freed[x] <= freed'[x]
    BY <1>6, DataCases, FreedGrows DEF BaseInv
  <2>3. CASE B!Release(op.task, op.buf) /\ UNCHANGED payloads
    <3>1. \A o \in Outstanding' : o.task = op.task => o.buf # op.buf
      <4>1. ASSUME NEW o \in Outstanding, o.task = op.task, o.buf = op.buf PROVE o = op
        <5>1. o.event # "connect"
          BY <2>1, <4>1, ClientAssumption DEF BaseInv, Operations, Connect, Transfer, Submitted, RequestType
        <5> QED
          BY <1>4, <1>6, <2>1, <4>1, <5>1
      <4> QED
        BY <1>4, <4>1
    <3>2. payloads' = payloads \ {op.task}
      BY <2>1, <2>3
    <3>3. BaseInv'
      BY <1>1, <1>3, <1>4, <2>1, <2>2, <2>3, <3>1, <3>2, ReleaseBase
    <3>4. B!Next
      BY <2>1, <2>3, ReleasePool DEF BaseInv
    <3> QED
      BY <2>2, <3>3, <3>4
  <2>4. CASE /\ active[c] /\ op.event \notin Outbound /\ UNCHANGED bufferVars
             /\ payloads' = payloads \cup {op.task}
    <3>1. freed' = freed
      BY <1>6, <2>1, <2>4 DEF NotifyData, NotifyActive
    <3>2. BaseInv'
      BY <1>1, <1>3, <1>4, <1>6, <2>4, <3>1, PayloadBase
    <3> QED
      BY <2>2, <2>4, <3>2
  <2> QED
    BY <1>6, <2>3, <2>4, DataCases
<1> QED
  BY <1>2, <1>5, <1>6 DEF NotifyConnect, taskVars

\* Every step keeps the invariant, is a step of the pool or none, and gives
\* no structure back.
LEMMA NextBase ==
  ASSUME BaseInv, [Next]_vars
  PROVE  BaseInv' /\ [B!Next]_bufferVars /\ \A x \in Client : freed[x] <= freed'[x]
<1>1. RingInv /\ freed \in [Client -> Nat] /\ fdOf \in [Client -> Fd \cup {None}]
  BY DEF BaseInv
<1>2. ASSUME NEW c \in Client, OpenDatagram(c)
      PROVE  BaseInv' /\ UNCHANGED <<bufferVars, freed>>
  <2>1. PICK f \in Fd : fdOf[c] = None /\ fdOf' = [fdOf EXCEPT ![c] = f]
    BY <1>2 DEF OpenDatagram, Open
  <2>2. UNCHANGED <<bufferVars, req, payloads, freed, events, cancelled, inflight, cq, batch>>
    BY <1>2 DEF OpenDatagram, Open, taskVars
  <2>3. RingInv' /\ Outstanding' = Outstanding
    BY <1>1, <2>2, StillRing
  <2> QED
    BY <2>1, <2>2, <2>3, OpenBase
<1>3. ASSUME NEW c \in Client, OpenStream(c)
      PROVE  BaseInv' /\ UNCHANGED <<bufferVars, freed>>
  <2>1. PICK f \in Fd : fdOf[c] = None /\ fdOf' = [fdOf EXCEPT ![c] = f]
    BY <1>3 DEF OpenStream, Open
  <2>2. UNCHANGED <<bufferVars, req, payloads, freed, cancelled, cq, batch>>
    BY <1>3 DEF OpenStream, Open, taskVars
  <2>3. PICK connect : connect = [client |-> c, fd |-> fdOf'[c], buf |-> 0, event |-> "connect", task |-> None]
    OBVIOUS
  <2>4. Submit({connect}, events) /\ connect = Connect(c)' /\ connect.client = c
    BY <1>3, <2>3 DEF OpenStream, Connect, Submit
  <2>5. {connect} \cap Outstanding = {}
    BY <2>1, <2>4 DEF BaseInv, Operations
  <2>6. RingInv' /\ Outstanding' = Outstanding \cup {connect}
    BY <1>1, <2>2, <2>4, <2>5, FS_Singleton, SubmitRing
  <2> QED
    BY <2>1, <2>2, <2>4, <2>6, OpenBase
<1>4. ASSUME NEW c \in Client, NEW t \in Task, NEW kind \in Kinds(c), NEW n \in 1..MaxWant,
             Request(t, c, kind, n)
      PROVE  BaseInv' /\ [B!Next]_bufferVars /\ freed' = freed
  BY <1>4, RequestBase DEF Request, socketVars
<1>5. ASSUME NEW t \in Task, Resume(t) PROVE BaseInv' /\ [B!Next]_bufferVars /\ freed' = freed
  BY <1>5, ResumeBase DEF Resume, socketVars
<1>6. ASSUME NEW t \in Task, ReleasePayload(t)
      PROVE  BaseInv' /\ [B!Next]_bufferVars /\ freed' = freed
  <2>1. PICK b \in got[t] : B!Release(t, b)
    BY <1>6 DEF ReleasePayload
  <2>2. b \in Buffer
    BY PoolFacts DEF BaseInv
  <2>3. /\ t \in payloads /\ payloads' = payloads \ {t}
        /\ UNCHANGED <<req, fdOf, freed, events, cancelled, inflight, cq, batch>>
    BY <1>6 DEF ReleasePayload, socketVars, ringVars
  <2>4. RingInv' /\ Outstanding' = Outstanding
    BY <1>1, <2>3, StillRing
  <2>5. \A op \in Outstanding : op.task # t
    BY <2>3, ClientAssumption DEF BaseInv, Operations, Connect, Submitted
  <2>6. BaseInv'
    BY <1>1, <2>1, <2>2, <2>3, <2>4, <2>5, ReleaseBase
  <2> QED
    BY <2>1, <2>2, <2>3, <2>6, ReleasePool DEF BaseInv
<1>7. ASSUME NEW c \in Client, (\E graceful \in BOOLEAN : Close(c, graceful)) \/ ClosePart(c)
      PROVE  BaseInv' /\ bufferVars' = bufferVars /\ \A x \in Client : freed[x] <= freed'[x]
  <2>1. /\ RingInv' /\ Outstanding' = Outstanding
        /\ UNCHANGED <<bufferVars, req, payloads, fdOf>>
        /\ freed' = freed \/ Destroy(c)
    BY <1>1, <1>7, CloseRing DEF taskVars
  <2>2. freed' \in [Client -> Nat] /\ \A x \in Client : freed[x] <= freed'[x]
    BY <1>1, <2>1, FreedGrows
  <2> QED
    BY <2>1, <2>2, KeepBase
<1>8. ASSUME NEW op \in inflight, Complete(op) PROVE BaseInv' /\ UNCHANGED <<bufferVars, freed>>
  <2>1. RingInv' /\ Outstanding' = Outstanding
    BY <1>1, <1>8, CompleteRing DEF Complete
  <2> QED
    BY <1>1, <1>8, <2>1, KeepBase DEF Complete, taskVars, socketVars
<1>9. ASSUME CheckEventTimeouts PROVE BaseInv' /\ UNCHANGED <<bufferVars, freed>>
  <2>1. \E E : CancelEvents(E, events) /\ UNCHANGED <<inflight, cq, batch>>
    BY <1>9 DEF CheckEventTimeouts, CheckTimeouts
  <2>2. RingInv' /\ Outstanding' = Outstanding
    BY <1>1, <2>1, CancelRing
  <2> QED
    BY <1>1, <1>9, <2>2, KeepBase DEF CheckEventTimeouts, taskVars, socketVars
<1>10. ASSUME Peek PROVE BaseInv' /\ UNCHANGED <<bufferVars, freed>>
  <2>1. RingInv' /\ Outstanding' = Outstanding
    BY <1>1, <1>10, PeekRing DEF Peek
  <2> QED
    BY <1>1, <1>10, <2>1, KeepBase DEF Peek, taskVars, socketVars
<1>11. ASSUME UNCHANGED vars PROVE BaseInv' /\ UNCHANGED <<bufferVars, freed>>
  <2>1. UNCHANGED <<bufferVars, req, payloads, fdOf, freed, events, cancelled, inflight, cq, batch>>
    BY <1>11 DEF vars, taskVars, socketVars, ringVars
  <2>2. RingInv' /\ Outstanding' = Outstanding
    BY <1>1, <2>1, StillRing
  <2> QED
    BY <1>1, <2>1, <2>2, KeepBase
<1> QED
  BY <1>1, <1>2, <1>3, <1>4, <1>5, <1>6, <1>7, <1>8, <1>9, <1>10, <1>11, HandleBase
     DEF Next, ClosePart

\* Whatever clients, kernel and timers do, and even if a client is destroyed twice,
\* a buffer is free once or held by one request, and no request waits in
\* TransportBuffers.allocate beside a free buffer.
THEOREM BuffersOwned == Spec => [](B!BufferOwnership /\ B!NoLostWakeup)
<1>1. BaseInv => B!BufferOwnership /\ B!NoLostWakeup
  <2> SUFFICES ASSUME BaseInv PROVE B!BufferOwnership /\ B!NoLostWakeup
    OBVIOUS
  <2>1. BP!BufferOwnership /\ BP!NoLostWakeup
    BY DEF BaseInv, BP!PInv, BP!RInv, BP!IInv
  <2> QED
    BY <2>1
    DEF BP!BufferOwnership, B!BufferOwnership, BP!Injective, B!Injective, BP!InSeq, B!InSeq,
        BP!Buffer, B!Buffer, BP!NoLostWakeup, B!NoLostWakeup
<1>2. Init => BaseInv
  BY InitBase
<1>3. BaseInv /\ [Next]_vars => BaseInv'
  BY NextBase
<1> QED
  BY <1>1, <1>2, <1>3, PTL DEF Spec

\* The kernel reads and writes only the buffers of the request that it works
\* for, one operation at a time, for every number of clients and requests.
LEMMA BaseOwned == BaseInv => KernelBuffersOwned
<1> SUFFICES ASSUME BaseInv PROVE KernelBuffersOwned
  OBVIOUS
<1>1. \A op \in Outstanding : op.event # "connect" =>
         op.task \in Task /\ op = Transfer(op.task, op.buf) /\ op.buf \in got[op.task]
  BY DEF BaseInv, Operations, Connect
<1>2. ASSUME NEW op1 \in Outstanding, NEW op2 \in Outstanding, op1.event # "connect",
             op2.event # "connect", op1.buf = op2.buf
      PROVE  op1 = op2
  <2>1. op1.task = op2.task
    BY <1>1, <1>2, PoolFacts DEF BaseInv
  <2> QED
    BY <1>1, <1>2, <2>1
<1> QED
  BY <1>1, <1>2 DEF KernelBuffersOwned

THEOREM KernelBuffersAreOwned == Spec => []KernelBuffersOwned
<1>1. Init => BaseInv
  BY InitBase
<1>2. BaseInv /\ [Next]_vars => BaseInv'
  BY NextBase
<1> QED
  BY <1>1, <1>2, BaseOwned, PTL DEF Spec


-----------------------------------------------------------------------------
(* What holds as long as no client is destroyed twice.                       *)

\* Completions reach the client of their operation.
LEMMA Reached ==
  ASSUME BaseInv, Sockets, Engaged, NEW op \in Outstanding
  PROVE  /\ op.client \in Client /\ Live(op.client) /\ op.fd = fdOf[op.client]
         /\ registry[op.fd] = op.client
         /\ op.event # "connect" =>
              /\ op.task \in Task /\ op.buf \in got[op.task] /\ op = Transfer(op.task, op.buf)
              /\ req[op.task] \in RequestType /\ op.client = req[op.task].client /\ op.event = req[op.task].kind
              /\ ~B!Waiting(op.task) /\ Usable(op.client)
         /\ op.event = "connect" => op = Connect(op.client) /\ connector[op.client] = "waiting" /\ op.client \in Stream
<1>1. op.client \in Client /\ Live(op.client)
  BY DEF BaseInv, Operations, Engaged
<1>2. CASE op = Connect(op.client)
  <2>1. op.fd = fdOf[op.client] /\ op.event = "connect"
    BY <1>2 DEF Connect
  <2> QED
    BY <1>1, <1>2, <2>1 DEF Sockets, Engaged
<1>3. CASE /\ op.task \in Task /\ op = Transfer(op.task, op.buf)
           /\ op.buf \in got[op.task] /\ Submitted(op.task)
  <2>1. req[op.task] \in RequestType /\ req[op.task] # None /\ ~B!Waiting(op.task)
    BY <1>3 DEF BaseInv, Submitted
  <2>2. op.client = req[op.task].client /\ op.fd = fdOf[op.client] /\ op.event = req[op.task].kind
    BY <1>3 DEF Transfer
  <2>3. op.event # "connect"
    BY <2>1, <2>2 DEF RequestType
  <2>4. Usable(op.client)
    BY <1>3, <2>1, <2>2 DEF Engaged
  <2> QED
    BY <1>1, <1>3, <2>1, <2>2, <2>3, <2>4 DEF Sockets
<1> QED
  BY <1>2, <1>3 DEF BaseInv, Operations

LEMMA SocketsDiffer ==
  ASSUME Sockets, NEW c \in Client, NEW d \in Client, Live(c), Live(d), fdOf[c] = fdOf[d]
  PROVE  c = d
BY DEF Sockets

LEMMA DataTellsApart ==
  ASSUME BaseInv, Sockets, Engaged
  PROVE  DataUnique
<1> SUFFICES ASSUME NEW op1 \in Outstanding, NEW op2 \in Outstanding, Data(op1) = Data(op2)
             PROVE  op1 = op2
  BY DEF DataUnique
<1>1. op1.fd = op2.fd /\ op1.buf = op2.buf /\ op1.event = op2.event
  BY DEF Data
<1>2. op1.client = op2.client
  BY <1>1, Reached, SocketsDiffer
<1>3. CASE op1.event = "connect"
  BY <1>1, <1>2, <1>3, Reached
<1>4. CASE op1.event # "connect"
  <2>1. op1.task \in Task /\ op2.task \in Task /\ op1.buf \in got[op1.task] /\ op1.buf \in got[op2.task]
    BY <1>1, <1>4, Reached
  <2>2. op1.task = op2.task
    BY <2>1, PoolFacts DEF BaseInv
  <2> QED
    BY <1>1, <1>4, <2>2, Reached
<1> QED
  BY <1>3, <1>4

LEMMA OfFinite ==
  ASSUME RingInv, NEW c
  PROVE  IsFiniteSet(OutstandingOf(c)) /\ Cardinality(OutstandingOf(c)) \in Nat
<1>1. IsFiniteSet(Outstanding)
  BY OutstandingFinite
<1>2. OutstandingOf(c) \subseteq Outstanding
  BY DEF OutstandingOf
<1> QED
  BY <1>1, <1>2, FS_Subset, FS_CardinalityType

\* A client with no pending operation has none, and the other way round.
LEMMA NonePending ==
  ASSUME RingInv, PendingCounts, NEW c \in Client
  PROVE  /\ pending[c] = 0 <=> \A op \in Outstanding : op.client # c
         /\ pending[c] \in Nat
<1>1. IsFiniteSet(OutstandingOf(c)) /\ Cardinality(OutstandingOf(c)) \in Nat
  BY OfFinite
<1>2. pending[c] = 0 <=> OutstandingOf(c) = {}
  BY <1>1, FS_EmptySet DEF PendingCounts
<1> QED
  BY <1>1, <1>2 DEF PendingCounts, OutstandingOf

\* The end of an operation.
LEMMA EndCount ==
  ASSUME RingInv, PendingCounts, NEW op \in Outstanding, op.client \in Client,
         pending \in [Client -> Nat], pending' = [pending EXCEPT ![op.client] = @ - 1],
         Outstanding' = Outstanding \ {op}
  PROVE  /\ PendingCounts' /\ pending[op.client] \in Nat \ {0}
         /\ pending' \in [Client -> Nat]
<1> DEFINE c == op.client
<1>1. /\ OutstandingOf(c)' = OutstandingOf(c) \ {op} /\ op \in OutstandingOf(c)
      /\ \A x \in Client : x # c => OutstandingOf(x)' = OutstandingOf(x)
  BY DEF OutstandingOf
<1> HIDE DEF c
<1>2. /\ Cardinality(OutstandingOf(c) \ {op}) = Cardinality(OutstandingOf(c)) - 1
      /\ Cardinality(OutstandingOf(c)) \in Nat
  BY <1>1, OfFinite, FS_RemoveElement
<1>3. pending[c] \in Nat \ {0}
  BY <1>1, NonePending DEF OutstandingOf, c
<1>4. \A x \in Client : pending'[x] = Cardinality(OutstandingOf(x)')
  BY <1>1, <1>2 DEF PendingCounts, c
<1> QED
  BY <1>3, <1>4 DEF PendingCounts, c

\* The start of operations of one client.
LEMMA StartCount ==
  ASSUME RingInv, PendingCounts, NEW c \in Client, NEW ops, IsFiniteSet(ops),
         ops \cap Outstanding = {}, \A op \in ops : op.client = c,
         pending \in [Client -> Nat], pending' = [pending EXCEPT ![c] = @ + Cardinality(ops)],
         Outstanding' = Outstanding \cup ops
  PROVE  PendingCounts' /\ pending' \in [Client -> Nat]
<1>1. /\ OutstandingOf(c)' = OutstandingOf(c) \cup ops /\ OutstandingOf(c) \cap ops = {}
      /\ \A x \in Client : x # c => OutstandingOf(x)' = OutstandingOf(x)
  BY DEF OutstandingOf
<1>2. IsFiniteSet(OutstandingOf(c)) /\ Cardinality(OutstandingOf(c)) \in Nat /\ Cardinality(ops) \in Nat
  BY OfFinite, FS_CardinalityType
<1>3. Cardinality(OutstandingOf(c) \cup ops) = Cardinality(OutstandingOf(c)) + Cardinality(ops)
  <2>1. Cardinality(OutstandingOf(c) \cap ops) = 0
    BY <1>1, FS_EmptySet
  <2>2. Cardinality(OutstandingOf(c) \cup ops)
          = Cardinality(OutstandingOf(c)) + Cardinality(ops) - Cardinality(OutstandingOf(c) \cap ops)
    BY <1>2, FS_Union
  <2> QED
    BY <1>2, <2>1, <2>2
<1>4. \A x \in Client : pending'[x] = Cardinality(OutstandingOf(x)')
  BY <1>1, <1>2, <1>3 DEF PendingCounts
<1> QED
  BY <1>2, <1>4 DEF PendingCounts

\* The client of a connect has no other operation.
LEMMA ConnectAlone ==
  ASSUME BaseInv, Sockets, Engaged, NEW op \in Outstanding, NEW o \in Outstanding,
         op.event = "connect", o.client = op.client
  PROVE  o = op
<1>1. o.event = "connect"
  BY Reached DEF Usable
<1> QED
  BY <1>1, Reached

LEMMA KeptCounts ==
  ASSUME PendingCounts, pending' = pending, Outstanding' = Outstanding
  PROVE  PendingCounts'
BY DEF PendingCounts, OutstandingOf

-----------------------------------------------------------------------------
(* close() and the notifications, which change one client.                   *)

CloseTypes ==
  /\ connector \in [Client -> {"none", "waiting", "connected", "failed", "handled"}]
  /\ active \in [Client -> BOOLEAN] /\ closing \in [Client -> BOOLEAN]
  /\ closer \in [Client -> BOOLEAN]
  /\ closePc \in [Client -> {"none", "graceful", "forced", "drain", "closed"}]

OthersKeep(c) ==
  \A x \in Client \ {c} :
    /\ connector'[x] = connector[x] /\ pending'[x] = pending[x]
    /\ active'[x] = active[x] /\ closing'[x] = closing[x]
    /\ closer'[x] = closer[x] /\ closePc'[x] = closePc[x]

LEMMA StepClosing ==
  ASSUME Closing, NEW c \in Client, OthersKeep(c), ClosingAt(c)'
  PROVE  Closing'
BY DEF Closing, ClosingAt, OthersKeep

\* The structure that is freed is the one of a live client, whose descriptor
\* is its own.
LEMMA StepSockets ==
  ASSUME BaseInv, Types, Sockets, NEW c \in Client, fdOf[c] # None, fdOf' = fdOf, freed'[c] <= 1,
         UNCHANGED <<registry, descriptor, freed>> \/ Destroy(c),
         Destroy(c) => closing'[c] \/ connector'[c] = "handled",
         closing[c] => closing'[c], connector[c] = "handled" => connector'[c] = "handled",
         c \notin Stream => connector'[c] = "none",
         \A x \in Client \ {c} : closing'[x] = closing[x] /\ connector'[x] = connector[x]
  PROVE  /\ Sockets'
         /\ registry' \in [Fd -> Client \cup {None}] /\ descriptor' \in [Fd -> Client \cup {None}]
<1>1. CASE UNCHANGED <<registry, descriptor, freed>>
  BY <1>1 DEF Sockets, Live, Types
<1>2. CASE Destroy(c)
  <2>1. /\ descriptor' = [descriptor EXCEPT ![fdOf[c]] = None]
        /\ registry' = [registry EXCEPT ![fdOf[c]] = None]
        /\ freed' = [freed EXCEPT ![c] = @ + 1]
        /\ closing'[c] \/ connector'[c] = "handled"
    BY <1>2 DEF Destroy
  <2>2. freed \in [Client -> Nat] /\ fdOf[c] \in Fd
    BY DEF BaseInv
  <2>3. freed[c] = 0 /\ freed'[c] = 1 /\ \A x \in Client \ {c} : freed'[x] = freed[x]
    BY <2>1, <2>2
  <2>4. Live(c) /\ ~Live(c)'
    BY <2>3 DEF Live
  <2>5. ASSUME NEW x \in Client \ {c}, Live(x)'
        PROVE  descriptor'[fdOf'[x]] = x /\ registry'[fdOf'[x]] = x
    <3>1. Live(x) /\ fdOf[x] \in Fd
      BY <2>3, <2>5 DEF Live, BaseInv
    <3>2. fdOf[x] # fdOf[c]
      BY <2>4, <3>1, SocketsDiffer
    <3> QED
      BY <2>1, <2>2, <3>1, <3>2 DEF Sockets, Types
  <2>6. Sockets'
    BY <2>1, <2>3, <2>4, <2>5 DEF Sockets
  <2> QED
    BY <2>1, <2>2, <2>6 DEF Types
<1> QED
  BY <1>1, <1>2

LEMMA StepEngaged ==
  ASSUME BaseInv, Engaged, req' = req, fdOf' = fdOf, Outstanding' \subseteq Outstanding, NEW c \in Client,
         freed' = freed \/ Destroy(c),
         Destroy(c) => \A op \in Outstanding' : op.client # c,
         \A x \in Client : connector[x] = "connected" => connector'[x] = "connected",
         \A op \in Outstanding' : op.event = "connect" => connector'[op.client] = connector[op.client]
  PROVE  Engaged'
<1>1. ASSUME NEW t \in Task, req'[t] # None PROVE Usable(req[t].client)'
  <2>1. Usable(req[t].client) /\ req[t].client \in Client
    BY <1>1 DEF Engaged, BaseInv, RequestType
  <2> QED
    BY <2>1 DEF Usable
<1>2. ASSUME NEW op \in Outstanding' PROVE Live(op.client)'
  <2>1. Live(op.client) /\ op.client \in Client
    BY DEF Engaged, BaseInv, Operations
  <2>2. freed'[op.client] = freed[op.client]
    <3>1. CASE Destroy(c)
      <4>1. freed' = [freed EXCEPT ![c] = @ + 1] /\ op.client # c
        BY <3>1 DEF Destroy
      <4> QED
        BY <2>1, <4>1 DEF BaseInv
    <3> QED
      BY <3>1
  <2> QED
    BY <2>1, <2>2 DEF Live
<1>3. \A op \in Outstanding' : op.event = "connect" => op.client \in Stream /\ connector'[op.client] = "waiting"
  BY DEF Engaged
<1> QED
  BY <1>1, <1>2, <1>3 DEF Engaged

\* close() of a client with p operations pending.
LEMMA BeginCloseAt ==
  ASSUME CloseTypes, NEW c \in Client, NEW graceful \in BOOLEAN, NEW p \in Nat, NEW known,
         BeginClose(c, graceful, p, known), ClosingAt(c), pending'[c] = p, UNCHANGED <<connector, closer>>
  PROVE  /\ CloseTypes' /\ ClosingAt(c)' /\ closing'[c]
         /\ \A x \in Client \ {c} :
              active'[x] = active[x] /\ closing'[x] = closing[x] /\ closePc'[x] = closePc[x]
         /\ UNCHANGED <<registry, descriptor, freed>> \/ (Destroy(c) /\ p = 0)
<1>1. /\ ~closing[c]
      /\ closing' = [closing EXCEPT ![c] = TRUE]
      /\ active' = [active EXCEPT ![c] = p > 0 /\ graceful]
      /\ \/ p > 0 /\ graceful /\ closePc' = [closePc EXCEPT ![c] = "graceful"]
            /\ UNCHANGED <<registry, descriptor, freed>>
         \/ p > 0 /\ ~graceful /\ closePc' = [closePc EXCEPT ![c] = "forced"]
            /\ UNCHANGED <<registry, descriptor, freed>>
         \/ p = 0 /\ closePc' = [closePc EXCEPT ![c] = "drain"] /\ UNCHANGED <<registry, descriptor, freed>>
         \/ p = 0 /\ closePc' = [closePc EXCEPT ![c] = "closed"] /\ Destroy(c)
  BY DEF BeginClose, Drain
<1>2. CloseTypes'
  BY <1>1 DEF CloseTypes
<1>3. closing'[c] /\ active'[c] = (p > 0 /\ graceful)
  BY <1>1 DEF CloseTypes
<1>4. ~closer'[c]
  BY <1>1 DEF ClosingAt
<1>5. ClosingAt(c)'
  <2>1. \/ p > 0 /\ graceful /\ closePc'[c] = "graceful"
        \/ p > 0 /\ ~graceful /\ closePc'[c] = "forced"
        \/ p = 0 /\ closePc'[c] \in {"drain", "closed"}
    BY <1>1 DEF CloseTypes
  <2> QED
    BY <1>3, <1>4, <2>1 DEF ClosingAt
<1> QED
  BY <1>1, <1>2, <1>3, <1>5 DEF CloseTypes

\* What the steps of close() have in common.
LEMMA StepClient ==
  ASSUME BaseInv, ClientInv, NEW c \in Client, fdOf[c] # None, fdOf' = fdOf, req' = req, freed'[c] <= 1,
         CloseTypes', OthersKeep(c), ClosingAt(c)', closing[c] => closing'[c],
         UNCHANGED <<registry, descriptor, freed>>
           \/ (Destroy(c) /\ pending'[c] = 0 /\ (closing'[c] \/ connector'[c] = "handled")),
         pending' \in [Client -> Nat], RingInv', PendingCounts', Tracked',
         Outstanding' \subseteq Outstanding,
         connector[c] = "handled" => connector'[c] = "handled",
         connector[c] = "connected" => connector'[c] = "connected",
         c \notin Stream => connector'[c] = "none",
         \A op \in Outstanding' : op.event = "connect" /\ op.client = c => connector'[c] = connector[c]
  PROVE  ClientInv'
<1>1. Closing'
  BY StepClosing DEF ClientInv
<1>2. /\ \A x \in Client \ {c} : closing'[x] = closing[x] /\ connector'[x] = connector[x]
  BY DEF OthersKeep
<1>3. Sockets' /\ registry' \in [Fd -> Client \cup {None}] /\ descriptor' \in [Fd -> Client \cup {None}]
  <2>1. CASE UNCHANGED <<registry, descriptor, freed>> /\ ~Destroy(c)
    BY <1>2, <2>1, StepSockets DEF ClientInv
  <2>2. CASE Destroy(c) /\ (closing'[c] \/ connector'[c] = "handled")
    BY <1>2, <2>2, StepSockets DEF ClientInv
  <2>3. ~(UNCHANGED <<registry, descriptor, freed>> /\ Destroy(c))
    BY DEF Destroy, BaseInv
  <2> QED
    BY <2>1, <2>2, <2>3
<1>4. Engaged'
  <2>1. Destroy(c) => \A op \in Outstanding' : op.client # c
    <3>1. ASSUME Destroy(c) PROVE pending'[c] = 0
      <4>1. ~UNCHANGED freed
        BY <3>1 DEF Destroy, BaseInv
      <4> QED
        BY <4>1
    <3>2. pending'[c] = 0 => \A op \in Outstanding' : op.client # c
      <4>1. pending'[c] = 0 => OutstandingOf(c)' = {}
        <5>1. IsFiniteSet(Outstanding')
          <6>1. IsFiniteSet(Outstanding)
            BY OutstandingFinite DEF BaseInv
          <6> QED
            BY <6>1, FS_Subset
        <5>2. OutstandingOf(c)' \subseteq Outstanding'
          BY DEF OutstandingOf
        <5>3. IsFiniteSet(OutstandingOf(c)')
          BY <5>1, <5>2, FS_Subset
        <5>4. pending'[c] = Cardinality(OutstandingOf(c)')
          BY DEF PendingCounts
        <5> QED
          BY <5>3, <5>4, FS_EmptySet
      <4> QED
        BY <4>1 DEF OutstandingOf
    <3> QED
      BY <3>1, <3>2
  <2>2. \A x \in Client : connector[x] = "connected" => connector'[x] = "connected"
    BY <1>2
  <2>3. \A op \in Outstanding' : op.client \in Client
    BY DEF BaseInv, Operations
  <2>4. \A op \in Outstanding' : op.event = "connect" => connector'[op.client] = connector[op.client]
    BY <1>2, <2>3
  <2> QED
    BY <2>1, <2>2, <2>4, StepEngaged DEF ClientInv
<1>5. Types'
  BY <1>3 DEF Types, CloseTypes
<1> QED
  BY <1>1, <1>3, <1>4, <1>5 DEF ClientInv

LEMMA ClientTypes == ClientInv => CloseTypes
BY DEF ClientInv, Types, CloseTypes

LEMMA CloseClient ==
  ASSUME BaseInv, ClientInv, DestroyedOnce', NEW c \in Client,
         (\E graceful \in BOOLEAN : Close(c, graceful)) \/ ClosePart(c)
  PROVE  ClientInv'
<1>1. /\ RingInv' /\ Outstanding' = Outstanding /\ Tracked' /\ UNCHANGED <<fdOf, pending, req>>
  BY CloseRing DEF BaseInv, ClientInv, taskVars
<1>2. PendingCounts' /\ pending' \in [Client -> Nat] /\ pending[c] \in Nat
  BY <1>1, KeptCounts DEF ClientInv, Types
<1>3. freed'[c] <= 1
  BY DEF DestroyedOnce
<1>4. CloseTypes /\ ClosingAt(c)
  BY ClientTypes DEF ClientInv, Closing
<1>5. c \notin Stream => connector[c] = "none"
  BY DEF ClientInv, Sockets
<1>6. CASE \E graceful \in BOOLEAN : Close(c, graceful)
  <2>1. PICK graceful \in BOOLEAN : Close(c, graceful)
    BY <1>6
  <2>2. Live(c) /\ BeginClose(c, graceful, pending[c], events) /\ UNCHANGED <<closer, connector>>
    BY <2>1 DEF Close
  <2>3. /\ CloseTypes' /\ ClosingAt(c)' /\ closing'[c]
        /\ \A x \in Client \ {c} :
             active'[x] = active[x] /\ closing'[x] = closing[x] /\ closePc'[x] = closePc[x]
        /\ UNCHANGED <<registry, descriptor, freed>> \/ (Destroy(c) /\ pending[c] = 0)
    <3>1. PICK p \in Nat : p = pending[c]
      BY <1>2
    <3>2. BeginClose(c, graceful, p, events)
      BY <2>2, <3>1
    <3>3. PICK known : known = events
      OBVIOUS
    <3>4. BeginClose(c, graceful, p, known)
      BY <3>2, <3>3 DEF BeginClose, CancelByFd, CancelEvents
    <3> QED
      BY <1>1, <1>4, <2>2, <3>1, <3>4, BeginCloseAt
  <2>4. OthersKeep(c)
    BY <1>1, <2>2, <2>3 DEF OthersKeep
  <2>5. fdOf[c] # None
    BY <2>2 DEF Live
  <2> QED
    BY <1>1, <1>2, <1>3, <1>5, <2>2, <2>3, <2>4, <2>5, StepClient
<1>7. CASE ClosePart(c)
  <2>1. /\ CloseTypes' /\ OthersKeep(c) /\ ClosingAt(c)' /\ closing' = closing
        /\ UNCHANGED <<registry, descriptor, freed>>
             \/ (Destroy(c) /\ pending[c] = 0 /\ (closing[c] \/ connector'[c] = "handled"))
        /\ connector' = connector \/ (c \in Stream /\ connector[c] = "failed")
        /\ closing[c] \/ connector[c] = "failed"
    <3>1. CASE GracefulTimeout(c)
      BY <1>1, <1>4, <3>1 DEF GracefulTimeout, CloseTypes, OthersKeep, ClosingAt, socketVars
    <3>2. CASE ResumeClose(c)
      BY <1>1, <1>4, <3>2 DEF ResumeClose, Drain, CloseTypes, OthersKeep, ClosingAt
    <3>3. CASE EndClose(c)
      BY <1>1, <1>4, <3>3 DEF EndClose, CloseTypes, OthersKeep, ClosingAt
    <3>4. CASE ConnectErrorHandler(c)
      <4>1. /\ c \in Unix /\ connector[c] = "failed" /\ connector' = [connector EXCEPT ![c] = "handled"]
            /\ Destroy(c) /\ UNCHANGED <<active, closing, closer, closePc>>
        BY <3>4 DEF ConnectErrorHandler, closeVars
      <4>2. c \in Stream
        BY <4>1 DEF Stream
      <4>3. pending[c] = 0
        <5>1. \A op \in Outstanding : op.client # c
          BY <4>1, <4>2, Reached DEF ClientInv, Usable
        <5> QED
          BY <5>1, NonePending DEF BaseInv, ClientInv
      <4> QED
        BY <1>1, <1>4, <4>1, <4>2, <4>3 DEF CloseTypes, OthersKeep, ClosingAt
    <3> QED
      BY <1>7, <3>1, <3>2, <3>3, <3>4 DEF ClosePart
  <2>2. fdOf[c] # None
    BY <2>1 DEF ClientInv, Sockets
  <2>3. \A op \in Outstanding' : op.event = "connect" /\ op.client = c => connector'[c] = connector[c]
    <3>1. ASSUME NEW op \in Outstanding, op.event = "connect", op.client = c PROVE connector[c] = "waiting"
      BY <3>1 DEF ClientInv, Engaged
    <3> QED
      BY <1>1, <2>1, <3>1
  <2> QED
    BY <1>1, <1>2, <1>3, <1>5, <2>1, <2>2, <2>3, StepClient
<1> QED
  BY <1>6, <1>7

\* The prologue of a notification of the client that has n operations left.
LEMMA SettleAt ==
  ASSUME CloseTypes, NEW c \in Client, NEW n \in Nat, pending[c] = n + 1, pending'[c] = n,
         ClosingAt(c), UNCHANGED <<closing, closePc>>,
         \/ Settle(c)
         \/ ~active[c] /\ CompleteCloser(c) /\ UNCHANGED active
         \/ ~active[c] /\ connector[c] = "waiting" /\ n = 0 /\ UNCHANGED <<closer, active>>
  PROVE  /\ active' \in [Client -> BOOLEAN] /\ closer' \in [Client -> BOOLEAN]
         /\ ClosingAt(c)'
         /\ \A x \in Client \ {c} : active'[x] = active[x] /\ closer'[x] = closer[x]
<1>1. ~closer[c] /\ closePc[c] \notin {"drain", "closed"} /\ active[c] \in BOOLEAN
  BY DEF ClosingAt, CloseTypes
<1> DEFINE last == LastCompletion(c)
<1>2. last <=> n = 0 /\ closing[c]
  BY DEF LastCompletion
<1>3. ASSUME CompleteCloser(c)
      PROVE  /\ closer' \in [Client -> BOOLEAN] /\ (closer'[c] <=> last)
             /\ \A x \in Client \ {c} : closer'[x] = closer[x]
  <2>1. closer' = [closer EXCEPT ![c] = closer[c] \/ last] /\ (closer[c] \/ last) \in BOOLEAN
    BY <1>3 DEF CompleteCloser
  <2> HIDE DEF last
  <2>2. closer'[c] = (closer[c] \/ last)
    BY <2>1 DEF CloseTypes
  <2> QED
    BY <1>1, <2>1, <2>2 DEF CloseTypes
<1>4. CASE Settle(c)
  <2>1. active' = [active EXCEPT ![c] = active[c] /\ ~last] /\ (active[c] /\ ~last) \in BOOLEAN
    BY <1>4 DEF Settle
  <2> HIDE DEF last
  <2>2. active'[c] = (active[c] /\ ~last)
    BY <2>1 DEF CloseTypes
  <2>3. active' \in [Client -> BOOLEAN] /\ \A x \in Client \ {c} : active'[x] = active[x]
    BY <2>1 DEF CloseTypes
  <2>4. closer' \in [Client -> BOOLEAN] /\ (closer'[c] <=> last) /\ \A x \in Client \ {c} : closer'[x] = closer[x]
    BY <1>3, <1>4 DEF Settle
  <2>5. ClosingAt(c)'
    <3>1. CASE last
      <4>1. ~active'[c] /\ closer'[c] /\ closing[c] /\ n = 0
        BY <1>2, <2>2, <2>4, <3>1
      <4> QED
        BY <1>1, <4>1 DEF ClosingAt
    <3>2. CASE ~last
      <4>1. (active'[c] <=> active[c]) /\ ~closer'[c] /\ (closing[c] => n # 0)
        BY <1>1, <1>2, <2>2, <2>4, <3>2
      <4> QED
        BY <1>1, <4>1 DEF ClosingAt
    <3> QED
      BY <3>1, <3>2
  <2> QED
    BY <2>3, <2>4, <2>5
<1>5. CASE ~active[c] /\ CompleteCloser(c) /\ UNCHANGED active
  <2>1. ClosingAt(c)'
    BY <1>1, <1>2, <1>3, <1>5 DEF ClosingAt
  <2> QED
    BY <1>3, <1>5, <2>1 DEF CloseTypes
<1>6. CASE ~active[c] /\ UNCHANGED <<closer, active>>
  BY <1>1, <1>6 DEF ClosingAt, CloseTypes
<1> QED
  BY <1>4, <1>5, <1>6

\* The completion of an operation of the client c, of which it has one less.
LEMMA HandleClient ==
  ASSUME BaseInv, ClientInv, DestroyedOnce', HandleCqe
  PROVE  ClientInv'
<1>1. /\ RingInv' /\ inflight' = inflight
      /\ Ended \in Outstanding \ inflight /\ Outstanding' = Outstanding \ {Ended}
      /\ \E E : CancelEvents(E, Known)
  BY HandleRing DEF BaseInv
<1>2. UNCHANGED <<fdOf, req>>
  BY HandleCases
<1>3. PICK c, op, res, known :
        /\ c = Notified /\ op = Ended /\ res = Head(cq).res /\ known = Known
        /\ \/ /\ c = None /\ events' = known
              /\ UNCHANGED <<bufferVars, taskVars, handlerVars, closeVars, registry, descriptor,
                             freed, connector, pending, cancelled>>
           \/ c # None /\ op.event = "connect" /\ NotifyConnect(c, res) /\ events' = known
           \/ c # None /\ op.event # "connect" /\ NotifyData(c, op, res, known)
  BY HandleCases
<1>4. op \in Outstanding \ inflight /\ Outstanding' = Outstanding \ {op}
  BY <1>1, <1>3
<1>5. op.client = c /\ c \in Client /\ c # None /\ Live(c)
  <2>1. op.client \in Client /\ Live(op.client) /\ registry[op.fd] = op.client
    BY <1>4, Reached DEF ClientInv
  <2>2. c = registry[op.fd]
    BY <1>3 DEF Notified
  <2> QED
    BY <2>1, <2>2, ClientAssumption
<1>6. Tracked'
  <2>1. DataUnique
    BY DataTellsApart DEF ClientInv
  <2>2. \E E : CancelEvents(E, RemoveEvent(Data(op)))
    <3>1. known = RemoveEvent(Data(op))
      BY <1>3 DEF Known
    <3> QED
      BY <1>1, <1>3, <3>1 DEF CancelEvents
  <2> QED
    BY <1>1, <1>4, <2>1, <2>2, TakeTracked DEF ClientInv
<1>7. pending' = [pending EXCEPT ![c] = @ - 1]
  BY <1>3, <1>5 DEF NotifyConnect, NotifyData
<1>8. PendingCounts' /\ pending[c] \in Nat \ {0} /\ pending' \in [Client -> Nat]
  BY <1>4, <1>5, <1>7, EndCount DEF BaseInv, ClientInv, Types
<1>9. PICK n \in Nat : pending[c] = n + 1 /\ pending'[c] = n /\ \A x \in Client \ {c} : pending'[x] = pending[x]
  <2>1. pending[c] - 1 \in Nat /\ pending[c] = (pending[c] - 1) + 1
    BY <1>8
  <2>2. pending'[c] = pending[c] - 1 /\ \A x \in Client \ {c} : pending'[x] = pending[x]
    BY <1>5, <1>7 DEF ClientInv, Types
  <2> QED
    BY <2>1, <2>2
<1>10. CloseTypes /\ ClosingAt(c) /\ fdOf[c] # None /\ (c \notin Stream => connector[c] = "none") /\ freed'[c] <= 1
  BY <1>5, ClientTypes DEF ClientInv, Closing, Sockets, Live, DestroyedOnce
<1>11. CASE op.event = "connect" /\ NotifyConnect(c, res)
  <2>1. connector[c] = "waiting" /\ c \in Stream
    BY <1>4, <1>5, <1>11 DEF ClientInv, Engaged
  <2>2. \A o \in Outstanding' : o.client # c
    BY <1>4, <1>5, <1>11, ConnectAlone DEF ClientInv
  <2>3. n = 0
    <3>1. OutstandingOf(c)' = {}
      BY <2>2 DEF OutstandingOf
    <3>2. pending'[c] = Cardinality(OutstandingOf(c)')
      BY <1>5, <1>8 DEF PendingCounts
    <3> QED
      BY <1>9, <3>1, <3>2, FS_EmptySet
  <2>4. /\ connector' \in [Client -> {"none", "waiting", "connected", "failed", "handled"}]
        /\ \A x \in Client \ {c} : connector'[x] = connector[x]
    BY <1>5, <1>11 DEF NotifyConnect, ClientInv, Types
  <2>5. /\ UNCHANGED <<closing, closePc, registry, descriptor, freed>>
        /\ Settle(c) \/ (~active[c] /\ UNCHANGED <<closer, active>>)
    BY <1>11 DEF NotifyConnect
  <2>6. /\ active' \in [Client -> BOOLEAN] /\ closer' \in [Client -> BOOLEAN]
        /\ ClosingAt(c)'
        /\ \A x \in Client \ {c} : active'[x] = active[x] /\ closer'[x] = closer[x]
    BY <1>5, <1>9, <1>10, <2>1, <2>3, <2>5, SettleAt
  <2>7. OthersKeep(c) /\ CloseTypes'
    BY <1>9, <1>10, <2>4, <2>5, <2>6 DEF OthersKeep, CloseTypes
  <2> QED
    BY <1>1, <1>2, <1>4, <1>5, <1>6, <1>8, <1>10, <2>1, <2>2, <2>5, <2>6, <2>7, StepClient
<1>12. CASE op.event # "connect" /\ NotifyData(c, op, res, known)
  <2>1. connector' = connector
    BY <1>12 DEF NotifyData
  <2>2. CASE /\ UNCHANGED <<closing, closePc, registry, descriptor, freed>>
             /\ Settle(c) \/ (~active[c] /\ CompleteCloser(c) /\ UNCHANGED active)
    <3>1. /\ active' \in [Client -> BOOLEAN] /\ closer' \in [Client -> BOOLEAN]
          /\ ClosingAt(c)'
          /\ \A x \in Client \ {c} : active'[x] = active[x] /\ closer'[x] = closer[x]
      BY <1>5, <1>9, <1>10, <2>2, SettleAt
    <3>2. OthersKeep(c) /\ CloseTypes'
      BY <1>9, <1>10, <2>1, <2>2, <3>1 DEF OthersKeep, CloseTypes
    <3> QED
      BY <1>1, <1>2, <1>4, <1>5, <1>6, <1>8, <1>10, <2>1, <2>2, <3>1, <3>2, StepClient
  <2>3. CASE BeginClose(c, FALSE, pending[c] - 1, known) /\ UNCHANGED closer
    <3>1. BeginClose(c, FALSE, n, known)
      <4>1. pending[c] - 1 = n
        BY <1>9
      <4> QED
        BY <2>3, <4>1
    <3>2. /\ CloseTypes' /\ ClosingAt(c)' /\ closing'[c]
          /\ \A x \in Client \ {c} :
               active'[x] = active[x] /\ closing'[x] = closing[x] /\ closePc'[x] = closePc[x]
          /\ UNCHANGED <<registry, descriptor, freed>> \/ (Destroy(c) /\ n = 0)
      BY <1>5, <1>9, <1>10, <2>1, <2>3, <3>1, BeginCloseAt
    <3>3. OthersKeep(c)
      BY <1>9, <2>1, <2>3, <3>2 DEF OthersKeep
    <3> QED
      BY <1>1, <1>2, <1>4, <1>5, <1>6, <1>8, <1>9, <1>10, <2>1, <3>2, <3>3, StepClient
  <2> QED
    BY <1>12, <2>2, <2>3 DEF NotifyData, NotifyActive, NotifyInactive
<1> QED
  BY <1>3, <1>5, <1>11, <1>12

\* A client that is opened gets a descriptor that nobody has; a stream client
\* has one operation then, its connect.
LEMMA OpenClient ==
  ASSUME BaseInv, ClientInv, NEW c \in Client, OpenDatagram(c) \/ OpenStream(c)
  PROVE  ClientInv'
<1>1. PICK f \in Fd :
        /\ fdOf[c] = None /\ descriptor[f] = None
        /\ fdOf' = [fdOf EXCEPT ![c] = f]
        /\ descriptor' = [descriptor EXCEPT ![f] = c]
        /\ registry' = [registry EXCEPT ![f] = c]
  BY DEF OpenDatagram, OpenStream, Open
<1>2. UNCHANGED <<req, freed, cancelled, cq, batch, active, closing, closer, closePc>>
  BY DEF OpenDatagram, OpenStream, Open, taskVars, closeVars
<1>3. RingInv /\ fdOf \in [Client -> Fd \cup {None}] /\ freed \in [Client -> Nat] /\ f # None /\ c # None
  BY ClientAssumption DEF BaseInv
<1>4. fdOf'[c] = f /\ \A x \in Client \ {c} : fdOf'[x] = fdOf[x]
  BY <1>1, <1>3
<1>5. freed[c] = 0 /\ ~closing[c] /\ connector[c] = "none"
  BY <1>1 DEF ClientInv, Sockets
<1>6. \A op \in Outstanding : op.client \in Client \ {c}
  BY <1>1 DEF BaseInv, Operations
<1>7. pending[c] = 0
  BY <1>3, <1>6, NonePending DEF ClientInv
<1>8. \/ /\ c \notin Stream /\ Outstanding' = Outstanding /\ Tracked' /\ UNCHANGED <<pending, connector>>
      \/ /\ c \in Stream /\ Outstanding' = Outstanding \cup {Connect(c)'} /\ Tracked'
         /\ pending' = [pending EXCEPT ![c] = 1] /\ connector' = [connector EXCEPT ![c] = "waiting"]
  <2>1. CASE OpenDatagram(c)
    <3>1. UNCHANGED <<inflight, events, pending, connector>> /\ c \notin Stream
      BY <2>1 DEF OpenDatagram
    <3> QED
      BY <1>2, <1>3, <3>1, StillRing DEF ClientInv
  <2>2. CASE OpenStream(c)
    <3>1. PICK connect : connect = [client |-> c, fd |-> fdOf'[c], buf |-> 0, event |-> "connect", task |-> None]
      OBVIOUS
    <3>2. Submit({connect}, events) /\ connect = Connect(c)' /\ connect.client = c
      BY <2>2, <3>1 DEF OpenStream, Connect, Submit
    <3>3. {connect} \cap Outstanding = {}
      BY <1>6, <3>2
    <3>4. Tracked' /\ Outstanding' = Outstanding \cup {connect}
      BY <1>2, <1>3, <3>2, <3>3, FS_Singleton, SubmitRing DEF ClientInv
    <3>5. pending' = [pending EXCEPT ![c] = 1] /\ connector' = [connector EXCEPT ![c] = "waiting"] /\ c \in Stream
      BY <1>7, <2>2 DEF OpenStream, ClientInv, Types
    <3> QED
      BY <3>2, <3>4, <3>5
  <2> QED
    BY <2>1, <2>2
<1>9. Types'
  BY <1>1, <1>2, <1>8 DEF ClientInv, Types
<1>10. Sockets'
  <2>1. /\ descriptor'[f] = c /\ registry'[f] = c
        /\ \A g \in Fd \ {f} : descriptor'[g] = descriptor[g] /\ registry'[g] = registry[g]
    BY <1>1 DEF ClientInv, Types
  <2>2. connector'[c] \in {"none", "waiting"} /\ (c \notin Stream => connector'[c] = "none")
        /\ \A x \in Client \ {c} : connector'[x] = connector[x]
    BY <1>5, <1>8 DEF ClientInv, Types
  <2>3. ASSUME NEW x \in Client, Live(x)' PROVE descriptor'[fdOf'[x]] = x /\ registry'[fdOf'[x]] = x
    <3>1. CASE x = c
      BY <1>4, <2>1, <3>1
    <3>2. CASE x # c
      <4>1. Live(x) /\ fdOf'[x] = fdOf[x] /\ fdOf[x] \in Fd /\ x # None
        BY <1>2, <1>3, <1>4, <2>3, <3>2, ClientAssumption DEF Live
      <4>2. descriptor[fdOf[x]] = x /\ registry[fdOf[x]] = x
        BY <4>1 DEF ClientInv, Sockets
      <4> QED
        BY <1>1, <2>1, <4>1, <4>2
    <3> QED
      BY <3>1, <3>2
  <2>4. ASSUME NEW x \in Client
        PROVE  /\ fdOf'[x] = None => freed'[x] = 0 /\ ~closing'[x] /\ connector'[x] = "none"
               /\ freed'[x] # 0 => closing'[x] \/ connector'[x] = "handled"
               /\ x \notin Stream => connector'[x] = "none"
    <3>1. CASE x = c
      BY <1>2, <1>3, <1>4, <1>5, <2>2, <3>1
    <3>2. CASE x # c
      BY <1>2, <1>4, <2>2, <3>2 DEF ClientInv, Sockets
    <3> QED
      BY <3>1, <3>2
  <2> QED
    BY <2>3, <2>4 DEF Sockets
<1>11. Closing'
  <2>1. \A x \in Client \ {c} : ClosingAt(x)'
    BY <1>2, <1>8 DEF ClientInv, Types, Closing, ClosingAt
  <2>2. ClosingAt(c)'
    BY <1>2, <1>5 DEF ClientInv, Closing, ClosingAt
  <2> QED
    BY <2>1, <2>2 DEF Closing
<1>12. Engaged'
  <2>1. ASSUME NEW t \in Task, req'[t] # None PROVE Usable(req[t].client)'
    <3>1. Usable(req[t].client) /\ req[t].client \in Client \ {c} /\ req' = req
      BY <1>1, <1>2, <2>1 DEF ClientInv, Engaged, BaseInv, RequestType, Requests
    <3>2. \A x \in Client \ {c} : fdOf'[x] = fdOf[x] /\ connector'[x] = connector[x]
      BY <1>4, <1>8 DEF ClientInv, Types
    <3> QED
      BY <3>1, <3>2 DEF Usable
  <2>2. ASSUME NEW op \in Outstanding
        PROVE  /\ Live(op.client)'
               /\ op.event = "connect" => op.client \in Stream /\ connector'[op.client] = "waiting"
    <3>1. /\ Live(op.client) /\ op.client \in Client \ {c}
          /\ op.event = "connect" => op.client \in Stream /\ connector[op.client] = "waiting"
      BY <1>6 DEF ClientInv, Engaged
    <3> QED
      BY <1>2, <1>4, <1>8, <3>1 DEF Live, ClientInv, Types
  <2>3. CASE Outstanding' = Outstanding
    BY <2>1, <2>2, <2>3 DEF Engaged
  <2>4. CASE /\ c \in Stream /\ Outstanding' = Outstanding \cup {Connect(c)'}
             /\ connector' = [connector EXCEPT ![c] = "waiting"]
    <3>1. Connect(c)'.client = c /\ Live(c)' /\ connector'[c] = "waiting"
      BY <1>2, <1>3, <1>4, <1>5, <2>4 DEF Connect, Live, ClientInv, Types
    <3> QED
      BY <2>1, <2>2, <2>4, <3>1 DEF Engaged
  <2> QED
    BY <1>8, <2>3, <2>4
<1>13. PendingCounts'
  <2>1. CASE Outstanding' = Outstanding /\ UNCHANGED pending
    BY <2>1, KeptCounts DEF ClientInv
  <2>2. CASE Outstanding' = Outstanding \cup {Connect(c)'} /\ pending' = [pending EXCEPT ![c] = 1]
    <3>1. PICK ops : ops = {Connect(c)'}
      OBVIOUS
    <3>2. IsFiniteSet(ops) /\ Cardinality(ops) = 1
      BY <3>1, FS_Singleton
    <3>3. \A op \in ops : op.client = c
      BY <3>1 DEF Connect
    <3>4. ops \cap Outstanding = {}
      BY <1>6, <3>3
    <3>5. pending' = [pending EXCEPT ![c] = @ + Cardinality(ops)]
      BY <1>7, <2>2, <3>2 DEF ClientInv, Types
    <3> QED
      BY <1>3, <2>2, <3>1, <3>2, <3>3, <3>4, <3>5, StartCount DEF ClientInv, Types
  <2> QED
    BY <1>8, <2>1, <2>2
<1> QED
  BY <1>8, <1>9, <1>10, <1>11, <1>12, <1>13 DEF ClientInv

\* The operations of a request are new ones of its client, which is live and
\* does not close.
LEMMA IssueClient ==
  ASSUME BaseInv, BaseInv', ClientInv, NEW t \in Task, req'[t] # None,
         UNCHANGED <<closeVars, socketVars, connector>>,
         Tracked', Usable(req'[t].client), \A u \in Task \ {t} : req'[u] = req[u],
         \A op \in Outstanding : op.task # t,
         \/ Outstanding' = Outstanding /\ pending' = pending
         \/ /\ Outstanding' = Outstanding \cup Transfers(t)' /\ ~closing[req'[t].client]
            /\ pending' = [pending EXCEPT ![req'[t].client] = @ + req'[t].count]
            /\ Cardinality(got'[t]) = req'[t].count
  PROVE  ClientInv'
<1>1. UNCHANGED <<fdOf, freed, registry, descriptor, active, closing, closer, closePc, connector>>
  BY DEF closeVars, socketVars
<1>2. RingInv /\ req'[t] \in RequestType
  BY DEF BaseInv
<1>3. PICK c \in Client : c = req'[t].client
  BY <1>2 DEF RequestType
<1>4. Sockets'
  BY <1>1 DEF ClientInv, Sockets, Live
<1>5. \A u \in Task : req'[u] # None => Usable(req[u].client)'
  <2>1. \A u \in Task : req'[u] # None => Usable(req'[u].client)
    BY DEF ClientInv, Engaged
  <2> QED
    BY <1>1, <2>1 DEF Usable
<1>6. CASE Outstanding' = Outstanding /\ pending' = pending
  <2>1. Engaged'
    BY <1>1, <1>5, <1>6 DEF ClientInv, Engaged, Live
  <2>2. Closing' /\ Types'
    BY <1>1, <1>6 DEF ClientInv, Closing, ClosingAt, Types
  <2> QED
    BY <1>4, <1>6, <2>1, <2>2, KeptCounts DEF ClientInv
<1>7. CASE /\ Outstanding' = Outstanding \cup Transfers(t)' /\ ~closing[c]
           /\ pending' = [pending EXCEPT ![c] = @ + req'[t].count]
           /\ Cardinality(got'[t]) = req'[t].count
  <2>1. PICK ops : ops = Transfers(t)'
    OBVIOUS
  <2>2. ops = Each(got'[t], c, fdOf'[c], req'[t].kind, t)
    BY <1>3, <2>1 DEF Transfers, Transfer, Each
  <2>3. IsFiniteSet(got'[t])
    BY PoolTypesNext DEF BaseInv
  <2>4. IsFiniteSet(ops) /\ Cardinality(ops) = req'[t].count
    BY <1>7, <2>2, <2>3, OneEach
  <2>5. \A op \in ops : op.client = c /\ op.task = t /\ op.event = req'[t].kind
    BY <2>2 DEF Each
  <2>6. ops \cap Outstanding = {}
    BY <2>5
  <2>7. PendingCounts' /\ pending' \in [Client -> Nat]
    <3>1. pending' = [pending EXCEPT ![c] = @ + Cardinality(ops)]
      BY <1>7, <2>4
    <3> QED
      BY <1>2, <1>7, <2>1, <2>4, <2>5, <2>6, <3>1, StartCount DEF ClientInv, Types
  <2>8. Live(c)
    BY <1>3, <1>7 DEF Usable, Live, ClientInv, Sockets
  <2>9. Engaged'
    <3>1. \A op \in ops : Live(op.client)' /\ op.event # "connect"
      BY <1>1, <1>2, <2>5, <2>8 DEF Live, RequestType
    <3>2. \A op \in Outstanding : Live(op.client)' /\ (op.event = "connect" => op.client \in Stream /\ connector'[op.client] = "waiting")
      BY <1>1 DEF Live, ClientInv, Engaged
    <3> QED
      BY <1>5, <1>7, <2>1, <3>1, <3>2 DEF Engaged
  <2>10. Closing'
    <3>1. \A x \in Client \ {c} : ClosingAt(x)'
      BY <1>1, <1>7 DEF ClientInv, Types, Closing, ClosingAt
    <3>2. ClosingAt(c)'
      BY <1>1, <1>7 DEF ClientInv, Closing, ClosingAt
    <3> QED
      BY <3>1, <3>2 DEF Closing
  <2>11. Types'
    BY <1>1, <2>7 DEF ClientInv, Types
  <2> QED
    BY <1>4, <2>7, <2>9, <2>10, <2>11 DEF ClientInv
<1> QED
  BY <1>3, <1>6, <1>7

\* A step that changes nothing but the ring and the pool.
LEMMA KeepClient ==
  ASSUME ClientInv, Outstanding' = Outstanding, Tracked',
         UNCHANGED <<req, closeVars, socketVars, connector, pending>>
  PROVE  ClientInv'
<1>1. UNCHANGED <<fdOf, freed, registry, descriptor, active, closing, closer, closePc, connector, req, pending>>
  BY DEF closeVars, socketVars
<1>2. Types' /\ Closing' /\ Sockets'
  BY <1>1 DEF ClientInv, Types, Closing, ClosingAt, Sockets, Live
<1>3. Engaged'
  BY <1>1 DEF ClientInv, Engaged, Live, Usable
<1> QED
  BY <1>1, <1>2, <1>3, KeptCounts DEF ClientInv

LEMMA NextClient ==
  ASSUME BaseInv, ClientInv, [Next]_vars, DestroyedOnce'
  PROVE  ClientInv'
<1>1. RingInv /\ Tracked
  BY DEF BaseInv, ClientInv
<1>2. ASSUME NEW c \in Client, NEW t \in Task, NEW kind \in Kinds(c), NEW n \in 1..MaxWant,
             Request(t, c, kind, n)
      PROVE  ClientInv'
  <2>1. /\ BaseInv' /\ Tracked' /\ \A op \in Outstanding : op.task # t
        /\ req' = [req EXCEPT ![t] = [client |-> c, kind |-> kind, count |-> n]]
        /\ Issues(t, c, kind, n)
    BY <1>1, <1>2, RequestBase
  <2>2. Usable(c) /\ UNCHANGED <<closeVars, socketVars, connector>>
    BY <1>2 DEF Request
  <2>3. req \in [Task -> RequestType \cup {None}]
    BY DEF BaseInv
  <2>4. req'[t].client = c /\ req'[t].count = n /\ \A u \in Task \ {t} : req'[u] = req[u]
    BY <2>1, <2>3
  <2>5. req'[t] # None
    <3>1. [client |-> c, kind |-> kind, count |-> n] \in RequestType
      BY DEF RequestType, Kinds
    <3> QED
      BY <2>1, <2>3, <3>1, ClientAssumption
  <2> QED
    BY <2>1, <2>2, <2>4, <2>5, IssueClient DEF Issues
<1>3. ASSUME NEW t \in Task, Resume(t) PROVE ClientInv'
  <2>1. /\ BaseInv' /\ Tracked' /\ \A op \in Outstanding : op.task # t
        /\ req[t] \in RequestType
        /\ Issues(t, req[t].client, req[t].kind, req[t].count)
    BY <1>1, <1>3, ResumeBase
  <2>2. req' = req /\ UNCHANGED <<closeVars, socketVars, connector>>
    BY <1>3 DEF Resume
  <2>3. req[t] # None
    BY <2>1, ClientAssumption
  <2>4. Usable(req[t].client)
    BY <2>3 DEF ClientInv, Engaged
  <2> QED
    BY <2>1, <2>2, <2>3, <2>4, IssueClient DEF Issues
<1>4. ASSUME NEW t \in Task, ReleasePayload(t) PROVE ClientInv'
  BY <1>1, <1>4, StillRing, KeepClient DEF ReleasePayload, ringVars
<1>5. ASSUME NEW op \in inflight, Complete(op) PROVE ClientInv'
  BY <1>1, <1>5, CompleteRing, KeepClient DEF Complete, taskVars
<1>6. ASSUME CheckEventTimeouts PROVE ClientInv'
  <2>1. \E E : CancelEvents(E, events) /\ UNCHANGED <<inflight, cq, batch>>
    BY <1>6 DEF CheckEventTimeouts, CheckTimeouts
  <2> QED
    BY <1>1, <1>6, <2>1, CancelRing, KeepClient DEF CheckEventTimeouts, taskVars
<1>7. ASSUME Peek PROVE ClientInv'
  BY <1>1, <1>7, PeekRing, KeepClient DEF Peek, taskVars
<1>8. ASSUME UNCHANGED vars PROVE ClientInv'
  BY <1>1, <1>8, StillRing, KeepClient DEF vars, taskVars, ringVars
<1>9. ASSUME NEW c \in Client, (\E graceful \in BOOLEAN : Close(c, graceful)) \/ ClosePart(c)
      PROVE  ClientInv'
  BY <1>9, CloseClient
<1>10. ASSUME NEW c \in Client, OpenDatagram(c) \/ OpenStream(c) PROVE ClientInv'
  BY <1>10, OpenClient
<1>11. ASSUME HandleCqe PROVE ClientInv'
  BY <1>11, HandleClient
<1> QED
  BY <1>2, <1>3, <1>4, <1>5, <1>6, <1>7, <1>8, <1>9, <1>10, <1>11 DEF Next, ClosePart

LEMMA InitClient == Init => ClientInv
<1> SUFFICES ASSUME Init PROVE ClientInv
  OBVIOUS
<1>1. RingInit /\ Tracked /\ Outstanding = {}
  BY InitRing DEF Init
<1>2. Types /\ Sockets /\ Closing
  BY ClientAssumption DEF Init, Types, Sockets, Closing, ClosingAt, Live
<1>3. Engaged
  BY <1>1 DEF Init, Engaged
<1>4. PendingCounts
  <2>1. \A c \in Client : OutstandingOf(c) = {}
    BY <1>1 DEF OutstandingOf
  <2> QED
    BY <2>1, FS_EmptySet DEF Init, PendingCounts
<1> QED
  BY <1>1, <1>2, <1>3, <1>4 DEF ClientInv

-----------------------------------------------------------------------------
(* What the callers of writes are told.                                      *)

\* The operations of a task that writes are writes.
OfTask(t) == {op \in Outstanding : op.task = t}
OutboundOf(c) == {op \in Outstanding : op.client = c /\ op.event \in Outbound}

LEMMA TaskOperations ==
  ASSUME BaseInv, NEW t \in Task
  PROVE  /\ IsFiniteSet(OfTask(t)) /\ Cardinality(OfTask(t)) \in Nat
         /\ \A op \in OfTask(t) :
              /\ req[t] # None /\ op.client = req[t].client /\ op.event = req[t].kind
              /\ op.event # "connect" /\ op.buf \in got[t] /\ ~B!Waiting(t)
         /\ \A op \in Outstanding : op.event \in Outbound =>
              op.task \in Task /\ op.client \in Client /\ op.task # None
<1>1. IsFiniteSet(OfTask(t))
  <2>1. IsFiniteSet(Outstanding)
    BY OutstandingFinite DEF BaseInv
  <2> QED
    BY <2>1, FS_Subset DEF OfTask
<1>2. \A op \in OfTask(t) :
        /\ req[t] # None /\ op.client = req[t].client /\ op.event = req[t].kind
        /\ op.buf \in got[t] /\ ~B!Waiting(t)
  BY ClientAssumption DEF OfTask, BaseInv, Operations, Connect, Transfer, Submitted
<1>3. \A op \in OfTask(t) : op.event # "connect"
  BY <1>2 DEF BaseInv, RequestType
<1>4. \A op \in Outstanding : op.event \in Outbound => op.task \in Task /\ op.client \in Client
  BY DEF BaseInv, Operations, Connect, Outbound
<1> QED
  BY <1>1, <1>2, <1>3, <1>4, FS_CardinalityType, ClientAssumption

\* No buffer is with two tasks.
Apart == /\ got \in [Task -> SUBSET Buffer]
         /\ \A t, u \in Task : t # u => got[t] \cap got[u] = {}

LEMMA ApartNext == BaseInv' => Apart'
<1>1. BaseInv => Apart
  BY PoolFacts DEF BaseInv, Apart
<1> QED
  BY <1>1, PTL

\* What TaskOperations says of a state, for the next one.
TransfersOfTasks ==
  \A t \in Task, op \in Outstanding : op.task = t =>
    req[t] # None /\ op.client = req[t].client /\ op.event = req[t].kind /\ op.buf \in got[t]

LEMMA TransfersNext == BaseInv' => TransfersOfTasks'
<1>1. BaseInv => TransfersOfTasks
  BY TaskOperations DEF TransfersOfTasks, OfTask
<1> QED
  BY <1>1, PTL

\* A step that tells nobody anything.
LEMMA KeepReports ==
  ASSUME BaseInv, BaseInv', Reports, UNCHANGED <<doneHandlers, errorHandlers, reports, req, refused>>,
         \A t \in Task : B!Waiting(t)' <=> B!Waiting(t),
         \A op \in Outstanding' : op.event \in Outbound => op \in Outstanding,
         \A c \in Client : Undisturbed(c)' => Undisturbed(c) /\ OutboundOf(c) \subseteq Outstanding'
  PROVE  Reports'
<1>1. ASSUME NEW t \in Task, NEW c \in Client, c = req[t].client, req[t] # None, req[t].kind \in Outbound, Undisturbed(c)'
      PROVE  OfTask(t)' = OfTask(t)
  <2>1. \A op \in OfTask(t) : op \in OutboundOf(c)
    BY <1>1, TaskOperations DEF OutboundOf, OfTask
  <2>2. \A op \in OfTask(t)' : op.event \in Outbound
    BY <1>1, TransfersNext DEF TransfersOfTasks, OfTask
  <2> QED
    BY <1>1, <2>1, <2>2 DEF OfTask
<1>2. ASSUME NEW t \in Handled, req'[t] # None, req'[t].kind \in Outbound, t \notin refused',
             ~B!Waiting(t)', NEW c, c = req[t].client, Undisturbed(c)'
      PROVE  Len(reports[t]) = req[t].count - Cardinality(OfTask(t)')
  <2>1. t \in Task /\ c \in Client /\ Undisturbed(c)
    BY <1>2, ClientAssumption DEF BaseInv, RequestType
  <2>2. OfTask(t)' = OfTask(t)
    BY <1>1, <1>2, <2>1
  <2>3. Len(reports[t]) = req[t].count - Cardinality(OfTask(t))
    BY <1>2, <2>1 DEF Reports, WritesReported, Answered, OfTask
  <2> QED
    BY <2>2, <2>3
<1>3. WritesReported'
  <2> SUFFICES ASSUME NEW t \in Handled, req'[t] # None, req'[t].kind \in Outbound, t \notin refused',
                      ~B!Waiting(t)', Undisturbed(req[t].client)'
               PROVE  Len(reports'[t]) = req'[t].count - Cardinality(OfTask(t)')
    BY DEF WritesReported, Answered, OfTask
  <2>1. PICK c : c = req[t].client
    OBVIOUS
  <2> QED
    BY <1>2, <2>1
<1> QED
  BY <1>3 DEF Reports

\* A request begins with its handlers in place and nothing reported.
LEMMA IssueReports ==
  ASSUME BaseInv, BaseInv', Reports, Handled = Task, NEW t \in Task, NEW r \in RequestType,
         req'[t] = r, \A u \in Task \ {t} : req'[u] = req[u],
         reports'[t] = <<>>, \A u \in Task \ {t} : reports'[u] = reports[u],
         reports' \in [Task -> Seq({"done", "error"})],
         refused \subseteq refused', UNCHANGED <<active, closePc>>,
         \A u \in Task \ {t} : B!Waiting(u)' <=> B!Waiting(u),
         \A op \in Outstanding : op.task # t,
         Issues(t, r.client, r.kind, r.count)
  PROVE  Reports'
<1>1. PICK c \in Client : c = r.client
  BY DEF RequestType
<1>2. \A x \in Client : Undisturbed(x)' <=> Undisturbed(x)
  BY DEF Undisturbed
<1>3. CASE /\ Outstanding' = Outstanding /\ UNCHANGED <<doneHandlers, errorHandlers>>
           /\ B!Waiting(t)' \/ t \in refused'
  <2>1. ASSUME NEW u \in Handled, u # t, req'[u] # None, req'[u].kind \in Outbound, u \notin refused',
               ~B!Waiting(u)', NEW d, d = req[u].client, Undisturbed(d)'
        PROVE  Len(reports'[u]) = req'[u].count - Cardinality(OfTask(u)')
    <3>1. d \in Client /\ Undisturbed(d)
      BY <1>2, <2>1 DEF BaseInv, RequestType
    <3>2. OfTask(u)' = OfTask(u)
      BY <1>3 DEF OfTask
    <3>3. Len(reports[u]) = req[u].count - Cardinality(OfTask(u))
      BY <2>1, <3>1 DEF Reports, WritesReported, Answered, OfTask
    <3> QED
      BY <2>1, <3>2, <3>3
  <2>2. WritesReported'
    <3> SUFFICES ASSUME NEW u \in Handled, NEW d, req'[u] # None, req'[u].kind \in Outbound, u \notin refused',
                        ~B!Waiting(u)', d = req'[u].client, Undisturbed(d)'
                 PROVE  Len(reports'[u]) = req'[u].count - Cardinality(OfTask(u)')
      BY DEF WritesReported, Answered, OfTask, Undisturbed
    <3>1. u # t
      BY <1>3
    <3>2. d = req[u].client
      BY <3>1
    <3> QED
      BY <2>1, <3>1, <3>2
  <2> QED
    BY <1>3, <2>2 DEF Reports
<1>4. CASE /\ Outstanding' = Outstanding \cup Transfers(t)' /\ ~B!Waiting(t)'
           /\ Cardinality(got'[t]) = r.count /\ Registers(t, c, r.kind)
  <2>1. PICK ops : ops = Transfers(t)'
    OBVIOUS
  <2>2. ops = Each(got'[t], c, fdOf'[c], r.kind, t)
    BY <1>1, <2>1 DEF Transfers, Transfer, Each
  <2>3. Cardinality(ops) = r.count
    <3>1. IsFiniteSet(got'[t])
      BY PoolTypesNext DEF BaseInv
    <3> QED
      BY <1>4, <2>2, <3>1, OneEach
  <2>4. \A op \in ops : op.client = c /\ op.task = t /\ op.event = r.kind /\ op.buf \in got'[t]
    BY <2>2 DEF Each
  <2>5. OfTask(t)' = ops /\ \A u \in Task \ {t} : OfTask(u)' = OfTask(u)
    BY <1>4, <2>1, <2>4 DEF OfTask
  <2>6. /\ doneHandlers' \in [Client -> [Buffer -> Task \cup {None}]]
        /\ errorHandlers' \in [Client -> [Buffer -> Task \cup {None}]]
    BY <1>4 DEF Registers, WithHandlers, Reports
  <2>7. \A d \in Client, b \in Buffer :
          IF d = c /\ b \in got'[t] /\ r.kind \in Outbound
            THEN doneHandlers'[d][b] = t /\ errorHandlers'[d][b] = t
            ELSE doneHandlers'[d][b] = doneHandlers[d][b] /\ errorHandlers'[d][b] = errorHandlers[d][b]
    BY <1>4 DEF Registers, WithHandlers, Reports
  <2>8. got' \in [Task -> SUBSET Buffer] /\ \A u \in Task \ {t} : got'[u] \cap got'[t] = {}
    BY ApartNext DEF Apart
  <2>9. ASSUME NEW op \in Outstanding', op.event \in Outbound
        PROVE  doneHandlers'[op.client][op.buf] = op.task /\ errorHandlers'[op.client][op.buf] = op.task
    <3>1. CASE op \in ops
      BY <1>1, <2>4, <2>7, <2>8, <2>9, <3>1
    <3>2. CASE op \in Outstanding
      <4>1. op.task \in Task \ {t} /\ op.client \in Client
        BY <2>9, <3>2, TaskOperations
      <4>2. op.buf \in got'[op.task]
        BY <4>1, TransfersNext DEF TransfersOfTasks
      <4>3. op.buf \in Buffer /\ op.buf \notin got'[t]
        BY <2>8, <4>1, <4>2
      <4> QED
        BY <2>7, <2>9, <3>2, <4>1, <4>3 DEF Reports
    <3> QED
      BY <1>4, <2>1, <3>1, <3>2
  <2>10. ASSUME NEW u \in Handled, NEW d, req'[u] # None, req'[u].kind \in Outbound, u \notin refused',
                ~B!Waiting(u)', d = req'[u].client, Undisturbed(d)'
         PROVE  Len(reports'[u]) = req'[u].count - Cardinality(OfTask(u)')
    <3>1. CASE u = t
      BY <2>3, <2>5, <3>1 DEF RequestType
    <3>2. CASE u # t
      <4>1. u \in Task \ {t} /\ d = req[u].client /\ req'[u] = req[u] /\ reports'[u] = reports[u] /\ ~B!Waiting(u)
            /\ u \notin refused
        BY <2>10, <3>2
      <4>2. d \in Client /\ Undisturbed(d)
        BY <1>2, <2>10, <4>1 DEF BaseInv, RequestType
      <4>3. Len(reports[u]) = req[u].count - Cardinality(OfTask(u))
        BY <2>10, <4>1, <4>2 DEF Reports, WritesReported, Answered, OfTask
      <4> QED
        BY <2>5, <4>1, <4>3
    <3> QED
      BY <3>1, <3>2
  <2>11. WritesReported'
    BY <2>10 DEF WritesReported, Answered, OfTask, Undisturbed
  <2>12. \A u \in Task : B!Waiting(u)' => reports'[u] = <<>>
    BY <1>4 DEF Reports
  <2> QED
    BY <2>6, <2>9, <2>11, <2>12 DEF Reports
<1> QED
  BY <1>1, <1>3, <1>4 DEF Issues, handlerVars

\* The operation whose completion is handled, and its client, which is live.
LEMMA HandleAt ==
  ASSUME BaseInv, ClientInv, HandleCqe
  PROVE  /\ UNCHANGED <<req, refused, fdOf>>
         /\ \E c, op, res, known :
              /\ c \in Client /\ op \in Outstanding
              /\ op.client = c /\ Outstanding' = Outstanding \ {op}
              /\ pending[c] > 0
              /\ \/ op.event = "connect" /\ NotifyConnect(c, res)
                 \/ op.event # "connect" /\ NotifyData(c, op, res, known)
<1>1. Ended \in Outstanding \ inflight /\ Outstanding' = Outstanding \ {Ended}
  BY HandleRing DEF BaseInv
<1>2. PICK c, op, res, known :
        /\ c = Notified /\ op = Ended /\ res = Head(cq).res /\ known = Known
        /\ \/ /\ c = None /\ events' = known
              /\ UNCHANGED <<bufferVars, taskVars, handlerVars, closeVars, registry, descriptor,
                             freed, connector, pending, cancelled>>
           \/ c # None /\ op.event = "connect" /\ NotifyConnect(c, res) /\ events' = known
           \/ c # None /\ op.event # "connect" /\ NotifyData(c, op, res, known)
  BY HandleCases
<1>3. op \in Outstanding /\ Outstanding' = Outstanding \ {op}
  BY <1>1, <1>2
<1>4. op.client = c /\ c \in Client /\ c # None
  <2>1. op.client \in Client /\ registry[op.fd] = op.client
    BY <1>3, Reached DEF ClientInv
  <2>2. c = registry[op.fd]
    BY <1>2 DEF Notified
  <2> QED
    BY <2>1, <2>2, ClientAssumption
<1>5. pending[c] > 0
  BY <1>3, <1>4, NonePending DEF BaseInv, ClientInv
<1>6. UNCHANGED <<req, refused, fdOf>>
  BY HandleCases
<1> QED
  BY <1>2, <1>3, <1>4, <1>5, <1>6

\* A notification disturbs a client, or leaves it so.
LEMMA NotifyUndisturbed ==
  ASSUME CloseTypes, NEW c \in Client, NEW op, NEW res, NEW known,
         NotifyConnect(c, res) \/ NotifyData(c, op, res, known)
  PROVE  \A x \in Client : Undisturbed(x)' => Undisturbed(x)
<1>1. CASE closePc' = closePc /\ (Settle(c) \/ active' = active)
  BY <1>1 DEF Settle, CloseTypes, Undisturbed
<1>2. CASE NotifyConnect(c, res)
  BY <1>1, <1>2 DEF NotifyConnect
<1>3. ASSUME NEW p, BeginClose(c, FALSE, p, known)
      PROVE  \A x \in Client : Undisturbed(x)' => Undisturbed(x)
  <2>1. /\ active' = [active EXCEPT ![c] = FALSE]
        /\ closePc' = [closePc EXCEPT ![c] = "forced"] \/ closePc' = [closePc EXCEPT ![c] = "drain"]
             \/ closePc' = [closePc EXCEPT ![c] = "closed"]
    BY <1>3 DEF BeginClose, Drain
  <2> QED
    BY <2>1 DEF CloseTypes, Undisturbed
<1>4. CASE NotifyData(c, op, res, known)
  BY <1>1, <1>3, <1>4 DEF NotifyData, NotifyActive, NotifyInactive
<1> QED
  BY <1>2, <1>4

LEMMA TakeHandler ==
  ASSUME NEW h \in [Client -> [Buffer -> Task \cup {None}]], NEW c \in Client, NEW b \in Buffer
  PROVE  /\ [h EXCEPT ![c][b] = None] \in [Client -> [Buffer -> Task \cup {None}]]
         /\ \A d \in Client, x \in Buffer : d # c \/ x # b => [h EXCEPT ![c][b] = None][d][x] = h[d][x]
OBVIOUS

\* The handler of a completed buffer is taken and called.
LEMMA ReportOne ==
  ASSUME BaseInv, BaseInv', Reports, Handled = Task, NEW op \in Outstanding, op.event \in Outbound,
         Outstanding' = Outstanding \ {op}, UNCHANGED <<req, refused>>,
         \A t \in Task : B!Waiting(t)' <=> B!Waiting(t),
         \A x \in Client : Undisturbed(x)' => Undisturbed(x),
         \/ Report(op.client, doneHandlers, op.buf, "done") /\ UNCHANGED errorHandlers
         \/ Report(op.client, errorHandlers, op.buf, "error") /\ UNCHANGED doneHandlers
  PROVE  Reports'
<1> DEFINE c == op.client
           t == op.task
           b == op.buf
<1>1. c \in Client /\ t \in Task /\ c = op.client /\ t = op.task /\ b = op.buf /\ t # None
  BY ClientAssumption DEF BaseInv, Operations, Connect, Outbound
<1> HIDE DEF c, t, b
<1>2. op \in OfTask(t) /\ ~B!Waiting(t) /\ b \in got[t] /\ c = req[t].client /\ op.event # "connect"
  BY <1>1, TaskOperations DEF OfTask
<1>3. b \in Buffer
  BY <1>1, <1>2, PoolFacts DEF BaseInv
<1>4. doneHandlers[c][b] = t /\ errorHandlers[c][b] = t
  BY <1>1 DEF Reports
<1>5. /\ \/ doneHandlers' = [doneHandlers EXCEPT ![c][b] = None] /\ errorHandlers' = errorHandlers
         \/ errorHandlers' = [errorHandlers EXCEPT ![c][b] = None] /\ doneHandlers' = doneHandlers
      /\ \E what \in {"done", "error"} : reports' = [reports EXCEPT ![t] = Append(@, what)]
  <2>1. CASE Report(c, doneHandlers, b, "done") /\ UNCHANGED errorHandlers
    BY <1>1, <1>4, <2>1 DEF Report
  <2>2. CASE Report(c, errorHandlers, b, "error") /\ UNCHANGED doneHandlers
    BY <1>1, <1>4, <2>2 DEF Report
  <2> QED
    BY <1>1, <2>1, <2>2
<1>6. /\ reports' \in [Task -> Seq({"done", "error"})]
      /\ Len(reports'[t]) = Len(reports[t]) + 1 /\ Len(reports[t]) \in Nat
      /\ \A u \in Task \ {t} : reports'[u] = reports[u]
  <2>1. PICK what \in {"done", "error"} : reports' = [reports EXCEPT ![t] = Append(reports[t], what)]
    BY <1>5
  <2>2. reports \in [Task -> Seq({"done", "error"})]
    BY DEF Reports
  <2>3. Append(reports[t], what) \in Seq({"done", "error"}) /\ Len(Append(reports[t], what)) = Len(reports[t]) + 1
    BY <1>1, <2>2
  <2> QED
    BY <1>1, <2>1, <2>2, <2>3
<1>7. /\ doneHandlers' \in [Client -> [Buffer -> Task \cup {None}]]
      /\ errorHandlers' \in [Client -> [Buffer -> Task \cup {None}]]
      /\ \A d \in Client, x \in Buffer : d # c \/ x # b =>
           doneHandlers'[d][x] = doneHandlers[d][x] /\ errorHandlers'[d][x] = errorHandlers[d][x]
  <2> DEFINE done == [doneHandlers EXCEPT ![c][b] = None]
             error == [errorHandlers EXCEPT ![c][b] = None]
  <2>1. /\ doneHandlers \in [Client -> [Buffer -> Task \cup {None}]]
        /\ errorHandlers \in [Client -> [Buffer -> Task \cup {None}]]
    BY DEF Reports
  <2>2. /\ done \in [Client -> [Buffer -> Task \cup {None}]]
        /\ \A d \in Client, x \in Buffer : d # c \/ x # b => done[d][x] = doneHandlers[d][x]
    BY <1>1, <1>3, <2>1, TakeHandler
  <2>3. /\ error \in [Client -> [Buffer -> Task \cup {None}]]
        /\ \A d \in Client, x \in Buffer : d # c \/ x # b => error[d][x] = errorHandlers[d][x]
    BY <1>1, <1>3, <2>1, TakeHandler
  <2>4. \/ doneHandlers' = done /\ errorHandlers' = errorHandlers
        \/ errorHandlers' = error /\ doneHandlers' = doneHandlers
    BY <1>5
  <2> HIDE DEF done, error
  <2> QED
    BY <2>1, <2>2, <2>3, <2>4
<1>8. ASSUME NEW o \in Outstanding', o.event \in Outbound
      PROVE  doneHandlers'[o.client][o.buf] = o.task /\ errorHandlers'[o.client][o.buf] = o.task
  <2>1. o \in Outstanding /\ o # op /\ o.event # "connect"
    BY <1>8 DEF Outbound
  <2>2. o.buf # b
    BY <1>1, <1>2, <2>1, BaseOwned DEF KernelBuffersOwned
  <2>3. o.client \in Client /\ o.task \in Task
    BY <1>1, <1>8, <2>1, TaskOperations
  <2>4. o.buf \in Buffer
    <3>1. o.buf \in got[o.task]
      BY <2>1, <2>3, TaskOperations DEF OfTask
    <3> QED
      BY <2>3, <3>1, PoolFacts DEF BaseInv
  <2> QED
    BY <1>7, <1>8, <2>1, <2>2, <2>3, <2>4 DEF Reports
<1>9. /\ Cardinality(OfTask(t)') = Cardinality(OfTask(t)) - 1 /\ Cardinality(OfTask(t)) \in Nat
      /\ \A u \in Task \ {t} : OfTask(u)' = OfTask(u)
  <2>1. OfTask(t)' = OfTask(t) \ {op} /\ \A u \in Task \ {t} : OfTask(u)' = OfTask(u)
    BY <1>1 DEF OfTask
  <2>2. IsFiniteSet(OfTask(t)) /\ Cardinality(OfTask(t)) \in Nat
    BY <1>1, TaskOperations
  <2> QED
    BY <1>2, <2>1, <2>2, FS_RemoveElement
<1>10. ASSUME NEW u \in Handled, NEW d, req'[u] # None, req'[u].kind \in Outbound, u \notin refused',
              ~B!Waiting(u)', d = req'[u].client, Undisturbed(d)'
       PROVE  Len(reports'[u]) = req'[u].count - Cardinality(OfTask(u)')
  <2>1. u \in Task /\ ~B!Waiting(u) /\ req[u] # None
    BY <1>10
  <2>2. d \in Client /\ Undisturbed(d) /\ req[u].count \in Int
    BY <1>10, <2>1 DEF BaseInv, RequestType
  <2>3. Len(reports[u]) = req[u].count - Cardinality(OfTask(u))
    BY <1>10, <2>1, <2>2 DEF Reports, WritesReported, Answered, OfTask
  <2>4. CASE u = t
    BY <1>6, <1>9, <2>2, <2>3, <2>4
  <2>5. CASE u # t
    BY <1>6, <1>9, <2>1, <2>3, <2>5
  <2> QED
    BY <2>4, <2>5
<1>11. WritesReported'
  BY <1>10 DEF WritesReported, Answered, OfTask, Undisturbed
<1>12. \A u \in Task : B!Waiting(u)' => reports'[u] = <<>>
  BY <1>2, <1>6 DEF Reports
<1> QED
  BY <1>6, <1>7, <1>8, <1>11, <1>12 DEF Reports

LEMMA HandleReports ==
  ASSUME BaseInv, BaseInv', ClientInv, Reports, Handled = Task, HandleCqe
  PROVE  Reports'
<1>1. UNCHANGED <<req, refused>>
  BY HandleAt
<1>2. PICK c, op, res, known :
        /\ c \in Client /\ op \in Outstanding
        /\ op.client = c /\ Outstanding' = Outstanding \ {op} /\ pending[c] > 0
        /\ \/ op.event = "connect" /\ NotifyConnect(c, res)
           \/ op.event # "connect" /\ NotifyData(c, op, res, known)
  BY HandleAt
<1>3. CloseTypes /\ ClosingAt(c)
  BY <1>2, ClientTypes DEF ClientInv, Closing
<1>4. \A x \in Client : Undisturbed(x)' => Undisturbed(x)
  BY <1>2, <1>3, NotifyUndisturbed
<1>5. \A t \in Task : B!Waiting(t)' <=> B!Waiting(t)
  <2>1. CASE UNCHANGED bufferVars
    BY <2>1, KeepPool
  <2>2. CASE op.event # "connect" /\ B!Release(op.task, op.buf)
    <3>1. op.task \in Task /\ op.buf \in got[op.task]
      BY <1>2, <2>2, Reached DEF ClientInv
    <3>2. op.buf \in Buffer
      BY <3>1, PoolFacts DEF BaseInv
    <3> QED
      BY <2>2, <3>1, <3>2, ReleasePool DEF BaseInv
  <2>3. CASE NotifyConnect(c, res)
    BY <2>1, <2>3 DEF NotifyConnect
  <2> QED
    BY <1>2, <2>1, <2>2, <2>3, DataCases
<1>6. CASE op.event \notin Outbound
  <2>1. UNCHANGED <<doneHandlers, errorHandlers, reports>>
    BY <1>2, <1>6 DEF NotifyConnect, NotifyData, NotifyActive, NotifyInactive, handlerVars, taskVars
  <2>2. \A x \in Client : OutboundOf(x) \subseteq Outstanding'
    BY <1>2, <1>6 DEF OutboundOf
  <2>3. Outstanding' \subseteq Outstanding
    BY <1>2
  <2> QED
    BY <1>1, <1>4, <1>5, <2>1, <2>2, <2>3, KeepReports
<1>7. CASE op.event \in Outbound /\ active[c]
  <2>1. NotifyActive(c, op, res, known) /\ op.event # "connect" /\ op.event \notin {"receive", "read"}
    BY <1>2, <1>7 DEF NotifyData, Outbound
  <2>2. \/ Report(c, doneHandlers, op.buf, "done") /\ UNCHANGED errorHandlers
        \/ Report(c, errorHandlers, op.buf, "error") /\ UNCHANGED doneHandlers
    BY <1>7, <2>1 DEF NotifyActive
  <2> QED
    BY <1>1, <1>2, <1>4, <1>5, <1>7, <2>2, ReportOne
<1>8. CASE op.event \in Outbound /\ ~active[c]
  <2>1. NotifyInactive(c, op, known)
    BY <1>2, <1>8 DEF NotifyData, Outbound
  <2>2. UNCHANGED <<doneHandlers, errorHandlers, reports, active, closePc>>
    BY <2>1 DEF NotifyInactive, handlerVars
  <2>3. ~Undisturbed(c)'
    BY <1>2, <1>3, <1>8, <2>2 DEF Undisturbed, ClosingAt
  <2>4. \A x \in Client : Undisturbed(x)' => OutboundOf(x) \subseteq Outstanding'
    BY <1>2, <2>3 DEF OutboundOf
  <2> QED
    BY <1>1, <1>2, <1>4, <1>5, <2>2, <2>4, KeepReports
<1> QED
  BY <1>6, <1>7, <1>8

LEMMA NextReports ==
  ASSUME BaseInv, BaseInv', ClientInv, Reports, Handled = Task, [Next]_vars
  PROVE  Reports'
<1>1. ASSUME Outstanding' = Outstanding, UNCHANGED <<taskVars, handlerVars, bufferVars>>,
             \A x \in Client : Undisturbed(x)' => Undisturbed(x)
      PROVE  Reports'
  <2>1. \A x \in Client : OutboundOf(x) \subseteq Outstanding'
    BY <1>1 DEF OutboundOf
  <2> QED
    BY <1>1, <2>1, KeepPool, KeepReports DEF taskVars, handlerVars
<1>2. RingInv
  BY DEF BaseInv
<1>3. ASSUME UNCHANGED closeVars PROVE \A x \in Client : Undisturbed(x)' => Undisturbed(x)
  BY <1>3 DEF closeVars, Undisturbed
<1>4. ASSUME NEW c \in Client, OpenDatagram(c) \/ OpenStream(c) PROVE Reports'
  <2>1. UNCHANGED <<taskVars, handlerVars, bufferVars, closeVars, cq>>
    BY <1>4 DEF OpenDatagram, OpenStream, Open
  <2>2. PICK connect : connect = [client |-> c, fd |-> fdOf'[c], buf |-> 0, event |-> "connect", task |-> None]
    OBVIOUS
  <2>3. inflight' = inflight \/ inflight' = inflight \cup {connect}
    BY <1>4, <2>2 DEF OpenDatagram, OpenStream, Submit
  <2>4. \A op \in Outstanding' : op.event \in Outbound => op \in Outstanding
    BY <2>1, <2>2, <2>3 DEF Outstanding, Outbound
  <2>5. \A x \in Client : OutboundOf(x) \subseteq Outstanding'
    BY <2>1, <2>3 DEF OutboundOf, Outstanding
  <2> QED
    BY <1>3, <2>1, <2>4, <2>5, KeepPool, KeepReports DEF taskVars, handlerVars
<1>5. ASSUME NEW c \in Client, NEW t \in Task, NEW kind \in Kinds(c), NEW n \in 1..MaxWant,
             Request(t, c, kind, n)
      PROVE  Reports'
  <2>1. PICK r : r = [client |-> c, kind |-> kind, count |-> n]
    OBVIOUS
  <2>2. /\ \A op \in Outstanding : op.task # t
        /\ req' = [req EXCEPT ![t] = r]
        /\ \A u \in Task \ {t} : B!Waiting(u)' <=> B!Waiting(u)
        /\ Issues(t, c, kind, n)
    BY <1>5, <2>1, RequestBase
  <2>3. r \in RequestType /\ Issues(t, r.client, r.kind, r.count)
    BY <2>1, <2>2 DEF RequestType, Kinds
  <2>4. req'[t] = r /\ \A u \in Task \ {t} : req'[u] = req[u]
    BY <2>2 DEF BaseInv
  <2>5. reports' = [reports EXCEPT ![t] = <<>>] /\ UNCHANGED <<active, closePc>>
    BY <1>5 DEF Request, closeVars
  <2>6. refused \subseteq refused'
    BY <1>5 DEF Request, Start
  <2>7. /\ reports'[t] = <<>> /\ \A u \in Task \ {t} : reports'[u] = reports[u]
        /\ reports' \in [Task -> Seq({"done", "error"})]
    <3>1. <<>> \in Seq({"done", "error"})
      OBVIOUS
    <3> QED
      BY <2>5, <3>1 DEF Reports
  <2> QED
    BY <2>2, <2>3, <2>4, <2>5, <2>6, <2>7, IssueReports
<1>6. ASSUME NEW t \in Task, Resume(t) PROVE Reports'
  <2>1. /\ B!Waiting(t) /\ req[t] \in RequestType
        /\ \A op \in Outstanding : op.task # t
        /\ \A u \in Task \ {t} : B!Waiting(u)' <=> B!Waiting(u)
        /\ Issues(t, req[t].client, req[t].kind, req[t].count)
    BY <1>6, ResumeBase
  <2>2. PICK r \in RequestType : r = req[t]
    BY <2>1
  <2>3. UNCHANGED <<req, reports, active, closePc>>
    BY <1>6 DEF Resume, closeVars
  <2>4. refused \subseteq refused'
    BY <1>6 DEF Resume, Start
  <2>5. reports'[t] = <<>> /\ reports' \in [Task -> Seq({"done", "error"})]
    BY <2>1, <2>3 DEF Reports
  <2> QED
    BY <2>1, <2>2, <2>3, <2>4, <2>5, IssueReports
<1>7. ASSUME NEW t \in Task, ReleasePayload(t) PROVE Reports'
  <2>1. PICK b \in got[t] : B!Release(t, b)
    BY <1>7 DEF ReleasePayload
  <2>2. \A u \in Task : B!Waiting(u)' <=> B!Waiting(u)
    BY <2>1, PoolFacts, ReleasePool DEF BaseInv
  <2>3. UNCHANGED <<doneHandlers, errorHandlers, reports, req, refused>> /\ UNCHANGED closeVars /\ UNCHANGED ringVars
    BY <1>7 DEF ReleasePayload, handlerVars
  <2>4. Outstanding' = Outstanding
    BY <1>2, <2>3, StillRing DEF ringVars
  <2>5. \A x \in Client : OutboundOf(x) \subseteq Outstanding'
    BY <2>4 DEF OutboundOf
  <2> QED
    BY <1>3, <2>2, <2>3, <2>4, <2>5, KeepReports
<1>8. ASSUME NEW c \in Client, (\E graceful \in BOOLEAN : Close(c, graceful)) \/ ClosePart(c)
      PROVE  Reports'
  <2>1. Outstanding' = Outstanding /\ UNCHANGED <<bufferVars, taskVars, handlerVars>>
    BY <1>2, <1>8, CloseRing
  <2>2. CloseTypes /\ ClosingAt(c)
    BY ClientTypes DEF ClientInv, Closing
  <2>3. \A x \in Client \ {c} : Undisturbed(x)' => Undisturbed(x)
    BY <1>8, <2>2 DEF ClosePart, Close, BeginClose, Drain, GracefulTimeout, ResumeClose, EndClose,
                      ConnectErrorHandler, closeVars, CloseTypes, Undisturbed
  <2>4. Undisturbed(c)' => Undisturbed(c)
    <3>1. CASE \E graceful \in BOOLEAN : Close(c, graceful)
      BY <2>2, <3>1 DEF Close, BeginClose, ClosingAt, Undisturbed
    <3>2. CASE GracefulTimeout(c)
      BY <2>2, <3>2 DEF GracefulTimeout, Undisturbed
    <3>3. CASE ResumeClose(c)
      BY <2>2, <3>3 DEF ResumeClose, Drain, CloseTypes, Undisturbed
    <3>4. CASE EndClose(c)
      BY <2>2, <3>4 DEF EndClose, CloseTypes, Undisturbed
    <3>5. CASE ConnectErrorHandler(c)
      BY <3>5 DEF ConnectErrorHandler, closeVars, Undisturbed
    <3> QED
      BY <1>8, <3>1, <3>2, <3>3, <3>4, <3>5 DEF ClosePart
  <2> QED
    BY <1>1, <2>1, <2>3, <2>4
<1>9. ASSUME NEW op \in inflight, Complete(op) PROVE Reports'
  BY <1>1, <1>2, <1>3, <1>9, CompleteRing DEF Complete
<1>10. ASSUME CheckEventTimeouts PROVE Reports'
  <2>1. \E E : CancelEvents(E, events) /\ UNCHANGED <<inflight, cq, batch>>
    BY <1>10 DEF CheckEventTimeouts, CheckTimeouts
  <2> QED
    BY <1>1, <1>2, <1>3, <1>10, <2>1, CancelRing DEF CheckEventTimeouts
<1>11. ASSUME Peek PROVE Reports'
  BY <1>1, <1>2, <1>3, <1>11, PeekRing DEF Peek
<1>12. ASSUME UNCHANGED vars PROVE Reports'
  BY <1>1, <1>2, <1>3, <1>12, StillRing DEF vars, ringVars
<1> QED
  BY <1>4, <1>5, <1>6, <1>7, <1>8, <1>9, <1>10, <1>11, <1>12, HandleReports DEF Next, ClosePart

-----------------------------------------------------------------------------
(* The invariant, and what follows from it.                                  *)

LEMMA InitReports == Init => Reports
<1> SUFFICES ASSUME Init PROVE Reports
  OBVIOUS
<1>1. Outstanding = {}
  BY InitRing DEF Init
<1>2. /\ doneHandlers \in [Client -> [Buffer -> Task \cup {None}]]
      /\ errorHandlers \in [Client -> [Buffer -> Task \cup {None}]]
      /\ reports \in [Task -> Seq({"done", "error"})]
      /\ \A t \in Task : reports[t] = <<>> /\ req[t] = None
  BY DEF Init
<1>3. WritesReported
  BY <1>2, ClientAssumption DEF WritesReported
<1> QED
  BY <1>1, <1>2, <1>3 DEF Reports

LEMMA NextIInv == IInv /\ [Next]_vars => IInv'
<1> SUFFICES ASSUME IInv, [Next]_vars PROVE IInv'
  OBVIOUS
<1>1. BaseInv /\ BaseInv' /\ \A c \in Client : freed[c] <= freed'[c]
  BY NextBase DEF IInv
<1>2. DestroyedOnce' => DestroyedOnce
  <2>1. freed \in [Client -> Nat] /\ freed' \in [Client -> Nat]
    BY <1>1 DEF BaseInv
  <2> QED
    BY <1>1, <2>1 DEF DestroyedOnce
<1>3. DestroyedOnce' => ClientInv'
  BY <1>1, <1>2, NextClient DEF IInv
<1>4. DestroyedOnce' /\ Handled = Task => Reports'
  BY <1>1, <1>2, NextReports DEF IInv
<1> QED
  BY <1>1, <1>3, <1>4 DEF IInv

LEMMA Invariance == Spec => []IInv
<1>1. Init => IInv
  BY InitBase, InitClient, InitReports DEF IInv
<1> QED
  BY <1>1, NextIInv, PTL DEF Spec

LEMMA IInvExact == IInv /\ DestroyedOnce => PendingExact
BY DEF IInv, ClientInv, Closing, ClosingAt, PendingCounts, PendingExact, CloserCompletedOnce

\* _pending is exact, and _closer is completed once, unless a client was
\* destroyed twice: for every number of clients, requests and descriptors.
THEOREM PendingIsExact == Spec => [](DestroyedOnce => PendingExact)
BY Invariance, IInvExact, PTL

LEMMA IInvReaches == IInv /\ DestroyedOnce => CompletionReachesIssuer
BY Reached DEF IInv, ClientInv, CompletionReachesIssuer

\* However the kernel reuses descriptors and orders completions, each reaches
\* the client that issued its operation.
THEOREM CompletionsReachIssuers == Spec => [](DestroyedOnce => CompletionReachesIssuer)
BY Invariance, IInvReaches, PTL

LEMMA IInvTracks == IInv /\ DestroyedOnce => EventsTrackOperations
<1> SUFFICES ASSUME IInv, DestroyedOnce PROVE EventsTrackOperations
  OBVIOUS
<1>1. BaseInv /\ Sockets /\ Engaged /\ Tracked
  BY DEF IInv, ClientInv
<1>2. DataUnique
  BY <1>1, DataTellsApart
<1> QED
  BY <1>1, <1>2 DEF EventsTrackOperations, Tracked, DataUnique

\* The event table has the operations that can still be cancelled, and only
\* operations that are outstanding.
THEOREM EventsTrack == Spec => [](DestroyedOnce => EventsTrackOperations)
BY Invariance, IInvTracks, PTL

LEMMA IInvReported == IInv /\ DestroyedOnce /\ Handled = Task => WritesReported
BY DEF IInv, Reports

\* When every caller passes both handlers, each completed buffer of a write of
\* a client that is not forced to close is reported once, to its caller.
THEOREM WritesAreReported == Handled = Task => (Spec => [](DestroyedOnce => WritesReported))
<1> SUFFICES ASSUME Handled = Task PROVE Spec => [](DestroyedOnce => WritesReported)
  OBVIOUS
<1>1. IInv => (DestroyedOnce => WritesReported)
  BY IInvReported
<1> QED
  BY <1>1, Invariance, PTL

LEMMA IInvOwn == IInv /\ DestroyedOnce => DescriptorIsOwn
BY DEF IInv, ClientInv, Sockets, DescriptorIsOwn

\* The descriptor of a client is closed by nobody else.
THEOREM DescriptorsAreOwn == Spec => [](DestroyedOnce => DescriptorIsOwn)
BY Invariance, IInvOwn, PTL

-----------------------------------------------------------------------------
(* TCP and datagram clients are destroyed once.                              *)

\* Without the error handler of unixStream only close() destroys, at its end.
FreedOnce == \A c \in Client : freed[c] = IF closePc[c] = "closed" THEN 1 ELSE 0

LEMMA FreedByClose ==
  ASSUME CloseTypes, Closing, FreedOnce, freed \in [Client -> Nat], NEW c \in Client,
         \/ UNCHANGED <<closePc, freed>>
         \/ closePc' = [closePc EXCEPT ![c] = "forced"] /\ freed' = freed /\ closePc[c] = "graceful"
         \/ \E graceful, p, known : BeginClose(c, graceful, p, known)
         \/ Drain(c) /\ closePc[c] # "closed"
         \/ closePc' = [closePc EXCEPT ![c] = "closed"] /\ Destroy(c) /\ closePc[c] # "closed"
  PROVE  FreedOnce'
<1>1. \/ UNCHANGED <<closePc, freed>>
      \/ /\ closePc[c] # "closed" /\ freed' = freed
         /\ \/ closePc' = [closePc EXCEPT ![c] = "graceful"] \/ closePc' = [closePc EXCEPT ![c] = "forced"]
            \/ closePc' = [closePc EXCEPT ![c] = "drain"]
      \/ /\ closePc[c] # "closed" /\ freed' = [freed EXCEPT ![c] = @ + 1]
         /\ closePc' = [closePc EXCEPT ![c] = "closed"]
  BY DEF BeginClose, Drain, Destroy, Closing, ClosingAt
<1> QED
  BY <1>1 DEF FreedOnce, CloseTypes

LEMMA NextFreed ==
  ASSUME BaseInv, ClientInv, FreedOnce, Unix = {}, [Next]_vars
  PROVE  FreedOnce'
<1>1. CloseTypes /\ Closing /\ freed \in [Client -> Nat]
  BY ClientTypes DEF ClientInv, BaseInv
<1>2. ASSUME UNCHANGED <<closePc, freed>> PROVE FreedOnce'
  BY <1>2 DEF FreedOnce
<1>3. ASSUME NEW c \in Client, (\E graceful \in BOOLEAN : Close(c, graceful)) \/ ClosePart(c)
      PROVE  FreedOnce'
  <2>1. CASE \E graceful \in BOOLEAN : Close(c, graceful)
    <3>1. PICK graceful \in BOOLEAN : Close(c, graceful)
      BY <2>1
    <3>2. PICK p, known : p = pending[c] /\ known = events
      OBVIOUS
    <3>3. BeginClose(c, graceful, p, known)
      BY <3>1, <3>2 DEF Close, BeginClose, CancelByFd, CancelEvents
    <3> QED
      BY <1>1, <3>3, FreedByClose
  <2>2. CASE GracefulTimeout(c)
    BY <1>1, <2>2, FreedByClose DEF GracefulTimeout, socketVars
  <2>3. CASE ResumeClose(c)
    BY <1>1, <2>3, FreedByClose DEF ResumeClose
  <2>4. CASE EndClose(c)
    BY <1>1, <2>4, FreedByClose DEF EndClose
  <2>5. ~ConnectErrorHandler(c)
    BY DEF ConnectErrorHandler
  <2> QED
    BY <1>3, <2>1, <2>2, <2>3, <2>4, <2>5 DEF ClosePart
<1>4. ASSUME HandleCqe PROVE FreedOnce'
  <2>1. PICK c, op, res, known :
          c \in Client /\ (NotifyConnect(c, res) \/ NotifyData(c, op, res, known))
    BY <1>4, HandleAt
  <2>2. CASE NotifyConnect(c, res)
    BY <1>2, <2>2 DEF NotifyConnect
  <2>3. CASE NotifyData(c, op, res, known)
    <3>1. UNCHANGED <<closePc, freed>> \/ BeginClose(c, FALSE, pending[c] - 1, known)
      BY <2>3 DEF NotifyData, NotifyActive, NotifyInactive
    <3>2. PICK p : p = pending[c] - 1
      OBVIOUS
    <3>3. UNCHANGED <<closePc, freed>> \/ BeginClose(c, FALSE, p, known)
      BY <3>1, <3>2
    <3> QED
      BY <1>1, <2>1, <3>3, FreedByClose
  <2> QED
    BY <2>1, <2>2, <2>3
<1>5. ASSUME NEW c \in Client, OpenDatagram(c) \/ OpenStream(c) PROVE UNCHANGED <<closePc, freed>>
  BY <1>5 DEF OpenDatagram, OpenStream, Open, closeVars
<1>6. ASSUME NEW t \in Task,
             \/ \E c \in Client : \E kind \in Kinds(c), n \in 1..MaxWant : Request(t, c, kind, n)
             \/ Resume(t) \/ ReleasePayload(t)
      PROVE  UNCHANGED <<closePc, freed>>
  BY <1>6 DEF Request, Resume, ReleasePayload, closeVars, socketVars
<1>7. ASSUME \/ \E op \in inflight : Complete(op)
             \/ CheckEventTimeouts \/ Peek \/ UNCHANGED vars
      PROVE  UNCHANGED <<closePc, freed>>
  BY <1>7 DEF Complete, CheckEventTimeouts, Peek, vars, closeVars, socketVars
<1> QED
  BY <1>2, <1>3, <1>4, <1>5, <1>6, <1>7 DEF Next, ClosePart

\* A client of tcp or udp is destroyed once, whatever happens to it: without
\* unixStream the theorems of this module hold as they stand.
THEOREM DestroyedOnceWithoutUnix == Unix = {} => (Spec => []DestroyedOnce)
<1> SUFFICES ASSUME Unix = {} PROVE Spec => []DestroyedOnce
  OBVIOUS
<1> DEFINE FInv == IInv /\ FreedOnce
<1>1. FreedOnce => DestroyedOnce
  BY DEF FreedOnce, DestroyedOnce
<1>2. Init => FInv
  BY InitBase, InitClient, InitReports DEF IInv, Init, FreedOnce
<1>3. FInv /\ [Next]_vars => FInv'
  BY <1>1, NextIInv, NextFreed DEF IInv
<1> QED
  BY <1>1, <1>2, <1>3, PTL DEF Spec

-----------------------------------------------------------------------------
(* The life of a client is that of a channel.                                *)

\* The steps of ChannelLifecycle for one client, with its pending operations.
LifeStep(c) ==
  \/ Phase(c) = "new" /\ Phase(c)' = "open" /\ pending'[c] \in {0, 1}
  \/ Phase(c) = "open" /\ Phase(c)' = "open" /\ pending'[c] > pending[c]
  \/ /\ pending[c] > 0 /\ pending'[c] = pending[c] - 1
     /\ \/ Phase(c)' = Phase(c)
        \/ Phase(c) = "open" /\ Phase(c)' = "closing"
        \/ Phase(c) = "open" /\ Phase(c)' = "closed" /\ pending'[c] = 0
  \/ Phase(c) = "open" /\ Phase(c)' = "closing" /\ pending'[c] = pending[c]
  \/ /\ Phase(c) \in {"open", "closing"} /\ Phase(c)' = "closed"
     /\ pending[c] = 0 /\ pending'[c] = 0
  \/ Phase(c)' = Phase(c) /\ pending'[c] = pending[c]

\* The steps of one client, its descriptor known and its structure freed once.
LEMMA LifeOf ==
  ASSUME BaseInv, BaseInv', ClientInv, ClientInv', DestroyedOnce', NEW c \in Client, fdOf[c] # None,
         fdOf' = fdOf,
         \/ pending'[c] = pending[c]
         \/ pending'[c] = pending[c] - 1 /\ pending[c] > 0 /\ Live(c)
         \/ pending'[c] > pending[c] /\ Live(c) /\ ~closing[c] /\ closing'[c] = closing[c] /\ freed'[c] = freed[c],
         \/ freed'[c] = freed[c] /\ closing'[c] = closing[c]
         \/ Live(c) /\ ~closing[c] /\ freed'[c] = freed[c] /\ closing'[c]
         \/ freed'[c] = freed[c] + 1 /\ pending'[c] = 0
              /\ (pending'[c] = pending[c] - 1 => ~closing[c])
  PROVE  LifeStep(c)
<1>1. freed[c] \in Nat /\ freed'[c] \in Nat /\ freed'[c] <= 1 /\ pending[c] \in Nat
  BY DEF BaseInv, ClientInv, Types, DestroyedOnce
<1>2. Live(c) => freed[c] = 0
  BY DEF Live
<1> QED
  BY <1>1, <1>2 DEF LifeStep, Phase

\* A client that does not take part in a step.
LEMMA LifeRest ==
  ASSUME NEW c \in Client, fdOf'[c] = fdOf[c], freed'[c] = freed[c], closing'[c] = closing[c],
         pending'[c] = pending[c]
  PROVE  LifeStep(c)
BY DEF LifeStep, Phase

LEMMA NextLife ==
  ASSUME BaseInv, BaseInv', ClientInv, ClientInv', DestroyedOnce', [Next]_vars, NEW x \in Client
  PROVE  LifeStep(x)
<1>1. /\ fdOf \in [Client -> Fd \cup {None}] /\ freed \in [Client -> Nat]
      /\ pending \in [Client -> Nat] /\ CloseTypes
  BY ClientTypes DEF BaseInv, ClientInv, Types
<1>2. ASSUME UNCHANGED <<fdOf, freed, closing, pending>> PROVE LifeStep(x)
  BY <1>2, LifeRest
<1>3. ASSUME NEW c \in Client, OpenDatagram(c) \/ OpenStream(c) PROVE LifeStep(x)
  <2>1. /\ fdOf[c] = None /\ UNCHANGED <<freed, closing>>
        /\ \E f \in Fd : fdOf' = [fdOf EXCEPT ![c] = f]
        /\ pending' = pending \/ pending' = [pending EXCEPT ![c] = @ + 1]
    BY <1>3 DEF OpenDatagram, OpenStream, Open, closeVars
  <2>2. freed[c] = 0 /\ ~closing[c]
    BY <2>1 DEF ClientInv, Sockets
  <2>3. pending[c] = 0
    <3>1. \A op \in Outstanding : op.client # c
      BY <2>1 DEF BaseInv, Operations
    <3> QED
      BY <3>1, NonePending DEF BaseInv, ClientInv
  <2>4. CASE x = c
    <3>1. fdOf'[c] # None /\ pending'[c] \in {0, 1}
      BY <1>1, <2>1, <2>3, ClientAssumption
    <3> QED
      BY <2>1, <2>2, <2>4, <3>1 DEF LifeStep, Phase
  <2>5. CASE x # c
    BY <1>1, <2>1, <2>5, LifeRest
  <2> QED
    BY <2>4, <2>5
<1>4. ASSUME NEW c \in Client, NEW t, NEW kind, NEW n \in Nat \ {0}, Issues(t, c, kind, n), Usable(c),
             UNCHANGED <<closeVars, socketVars>>
      PROVE  LifeStep(x)
  <2>1. UNCHANGED <<fdOf, freed, closing>> /\ fdOf[c] # None
    BY <1>4 DEF closeVars, socketVars, Usable
  <2>2. CASE pending' = pending
    BY <1>2, <2>1, <2>2
  <2>3. CASE ~closing[c] /\ pending' = [pending EXCEPT ![c] = @ + n]
    <3>1. Live(c)
      BY <1>4, <2>3 DEF Usable, Live, ClientInv, Sockets
    <3>2. CASE x = c
      <4>1. pending'[c] = pending[c] + n /\ pending[c] \in Nat
        BY <1>1, <2>3
      <4>2. pending'[c] > pending[c]
        BY <4>1
      <4> QED
        BY <2>1, <2>3, <3>1, <3>2, <4>2 DEF LifeStep, Phase, Live
    <3>3. CASE x # c
      BY <1>1, <2>1, <2>3, <3>3, LifeRest
    <3> QED
      BY <3>2, <3>3
  <2> QED
    BY <1>4, <2>2, <2>3 DEF Issues
<1>5. ASSUME NEW c \in Client, NEW t \in Task, NEW kind \in Kinds(c), NEW n \in 1..MaxWant,
             Request(t, c, kind, n)
      PROVE  LifeStep(x)
  <2>1. Issues(t, c, kind, n) /\ n \in Nat \ {0}
    BY <1>5, RequestBase, PoolAssumption
  <2>2. Usable(c) /\ UNCHANGED <<closeVars, socketVars>>
    BY <1>5 DEF Request
  <2> QED
    BY <1>4, <2>1, <2>2
<1>6. ASSUME NEW t \in Task, Resume(t) PROVE LifeStep(x)
  <2>1. req[t] \in RequestType /\ Issues(t, req[t].client, req[t].kind, req[t].count)
    BY <1>6, ResumeBase
  <2>2. PICK c \in Client : c = req[t].client
    BY <2>1 DEF RequestType
  <2> DEFINE kind == req[t].kind
             n == req[t].count
  <2>3. Issues(t, c, kind, n) /\ n \in Nat \ {0}
    BY <2>1, <2>2, PoolAssumption DEF RequestType
  <2>4. UNCHANGED <<closeVars, socketVars>>
    BY <1>6 DEF Resume
  <2>5. Usable(c)
    BY <2>1, <2>2, ClientAssumption DEF ClientInv, Engaged
  <2> HIDE DEF kind, n
  <2> QED
    BY <1>4, <2>3, <2>4, <2>5
<1>7. ASSUME NEW c \in Client, (\E graceful \in BOOLEAN : Close(c, graceful)) \/ ClosePart(c)
      PROVE  LifeStep(x)
  <2>1. UNCHANGED <<fdOf, pending>> /\ (freed' = freed \/ Destroy(c))
    BY <1>7, CloseRing DEF BaseInv
  <2>2. closing' = closing \/ (Live(c) /\ ~closing[c] /\ closing' = [closing EXCEPT ![c] = TRUE])
    BY <1>7 DEF ClosePart, Close, BeginClose, GracefulTimeout, ResumeClose, EndClose, ConnectErrorHandler, closeVars
  <2>3. fdOf[c] # None
    <3>1. closing[c] \/ connector[c] = "failed" \/ Live(c)
      BY <1>7 DEF ClosePart, Close, GracefulTimeout, ResumeClose, EndClose, ConnectErrorHandler, ClientInv,
                  Closing, ClosingAt
    <3> QED
      BY <3>1 DEF Live, ClientInv, Sockets
  <2>4. freed' = freed \/ (freed' = [freed EXCEPT ![c] = @ + 1] /\ pending[c] = 0)
    <3>1. ASSUME freed' # freed PROVE pending[c] = 0
      <4>1. CASE \E graceful \in BOOLEAN : Close(c, graceful)
        BY <3>1, <4>1 DEF Close, BeginClose
      <4>2. CASE ResumeClose(c) \/ EndClose(c)
        BY <4>2 DEF ResumeClose, EndClose, ClientInv, Closing, ClosingAt
      <4>3. CASE GracefulTimeout(c)
        BY <3>1, <4>3 DEF GracefulTimeout, socketVars
      <4>4. CASE ConnectErrorHandler(c)
        <5>1. connector[c] = "failed" /\ c \in Stream
          BY <4>4 DEF ConnectErrorHandler, Stream
        <5>2. \A op \in Outstanding : op.client # c
          BY <5>1, Reached DEF ClientInv, Usable
        <5> QED
          BY <5>2, NonePending DEF BaseInv, ClientInv
      <4> QED
        BY <1>7, <4>1, <4>2, <4>3, <4>4 DEF ClosePart
    <3> QED
      BY <2>1, <3>1 DEF Destroy
  <2>5. CASE x # c
    BY <1>1, <2>1, <2>2, <2>4, <2>5, LifeRest DEF CloseTypes
  <2>6. CASE x = c
    <3>1. freed'[c] = freed[c] \/ (freed'[c] = freed[c] + 1 /\ pending'[c] = 0)
      BY <1>1, <2>1, <2>4
    <3>2. closing'[c] = closing[c] \/ (Live(c) /\ ~closing[c] /\ closing'[c])
      BY <1>1, <2>2 DEF CloseTypes
    <3>3. pending'[c] = pending[c] /\ pending[c] \in Nat
      BY <1>1, <2>1
    <3>4. pending'[c] # pending[c] - 1
      BY <3>3
    <3> QED
      BY <2>1, <2>3, <2>6, <3>1, <3>2, <3>3, <3>4, LifeOf
  <2> QED
    BY <2>5, <2>6
<1>8. ASSUME HandleCqe PROVE LifeStep(x)
  <2>1. fdOf' = fdOf
    BY <1>8, HandleAt
  <2>2. PICK c, op, res, known :
          /\ c \in Client /\ op \in Outstanding
          /\ op.client = c /\ pending[c] > 0
          /\ NotifyConnect(c, res) \/ NotifyData(c, op, res, known)
    BY <1>8, HandleAt
  <2>3. pending' = [pending EXCEPT ![c] = @ - 1]
    BY <2>2 DEF NotifyConnect, NotifyData
  <2>4. Live(c) /\ fdOf[c] # None
    BY <2>2, Reached DEF ClientInv, Live
  <2>5. \/ UNCHANGED <<freed, closing>>
        \/ ~closing[c] /\ closing' = [closing EXCEPT ![c] = TRUE] /\ freed' = freed
        \/ ~closing[c] /\ closing' = [closing EXCEPT ![c] = TRUE] /\ pending[c] - 1 = 0 /\ freed' = [freed EXCEPT ![c] = @ + 1]
    BY <2>2 DEF NotifyConnect, NotifyData, NotifyActive, NotifyInactive, BeginClose, Drain, Destroy
  <2>6. CASE x # c
    BY <1>1, <2>1, <2>3, <2>5, <2>6, LifeRest DEF CloseTypes
  <2>7. CASE x = c
    <3>1. pending'[c] = pending[c] - 1
      BY <1>1, <2>2, <2>3
    <3>2. \/ freed'[c] = freed[c] /\ closing'[c] = closing[c]
          \/ Live(c) /\ ~closing[c] /\ freed'[c] = freed[c] /\ closing'[c]
          \/ freed'[c] = freed[c] + 1 /\ pending'[c] = 0 /\ ~closing[c]
      BY <1>1, <2>4, <2>5, <3>1 DEF CloseTypes
    <3> QED
      BY <2>1, <2>2, <2>4, <2>7, <3>1, <3>2, LifeOf
  <2> QED
    BY <2>6, <2>7
<1>9. ASSUME \/ \E t \in Task : ReleasePayload(t)
             \/ \E op \in inflight : Complete(op)
             \/ CheckEventTimeouts \/ Peek \/ UNCHANGED vars
      PROVE  UNCHANGED <<fdOf, freed, closing, pending>>
  BY <1>9 DEF ReleasePayload, Complete, CheckEventTimeouts, Peek, vars, closeVars, socketVars
<1> QED
  BY <1>2, <1>3, <1>5, <1>6, <1>7, <1>8, <1>9 DEF Next, ClosePart

\* The mapping of ImplementsLifecycle, state by state.
LEMMA LifeMapped ==
  ASSUME BaseInv, BaseInv', ClientInv, ClientInv', \A c \in Client : LifeStep(c)
  PROVE  Lifecycle!Next
<1>1. /\ pending \in [Client -> Nat] /\ pending' \in [Client -> Nat]
      /\ [c \in Client |-> Cardinality(OutstandingOf(c))] = pending
      /\ [c \in Client |-> Cardinality(OutstandingOf(c)')] = pending'
  BY DEF ClientInv, Types, PendingCounts
<1>2. \A c \in Client :
        /\ Phase(c) \in {"new", "open", "closing", "closed"}
        /\ Phase(c)' \in {"new", "open", "closing", "closed"}
  BY DEF Phase
<1> DEFINE ph == [c \in Client |-> Phase(c)]
<1>3. \A c \in Client : ph[c] = Phase(c) /\ ph'[c] = Phase(c)'
  OBVIOUS
<1>4. ph' \in [Client -> {"new", "open", "closing", "closed"}]
  BY <1>2
<1> QED
  BY <1>1, <1>3, <1>4
     DEF LifeStep, Lifecycle!Next, Lifecycle!Open, Lifecycle!Start, Lifecycle!Finish, Lifecycle!Close,
         Lifecycle!End, Lifecycle!Rest, Lifecycle!Move

\* As long as no client is destroyed twice, clients keep what ChannelLifecycle
\* promises: nothing starts once close() began, and the descriptor is closed
\* once, when every operation was handed back.
THEOREM ClientsImplementLifecycle == Spec /\ []DestroyedOnce => ImplementsLifecycle
<1>1. Init => Lifecycle!Init
  <2>1. ASSUME Init PROVE \A c \in Client : Phase(c) = "new" /\ OutstandingOf(c) = {}
    BY <2>1, InitRing DEF Init, Phase, OutstandingOf
  <2> QED
    BY <2>1, FS_EmptySet DEF Lifecycle!Init
<1>2. ASSUME IInv, IInv', DestroyedOnce, DestroyedOnce', [Next]_vars PROVE Lifecycle!Next
  BY <1>2, NextLife, LifeMapped DEF IInv
<1> QED
  BY <1>1, <1>2, Invariance, PTL DEF Spec, ImplementsLifecycle, Lifecycle!Spec

\* Without unixStream what was proved holds in every state.
THEOREM SafeWithoutUnix ==
  Unix = {} => (Spec => /\ [](PendingExact /\ CompletionReachesIssuer)
                        /\ [](EventsTrackOperations /\ DescriptorIsOwn)
                        /\ ImplementsLifecycle)
<1> SUFFICES ASSUME Unix = {}
             PROVE  Spec => /\ [](PendingExact /\ CompletionReachesIssuer)
                            /\ [](EventsTrackOperations /\ DescriptorIsOwn)
                            /\ ImplementsLifecycle
  OBVIOUS
<1>1. Spec => []DestroyedOnce
  BY DestroyedOnceWithoutUnix
<1> QED
  BY <1>1, PendingIsExact, CompletionsReachIssuers, EventsTrack, DescriptorsAreOwn,
     ClientsImplementLifecycle, PTL

=====
