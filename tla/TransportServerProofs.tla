------------------------ MODULE TransportServerProofs ------------------------
(***************************************************************************)
(* Any number of servers, connections, requests, buffers and descriptors.  *)
(*                                                                         *)
(* BaseInv says whose the operations and the buffers are.  Maps relates *)
(* the two maps of the registry, the descriptors and the kernel's table;   *)
(* Accepted says what a successful accept brings, whose descriptor nobody  *)
(* has been told yet.  Closing follows close() of the connections and of   *)
(* their servers.                                                          *)
(***************************************************************************)
EXTENDS TransportServer, WorkerRingProofs, WellFoundedInduction

BP == INSTANCE TransportBuffersProofs

\* The operations that a server or a connection can have.
AcceptOf(s, i) == [of |-> s, fd |-> fdOf[s], buf |-> 0, event |-> "accept", task |-> None, nth |-> i]
Transfer(t, b) ==
  [of |-> req[t].connection, fd |-> fdOf[req[t].connection], buf |-> b, event |-> req[t].kind,
   task |-> t, nth |-> 0]
Transfers(t) == {Transfer(t, b) : b \in got[t]}

Requests ==
  \A t \in Task :
    /\ req[t] # None => owner[req[t].connection] # None
    /\ want[t] > 0 => req[t] # None
    /\ B!Waiting(t) => want[t] = req[t].count
    /\ req[t] # None /\ req[t].kind = "read" => want[t] <= 1
    /\ t \in payloads => want[t] > 0 /\ ~B!Waiting(t)

\* The kernel has the buffers of requests that were served and submitted.
Submitted(t) == req[t] # None /\ ~B!Waiting(t) /\ t \notin payloads

IsAccept(op) == op.of \in Server /\ fdOf[op.of] # None /\ op = AcceptOf(op.of, op.nth)
IsTransfer(op) ==
  /\ op.task \in Task /\ op = Transfer(op.task, op.buf)
  /\ op.buf \in got[op.task] /\ Submitted(op.task)
Operations == \A op \in Outstanding : IsAccept(op) \/ IsTransfer(op)

BaseInv ==
  /\ BP!PInv /\ RingInv
  /\ refused \subseteq Task /\ payloads \subseteq Task
  /\ req \in [Task -> RequestType \cup {None}]
  /\ fdOf \in [Channel -> Fd \cup {None}]
  /\ owner \in [Connection -> Server \cup {None}]
  /\ Requests /\ Operations

Types ==
  /\ listener \in [Connection -> Server \cup {None}]
  /\ connections \in [Server -> [Fd -> Connection \cup {None}]]
  /\ servers \in [Fd -> Server \cup {None}]
  /\ serverConnections \in [Fd -> Connection \cup {None}]
  /\ descriptor \in [Fd -> Channel \cup {None}]
  /\ pending \in [Connection -> Nat]
  /\ active \in [Connection -> BOOLEAN] /\ closer \in [Connection -> BOOLEAN]
  /\ closing \in [Channel -> BOOLEAN]
  /\ closePc \in [Connection -> {"none", "graceful", "forced", "drain", "closed"}]
  /\ serverPc \in [Server -> {"none", "connections", "closed"}]
  /\ awaited \in [Server -> SUBSET Connection]

\* A socket of a connection is under one descriptor, from the moment at which
\* the kernel makes it.
Made ==
  /\ \A k \in Connection : listener[k] = None => owner[k] = None
  /\ \A k \in Connection : owner[k] = None <=> fdOf[k] = None
  /\ \A f \in Fd : descriptor[f] \in Connection => listener[descriptor[f]] # None
  /\ \A f, g \in Fd : descriptor[f] \in Connection /\ descriptor[f] = descriptor[g] => f = g

\* What the maps say of the connections and the servers in them.
Maps ==
  /\ MapsAgree
  /\ \A f \in Fd : serverConnections[f] # None => fdOf[serverConnections[f]] = f
  /\ \A s \in Server, f \in Fd : connections[s][f] # None => owner[connections[s][f]] = s
  /\ \A f \in Fd : servers[f] # None => fdOf[servers[f]] = f /\ serverPc[servers[f]] # "closed"
  /\ \A s \in Server : fdOf[s] # None /\ serverPc[s] # "closed" =>
       servers[fdOf[s]] = s /\ descriptor[fdOf[s]] = s

\* A successful accept brings a descriptor of its own, of a socket that no
\* server has made a connection of.
Unserved(f) == f \in Fd /\ descriptor[f] \in Connection /\ owner[descriptor[f]] = None
New(i) == cq[i].op.event = "accept" /\ cq[i].res # None
Accepted ==
  /\ \A i \in 1..Len(cq) : New(i) => Unserved(cq[i].res)
  /\ \A i, j \in 1..Len(cq) : New(i) /\ New(j) /\ cq[i].res = cq[j].res => i = j

\* Where close() of a connection is, and what it knows of the operations.
ClosingAt(k) ==
  /\ closing[k] <=> closePc[k] # "none"
  /\ ~closing[k] => active[k]
  /\ closer[k] => closing[k] /\ pending[k] = 0
  /\ closePc[k] \in {"drain", "closed"} => pending[k] = 0
  /\ owner[k] = None => ~closing[k]
\* What close() of its server means for a connection.
ClosingWith(k) ==
  /\ closing[owner[k]] => closing[k]
  /\ serverPc[owner[k]] = "closed" => pending[k] = 0
Closing ==
  /\ \A k \in Connection : ClosingAt(k)
  /\ \A k \in Connection : owner[k] # None => ClosingWith(k)
  /\ \A s \in Server : closing[s] <=> serverPc[s] # "none"
  /\ \A s \in Server : fdOf[s] = None => ~closing[s]

PendingCounts == \A k \in Connection : pending[k] = Cardinality(OutstandingOf(k))

SInv == BaseInv /\ Types /\ Made /\ Maps /\ Accepted /\ Closing /\ PendingCounts /\ AcceptLoopAlive

-----------------------------------------------------------------------------
(* The pool, as the actions of the connections use it.                       *)
LEMMA SameCount == \A S : BP!Cardinality(S) = Cardinality(S) /\ B!Cardinality(S) = Cardinality(S)
  BY DEF BP!Cardinality, B!Cardinality, Cardinality, BP!IsFiniteSet, IsFiniteSet

\* The pool of the proofs is the pool of the specification.
LEMMA SamePool ==
  /\ BP!Buffer = Buffer
  /\ B!Init <=> BP!Init
  /\ \A t : B!Waiting(t) <=> BP!Waiting(t)
  /\ \A t : B!Waiting(t)' <=> BP!Waiting(t)'
  /\ \A t, n : B!Request(t, n) <=> BP!Request(t, n)
  /\ \A t : B!Resume(t) <=> BP!Resume(t)
  /\ \A t, b : B!Release(t, b) <=> BP!Release(t, b)
<1>1. BP!Buffer = Buffer
  BY DEF Buffer, B!Buffer, BP!Buffer
<1>2. B!Init <=> BP!Init
  BY DEF B!Init, BP!Init, B!InitialIds, BP!InitialIds
<1>3. \A t : B!Waiting(t) <=> BP!Waiting(t)
  BY DEF B!Waiting, BP!Waiting, B!Parked, BP!Parked, B!InSeq, BP!InSeq
<1>4. \A t : B!Waiting(t)' <=> BP!Waiting(t)'
  BY DEF B!Waiting, BP!Waiting, B!Parked, BP!Parked, B!InSeq, BP!InSeq
<1>5. \A t : B!Park(t) <=> BP!Park(t)
  BY DEF B!Park, BP!Park
<1>6. \A k : B!Top(k) = BP!Top(k) /\ (B!Pop(k) <=> BP!Pop(k)) /\ B!Available(k) = BP!Available(k)
  BY DEF B!Top, BP!Top, B!Pop, BP!Pop, B!Available, BP!Available
<1>7. \A t, n : B!Request(t, n) <=> BP!Request(t, n)
  BY <1>5, <1>6 DEF B!Request, BP!Request, B!ReturnArray, BP!ReturnArray, B!Counted, BP!Counted,
       B!Unbounded, BP!Unbounded
<1>8. \A t : B!Resume(t) <=> BP!Resume(t)
  BY <1>5, <1>6, SameCount DEF B!Resume, BP!Resume
<1>9. \A t, b : B!Release(t, b) <=> BP!Release(t, b)
  BY <1>3 DEF B!Release, BP!Release, B!ReleaseBuffer, BP!ReleaseBuffer, B!Holding, BP!Holding
<1> QED
  BY <1>1, <1>2, <1>3, <1>4, <1>7, <1>8, <1>9

LEMMA PoolFacts ==
  ASSUME BP!PInv
  PROVE  /\ got \in [Task -> SUBSET Buffer] /\ want \in [Task -> 0..MaxWant]
         /\ \A t \in Task : IsFiniteSet(got[t]) /\ (want[t] = 0 => got[t] = {})
         /\ \A t, u \in Task : t # u => got[t] \cap got[u] = {}
         /\ \A t \in Task : B!Waiting(t) => want[t] > 0
         /\ \A t \in Task : ~B!Waiting(t) => Cardinality(got[t]) = want[t]
<1>1. \A S : BP!IsFiniteSet(S) <=> IsFiniteSet(S)
  BY DEF BP!IsFiniteSet, IsFiniteSet
<1> QED
  BY <1>1, BP!PoolState, SamePool, SameCount, PoolAssumption

LEMMA PoolTypesNext ==
  ASSUME BP!PInv'
  PROVE  got' \in [Task -> SUBSET Buffer] /\ \A t \in Task : IsFiniteSet(got'[t])
<1>1. got' \in [Task -> SUBSET BP!Buffer]
  BY DEF BP!PInv, BP!RInv, BP!IInv, BP!TypeOK
<1>2. \A S : BP!IsFiniteSet(S) <=> IsFiniteSet(S)
  BY DEF BP!IsFiniteSet, IsFiniteSet
<1>3. \A t \in Task : IsFiniteSet(got'[t])
  BY <1>1, <1>2, BP!BufferFinite, PoolAssumption
<1> QED
  BY <1>1, <1>3, SamePool

\* What the state of the pool says of the buffers, also after a step.
Apart == \A t, u \in Task : t # u => got[t] \cap got[u] = {}
HoldingAll == \A t \in Task : ~B!Waiting(t) => Cardinality(got[t]) = want[t]

LEMMA PoolHolds == BP!PInv => Apart /\ HoldingAll
BY PoolFacts DEF Apart, HoldingAll

LEMMA PoolHoldsNext == BP!PInv' => Apart' /\ HoldingAll'
BY PoolHolds, PTL

LEMMA RequestPool ==
  ASSUME BP!PInv, NEW t \in Task, NEW n \in 1..MaxWant, B!Request(t, n)
  PROVE  /\ BP!PInv' /\ B!Next
         /\ want[t] = 0 /\ got[t] = {} /\ ~B!Waiting(t)
         /\ want' = [want EXCEPT ![t] = n]
         /\ \A u \in Task \ {t} : got'[u] = got[u] /\ (B!Waiting(u)' <=> B!Waiting(u))
         /\ ~B!Waiting(t)' => n = 1 /\ Cardinality(got'[t]) = n
<1>1. BP!Request(t, n) /\ B!Next
  BY SamePool DEF B!Next
<1> QED
  BY <1>1, BP!PoolRequest, SamePool, SameCount, PoolAssumption

LEMMA ResumePool ==
  ASSUME BP!PInv, NEW t \in Task, B!Resume(t)
  PROVE  /\ BP!PInv' /\ B!Next
         /\ B!Waiting(t) /\ want' = want
         /\ \A u \in Task \ {t} : got'[u] = got[u] /\ (B!Waiting(u)' <=> B!Waiting(u))
         /\ B!Waiting(t)' <=> Cardinality(got'[t]) # want[t]
<1>1. BP!Resume(t) /\ B!Next
  BY SamePool DEF B!Next
<1> QED
  BY <1>1, BP!PoolResume, SamePool, SameCount, PoolAssumption

LEMMA ReleasePool ==
  ASSUME BP!PInv, NEW t \in Task, NEW b \in Buffer, B!Release(t, b)
  PROVE  /\ BP!PInv' /\ B!Next
         /\ b \in got[t] /\ ~B!Waiting(t) /\ want[t] > 0
         /\ want' = [want EXCEPT ![t] = @ - 1]
         /\ got' = [got EXCEPT ![t] = @ \ {b}]
         /\ \A u \in Task : B!Waiting(u)' <=> B!Waiting(u)
<1>1. BP!Release(t, b) /\ B!Next
  BY SamePool DEF B!Next, Buffer
<1> QED
  BY <1>1, BP!PoolRelease, SamePool, PoolAssumption

\* An action that leaves the pool alone.
LEMMA KeepPool ==
  ASSUME UNCHANGED bufferVars
  PROVE  (BP!PInv => BP!PInv') /\ \A t : B!Waiting(t)' <=> B!Waiting(t)
<1>1. BP!vars' = BP!vars
  BY DEF bufferVars, BP!vars
<1>2. BP!PInv => BP!PInv'
  BY <1>1, BP!NextPInv, PoolAssumption
<1> QED
  BY <1>2 DEF bufferVars, B!Waiting, B!Parked, B!InSeq

-----------------------------------------------------------------------------
(* Lowest numbers.                                                           *)

LEMMA LowestIn ==
  ASSUME NEW S, S \subseteq Nat, S # {}
  PROVE  Lowest(S) \in S
<1> DEFINE R == {p \in Nat \X Nat : p[1] < p[2]}
<1>1. IsWellFoundedOn(R, Nat)
  BY NatLessThanWellFounded, Zenon DEF OpToRel
<1>2. \A x, y \in Nat : <<y, x>> \in R <=> y < x
  OBVIOUS
<1> HIDE DEF R
<1>3. PICK x \in S : \A y \in S : ~(<<y, x>> \in R)
  BY <1>1, WFMin
<1>4. \A y \in S : x <= y
  <2>1. \A y \in S : ~(y < x) /\ x \in Nat /\ y \in Nat
    BY <1>2, <1>3
  <2> QED
    BY <2>1
<1> QED
  BY <1>4 DEF Lowest

\* An accept has a number that no other of its server has.
Nth(s, others) ==
  CHOOSE i \in 0..Cardinality(others) : \A op \in others : op.of = s => op.nth # i

LEMMA NthNew ==
  ASSUME NEW s, NEW others, IsFiniteSet(others)
  PROVE  \A op \in others : op.of = s => op.nth # Nth(s, others)
<1> DEFINE n == Cardinality(others)
           used == {op.nth : op \in others}
           f == [op \in others |-> op.nth]
<1>1. n \in Nat
  BY FS_CardinalityType
<1>2. IsFiniteSet(used) /\ Cardinality(used) <= n
  <2>1. f \in Surjection(others, used)
    BY DEF Surjection
  <2> QED
    BY <2>1, FS_Surjection
<1>3. IsFiniteSet(0..n) /\ Cardinality(0..n) = n + 1
  BY <1>1, FS_Interval
<1>4. \E i \in 0..n : i \notin used
  <2>1. SUFFICES ASSUME 0..n \subseteq used PROVE FALSE
    BY Zenon
  <2>2. Cardinality(0..n) <= Cardinality(used)
    BY <1>2, <2>1, FS_Subset
  <2>3. Cardinality(used) \in Nat
    BY <1>2, FS_CardinalityType
  <2> HIDE DEF n, used
  <2> QED
    BY <1>1, <1>2, <1>3, <2>2, <2>3
<1>5. \E i \in 0..n : \A op \in others : op.of = s => op.nth # i
  BY <1>4
<1> QED
  BY <1>5 DEF Nth

-----------------------------------------------------------------------------
(* Whose the operations and the buffers are.                                 *)

LEMMA InitBase == Init => BaseInv /\ Outstanding = {} /\ cq = <<>>
<1> SUFFICES ASSUME Init PROVE BaseInv /\ Outstanding = {} /\ cq = <<>>
  OBVIOUS
<1>1. BP!PInv
  BY BP!InitPInv, SamePool, PoolAssumption DEF Init
<1>2. RingInv /\ Outstanding = {} /\ cq = <<>>
  BY InitRing DEF Init, RingInit
<1>3. \A t \in Task : want[t] = 0 /\ req[t] = None
  BY DEF Init, B!Init
<1>4. \A t \in Task : ~B!Waiting(t)
  BY <1>1, <1>3, PoolFacts
<1>5. Requests
  BY <1>3, <1>4 DEF Init, Requests
<1> QED
  BY <1>1, <1>2, <1>5 DEF Init, BaseInv, Operations

\* One operation for each of the buffers S.
Each(S, k, f, kind, t) ==
  {[of |-> k, fd |-> f, buf |-> b, event |-> kind, task |-> t, nth |-> 0] : b \in S}

LEMMA OneEach ==
  ASSUME NEW S, IsFiniteSet(S), NEW k, NEW f, NEW kind, NEW t
  PROVE  IsFiniteSet(Each(S, k, f, kind, t)) /\ Cardinality(Each(S, k, f, kind, t)) = Cardinality(S)
<1> DEFINE op(b) == [of |-> k, fd |-> f, buf |-> b, event |-> kind, task |-> t, nth |-> 0]
           ops == Each(S, k, f, kind, t)
           g == [b \in S |-> op(b)]
<1>1. g \in Surjection(S, ops)
  BY DEF Surjection, Each
<1>2. \A a, b \in S : op(a) = op(b) => a = b
  <2>1. \A b \in S : op(b).buf = b
    OBVIOUS
  <2> QED
    BY <2>1
<1>3. g \in Injection(S, ops)
  BY <1>1, <1>2 DEF Injection, Surjection, IsInjective
<1> QED
  BY <1>1, <1>3, FS_Surjection

\* The task and the channel of an operation are of one kind.
LEMMA Kinds ==
  ASSUME BaseInv, NEW op \in Outstanding
  PROVE  /\ IsAccept(op) => /\ op.event = "accept" /\ op.task = None /\ op.fd = fdOf[op.of]
                            /\ op.of \in Server /\ op.fd \in Fd /\ op.task \notin Task
         /\ IsTransfer(op) => /\ op.event # "accept" /\ op.event \in {"read", "write"}
                              /\ op.of \in Connection /\ op.fd = fdOf[op.of] /\ op.task \in Task
                              /\ req[op.task] \in RequestType /\ op.of = req[op.task].connection
                              /\ op.event = req[op.task].kind /\ owner[op.of] # None
                              /\ op.of \notin Server
         /\ IsAccept(op) <=> ~IsTransfer(op)
         /\ op.event = "accept" <=> IsAccept(op)
         /\ op.of \in Server <=> IsAccept(op)
<1>1. ASSUME IsAccept(op)
      PROVE  /\ op.event = "accept" /\ op.task = None /\ op.fd = fdOf[op.of] /\ op.of \in Server
             /\ op.fd \in Fd /\ op.task \notin Task
  <2>1. op.event = "accept" /\ op.task = None /\ op.fd = fdOf[op.of] /\ op.of \in Server
    BY <1>1 DEF IsAccept, AcceptOf
  <2>2. op.fd \in Fd
    BY <1>1, <2>1 DEF IsAccept, BaseInv, Channel
  <2> QED
    BY <2>1, <2>2, ServerAssumption
<1>2. ASSUME IsTransfer(op)
      PROVE  /\ op.event # "accept" /\ op.event \in {"read", "write"}
             /\ op.of \in Connection /\ op.fd = fdOf[op.of] /\ op.task \in Task
             /\ req[op.task] \in RequestType /\ op.of = req[op.task].connection
             /\ op.event = req[op.task].kind /\ owner[op.of] # None
  <2>1. op.task \in Task /\ req[op.task] \in RequestType
    BY <1>2 DEF IsTransfer, Submitted, BaseInv
  <2>2. op.of = req[op.task].connection /\ op.event = req[op.task].kind /\ op.fd = fdOf[op.of]
    BY <1>2 DEF IsTransfer, Transfer
  <2> QED
    BY <1>2, <2>1, <2>2 DEF RequestType, BaseInv, Requests, IsTransfer, Submitted
<1>3. IsAccept(op) \/ IsTransfer(op)
  BY DEF BaseInv, Operations
<1> QED
  BY <1>1, <1>2, <1>3, ServerAssumption

\* The submission of a request that has no operation yet.
LEMMA StartRing ==
  ASSUME RingInv, NEW t, Start(t, req'[t]), UNCHANGED <<fdOf, cancelled, cq, batch>>,
         IsFiniteSet(got'[t]), \A op \in Outstanding : op.task # t
  PROVE  LET k == req'[t].connection IN
         /\ RingInv'
         /\ IF closing[k] \/ closing[owner[k]]
              THEN Outstanding' = Outstanding /\ pending' = pending
              ELSE /\ Outstanding' = Outstanding \cup Transfers(t)'
                   /\ pending' = [pending EXCEPT ![k] = @ + req'[t].count]
<1> DEFINE k == req'[t].connection
           ops == Each(got'[t], k, fdOf[k], req'[t].kind, t)
<1>1. CASE closing[k] \/ closing[owner[k]]
  <2>1. UNCHANGED <<inflight, events, pending>>
    BY <1>1 DEF Start
  <2>2. RingInv' /\ Outstanding' = Outstanding
    BY <2>1, KeepRing DEF RingInv
  <2> QED
    BY <1>1, <2>1, <2>2
<1>2. CASE ~(closing[k] \/ closing[owner[k]])
  <2>1. Submit(ops, events) /\ pending' = [pending EXCEPT ![k] = @ + req'[t].count]
    BY <1>2 DEF Start, Each, Count
  <2>2. IsFiniteSet(ops)
    BY OneEach
  <2>3. ops \cap Outstanding = {}
    BY DEF Each
  <2>4. Transfers(t)' = ops
    BY DEF Transfers, Transfer, Each
  <2> HIDE DEF ops
  <2> QED
    BY <1>2, <2>1, <2>2, <2>3, <2>4, SubmitRing
<1> QED
  BY <1>1, <1>2

\* A task that asks for buffers, or waits for them, has no operation.
LEMMA NoneOutstanding ==
  ASSUME BaseInv, NEW t \in Task, B!Waiting(t) \/ want[t] = 0
  PROVE  (\A op \in Outstanding : op.task # t) /\ t \notin payloads
<1>1. t \notin payloads
  BY DEF BaseInv, Requests
<1>2. ASSUME NEW op \in Outstanding, op.task = t PROVE FALSE
  <2>1. IsTransfer(op)
    BY <1>2, Kinds
  <2>2. op.buf \in got[t] /\ ~B!Waiting(t)
    BY <1>2, <2>1 DEF IsTransfer, Submitted
  <2> QED
    BY <2>2, PoolFacts DEF BaseInv
<1> QED
  BY <1>1, <1>2

\* A request either waits or is refused, or has its operations from now on.
Issued(t) ==
  LET k == req'[t].connection IN
  \/ Outstanding' = Outstanding /\ pending' = pending
  \/ /\ ~B!Waiting(t)' /\ ~closing[k] /\ ~closing[owner[k]]
     /\ Outstanding' = Outstanding \cup Transfers(t)'
     /\ pending' = [pending EXCEPT ![k] = @ + req'[t].count]

\* The operations of a task that asks or resumes are those of its request.
LEMMA IssueBase ==
  ASSUME BaseInv, NEW t \in Task, BP!PInv', RingInv', Issued(t),
         UNCHANGED <<fdOf, owner, payloads>>, refused' \subseteq Task,
         req' \in [Task -> RequestType \cup {None}], req'[t] # None, owner[req'[t].connection] # None,
         B!Waiting(t) \/ want[t] = 0,
         \A u \in Task \ {t} : /\ req'[u] = req[u] /\ got'[u] = got[u] /\ want'[u] = want[u]
                               /\ B!Waiting(u)' <=> B!Waiting(u),
         want'[t] = req'[t].count, req'[t].kind = "read" => want'[t] = 1
  PROVE  BaseInv'
<1>1. (\A op \in Outstanding : op.task # t) /\ t \notin payloads
  BY NoneOutstanding
<1>2. Requests'
  BY <1>1 DEF BaseInv, Requests
<1>3. ASSUME NEW op \in Outstanding
      PROVE  IsAccept(op)' \/ IsTransfer(op)'
  <2>1. CASE IsAccept(op)
    BY <2>1 DEF IsAccept, AcceptOf
  <2>2. CASE IsTransfer(op)
    <3> DEFINE u == op.task
    <3>1. u \in Task \ {t}
      BY <1>1, <2>2 DEF IsTransfer
    <3> HIDE DEF u
    <3>2. Transfer(u, op.buf)' = Transfer(u, op.buf) /\ Submitted(u)' = Submitted(u) /\ got'[u] = got[u]
      BY <3>1 DEF Transfer, Submitted
    <3> QED
      BY <2>2, <3>1, <3>2 DEF u, IsTransfer
  <2> QED
    BY <2>1, <2>2 DEF BaseInv, Operations
<1>4. ASSUME NEW op \in Transfers(t)', ~B!Waiting(t)'
      PROVE  IsTransfer(op)'
  <2>1. PICK b \in got'[t] : op = Transfer(t, b)'
    BY DEF Transfers
  <2>2. op.task = t /\ op.buf = b
    BY <2>1 DEF Transfer
  <2>3. Submitted(t)'
    BY <1>1, <1>4 DEF Submitted
  <2> QED
    BY <2>1, <2>2, <2>3 DEF IsTransfer
<1>5. Operations'
  BY <1>3, <1>4 DEF Operations, Issued
<1> QED
  BY <1>2, <1>5 DEF BaseInv

\* Request and Resume of a task, with the facts that the other parts need.
LEMMA RequestBase ==
  ASSUME BaseInv, NEW t \in Task, NEW k \in Connection, NEW kind \in {"read", "write"},
         NEW n \in 1..MaxWant, Request(t, k, kind, n)
  PROVE  /\ BaseInv' /\ B!Next /\ Issued(t) /\ want[t] = 0
         /\ want'[t] = req'[t].count /\ req'[t] \in RequestType /\ owner[req'[t].connection] # None
<1> DEFINE r == [connection |-> k, kind |-> kind, count |-> n]
<1>1. /\ owner[k] # None /\ (kind = "read" => n = 1) /\ B!Request(t, n)
      /\ req' = [req EXCEPT ![t] = r]
      /\ UNCHANGED <<payloads, registryVars, channelVars, closeVars, cancelled, cq, batch>>
      /\ IF ~B!Waiting(t)' THEN Start(t, req'[t])
         ELSE UNCHANGED <<refused, inflight, events, pending>>
  BY DEF Request
<1>2. /\ req'[t] = r /\ r \in RequestType
      /\ r.connection = k /\ r.kind = kind /\ r.count = n
  BY <1>1 DEF RequestType, BaseInv
<1> HIDE DEF r
<1>3. BP!PInv /\ RingInv
  BY DEF BaseInv
<1>4. /\ BP!PInv' /\ B!Next
      /\ want[t] = 0 /\ want' = [want EXCEPT ![t] = n]
      /\ \A u \in Task \ {t} : got'[u] = got[u] /\ (B!Waiting(u)' <=> B!Waiting(u))
      /\ ~B!Waiting(t)' => n = 1 /\ Cardinality(got'[t]) = n
  BY <1>1, <1>3, RequestPool
<1>5. \A op \in Outstanding : op.task # t
  BY <1>4, NoneOutstanding
<1>6. want'[t] = n /\ (Served(t) <=> Cardinality(got'[t]) = n)
  BY <1>3, <1>4, PoolFacts DEF Served
<1>7. UNCHANGED <<fdOf, owner>>
  BY <1>1 DEF channelVars
<1>8. /\ req' \in [Task -> RequestType \cup {None}] /\ req'[t] # None
      /\ \A u \in Task \ {t} : req'[u] = req[u] /\ want'[u] = want[u]
      /\ want'[t] = req'[t].count /\ (req'[t].kind = "read" => want'[t] = 1)
      /\ owner[req'[t].connection] # None
  BY <1>1, <1>2, <1>3, <1>4, <1>6, PoolFacts, ServerAssumption DEF BaseInv
<1>9. RingInv' /\ Issued(t) /\ refused' \subseteq Task
  <2>1. CASE ~B!Waiting(t)'
    <3>1. Start(t, req'[t]) /\ IsFiniteSet(got'[t]) /\ ~B!Waiting(t)'
      BY <1>1, <1>4, <1>6, <2>1, PoolTypesNext
    <3>2. refused' \subseteq Task
      BY <3>1 DEF Start, BaseInv
    <3> QED
      BY <1>1, <1>3, <1>5, <1>7, <3>1, <3>2, StartRing DEF Issued
  <2>2. CASE B!Waiting(t)'
    <3>1. UNCHANGED <<refused, inflight, events, pending, cancelled, cq, batch>>
      BY <1>1, <2>2
    <3>2. RingInv' /\ Outstanding' = Outstanding
      BY <1>3, <3>1, KeepRing DEF RingInv
    <3> QED
      BY <3>1, <3>2 DEF Issued, BaseInv
  <2> QED
    BY <2>1, <2>2
<1>10. BaseInv'
  BY <1>1, <1>4, <1>7, <1>8, <1>9, IssueBase
<1> QED
  BY <1>2, <1>4, <1>8, <1>9, <1>10

LEMMA ResumeBase ==
  ASSUME BaseInv, NEW t \in Task, Resume(t)
  PROVE  /\ BaseInv' /\ B!Next /\ Issued(t) /\ B!Waiting(t)
         /\ want'[t] = req'[t].count /\ req'[t] \in RequestType /\ owner[req'[t].connection] # None
<1>1. /\ B!Resume(t)
      /\ UNCHANGED <<req, payloads, registryVars, channelVars, closeVars, cancelled, cq, batch>>
      /\ IF Served(t) THEN Start(t, req[t])
         ELSE UNCHANGED <<refused, inflight, events, pending>>
  BY DEF Resume
<1>2. BP!PInv /\ RingInv
  BY DEF BaseInv
<1>3. /\ BP!PInv' /\ B!Next
      /\ B!Waiting(t) /\ want' = want
      /\ \A u \in Task \ {t} : got'[u] = got[u] /\ (B!Waiting(u)' <=> B!Waiting(u))
      /\ B!Waiting(t)' <=> Cardinality(got'[t]) # want[t]
  BY <1>1, <1>2, ResumePool
<1>4. want[t] > 0 /\ want \in [Task -> 0..MaxWant]
  BY <1>2, <1>3, PoolFacts
<1>5. /\ req[t] # None /\ req[t] \in RequestType /\ owner[req[t].connection] # None
      /\ want[t] = req[t].count /\ (req[t].kind = "read" => want[t] = 1)
  BY <1>3, <1>4, PoolAssumption DEF BaseInv, Requests
<1>6. \A op \in Outstanding : op.task # t
  BY <1>3, NoneOutstanding
<1>7. UNCHANGED <<fdOf, owner, req>>
  BY <1>1 DEF channelVars
<1>8. RingInv' /\ Issued(t) /\ refused' \subseteq Task
  <2>1. CASE Served(t)
    <3>1. Start(t, req'[t]) /\ IsFiniteSet(got'[t]) /\ ~B!Waiting(t)'
      BY <1>1, <1>3, <2>1, PoolTypesNext DEF Served
    <3>2. refused' \subseteq Task
      BY <3>1 DEF Start, BaseInv
    <3> QED
      BY <1>1, <1>2, <1>6, <1>7, <3>1, <3>2, StartRing DEF Issued
  <2>2. CASE ~Served(t)
    <3>1. UNCHANGED <<refused, inflight, events, pending, cancelled, cq, batch>>
      BY <1>1, <2>2
    <3>2. RingInv' /\ Outstanding' = Outstanding
      BY <1>2, <3>1, KeepRing DEF RingInv
    <3> QED
      BY <3>1, <3>2 DEF Issued, BaseInv
  <2> QED
    BY <2>1, <2>2
<1>9. /\ req' \in [Task -> RequestType \cup {None}] /\ req'[t] # None
      /\ \A u \in Task \ {t} : req'[u] = req[u] /\ want'[u] = want[u]
      /\ want'[t] = req'[t].count /\ (req'[t].kind = "read" => want'[t] = 1)
      /\ owner[req'[t].connection] # None
  BY <1>3, <1>5, <1>7 DEF BaseInv
<1>10. BaseInv'
  BY <1>1, <1>3, <1>7, <1>8, <1>9, IssueBase
<1> QED
  BY <1>3, <1>5, <1>7, <1>8, <1>9, <1>10

\* The channels keep their descriptors, new ones may get theirs.
Extends ==
  /\ fdOf' \in [Channel -> Fd \cup {None}]
  /\ owner' \in [Connection -> Server \cup {None}]
  /\ \A s \in Server : fdOf[s] # None => fdOf'[s] = fdOf[s]
  /\ \A k \in Connection : owner[k] # None => fdOf'[k] = fdOf[k] /\ owner'[k] # None

LEMMA ExtendsOperations ==
  ASSUME BaseInv, Extends
  PROVE  /\ \A op : IsAccept(op) => IsAccept(op)'
         /\ \A t \in Task : req[t] # None => \A b : [of |-> req[t].connection,
                  fd |-> fdOf'[req[t].connection], buf |-> b, event |-> req[t].kind,
                  task |-> t, nth |-> 0] = Transfer(t, b)
<1>1. ASSUME NEW op, IsAccept(op) PROVE IsAccept(op)'
  BY <1>1, ServerAssumption DEF Extends, IsAccept, AcceptOf, BaseInv, Channel
<1>2. ASSUME NEW t \in Task, req[t] # None
      PROVE  fdOf'[req[t].connection] = fdOf[req[t].connection]
  BY <1>2 DEF Extends, BaseInv, Requests, RequestType
<1> QED
  BY <1>1, <1>2 DEF Transfer

\* A step that leaves the pool and the requests alone: operations may end that
\* have no buffer to return, and accepts may begin.
LEMMA KeepBase ==
  ASSUME BaseInv, UNCHANGED <<bufferVars, taskVars>>, Extends, RingInv',
         \A op \in Outstanding' : op \in Outstanding \/ IsAccept(op)'
  PROVE  BaseInv'
<1>1. BP!PInv' /\ \A t : B!Waiting(t)' <=> B!Waiting(t)
  BY KeepPool DEF BaseInv
<1>2. got' = got /\ want' = want /\ req' = req /\ refused' = refused /\ payloads' = payloads
  BY DEF bufferVars, taskVars
<1>3. Requests'
  BY <1>1, <1>2 DEF BaseInv, Requests, Extends, RequestType
<1>4. ASSUME NEW op, IsTransfer(op) PROVE IsTransfer(op)'
  BY <1>1, <1>2, <1>4, ExtendsOperations DEF IsTransfer, Submitted, Transfer
<1>5. Operations'
  BY <1>4, ExtendsOperations DEF BaseInv, Operations
<1> QED
  BY <1>1, <1>2, <1>3, <1>5 DEF BaseInv, Extends

\* A step that returns a buffer of a task, whose operation or payload it was.
LEMMA ReleaseBase ==
  ASSUME BaseInv, NEW t \in Task, NEW b \in Buffer, B!Release(t, b),
         UNCHANGED <<req, refused, fdOf, owner>>, RingInv', Outstanding' \subseteq Outstanding,
         payloads' = payloads \ {t},
         \A op \in Outstanding' : op.task = t => op.buf # b
  PROVE  BaseInv' /\ B!Next
<1>1. /\ BP!PInv' /\ B!Next /\ b \in got[t] /\ ~B!Waiting(t) /\ want[t] > 0
      /\ want' = [want EXCEPT ![t] = @ - 1]
      /\ got' = [got EXCEPT ![t] = @ \ {b}]
      /\ \A u \in Task : B!Waiting(u)' <=> B!Waiting(u)
  BY ReleasePool DEF BaseInv
<1>2. got \in [Task -> SUBSET Buffer] /\ want \in [Task -> 0..MaxWant]
  BY PoolFacts DEF BaseInv
<1>3. Requests'
  <2>1. ASSUME NEW u \in Task
        PROVE  /\ u # t => want'[u] = want[u]
               /\ u = t => ~B!Waiting(u)' /\ want'[u] < want[u]
               /\ want[u] \in Int /\ want'[u] \in Int
    BY <1>1, <1>2, PoolAssumption
  <2> QED
    BY <1>1, <2>1 DEF BaseInv, Requests
<1>4. \A u \in Task : \A x : x \in got[u] /\ ~(u = t /\ x = b) => x \in got'[u]
  BY <1>1, <1>2
<1>5. ASSUME NEW op \in Outstanding' PROVE IsAccept(op)' \/ IsTransfer(op)'
  <2>1. CASE IsAccept(op)
    BY <2>1 DEF IsAccept, AcceptOf
  <2>2. CASE IsTransfer(op)
    BY <1>1, <1>4, <2>2 DEF IsTransfer, Transfer, Submitted
  <2> QED
    BY <2>1, <2>2 DEF BaseInv, Operations
<1>6. Operations'
  BY <1>5 DEF Operations
<1>7. payloads' \subseteq Task
  BY DEF BaseInv
<1> QED
  BY <1>1, <1>3, <1>6, <1>7 DEF BaseInv

\* A read is the only operation of its task.
LEMMA ReadAlone ==
  ASSUME BaseInv, NEW op \in Outstanding, NEW o \in Outstanding, op.task = o.task, op.event = "read"
  PROVE  op = o /\ want[op.task] = 1
<1>1. IsTransfer(op) /\ IsTransfer(o)
  BY Kinds
<1> DEFINE t == op.task
<1>2. /\ t \in Task /\ req[t] # None /\ op = Transfer(t, op.buf) /\ op.buf \in got[t] /\ ~B!Waiting(t)
      /\ o = Transfer(t, o.buf) /\ o.buf \in got[t] /\ req[t].kind = "read"
  BY <1>1, Kinds DEF IsTransfer, Submitted
<1> HIDE DEF t
<1>3. want[t] <= 1 /\ Cardinality(got[t]) = want[t] /\ IsFiniteSet(got[t]) /\ want[t] \in 0..MaxWant
  BY <1>2, PoolFacts DEF BaseInv, Requests
<1>4. want[t] # 0
  BY <1>2, PoolFacts DEF BaseInv
<1>5. want[t] = 1
  BY <1>3, <1>4, PoolAssumption
<1>6. \E x : got[t] = {x}
  BY <1>3, <1>5, FS_Singleton
<1> QED
  BY <1>2, <1>5, <1>6 DEF t

\* The buffer of a completed read becomes a payload.
LEMMA PayloadBase ==
  ASSUME BaseInv, NEW op \in Outstanding, op.event = "read",
         UNCHANGED <<bufferVars, req, refused, fdOf, owner>>, payloads' = payloads \cup {op.task},
         RingInv', Outstanding' = Outstanding \ {op}
  PROVE  BaseInv'
<1> DEFINE t == op.task
<1>1. BP!PInv' /\ \A u : B!Waiting(u)' <=> B!Waiting(u)
  BY KeepPool DEF BaseInv
<1>2. got' = got /\ want' = want
  BY DEF bufferVars
<1>3. IsTransfer(op) /\ t \in Task /\ ~B!Waiting(t) /\ want[t] = 1
  BY Kinds, ReadAlone DEF IsTransfer, Submitted
<1>4. \A o \in Outstanding' : o.task # t
  BY ReadAlone
<1>5. Requests'
  BY <1>1, <1>2, <1>3 DEF BaseInv, Requests
<1>6. ASSUME NEW o \in Outstanding' PROVE IsAccept(o)' \/ IsTransfer(o)'
  <2>1. CASE IsAccept(o)
    BY <2>1 DEF IsAccept, AcceptOf
  <2>2. CASE IsTransfer(o)
    BY <1>1, <1>2, <1>4, <2>2 DEF IsTransfer, Transfer, Submitted
  <2> QED
    BY <2>1, <2>2 DEF BaseInv, Operations
<1>7. Operations'
  BY <1>6 DEF Operations
<1>8. payloads' \subseteq Task
  BY <1>3 DEF BaseInv
<1> QED
  BY <1>1, <1>5, <1>7, <1>8 DEF BaseInv

-----------------------------------------------------------------------------
(* The maps, the descriptors and the completed accepts.                      *)

\* The connections K leave the maps, their descriptors are closed.
LEMMA DestroyEntries ==
  ASSUME BaseInv, Types, Made, Maps, NEW K, K \subseteq Connection, \A k \in K : Live(k), Destroy(K)
  PROVE  /\ serverConnections' = [f \in Fd |-> IF serverConnections[f] \in K THEN None
                                               ELSE serverConnections[f]]
         /\ descriptor' = [f \in Fd |-> IF descriptor[f] \in K THEN None ELSE descriptor[f]]
         /\ connections' = [s \in Server |-> [f \in Fd |->
                              IF connections[s][f] \in K THEN None ELSE connections[s][f]]]
<1> DEFINE closed == {fdOf[k] : k \in K}
<1>1. \A k \in K : /\ k \in Connection /\ fdOf[k] \in Fd
                   /\ descriptor[fdOf[k]] = k /\ serverConnections[fdOf[k]] = k
  BY DEF Live, Made, Maps, MapsAgree, BaseInv, Channel
<1>2. \A f \in Fd : f \in closed <=> serverConnections[f] \in K
  <2>1. \A f \in Fd : serverConnections[f] \in K => fdOf[serverConnections[f]] = f
    BY <1>1, ServerAssumption DEF Maps
  <2> QED
    BY <1>1, <2>1
<1>3. \A f \in Fd : f \in closed <=> descriptor[f] \in K
  <2>1. \A f \in Fd : descriptor[f] \in K => fdOf[descriptor[f]] = f
    BY <1>1 DEF Made
  <2> QED
    BY <1>1, <2>1
<1>4. ASSUME NEW s \in Server, NEW f \in Fd
      PROVE  f \in NumbersOf(s, K) <=> connections[s][f] \in K
  <2>1. ASSUME NEW k \in K, owner[k] = s, fdOf[k] = f PROVE connections[s][f] \in K
    BY <2>1 DEF Live, Maps, MapsAgree
  <2>2. ASSUME connections[s][f] \in K PROVE f \in NumbersOf(s, K)
    <3>1. connections[s][f] # None /\ connections[s][f] = serverConnections[f]
      BY <2>2, ServerAssumption DEF Maps, MapsAgree
    <3>2. owner[connections[s][f]] = s /\ fdOf[connections[s][f]] = f
      BY <3>1 DEF Maps
    <3> QED
      BY <2>2, <3>2 DEF NumbersOf
  <2> QED
    BY <2>1, <2>2 DEF NumbersOf
<1>5. connections' = [s \in Server |-> [f \in Fd |->
                        IF f \in NumbersOf(s, K) THEN None ELSE connections[s][f]]]
  BY DEF Destroy
<1>6. connections' = [s \in Server |-> [f \in Fd |->
                        IF connections[s][f] \in K THEN None ELSE connections[s][f]]]
  BY <1>4, <1>5
<1> QED
  BY <1>2, <1>3, <1>6 DEF Destroy

LEMMA DestroyMaps ==
  ASSUME BaseInv, Types, Made, Maps, NEW K, K \subseteq Connection, \A k \in K : Live(k), Destroy(K),
         UNCHANGED <<fdOf, owner, listener, servers>>,
         \A s \in Server : serverPc'[s] = "closed" <=> serverPc[s] = "closed",
         \A k \in Connection : closePc'[k] = "closed" <=> closePc[k] = "closed" \/ k \in K
  PROVE  /\ connections' \in [Server -> [Fd -> Connection \cup {None}]]
         /\ serverConnections' \in [Fd -> Connection \cup {None}]
         /\ descriptor' \in [Fd -> Channel \cup {None}]
         /\ Made' /\ Maps' /\ \A f : Unserved(f) => Unserved(f)'
<1>1. /\ \A f \in Fd : serverConnections'[f] = IF serverConnections[f] \in K THEN None
                                               ELSE serverConnections[f]
      /\ \A f \in Fd : descriptor'[f] = IF descriptor[f] \in K THEN None ELSE descriptor[f]
      /\ \A s \in Server, f \in Fd : connections'[s][f] = IF connections[s][f] \in K THEN None
                                                          ELSE connections[s][f]
  BY DestroyEntries
<1>2. /\ connections' \in [Server -> [Fd -> Connection \cup {None}]]
      /\ serverConnections' \in [Fd -> Connection \cup {None}]
      /\ descriptor' \in [Fd -> Channel \cup {None}]
  BY DestroyEntries DEF Types
<1>3. None \notin K /\ None \notin Connection /\ None \notin Server /\ \A s \in Server : s \notin K
  BY ServerAssumption
<1>4. \A k \in Connection : Live(k)' <=> Live(k) /\ k \notin K
  BY DEF Live
<1>5. Made'
  BY <1>1, <1>3 DEF Made
<1>6. \A k \in Connection : Live(k) => fdOf[k] \in Fd /\ owner[k] \in Server
  BY DEF Live, Made, BaseInv, Channel
<1>7. MapsAgree'
  <2>1. \A k \in Connection : Live(k)' =>
          /\ serverConnections'[fdOf[k]] = k
          /\ connections'[owner[k]][fdOf[k]] = k
          /\ descriptor'[fdOf[k]] = k
    BY <1>1, <1>4, <1>6 DEF Maps, MapsAgree
  <2>2. \A f \in Fd : serverConnections'[f] # None =>
          owner'[serverConnections'[f]] # None /\ closePc'[serverConnections'[f]] # "closed"
    <3>1. ASSUME NEW f \in Fd, serverConnections'[f] # None
          PROVE  /\ serverConnections'[f] = serverConnections[f] /\ serverConnections[f] \in Connection
                 /\ serverConnections[f] \notin K /\ Live(serverConnections[f])
      BY <1>1, <3>1 DEF Maps, MapsAgree, Types
    <3> QED
      BY <1>4, <3>1 DEF Live
  <2>3. \A f \in Fd, s \in Server : connections'[s][f] # None => connections'[s][f] = serverConnections'[f]
    BY <1>1 DEF Maps, MapsAgree
  <2> QED
    BY <2>1, <2>2, <2>3 DEF MapsAgree, Live
<1>8. /\ \A f \in Fd : serverConnections'[f] # None => fdOf'[serverConnections'[f]] = f
      /\ \A s \in Server, f \in Fd : connections'[s][f] # None => owner'[connections'[s][f]] = s
  BY <1>1 DEF Maps
<1>9. \A f \in Fd : servers'[f] # None => fdOf'[servers'[f]] = f /\ serverPc'[servers'[f]] # "closed"
  BY DEF Maps, Types
<1>10. \A s \in Server : fdOf'[s] # None /\ serverPc'[s] # "closed" =>
         servers'[fdOf'[s]] = s /\ descriptor'[fdOf'[s]] = s
  <2>1. ASSUME NEW s \in Server, fdOf[s] # None PROVE fdOf[s] \in Fd
    BY <2>1 DEF BaseInv, Channel
  <2> QED
    BY <1>1, <1>3, <2>1 DEF Maps
<1>11. Maps'
  BY <1>7, <1>8, <1>9, <1>10 DEF Maps
<1>12. ASSUME NEW f, Unserved(f) PROVE Unserved(f)'
  BY <1>1, <1>12 DEF Unserved, Live
<1> QED
  BY <1>2, <1>5, <1>11, <1>12

\* The queue keeps its completions, or loses the first.
LEMMA AcceptedKeep ==
  ASSUME Accepted, cq' = cq, \A f : Unserved(f) => Unserved(f)'
  PROVE  Accepted'
BY DEF Accepted, New

LEMMA AcceptedTail ==
  ASSUME RingInv, Accepted, TakeCqe,
         \A f : Unserved(f) /\ ~(Head(cq).op.event = "accept" /\ Head(cq).res = f) => Unserved(f)'
  PROVE  Accepted'
<1>1. /\ cq # <<>> /\ cq' = Tail(cq) /\ Len(cq) \in Nat /\ Len(cq') = Len(cq) - 1
      /\ Head(cq) = cq[1] /\ 1 \in 1..Len(cq)
      /\ \A i \in 1..Len(cq') : i + 1 \in 1..Len(cq) /\ cq'[i] = cq[i + 1] /\ i + 1 # 1
  BY DEF RingInv, TakeCqe
<1>2. \A i \in 1..Len(cq') : New(i)' <=> New(i + 1)
  BY <1>1 DEF New
<1>3. ASSUME NEW i \in 1..Len(cq'), New(i)' 
      PROVE  /\ cq'[i].res \in Fd /\ descriptor'[cq'[i].res] \in Connection
             /\ owner'[descriptor'[cq'[i].res]] = None
  <2>1. New(i + 1) /\ Unserved(cq[i + 1].res)
    BY <1>1, <1>2, <1>3 DEF Accepted
  <2>2. ~(Head(cq).op.event = "accept" /\ Head(cq).res = cq[i + 1].res)
    BY <1>1, <2>1 DEF Accepted, New
  <2>3. PICK f : f = cq[i + 1].res
    OBVIOUS
  <2>4. Unserved(f)'
    BY <2>1, <2>2, <2>3
  <2> QED
    BY <1>1, <2>3, <2>4 DEF Unserved
<1>4. \A i, j \in 1..Len(cq') : New(i)' /\ New(j)' /\ cq'[i].res = cq'[j].res => i = j
  <2>1. \A i, j \in 1..Len(cq') : New(i)' /\ New(j)' /\ cq'[i].res = cq'[j].res => i + 1 = j + 1
    BY <1>1, <1>2 DEF Accepted
  <2> QED
    BY <1>1, <2>1
<1> QED
  BY <1>3, <1>4 DEF Accepted, Unserved

-----------------------------------------------------------------------------
(* Requests.                                                                 *)

LEMMA OutstandingOfFinite ==
  ASSUME RingInv
  PROVE  \A x : IsFiniteSet(OutstandingOf(x))
BY OutstandingFinite, FS_Subset DEF OutstandingOf

\* A request counts its operations when it submits them.
LEMMA IssueCounts ==
  ASSUME SInv, BaseInv', NEW t \in Task, Issued(t), B!Waiting(t) \/ want[t] = 0,
         want'[t] = req'[t].count, req'[t] \in RequestType
  PROVE  PendingCounts'
<1>1. CASE Outstanding' = Outstanding /\ pending' = pending
  BY <1>1 DEF SInv, PendingCounts, OutstandingOf
<1>3. PICK k : k = req'[t].connection
  OBVIOUS
<1>2. CASE /\ ~B!Waiting(t)' /\ Outstanding' = Outstanding \cup Transfers(t)'
           /\ pending' = [pending EXCEPT ![k] = @ + req'[t].count]
  <2> DEFINE ops == Each(got'[t], k, fdOf'[k], req'[t].kind, t)
  <2>1. Transfers(t)' = ops
    BY <1>3 DEF Transfers, Transfer, Each
  <2>2. IsFiniteSet(got'[t])
    BY PoolTypesNext DEF BaseInv
  <2>3. Cardinality(got'[t]) = req'[t].count
    BY <1>2, PoolHoldsNext DEF BaseInv, HoldingAll
  <2>4. IsFiniteSet(ops) /\ Cardinality(ops) = req'[t].count
    BY <2>2, <2>3, OneEach
  <2>5. ops \cap Outstanding = {}
    BY NoneOutstanding DEF Each, SInv
  <2>6. \A op \in ops : op.of = k
    BY DEF Each
  <2>7. k \in Connection /\ pending \in [Connection -> Nat]
    BY <1>3 DEF RequestType, SInv, Types
  <2> HIDE DEF ops
  <2>8. \A x \in Connection : pending'[x] = IF x = k THEN pending[x] + req'[t].count ELSE pending[x]
    BY <1>2, <2>7
  <2>9. ASSUME NEW x \in Connection, x # k PROVE OutstandingOf(x)' = OutstandingOf(x)
    BY <1>2, <1>3, <2>1, <2>6, <2>9 DEF OutstandingOf
  <2>10. OutstandingOf(k)' = OutstandingOf(k) \cup ops
    BY <1>2, <2>1, <2>6 DEF OutstandingOf
  <2>11. IsFiniteSet(OutstandingOf(k)) /\ OutstandingOf(k) \cap ops = {}
    BY <2>5, OutstandingOfFinite DEF OutstandingOf, SInv, BaseInv
  <2>12. Cardinality(OutstandingOf(k) \cup ops) = Cardinality(OutstandingOf(k)) + Cardinality(ops) - 0
    BY <2>4, <2>11, FS_Union, FS_EmptySet
  <2>13. Cardinality(OutstandingOf(k)) \in Nat /\ Cardinality(ops) \in Nat
    BY <2>4, <2>11, FS_CardinalityType
  <2>14. Cardinality(OutstandingOf(k)') = pending'[k]
    BY <2>4, <2>7, <2>8, <2>10, <2>12, <2>13 DEF SInv, PendingCounts
  <2> QED
    BY <2>8, <2>9, <2>14 DEF SInv, PendingCounts
<1> QED
  BY <1>1, <1>2, <1>3 DEF Issued

LEMMA IssueClosing ==
  ASSUME Closing, Types, owner \in [Connection -> Server \cup {None}],
         NEW t, Issued(t), req'[t] \in RequestType, UNCHANGED <<fdOf, owner, closeVars>>
  PROVE  Closing' /\ pending' \in [Connection -> Nat]
<1>1. CASE pending' = pending
  BY <1>1 DEF Closing, ClosingAt, ClosingWith, closeVars, Types
<1> DEFINE k == req'[t].connection
<1>2. CASE /\ ~closing[k] /\ ~closing[owner[k]]
           /\ pending' = [pending EXCEPT ![k] = @ + req'[t].count]
  <2>1. k \in Connection /\ req'[t].count \in Nat
    BY PoolAssumption DEF RequestType
  <2>2. pending' \in [Connection -> Nat]
    BY <1>2, <2>1 DEF Types
  <2> HIDE DEF k
  <2>3. \A x \in Connection \ {k} : pending'[x] = pending[x]
    BY <1>2, <2>1 DEF Types
  <2>4. \A x \in Connection : ClosingAt(x)'
    BY <1>2, <2>3 DEF Closing, ClosingAt, closeVars
  <2>5. \A x \in Connection : owner'[x] # None => ClosingWith(x)'
    BY <1>2, <2>3 DEF Closing, ClosingWith, closeVars
  <2> QED
    BY <2>2, <2>4, <2>5 DEF Closing, closeVars
<1> QED
  BY <1>1, <1>2 DEF Issued

LEMMA IssueInv ==
  ASSUME SInv, BaseInv', NEW t \in Task, Issued(t), B!Waiting(t) \/ want[t] = 0,
         want'[t] = req'[t].count, req'[t] \in RequestType,
         UNCHANGED <<registryVars, channelVars, closeVars, cq>>
  PROVE  SInv'
<1>1. PendingCounts'
  BY IssueCounts
<1>2. UNCHANGED <<connections, serverConnections, fdOf, listener, owner, servers, descriptor,
                  active, closer, closing, closePc, serverPc, awaited>>
  BY DEF registryVars, channelVars, closeVars
<1>3. Closing' /\ pending' \in [Connection -> Nat]
  BY <1>2, IssueClosing DEF SInv, BaseInv
<1>4. Types' /\ Made' /\ Maps'
  BY <1>2, <1>3 DEF SInv, Types, Made, Maps, MapsAgree, Live
<1>5. Accepted'
  BY <1>2, AcceptedKeep DEF SInv, Unserved
<1>6. Outstanding \subseteq Outstanding'
  BY DEF Issued
<1>7. AcceptLoopAlive'
  BY <1>2, <1>6 DEF SInv, AcceptLoopAlive, OutstandingOf
<1> QED
  BY <1>1, <1>3, <1>4, <1>5, <1>7 DEF SInv

LEMMA RequestInv ==
  ASSUME SInv, NEW t \in Task, NEW k \in Connection, NEW kind \in {"read", "write"},
         NEW n \in 1..MaxWant, Request(t, k, kind, n)
  PROVE  SInv'
<1>1. UNCHANGED <<registryVars, channelVars, closeVars, cq>>
  BY DEF Request
<1> QED
  BY <1>1, RequestBase, IssueInv DEF SInv

LEMMA ResumeInv ==
  ASSUME SInv, NEW t \in Task, Resume(t)
  PROVE  SInv'
<1>1. UNCHANGED <<registryVars, channelVars, closeVars, cq>>
  BY DEF Resume
<1> QED
  BY <1>1, ResumeBase, IssueInv DEF SInv

\* A step of the pool or of the ring that ends no operation.
LEMMA SameInv ==
  ASSUME SInv, BaseInv', Outstanding' = Outstanding, cq' = cq,
         UNCHANGED <<registryVars, channelVars, closeVars, pending>>
  PROVE  SInv'
<1>1. UNCHANGED <<connections, serverConnections, fdOf, listener, owner, servers, descriptor,
                  active, closer, closing, closePc, serverPc, awaited>>
  BY DEF registryVars, channelVars, closeVars
<1>2. Types' /\ Made' /\ Maps'
  BY <1>1 DEF SInv, Types, Made, Maps, MapsAgree, Live
<1>3. Accepted'
  BY <1>1, AcceptedKeep DEF SInv, Unserved
<1>4. Closing'
  BY <1>1 DEF SInv, Closing, ClosingAt, ClosingWith
<1>5. PendingCounts' /\ AcceptLoopAlive'
  BY <1>1 DEF SInv, PendingCounts, AcceptLoopAlive, OutstandingOf
<1> QED
  BY <1>2, <1>3, <1>4, <1>5 DEF SInv

LEMMA ReleasePayloadInv ==
  ASSUME SInv, NEW t \in Task, ReleasePayload(t)
  PROVE  SInv' /\ B!Next
<1>1. /\ t \in payloads /\ payloads' = payloads \ {t}
      /\ UNCHANGED <<req, refused, registryVars, channelVars, closeVars, pending, ringVars>>
  BY DEF ReleasePayload
<1>2. PICK b \in got[t] : B!Release(t, b)
  BY DEF ReleasePayload
<1>3. b \in Buffer
  BY PoolFacts DEF SInv, BaseInv
<1>4. RingInv' /\ Outstanding' = Outstanding /\ cq' = cq
  BY <1>1 DEF SInv, BaseInv, RingInv, Outstanding, ringVars
<1>5. \A op \in Outstanding : op.task # t
  BY <1>1, Kinds DEF SInv, IsTransfer, Submitted
<1>6. BaseInv' /\ B!Next
  BY <1>1, <1>2, <1>3, <1>4, <1>5, ReleaseBase DEF channelVars, SInv
<1> QED
  BY <1>1, <1>4, <1>6, SameInv

LEMMA PeekInv ==
  ASSUME SInv, Peek
  PROVE  SInv'
<1>1. /\ PeekBatch
      /\ UNCHANGED <<bufferVars, taskVars, registryVars, channelVars, closeVars, pending>>
  BY DEF Peek
<1>2. RingInv' /\ Outstanding' = Outstanding /\ cq' = cq
  BY <1>1, PeekRing DEF SInv, BaseInv, PeekBatch
<1>3. Extends
  BY <1>1 DEF Extends, channelVars, SInv, BaseInv
<1> QED
  BY <1>1, <1>2, <1>3, KeepBase, SameInv DEF SInv

LEMMA CheckEventTimeoutsInv ==
  ASSUME SInv, CheckEventTimeouts
  PROVE  SInv'
<1>1. /\ CheckTimeouts
      /\ UNCHANGED <<bufferVars, taskVars, registryVars, channelVars, closeVars, pending>>
  BY DEF CheckEventTimeouts
<1>2. UNCHANGED <<inflight, cq, batch>> /\ cancelled' \subseteq inflight
  BY <1>1 DEF CheckTimeouts, CancelEvents, SInv, BaseInv, RingInv
<1>3. RingInv' /\ Outstanding' = Outstanding /\ cq' = cq
  BY <1>2, KeepRing DEF SInv, BaseInv, RingInv
<1>4. Extends
  BY <1>1 DEF Extends, channelVars, SInv, BaseInv
<1> QED
  BY <1>1, <1>3, <1>4, KeepBase, SameInv DEF SInv

-----------------------------------------------------------------------------
(* The kernel, and new servers.                                              *)

\* A completion joins the queue.
LEMMA AcceptedAppend ==
  ASSUME RingInv, Accepted, NEW op, NEW res, KernelComplete(op, res),
         \A f : Unserved(f) => Unserved(f)',
         op.event = "accept" /\ res # None =>
           Unserved(res)' /\ \A i \in 1..Len(cq) : New(i) => cq[i].res # res
  PROVE  Accepted'
<1>1. PICK n : n = Len(cq) + 1
  OBVIOUS
<1>2. /\ Len(cq) \in Nat /\ Len(cq') = n
      /\ cq'[n].op = op /\ cq'[n].res = res
      /\ \A i \in 1..Len(cq) : cq'[i] = cq[i]
  BY <1>1 DEF RingInv, KernelComplete
<1>3. \A i \in 1..Len(cq') : i = n \/ i \in 1..Len(cq)
  BY <1>1, <1>2
<1>4. \A i \in 1..Len(cq) : (New(i)' <=> New(i)) /\ (New(i) => Unserved(cq[i].res))
  BY <1>2 DEF New, Accepted
<1>5. New(n)' <=> op.event = "accept" /\ res # None
  BY <1>2 DEF New
<1>6. ASSUME NEW i \in 1..Len(cq'), New(i)' 
      PROVE  /\ cq'[i].res \in Fd /\ descriptor'[cq'[i].res] \in Connection
             /\ owner'[descriptor'[cq'[i].res]] = None
  <2>1. PICK f : f = cq'[i].res
    OBVIOUS
  <2>2. Unserved(f)'
    BY <1>2, <1>3, <1>4, <1>5, <1>6, <2>1
  <2> QED
    BY <2>1, <2>2 DEF Unserved
<1>7. ASSUME NEW i \in 1..Len(cq'), NEW j \in 1..Len(cq'), New(i)', New(j)', cq'[i].res = cq'[j].res
      PROVE  i = j
  <2>1. CASE i = n \/ j = n
    BY <1>2, <1>3, <1>4, <1>5, <1>7, <2>1
  <2>2. CASE i # n /\ j # n
    BY <1>2, <1>3, <1>4, <1>7, <2>2 DEF Accepted
  <2> QED
    BY <2>1, <2>2
<1> QED
  BY <1>6, <1>7 DEF Accepted, Unserved

LEMMA CompleteDataInv ==
  ASSUME SInv, NEW op \in inflight, CompleteData(op)
  PROVE  SInv'
<1>1. /\ op.event # "accept"
      /\ UNCHANGED <<bufferVars, taskVars, registryVars, channelVars, closeVars, pending>>
  BY DEF CompleteData
<1>2. PICK res \in Result : KernelComplete(op, res)
  BY DEF CompleteData
<1>3. RingInv' /\ Outstanding' = Outstanding
  BY <1>2, CompleteRing DEF SInv, BaseInv
<1>4. UNCHANGED <<connections, serverConnections, fdOf, listener, owner, servers, descriptor,
                  active, closer, closing, closePc, serverPc, awaited>>
  BY <1>1 DEF registryVars, channelVars, closeVars
<1>5. BaseInv'
  <2>1. Extends
    BY <1>4 DEF Extends, SInv, BaseInv
  <2> QED
    BY <1>1, <1>3, <2>1, KeepBase DEF SInv
<1>6. Types' /\ Made' /\ Maps'
  BY <1>1, <1>4 DEF SInv, Types, Made, Maps, MapsAgree, Live
<1>7. Accepted'
  BY <1>1, <1>2, <1>4, AcceptedAppend DEF SInv, BaseInv, Unserved
<1>8. Closing'
  BY <1>1, <1>4 DEF SInv, Closing, ClosingAt, ClosingWith
<1>9. PendingCounts' /\ AcceptLoopAlive'
  BY <1>1, <1>3, <1>4 DEF SInv, PendingCounts, AcceptLoopAlive, OutstandingOf
<1> QED
  BY <1>5, <1>6, <1>7, <1>8, <1>9 DEF SInv

LEMMA CompleteAcceptInv ==
  ASSUME SInv, NEW op \in inflight, CompleteAccept(op)
  PROVE  SInv'
<1> DEFINE unmade == {k \in Connection : listener[k] = None}
<1>1. PICK k, f : k = Lowest(unmade) /\ f = Lowest(FreeFds)
  OBVIOUS
<1>2. /\ op.event = "accept"
      /\ \/ /\ unmade # {} /\ FreeFds # {}
            /\ listener' = [listener EXCEPT ![k] = op.of]
            /\ descriptor' = [descriptor EXCEPT ![f] = k]
            /\ KernelComplete(op, f)
         \/ KernelComplete(op, None) /\ UNCHANGED <<listener, descriptor>>
      /\ UNCHANGED <<bufferVars, taskVars, registryVars, fdOf, owner, servers, closeVars, pending>>
  BY <1>1 DEF CompleteAccept
<1>3. UNCHANGED <<connections, serverConnections, fdOf, owner, servers,
                  active, closer, closing, closePc, serverPc, awaited>>
  BY <1>2 DEF registryVars, closeVars
<1>4. RingInv' /\ Outstanding' = Outstanding /\ op \in Outstanding
  BY <1>2, CompleteRing DEF SInv, BaseInv, Outstanding
<1>5. BaseInv'
  <2>1. Extends
    BY <1>3 DEF Extends, SInv, BaseInv
  <2> QED
    BY <1>2, <1>4, <2>1, KeepBase DEF SInv
<1>6. Closing'
  BY <1>2, <1>3 DEF SInv, Closing, ClosingAt, ClosingWith
<1>7. PendingCounts' /\ AcceptLoopAlive'
  BY <1>2, <1>3, <1>4 DEF SInv, PendingCounts, AcceptLoopAlive, OutstandingOf
<1>8. Types' /\ Made' /\ Maps' /\ Accepted'
  <2>1. CASE /\ unmade # {} /\ FreeFds # {}
             /\ listener' = [listener EXCEPT ![k] = op.of]
             /\ descriptor' = [descriptor EXCEPT ![f] = k]
             /\ KernelComplete(op, f)
    <3>1. unmade \subseteq Nat /\ FreeFds \subseteq Nat
      BY DEF Connection, Fd, FreeFds
    <3>2. k \in Connection /\ listener[k] = None
      <4> HIDE DEF unmade
      <4>1. k \in unmade
        BY <1>1, <2>1, <3>1, LowestIn
      <4> QED
        BY <4>1 DEF unmade
    <3>3. f \in Fd /\ descriptor[f] = None
      <4>1. f \in FreeFds
        BY <1>1, <2>1, <3>1, LowestIn
      <4> QED
        BY <4>1 DEF FreeFds
    <3>4. op.of \in Server /\ op.of # None
      BY <1>2, <1>4, Kinds, ServerAssumption DEF SInv
    <3>5. /\ \A x \in Connection : listener'[x] = IF x = k THEN op.of ELSE listener[x]
          /\ \A g \in Fd : descriptor'[g] = IF g = f THEN k ELSE descriptor[g]
          /\ listener' \in [Connection -> Server \cup {None}]
          /\ descriptor' \in [Fd -> Channel \cup {None}]
      BY <2>1, <3>2, <3>3, <3>4 DEF SInv, Types, Channel
    <3>6. owner[k] = None /\ \A g \in Fd : descriptor[g] # k
      BY <3>2 DEF SInv, Made
    <3>7. Types'
      BY <1>2, <1>3, <3>5 DEF SInv, Types
    <3>8. Made'
      BY <1>3, <3>3, <3>4, <3>5, <3>6 DEF SInv, Made
    <3>9. Maps'
      <4>1. \A x \in Connection \cup Server : x # None /\ (fdOf[x] \in Fd /\ descriptor[fdOf[x]] = x =>
                                                              fdOf[x] # f)
        BY <3>3, ServerAssumption
      <4>2. \A x \in Channel : fdOf[x] # None => fdOf[x] \in Fd
        BY DEF SInv, BaseInv
      <4>3. \A x \in Connection : Live(x) => fdOf[x] \in Fd
        BY <4>2 DEF Live, SInv, Made, Channel
      <4>4. MapsAgree'
        BY <1>3, <3>5, <4>1, <4>3 DEF SInv, Maps, MapsAgree, Live
      <4>5. \A s \in Server : fdOf'[s] # None /\ serverPc'[s] # "closed" =>
              servers'[fdOf'[s]] = s /\ descriptor'[fdOf'[s]] = s
        BY <1>3, <3>5, <4>1, <4>2 DEF SInv, Maps, Channel
      <4> QED
        BY <1>3, <4>4, <4>5 DEF SInv, Maps
    <3>10. \A g : Unserved(g) => Unserved(g)' /\ g # f
      BY <1>3, <3>3, <3>5, ServerAssumption DEF Unserved
    <3>11. Unserved(f)'
      BY <1>3, <3>2, <3>3, <3>5, <3>6 DEF Unserved
    <3>12. \A i \in 1..Len(cq) : New(i) => cq[i].res # f
      BY <3>10 DEF SInv, Accepted
    <3>13. Accepted'
      BY <2>1, <3>10, <3>11, <3>12, AcceptedAppend DEF SInv, BaseInv
    <3> QED
      BY <3>7, <3>8, <3>9, <3>13
  <2>2. CASE KernelComplete(op, None) /\ UNCHANGED <<listener, descriptor>>
    <3>1. Types' /\ Made' /\ Maps'
      BY <1>2, <1>3, <2>2 DEF SInv, Types, Made, Maps, MapsAgree, Live
    <3>2. Accepted'
      BY <1>3, <2>2, AcceptedAppend DEF SInv, BaseInv, Unserved
    <3> QED
      BY <3>1, <3>2
  <2> QED
    BY <1>2, <2>1, <2>2
<1> QED
  BY <1>5, <1>6, <1>7, <1>8 DEF SInv

\* A server begins with a socket of its own and its first accept.
LEMMA OpenInv ==
  ASSUME SInv, NEW s \in Server, Open(s)
  PROVE  SInv'
<1>1. PICK f, i : f = Lowest(FreeFds) /\ i = Nth(s, Outstanding)
  OBVIOUS
<1> DEFINE new == [of |-> s, fd |-> f, buf |-> 0, event |-> "accept", task |-> None, nth |-> i]
<1>2. /\ fdOf[s] = None /\ FreeFds # {}
      /\ fdOf' = [fdOf EXCEPT ![s] = f]
      /\ descriptor' = [descriptor EXCEPT ![f] = s]
      /\ servers' = [servers EXCEPT ![f] = s]
      /\ Submit({new}, events)
      /\ UNCHANGED <<bufferVars, taskVars, registryVars, listener, owner, closeVars, pending,
                     cancelled, cq, batch>>
  BY <1>1 DEF Open, Accept, Nth
<1>3. UNCHANGED <<connections, serverConnections, listener, owner,
                  active, closer, closing, closePc, serverPc, awaited>>
  BY <1>2 DEF registryVars, closeVars
<1>4. f \in Fd /\ descriptor[f] = None /\ f # None
  <2>1. FreeFds \subseteq Nat
    BY DEF Fd, FreeFds
  <2>2. f \in FreeFds
    BY <1>1, <1>2, <2>1, LowestIn
  <2> QED
    BY <2>2, ServerAssumption DEF FreeFds
<1>5. RingInv' /\ Outstanding' = Outstanding \cup {new}
  <2>1. IsFiniteSet({new}) /\ new.of = s /\ new.nth = i
    BY FS_Singleton
  <2>2. new \notin Outstanding
    BY <1>1, <2>1, NthNew, OutstandingFinite DEF SInv, BaseInv
  <2> HIDE DEF new
  <2> QED
    BY <1>2, <2>1, <2>2, SubmitRing DEF SInv, BaseInv
<1>6. /\ \A x \in Channel : fdOf'[x] = IF x = s THEN f ELSE fdOf[x]
      /\ \A g \in Fd : descriptor'[g] = IF g = f THEN s ELSE descriptor[g]
      /\ \A g \in Fd : servers'[g] = IF g = f THEN s ELSE servers[g]
      /\ fdOf' \in [Channel -> Fd \cup {None}]
      /\ descriptor' \in [Fd -> Channel \cup {None}] /\ servers' \in [Fd -> Server \cup {None}]
  BY <1>2, <1>4 DEF SInv, BaseInv, Types, Channel
<1>7. s \in Channel /\ s \notin Connection /\ s # None /\ Connection \subseteq Channel
      /\ Server \subseteq Channel /\ None \notin Connection
  BY ServerAssumption DEF Channel
<1>8. BaseInv'
  <2>1. Extends
    BY <1>2, <1>3, <1>6, <1>7 DEF Extends, SInv, BaseInv
  <2>2. IsAccept(new)'
    BY <1>4, <1>6, <1>7 DEF IsAccept, AcceptOf
  <2> QED
    BY <1>2, <1>5, <2>1, <2>2, KeepBase DEF SInv
<1>9. Types'
  BY <1>2, <1>3, <1>6 DEF SInv, Types
<1>10. Made'
  BY <1>3, <1>6, <1>7 DEF SInv, Made
<1>11. \A x \in Channel : fdOf[x] # None => fdOf[x] \in Fd
  BY DEF SInv, BaseInv
<1>12. ~closing[s] /\ serverPc[s] = "none"
  BY <1>2 DEF SInv, Closing
<1>13. Maps'
  <2>1. MapsAgree'
    <3>1. \A x \in Connection : Live(x) => fdOf[x] \in Fd /\ descriptor[fdOf[x]] = x /\ fdOf[x] # f
      BY <1>4, <1>7, <1>11 DEF Live, SInv, Made, Maps, MapsAgree
    <3> QED
      BY <1>3, <1>6, <1>7, <3>1 DEF SInv, Maps, MapsAgree, Live
  <2>2. ASSUME NEW x \in Server, fdOf'[x] # None, serverPc'[x] # "closed"
        PROVE  servers'[fdOf'[x]] = x /\ descriptor'[fdOf'[x]] = x
    <3>1. CASE x = s
      BY <1>4, <1>6, <1>7, <3>1
    <3>2. CASE x # s
      <4>1. fdOf'[x] = fdOf[x] /\ fdOf[x] \in Fd /\ servers[fdOf[x]] = x /\ descriptor[fdOf[x]] = x /\ x # None
        BY <1>3, <1>6, <1>7, <1>11, <2>2, <3>2, ServerAssumption DEF SInv, Maps
      <4> QED
        BY <1>4, <1>6, <4>1
    <3> QED
      BY <3>1, <3>2
  <2>3. ASSUME NEW g \in Fd, servers'[g] # None
        PROVE  fdOf'[servers'[g]] = g /\ serverPc'[servers'[g]] # "closed"
    <3>1. CASE g = f
      BY <1>3, <1>6, <1>7, <1>12, <3>1
    <3>2. CASE g # f
      BY <1>2, <1>3, <1>4, <1>6, <1>7, <2>3, <3>2, ServerAssumption DEF SInv, Maps, Types
    <3> QED
      BY <3>1, <3>2
  <2>4. /\ \A g \in Fd : serverConnections'[g] # None => fdOf'[serverConnections'[g]] = g
        /\ \A x \in Server, g \in Fd : connections'[x][g] # None => owner'[connections'[x][g]] = x
    BY <1>3, <1>6, <1>7, ServerAssumption DEF SInv, Maps, Types
  <2> QED
    BY <2>1, <2>2, <2>3, <2>4 DEF Maps
<1>14. Accepted'
  <2>1. \A g : Unserved(g) => Unserved(g)'
    BY <1>3, <1>4, <1>6, <1>7 DEF Unserved
  <2> QED
    BY <1>2, <2>1, AcceptedKeep DEF SInv
<1>15. Closing'
  BY <1>2, <1>3, <1>6, <1>7, <1>12 DEF SInv, Closing, ClosingAt, ClosingWith
<1>16. PendingCounts'
  <2>1. \A k \in Connection : OutstandingOf(k)' = OutstandingOf(k)
    BY <1>5, <1>7 DEF OutstandingOf
  <2> QED
    BY <1>2, <2>1 DEF SInv, PendingCounts
<1>17. ASSUME NEW x \in Server, fdOf'[x] # None, ~closing'[x]
      PROVE  \E op \in Outstanding' : op.of = x /\ op.fd = fdOf'[x]
  <2>1. new.of = s /\ new.fd = f
    OBVIOUS
  <2> HIDE DEF new
  <2>2. CASE x = s
    BY <1>5, <1>6, <1>7, <2>1, <2>2
  <2>3. CASE x # s
    BY <1>3, <1>5, <1>6, <1>7, <1>17, <2>3 DEF SInv, AcceptLoopAlive, OutstandingOf
  <2> QED
    BY <2>2, <2>3
<1>18. AcceptLoopAlive'
  BY <1>17 DEF AcceptLoopAlive, OutstandingOf
<1> QED
  BY <1>8, <1>9, <1>10, <1>13, <1>14, <1>15, <1>16, <1>18 DEF SInv

-----------------------------------------------------------------------------
(* Closing.                                                                  *)

\* The first part of close() of connections that are open; operations may have
\* ended since.
LEMMA BeginCloseInv ==
  ASSUME BaseInv, Types, Made, Maps, Closing, NEW K, K \subseteq Connection,
         \A k \in K : Live(k) /\ ~closing[k], NEW graceful \in BOOLEAN,
         NEW p \in [Connection -> Nat], NEW known, BeginClose(K, graceful, p, known),
         \A k \in Connection : pending[k] = 0 => p[k] = 0, pending' = p,
         UNCHANGED <<fdOf, owner, listener, servers, closer>>,
         \A s \in Server : serverPc'[s] = "closed" <=> serverPc[s] = "closed",
         \A k \in Connection : closing'[k] = (closing[k] \/ k \in K)
  PROVE  /\ connections' \in [Server -> [Fd -> Connection \cup {None}]]
         /\ serverConnections' \in [Fd -> Connection \cup {None}]
         /\ descriptor' \in [Fd -> Channel \cup {None}]
         /\ active' \in [Connection -> BOOLEAN]
         /\ closePc' \in [Connection -> {"none", "graceful", "forced", "drain", "closed"}]
         /\ cancelled' \subseteq inflight
         /\ Made' /\ Maps' /\ \A f : Unserved(f) => Unserved(f)'
         /\ \A k \in Connection : ClosingAt(k)'
<1> DEFINE busy == {k \in K : p[k] > 0}
<1>1. PICK draining \in SUBSET (K \ busy) :
        /\ closePc' = [k \in Connection |->
                         CASE k \in busy -> IF graceful THEN "graceful" ELSE "forced"
                           [] k \in draining -> "drain"
                           [] k \in (K \ busy) \ draining -> "closed"
                           [] OTHER -> closePc[k]]
        /\ Destroy((K \ busy) \ draining)
  BY DEF BeginClose
<1> DEFINE closed == (K \ busy) \ draining
<1>2. /\ active' = [k \in Connection |-> active[k] /\ (k \in K => graceful /\ k \in busy)]
      /\ \/ UNCHANGED cancelled
         \/ CancelEvents({e \in known : \E k \in busy : fdOf[k] = e.fd}, known)
  BY DEF BeginClose
<1>3. cancelled' \subseteq inflight
  BY <1>2 DEF CancelEvents, BaseInv, RingInv
<1>4. active' \in [Connection -> BOOLEAN]
  <2>1. \A k \in Connection : active[k] \in BOOLEAN
    BY DEF Types
  <2> QED
    BY <1>2, <2>1
<1>5. /\ \A k \in Connection : k \in busy => closePc'[k] \in {"graceful", "forced"}
      /\ \A k \in Connection : k \in draining => closePc'[k] = "drain" /\ k \in K /\ p[k] = 0
      /\ \A k \in Connection : k \in closed => closePc'[k] = "closed" /\ k \in K /\ p[k] = 0
      /\ \A k \in Connection : k \notin K => closePc'[k] = closePc[k]
      /\ \A k \in K : k \in busy \/ k \in draining \/ k \in closed
  BY <1>1
<1>6. closePc' \in [Connection -> {"none", "graceful", "forced", "drain", "closed"}]
  <2>1. \A k \in Connection : closePc'[k] \in {"none", "graceful", "forced", "drain", "closed"}
    BY <1>5 DEF Types
  <2>2. closePc' = [k \in Connection |-> closePc'[k]]
    BY <1>1
  <2> QED
    BY <2>1, <2>2
<1>7. closed \subseteq Connection /\ (\A k \in closed : Live(k)) /\ Destroy(closed)
  BY <1>1
<1>8. \A k \in Connection : closePc'[k] = "closed" <=> closePc[k] = "closed" \/ k \in closed
  BY <1>5, <1>7 DEF Live
<1>9. \A k \in K : /\ closing'[k] /\ ~closer[k] /\ owner[k] # None /\ k \in Connection
                   /\ closePc'[k] # "none"
                   /\ closePc'[k] \in {"drain", "closed"} => p[k] = 0
  BY <1>5 DEF Live, Closing, ClosingAt
<1>10. \A k \in Connection : ClosingAt(k)'
  <2>1. ASSUME NEW k \in Connection, k \in K PROVE ClosingAt(k)'
    BY <1>9, <2>1 DEF ClosingAt
  <2>2. ASSUME NEW k \in Connection, k \notin K PROVE ClosingAt(k)'
    <3>1. active'[k] = active[k] /\ closePc'[k] = closePc[k] /\ closing'[k] = closing[k]
      BY <1>2, <1>5, <2>2 DEF Types, Channel
    <3> QED
      BY <2>2, <3>1 DEF Closing, ClosingAt
  <2> QED
    BY <2>1, <2>2
<1> HIDE DEF closed
<1> QED
  BY <1>3, <1>4, <1>6, <1>7, <1>8, <1>10, DestroyMaps

\* The ring after a step that at most cancels.
LEMMA CancelBase ==
  ASSUME BaseInv, UNCHANGED <<bufferVars, taskVars, fdOf, owner, inflight, cq, batch>>,
         cancelled' \subseteq inflight
  PROVE  BaseInv' /\ Outstanding' = Outstanding
<1>1. RingInv' /\ Outstanding' = Outstanding
  BY KeepRing DEF BaseInv, RingInv
<1>2. Extends
  BY DEF Extends, BaseInv
<1> QED
  BY <1>1, <1>2, KeepBase

LEMMA CloseConnectionInv ==
  ASSUME SInv, NEW k \in Connection, NEW graceful \in BOOLEAN, CloseConnection(k, graceful)
  PROVE  SInv'
<1>1. /\ owner[k] # None /\ ~closing[k]
      /\ closing' = [closing EXCEPT ![k] = TRUE]
      /\ BeginClose({k}, graceful, pending, events)
      /\ UNCHANGED <<bufferVars, taskVars, fdOf, listener, owner, servers, closer, serverPc, awaited,
                     pending, inflight, cq, batch>>
  BY DEF CloseConnection
<1>2. k \in Channel /\ \A s \in Server : s # k
  BY ServerAssumption DEF Channel
<1>3. /\ closing' \in [Channel -> BOOLEAN]
      /\ \A x \in Connection : closing'[x] = (closing[x] \/ x \in {k})
      /\ \A s \in Server : closing'[s] = closing[s]
  BY <1>1, <1>2 DEF SInv, Types, Channel
<1>4. Live(k)
  BY <1>1 DEF SInv, Closing, ClosingAt, Live
<1>5. /\ connections' \in [Server -> [Fd -> Connection \cup {None}]]
      /\ serverConnections' \in [Fd -> Connection \cup {None}]
      /\ descriptor' \in [Fd -> Channel \cup {None}]
      /\ active' \in [Connection -> BOOLEAN]
      /\ closePc' \in [Connection -> {"none", "graceful", "forced", "drain", "closed"}]
      /\ cancelled' \subseteq inflight
      /\ Made' /\ Maps' /\ \A f : Unserved(f) => Unserved(f)'
      /\ \A x \in Connection : ClosingAt(x)'
  <2>1. PICK K, p : K = {k} /\ p = pending
    OBVIOUS
  <2>2. /\ p \in [Connection -> Nat] /\ K \subseteq Connection
        /\ BaseInv /\ Types /\ Made /\ Maps /\ Closing
    BY <2>1 DEF SInv, Types
  <2>3. BeginClose(K, graceful, p, events)
    BY <1>1, <2>1, Zenon
  <2>4. \A x \in K : Live(x) /\ ~closing[x]
    BY <1>1, <1>4, <2>1
  <2>5. /\ (\A x \in Connection : pending[x] = 0 => p[x] = 0) /\ pending' = p
        /\ UNCHANGED <<fdOf, owner, listener, servers, closer>>
        /\ \A s \in Server : serverPc'[s] = "closed" <=> serverPc[s] = "closed"
    BY <1>1, <2>1
  <2>6. \A x \in Connection : closing'[x] = (closing[x] \/ x \in K)
    BY <1>3, <2>1
  <2> QED
    BY <2>2, <2>3, <2>4, <2>5, <2>6, BeginCloseInv
<1>6. BaseInv' /\ Outstanding' = Outstanding
  BY <1>1, <1>5, CancelBase DEF SInv
<1>7. Types'
  BY <1>1, <1>3, <1>5 DEF SInv, Types
<1>8. Accepted'
  BY <1>1, <1>5, AcceptedKeep DEF SInv
<1>9. Closing'
  <2>1. \A x \in Connection : owner[x] # None => ClosingWith(x)'
    <3>1. \A x \in Connection : owner[x] # None => owner[x] \in Server /\ ClosingWith(x)
      BY DEF SInv, BaseInv, Closing
    <3> QED
      BY <1>1, <1>3, <3>1 DEF ClosingWith
  <2>2. \A s \in Server : closing'[s] <=> serverPc'[s] # "none"
    BY <1>1, <1>3 DEF SInv, Closing
  <2>3. \A s \in Server : fdOf'[s] = None => ~closing'[s]
    BY <1>1, <1>3 DEF SInv, Closing
  <2> QED
    BY <1>1, <1>5, <2>1, <2>2, <2>3 DEF Closing
<1>10. PendingCounts' /\ AcceptLoopAlive'
  BY <1>1, <1>3, <1>6 DEF SInv, PendingCounts, AcceptLoopAlive, OutstandingOf
<1> QED
  BY <1>5, <1>6, <1>7, <1>8, <1>9, <1>10 DEF SInv

LEMMA CloseServerInv ==
  ASSUME SInv, NEW s \in Server, NEW graceful \in BOOLEAN, CloseServer(s, graceful)
  PROVE  SInv'
<1>1. PICK K : K = {k \in Connection : (\E f \in Fd : connections[s][f] = k) /\ ~closing[k]}
  OBVIOUS
<1>2. /\ fdOf[s] # None /\ ~closing[s]
      /\ closing' = [x \in Channel |-> closing[x] \/ x = s \/ x \in K]
      /\ BeginClose(K, graceful, pending, events)
      /\ awaited' = [awaited EXCEPT ![s] = K]
      /\ serverPc' = [serverPc EXCEPT ![s] = "connections"]
      /\ UNCHANGED <<bufferVars, taskVars, fdOf, listener, owner, servers, closer,
                     pending, inflight, cq, batch>>
  BY <1>1 DEF CloseServer
<1>3. K \subseteq Connection /\ \A k \in K : Live(k) /\ ~closing[k]
  <2>1. \A k \in Connection, f \in Fd : connections[s][f] = k => Live(k)
    BY ServerAssumption DEF SInv, Maps, MapsAgree
  <2> QED
    BY <1>1, <2>1
<1>4. /\ closing' \in [Channel -> BOOLEAN]
      /\ \A x \in Connection : closing'[x] = (closing[x] \/ x \in K)
      /\ \A x \in Server : closing'[x] = (closing[x] \/ x = s)
  <2>1. \A x \in Channel : closing[x] \in BOOLEAN
    BY DEF SInv, Types
  <2>2. s \notin Connection /\ \A x \in Server : x \notin K
    BY <1>3, ServerAssumption
  <2> QED
    BY <1>2, <2>1, <2>2 DEF Channel
<1>5. serverPc[s] = "none"
  BY <1>2 DEF SInv, Closing
<1>6. \A x \in Server : serverPc'[x] = IF x = s THEN "connections" ELSE serverPc[x]
  BY <1>2 DEF SInv, Types
<1>7. /\ connections' \in [Server -> [Fd -> Connection \cup {None}]]
      /\ serverConnections' \in [Fd -> Connection \cup {None}]
      /\ descriptor' \in [Fd -> Channel \cup {None}]
      /\ active' \in [Connection -> BOOLEAN]
      /\ closePc' \in [Connection -> {"none", "graceful", "forced", "drain", "closed"}]
      /\ cancelled' \subseteq inflight
      /\ Made' /\ Maps' /\ \A f : Unserved(f) => Unserved(f)'
      /\ \A x \in Connection : ClosingAt(x)'
  <2>1. PICK p : p = pending
    OBVIOUS
  <2>2. /\ p \in [Connection -> Nat] /\ BaseInv /\ Types /\ Made /\ Maps /\ Closing
    BY <2>1 DEF SInv, Types
  <2>3. /\ BeginClose(K, graceful, p, events)
        /\ (\A x \in Connection : pending[x] = 0 => p[x] = 0) /\ pending' = p
        /\ UNCHANGED <<fdOf, owner, listener, servers, closer>>
        /\ \A x \in Server : serverPc'[x] = "closed" <=> serverPc[x] = "closed"
    BY <1>2, <1>5, <1>6, <2>1
  <2> QED
    BY <1>3, <1>4, <2>2, <2>3, BeginCloseInv
<1>8. BaseInv' /\ Outstanding' = Outstanding
  BY <1>2, <1>7, CancelBase DEF SInv
<1>9. Types'
  BY <1>2, <1>3, <1>4, <1>7 DEF SInv, Types
<1>10. Accepted'
  BY <1>2, <1>7, AcceptedKeep DEF SInv
<1>11. Closing'
  <2>1. ASSUME NEW k \in Connection, owner[k] = s PROVE closing'[k]
    <3>1. CASE Live(k)
      <4>1. connections[s][fdOf[k]] = k /\ fdOf[k] \in Fd
        BY <2>1, <3>1 DEF SInv, Maps, MapsAgree, Made, Live, BaseInv, Channel
      <4> QED
        BY <1>1, <1>4, <4>1
    <3>2. CASE ~Live(k)
      <4>1. owner[k] # None
        BY <2>1, ServerAssumption
      <4> QED
        BY <1>4, <3>2, <4>1 DEF Live, SInv, Closing, ClosingAt
    <3> QED
      BY <3>1, <3>2
  <2>2. ASSUME NEW k \in Connection, owner[k] # None PROVE ClosingWith(k)'
    <3>1. CASE owner[k] = s
      BY <1>2, <1>6, <2>1, <3>1 DEF ClosingWith
    <3>2. CASE owner[k] # s
      <4>1. owner[k] \in Server
        BY <2>2 DEF SInv, BaseInv
      <4> QED
        BY <1>2, <1>4, <1>6, <2>2, <3>2, <4>1 DEF ClosingWith, SInv, Closing
    <3> QED
      BY <3>1, <3>2
  <2>3. \A x \in Server : closing'[x] <=> serverPc'[x] # "none"
    BY <1>4, <1>6 DEF SInv, Closing
  <2>4. \A x \in Server : fdOf'[x] = None => ~closing'[x]
    BY <1>2, <1>4 DEF SInv, Closing
  <2> QED
    BY <1>2, <1>7, <2>2, <2>3, <2>4 DEF Closing
<1>12. PendingCounts' /\ AcceptLoopAlive'
  BY <1>2, <1>4, <1>8 DEF SInv, PendingCounts, AcceptLoopAlive, OutstandingOf
<1> QED
  BY <1>7, <1>8, <1>9, <1>10, <1>11, <1>12 DEF SInv

LEMMA GracefulTimeoutInv ==
  ASSUME SInv, NEW k \in Connection, GracefulTimeout(k)
  PROVE  SInv'
<1>1. /\ closePc[k] = "graceful"
      /\ closePc' = [closePc EXCEPT ![k] = "forced"]
      /\ active' = [active EXCEPT ![k] = FALSE]
      /\ CancelByFd(fdOf[k], events)
      /\ UNCHANGED <<bufferVars, taskVars, registryVars, channelVars, closing, closer, serverPc, awaited,
                     pending, inflight, cq, batch>>
  BY DEF GracefulTimeout
<1>2. UNCHANGED <<connections, serverConnections, fdOf, listener, owner, servers, descriptor>>
  BY <1>1 DEF registryVars, channelVars
<1>3. cancelled' \subseteq inflight
  BY <1>1 DEF CancelByFd, CancelEvents, SInv, BaseInv, RingInv
<1>4. BaseInv' /\ Outstanding' = Outstanding
  BY <1>1, <1>2, <1>3, CancelBase DEF SInv
<1>5. Types'
  BY <1>1, <1>2 DEF SInv, Types
<1>6. \A x \in Connection : /\ closePc'[x] = IF x = k THEN "forced" ELSE closePc[x]
                            /\ active'[x] = IF x = k THEN FALSE ELSE active[x]
  BY <1>1 DEF SInv, Types
<1>7. Made' /\ Maps'
  BY <1>1, <1>2, <1>6, ServerAssumption DEF SInv, Made, Maps, MapsAgree, Live, Types
<1>8. Accepted'
  BY <1>1, <1>2, AcceptedKeep DEF SInv, Unserved
<1>9. Closing'
  <2>1. closing[k]
    BY <1>1 DEF SInv, Closing, ClosingAt
  <2>2. \A x \in Connection : ClosingAt(x)'
    BY <1>1, <1>2, <1>6, <2>1 DEF SInv, Closing, ClosingAt
  <2> QED
    BY <1>1, <1>2, <2>2 DEF SInv, Closing, ClosingWith
<1>10. PendingCounts' /\ AcceptLoopAlive'
  BY <1>1, <1>2, <1>4 DEF SInv, PendingCounts, AcceptLoopAlive, OutstandingOf
<1> QED
  BY <1>4, <1>5, <1>7, <1>8, <1>9, <1>10 DEF SInv

\* The last parts of close(), once no operation is left: the connection waits
\* for the end of the inbound stream, or leaves the maps.
LEMMA EndOfCloseInv ==
  ASSUME SInv, NEW k \in Connection, closing[k], Live(k), pending[k] = 0,
         active' \in [Connection -> BOOLEAN], \A x \in Connection \ {k} : active'[x] = active[x],
         \/ closePc' = [closePc EXCEPT ![k] = "drain"] /\ UNCHANGED <<registryVars, descriptor>>
         \/ closePc' = [closePc EXCEPT ![k] = "closed"] /\ Destroy({k}),
         UNCHANGED <<bufferVars, taskVars, fdOf, listener, owner, servers, closing, closer, serverPc,
                     awaited, pending, ringVars>>
  PROVE  SInv'
<1>1. UNCHANGED ringVars /\ UNCHANGED <<inflight, cq, batch, cancelled>>
  BY DEF ringVars
<1>2. BaseInv' /\ Outstanding' = Outstanding
  BY <1>1, CancelBase DEF SInv, BaseInv, RingInv
<1>3. /\ closePc' \in [Connection -> {"none", "graceful", "forced", "drain", "closed"}]
      /\ \A x \in Connection \ {k} : closePc'[x] = closePc[x]
      /\ closePc'[k] \in {"drain", "closed"}
  BY DEF SInv, Types
<1>4. /\ connections' \in [Server -> [Fd -> Connection \cup {None}]]
      /\ serverConnections' \in [Fd -> Connection \cup {None}]
      /\ descriptor' \in [Fd -> Channel \cup {None}]
      /\ Made' /\ Maps' /\ \A f : Unserved(f) => Unserved(f)'
  <2>1. CASE closePc' = [closePc EXCEPT ![k] = "drain"] /\ UNCHANGED <<registryVars, descriptor>>
    <3>1. UNCHANGED <<connections, serverConnections, descriptor>>
      BY <2>1 DEF registryVars
    <3>2. \A x \in Connection : closePc'[x] = "closed" <=> closePc[x] = "closed"
      BY <1>3, <2>1 DEF Live, SInv, Types
    <3>3. Made' /\ Maps' /\ \A f : Unserved(f) => Unserved(f)'
      BY <3>1, <3>2, ServerAssumption DEF SInv, Made, Maps, MapsAgree, Live, Types, Unserved
    <3> QED
      BY <3>1, <3>3 DEF SInv, Types
  <2>2. CASE closePc' = [closePc EXCEPT ![k] = "closed"] /\ Destroy({k})
    <3>1. PICK K : K = {k}
      OBVIOUS
    <3>2. Destroy(K)
      BY <2>2, <3>1, Zenon
    <3>3. closePc'[k] = "closed"
      BY <2>2 DEF SInv, Types
    <3>4. \A x \in Connection : closePc'[x] = "closed" <=> closePc[x] = "closed" \/ x \in K
      BY <1>3, <3>1, <3>3
    <3>5. K \subseteq Connection /\ \A x \in K : Live(x)
      BY <3>1
    <3> QED
      BY <3>2, <3>4, <3>5, DestroyMaps DEF SInv
  <2> QED
    BY <2>1, <2>2
<1>5. Types'
  BY <1>3, <1>4 DEF SInv, Types
<1>6. Accepted'
  BY <1>1, <1>4, AcceptedKeep DEF SInv
<1>7. Closing'
  <2>1. \A x \in Connection : ClosingAt(x)'
    BY <1>3 DEF SInv, Closing, ClosingAt
  <2> QED
    BY <2>1 DEF SInv, Closing, ClosingWith
<1>8. PendingCounts' /\ AcceptLoopAlive'
  BY <1>2 DEF SInv, PendingCounts, AcceptLoopAlive, OutstandingOf
<1> QED
  BY <1>2, <1>4, <1>5, <1>6, <1>7, <1>8 DEF SInv

LEMMA ResumeCloseInv ==
  ASSUME SInv, NEW k \in Connection, ResumeClose(k)
  PROVE  SInv'
<1>1. /\ closePc[k] \in {"graceful", "forced"} /\ closer[k]
      /\ active' = [active EXCEPT ![k] = FALSE]
      /\ \/ closePc' = [closePc EXCEPT ![k] = "drain"] /\ UNCHANGED <<registryVars, descriptor>>
         \/ closePc' = [closePc EXCEPT ![k] = "closed"] /\ Destroy({k})
      /\ UNCHANGED <<bufferVars, taskVars, fdOf, listener, owner, servers, closing, closer, serverPc,
                     awaited, pending, ringVars>>
  BY DEF ResumeClose
<1>2. closing[k] /\ Live(k) /\ pending[k] = 0
  BY <1>1 DEF SInv, Closing, ClosingAt, Live
<1>3. active' \in [Connection -> BOOLEAN] /\ \A x \in Connection \ {k} : active'[x] = active[x]
  BY <1>1 DEF SInv, Types
<1> QED
  BY <1>1, <1>2, <1>3, EndOfCloseInv

LEMMA EndCloseInv ==
  ASSUME SInv, NEW k \in Connection, EndClose(k)
  PROVE  SInv'
<1>1. /\ closePc[k] = "drain"
      /\ closePc' = [closePc EXCEPT ![k] = "closed"] /\ Destroy({k})
      /\ UNCHANGED <<bufferVars, taskVars, fdOf, listener, owner, servers, active, closing, closer,
                     serverPc, awaited, pending, ringVars>>
  BY DEF EndClose
<1>2. closing[k] /\ Live(k) /\ pending[k] = 0
  BY <1>1 DEF SInv, Closing, ClosingAt, Live
<1>3. active' \in [Connection -> BOOLEAN] /\ \A x \in Connection \ {k} : active'[x] = active[x]
  BY <1>1 DEF SInv, Types
<1> QED
  BY <1>1, <1>2, <1>3, EndOfCloseInv

\* Nobody has an operation on a connection of a server that finishes.
LEMMA FinishServerInv ==
  ASSUME SInv, NEW s \in Server, FinishServer(s)
  PROVE  SInv'
<1>1. PICK f : f = fdOf[s]
  OBVIOUS
<1>2. /\ serverPc[s] = "connections" /\ ConnectionsClosed(s)
      /\ serverPc' = [serverPc EXCEPT ![s] = "closed"]
      /\ servers' = [servers EXCEPT ![f] = None]
      /\ descriptor' = [descriptor EXCEPT ![f] = None]
      /\ UNCHANGED <<bufferVars, taskVars, registryVars, fdOf, listener, owner, active, closer, closing,
                     closePc, awaited, pending, ringVars>>
  BY <1>1 DEF FinishServer
<1>3. UNCHANGED <<connections, serverConnections>> /\ UNCHANGED <<inflight, cq, batch, cancelled>>
  BY <1>2 DEF registryVars, ringVars
<1>4. BaseInv' /\ Outstanding' = Outstanding
  BY <1>2, <1>3, CancelBase DEF SInv, BaseInv, RingInv
<1>5. closing[s] /\ f # None /\ f \in Fd /\ servers[f] = s /\ descriptor[f] = s
  BY <1>1, <1>2 DEF SInv, Closing, Maps, BaseInv, Channel
<1>6. s \notin Connection /\ s # None /\ None \notin Connection
  BY ServerAssumption
<1>7. /\ \A x \in Server : serverPc'[x] = IF x = s THEN "closed" ELSE serverPc[x]
      /\ \A g \in Fd : servers'[g] = IF g = f THEN None ELSE servers[g]
      /\ \A g \in Fd : descriptor'[g] = IF g = f THEN None ELSE descriptor[g]
  BY <1>2 DEF SInv, Types
<1>8. Types'
  BY <1>2, <1>3 DEF SInv, Types
<1>9. Made'
  BY <1>2, <1>6, <1>7 DEF SInv, Made
<1>10. \A x \in Channel : fdOf[x] # None => fdOf[x] \in Fd
  BY DEF SInv, BaseInv
<1>11. Maps'
  <2>1. MapsAgree'
    <3>1. \A x \in Connection : Live(x) => fdOf[x] \in Fd /\ descriptor[fdOf[x]] = x /\ fdOf[x] # f
      BY <1>5, <1>6, <1>10 DEF Live, SInv, Made, Maps, MapsAgree, Channel
    <3> QED
      BY <1>2, <1>3, <1>7, <3>1 DEF SInv, Maps, MapsAgree, Live
  <2>2. ASSUME NEW x \in Server, fdOf[x] # None, serverPc'[x] # "closed"
        PROVE  servers'[fdOf[x]] = x /\ descriptor'[fdOf[x]] = x
    <3>1. x # s /\ serverPc[x] # "closed" /\ fdOf[x] \in Fd
      BY <1>7, <1>10, <2>2 DEF Channel
    <3>2. servers[fdOf[x]] = x /\ descriptor[fdOf[x]] = x
      BY <2>2, <3>1 DEF SInv, Maps
    <3> QED
      BY <1>5, <1>7, <3>1, <3>2
  <2>3. ASSUME NEW g \in Fd, servers'[g] # None
        PROVE  fdOf[servers'[g]] = g /\ serverPc'[servers'[g]] # "closed"
    <3>1. g # f /\ servers'[g] = servers[g] /\ servers[g] \in Server
      BY <1>7, <2>3 DEF SInv, Types
    <3>2. fdOf[servers[g]] = g /\ serverPc[servers[g]] # "closed"
      BY <2>3, <3>1 DEF SInv, Maps
    <3>3. servers[g] # s
      BY <1>1, <3>1, <3>2
    <3> QED
      BY <1>7, <3>1, <3>2, <3>3
  <2>4. /\ \A g \in Fd : serverConnections'[g] # None => fdOf'[serverConnections'[g]] = g
        /\ \A x \in Server, g \in Fd : connections'[x][g] # None => owner'[connections'[x][g]] = x
    BY <1>2, <1>3 DEF SInv, Maps
  <2> QED
    BY <1>2, <2>1, <2>2, <2>3, <2>4 DEF Maps
<1>12. Accepted'
  <2>1. \A g : Unserved(g) => Unserved(g)'
    BY <1>2, <1>5, <1>6, <1>7 DEF Unserved
  <2> QED
    BY <1>3, <2>1, AcceptedKeep DEF SInv
<1>13. Closing'
  <2>1. ASSUME NEW k \in Connection, owner[k] = s PROVE pending[k] = 0
    <3>1. ClosingAt(k)
      BY DEF SInv, Closing
    <3> QED
      BY <1>2, <2>1, <3>1 DEF ConnectionsClosed, ClosingAt
  <2>2. \A k \in Connection : owner'[k] # None => ClosingWith(k)'
    <3>1. \A k \in Connection : owner[k] # None => owner[k] \in Server /\ ClosingWith(k)
      BY DEF SInv, BaseInv, Closing
    <3> QED
      BY <1>2, <1>7, <2>1, <3>1 DEF ClosingWith
  <2>3. \A x \in Server : closing'[x] <=> serverPc'[x] # "none"
    BY <1>2, <1>5, <1>7 DEF SInv, Closing
  <2>4. \A k \in Connection : ClosingAt(k)'
    BY <1>2 DEF SInv, Closing, ClosingAt
  <2> QED
    BY <1>2, <2>2, <2>3, <2>4 DEF SInv, Closing
<1>14. PendingCounts' /\ AcceptLoopAlive'
  BY <1>2, <1>4 DEF SInv, PendingCounts, AcceptLoopAlive, OutstandingOf
<1> QED
  BY <1>4, <1>8, <1>9, <1>11, <1>12, <1>13, <1>14 DEF SInv

-----------------------------------------------------------------------------
(* Completions.                                                              *)

\* An operation of a connection that is outstanding finds it in the maps.
LEMMA TransferLive ==
  ASSUME SInv, NEW op \in Outstanding, IsTransfer(op)
  PROVE  /\ op.of \in Connection /\ Live(op.of) /\ pending[op.of] >= 1 /\ pending[op.of] \in Nat
         /\ serverConnections[op.fd] = op.of /\ op.fd \in Fd
<1>1. op.of \in Connection /\ op.fd = fdOf[op.of] /\ owner[op.of] # None
  BY Kinds DEF SInv
<1>2. op \in OutstandingOf(op.of) /\ IsFiniteSet(OutstandingOf(op.of))
  BY OutstandingOfFinite DEF OutstandingOf, SInv, BaseInv
<1>3. pending[op.of] = Cardinality(OutstandingOf(op.of)) /\ pending[op.of] \in Nat
  BY <1>1 DEF SInv, PendingCounts, Types
<1>4. pending[op.of] # 0
  BY <1>2, <1>3, FS_EmptySet
<1>5. Live(op.of)
  BY <1>1, <1>4 DEF Live, SInv, Closing, ClosingAt
<1>6. op.fd \in Fd
  BY <1>1 DEF SInv, Made, BaseInv, Channel
<1> QED
  BY <1>1, <1>3, <1>4, <1>5, <1>6 DEF SInv, Maps, MapsAgree

\* The completion that is handled.
LEMMA HeadOfQueue ==
  ASSUME SInv, TakeCqe
  PROVE  /\ Head(cq).op \in Outstanding \ inflight
         /\ Head(cq).op.event = "accept" /\ Head(cq).res # None => Unserved(Head(cq).res)
<1>1. cq # <<>> /\ Head(cq) = cq[1] /\ 1 \in 1..Len(cq)
  BY DEF SInv, BaseInv, RingInv, TakeCqe
<1> QED
  BY <1>1 DEF SInv, BaseInv, RingInv, Outstanding, Accepted, New

\* An accept whose server is closing or gone ends, whatever its result.
LEMMA DropAcceptInv ==
  ASSUME SInv, NEW op, NEW s, TakeCqe, op = Head(cq).op, op.event = "accept",
         s = servers[op.fd], s = None \/ closing[s],
         UNCHANGED <<bufferVars, taskVars, registryVars, channelVars, closeVars, pending,
                     inflight, cancelled>>
  PROVE  SInv'
<1>1. UNCHANGED <<connections, serverConnections, fdOf, listener, owner, servers, descriptor,
                  active, closer, closing, closePc, serverPc, awaited>>
  BY DEF registryVars, channelVars, closeVars
<1>2. op \in Outstanding /\ op.of \in Server
  BY HeadOfQueue, Kinds DEF SInv
<1>3. RingInv' /\ Outstanding' = Outstanding \ {op}
  <2>1. RingInv' /\ Outstanding' = (Outstanding \ {op}) \cup {}
    <3>1. /\ RingInv /\ IsFiniteSet({}) /\ inflight' = inflight \cup {} /\ cancelled' \subseteq inflight'
          /\ {} \cap (Outstanding \ {Head(cq).op}) = {}
      BY FS_EmptySet DEF SInv, BaseInv, RingInv
    <3> QED
      BY <3>1, TakeRing
  <2> QED
    BY <2>1
<1>4. BaseInv'
  <2>1. Extends
    BY <1>1 DEF Extends, SInv, BaseInv
  <2> QED
    BY <1>3, <2>1, KeepBase DEF SInv
<1>5. Types' /\ Made' /\ Maps'
  BY <1>1 DEF SInv, Types, Made, Maps, MapsAgree, Live
<1>6. Accepted'
  BY <1>1, AcceptedTail DEF SInv, BaseInv, Unserved
<1>7. Closing'
  BY <1>1 DEF SInv, Closing, ClosingAt, ClosingWith
<1>8. PendingCounts'
  <2>1. \A k \in Connection : OutstandingOf(k)' = OutstandingOf(k)
    BY <1>2, <1>3, ServerAssumption DEF OutstandingOf
  <2> QED
    BY <2>1 DEF SInv, PendingCounts
<1>9. ASSUME NEW x \in Server, fdOf[x] # None, ~closing[x]
      PROVE  \E o \in OutstandingOf(x)' : o.fd = fdOf'[x]
  <2>1. PICK o \in Outstanding : o.of = x /\ o.fd = fdOf[x]
    BY <1>9 DEF SInv, AcceptLoopAlive, OutstandingOf
  <2>2. serverPc[x] # "closed"
    BY <1>9 DEF SInv, Closing
  <2>3. servers[fdOf[x]] = x /\ x # None
    BY <1>9, <2>2, ServerAssumption DEF SInv, Maps
  <2>4. o # op
    BY <1>9, <2>1, <2>3
  <2> QED
    BY <1>1, <1>3, <2>1, <2>4 DEF OutstandingOf
<1>10. AcceptLoopAlive'
  BY <1>1, <1>9 DEF AcceptLoopAlive
<1> QED
  BY <1>4, <1>5, <1>6, <1>7, <1>8, <1>10 DEF SInv

\* A socket that an accept brought becomes a connection.
LEMMA AddConnectionMaps ==
  ASSUME SInv, NEW s \in Server, ~closing[s], fdOf[s] # None, NEW f, Unserved(f), AddConnection(s, f),
         UNCHANGED <<listener, servers, descriptor, closePc, serverPc, closing, pending, active, closer>>
  PROVE  /\ fdOf' \in [Channel -> Fd \cup {None}] /\ owner' \in [Connection -> Server \cup {None}]
         /\ connections' \in [Server -> [Fd -> Connection \cup {None}]]
         /\ serverConnections' \in [Fd -> Connection \cup {None}]
         /\ Extends /\ \A x \in Server : fdOf'[x] = fdOf[x]
         /\ Made' /\ Maps' /\ Closing'
         /\ \A g : Unserved(g) /\ g # f => Unserved(g)'
<1>1. PICK k : k = descriptor[f]
  OBVIOUS
<1>2. /\ f \in Fd /\ k \in Connection /\ k \in Channel /\ owner[k] = None /\ f # None /\ k # None
      /\ k \notin Server /\ s # None
  BY <1>1, ServerAssumption DEF Unserved, Channel
<1>3. /\ fdOf' = [fdOf EXCEPT ![k] = f]
      /\ owner' = [owner EXCEPT ![k] = s]
      /\ serverConnections' = [serverConnections EXCEPT ![f] = k]
      /\ connections' = [connections EXCEPT ![s][f] = k]
  BY <1>1 DEF AddConnection
<1>4. /\ fdOf' \in [Channel -> Fd \cup {None}] /\ owner' \in [Connection -> Server \cup {None}]
      /\ serverConnections' \in [Fd -> Connection \cup {None}]
      /\ \A x \in Channel : fdOf'[x] = IF x = k THEN f ELSE fdOf[x]
      /\ \A x \in Connection : owner'[x] = IF x = k THEN s ELSE owner[x]
      /\ \A g \in Fd : serverConnections'[g] = IF g = f THEN k ELSE serverConnections[g]
  BY <1>2, <1>3 DEF SInv, BaseInv, Types
<1>5. /\ connections' \in [Server -> [Fd -> Connection \cup {None}]]
      /\ \A x \in Server, g \in Fd : connections'[x][g] = IF x = s /\ g = f THEN k ELSE connections[x][g]
  BY <1>2, <1>3 DEF SInv, Types
<1>6. Connection \subseteq Channel /\ Server \subseteq Channel /\ \A x \in Server : x # k
  BY <1>2 DEF Channel
<1>7. Extends /\ \A x \in Server : fdOf'[x] = fdOf[x]
  BY <1>2, <1>4, <1>6 DEF Extends
<1>8. Made'
  <2>1. listener[k] # None
    BY <1>1, <1>2 DEF SInv, Made
  <2> QED
    BY <1>2, <1>4, <1>6, <2>1 DEF SInv, Made
<1>9. ~closing[k] /\ closePc[k] = "none" /\ serverPc[s] = "none"
  BY <1>2 DEF SInv, Closing, ClosingAt
<1>10. \A x \in Connection : Live(x) => fdOf[x] # f /\ x # k /\ fdOf[x] \in Fd /\ owner[x] \in Server
  BY <1>1, <1>2 DEF Live, SInv, Made, Maps, MapsAgree, BaseInv, Channel
<1>11. serverConnections[f] = None /\ \A x \in Server : connections[x][f] = None
  <2>1. serverConnections[f] = None
    <3>1. SUFFICES ASSUME serverConnections[f] # None PROVE FALSE
      OBVIOUS
    <3>2. Live(serverConnections[f]) /\ fdOf[serverConnections[f]] = f /\ serverConnections[f] \in Connection
      BY <1>2, <3>1 DEF SInv, Maps, MapsAgree, Types
    <3> QED
      BY <1>10, <3>2
  <2> QED
    BY <1>2, <2>1 DEF SInv, Maps, MapsAgree
<1>12. \A x \in Connection : Live(x)' <=> Live(x) \/ x = k
  BY <1>2, <1>4, <1>9 DEF Live
<1>13. MapsAgree'
  <2>1. ASSUME NEW x \in Connection, Live(x)'
        PROVE  /\ serverConnections'[fdOf'[x]] = x
               /\ connections'[owner'[x]][fdOf'[x]] = x
               /\ descriptor'[fdOf'[x]] = x
    <3>1. CASE x = k
      BY <1>1, <1>2, <1>4, <1>5, <1>6, <3>1
    <3>2. CASE x # k
      <4>1. Live(x)
        BY <1>12, <2>1, <3>2
      <4>2. fdOf'[x] = fdOf[x] /\ owner'[x] = owner[x] /\ fdOf[x] # f /\ fdOf[x] \in Fd /\ owner[x] \in Server
        BY <1>4, <1>6, <1>10, <3>2, <4>1
      <4> QED
        BY <1>4, <1>5, <4>1, <4>2 DEF SInv, Maps, MapsAgree
    <3> QED
      BY <3>1, <3>2
  <2>2. ASSUME NEW g \in Fd, serverConnections'[g] # None
        PROVE  owner'[serverConnections'[g]] # None /\ closePc'[serverConnections'[g]] # "closed"
    <3>1. CASE g = f
      BY <1>2, <1>4, <1>9, <3>1
    <3>2. CASE g # f
      <4>1. /\ serverConnections'[g] = serverConnections[g] /\ serverConnections[g] \in Connection
            /\ Live(serverConnections[g])
        BY <1>4, <2>2, <3>2 DEF SInv, Maps, MapsAgree, Types
      <4> QED
        BY <1>2, <1>4, <4>1 DEF Live
    <3> QED
      BY <3>1, <3>2
  <2>3. \A g \in Fd, x \in Server : connections'[x][g] # None => connections'[x][g] = serverConnections'[g]
    BY <1>4, <1>5, <1>11 DEF SInv, Maps, MapsAgree
  <2> QED
    BY <2>1, <2>2, <2>3 DEF MapsAgree, Live
<1>14. \A g \in Fd : serverConnections'[g] # None => fdOf'[serverConnections'[g]] = g
  <2>1. ASSUME NEW g \in Fd, serverConnections'[g] # None, g # f
        PROVE  fdOf'[serverConnections'[g]] = g
    <3>1. serverConnections'[g] = serverConnections[g] /\ serverConnections[g] \in Connection
      BY <1>4, <2>1 DEF SInv, Types
    <3>2. fdOf[serverConnections[g]] = g /\ Live(serverConnections[g])
      BY <2>1, <3>1 DEF SInv, Maps, MapsAgree
    <3> QED
      BY <1>4, <1>6, <1>10, <3>1, <3>2
  <2> QED
    BY <1>2, <1>4, <2>1
<1>15. \A x \in Server, g \in Fd : connections'[x][g] # None => owner'[connections'[x][g]] = x
  <2>1. ASSUME NEW x \in Server, NEW g \in Fd, connections'[x][g] # None, ~(x = s /\ g = f)
        PROVE  owner'[connections'[x][g]] = x
    <3>1. connections'[x][g] = connections[x][g] /\ connections[x][g] \in Connection
      BY <1>5, <2>1 DEF SInv, Types
    <3>2. owner[connections[x][g]] = x /\ x # None
      BY <2>1, <3>1, ServerAssumption DEF SInv, Maps
    <3> QED
      BY <1>2, <1>4, <3>1, <3>2
  <2> QED
    BY <1>2, <1>4, <1>5, <2>1
<1>16. Maps'
  <2>1. \A g \in Fd : servers'[g] # None => fdOf'[servers'[g]] = g /\ serverPc'[servers'[g]] # "closed"
    BY <1>7 DEF SInv, Maps, Types
  <2>2. \A x \in Server : fdOf'[x] # None /\ serverPc'[x] # "closed" =>
          servers'[fdOf'[x]] = x /\ descriptor'[fdOf'[x]] = x
    BY <1>7 DEF SInv, Maps
  <2> QED
    BY <1>13, <1>14, <1>15, <2>1, <2>2 DEF Maps
<1>17. Closing'
  <2>1. \A x \in Connection : ClosingAt(x)'
    BY <1>4, <1>9 DEF SInv, Closing, ClosingAt
  <2>2. \A x \in Connection : owner'[x] # None => ClosingWith(x)'
    BY <1>4, <1>9 DEF SInv, Closing, ClosingWith
  <2> QED
    BY <1>7, <2>1, <2>2 DEF SInv, Closing
<1>18. \A g : Unserved(g) /\ g # f => Unserved(g)'
  BY <1>1, <1>2, <1>4 DEF Unserved, SInv, Made
<1> QED
  BY <1>4, <1>5, <1>7, <1>8, <1>16, <1>17, <1>18

\* An accept of an open server is followed by another one.
LEMMA NextAcceptInv ==
  ASSUME SInv, NEW op, NEW res, NEW s, NEW known, TakeCqe, op = Head(cq).op, res = Head(cq).res,
         op.event = "accept", s = servers[op.fd], s # None, ~closing[s],
         NotifyAccept(s, op, res, known),
         UNCHANGED <<bufferVars, req, refused, payloads, pending, active, closer, closing, closePc,
                     descriptor, cancelled, listener, servers, serverPc, awaited>>
  PROVE  SInv'
<1>1. op \in Outstanding \ inflight /\ op.of \in Server /\ op.fd \in Fd
  BY HeadOfQueue, Kinds DEF SInv
<1>2. s \in Server /\ fdOf[s] = op.fd /\ fdOf[s] # None
  BY <1>1, ServerAssumption DEF SInv, Types, Maps
<1>3. PICK i : i = Nth(s, Outstanding \ {op})
  OBVIOUS
<1>4. PICK new : new = [of |-> s, fd |-> fdOf[s], buf |-> 0, event |-> "accept", task |-> None, nth |-> i]
  OBVIOUS
<1>5. new.of = s /\ new.fd = fdOf[s] /\ new.nth = i
  BY <1>4
<1>6. /\ IF res = None THEN UNCHANGED <<fdOf, owner, registryVars>> ELSE AddConnection(s, res)
      /\ Submit({new}, known)
  BY <1>3, <1>4 DEF NotifyAccept, Accept, Nth
<1>7. RingInv' /\ Outstanding' = (Outstanding \ {op}) \cup {new}
  <2>1. IsFiniteSet(Outstanding \ {op})
    BY OutstandingFinite, FS_Subset DEF SInv, BaseInv
  <2>2. new \notin Outstanding \ {op}
    BY <1>3, <1>5, <2>1, NthNew
  <2>3. /\ RingInv /\ IsFiniteSet({new}) /\ inflight' = inflight \cup {new}
        /\ {new} \cap (Outstanding \ {Head(cq).op}) = {} /\ cancelled' \subseteq inflight'
    BY <1>6, <2>2, FS_Singleton DEF SInv, BaseInv, RingInv, Submit
  <2> QED
    BY <2>3, TakeRing
<1>8. /\ fdOf' \in [Channel -> Fd \cup {None}] /\ owner' \in [Connection -> Server \cup {None}]
      /\ connections' \in [Server -> [Fd -> Connection \cup {None}]]
      /\ serverConnections' \in [Fd -> Connection \cup {None}]
      /\ Extends /\ \A x \in Server : fdOf'[x] = fdOf[x]
      /\ Made' /\ Maps' /\ Closing'
      /\ \A g : Unserved(g) /\ ~(res # None /\ g = res) => Unserved(g)'
  <2>1. CASE res = None
    <3>1. UNCHANGED <<fdOf, owner, connections, serverConnections>>
      BY <1>6, <2>1 DEF registryVars
    <3>2. Extends
      BY <3>1 DEF Extends, SInv, BaseInv
    <3>3. Made' /\ Maps' /\ Closing'
      BY <3>1 DEF SInv, Made, Maps, MapsAgree, Live, Closing, ClosingAt, ClosingWith
    <3>4. \A g : Unserved(g) => Unserved(g)'
      BY <3>1 DEF Unserved
    <3> QED
      BY <3>1, <3>2, <3>3, <3>4 DEF SInv, BaseInv, Types
  <2>2. CASE res # None
    <3>1. AddConnection(s, res) /\ Unserved(res)
      BY <1>6, <2>2, HeadOfQueue
    <3> QED
      BY <1>2, <2>2, <3>1, AddConnectionMaps
  <2> QED
    BY <2>1, <2>2
<1>9. BaseInv'
  <2>1. IsAccept(new)'
    BY <1>2, <1>4, <1>5, <1>8 DEF IsAccept, AcceptOf
  <2>2. UNCHANGED <<bufferVars, taskVars>>
    BY DEF taskVars
  <2> QED
    BY <1>7, <1>8, <2>1, <2>2, KeepBase DEF SInv
<1>10. Types'
  BY <1>8 DEF SInv, Types
<1>11. Accepted'
  <2>1. \A g : Unserved(g) /\ ~(Head(cq).op.event = "accept" /\ Head(cq).res = g) => Unserved(g)'
    BY <1>8
  <2> QED
    BY <2>1, AcceptedTail DEF SInv, BaseInv
<1>12. PendingCounts'
  <2>1. \A k \in Connection : OutstandingOf(k)' = OutstandingOf(k)
    BY <1>1, <1>2, <1>5, <1>7, ServerAssumption DEF OutstandingOf
  <2> QED
    BY <2>1 DEF SInv, PendingCounts
<1>13. ASSUME NEW x \in Server, fdOf'[x] # None, ~closing[x]
       PROVE  \E o \in OutstandingOf(x)' : o.fd = fdOf'[x]
  <2>1. CASE x = s
    BY <1>5, <1>7, <1>8, <2>1 DEF OutstandingOf
  <2>2. CASE x # s
    <3>1. fdOf'[x] = fdOf[x]
      BY <1>8
    <3>2. PICK o \in Outstanding : o.of = x /\ o.fd = fdOf[x]
      BY <1>13, <3>1 DEF SInv, AcceptLoopAlive, OutstandingOf
    <3>3. serverPc[x] # "closed"
      BY <1>13 DEF SInv, Closing
    <3>4. servers[fdOf[x]] = x
      BY <1>13, <3>1, <3>3 DEF SInv, Maps
    <3>5. o # op
      BY <2>2, <3>2, <3>4
    <3> QED
      BY <1>7, <3>1, <3>2, <3>5 DEF OutstandingOf
  <2> QED
    BY <2>1, <2>2
<1>14. AcceptLoopAlive'
  BY <1>13 DEF AcceptLoopAlive
<1> QED
  BY <1>8, <1>9, <1>10, <1>11, <1>12, <1>14 DEF SInv

\* A completed read or write settles the count of its connection, and ends a
\* close() or begins one.
LEMMA TransferEndsInv ==
  ASSUME SInv, NEW op, NEW res, NEW k, NEW known, TakeCqe, op = Head(cq).op, res = Head(cq).res,
         op.event # "accept", k = serverConnections[op.fd], Notify(k, op, res, known),
         UNCHANGED <<fdOf, owner, inflight, req, refused, listener, servers, serverPc, awaited>>
  PROVE  SInv' /\ (B!Next \/ UNCHANGED bufferVars)
<1>1. op \in Outstanding \ inflight /\ IsTransfer(op)
  BY HeadOfQueue, Kinds DEF SInv
<1>2. k = op.of /\ k \in Connection /\ Live(k) /\ pending[k] >= 1 /\ pending[k] \in Nat
  BY <1>1, TransferLive
<1>3. PICK p : p = [pending EXCEPT ![k] = @ - 1]
  OBVIOUS
<1>4. /\ pending' = p /\ p \in [Connection -> Nat] /\ p[k] = pending[k] - 1
      /\ \A x \in Connection : x # k => p[x] = pending[x]
  BY <1>2, <1>3 DEF Notify, SInv, Types
<1>5. k \in Channel /\ \A s \in Server : s # k
  BY <1>2, ServerAssumption DEF Channel
<1>6. ~closer[k] /\ closePc[k] \notin {"drain", "closed"} /\ owner[k] \in Server
      /\ serverPc[owner[k]] # "closed"
  BY <1>2 DEF Live, SInv, Closing, ClosingAt, ClosingWith, BaseInv
<1>7. /\ connections' \in [Server -> [Fd -> Connection \cup {None}]]
      /\ serverConnections' \in [Fd -> Connection \cup {None}]
      /\ descriptor' \in [Fd -> Channel \cup {None}]
      /\ active' \in [Connection -> BOOLEAN] /\ closer' \in [Connection -> BOOLEAN]
      /\ closing' \in [Channel -> BOOLEAN]
      /\ closePc' \in [Connection -> {"none", "graceful", "forced", "drain", "closed"}]
      /\ cancelled' \subseteq inflight
      /\ Made' /\ Maps' /\ \A f : Unserved(f) => Unserved(f)'
      /\ \A x \in Connection : ClosingAt(x)'
      /\ \A x \in Connection : closing[x] => closing'[x]
      /\ \A s \in Server : closing'[s] = closing[s]
  <2>1. CASE active[k] /\ res # "positive" /\ ~closing[k]
    <3>1. closing' = [closing EXCEPT ![k] = TRUE] /\ BeginClose({k}, FALSE, pending', known) /\ UNCHANGED closer
      BY <2>1 DEF Notify
    <3>2. PICK K : K = {k}
      OBVIOUS
    <3>3. BeginClose(K, FALSE, p, known)
      BY <1>4, <3>1, <3>2, Zenon
    <3>4. /\ closing' \in [Channel -> BOOLEAN]
          /\ \A x \in Connection : closing'[x] = (closing[x] \/ x \in K)
          /\ \A s \in Server : closing'[s] = closing[s]
      BY <1>5, <3>1, <3>2 DEF SInv, Types, Channel
    <3>5. K \subseteq Connection /\ \A x \in K : Live(x) /\ ~closing[x]
      BY <1>2, <2>1, <3>2
    <3>6. /\ (\A x \in Connection : pending[x] = 0 => p[x] = 0) /\ pending' = p
          /\ UNCHANGED <<fdOf, owner, listener, servers, closer>>
          /\ \A s \in Server : serverPc'[s] = "closed" <=> serverPc[s] = "closed"
      BY <1>2, <1>4, <3>1
    <3>7. /\ connections' \in [Server -> [Fd -> Connection \cup {None}]]
          /\ serverConnections' \in [Fd -> Connection \cup {None}]
          /\ descriptor' \in [Fd -> Channel \cup {None}]
          /\ active' \in [Connection -> BOOLEAN]
          /\ closePc' \in [Connection -> {"none", "graceful", "forced", "drain", "closed"}]
          /\ cancelled' \subseteq inflight
          /\ Made' /\ Maps' /\ \A f : Unserved(f) => Unserved(f)'
          /\ \A x \in Connection : ClosingAt(x)'
      BY <1>4, <3>3, <3>4, <3>5, <3>6, BeginCloseInv DEF SInv
    <3> QED
      BY <3>4, <3>6, <3>7 DEF SInv, Types
  <2>2. CASE ~(active[k] /\ res # "positive" /\ ~closing[k])
    <3>1. /\ Settle(k)
          /\ UNCHANGED <<closing, closePc, registryVars, descriptor, cancelled>>
      BY <2>2 DEF Notify
    <3>2. UNCHANGED <<connections, serverConnections>>
      BY <3>1 DEF registryVars
    <3>3. /\ closer' = [closer EXCEPT ![k] = @ \/ LastCompletion(k)]
          /\ active' = [active EXCEPT ![k] = @ /\ ~LastCompletion(k)]
      BY <3>1 DEF Settle
    <3>4. LastCompletion(k) \in BOOLEAN /\ (LastCompletion(k) => closing[k] /\ pending[k] = 1)
      BY <1>5 DEF LastCompletion, SInv, Types
    <3>5. /\ active' \in [Connection -> BOOLEAN] /\ closer' \in [Connection -> BOOLEAN]
          /\ \A x \in Connection : x # k => active'[x] = active[x] /\ closer'[x] = closer[x]
          /\ closer'[k] <=> LastCompletion(k)
          /\ active'[k] <=> active[k] /\ ~LastCompletion(k)
      <4> HIDE DEF LastCompletion
      <4> QED
        BY <1>2, <1>6, <3>3, <3>4 DEF SInv, Types
    <3>6. ClosingAt(k)'
      BY <1>2, <1>4, <1>6, <3>1, <3>4, <3>5 DEF SInv, Closing, ClosingAt
    <3>7. \A x \in Connection : x # k => ClosingAt(x)'
      BY <1>4, <3>1, <3>5 DEF SInv, Closing, ClosingAt
    <3>8. Made' /\ Maps' /\ \A f : Unserved(f) => Unserved(f)'
      BY <3>1, <3>2 DEF SInv, Made, Maps, MapsAgree, Live, Unserved
    <3> QED
      BY <3>1, <3>2, <3>5, <3>6, <3>7, <3>8 DEF SInv, Types, BaseInv, RingInv
  <2> QED
    BY <2>1, <2>2
<1>8. RingInv' /\ Outstanding' = Outstanding \ {op}
  <2>1. RingInv' /\ Outstanding' = (Outstanding \ {op}) \cup {}
    <3>1. /\ RingInv /\ IsFiniteSet({}) /\ inflight' = inflight \cup {} /\ cancelled' \subseteq inflight'
          /\ {} \cap (Outstanding \ {Head(cq).op}) = {}
      BY <1>7, FS_EmptySet DEF SInv, BaseInv
    <3> QED
      BY <3>1, TakeRing
  <2> QED
    BY <2>1
<1>9. BaseInv' /\ (B!Next \/ UNCHANGED bufferVars)
  <2>1. CASE active[k] /\ op.event = "read" /\ res = "positive"
    <3>1. payloads' = payloads \cup {op.task} /\ UNCHANGED bufferVars
      BY <2>1 DEF Notify
    <3> QED
      BY <1>1, <1>8, <2>1, <3>1, PayloadBase DEF SInv
  <2>2. CASE ~(active[k] /\ op.event = "read" /\ res = "positive")
    <3>1. B!Release(op.task, op.buf) /\ UNCHANGED payloads
      BY <2>2 DEF Notify
    <3>2. op.task \in Task /\ op.buf \in got[op.task] /\ op.task \notin payloads /\ op = Transfer(op.task, op.buf)
      BY <1>1 DEF IsTransfer, Submitted
    <3>3. op.buf \in Buffer
      BY <3>2, PoolFacts DEF SInv, BaseInv
    <3>4. ASSUME NEW o \in Outstanding', o.task = op.task PROVE o.buf # op.buf
      <4>1. o \in Outstanding /\ o # op
        BY <1>8
      <4>2. o = Transfer(o.task, o.buf)
        BY <3>2, <3>4, <4>1, Kinds DEF SInv, IsTransfer
      <4> QED
        BY <3>2, <3>4, <4>1, <4>2
    <3>5. payloads' = payloads \ {op.task} /\ Outstanding' \subseteq Outstanding
      BY <1>8, <3>1, <3>2
    <3> QED
      BY <1>8, <3>1, <3>2, <3>3, <3>4, <3>5, ReleaseBase DEF SInv
  <2> QED
    BY <2>1, <2>2
<1>10. Types'
  BY <1>4, <1>7 DEF SInv, Types
<1>11. Accepted'
  BY <1>7, AcceptedTail DEF SInv, BaseInv
<1>12. Closing'
  <2>1. ASSUME NEW x \in Connection, owner[x] # None PROVE ClosingWith(x)'
    <3>1. owner[x] \in Server /\ ClosingWith(x)
      BY <2>1 DEF SInv, BaseInv, Closing
    <3>2. serverPc[owner[x]] = "closed" => pending'[x] = 0
      BY <1>4, <1>6, <3>1 DEF ClosingWith
    <3> QED
      BY <1>7, <3>1, <3>2 DEF ClosingWith
  <2>2. /\ \A s \in Server : closing'[s] <=> serverPc'[s] # "none"
        /\ \A s \in Server : fdOf'[s] = None => ~closing'[s]
    BY <1>7 DEF SInv, Closing
  <2> QED
    BY <1>7, <2>1, <2>2 DEF Closing
<1>13. PendingCounts'
  <2>1. OutstandingOf(k)' = OutstandingOf(k) \ {op} /\ op \in OutstandingOf(k)
    BY <1>1, <1>2, <1>8 DEF OutstandingOf
  <2>2. \A x \in Connection : x # k => OutstandingOf(x)' = OutstandingOf(x)
    BY <1>2, <1>8 DEF OutstandingOf
  <2>3. Cardinality(OutstandingOf(k) \ {op}) = Cardinality(OutstandingOf(k)) - 1
    BY <2>1, OutstandingOfFinite, FS_RemoveElement DEF SInv, BaseInv
  <2> QED
    BY <1>2, <1>4, <2>1, <2>2, <2>3 DEF SInv, PendingCounts
<1>14. AcceptLoopAlive'
  <2>1. \A s \in Server : OutstandingOf(s)' = OutstandingOf(s)
    BY <1>2, <1>5, <1>8 DEF OutstandingOf
  <2> QED
    BY <1>7, <2>1 DEF SInv, AcceptLoopAlive
<1> QED
  BY <1>7, <1>9, <1>10, <1>11, <1>12, <1>13, <1>14 DEF SInv

\* What a round of the loop does with the completion of op.
Drops(op) ==
  /\ op.event = "accept" /\ (servers[op.fd] = None \/ closing[servers[op.fd]])
  /\ UNCHANGED <<bufferVars, taskVars, registryVars, channelVars, closeVars, pending,
                 inflight, cancelled>>
AcceptsNext(op, res, known) ==
  /\ op.event = "accept" /\ servers[op.fd] # None /\ ~closing[servers[op.fd]]
  /\ NotifyAccept(servers[op.fd], op, res, known)
  /\ UNCHANGED <<bufferVars, req, refused, payloads, pending, active, closer, closing, closePc,
                 descriptor, cancelled, listener, servers, serverPc, awaited>>
TransferEnds(op, res, known) ==
  /\ op.event # "accept" /\ Notify(serverConnections[op.fd], op, res, known)
  /\ UNCHANGED <<fdOf, owner, inflight, req, refused, listener, servers, serverPc, awaited>>

LEMMA HandleAt ==
  ASSUME SInv, HandleCqe
  PROVE  /\ TakeCqe
         /\ \E op, res, known :
              /\ op = Head(cq).op /\ res = Head(cq).res
              /\ Drops(op) \/ AcceptsNext(op, res, known) \/ TransferEnds(op, res, known)
<1>1. PICK op, res, known : op = Head(cq).op /\ res = Head(cq).res /\ known = RemoveEvent(Data(op))
  OBVIOUS
<1>2. /\ TakeCqe
      /\ \/ /\ op.event = "accept" /\ servers[op.fd] # None
            /\ NotifyAccept(servers[op.fd], op, res, known)
            /\ UNCHANGED <<bufferVars, payloads, pending, active, closer, closing, closePc, descriptor, cancelled>>
         \/ /\ op.event # "accept" /\ serverConnections[op.fd] # None
            /\ Notify(serverConnections[op.fd], op, res, known)
            /\ UNCHANGED <<fdOf, owner, inflight>>
         \/ /\ (IF op.event = "accept" THEN servers ELSE serverConnections)[op.fd] = None
            /\ UNCHANGED <<bufferVars, payloads, pending, active, closer, closing, closePc, descriptor, cancelled,
                           registryVars, fdOf, owner, inflight>>
      /\ UNCHANGED <<req, refused, listener, servers, serverPc, awaited>>
  BY <1>1 DEF HandleCqe
<1>3. op \in Outstanding /\ (op.event # "accept" => IsTransfer(op))
  BY <1>1, <1>2, HeadOfQueue, Kinds DEF SInv
<1>4. op.event # "accept" => serverConnections[op.fd] # None
  BY <1>3, TransferLive, ServerAssumption
<1>5. Drops(op) \/ AcceptsNext(op, res, known) \/ TransferEnds(op, res, known)
  <2>1. CASE /\ op.event = "accept" /\ servers[op.fd] # None
             /\ NotifyAccept(servers[op.fd], op, res, known)
             /\ UNCHANGED <<bufferVars, payloads, pending, active, closer, closing, closePc, descriptor, cancelled>>
    <3>1. CASE closing[servers[op.fd]]
      <4>1. UNCHANGED <<fdOf, owner, registryVars, inflight>>
        BY <2>1, <3>1 DEF NotifyAccept
      <4> QED
        BY <1>2, <2>1, <3>1, <4>1 DEF Drops, taskVars, channelVars, closeVars
    <3>2. CASE ~closing[servers[op.fd]]
      BY <1>2, <2>1, <3>2 DEF AcceptsNext
    <3> QED
      BY <3>1, <3>2
  <2>2. CASE /\ op.event # "accept" /\ serverConnections[op.fd] # None
             /\ Notify(serverConnections[op.fd], op, res, known)
             /\ UNCHANGED <<fdOf, owner, inflight>>
    BY <1>2, <2>2 DEF TransferEnds
  <2>3. CASE /\ (IF op.event = "accept" THEN servers ELSE serverConnections)[op.fd] = None
             /\ UNCHANGED <<bufferVars, payloads, pending, active, closer, closing, closePc, descriptor, cancelled,
                            registryVars, fdOf, owner, inflight>>
    BY <1>2, <1>4, <2>3 DEF Drops, taskVars, channelVars, closeVars
  <2> QED
    BY <1>2, <2>1, <2>2, <2>3
<1> QED
  BY <1>1, <1>2, <1>5

LEMMA HandleCqeInv ==
  ASSUME SInv, HandleCqe
  PROVE  SInv' /\ (B!Next \/ UNCHANGED bufferVars)
<1>1. PICK op, res, known :
        /\ op = Head(cq).op /\ res = Head(cq).res /\ TakeCqe
        /\ Drops(op) \/ AcceptsNext(op, res, known) \/ TransferEnds(op, res, known)
  BY HandleAt
<1>2. CASE Drops(op)
  <2>1. PICK s : s = servers[op.fd]
    OBVIOUS
  <2> QED
    BY <1>1, <1>2, <2>1, DropAcceptInv DEF Drops
<1>3. CASE AcceptsNext(op, res, known)
  <2>1. PICK s : s = servers[op.fd]
    OBVIOUS
  <2>2. NotifyAccept(s, op, res, known)
    BY <1>3, <2>1, Zenon DEF AcceptsNext
  <2> QED
    BY <1>1, <1>3, <2>1, <2>2, NextAcceptInv DEF AcceptsNext
<1>4. CASE TransferEnds(op, res, known)
  <2>1. PICK k : k = serverConnections[op.fd]
    OBVIOUS
  <2>2. Notify(k, op, res, known)
    BY <1>4, <2>1, Zenon DEF TransferEnds
  <2> QED
    BY <1>1, <1>4, <2>1, <2>2, TransferEndsInv DEF TransferEnds
<1> QED
  BY <1>1, <1>2, <1>3, <1>4

-----------------------------------------------------------------------------
(* Every reachable state.                                                    *)

LEMMA InitSInv == Init => SInv
<1> SUFFICES ASSUME Init PROVE SInv
  OBVIOUS
<1>1. BaseInv /\ Outstanding = {} /\ cq = <<>>
  BY InitBase
<1>2. /\ \A k \in Connection : /\ listener[k] = None /\ owner[k] = None /\ fdOf[k] = None
                               /\ pending[k] = 0 /\ active[k] /\ ~closer[k] /\ ~closing[k] /\ closePc[k] = "none"
      /\ \A s \in Server : /\ fdOf[s] = None /\ ~closing[s] /\ serverPc[s] = "none"
                           /\ \A f \in Fd : connections[s][f] = None
      /\ \A f \in Fd : servers[f] = None /\ serverConnections[f] = None /\ descriptor[f] = None
  BY DEF Init, Channel
<1>3. None \notin Connection
  BY ServerAssumption
<1>4. Types
  BY DEF Init, Types
<1>5. Made
  BY <1>2, <1>3 DEF Made
<1>6. Maps
  BY <1>2 DEF Maps, MapsAgree, Live
<1>7. Accepted
  BY <1>1 DEF Accepted
<1>8. Closing
  BY <1>2 DEF Closing, ClosingAt
<1>9. PendingCounts
  <2>1. \A k : OutstandingOf(k) = {}
    BY <1>1 DEF OutstandingOf
  <2> QED
    BY <1>2, <2>1, FS_EmptySet DEF PendingCounts
<1>10. AcceptLoopAlive
  BY <1>2 DEF AcceptLoopAlive
<1> QED
  BY <1>1, <1>4, <1>5, <1>6, <1>7, <1>8, <1>9, <1>10 DEF SInv

LEMMA NextSInv ==
  ASSUME SInv, [Next]_vars
  PROVE  SInv' /\ [B!Next]_bufferVars
<1>1. ASSUME NEW s \in Server, Open(s) PROVE SInv' /\ UNCHANGED bufferVars
  BY <1>1, OpenInv DEF Open
<1>2. ASSUME NEW s \in Server, NEW graceful \in BOOLEAN, CloseServer(s, graceful)
      PROVE  SInv' /\ UNCHANGED bufferVars
  BY <1>2, CloseServerInv DEF CloseServer
<1>3. ASSUME NEW s \in Server, FinishServer(s) PROVE SInv' /\ UNCHANGED bufferVars
  BY <1>3, FinishServerInv DEF FinishServer
<1>4. ASSUME NEW k \in Connection, NEW t \in Task, NEW kind \in {"read", "write"}, NEW n \in 1..MaxWant,
             Request(t, k, kind, n)
      PROVE  SInv' /\ B!Next
  BY <1>4, RequestInv, RequestBase DEF SInv
<1>5. ASSUME NEW k \in Connection, NEW graceful \in BOOLEAN, CloseConnection(k, graceful)
      PROVE  SInv' /\ UNCHANGED bufferVars
  BY <1>5, CloseConnectionInv DEF CloseConnection
<1>6. ASSUME NEW k \in Connection, GracefulTimeout(k) PROVE SInv' /\ UNCHANGED bufferVars
  BY <1>6, GracefulTimeoutInv DEF GracefulTimeout
<1>7. ASSUME NEW k \in Connection, ResumeClose(k) PROVE SInv' /\ UNCHANGED bufferVars
  BY <1>7, ResumeCloseInv DEF ResumeClose
<1>8. ASSUME NEW k \in Connection, EndClose(k) PROVE SInv' /\ UNCHANGED bufferVars
  BY <1>8, EndCloseInv DEF EndClose
<1>9. ASSUME NEW t \in Task, Resume(t) PROVE SInv' /\ B!Next
  BY <1>9, ResumeInv, ResumeBase DEF SInv
<1>10. ASSUME NEW t \in Task, ReleasePayload(t) PROVE SInv' /\ B!Next
  BY <1>10, ReleasePayloadInv
<1>11. ASSUME NEW op \in inflight, CompleteAccept(op) PROVE SInv' /\ UNCHANGED bufferVars
  BY <1>11, CompleteAcceptInv DEF CompleteAccept
<1>12. ASSUME NEW op \in inflight, CompleteData(op) PROVE SInv' /\ UNCHANGED bufferVars
  BY <1>12, CompleteDataInv DEF CompleteData
<1>13. ASSUME CheckEventTimeouts PROVE SInv' /\ UNCHANGED bufferVars
  BY <1>13, CheckEventTimeoutsInv DEF CheckEventTimeouts
<1>14. ASSUME Peek PROVE SInv' /\ UNCHANGED bufferVars
  BY <1>14, PeekInv DEF Peek
<1>15. ASSUME UNCHANGED vars PROVE SInv' /\ UNCHANGED bufferVars
  <2>1. UNCHANGED <<bufferVars, taskVars, registryVars, channelVars, closeVars, ringVars, pending>>
    BY <1>15 DEF vars
  <2>2. UNCHANGED <<inflight, cq, batch, cancelled, fdOf, owner>>
    BY <2>1 DEF ringVars, channelVars
  <2>3. BaseInv' /\ Outstanding' = Outstanding
    BY <2>1, <2>2, CancelBase DEF SInv, BaseInv, RingInv
  <2> QED
    BY <2>1, <2>2, <2>3, SameInv
<1> QED
  BY <1>1, <1>2, <1>3, <1>4, <1>5, <1>6, <1>7, <1>8, <1>9, <1>10, <1>11, <1>12, <1>13, <1>14, <1>15,
     HandleCqeInv DEF Next

LEMMA Invariance == Spec => [](SInv) /\ B!Init /\ [][B!Next]_bufferVars
<1>1. Init => SInv /\ B!Init
  BY InitSInv DEF Init
<1>2. SInv /\ [Next]_vars => SInv' /\ [B!Next]_bufferVars
  BY NextSInv
<1> QED
  BY <1>1, <1>2, PTL DEF Spec

\* The variables keep their types.
THEOREM TypeCorrect == Spec => []TypeOK
<1>1. SInv => TypeOK
  <2> SUFFICES ASSUME SInv PROVE TypeOK
    OBVIOUS
  <2>1. B!TypeOK
    <3>1. BP!TypeOK
      BY DEF SInv, BaseInv, BP!PInv, BP!RInv, BP!IInv
    <3> QED
      BY <3>1 DEF B!TypeOK, BP!TypeOK, B!Buffer, BP!Buffer
  <2>2. RingTypeOK
    BY DEF SInv, BaseInv, RingInv, RingTypeOK
  <2> QED
    BY <2>1, <2>2 DEF SInv, BaseInv, Types, TypeOK
<1> QED
  BY <1>1, Invariance, PTL

\* Under the requests of any number of connections, a buffer is free once or held
\* by one request, and no request waits in TransportBuffers.allocate beside a
\* free buffer.
THEOREM BuffersOwned == Spec => [](B!BufferOwnership /\ B!NoLostWakeup)
<1>1. SInv => B!BufferOwnership /\ B!NoLostWakeup
  <2> SUFFICES ASSUME SInv PROVE B!BufferOwnership /\ B!NoLostWakeup
    OBVIOUS
  <2>1. BP!BufferOwnership /\ BP!NoLostWakeup
    BY DEF SInv, BaseInv, BP!PInv, BP!RInv, BP!IInv
  <2> QED
    BY <2>1
    DEF BP!BufferOwnership, B!BufferOwnership, BP!Injective, B!Injective, BP!InSeq, B!InSeq,
        BP!Buffer, B!Buffer, BP!NoLostWakeup, B!NoLostWakeup
<1> QED
  BY <1>1, Invariance, PTL

\* The maps of the servers, the registry and the kernel's table hold the same
\* connections, each under its own descriptor, however descriptors are reused.
THEOREM MapsAlwaysAgree == Spec => []MapsAgree
<1>1. SInv => MapsAgree
  BY DEF SInv, Maps
<1> QED
  BY <1>1, Invariance, PTL

\* _pending of a connection is exact, and results reach the connection and the
\* request that asked for them.
THEOREM OperationsAreAccounted == Spec => []OperationsAccounted
<1>1. SInv => OperationsAccounted
  <2> SUFFICES ASSUME SInv PROVE OperationsAccounted
    OBVIOUS
  <2>1. PendingExact
    BY DEF SInv, PendingCounts, PendingExact
  <2>2. ASSUME NEW op \in Outstanding, op.event # "accept"
        PROVE  serverConnections[op.fd] = op.of /\ op.buf \in got[op.task]
    BY <2>2, Kinds, TransferLive DEF SInv, IsTransfer
  <2> QED
    BY <2>1, <2>2 DEF OperationsAccounted, CompletionReachesIssuer
<1> QED
  BY <1>1, Invariance, PTL

\* A closing server leaves no connection open, and a closed one none with an
\* operation under way.
THEOREM ServersCloseConnections == Spec => []ClosingServerClosesConnections
<1>1. SInv => ClosingServerClosesConnections
  <2> SUFFICES ASSUME SInv, NEW k \in Connection, owner[k] # None
               PROVE  /\ closing[owner[k]] => closing[k]
                      /\ serverPc[owner[k]] = "closed" => OutstandingOf(k) = {}
    BY DEF ClosingServerClosesConnections
  <2>1. ClosingWith(k)
    BY DEF SInv, Closing
  <2>2. pending[k] = 0 => OutstandingOf(k) = {}
    BY OutstandingOfFinite, FS_EmptySet DEF SInv, BaseInv, PendingCounts
  <2> QED
    BY <2>1, <2>2 DEF ClosingWith
<1> QED
  BY <1>1, Invariance, PTL

\* No error ends the loop of accepts of an open server, not even the result of
\* an accept that another server left behind on the same descriptor.
THEOREM AcceptLoopStaysAlive == Spec => []AcceptLoopAlive
<1>1. SInv => AcceptLoopAlive
  BY DEF SInv
<1> QED
  BY <1>1, Invariance, PTL

-----------------------------------------------------------------------------
(* The life of a connection is that of a channel.                            *)

\* The steps of ChannelLifecycle for one connection, with _pending.
LifeStep(k) ==
  \/ Phase(k) = "new" /\ Phase(k)' = "open" /\ pending'[k] \in {0, 1}
  \/ Phase(k) = "open" /\ Phase(k)' = "open" /\ pending'[k] > pending[k]
  \/ /\ pending[k] > 0 /\ pending'[k] = pending[k] - 1
     /\ \/ Phase(k)' = Phase(k)
        \/ Phase(k) = "open" /\ Phase(k)' = "closing"
        \/ Phase(k) = "open" /\ Phase(k)' = "closed" /\ pending'[k] = 0
  \/ Phase(k) = "open" /\ Phase(k)' = "closing" /\ pending'[k] = pending[k]
  \/ /\ Phase(k) \in {"open", "closing"} /\ Phase(k)' = "closed"
     /\ pending[k] = 0 /\ pending'[k] = 0
  \/ Phase(k)' = Phase(k) /\ pending'[k] = pending[k]

\* Neither close() nor its end is taken back; operations end one by one, and
\* begin while the connection is open.
LEMMA LifeOf ==
  ASSUME SInv, SInv', NEW k \in Connection,
         closing[k] => closing'[k], closePc[k] = "closed" => closePc'[k] = "closed",
         \/ owner'[k] = owner[k] /\ pending'[k] = pending[k]
         \/ /\ owner'[k] = owner[k] /\ pending[k] > 0 /\ pending'[k] = pending[k] - 1
            /\ closing[k] => closePc'[k] = closePc[k]
         \/ /\ owner'[k] = owner[k] /\ owner[k] # None /\ ~closing'[k] /\ pending'[k] > pending[k]
         \/ owner[k] = None /\ owner'[k] # None /\ ~closing'[k] /\ pending'[k] = 0
  PROVE  LifeStep(k)
<1>1. ClosingAt(k) /\ ClosingAt(k)' /\ pending[k] \in Nat /\ pending'[k] \in Nat
  BY DEF SInv, Closing, Types
<1> QED
  BY <1>1 DEF LifeStep, Phase, ClosingAt

\* Only the connections that begin to close move in close().
LEMMA BeginCloseOthers ==
  ASSUME NEW K, NEW graceful, NEW p, NEW known, BeginClose(K, graceful, p, known),
         NEW k \in Connection, k \notin K
  PROVE  closePc'[k] = closePc[k]
BY DEF BeginClose

LEMMA NextLife ==
  ASSUME SInv, SInv', [Next]_vars, NEW k \in Connection
  PROVE  LifeStep(k)
<1>1. /\ pending \in [Connection -> Nat] /\ closing \in [Channel -> BOOLEAN] /\ k \in Channel
      /\ closePc \in [Connection -> {"none", "graceful", "forced", "drain", "closed"}]
      /\ owner \in [Connection -> Server \cup {None}]
      /\ closing[k] <=> closePc[k] # "none"
  BY DEF SInv, Types, Channel, BaseInv, Closing, ClosingAt
<1>2. ASSUME UNCHANGED <<owner, closing, closePc, pending>> PROVE LifeStep(k)
  BY <1>2, LifeOf
<1>3. ASSUME NEW t \in Task, Issued(t), UNCHANGED <<owner, closing, closePc>>,
             req'[t] \in RequestType, owner[req'[t].connection] # None
      PROVE  LifeStep(k)
  <2>1. PICK x, n : x = req'[t].connection /\ n = req'[t].count
    OBVIOUS
  <2>2. x \in Connection /\ n \in Nat /\ n > 0 /\ owner[x] # None
    BY <1>3, <2>1, PoolAssumption DEF RequestType
  <2>3. CASE pending' = pending
    BY <1>2, <1>3, <2>3
  <2>4. CASE ~closing[x] /\ pending' = [pending EXCEPT ![x] = @ + n]
    <3>1. pending'[k] = IF k = x THEN pending[k] + n ELSE pending[k]
      BY <1>1, <2>4
    <3>2. k = x => pending'[k] > pending[k]
      BY <1>1, <2>2, <3>1
    <3> QED
      BY <1>3, <2>2, <2>4, <3>1, <3>2, LifeOf
  <2> QED
    BY <1>3, <2>1, <2>3, <2>4 DEF Issued
<1>4. ASSUME \/ \E t \in Task, x \in Connection, kind \in {"read", "write"}, n \in 1..MaxWant :
                  Request(t, x, kind, n)
             \/ \E t \in Task : Resume(t)
      PROVE  LifeStep(k)
  <2>1. PICK t \in Task : Issued(t) /\ req'[t] \in RequestType /\ owner[req'[t].connection] # None
    BY <1>4, RequestBase, ResumeBase DEF SInv
  <2>2. UNCHANGED <<owner, closing, closePc>>
    BY <1>4 DEF Request, Resume, channelVars, closeVars
  <2> QED
    BY <1>3, <2>1, <2>2
<1>5. ASSUME NEW x \in Connection, NEW graceful \in BOOLEAN, CloseConnection(x, graceful)
      PROVE  LifeStep(k)
  <2>1. /\ ~closing[x] /\ closing' = [closing EXCEPT ![x] = TRUE]
        /\ BeginClose({x}, graceful, pending, events) /\ UNCHANGED <<owner, pending>>
    BY <1>5 DEF CloseConnection
  <2>2. k # x => closePc'[k] = closePc[k]
    <3>1. PICK K, p, known : K = {x} /\ p = pending /\ known = events
      OBVIOUS
    <3>2. BeginClose(K, graceful, p, known)
      BY <2>1, <3>1, Zenon
    <3> QED
      BY <3>1, <3>2, BeginCloseOthers
  <2>3. closing[k] => closing'[k]
    BY <1>1, <2>1
  <2> QED
    BY <1>1, <2>1, <2>2, <2>3, LifeOf
<1>6. ASSUME NEW s \in Server, NEW graceful \in BOOLEAN, CloseServer(s, graceful)
      PROVE  LifeStep(k)
  <2>1. PICK K, p, known : /\ K = {x \in Connection : (\E f \in Fd : connections[s][f] = x) /\ ~closing[x]}
                           /\ p = pending /\ known = events
    OBVIOUS
  <2>2. /\ closing' = [x \in Channel |-> closing[x] \/ x = s \/ x \in K]
        /\ BeginClose(K, graceful, pending, events) /\ UNCHANGED <<owner, pending>>
    BY <1>6, <2>1 DEF CloseServer
  <2>3. k \notin K => closePc'[k] = closePc[k]
    <3>1. BeginClose(K, graceful, p, known)
      BY <2>1, <2>2, Zenon
    <3> QED
      BY <3>1, BeginCloseOthers
  <2>4. k \in K => ~closing[k]
    BY <2>1
  <2>5. closing[k] => closing'[k]
    BY <1>1, <2>2
  <2> QED
    BY <1>1, <2>2, <2>3, <2>4, <2>5, LifeOf
<1>7. ASSUME NEW x \in Connection, GracefulTimeout(x) \/ ResumeClose(x) \/ EndClose(x)
      PROVE  LifeStep(k)
  <2>1. /\ closePc[x] # "closed" /\ UNCHANGED <<owner, closing, pending>>
        /\ \E pc : closePc' = [closePc EXCEPT ![x] = pc]
    BY <1>7 DEF GracefulTimeout, ResumeClose, EndClose, channelVars
  <2>2. closePc[k] = "closed" => closePc'[k] = "closed"
    BY <1>1, <2>1
  <2> QED
    BY <2>1, <2>2, LifeOf
<1>8. ASSUME HandleCqe PROVE LifeStep(k)
  <2>1. PICK op, res, known :
          /\ op = Head(cq).op /\ res = Head(cq).res /\ TakeCqe
          /\ Drops(op) \/ AcceptsNext(op, res, known) \/ TransferEnds(op, res, known)
    BY <1>8, HandleAt
  <2>2. CASE Drops(op)
    BY <1>2, <2>2 DEF Drops, channelVars, closeVars
  <2>3. CASE AcceptsNext(op, res, known)
    <3>1. UNCHANGED <<closing, closePc, pending>>
      BY <2>3 DEF AcceptsNext
    <3>2. owner' = owner \/ (res # None /\ owner' = [owner EXCEPT ![descriptor[res]] = servers[op.fd]])
      BY <2>3 DEF AcceptsNext, NotifyAccept, AddConnection
    <3>3. CASE k = descriptor[res] /\ res # None /\ owner'[k] # owner[k]
      <4>1. Unserved(res)
        BY <2>1, <2>3, <3>3, HeadOfQueue DEF AcceptsNext
      <4>2. owner[k] = None
        BY <3>3, <4>1 DEF Unserved
      <4>3. ~closing[k]
        BY <4>2 DEF SInv, Closing, ClosingAt
      <4>4. OutstandingOf(k) = {}
        <5>1. ASSUME NEW o \in Outstanding, o.of = k PROVE FALSE
          BY <4>2, <5>1, Kinds, ServerAssumption DEF SInv
        <5> QED
          BY <5>1 DEF OutstandingOf
      <4>5. pending[k] = 0
        BY <4>4, FS_EmptySet DEF SInv, PendingCounts
      <4> QED
        BY <3>1, <3>3, <4>2, <4>3, <4>5, LifeOf
    <3>4. CASE owner'[k] = owner[k]
      BY <3>1, <3>4, LifeOf
    <3> QED
      BY <1>1, <3>2, <3>3, <3>4
  <2>4. CASE TransferEnds(op, res, known)
    <3>1. PICK x, p : x = serverConnections[op.fd] /\ p = [pending EXCEPT ![x] = @ - 1]
      OBVIOUS
    <3>2. Notify(x, op, res, known) /\ owner' = owner
      BY <2>4, <3>1, Zenon DEF TransferEnds
    <3>3. op \in Outstanding /\ IsTransfer(op)
      BY <2>1, <2>4, HeadOfQueue, Kinds DEF SInv, TransferEnds
    <3>4. x \in Connection /\ pending[x] >= 1
      BY <3>1, <3>3, TransferLive
    <3>5. pending' = p /\ pending'[x] = pending[x] - 1 /\ (k # x => pending'[k] = pending[k])
      BY <1>1, <3>1, <3>2, <3>4 DEF Notify
    <3>6. CASE UNCHANGED <<closing, closePc>>
      BY <3>2, <3>4, <3>5, <3>6, LifeOf, <1>1
    <3>7. CASE ~closing[x] /\ closing' = [closing EXCEPT ![x] = TRUE] /\ BeginClose({x}, FALSE, p, known)
      <4>1. k # x => closePc'[k] = closePc[k]
        <5>1. PICK K : K = {x}
          OBVIOUS
        <5>2. BeginClose(K, FALSE, p, known)
          BY <3>7, <5>1, Zenon
        <5>3. k \notin K => closePc'[k] = closePc[k]
          BY <5>2, BeginCloseOthers
        <5> QED
          BY <5>1, <5>3
      <4>2. closing[k] => closing'[k]
        BY <1>1, <3>7
      <4> QED
        BY <1>1, <3>2, <3>4, <3>5, <3>7, <4>1, <4>2, LifeOf
    <3> QED
      BY <3>2, <3>5, <3>6, <3>7 DEF Notify
  <2> QED
    BY <2>1, <2>2, <2>3, <2>4
<1>9. ASSUME \/ \E s \in Server : Open(s) \/ FinishServer(s)
             \/ \E t \in Task : ReleasePayload(t)
             \/ \E op \in inflight : CompleteAccept(op) \/ CompleteData(op)
             \/ CheckEventTimeouts \/ Peek \/ UNCHANGED vars
      PROVE  UNCHANGED <<owner, closing, closePc, pending>>
  BY <1>9 DEF Open, FinishServer, ReleasePayload, CompleteAccept, CompleteData, CheckEventTimeouts, Peek,
              vars, closeVars, channelVars
<1> QED
  BY <1>2, <1>4, <1>5, <1>6, <1>7, <1>8, <1>9 DEF Next

\* The mapping of ImplementsLifecycle, state by state.
LEMMA LifeMapped ==
  ASSUME SInv, SInv', \A k \in Connection : LifeStep(k)
  PROVE  Lifecycle!Next
<1>1. /\ pending \in [Connection -> Nat] /\ pending' \in [Connection -> Nat]
      /\ [k \in Connection |-> Cardinality(OutstandingOf(k))] = pending
      /\ [k \in Connection |-> Cardinality(OutstandingOf(k)')] = pending'
  BY DEF SInv, Types, PendingCounts
<1>2. \A k \in Connection :
        /\ Phase(k) \in {"new", "open", "closing", "closed"}
        /\ Phase(k)' \in {"new", "open", "closing", "closed"}
  BY DEF Phase
<1> DEFINE ph == [k \in Connection |-> Phase(k)]
<1>3. \A k \in Connection : ph[k] = Phase(k) /\ ph'[k] = Phase(k)'
  OBVIOUS
<1>4. ph' \in [Connection -> {"new", "open", "closing", "closed"}]
  BY <1>2
<1> QED
  BY <1>1, <1>3, <1>4
     DEF LifeStep, Lifecycle!Next, Lifecycle!Open, Lifecycle!Start, Lifecycle!Finish, Lifecycle!Close,
         Lifecycle!End, Lifecycle!Rest, Lifecycle!Move

\* Connections keep what ChannelLifecycle promises: nothing starts once close()
\* began, and the descriptor is closed when every operation was handed back.
THEOREM ConnectionsImplementLifecycle == Spec => ImplementsLifecycle
<1>1. Init => Lifecycle!Init
  <2>1. ASSUME Init PROVE \A k \in Connection : Phase(k) = "new" /\ OutstandingOf(k) = {}
    BY <2>1, InitBase DEF Init, Phase, OutstandingOf
  <2> QED
    BY <2>1, FS_EmptySet DEF Lifecycle!Init
<1>2. ASSUME SInv, SInv', [Next]_vars PROVE Lifecycle!Next
  BY <1>2, NextLife, LifeMapped
<1> QED
  BY <1>1, <1>2, Invariance, PTL DEF Spec, ImplementsLifecycle, Lifecycle!Spec
=============================================================================
