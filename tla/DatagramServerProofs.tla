------------------------ MODULE DatagramServerProofs ------------------------
(***************************************************************************)
(* Any number of tasks, buffers and senders.                               *)
(*                                                                         *)
(* BaseInv says whose the operations and the buffers are, Closing where    *)
(* close() is, Addressed what the headers of the buffers contain.  That    *)
(* an answer finds the address of its sender when it is submitted needs    *)
(* what Patient says of the application: Promised is stated under it.      *)
(***************************************************************************)
EXTENDS DatagramServer, WorkerRingProofs

BP == INSTANCE TransportBuffersProofs

\* The operations that a request has once it is submitted.
Operation(t, b) == [fd |-> Fd, buf |-> b, event |-> req[t].kind, task |-> t]
OperationsOf(t) == {Operation(t, b) : b \in got[t]}

Requests ==
  \A t \in Task :
    /\ want[t] > 0 => req[t] # None
    /\ B!Waiting(t) => want[t] = req[t].count
    /\ req[t] # None /\ req[t].kind = "receive" => want[t] <= 1
    /\ t \in responders =>
         /\ want[t] > 0 /\ ~B!Waiting(t)
         /\ req[t].kind = "receive" /\ sender[t] \in Sender

\* The kernel has the buffers of requests that were served and submitted.
Operations ==
  /\ \A op \in Outstanding :
       /\ op.task \in Task \ responders /\ op = Operation(op.task, op.buf)
       /\ op.buf \in got[op.task] /\ ~B!Waiting(op.task)
  /\ \A i \in 1..Len(cq) :
       cq[i].op.event = "receive" /\ cq[i].res = "positive" => sender[cq[i].op.task] \in Sender

BaseInv ==
  /\ BP!PInv /\ RingInv
  /\ req \in [Task -> ReceiveType \cup SendType \cup {None}]
  /\ refused \subseteq Task /\ responders \subseteq Task
  /\ sender \in [Task -> Sender \cup {None}]
  /\ address \in [Buffer -> Sender \cup {None}]
  /\ answering \in AnsweringType \cup {None}
  /\ answering # None => answering.answer.count = answering.count
  /\ Requests /\ Operations

\* Where close() is, and what it knows about the pending operations.
Closing ==
  /\ active \in BOOLEAN /\ closing \in BOOLEAN /\ closer \in BOOLEAN
  /\ closePc \in {"none", "begun", "begun gracefully", "graceful", "forced", "drain", "closed"}
  /\ closing <=> closePc # "none"
  /\ closer => closing /\ pending = 0
  /\ closePc \in {"drain", "closed"} => pending = 0

\* The header of a received datagram has the address of its sender.
Received ==
  \A i \in 1..Len(cq) :
    cq[i].op.event = "receive" /\ cq[i].res = "positive" =>
      address[cq[i].op.buf] = sender[cq[i].op.task]

\* The buffer of a responder that was taken is still on top of the stack when
\* the handler goes on to answer, so that the answer begins with it.
OnTop(r) == ids # <<>> /\ ids[Len(ids)] = r.destination /\ address[r.destination] = r.to
Addressed ==
  /\ Received /\ ResponderKeepsSender
  /\ answering # None => OnTop(answering.answer)

\* The header that a waiting answer will read belongs to a buffer that the
\* answer has already taken, or that the application holds.
Kept(t) ==
  LET b == req[t].destination IN
  /\ address[b] = req[t].to
  /\ b \in got[t] \/ \E u \in responders : b \in got[u]
Promised ==
  /\ \A op \in Outstanding : op.event = "send" => address[op.buf] = req[op.task].to
  /\ \A t \in Task : B!Waiting(t) /\ req[t].kind = "send" => Kept(t)

DInv == BaseInv /\ Closing /\ Addressed /\ (Patient => Promised) /\ PendingExact

-----------------------------------------------------------------------------
(* The pool, as the actions of the server use it.                            *)
LEMMA SameCount == \A S : BP!Cardinality(S) = Cardinality(S) /\ B!Cardinality(S) = Cardinality(S)
  BY DEF BP!Cardinality, B!Cardinality, Cardinality, BP!IsFiniteSet, IsFiniteSet

\* The pool of the proofs is the pool of the specification.
LEMMA SamePool ==
  /\ BP!Buffer = Buffer
  /\ B!Init <=> BP!Init
  /\ \A t : B!Waiting(t) <=> BP!Waiting(t)
  /\ \A t : B!Waiting(t)' <=> BP!Waiting(t)'
  /\ \A t, n : B!Request(t, n) <=> BP!Request(t, n)
  /\ \A t : B!Resume(t) <=> BP!Resume(t)
  /\ \A t, b : B!Release(t, b) <=> BP!Release(t, b)
<1>1. BP!Buffer = Buffer
  BY DEF Buffer, B!Buffer, BP!Buffer
<1>2. B!Init <=> BP!Init
  BY DEF B!Init, BP!Init, B!InitialIds, BP!InitialIds
<1>3. \A t : B!Waiting(t) <=> BP!Waiting(t)
  BY DEF B!Waiting, BP!Waiting, B!Parked, BP!Parked, B!InSeq, BP!InSeq
<1>4. \A t : B!Waiting(t)' <=> BP!Waiting(t)'
  BY DEF B!Waiting, BP!Waiting, B!Parked, BP!Parked, B!InSeq, BP!InSeq
<1>5. \A t : B!Park(t) <=> BP!Park(t)
  BY DEF B!Park, BP!Park
<1>6. \A k : B!Top(k) = BP!Top(k) /\ (B!Pop(k) <=> BP!Pop(k)) /\ B!Available(k) = BP!Available(k)
  BY DEF B!Top, BP!Top, B!Pop, BP!Pop, B!Available, BP!Available
<1>7. \A t, n : B!Request(t, n) <=> BP!Request(t, n)
  BY <1>5, <1>6 DEF B!Request, BP!Request, B!ReturnArray, BP!ReturnArray, B!Counted, BP!Counted,
       B!Unbounded, BP!Unbounded
<1>8. \A t : B!Resume(t) <=> BP!Resume(t)
  BY <1>5, <1>6, SameCount DEF B!Resume, BP!Resume
<1>9. \A t, b : B!Release(t, b) <=> BP!Release(t, b)
  BY <1>3 DEF B!Release, BP!Release, B!ReleaseBuffer, BP!ReleaseBuffer, B!Holding, BP!Holding
<1> QED
  BY <1>1, <1>2, <1>3, <1>4, <1>7, <1>8, <1>9

LEMMA PoolFacts ==
  ASSUME BP!PInv
  PROVE  /\ got \in [Task -> SUBSET Buffer] /\ want \in [Task -> 0..MaxWant]
         /\ \A t \in Task : IsFiniteSet(got[t]) /\ (want[t] = 0 => got[t] = {})
         /\ \A t, u \in Task : t # u => got[t] \cap got[u] = {}
         /\ \A t \in Task : B!Waiting(t) => want[t] > 0
         /\ \A t \in Task : ~B!Waiting(t) => Cardinality(got[t]) = want[t]
<1>1. \A S : BP!IsFiniteSet(S) <=> IsFiniteSet(S)
  BY DEF BP!IsFiniteSet, IsFiniteSet
<1> QED
  BY <1>1, BP!PoolState, SamePool, SameCount, PoolAssumption

LEMMA PoolTypesNext ==
  ASSUME BP!PInv'
  PROVE  got' \in [Task -> SUBSET Buffer] /\ \A t \in Task : IsFiniteSet(got'[t])
<1>1. got' \in [Task -> SUBSET BP!Buffer]
  BY DEF BP!PInv, BP!RInv, BP!IInv, BP!TypeOK
<1>2. \A S : BP!IsFiniteSet(S) <=> IsFiniteSet(S)
  BY DEF BP!IsFiniteSet, IsFiniteSet
<1>3. \A t \in Task : IsFiniteSet(got'[t])
  BY <1>1, <1>2, BP!BufferFinite, PoolAssumption
<1> QED
  BY <1>1, <1>3, SamePool

\* What the state of the pool says of the buffers, also after a step.
Apart == \A t, u \in Task : t # u => got[t] \cap got[u] = {}
Served == \A t \in Task : ~B!Waiting(t) => Cardinality(got[t]) = want[t]

LEMMA ApartServed == BP!PInv => Apart /\ Served
BY PoolFacts DEF Apart, Served

LEMMA ApartServedNext == BP!PInv' => Apart' /\ Served'
BY ApartServed, PTL

LEMMA RequestPool ==
  ASSUME BP!PInv, NEW t \in Task, NEW n \in 1..MaxWant, B!Request(t, n)
  PROVE  /\ BP!PInv' /\ B!Next
         /\ want[t] = 0 /\ got[t] = {} /\ ~B!Waiting(t)
         /\ want' = [want EXCEPT ![t] = n]
         /\ \A u \in Task \ {t} : got'[u] = got[u] /\ (B!Waiting(u)' <=> B!Waiting(u))
         /\ ~B!Waiting(t)' => n = 1 /\ Cardinality(got'[t]) = n
<1>1. BP!Request(t, n) /\ B!Next
  BY SamePool DEF B!Next
<1> QED
  BY <1>1, BP!PoolRequest, SamePool, SameCount, PoolAssumption

LEMMA ResumePool ==
  ASSUME BP!PInv, NEW t \in Task, B!Resume(t)
  PROVE  /\ BP!PInv' /\ B!Next
         /\ B!Waiting(t) /\ want' = want
         /\ \A u \in Task \ {t} : got'[u] = got[u] /\ (B!Waiting(u)' <=> B!Waiting(u))
         /\ B!Waiting(t)' <=> Cardinality(got'[t]) # want[t]
<1>1. BP!Resume(t) /\ B!Next
  BY SamePool DEF B!Next
<1> QED
  BY <1>1, BP!PoolResume, SamePool, SameCount, PoolAssumption

LEMMA ReleasePool ==
  ASSUME BP!PInv, NEW t \in Task, NEW b \in Buffer, B!Release(t, b)
  PROVE  /\ BP!PInv' /\ B!Next
         /\ b \in got[t] /\ ~B!Waiting(t) /\ want[t] > 0
         /\ want' = [want EXCEPT ![t] = @ - 1]
         /\ got' = [got EXCEPT ![t] = @ \ {b}]
         /\ \A u \in Task : B!Waiting(u)' <=> B!Waiting(u)
<1>1. BP!Release(t, b) /\ B!Next
  BY SamePool DEF B!Next, Buffer
<1> QED
  BY <1>1, BP!PoolRelease, SamePool, PoolAssumption

\* An action that leaves the pool alone.
LEMMA KeepPool ==
  ASSUME UNCHANGED bufferVars
  PROVE  (BP!PInv => BP!PInv') /\ \A t : B!Waiting(t)' <=> B!Waiting(t)
<1>1. BP!vars' = BP!vars
  BY DEF bufferVars, BP!vars
<1>2. BP!PInv => BP!PInv'
  BY <1>1, BP!NextPInv, PoolAssumption
<1> QED
  BY <1>2 DEF bufferVars, B!Waiting, B!Parked, B!InSeq

\* The top of the stack goes to whoever asks for buffers.
LEMMA TopTaken ==
  ASSUME BP!PInv, NEW t \in Task, NEW n \in 1..MaxWant, B!Request(t, n), ids # <<>>
  PROVE  ids[Len(ids)] \in got'[t]
<1>1. got' = [got EXCEPT ![t] = B!Top(B!Available(n))] /\ n >= 1 /\ n \in Nat
  BY PoolAssumption DEF B!Request
<1>2. ids \in Seq(BP!Buffer)
  BY DEF BP!PInv, BP!RInv, BP!IInv, BP!TypeOK
<1>3. Len(ids) \in Nat \ {0}
  BY <1>2
<1>4. B!Available(n) \in 1..Len(ids)
  BY <1>1, <1>3 DEF B!Available
<1>5. ids[Len(ids)] \in B!Top(B!Available(n))
  BY <1>3, <1>4 DEF B!Top
<1> QED
  BY <1>1, <1>5, PoolFacts

\* A buffer on the stack is in nobody's hands.
LEMMA FreeNotHeld ==
  ASSUME BP!PInv, ids # <<>>, NEW t \in Task
  PROVE  ids[Len(ids)] \in Buffer /\ ids[Len(ids)] \notin got[t]
<1>1. ids \in Seq(BP!Buffer) /\ BP!BufferOwnership
  BY DEF BP!PInv, BP!RInv, BP!IInv, BP!TypeOK
<1>2. Len(ids) \in 1..Len(ids) /\ ids[Len(ids)] \in BP!Buffer
  BY <1>1
<1>3. BP!InSeq(ids[Len(ids)], ids)
  BY <1>2 DEF BP!InSeq
<1> QED
  BY <1>1, <1>2, <1>3, SamePool DEF BP!BufferOwnership

\* A buffer that is released is on top of the stack.
LEMMA ReleaseTop ==
  ASSUME BP!PInv, NEW t, NEW b, B!Release(t, b)
  PROVE  ids' # <<>> /\ ids'[Len(ids')] = b
<1>1. ids \in Seq(BP!Buffer) /\ ids' = Append(ids, b)
  BY DEF BP!PInv, BP!RInv, BP!IInv, BP!TypeOK, B!Release, B!ReleaseBuffer
<1> QED
  BY <1>1

-----------------------------------------------------------------------------
(* Whose the operations and the buffers are.                                 *)

LEMMA InitBase == Init => BaseInv /\ Outstanding = {}
<1> SUFFICES ASSUME Init PROVE BaseInv /\ Outstanding = {}
  OBVIOUS
<1>1. BP!PInv
  BY BP!InitPInv, SamePool, PoolAssumption DEF Init
<1>2. RingInv /\ Outstanding = {} /\ cq = <<>>
  BY InitRing DEF Init, RingInit
<1>3. \A t \in Task : want[t] = 0 /\ req[t] = None
  BY DEF Init, B!Init
<1>4. \A t \in Task : ~B!Waiting(t)
  BY <1>1, <1>3, PoolFacts
<1>5. Requests
  BY <1>3, <1>4 DEF Init, Requests
<1> QED
  BY <1>1, <1>2, <1>5 DEF Init, BaseInv, Operations

\* An operation for each of the buffers S.
Each(S, k, t) == {[fd |-> Fd, buf |-> b, event |-> k, task |-> t] : b \in S}

LEMMA OneEach ==
  ASSUME NEW S, IsFiniteSet(S), NEW k, NEW t
  PROVE  IsFiniteSet(Each(S, k, t)) /\ Cardinality(Each(S, k, t)) = Cardinality(S)
<1> DEFINE op(b) == [fd |-> Fd, buf |-> b, event |-> k, task |-> t]
           ops == Each(S, k, t)
           g == [b \in S |-> op(b)]
<1>1. g \in Surjection(S, ops)
  BY DEF Surjection, Each
<1>2. \A a, b \in S : op(a) = op(b) => a = b
  <2>1. \A b \in S : op(b).buf = b
    OBVIOUS
  <2> QED
    BY <2>1
<1>3. g \in Injection(S, ops)
  BY <1>1, <1>2 DEF Injection, Surjection, IsInjective
<1> QED
  BY <1>1, <1>3, FS_Surjection

\* A task that asks for buffers, or waits for them, has no operation and no
\* responder.
LEMMA NoneOutstanding ==
  ASSUME BaseInv, NEW t \in Task, B!Waiting(t) \/ want[t] = 0
  PROVE  (\A op \in Outstanding : op.task # t) /\ t \notin responders
BY PoolFacts DEF BaseInv, Operations, Requests

\* The operations of a request that is served are those of its buffers.
LEMMA StartRing ==
  ASSUME RingInv, NEW t, Start(t, req'[t]), UNCHANGED <<cancelled, cq, batch>>,
         IsFiniteSet(got'[t]), \A op \in Outstanding : op.task # t
  PROVE  /\ RingInv'
         /\ IF closing
              THEN Outstanding' = Outstanding /\ pending' = pending /\ UNCHANGED address
              ELSE /\ Outstanding' = Outstanding \cup OperationsOf(t)'
                   /\ pending' = pending + req'[t].count
                   /\ Addresses(t, req'[t])
<1> DEFINE ops == Each(got'[t], req'[t].kind, t)
<1>1. CASE closing
  <2>1. UNCHANGED <<inflight, events, pending, address>>
    BY <1>1 DEF Start
  <2> QED
    BY <1>1, <2>1, KeepRing DEF RingInv
<1>2. CASE ~closing
  <2>1. Submit(ops, events) /\ Addresses(t, req'[t]) /\ pending' = pending + req'[t].count
    BY <1>2 DEF Start, Count, Each
  <2>2. IsFiniteSet(ops)
    BY OneEach
  <2>3. ops \cap Outstanding = {}
    BY DEF Each
  <2>4. OperationsOf(t)' = ops
    BY DEF OperationsOf, Operation, Each
  <2> HIDE DEF ops
  <2> QED
    BY <1>2, <2>1, <2>2, <2>3, <2>4, SubmitRing
<1> QED
  BY <1>1, <1>2

\* A request either waits or is refused, or has its operations from now on.
Issued(t) ==
  \/ Outstanding' = Outstanding /\ pending' = pending /\ UNCHANGED address
  \/ /\ ~B!Waiting(t)' /\ ~closing
     /\ Outstanding' = Outstanding \cup OperationsOf(t)'
     /\ pending' = pending + req'[t].count
     /\ Addresses(t, req'[t])

LEMMA AddressType ==
  ASSUME BaseInv, NEW t \in Task, req'[t] \in ReceiveType \cup SendType, Issued(t)
  PROVE  address' \in [Buffer -> Sender \cup {None}]
<1>1. CASE Addresses(t, req'[t])
  <2>1. req'[t].kind # "receive" => req'[t].destination \in Buffer
    BY DEF ReceiveType, SendType, Buffer, B!Buffer
  <2> QED
    BY <1>1, <2>1 DEF Addresses, BaseInv
<1> QED
  BY <1>1 DEF Issued, BaseInv

LEMMA IssueBase ==
  ASSUME BaseInv, NEW t \in Task, BP!PInv', RingInv', Issued(t),
         UNCHANGED <<responders, sender, cq>>, refused' \subseteq Task,
         req' \in [Task -> ReceiveType \cup SendType \cup {None}], req'[t] # None,
         answering' \in {answering, None},
         B!Waiting(t) \/ want[t] = 0,
         \A u \in Task \ {t} : /\ req'[u] = req[u] /\ got'[u] = got[u] /\ want'[u] = want[u]
                               /\ B!Waiting(u)' <=> B!Waiting(u),
         want'[t] = req'[t].count
  PROVE  BaseInv'
<1>1. (\A op \in Outstanding : op.task # t) /\ t \notin responders
  BY NoneOutstanding
<1>2. req'[t].kind = "receive" => want'[t] <= 1
  BY DEF ReceiveType, SendType
<1>3. Requests'
  BY <1>1, <1>2 DEF BaseInv, Requests
<1>4. \A op \in Outstanding : /\ op.task \in Task \ responders' /\ op = Operation(op.task, op.buf)'
                              /\ op.buf \in got'[op.task] /\ ~B!Waiting(op.task)'
  BY <1>1 DEF BaseInv, Operations, Operation
<1>5. ASSUME NEW op \in OperationsOf(t)', ~B!Waiting(t)'
      PROVE  /\ op.task \in Task \ responders' /\ op = Operation(op.task, op.buf)'
             /\ op.buf \in got'[op.task] /\ ~B!Waiting(op.task)'
  <2>1. PICK b \in got'[t] : op = Operation(t, b)'
    BY DEF OperationsOf
  <2>2. op.task = t /\ op.buf = b
    BY <2>1 DEF Operation
  <2> QED
    BY <1>1, <1>5, <2>1, <2>2
<1>6. Operations'
  <2>1. \A op \in Outstanding' : /\ op.task \in Task \ responders' /\ op = Operation(op.task, op.buf)'
                                 /\ op.buf \in got'[op.task] /\ ~B!Waiting(op.task)'
    BY <1>4, <1>5 DEF Issued
  <2>2. \A i \in 1..Len(cq) : cq[i].op.event = "receive" /\ cq[i].res = "positive" =>
          sender'[cq[i].op.task] \in Sender
    BY DEF BaseInv, Operations
  <2> QED
    BY <2>1, <2>2 DEF Operations
<1>7. address' \in [Buffer -> Sender \cup {None}]
  BY AddressType DEF BaseInv
<1>8. /\ answering' \in AnsweringType \cup {None}
      /\ answering' # None => answering'.answer.count = answering'.count
  BY DEF BaseInv
<1> QED
  BY <1>3, <1>6, <1>7, <1>8 DEF BaseInv

\* What a task that asks for n buffers leaves, with the facts that the other
\* parts need.
LEMMA AllocateBase ==
  ASSUME BaseInv, NEW t \in Task, NEW n \in 1..MaxWant, NEW r \in ReceiveType \cup SendType,
         r.count = n, Allocate(t, n, r), answering' \in {answering, None},
         UNCHANGED <<responders, sender, cancelled, cq, batch>>
  PROVE  /\ BaseInv' /\ B!Request(t, n) /\ B!Next /\ Issued(t)
         /\ want[t] = 0 /\ ~B!Waiting(t) /\ req' = [req EXCEPT ![t] = r] /\ want'[t] = req'[t].count
         /\ \A u \in Task \ {t} : got'[u] = got[u] /\ (B!Waiting(u)' <=> B!Waiting(u))
<1>1. /\ B!Request(t, n) /\ req' = [req EXCEPT ![t] = r]
      /\ IF ~B!Waiting(t)'
           THEN Start(t, r)
           ELSE UNCHANGED <<refused, inflight, events, pending, address>>
  BY DEF Allocate
<1>2. BP!PInv /\ RingInv
  BY DEF BaseInv
<1>3. /\ BP!PInv' /\ B!Next
      /\ want[t] = 0 /\ got[t] = {} /\ ~B!Waiting(t) /\ want' = [want EXCEPT ![t] = n]
      /\ \A u \in Task \ {t} : got'[u] = got[u] /\ (B!Waiting(u)' <=> B!Waiting(u))
      /\ ~B!Waiting(t)' => n = 1 /\ Cardinality(got'[t]) = n
  BY <1>1, <1>2, RequestPool
<1>4. /\ req'[t] = r /\ r # None
      /\ req' \in [Task -> ReceiveType \cup SendType \cup {None}]
      /\ \A u \in Task \ {t} : req'[u] = req[u] /\ want'[u] = want[u]
      /\ want'[t] = req'[t].count
  BY <1>1, <1>2, <1>3, PoolFacts, DatagramAssumption DEF BaseInv
<1>5. \A op \in Outstanding : op.task # t
  BY <1>3, NoneOutstanding
<1>6. RingInv' /\ Issued(t) /\ refused' \subseteq Task
  <2>1. CASE ~B!Waiting(t)'
    <3>1. Start(t, req'[t]) /\ IsFiniteSet(got'[t])
      BY <1>1, <1>3, <1>4, <2>1, PoolTypesNext
    <3>2. refused' \subseteq Task
      BY <3>1 DEF Start, BaseInv
    <3> QED
      BY <1>2, <1>3, <1>5, <2>1, <3>1, <3>2, StartRing DEF Issued
  <2>2. CASE B!Waiting(t)'
    <3>1. UNCHANGED <<refused, inflight, events, pending, address>>
      BY <1>1, <2>2
    <3>2. RingInv' /\ Outstanding' = Outstanding
      BY <1>2, <3>1, KeepRing DEF RingInv
    <3> QED
      BY <3>1, <3>2 DEF Issued, BaseInv
  <2> QED
    BY <2>1, <2>2
<1>7. BaseInv'
  BY <1>3, <1>4, <1>6, IssueBase
<1> QED
  BY <1>1, <1>3, <1>4, <1>6, <1>7

LEMMA ResumeBase ==
  ASSUME BaseInv, NEW t \in Task, Resume(t)
  PROVE  /\ BaseInv' /\ B!Next /\ Issued(t)
         /\ B!Waiting(t) /\ req' = req /\ want'[t] = req'[t].count
         /\ got[t] \subseteq got'[t] /\ req[t] \in ReceiveType \cup SendType
         /\ \A u \in Task \ {t} : got'[u] = got[u] /\ (B!Waiting(u)' <=> B!Waiting(u))
<1>1. /\ B!Resume(t) /\ UNCHANGED <<req, responderVars, closeVars, cancelled, cq, batch>>
      /\ IF Cardinality(got'[t]) = want'[t]
           THEN Start(t, req[t])
           ELSE UNCHANGED <<refused, inflight, events, pending, address>>
  BY DEF Resume
<1>2. BP!PInv /\ RingInv
  BY DEF BaseInv
<1>3. /\ BP!PInv' /\ B!Next
      /\ B!Waiting(t) /\ want' = want
      /\ \A u \in Task \ {t} : got'[u] = got[u] /\ (B!Waiting(u)' <=> B!Waiting(u))
      /\ B!Waiting(t)' <=> Cardinality(got'[t]) # want[t]
  BY <1>1, <1>2, ResumePool
<1>4. /\ req'[t] = req[t] /\ req'[t] # None /\ want'[t] = req'[t].count
      /\ \A u \in Task \ {t} : req'[u] = req[u] /\ want'[u] = want[u]
      /\ UNCHANGED <<responders, sender, cq, answering>>
  BY <1>1, <1>2, <1>3, PoolFacts DEF BaseInv, Requests, responderVars
<1>5. \A op \in Outstanding : op.task # t
  BY <1>3, NoneOutstanding
<1>6. RingInv' /\ Issued(t) /\ refused' \subseteq Task
  <2>1. CASE Cardinality(got'[t]) = want'[t]
    <3>1. Start(t, req'[t]) /\ IsFiniteSet(got'[t])
      BY <1>1, <1>3, <1>4, <2>1, PoolTypesNext
    <3>2. refused' \subseteq Task
      BY <3>1 DEF Start, BaseInv
    <3>3. ~B!Waiting(t)' /\ UNCHANGED <<cancelled, cq, batch>>
      BY <1>1, <1>3, <2>1
    <3> QED
      BY <1>2, <1>5, <3>1, <3>2, <3>3, StartRing DEF Issued
  <2>2. CASE Cardinality(got'[t]) # want'[t]
    <3>1. UNCHANGED <<refused, inflight, events, pending, address, cancelled, cq, batch>>
      BY <1>1, <2>2
    <3>2. RingInv' /\ Outstanding' = Outstanding
      BY <1>2, <3>1, KeepRing DEF RingInv
    <3> QED
      BY <3>1, <3>2 DEF Issued, BaseInv
  <2> QED
    BY <2>1, <2>2
<1>7. req' \in [Task -> ReceiveType \cup SendType \cup {None}]
  BY <1>1 DEF BaseInv
<1>8. BaseInv'
  BY <1>3, <1>4, <1>6, <1>7, IssueBase
<1>9. got[t] \subseteq got'[t]
  BY <1>1, <1>2, PoolFacts DEF B!Resume
<1>10. req[t] \in ReceiveType \cup SendType
  BY <1>4 DEF BaseInv
<1> QED
  BY <1>1, <1>3, <1>4, <1>6, <1>8, <1>9, <1>10

\* A step that leaves the pool, the requests and the responders alone.
LEMMA KeepBase ==
  ASSUME BaseInv, UNCHANGED <<bufferVars, taskVars, responders, answering>>,
         sender' \in [Task -> Sender \cup {None}], address' \in [Buffer -> Sender \cup {None}],
         \A t \in Task : sender[t] \in Sender => sender'[t] \in Sender,
         RingInv', Outstanding' \subseteq Outstanding,
         \A i \in 1..Len(cq') :
            cq'[i].op.event = "receive" /\ cq'[i].res = "positive" => sender'[cq'[i].op.task] \in Sender
  PROVE  BaseInv'
<1>1. BP!PInv' /\ \A t : B!Waiting(t)' <=> B!Waiting(t)
  BY KeepPool DEF BaseInv
<1>2. got' = got /\ want' = want /\ req' = req /\ refused' = refused
  BY DEF bufferVars, taskVars
<1>3. Requests'
  BY <1>1, <1>2 DEF BaseInv, Requests
<1>4. Operations'
  BY <1>1, <1>2 DEF BaseInv, Operations, Operation
<1> QED
  BY <1>1, <1>2, <1>3, <1>4 DEF BaseInv

\* A step that returns a buffer of a task, whose operation or responder it was.
LEMMA ReleaseBase ==
  ASSUME BaseInv, NEW t \in Task, NEW b \in Buffer, B!Release(t, b),
         UNCHANGED <<taskVars, sender, address>>, RingInv', Outstanding' \subseteq Outstanding,
         responders' = responders \ {t},
         answering' \in AnsweringType \cup {None},
         answering' # None => answering'.answer.count = answering'.count,
         \A op \in Outstanding' : op.task = t => op.buf # b,
         \A i \in 1..Len(cq') :
            cq'[i].op.event = "receive" /\ cq'[i].res = "positive" => sender[cq'[i].op.task] \in Sender
  PROVE  BaseInv'
<1>1. /\ BP!PInv' /\ b \in got[t] /\ ~B!Waiting(t) /\ want[t] > 0
      /\ want' = [want EXCEPT ![t] = @ - 1]
      /\ got' = [got EXCEPT ![t] = @ \ {b}]
      /\ \A u \in Task : B!Waiting(u)' <=> B!Waiting(u)
  BY ReleasePool DEF BaseInv
<1>2. got \in [Task -> SUBSET Buffer] /\ want \in [Task -> 0..MaxWant]
  BY PoolFacts DEF BaseInv
<1>3. req' = req /\ refused' = refused
  BY DEF taskVars
<1>4. Requests'
  <2>1. ASSUME NEW u \in Task
        PROVE  /\ u # t => want'[u] = want[u]
               /\ u = t => ~B!Waiting(u)' /\ want'[u] < want[u]
               /\ want[u] \in Int /\ want'[u] \in Int
    BY <1>1, <1>2, PoolAssumption
  <2> QED
    BY <1>1, <1>3, <2>1 DEF BaseInv, Requests
<1>5. \A u \in Task : \A x : x \in got[u] /\ ~(u = t /\ x = b) => x \in got'[u]
  BY <1>1, <1>2
<1>6. Operations'
  BY <1>1, <1>3, <1>5 DEF BaseInv, Operations, Operation
<1>7. responders' \subseteq Task
  BY DEF BaseInv
<1> QED
  BY <1>1, <1>3, <1>4, <1>6, <1>7 DEF BaseInv

\* A receive is the only operation of its task.
LEMMA ReceiveAlone ==
  ASSUME BaseInv, NEW op \in Outstanding, NEW o \in Outstanding, op.task = o.task,
         op.event = "receive"
  PROVE  op = o /\ want[op.task] = 1
<1> DEFINE t == op.task
<1>1. /\ t \in Task /\ op = Operation(t, op.buf) /\ op.buf \in got[t] /\ ~B!Waiting(t)
      /\ o = Operation(t, o.buf) /\ o.buf \in got[t]
  BY DEF BaseInv, Operations
<1>2. req[t].kind = "receive"
  BY <1>1 DEF Operation
<1> HIDE DEF t
<1>3. Cardinality(got[t]) = want[t] /\ IsFiniteSet(got[t]) /\ want[t] \in 0..MaxWant
  BY <1>1, PoolFacts DEF BaseInv
<1>4. want[t] # 0
  BY <1>1, PoolFacts DEF BaseInv
<1>5. want[t] = 1
  BY <1>1, <1>2, <1>3, <1>4, PoolAssumption DEF BaseInv, Requests
<1>6. \E x : got[t] = {x}
  BY <1>3, <1>5, FS_Singleton
<1> QED
  BY <1>1, <1>5, <1>6 DEF t

\* A completed receive becomes a responder.
LEMMA ResponderBase ==
  ASSUME BaseInv, NEW op \in Outstanding, op.event = "receive", sender[op.task] \in Sender,
         UNCHANGED <<bufferVars, taskVars, sender, answering, address>>,
         responders' = responders \cup {op.task},
         RingInv', Outstanding' = Outstanding \ {op},
         \A i \in 1..Len(cq') :
            cq'[i].op.event = "receive" /\ cq'[i].res = "positive" => sender[cq'[i].op.task] \in Sender
  PROVE  BaseInv'
<1> DEFINE t == op.task
<1>1. BP!PInv' /\ \A u : B!Waiting(u)' <=> B!Waiting(u)
  BY KeepPool DEF BaseInv
<1>2. got' = got /\ want' = want /\ req' = req /\ refused' = refused
  BY DEF bufferVars, taskVars
<1>3. t \in Task /\ ~B!Waiting(t) /\ want[t] = 1 /\ req[t].kind = "receive"
  BY ReceiveAlone DEF BaseInv, Operations, Operation
<1>4. \A o \in Outstanding' : o.task # t
  BY ReceiveAlone
<1>5. Requests'
  BY <1>1, <1>2, <1>3 DEF BaseInv, Requests
<1>6. Operations'
  BY <1>1, <1>2, <1>4 DEF BaseInv, Operations, Operation
<1> QED
  BY <1>1, <1>2, <1>3, <1>5, <1>6 DEF BaseInv

-----------------------------------------------------------------------------
(* What the submission of a request changes of the other parts.              *)

LEMMA IssuePending ==
  ASSUME BaseInv, BaseInv', PendingExact, NEW t \in Task, Issued(t),
         B!Waiting(t) \/ want[t] = 0, want'[t] = req'[t].count
  PROVE  PendingExact'
<1>1. CASE Outstanding' = Outstanding /\ pending' = pending
  BY <1>1 DEF PendingExact
<1>2. CASE /\ ~B!Waiting(t)' /\ Outstanding' = Outstanding \cup OperationsOf(t)'
           /\ pending' = pending + req'[t].count
  <2> DEFINE ops == Each(got'[t], req'[t].kind, t)
  <2>1. OperationsOf(t)' = ops
    BY DEF OperationsOf, Operation, Each
  <2>2. IsFiniteSet(got'[t])
    BY PoolTypesNext DEF BaseInv
  <2>3. Cardinality(got'[t]) = req'[t].count
    BY <1>2, ApartServedNext DEF BaseInv, Served
  <2>4. IsFiniteSet(ops) /\ Cardinality(ops) = req'[t].count
    BY <2>2, <2>3, OneEach
  <2>5. ops \cap Outstanding = {}
    BY NoneOutstanding DEF Each
  <2>6. IsFiniteSet(Outstanding)
    BY OutstandingFinite DEF BaseInv
  <2> HIDE DEF ops
  <2>7. Cardinality(Outstanding \cup ops) = Cardinality(Outstanding) + Cardinality(ops) - Cardinality(Outstanding \cap ops)
    BY <2>4, <2>6, FS_Union
  <2>8. Cardinality(Outstanding \cap ops) = 0
    BY <2>5, FS_EmptySet
  <2>9. Cardinality(Outstanding) \in Nat /\ Cardinality(ops) \in Nat
    BY <2>4, <2>6, FS_CardinalityType
  <2> QED
    BY <1>2, <2>1, <2>4, <2>7, <2>8, <2>9 DEF PendingExact
<1> QED
  BY <1>1, <1>2 DEF Issued

LEMMA IssueClosing ==
  ASSUME Closing, NEW t, Issued(t), UNCHANGED closeVars
  PROVE  Closing'
BY DEF Closing, Issued, closeVars

\* Only the headers of the task's own buffers change.
LEMMA IssueAddress ==
  ASSUME BaseInv, BaseInv', NEW t \in Task, Issued(t), NEW u \in Task \ {t}, NEW b \in got'[u]
  PROVE  address'[b] = address[b]
<1>1. b \notin got'[t]
  BY ApartServedNext DEF BaseInv, Apart
<1>2. b \in Buffer
  BY PoolTypesNext DEF BaseInv
<1> QED
  BY <1>1, <1>2 DEF Issued, Addresses

LEMMA IssueAddressed ==
  ASSUME BaseInv, BaseInv', NEW t \in Task, Issued(t), B!Waiting(t) \/ want[t] = 0,
         Received, ResponderKeepsSender, UNCHANGED <<responders, sender, cq>>,
         \A u \in Task \ {t} : got'[u] = got[u]
  PROVE  Received' /\ ResponderKeepsSender'
<1>1. (\A op \in Outstanding : op.task # t) /\ t \notin responders
  BY NoneOutstanding
<1>2. \A u \in Task \ {t} : \A b \in got[u] : address'[b] = address[b]
  BY IssueAddress
<1>3. ResponderKeepsSender'
  BY <1>1, <1>2 DEF BaseInv, ResponderKeepsSender
<1>4. \A i \in 1..Len(cq) : address'[cq[i].op.buf] = address[cq[i].op.buf]
  BY <1>1, <1>2 DEF BaseInv, Operations, Outstanding
<1> QED
  BY <1>3, <1>4 DEF Received

LEMMA IssuePromised ==
  ASSUME BaseInv, BaseInv', NEW t \in Task, Issued(t), B!Waiting(t) \/ want[t] = 0,
         Promised, UNCHANGED responders,
         \A u \in Task \ {t} : /\ req'[u] = req[u] /\ got'[u] = got[u]
                               /\ B!Waiting(u)' <=> B!Waiting(u),
         req'[t].kind \in {"receive", "send"},
         req'[t].kind = "send" =>
           LET b == req'[t].destination IN
           /\ address[b] = req'[t].to
           /\ b \in got'[t] \/ \E u \in responders : b \in got[u]
  PROVE  Promised'
<1>1. (\A op \in Outstanding : op.task # t) /\ t \notin responders
  BY NoneOutstanding
<1>2. \A u \in Task \ {t} : \A b \in got[u] : address'[b] = address[b]
  BY IssueAddress
<1>3. ASSUME NEW op \in Outstanding, op.event = "send"
      PROVE  address'[op.buf] = req'[op.task].to
  BY <1>1, <1>2, <1>3 DEF BaseInv, Operations, Promised
<1>4. ASSUME NEW op \in OperationsOf(t)', op.event = "send", Addresses(t, req'[t])
      PROVE  address'[op.buf] = req'[op.task].to
  <2>1. PICK b \in got'[t] : op = Operation(t, b)'
    BY DEF OperationsOf
  <2>2. op.task = t /\ op.buf = b /\ req'[t].kind = "send"
    BY <1>4, <2>1 DEF Operation
  <2>3. b \in Buffer
    BY PoolTypesNext DEF BaseInv
  <2> QED
    BY <1>4, <2>2, <2>3 DEF Addresses
<1>5. ASSUME NEW u \in Task, B!Waiting(u)', req'[u].kind = "send"
      PROVE  Kept(u)'
  <2>1. CASE u = t
    <3>1. UNCHANGED address
      BY <1>5, <2>1 DEF Issued
    <3>2. req'[t].kind = "send"
      BY <1>5, <2>1
    <3> QED
      BY <1>1, <2>1, <3>1, <3>2 DEF Kept, BaseInv
  <2>2. CASE u # t
    <3>1. Kept(u) /\ req'[u] = req[u] /\ got'[u] = got[u]
      BY <1>5, <2>2 DEF Promised
    <3>2. \A w \in responders : w \in Task \ {t} /\ got'[w] = got[w]
      BY <1>1 DEF BaseInv
    <3> QED
      BY <1>2, <2>2, <3>1, <3>2 DEF Kept
  <2> QED
    BY <2>1, <2>2
<1> QED
  BY <1>3, <1>4, <1>5 DEF Promised, Issued

-----------------------------------------------------------------------------
(* One step of each kind preserves the invariant.                            *)

LEMMA InitDInv == Init => DInv
<1> SUFFICES ASSUME Init PROVE DInv
  OBVIOUS
<1>1. BaseInv /\ Outstanding = {}
  BY InitBase
<1>2. Closing
  BY DEF Init, Closing
<1>3. Addressed
  BY <1>1 DEF Init, RingInit, Addressed, Received, ResponderKeepsSender
<1>4. PendingExact
  BY <1>1, FS_EmptySet DEF Init, PendingExact
<1>5. \A t \in Task : ~B!Waiting(t)
  BY <1>1, PoolFacts DEF Init, B!Init, BaseInv
<1> QED
  BY <1>1, <1>2, <1>3, <1>4, <1>5 DEF DInv, Promised

\* receive, by a task without a request.
LEMMA ReceiveDInv ==
  ASSUME DInv, NEW t \in Task, Receive(t)
  PROVE  DInv' /\ B!Next
<1> DEFINE r == [kind |-> "receive", count |-> 1]
<1>1. /\ answering = None /\ Allocate(t, 1, r)
      /\ UNCHANGED <<responderVars, closeVars, cancelled, cq, batch>>
  BY DEF Receive
<1>2. r \in ReceiveType /\ r.count = 1 /\ r.kind = "receive"
  BY DEF ReceiveType
<1> HIDE DEF r
<1>3. UNCHANGED <<responders, sender, answering>> /\ 1 \in 1..MaxWant
  BY <1>1, PoolAssumption DEF responderVars
<1>4. /\ BaseInv' /\ B!Next /\ Issued(t) /\ want[t] = 0
      /\ req' = [req EXCEPT ![t] = r] /\ want'[t] = req'[t].count
      /\ \A u \in Task \ {t} : got'[u] = got[u] /\ (B!Waiting(u)' <=> B!Waiting(u))
  BY <1>1, <1>2, <1>3, AllocateBase DEF DInv
<1>5. PendingExact' /\ Closing'
  BY <1>1, <1>4, IssuePending, IssueClosing DEF DInv
<1>6. Received' /\ ResponderKeepsSender'
  BY <1>1, <1>3, <1>4, IssueAddressed DEF DInv, Addressed
<1>7. Addressed'
  BY <1>1, <1>3, <1>6 DEF Addressed
<1>8. req'[t] = r /\ \A u \in Task \ {t} : req'[u] = req[u]
  BY <1>4 DEF DInv, BaseInv
<1>9. Patient => Promised'
  BY <1>2, <1>3, <1>4, <1>8, IssuePromised DEF DInv
<1> QED
  BY <1>4, <1>5, <1>7, <1>9 DEF DInv

\* An answer, whose address is in the header of its destination: a buffer of
\* the application, or the one that the answer takes first.
LEMMA AnswerDInv ==
  ASSUME DInv, NEW t \in Task, NEW n \in 1..MaxWant, NEW r \in SendType, r.count = n,
         Allocate(t, n, r), answering' = None,
         UNCHANGED <<responders, sender, closeVars, cancelled, cq, batch>>,
         address[r.destination] = r.to,
         r.destination \in got'[t] \/ \E u \in responders : r.destination \in got[u]
  PROVE  DInv' /\ B!Next
<1>1. /\ BaseInv' /\ B!Next /\ Issued(t) /\ want[t] = 0
      /\ req' = [req EXCEPT ![t] = r] /\ want'[t] = req'[t].count
      /\ \A u \in Task \ {t} : got'[u] = got[u] /\ (B!Waiting(u)' <=> B!Waiting(u))
  BY AllocateBase DEF DInv
<1>2. PendingExact' /\ Closing'
  BY <1>1, IssuePending, IssueClosing DEF DInv
<1>3. Received' /\ ResponderKeepsSender'
  BY <1>1, IssueAddressed DEF DInv, Addressed
<1>4. Addressed'
  BY <1>3 DEF Addressed
<1>5. req'[t] = r /\ r.kind = "send" /\ \A u \in Task \ {t} : req'[u] = req[u]
  BY <1>1 DEF DInv, BaseInv, SendType
<1>6. Patient => Promised'
  BY <1>1, <1>5, IssuePromised DEF DInv
<1> QED
  BY <1>1, <1>2, <1>4, <1>6 DEF DInv

\* The answer that a responder makes, with its sender.
LEMMA AnswerType ==
  ASSUME BaseInv, NEW u \in responders, NEW b \in got[u], NEW n \in 1..MaxWant
  PROVE  /\ Answer(u, b, n) \in SendType /\ b \in Buffer
         /\ Answer(u, b, n).count = n /\ Answer(u, b, n).destination = b
         /\ Answer(u, b, n).to = sender[u] /\ Answer(u, b, n).kind = "send"
<1>1. b \in Buffer /\ sender[u] \in Sender
  BY PoolFacts DEF BaseInv, Requests
<1> QED
  BY <1>1 DEF Answer, SendType, Buffer, B!Buffer

LEMMA RespondDInv ==
  ASSUME DInv, NEW t \in Task, NEW u \in Task, NEW n \in 1..MaxWant, Respond(t, u, n)
  PROVE  DInv' /\ B!Next
<1>1. PICK b \in got[u] : Allocate(t, n, Answer(u, b, n))
  BY DEF Respond
<1>2. u \in responders /\ answering' = None
      /\ UNCHANGED <<responders, sender, closeVars, cancelled, cq, batch>>
  BY DEF Respond, responderVars
<1>3. /\ Answer(u, b, n) \in SendType /\ Answer(u, b, n).count = n
      /\ Answer(u, b, n).destination = b /\ Answer(u, b, n).to = sender[u]
  BY <1>2, AnswerType DEF DInv
<1>4. address[b] = sender[u]
  BY <1>2 DEF DInv, Addressed, ResponderKeepsSender
<1> QED
  BY <1>1, <1>2, <1>3, <1>4, AnswerDInv

LEMMA RespondTakenDInv ==
  ASSUME DInv, RespondTaken
  PROVE  DInv' /\ B!Next
<1> DEFINE r == answering.answer
           t == answering.task
           n == answering.count
<1>1. answering # None /\ Allocate(t, n, r) /\ answering' = None
      /\ UNCHANGED <<responders, sender, closeVars, cancelled, cq, batch>>
  BY DEF RespondTaken
<1>2. r \in SendType /\ t \in Task /\ n \in 1..MaxWant /\ r.count = n
  BY <1>1 DEF DInv, BaseInv, AnsweringType
<1>3. OnTop(r)
  BY <1>1 DEF DInv, Addressed
<1> HIDE DEF r, t, n
<1>4. r.destination \in got'[t]
  BY <1>1, <1>2, <1>3, TopTaken DEF Allocate, OnTop, DInv, BaseInv
<1> QED
  BY <1>1, <1>2, <1>3, <1>4, AnswerDInv DEF OnTop

LEMMA ResumeDInv ==
  ASSUME DInv, NEW t \in Task, Resume(t)
  PROVE  DInv' /\ B!Next
<1>1. /\ BaseInv' /\ B!Next /\ Issued(t) /\ B!Waiting(t)
      /\ req' = req /\ want'[t] = req'[t].count
      /\ got[t] \subseteq got'[t] /\ req[t] \in ReceiveType \cup SendType
      /\ \A u \in Task \ {t} : got'[u] = got[u] /\ (B!Waiting(u)' <=> B!Waiting(u))
  BY ResumeBase DEF DInv
<1>2. UNCHANGED <<responders, sender, answering, closeVars, cq>> /\ answering = None
  BY DEF Resume, responderVars
<1>3. PendingExact' /\ Closing'
  BY <1>1, <1>2, IssuePending, IssueClosing DEF DInv
<1>4. Received' /\ ResponderKeepsSender'
  BY <1>1, <1>2, IssueAddressed DEF DInv, Addressed
<1>5. Addressed'
  BY <1>2, <1>4 DEF Addressed
<1>6. req[t].kind \in {"receive", "send"}
  BY <1>1 DEF ReceiveType, SendType
<1>7. ASSUME Patient PROVE Promised'
  <2>1. req[t].kind = "send" => Kept(t)
    BY <1>1, <1>7 DEF DInv, Promised
  <2> QED
    BY <1>1, <1>2, <1>6, <1>7, <2>1, IssuePromised DEF DInv, Kept
<1> QED
  BY <1>1, <1>3, <1>5, <1>7 DEF DInv

\* A buffer is returned: of a completed operation, or of a responder that no
\* waiting answer depends on.
LEMMA ReleasePromised ==
  ASSUME BaseInv, Promised, NEW t \in Task, NEW b \in Buffer, B!Release(t, b),
         UNCHANGED <<taskVars, address>>, Outstanding' \subseteq Outstanding,
         responders' = responders \ {t},
         t \notin responders \/ ~Unsubmitted(b)
  PROVE  Promised'
<1>1. /\ b \in got[t] /\ ~B!Waiting(t) /\ want[t] > 0
      /\ got' = [got EXCEPT ![t] = @ \ {b}]
      /\ \A u \in Task : B!Waiting(u)' <=> B!Waiting(u)
  BY ReleasePool DEF BaseInv
<1>2. req' = req /\ got \in [Task -> SUBSET Buffer]
  BY PoolFacts DEF taskVars, BaseInv
<1>3. t \in responders => got[t] = {b}
  <2>1. SUFFICES ASSUME t \in responders PROVE got[t] = {b}
    OBVIOUS
  <2>2. want[t] <= 1 /\ want[t] \in 0..MaxWant
    BY <2>1, PoolFacts, DatagramAssumption DEF BaseInv, Requests
  <2>3. want[t] = 1
    BY <1>1, <2>2, PoolAssumption
  <2>4. IsFiniteSet(got[t]) /\ Cardinality(got[t]) = 1
    BY <1>1, <2>3, PoolFacts DEF BaseInv
  <2>5. \E x : got[t] = {x}
    BY <2>4, FS_Singleton
  <2> QED
    BY <1>1, <2>5
<1>4. ASSUME NEW u \in Task, B!Waiting(u)', req'[u].kind = "send"
      PROVE  Kept(u)'
  <2>1. B!Waiting(u) /\ req[u].kind = "send" /\ Kept(u) /\ u # t /\ got'[u] = got[u] /\ req[u] # None
    BY <1>1, <1>2, <1>4, PoolFacts DEF Promised, BaseInv, Requests
  <2>2. \A w \in responders : w # t => w \in responders' /\ got'[w] = got[w]
    BY <1>1, <1>2 DEF BaseInv
  <2>3. t \in responders => req[u].destination # b
    BY <2>1 DEF Unsubmitted
  <2> QED
    BY <1>2, <1>3, <2>1, <2>2, <2>3 DEF Kept
<1> QED
  BY <1>2, <1>4 DEF Promised

LEMMA ReleaseAddressed ==
  ASSUME BaseInv, NEW t \in Task, NEW b \in Buffer, B!Release(t, b), UNCHANGED <<sender, address>>,
         responders' \subseteq responders, ResponderKeepsSender
  PROVE  ResponderKeepsSender'
<1>1. got' = [got EXCEPT ![t] = @ \ {b}] /\ got \in [Task -> SUBSET Buffer]
  BY ReleasePool, PoolFacts DEF BaseInv
<1>2. \A u \in responders : got'[u] \subseteq got[u]
  BY <1>1 DEF BaseInv
<1> QED
  BY <1>2 DEF ResponderKeepsSender

\* The application is done with a responder: release, or takeBytes.
LEMMA ReturnDInv ==
  ASSUME DInv, NEW u \in responders, NEW b \in got[u], B!Release(u, b), answering = None,
         Patient => ~Unsubmitted(b), responders' = responders \ {u},
         UNCHANGED <<taskVars, sender, closeVars, ringVars, address, pending>>,
         answering' \in AnsweringType \cup {None},
         answering' # None => /\ answering'.answer.count = answering'.count
                              /\ answering'.answer.destination = b
                              /\ answering'.answer.to = sender[u]
  PROVE  DInv' /\ B!Next
<1>1. u \in Task /\ b \in Buffer
  BY PoolFacts DEF DInv, BaseInv
<1>2. RingInv' /\ Outstanding' = Outstanding /\ cq' = cq
  BY KeepRing DEF ringVars, DInv, BaseInv, RingInv
<1>3. \A op \in Outstanding : op.task # u
  BY DEF DInv, BaseInv, Operations
<1>4. \A i \in 1..Len(cq) : cq[i].op.event = "receive" /\ cq[i].res = "positive" =>
        sender[cq[i].op.task] \in Sender
  BY DEF DInv, BaseInv, Operations
<1>5. BaseInv'
  BY <1>1, <1>2, <1>3, <1>4, ReleaseBase DEF DInv
<1>6. ResponderKeepsSender'
  BY <1>1, ReleaseAddressed DEF DInv, Addressed
<1>7. address[b] = sender[u]
  BY DEF DInv, Addressed, ResponderKeepsSender
<1>8. Addressed'
  <2>1. ids' # <<>> /\ ids'[Len(ids')] = b
    BY <1>1, ReleaseTop DEF DInv, BaseInv
  <2> QED
    BY <1>2, <1>6, <1>7, <2>1 DEF Addressed, DInv, Received, OnTop
<1>9. Patient => Promised'
  BY <1>1, <1>2, ReleasePromised DEF DInv
<1>10. Closing' /\ PendingExact'
  BY <1>2 DEF DInv, Closing, PendingExact, closeVars
<1>11. B!Next
  BY <1>1, ReleasePool DEF DInv, BaseInv
<1> QED
  BY <1>5, <1>8, <1>9, <1>10, <1>11 DEF DInv

LEMMA ReleaseResponderDInv ==
  ASSUME DInv, NEW u \in Task, ReleaseResponder(u)
  PROVE  DInv' /\ B!Next
<1>1. PICK b \in got[u] : (Patient => ~Unsubmitted(b)) /\ B!Release(u, b)
  BY DEF ReleaseResponder
<1> QED
  BY <1>1, ReturnDInv DEF ReleaseResponder

LEMMA TakeBytesDInv ==
  ASSUME DInv, NEW t \in Task, NEW u \in Task, NEW n \in 1..MaxWant, TakeBytes(t, u, n)
  PROVE  DInv' /\ B!Next
<1>1. PICK b \in got[u] : /\ Patient => ~Unsubmitted(b)
                          /\ B!Release(u, b)
                          /\ answering' = [task |-> t, count |-> n, answer |-> Answer(u, b, n)]
  BY DEF TakeBytes
<1>2. u \in responders
  BY DEF TakeBytes
<1>3. /\ Answer(u, b, n) \in SendType /\ Answer(u, b, n).count = n
      /\ Answer(u, b, n).destination = b /\ Answer(u, b, n).to = sender[u]
  BY <1>2, AnswerType DEF DInv
<1>4. answering' \in AnsweringType
  BY <1>1, <1>3 DEF AnsweringType
<1> QED
  BY <1>1, <1>2, <1>3, <1>4, ReturnDInv DEF TakeBytes

\* The buffer of an operation has no other part in the server.
LEMMA OwnBuffer ==
  ASSUME DInv, NEW op \in Outstanding, op.event = "receive"
  PROVE  /\ op.task \in Task \ responders /\ op.buf \in Buffer
         /\ \A o \in Outstanding \ {op} : o.task # op.task /\ o.buf # op.buf
         /\ \A u \in responders : \A b \in got[u] : b # op.buf
         /\ answering # None => answering.answer.destination # op.buf
         /\ Patient => \A t \in Task : B!Waiting(t) /\ req[t].kind = "send" =>
                         req[t].destination # op.buf
<1>1. op.task \in Task \ responders /\ op.buf \in got[op.task] /\ ~B!Waiting(op.task)
  BY DEF DInv, BaseInv, Operations
<1>2. Apart /\ op.buf \in Buffer
  BY <1>1, ApartServed, PoolFacts DEF DInv, BaseInv
<1>3. ASSUME NEW o \in Outstanding \ {op} PROVE o.task # op.task /\ o.buf # op.buf
  <2>1. o.task # op.task
    BY ReceiveAlone DEF DInv
  <2>2. o.task \in Task /\ o.buf \in got[o.task]
    BY DEF DInv, BaseInv, Operations
  <2> QED
    BY <1>1, <1>2, <2>1, <2>2 DEF Apart
<1>4. \A u \in responders : u \in Task /\ \A b \in got[u] : b # op.buf
  BY <1>1, <1>2 DEF Apart, DInv, BaseInv
<1>5. answering # None => answering.answer.destination # op.buf
  BY <1>1, FreeNotHeld DEF DInv, Addressed, OnTop, BaseInv
<1>6. ASSUME Patient, NEW t \in Task, B!Waiting(t), req[t].kind = "send"
      PROVE  req[t].destination # op.buf
  <2>1. Kept(t) /\ t # op.task
    BY <1>1, <1>6 DEF DInv, Promised
  <2> QED
    BY <1>1, <1>2, <1>4, <2>1 DEF Kept, Apart
<1> QED
  BY <1>1, <1>2, <1>3, <1>4, <1>5, <1>6

LEMMA DatagramDInv ==
  ASSUME DInv, NEW op \in inflight, op.event = "receive", NEW a \in Sender,
         address' = [address EXCEPT ![op.buf] = a], sender' = [sender EXCEPT ![op.task] = a],
         KernelComplete(op, "positive"),
         UNCHANGED <<bufferVars, taskVars, responders, answering, closeVars, pending>>
  PROVE  DInv'
<1>1. op \in Outstanding
  BY DEF Outstanding
<1>2. RingInv' /\ Outstanding' = Outstanding
  BY CompleteRing DEF DInv, BaseInv
<1>3. /\ Len(cq') = Len(cq) + 1 /\ Len(cq) \in Nat
      /\ cq'[Len(cq) + 1] = [op |-> op, res |-> "positive"]
      /\ \A i \in 1..Len(cq) : cq'[i] = cq[i]
  BY DEF KernelComplete, DInv, BaseInv, RingInv
<1>4. \A i \in 1..Len(cq) : cq[i].op \in Outstanding \ {op}
  BY DEF Outstanding, DInv, BaseInv, RingInv
<1>5. op.task \in Task /\ op.buf \in Buffer
  BY <1>1, OwnBuffer
<1>6. /\ sender'[op.task] = a /\ \A t \in Task \ {op.task} : sender'[t] = sender[t]
      /\ address'[op.buf] = a /\ \A b : b # op.buf => address'[b] = address[b]
  BY <1>5 DEF DInv, BaseInv
<1>7. BaseInv'
  <2>1. \A i \in 1..Len(cq) : cq[i].op.event = "receive" /\ cq[i].res = "positive" =>
          cq[i].op.task \in Task /\ sender[cq[i].op.task] \in Sender
    BY <1>4 DEF DInv, BaseInv, Operations
  <2>2. \A i \in 1..Len(cq') :
          cq'[i].op.event = "receive" /\ cq'[i].res = "positive" => sender'[cq'[i].op.task] \in Sender
    BY <1>3, <1>6, <2>1
  <2>3. /\ sender' \in [Task -> Sender \cup {None}] /\ address' \in [Buffer -> Sender \cup {None}]
        /\ \A t \in Task : sender[t] \in Sender => sender'[t] \in Sender
    BY <1>6 DEF DInv, BaseInv
  <2> QED
    BY <1>2, <2>2, <2>3, KeepBase DEF DInv
<1>8. Received'
  <2>1. \A i \in 1..Len(cq) : cq[i].op.task \in Task \ {op.task} /\ cq[i].op.buf # op.buf
    BY <1>1, <1>4, OwnBuffer DEF DInv, BaseInv, Operations
  <2>2. \A i \in 1..Len(cq) : cq[i].op.event = "receive" /\ cq[i].res = "positive" =>
          address'[cq[i].op.buf] = sender'[cq[i].op.task]
    BY <1>6, <2>1 DEF DInv, Addressed, Received
  <2> QED
    BY <1>3, <1>6, <2>2 DEF Received
<1>9. ResponderKeepsSender'
  BY <1>1, <1>6, OwnBuffer DEF DInv, BaseInv, Addressed, ResponderKeepsSender, bufferVars
<1>10. Addressed'
  BY <1>1, <1>6, <1>8, <1>9, OwnBuffer DEF DInv, Addressed, OnTop, bufferVars
<1>11. ASSUME Patient PROVE Promised'
  <2>1. \A t : B!Waiting(t)' <=> B!Waiting(t)
    BY KeepPool
  <2>2. got' = got /\ req' = req
    BY DEF bufferVars, taskVars
  <2>3. \A o \in Outstanding : o.event = "send" => address'[o.buf] = req[o.task].to
    <3>1. \A o \in Outstanding : o.event = "send" => o \in Outstanding \ {op}
      OBVIOUS
    <3> QED
      BY <1>1, <1>6, <1>11, <3>1, OwnBuffer DEF DInv, Promised
  <2>4. ASSUME NEW t \in Task, B!Waiting(t), req[t].kind = "send" PROVE Kept(t)'
    <3>1. Kept(t) /\ req[t].destination # op.buf
      BY <1>1, <1>11, <2>4, OwnBuffer DEF DInv, Promised
    <3> QED
      BY <1>6, <2>2, <3>1 DEF Kept
  <2> QED
    BY <1>2, <2>1, <2>2, <2>3, <2>4 DEF Promised
<1>12. Closing' /\ PendingExact'
  BY <1>2 DEF DInv, Closing, PendingExact, closeVars
<1> QED
  BY <1>7, <1>10, <1>11, <1>12 DEF DInv

\* A step of the kernel or of close() that leaves the addresses alone.
LEMMA QuietDInv ==
  ASSUME DInv, UNCHANGED <<bufferVars, taskVars, responderVars, address>>,
         RingInv', Outstanding' = Outstanding, pending' = pending, Closing',
         \A i \in 1..Len(cq') : cq'[i].op.event = "receive" /\ cq'[i].res = "positive" =>
            \E j \in 1..Len(cq) : cq'[i] = cq[j]
  PROVE  DInv'
<1>1. UNCHANGED <<responders, sender, answering>> /\ got' = got /\ ids' = ids /\ req' = req
  BY DEF responderVars, bufferVars, taskVars
<1>2. BaseInv'
  BY <1>1, KeepBase DEF DInv, BaseInv, Operations
<1>3. Addressed'
  BY <1>1 DEF DInv, Addressed, Received, ResponderKeepsSender, OnTop
<1>4. \A t : B!Waiting(t)' <=> B!Waiting(t)
  BY KeepPool
<1>5. Patient => Promised'
  BY <1>1, <1>4 DEF DInv, Promised, Kept
<1> QED
  BY <1>2, <1>3, <1>5 DEF DInv, PendingExact

LEMMA CompleteDInv ==
  ASSUME DInv, NEW op \in inflight, Complete(op)
  PROVE  DInv'
<1>1. UNCHANGED <<bufferVars, taskVars, responders, answering, closeVars, pending>>
  BY DEF Complete
<1>2. CASE /\ op.event = "receive"
           /\ \E a \in Sender :
                /\ address' = [address EXCEPT ![op.buf] = a]
                /\ sender' = [sender EXCEPT ![op.task] = a]
           /\ KernelComplete(op, "positive")
  BY <1>1, <1>2, DatagramDInv
<1>3. CASE /\ \E res \in Result :
                (op.event = "receive" => res # "positive") /\ KernelComplete(op, res)
           /\ UNCHANGED <<address, sender>>
  <2>1. PICK res \in Result :
          (op.event = "receive" => res # "positive") /\ KernelComplete(op, res)
    BY <1>3
  <2>2. RingInv' /\ Outstanding' = Outstanding
    BY <2>1, CompleteRing DEF DInv, BaseInv
  <2>3. /\ Len(cq') = Len(cq) + 1 /\ Len(cq) \in Nat
        /\ cq'[Len(cq) + 1] = [op |-> op, res |-> res]
        /\ \A i \in 1..Len(cq) : cq'[i] = cq[i]
    BY <2>1 DEF KernelComplete, DInv, BaseInv, RingInv
  <2>4. \A i \in 1..Len(cq') : cq'[i].op.event = "receive" /\ cq'[i].res = "positive" =>
            \E j \in 1..Len(cq) : cq'[i] = cq[j]
    BY <2>1, <2>3
  <2>5. Closing'
    BY <1>1 DEF DInv, Closing, closeVars
  <2> QED
    BY <1>1, <1>3, <2>2, <2>4, <2>5, QuietDInv DEF responderVars
<1> QED
  BY <1>2, <1>3 DEF Complete

\* close(), the cancellations and the peek.
LEMMA LoopDInv ==
  ASSUME DInv,
         \/ CheckEventTimeouts \/ ContinueClose \/ GracefulTimeout \/ ResumeClose \/ EndClose \/ Peek
         \/ \E graceful \in BOOLEAN : Close(graceful)
  PROVE  DInv'
<1> DEFINE Same == /\ UNCHANGED <<bufferVars, taskVars, responderVars, address, pending, inflight, cq>>
                   /\ cancelled' \subseteq inflight /\ batch' \in 0..Len(cq)
<1>1. cancelled \subseteq inflight /\ batch \in 0..Len(cq) /\ Len(cq) \in Nat
  BY DEF DInv, BaseInv, RingInv
<1>2. ASSUME CheckEventTimeouts PROVE Same /\ Closing'
  BY <1>1, <1>2 DEF CheckEventTimeouts, CheckTimeouts, CancelEvents, DInv, Closing, closeVars
<1>3. ASSUME ContinueClose PROVE Same /\ Closing'
  BY <1>1, <1>3 DEF ContinueClose, CancelByFd, CancelEvents, DInv, Closing, End
<1>4. ASSUME GracefulTimeout PROVE Same /\ Closing'
  BY <1>1, <1>4 DEF GracefulTimeout, CancelByFd, CancelEvents, DInv, Closing
<1>5. ASSUME ResumeClose \/ EndClose PROVE Same /\ Closing'
  BY <1>1, <1>5 DEF ResumeClose, EndClose, DInv, Closing, End, ringVars
<1>6. ASSUME Peek PROVE Same /\ Closing'
  <2>1. batch' \in 0..Len(cq)
    BY <1>1, <1>6, PeekAssumption DEF Peek, PeekBatch
  <2>2. /\ UNCHANGED <<bufferVars, taskVars, responderVars, closeVars, address, pending, inflight, cq>>
        /\ cancelled' = cancelled
    BY <1>6 DEF Peek, PeekBatch
  <2>3. Closing'
    BY <2>2 DEF DInv, Closing, closeVars
  <2> QED
    BY <1>1, <2>1, <2>2, <2>3
<1>7. ASSUME \E graceful \in BOOLEAN : Close(graceful) PROVE Same /\ Closing'
  <2>1. /\ ~closing /\ closing' = TRUE /\ closePc' \in {"begun", "begun gracefully"}
        /\ UNCHANGED <<bufferVars, taskVars, responderVars, active, closer, address, pending>>
        /\ UNCHANGED <<inflight, cq, cancelled, batch>>
    BY <1>7 DEF Close, ringVars
  <2>2. Closing'
    BY <2>1 DEF DInv, Closing
  <2> QED
    BY <1>1, <2>1, <2>2
<1>8. Same /\ Closing'
  BY <1>2, <1>3, <1>4, <1>5, <1>6, <1>7
<1>9. RingInv' /\ Outstanding' = Outstanding
  BY <1>8, KeepRing DEF DInv, BaseInv
<1> QED
  BY <1>8, <1>9, QuietDInv

\* One completion: its buffer becomes a responder's or is released.
LEMMA HandleCqeDInv ==
  ASSUME DInv, HandleCqe
  PROVE  DInv' /\ [B!Next]_bufferVars
<1> DEFINE op == Head(cq).op
           res == Head(cq).res
<1>1. /\ answering = None /\ TakeCqe
      /\ IF Open THEN NotifyDatagram(op, res)
         ELSE UNCHANGED <<bufferVars, responders, active, closer, pending>>
      /\ UNCHANGED <<taskVars, sender, answering, closing, closePc, address, inflight, cancelled>>
  BY DEF HandleCqe
<1>2. RingInv' /\ op \in Outstanding /\ Outstanding' = Outstanding \ {op}
  <2>1. RingInv /\ cancelled' \subseteq inflight' /\ inflight' = inflight \cup {}
    BY <1>1 DEF DInv, BaseInv, RingInv
  <2>2. IsFiniteSet({}) /\ {} \cap (Outstanding \ {op}) = {}
    BY FS_EmptySet
  <2> QED
    BY <1>1, <2>1, <2>2, TakeRing
<1>3. /\ cq # <<>> /\ cq' = Tail(cq) /\ Len(cq) \in Nat /\ Len(cq') = Len(cq) - 1
      /\ Head(cq) = cq[1] /\ 1 \in 1..Len(cq)
      /\ \A i \in 1..Len(cq') : i + 1 \in 1..Len(cq) /\ cq'[i] = cq[i + 1]
  BY <1>1 DEF DInv, BaseInv, RingInv, TakeCqe
<1>4. \A i \in 1..Len(cq') : \E j \in 1..Len(cq) : cq'[i] = cq[j]
  BY <1>3
<1>5. pending = Cardinality(Outstanding) /\ Cardinality(Outstanding) \in Nat \ {0}
      /\ Cardinality(Outstanding') = Cardinality(Outstanding) - 1
  <2>1. IsFiniteSet(Outstanding)
    BY OutstandingFinite DEF DInv, BaseInv
  <2>2. Cardinality(Outstanding) \in Nat
        /\ Cardinality(Outstanding \ {op}) = Cardinality(Outstanding) - 1
        /\ Cardinality(Outstanding \ {op}) \in Nat
    BY <1>2, <2>1, FS_RemoveElement, FS_CardinalityType, FS_Subset
  <2> QED
    BY <1>2, <2>2 DEF DInv, PendingExact
<1>6. NotifyDatagram(op, res)
  BY <1>1, <1>5 DEF DInv, Closing, Open
<1>7. PendingExact' /\ Closing'
  <2>1. /\ pending' = pending - 1 /\ UNCHANGED <<closing, closePc>>
        /\ closer' = (closer \/ (pending = 1 /\ closing))
        /\ active' = (active /\ ~(pending = 1 /\ closing))
    BY <1>1, <1>6 DEF NotifyDatagram, Settle
  <2>2. PendingExact'
    BY <1>5, <2>1 DEF PendingExact
  <2>3. pending # 0 /\ (pending = 1 => pending' = 0)
    BY <1>5, <2>1
  <2>4. ~closer /\ closePc \notin {"drain", "closed"}
    BY <2>3 DEF DInv, Closing
  <2>5. closer' => closing' /\ pending' = 0
    BY <2>1, <2>3, <2>4
  <2>6. active' \in BOOLEAN /\ closer' \in BOOLEAN
    BY <2>1
  <2> QED
    BY <2>1, <2>2, <2>4, <2>5, <2>6 DEF DInv, Closing
<1>8. /\ op.task \in Task \ responders /\ op.buf \in got[op.task] /\ op.buf \in Buffer
      /\ op.event = "receive" /\ res = "positive" => sender[op.task] \in Sender
  BY <1>2, <1>3, PoolFacts DEF DInv, BaseInv, Operations
<1>9. \A i \in 1..Len(cq') :
         cq'[i].op.event = "receive" /\ cq'[i].res = "positive" => sender[cq'[i].op.task] \in Sender
  BY <1>4 DEF DInv, BaseInv, Operations
<1>10. Received'
  BY <1>1, <1>4 DEF DInv, Addressed, Received
<1>11. Outstanding' \subseteq Outstanding /\ op \notin Outstanding'
  BY <1>2
<1>12. CASE active /\ op.event = "receive" /\ res = "positive"
  <2>1. responders' = responders \cup {op.task} /\ UNCHANGED bufferVars
    BY <1>6, <1>12 DEF NotifyDatagram
  <2>2. sender[op.task] \in Sender /\ address[op.buf] = sender[op.task]
    BY <1>3, <1>8, <1>12 DEF DInv, Addressed, Received
  <2>3. BaseInv'
    BY <1>1, <1>2, <1>9, <1>12, <2>1, <2>2, ResponderBase DEF DInv
  <2>4. got[op.task] = {op.buf}
    <3>1. want[op.task] = 1 /\ ~B!Waiting(op.task)
      BY <1>2, <1>12, ReceiveAlone DEF DInv, BaseInv, Operations
    <3>2. IsFiniteSet(got[op.task]) /\ Cardinality(got[op.task]) = 1
      BY <1>8, <3>1, PoolFacts DEF DInv, BaseInv
    <3>3. \E x : got[op.task] = {x}
      BY <3>2, FS_Singleton
    <3> QED
      BY <1>8, <3>3
  <2>5. Addressed'
    BY <1>1, <1>10, <2>1, <2>2, <2>4 DEF DInv, Addressed, ResponderKeepsSender, bufferVars
  <2>6. ASSUME Patient PROVE Promised'
    <3>1. \A t : B!Waiting(t)' <=> B!Waiting(t)
      BY <2>1, KeepPool
    <3> QED
      BY <1>1, <1>11, <2>1, <2>6, <3>1 DEF DInv, Promised, Kept, bufferVars, taskVars
  <2> QED
    BY <1>7, <2>1, <2>3, <2>5, <2>6 DEF DInv
<1>13. CASE ~(active /\ op.event = "receive" /\ res = "positive")
  <2>1. B!Release(op.task, op.buf) /\ responders' = responders /\ responders = responders \ {op.task}
    BY <1>6, <1>8, <1>13 DEF NotifyDatagram
  <2>2. \A o \in Outstanding' : o.task = op.task => o.buf # op.buf
    BY <1>2 DEF DInv, BaseInv, Operations, Operation
  <2>3. answering' \in AnsweringType \cup {None} /\ (answering' # None => answering'.answer.count = answering'.count)
    BY <1>1
  <2> HIDE DEF op, res
  <2>4. BaseInv'
    BY <1>1, <1>2, <1>8, <1>9, <1>11, <2>1, <2>2, <2>3, ReleaseBase DEF DInv
  <2>5. Addressed'
    BY <1>1, <1>8, <1>10, <2>1, ReleaseAddressed DEF DInv, Addressed
  <2>6. Patient => Promised'
    BY <1>1, <1>8, <1>11, <2>1, ReleasePromised DEF DInv
  <2>7. B!Next
    BY <1>8, <2>1, ReleasePool DEF DInv, BaseInv
  <2> QED
    BY <1>7, <2>4, <2>5, <2>6, <2>7 DEF DInv
<1> QED
  BY <1>12, <1>13

-----------------------------------------------------------------------------
\* Every step preserves the invariant and uses the pool as it is meant to be.
LEMMA NextDInv == DInv /\ [Next]_vars => DInv' /\ [B!Next]_bufferVars
<1> SUFFICES ASSUME DInv, [Next]_vars PROVE DInv' /\ [B!Next]_bufferVars
  OBVIOUS
<1>1. ASSUME NEW t \in Task, Receive(t) PROVE DInv' /\ [B!Next]_bufferVars
  BY <1>1, ReceiveDInv
<1>2. ASSUME NEW t \in Task, Resume(t) PROVE DInv' /\ [B!Next]_bufferVars
  BY <1>2, ResumeDInv
<1>3. ASSUME NEW u \in Task, ReleaseResponder(u) PROVE DInv' /\ [B!Next]_bufferVars
  BY <1>3, ReleaseResponderDInv
<1>4. ASSUME NEW t \in Task, NEW u \in Task, NEW n \in 1..MaxWant, Respond(t, u, n)
      PROVE  DInv' /\ [B!Next]_bufferVars
  BY <1>4, RespondDInv
<1>5. ASSUME NEW t \in Task, NEW u \in Task, NEW n \in 1..MaxWant, TakeBytes(t, u, n)
      PROVE  DInv' /\ [B!Next]_bufferVars
  BY <1>5, TakeBytesDInv
<1>6. CASE RespondTaken
  BY <1>6, RespondTakenDInv
<1>7. ASSUME NEW op \in inflight, Complete(op) PROVE DInv' /\ [B!Next]_bufferVars
  BY <1>7, CompleteDInv DEF Complete
<1>8. CASE \/ CheckEventTimeouts \/ ContinueClose \/ GracefulTimeout \/ ResumeClose \/ EndClose \/ Peek
           \/ \E graceful \in BOOLEAN : Close(graceful)
  <2>1. UNCHANGED bufferVars
    BY <1>8 DEF CheckEventTimeouts, ContinueClose, GracefulTimeout, ResumeClose, EndClose, Peek, Close
  <2> QED
    BY <1>8, <2>1, LoopDInv
<1>9. CASE HandleCqe
  BY <1>9, HandleCqeDInv
<1>10. CASE UNCHANGED vars
  <2>1. /\ UNCHANGED <<bufferVars, taskVars, responderVars, closeVars, address, pending>>
        /\ UNCHANGED <<inflight, cq, cancelled, batch>>
    BY <1>10 DEF vars, ringVars
  <2>2. RingInv' /\ Outstanding' = Outstanding
    BY <2>1, KeepRing DEF DInv, BaseInv, RingInv
  <2>3. Closing'
    BY <2>1 DEF DInv, Closing, closeVars
  <2> QED
    BY <2>1, <2>2, <2>3, QuietDInv
<1> QED
  BY <1>1, <1>2, <1>3, <1>4, <1>5, <1>6, <1>7, <1>8, <1>9, <1>10 DEF Next

LEMMA Invariance == Spec => []DInv
<1>1. Init => DInv
  BY InitDInv
<1>2. DInv /\ [Next]_vars => DInv'
  BY NextDInv
<1> QED
  BY <1>1, <1>2, PTL DEF Spec

\* The types, for any number of tasks, buffers and senders.
THEOREM TypeCorrect == Spec => []TypeOK
<1>1. DInv => TypeOK
  <2> SUFFICES ASSUME DInv PROVE TypeOK
    OBVIOUS
  <2>1. B!TypeOK
    <3>1. BP!TypeOK
      BY DEF DInv, BaseInv, BP!PInv, BP!RInv, BP!IInv
    <3> QED
      BY <3>1 DEF BP!TypeOK, B!TypeOK, BP!Buffer, B!Buffer
  <2>2. IsFiniteSet(Outstanding)
    BY OutstandingFinite DEF DInv, BaseInv
  <2>3. pending \in Nat
    BY <2>2, FS_CardinalityType DEF DInv, PendingExact
  <2> QED
    BY <2>1, <2>3 DEF DInv, BaseInv, Closing, TypeOK, RingInv, RingTypeOK
<1> QED
  BY <1>1, Invariance, PTL

\* Under receives, responders and answers, a buffer is free once or held by one of
\* them, and none waits in TransportBuffers.allocate beside a free buffer.
THEOREM BuffersOwned == Spec => [](B!BufferOwnership /\ B!NoLostWakeup)
<1>1. DInv => B!BufferOwnership /\ B!NoLostWakeup
  <2> SUFFICES ASSUME DInv PROVE B!BufferOwnership /\ B!NoLostWakeup
    OBVIOUS
  <2>1. BP!BufferOwnership /\ BP!NoLostWakeup
    BY DEF DInv, BaseInv, BP!PInv, BP!RInv, BP!IInv
  <2> QED
    BY <2>1
    DEF BP!BufferOwnership, B!BufferOwnership, BP!Injective, B!Injective, BP!InSeq, B!InSeq,
        BP!Buffer, B!Buffer, BP!NoLostWakeup, B!NoLostWakeup
<1> QED
  BY <1>1, Invariance, PTL

\* _pending counts the server's outstanding operations (server.dart), whatever
\* the applications ask while it is closed.
THEOREM PendingIsExact == Spec => []PendingExact
<1>1. DInv => PendingExact
  BY DEF DInv
<1> QED
  BY <1>1, Invariance, PTL

\* The header of a received datagram keeps the address of its sender as long
\* as the application has the responder (responder.dart, transport_worker.c).
THEOREM RespondersKeepSenders == Spec => []ResponderKeepsSender
<1>1. DInv => ResponderKeepsSender
  BY DEF DInv, Addressed
<1> QED
  BY <1>1, Invariance, PTL

\* The kernel sends an answer to the sender of the datagram that it answers
\* (05-server.mdx), when no responder is released under a waiting answer.
THEOREM AnswersReachSenders == Patient => (Spec => []AnswersReachSender)
<1>1. Patient /\ DInv => AnswersReachSender
  BY DEF DInv, Addressed, Promised, AnswersReachSender, Outstanding
<1>2. ASSUME Patient PROVE Spec => []AnswersReachSender
  <2>1. DInv => AnswersReachSender
    BY <1>1, <1>2
  <2> QED
    BY <2>1, Invariance, PTL
<1> QED
  BY <1>2
=============================================================================
