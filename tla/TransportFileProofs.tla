------------------------- MODULE TransportFileProofs -------------------------
(***************************************************************************)
(* Any number of tasks and buffers, any size of a block, any file.         *)
(*                                                                         *)
(* BaseInv says whose the operations, the events of the inbound stream and *)
(* the buffers are.  Chains is what the kernel makes of linked operations: *)
(* they end in their order, and behind the first that is not a whole block *)
(* they are all cancelled.  Written is what writeMany has counted of them, *)
(* Round where load() is in the blocks that it asked for, and Placed which *)
(* bytes the others will bring.                                            *)
(***************************************************************************)
EXTENDS TransportFile, WorkerRingProofs

BP == INSTANCE TransportBuffersProofs

\* The tasks that are served: their operations were submitted or refused.
Served(t) == req[t] # None /\ ~B!Waiting(t)

Requests ==
  /\ \A t \in Task : want[t] > 0 => req[t] # None
  /\ \A t \in Task : B!Waiting(t) => want[t] = req[t].count
  /\ req[Loader] # None => req[Loader].kind = "read"

\* The kernel has the buffers of requests that were served, one operation for
\* each place in the request.
OperationOK(op) ==
  /\ op.task \in Task /\ Served(op.task) /\ op.event = req[op.task].kind
  /\ op.buf \in got[op.task] /\ op.pos \in Nat
  /\ op.nth \in 1..req[op.task].count /\ (op.link <=> op.nth < req[op.task].count)
Operations ==
  /\ \A op \in Outstanding : OperationOK(op)
  /\ \A op, o \in Outstanding :
       o.task = op.task /\ (o.nth = op.nth \/ o.buf = op.buf) => o = op

\* A buffer that was read is with its event, and then with the application.
Pays(e) == e.res >= 0
EventOK(e) ==
  /\ e.op.task \in Task /\ Served(e.op.task) /\ req[e.op.task].kind = "read"
  /\ e.res \in Nat \cup {Failed, Canceled}
  /\ Pays(e) =>
       /\ e.op.buf \in got[e.op.task] /\ <<e.op.task, e.op.buf>> \notin payloads
       /\ \A op \in Outstanding : op.task = e.op.task => op.buf # e.op.buf
Events ==
  /\ inbound \in Seq({inbound[i] : i \in 1..Len(inbound)})
  /\ \A i \in 1..Len(inbound) : EventOK(inbound[i])
  /\ \A i, j \in 1..Len(inbound) :
       /\ Pays(inbound[i]) /\ Pays(inbound[j])
       /\ inbound[i].op.task = inbound[j].op.task /\ inbound[i].op.buf = inbound[j].op.buf
       => i = j
PayloadOK(t, b) ==
  /\ t \in Task \ {Loader} /\ Served(t) /\ req[t].kind = "read" /\ b \in got[t]
  /\ \A op \in Outstanding : op.task = t => op.buf # b
Payloads == payloads \subseteq Task \X Buffer /\ \A p \in payloads : PayloadOK(p[1], p[2])

BaseInv ==
  /\ BP!PInv /\ RingInv
  /\ req \in [Task -> RequestType \cup {None}]
  /\ Requests /\ Operations /\ Events /\ Payloads

\* Where close() is, and what it knows about the pending operations.
PendingExact == pending = Cardinality(Outstanding)
Reporting == active \/ closePc = "graceful"
Closing ==
  /\ active \in BOOLEAN /\ closing \in BOOLEAN /\ closer \in BOOLEAN
  /\ closePc \in {"none", "graceful", "forced", "drain", "closed"}
  /\ closing <=> closePc # "none"
  /\ closePc = "none" => active
  /\ active => closePc \in {"none", "graceful"} /\ cancelled = {}
  /\ closePc = "graceful" => (active <=> pending # 0)
  /\ closer => closing /\ pending = 0
  /\ closePc \in {"drain", "closed"} => pending = 0

\* The order of the completions of a chain, and what severs it.
Chains ==
  /\ severed \subseteq Task
  /\ \A i \in 1..Len(cq) : cq[i].res \in Nat \cup {Failed, Canceled}
  /\ \A i, j \in 1..Len(cq) : i < j /\ cq[i].op.task = cq[j].op.task =>
       /\ cq[i].op.nth < cq[j].op.nth
       /\ cq[i].res # Block => cq[j].res = Canceled
  /\ \A i \in 1..Len(cq) : \A op \in inflight : cq[i].op.task = op.task =>
       /\ cq[i].op.nth < op.nth
       /\ cq[i].res # Block => op.task \in severed
  /\ \A op \in inflight : op.task \in severed => op.nth > 1

\* Whatever is left of the chain of a task is cancelled.
Cut(t) ==
  /\ \A i \in 1..Len(cq) : cq[i].op.task = t => cq[i].res = Canceled
  /\ \A op \in inflight : op.task = t => t \in severed

\* What writeMany has counted of the blocks that are over.
Refused(t) ==
  /\ reports[t] = <<"error">> /\ doneCounter[t] = 0 /\ errorCounter[t] = 0
  /\ \A op \in Outstanding : op.task # t
Counted(t) ==
  /\ doneCounter[t] + errorCounter[t] <= req[t].count - want[t]
  /\ Reporting => doneCounter[t] + errorCounter[t] = req[t].count - want[t]
  /\ errorCounter[t] > 0 => Cut(t)
  /\ reports[t] = IF doneCounter[t] + errorCounter[t] < req[t].count THEN <<>>
                  ELSE IF errorCounter[t] = 0 THEN <<"done">> ELSE <<"error">>
  /\ \A b \in got[t] : \E op \in Outstanding : op.task = t /\ op.buf = b
Told(t) ==
  IF Served(t) /\ req[t].kind = "write"
    THEN Refused(t) \/ Counted(t)
    ELSE doneCounter[t] = 0 /\ errorCounter[t] = 0 /\ reports[t] = <<>>
Written ==
  /\ doneCounter \in [Task -> 0..MaxWant] /\ errorCounter \in [Task -> 0..MaxWant]
  /\ reports \in [Task -> {<<>>, <<"done">>, <<"error">>}]
  /\ \A t \in Task : Told(t)

-----------------------------------------------------------------------------
\* The bytes from the offset of load() to the end of the file.
Total == IF start < size THEN size - start ELSE 0
Content(n) == [i \in 1..n |-> start + i - 1]
AtEnd == Len(loaded) = Total
Whole(n) == \E k \in Nat : n = k * Block

\* An operation of load() brings the bytes behind those that the operations
\* before it bring, or it is behind the end of the file.
Placed(op) ==
  \/ op.pos = start + Len(loaded) + (op.nth - (counter + 1)) * Block
  \/ AtEnd /\ op.pos >= size
Brings(e) == e.res \in {Failed, Canceled, BytesAt(e.op.pos)}

\* The inbound stream is the application's or load()'s.
Streams ==
  /\ size \in Nat /\ start \in Nat
  /\ load \in {"none", "reading", "complete", "failed"}
  /\ blocksCount \in 0..MaxWant /\ counter \in 0..MaxWant /\ next \in 0..MaxWant
  /\ load = "none" => /\ listener \in {"application", "load"}
                      /\ req[Loader] = None /\ loaded = <<>> /\ counter = 0
                      /\ listener = "load" => inbound = <<>>
  /\ load = "reading" => listener = "load"
  /\ load \in {"complete", "failed"} => listener = "cancelled" /\ inbound = <<>> /\ ~B!Waiting(Loader)
  /\ load # "reading" => next = 0
  /\ listener # "application" => \A t \in Task \ {Loader} : req[t] # None => req[t].kind = "write"

\* A round of load(): the events and operations that are left of it are those
\* of the blocks behind counter, in their order.
Round ==
  /\ blocksCount > 0 /\ counter < blocksCount /\ counter + Len(inbound) <= blocksCount
  /\ next \in {0, blocksCount}
  /\ next # 0 => /\ counter = 0 /\ inbound = <<>> /\ ~B!Waiting(Loader)
                 /\ \A op \in Outstanding : op.task # Loader
  /\ next = 0 => req[Loader] # None /\ req[Loader].count = blocksCount
  /\ B!Waiting(Loader) => counter = 0
  /\ \A i \in 1..Len(inbound) : inbound[i].op.nth = counter + i
  /\ \A op \in Outstanding : op.task = Loader => op.nth > counter + Len(inbound)
  /\ active /\ next = 0 /\ ~B!Waiting(Loader) =>
       \A n \in (counter + Len(inbound) + 1)..blocksCount :
         \E op \in Outstanding : op.task = Loader /\ op.nth = n

\* What load() has collected, and what the rest of its round will bring.
Collected ==
  /\ Len(loaded) <= Total
  /\ Whole(Len(loaded)) \/ AtEnd
  /\ \A i \in 1..Len(inbound) : Placed(inbound[i].op) /\ Brings(inbound[i])
  /\ \A op \in Outstanding : op.task = Loader => Placed(op)
  /\ start = 0 /\ size % Block = 0 /\ blocksCount <= size \div Block =>
       Len(loaded) + (blocksCount - counter) * Block <= size

\* Behind an event of less than a block only cancellations come, and only
\* there, or when the file was read to its end.
Short(e) == e.res # Block
ShortInbound == \E i \in 1..Len(inbound) : Short(inbound[i])
ShortBefore(n) == \E i \in 1..Len(cq) : i < n /\ cq[i].op.task = Loader /\ Short(cq[i])
Cancellations ==
  /\ \A i, j \in 1..Len(inbound) : i < j /\ Short(inbound[i]) => inbound[j].res = Canceled
  /\ ShortInbound => Cut(Loader)
  /\ \A i \in 1..Len(inbound) : inbound[i].res = Canceled =>
       AtEnd \/ \E j \in 1..Len(inbound) : j < i /\ Short(inbound[j])
  /\ active =>
       /\ \A i \in 1..Len(cq) : cq[i].op.task = Loader /\ cq[i].res = Canceled =>
            AtEnd \/ ShortInbound \/ ShortBefore(i)
       /\ \A op \in inflight : op.task = Loader /\ Loader \in severed =>
            AtEnd \/ ShortInbound \/ ShortBefore(Len(cq) + 1)

\* Whose the buffers of load() are.
Held ==
  \A b \in got[Loader] :
    \/ \E op \in Outstanding : op.task = Loader /\ op.buf = b
    \/ \E i \in 1..Len(inbound) : Pays(inbound[i]) /\ inbound[i].op.buf = b

\* load() is over before the file is closed, and not by the exception that
\* LoadReleasesBuffers makes.
Ended == load \in {"complete", "failed"}
Bytes == loaded \in Seq(Nat) /\ loaded = Content(Len(loaded)) /\ (load = "complete" => AtEnd)
Answered == \A i \in 1..Len(cq) : cq[i].op.task = Loader => Brings(cq[i])
Reading == load = "reading" => Round /\ Collected /\ Cancellations
Released ==
  /\ Ended /\ ~closing /\ ~Overread => Cut(Loader)
  /\ ~closing /\ Served(Loader) /\ (Ended => ~Overread) => Held

Loading == Bytes /\ Answered /\ Reading /\ Released

FInv == BaseInv /\ PendingExact /\ Closing /\ Chains /\ Written /\ Streams /\ Loading

-----------------------------------------------------------------------------
(* The pool, as the actions of the file use it.                              *)
LEMMA SameCount == \A S : BP!Cardinality(S) = Cardinality(S) /\ B!Cardinality(S) = Cardinality(S)
  BY DEF BP!Cardinality, B!Cardinality, Cardinality, BP!IsFiniteSet, IsFiniteSet

\* The pool of the proofs is the pool of the specification.
LEMMA SamePool ==
  /\ BP!Buffer = Buffer
  /\ B!Init <=> BP!Init
  /\ \A t : B!Waiting(t) <=> BP!Waiting(t)
  /\ \A t : B!Waiting(t)' <=> BP!Waiting(t)'
  /\ \A t, n : B!Request(t, n) <=> BP!Request(t, n)
  /\ \A t : B!Resume(t) <=> BP!Resume(t)
  /\ \A t, b : B!Release(t, b) <=> BP!Release(t, b)
<1>1. BP!Buffer = Buffer
  BY DEF Buffer, B!Buffer, BP!Buffer
<1>2. B!Init <=> BP!Init
  BY DEF B!Init, BP!Init, B!InitialIds, BP!InitialIds
<1>3. \A t : B!Waiting(t) <=> BP!Waiting(t)
  BY DEF B!Waiting, BP!Waiting, B!Parked, BP!Parked, B!InSeq, BP!InSeq
<1>4. \A t : B!Waiting(t)' <=> BP!Waiting(t)'
  BY DEF B!Waiting, BP!Waiting, B!Parked, BP!Parked, B!InSeq, BP!InSeq
<1>5. \A t : B!Park(t) <=> BP!Park(t)
  BY DEF B!Park, BP!Park
<1>6. \A k : B!Top(k) = BP!Top(k) /\ (B!Pop(k) <=> BP!Pop(k)) /\ B!Available(k) = BP!Available(k)
  BY DEF B!Top, BP!Top, B!Pop, BP!Pop, B!Available, BP!Available
<1>7. \A t, n : B!Request(t, n) <=> BP!Request(t, n)
  BY <1>5, <1>6 DEF B!Request, BP!Request, B!ReturnArray, BP!ReturnArray, B!Counted, BP!Counted,
       B!Unbounded, BP!Unbounded
<1>8. \A t : B!Resume(t) <=> BP!Resume(t)
  BY <1>5, <1>6, SameCount DEF B!Resume, BP!Resume
<1>9. \A t, b : B!Release(t, b) <=> BP!Release(t, b)
  BY <1>3 DEF B!Release, BP!Release, B!ReleaseBuffer, BP!ReleaseBuffer, B!Holding, BP!Holding
<1> QED
  BY <1>1, <1>2, <1>3, <1>4, <1>7, <1>8, <1>9

LEMMA PoolFacts ==
  ASSUME BP!PInv
  PROVE  /\ got \in [Task -> SUBSET Buffer] /\ want \in [Task -> 0..MaxWant]
         /\ \A t \in Task : IsFiniteSet(got[t]) /\ (want[t] = 0 => got[t] = {})
         /\ \A t, u \in Task : t # u => got[t] \cap got[u] = {}
         /\ \A t \in Task : B!Waiting(t) => want[t] > 0
         /\ \A t \in Task : ~B!Waiting(t) => Cardinality(got[t]) = want[t]
<1>1. \A S : BP!IsFiniteSet(S) <=> IsFiniteSet(S)
  BY DEF BP!IsFiniteSet, IsFiniteSet
<1> QED
  BY <1>1, BP!PoolState, SamePool, SameCount, PoolAssumption

LEMMA PoolTypesNext ==
  ASSUME BP!PInv'
  PROVE  got' \in [Task -> SUBSET Buffer] /\ \A t \in Task : IsFiniteSet(got'[t])
<1>1. got' \in [Task -> SUBSET BP!Buffer]
  BY DEF BP!PInv, BP!RInv, BP!IInv, BP!TypeOK
<1>2. \A S : BP!IsFiniteSet(S) <=> IsFiniteSet(S)
  BY DEF BP!IsFiniteSet, IsFiniteSet
<1>3. \A t \in Task : IsFiniteSet(got'[t])
  BY <1>1, <1>2, BP!BufferFinite, PoolAssumption
<1> QED
  BY <1>1, <1>3, SamePool

LEMMA RequestPool ==
  ASSUME BP!PInv, NEW t \in Task, NEW n \in 1..MaxWant, B!Request(t, n)
  PROVE  /\ BP!PInv' /\ B!Next
         /\ want[t] = 0 /\ got[t] = {} /\ ~B!Waiting(t)
         /\ want' = [want EXCEPT ![t] = n]
         /\ \A u \in Task \ {t} : got'[u] = got[u] /\ (B!Waiting(u)' <=> B!Waiting(u))
         /\ ~B!Waiting(t)' => n = 1 /\ Cardinality(got'[t]) = n
<1>1. BP!Request(t, n) /\ B!Next
  BY SamePool DEF B!Next
<1> QED
  BY <1>1, BP!PoolRequest, SamePool, SameCount, PoolAssumption

LEMMA ResumePool ==
  ASSUME BP!PInv, NEW t \in Task, B!Resume(t)
  PROVE  /\ BP!PInv' /\ B!Next
         /\ B!Waiting(t) /\ want' = want
         /\ \A u \in Task \ {t} : got'[u] = got[u] /\ (B!Waiting(u)' <=> B!Waiting(u))
         /\ B!Waiting(t)' <=> Cardinality(got'[t]) # want[t]
<1>1. BP!Resume(t) /\ B!Next
  BY SamePool DEF B!Next
<1> QED
  BY <1>1, BP!PoolResume, SamePool, SameCount, PoolAssumption

LEMMA ReleasePool ==
  ASSUME BP!PInv, NEW t \in Task, NEW b \in Buffer, B!Release(t, b)
  PROVE  /\ BP!PInv' /\ B!Next
         /\ b \in got[t] /\ ~B!Waiting(t) /\ want[t] > 0
         /\ want' = [want EXCEPT ![t] = @ - 1]
         /\ got' = [got EXCEPT ![t] = @ \ {b}]
         /\ \A u \in Task : B!Waiting(u)' <=> B!Waiting(u)
<1>1. BP!Release(t, b) /\ B!Next
  BY SamePool DEF B!Next, Buffer
<1> QED
  BY <1>1, BP!PoolRelease, SamePool, PoolAssumption

\* An action that leaves the pool alone.
LEMMA KeepPool ==
  ASSUME UNCHANGED bufferVars
  PROVE  (BP!PInv => BP!PInv') /\ \A t : B!Waiting(t)' <=> B!Waiting(t)
<1>1. BP!vars' = BP!vars
  BY DEF bufferVars, BP!vars
<1>2. BP!PInv => BP!PInv'
  BY <1>1, BP!NextPInv, PoolAssumption
<1> QED
  BY <1>2 DEF bufferVars, B!Waiting, B!Parked, B!InSeq

-----------------------------------------------------------------------------
(* Arithmetic, sequences and places.                                         *)
LEMMA Division ==
  ASSUME NEW a \in Nat, NEW d \in Nat \ {0}
  PROVE  /\ a \div d \in Nat /\ a % d \in 0..(d - 1)
         /\ a = d * (a \div d) + (a % d)
OBVIOUS

LEMMA DivideMultiple == \A k \in Nat, d \in Nat \ {0} : (k * d) \div d = k /\ (k * d) % d = 0
OBVIOUS

LEMMA MultipleBelow == \A a, n \in Nat, d \in Nat \ {0} : n <= a \div d => n * d <= a
OBVIOUS

LEMMA Multiples ==
  \A a, b, d \in Int : /\ a * d \in Int
                       /\ a * d - b * d = (a - b) * d
                       /\ (a + 1) * d = a * d + d
OBVIOUS

LEMMA MultiplesOrdered == \A m, n \in Nat, d \in Nat : m <= n => m * d <= n * d
OBVIOUS

\* The sequences of the model are those of their elements.
Sequence(s) == s \in Seq({s[i] : i \in 1..Len(s)})

LEMMA TailSequence ==
  ASSUME NEW s, Sequence(s), s # <<>>
  PROVE  /\ Sequence(Tail(s)) /\ Len(s) \in Nat \ {0} /\ Len(Tail(s)) = Len(s) - 1
         /\ Head(s) = s[1] /\ 1 \in 1..Len(s)
         /\ \A i \in 1..Len(Tail(s)) : i + 1 \in 2..Len(s) /\ Tail(s)[i] = s[i + 1]
<1> DEFINE S == {s[i] : i \in 1..Len(s)}
           r == Tail(s)
<1>1. s \in Seq(S)
  BY DEF Sequence
<1>2. \A i \in 1..Len(s) : s[i] \in S
  OBVIOUS
<1> HIDE DEF S
<1>3. /\ r \in Seq(S) /\ Len(s) \in Nat \ {0} /\ Len(r) = Len(s) - 1 /\ Head(s) = s[1]
      /\ \A i \in 1..Len(r) : i + 1 \in 2..Len(s) /\ r[i] = s[i + 1]
  BY <1>1
<1> HIDE DEF r
<1>4. r \in Seq({r[i] : i \in 1..Len(r)})
  BY <1>3
<1> QED
  BY <1>3, <1>4 DEF Sequence, r

LEMMA AppendSequence ==
  ASSUME NEW s, Sequence(s), NEW x
  PROVE  /\ Sequence(Append(s, x)) /\ Len(s) \in Nat /\ Len(Append(s, x)) = Len(s) + 1
         /\ Append(s, x)[Len(s) + 1] = x
         /\ \A i \in 1..Len(s) : Append(s, x)[i] = s[i]
         /\ \A i \in 1..(Len(s) + 1) : i \in 1..Len(s) \/ i = Len(s) + 1
<1> DEFINE S == {s[i] : i \in 1..Len(s)} \cup {x}
           r == Append(s, x)
<1>1. s \in Seq(S) /\ x \in S
  BY DEF Sequence
<1> HIDE DEF S
<1>2. /\ r \in Seq(S) /\ Len(s) \in Nat /\ Len(r) = Len(s) + 1 /\ r[Len(s) + 1] = x
      /\ \A i \in 1..Len(s) : r[i] = s[i]
  BY <1>1
<1> HIDE DEF r
<1>3. r \in Seq({r[i] : i \in 1..Len(r)})
  BY <1>2
<1>4. \A i \in 1..(Len(s) + 1) : i \in 1..Len(s) \/ i = Len(s) + 1
  BY <1>2
<1> QED
  BY <1>2, <1>3, <1>4 DEF Sequence, r

\* The place of a number in a finite set of them.
Rank(S, b) == Cardinality({c \in S : c <= b})

\* Every place is that of one number.
LEMMA RankPlaces ==
  ASSUME NEW S, S \subseteq Int, IsFiniteSet(S)
  PROVE  /\ \A b \in S : Rank(S, b) \in 1..Cardinality(S)
         /\ \A b, c \in S : Rank(S, b) = Rank(S, c) => b = c
         /\ \A n \in 1..Cardinality(S) : \E b \in S : Rank(S, b) = n
<1> DEFINE Upto(b) == {c \in S : c <= b}
<1>1. \A b : IsFiniteSet(Upto(b)) /\ Cardinality(Upto(b)) \in Nat /\ Cardinality(Upto(b)) <= Cardinality(S)
  <2> TAKE b
  <2>1. Upto(b) \subseteq S
    OBVIOUS
  <2> HIDE DEF Upto
  <2> QED
    BY <2>1, FS_Subset, FS_CardinalityType
<1>2. Cardinality(S) \in Nat
  BY FS_CardinalityType
<1>3. ASSUME NEW b \in S PROVE Rank(S, b) \in 1..Cardinality(S)
  <2>1. b \in Upto(b)
    OBVIOUS
  <2>2. Upto(b) # {}
    BY <2>1
  <2>3. Cardinality(Upto(b)) # 0
    BY <1>1, <2>2, FS_EmptySet
  <2> QED
    BY <1>1, <1>2, <2>3 DEF Rank
<1>4. ASSUME NEW b \in S, NEW c \in S, b < c PROVE Rank(S, b) < Rank(S, c)
  <2>1. b \in Int /\ c \in Int
    OBVIOUS
  <2>2. Upto(b) \subseteq Upto(c)
    <3>1. \A x \in S : x \in Int /\ (x <= b => x <= c)
      BY <1>4, <2>1
    <3> QED
      BY <3>1
  <2>3. c \in Upto(c) /\ c \notin Upto(b)
    BY <1>4, <2>1
  <2>4. Upto(b) # Upto(c)
    BY <2>3
  <2>5. Cardinality(Upto(b)) <= Cardinality(Upto(c)) /\ Cardinality(Upto(b)) # Cardinality(Upto(c))
    <3> HIDE DEF Upto
    <3> QED
      BY <1>1, <2>2, <2>4, FS_Subset
  <2> QED
    BY <1>1, <2>5 DEF Rank
<1>5. ASSUME NEW b \in S, NEW c \in S, Rank(S, b) = Rank(S, c) PROVE b = c
  <2>1. b \in Int /\ c \in Int
    OBVIOUS
  <2>2. Rank(S, b) \in Int
    BY <1>3
  <2> QED
    BY <1>4, <1>5, <2>1, <2>2
<1> DEFINE f == [b \in S |-> Rank(S, b)]
           R == {f[b] : b \in S}
<1>6. f \in Surjection(S, R)
  BY DEF Surjection
<1>7. f \in Injection(S, R)
  BY <1>5, <1>6 DEF Injection, Surjection, IsInjective
<1>8. Cardinality(R) = Cardinality(S) /\ IsFiniteSet(R)
  BY <1>6, <1>7, FS_Surjection
<1>9. R \subseteq 1..Cardinality(S)
  BY <1>3
<1>10. IsFiniteSet(1..Cardinality(S)) /\ Cardinality(1..Cardinality(S)) = Cardinality(S)
  BY <1>2, FS_Interval
<1>11. R = 1..Cardinality(S)
  <2> HIDE DEF R
  <2> QED
    BY <1>8, <1>9, <1>10, FS_Subset
<1>12. ASSUME NEW n \in 1..Cardinality(S) PROVE \E b \in S : Rank(S, b) = n
  BY <1>11
<1> QED
  BY <1>3, <1>5, <1>12

-----------------------------------------------------------------------------
(* The initial states.                                                       *)
LEMMA InitFInv == Init => FInv
<1> SUFFICES ASSUME Init PROVE FInv
  OBVIOUS
<1>1. BP!PInv
  BY BP!InitPInv, SamePool, PoolAssumption DEF Init
<1>2. RingInv /\ Outstanding = {} /\ cq = <<>> /\ inflight = {} /\ cancelled = {}
  BY InitRing DEF Init, RingInit
<1>3. /\ \A t \in Task : want[t] = 0 /\ req[t] = None /\ got[t] = {}
      /\ inbound = <<>> /\ payloads = {} /\ loaded = <<>> /\ severed = {}
      /\ load = "none" /\ blocksCount = 0 /\ counter = 0 /\ next = 0
  BY DEF Init, B!Init
<1>4. \A t \in Task : ~B!Waiting(t)
  BY <1>1, <1>3, PoolFacts
<1>5. BaseInv
  <2>1. Requests
    BY <1>3, <1>4, FileAssumption DEF Requests
  <2>2. Events
    BY <1>3 DEF Events
  <2>3. Operations /\ Payloads
    BY <1>2, <1>3 DEF Operations, Payloads
  <2> QED
    BY <1>1, <1>2, <2>1, <2>2, <2>3 DEF BaseInv, Init
<1>6. PendingExact
  BY <1>2, FS_EmptySet DEF PendingExact, Init
<1>7. Closing
  BY <1>2 DEF Closing, Init
<1>8. Chains
  BY <1>2, <1>3 DEF Chains
<1>9. Written
  BY <1>3, PoolAssumption DEF Written, Told, Init, Served
<1>10. Streams
  <2>1. size \in Nat /\ start \in Nat /\ listener \in {"application", "load"}
    <3>1. \A n : (n \in Sizes => n \in Nat) /\ (n \in Offsets => n \in Nat)
      BY FileAssumption
    <3>2. \/ listener = "load" /\ size \in Sizes /\ start \in Offsets
          \/ listener = "application" /\ size = 0 /\ start = 0
      BY DEF Init
    <3>3. (size \in Nat \/ size = 0) /\ (start \in Nat \/ start = 0)
      BY <3>1, <3>2, Zenon
    <3> QED
      BY <3>2, <3>3
  <2> QED
    BY <1>3, <2>1, FileAssumption, PoolAssumption DEF Streams
<1>11. Loading
  <2>1. Content(Len(loaded)) = <<>> /\ <<>> \in Seq(Nat)
    BY <1>3 DEF Content
  <2>2. Bytes
    BY <1>3, <2>1 DEF Bytes
  <2>3. ~Served(Loader)
    BY <1>3, FileAssumption DEF Served
  <2> QED
    BY <1>2, <1>3, <2>2, <2>3 DEF Loading, Answered, Reading, Released, Ended
<1> QED
  BY <1>5, <1>6, <1>7, <1>8, <1>9, <1>10, <1>11 DEF FInv

-----------------------------------------------------------------------------
(* A request: it waits, it is refused, or it is submitted.                   *)

\* The operations of a request that is served.
Ops(t, r) == {[fd |-> Fd, buf |-> b, event |-> r.kind, task |-> t, nth |-> Nth(t, b),
               link |-> Linked(Nth(t, b), r.count), pos |-> Position(Nth(t, b))] : b \in got'[t]}

LEMMA OpsFacts ==
  ASSUME BP!PInv', NEW t \in Task, NEW r \in RequestType, Cardinality(got'[t]) = r.count,
         loaded \in Seq(Nat), start \in Nat
  PROVE  /\ IsFiniteSet(Ops(t, r)) /\ Cardinality(Ops(t, r)) = r.count
         /\ \A op \in Ops(t, r) :
              /\ op.task = t /\ op.event = r.kind /\ op.buf \in got'[t]
              /\ op.nth \in 1..r.count /\ (op.link <=> op.nth < r.count)
              /\ op.pos = start + Len(loaded) + (op.nth - 1) * Block /\ op.pos \in Nat
         /\ \A op, o \in Ops(t, r) : o.nth = op.nth \/ o.buf = op.buf => o = op
         /\ \A n \in 1..r.count : \E op \in Ops(t, r) : op.nth = n
         /\ \A b \in got'[t] : \E op \in Ops(t, r) : op.buf = b
<1> DEFINE S == got'[t]
           op(b) == [fd |-> Fd, buf |-> b, event |-> r.kind, task |-> t, nth |-> Nth(t, b),
                     link |-> Linked(Nth(t, b), r.count), pos |-> Position(Nth(t, b))]
<1>1. IsFiniteSet(S) /\ S \subseteq Int
  <2>1. got' \in [Task -> SUBSET Buffer] /\ IsFiniteSet(got'[t])
    BY PoolTypesNext
  <2>2. Buffer \subseteq Int
    BY PoolAssumption DEF Buffer, B!Buffer
  <2> QED
    BY <2>1, <2>2
<1>2. \A b : Nth(t, b) = Rank(S, b)
  BY DEF Nth, Rank
<1>3. r.count \in Nat
  BY PoolAssumption DEF RequestType
<1> HIDE DEF S
<1>4. Cardinality(S) = r.count
  BY DEF S
<1>5. /\ \A b \in S : Nth(t, b) \in 1..r.count
      /\ \A b, c \in S : Nth(t, b) = Nth(t, c) => b = c
      /\ \A n \in 1..r.count : \E b \in S : Nth(t, b) = n
  <2>1. /\ \A b \in S : Rank(S, b) \in 1..Cardinality(S)
        /\ \A b, c \in S : Rank(S, b) = Rank(S, c) => b = c
        /\ \A n \in 1..Cardinality(S) : \E b \in S : Rank(S, b) = n
    BY <1>1, RankPlaces, Zenon
  <2> QED
    BY <1>2, <1>4, <2>1
<1>6. /\ \A b \in S : op(b) \in Ops(t, r)
      /\ \A o \in Ops(t, r) : \E b \in S : o = op(b)
  BY DEF Ops, S
<1>7. \A b : /\ op(b).buf = b /\ op(b).event = r.kind /\ op(b).task = t /\ op(b).nth = Nth(t, b)
             /\ op(b).link = Linked(Nth(t, b), r.count) /\ op(b).pos = Position(Nth(t, b))
  OBVIOUS
<1>8. \A b \in S : /\ op(b).nth \in 1..r.count /\ (op(b).link <=> op(b).nth < r.count)
                   /\ op(b).pos = start + Len(loaded) + (op(b).nth - 1) * Block
  BY <1>5, <1>7 DEF Linked, Position
<1>9. \A n \in 1..r.count : start + Len(loaded) + (n - 1) * Block \in Nat
  <2>1. \A m \in Nat : m * Block \in Nat
    BY FileAssumption
  <2>2. Len(loaded) \in Nat
    OBVIOUS
  <2> TAKE n \in 1..r.count
  <2>3. n - 1 \in Nat
    BY <1>3
  <2>4. (n - 1) * Block \in Nat
    BY <2>1, <2>3
  <2>5. PICK p \in Nat : p = (n - 1) * Block
    BY <2>4
  <2>6. start \in Nat
    OBVIOUS
  <2>7. start + Len(loaded) + p \in Nat
    BY <2>2, <2>5, <2>6
  <2> QED
    BY <2>5, <2>7
<1> DEFINE f == [b \in S |-> op(b)]
<1>10. f \in Surjection(S, Ops(t, r))
  BY <1>6 DEF Surjection
<1> HIDE DEF op
<1>11. f \in Injection(S, Ops(t, r))
  <2>1. \A b, c \in S : op(b) = op(c) => b = c
    BY <1>7
  <2> QED
    BY <1>10, <2>1 DEF Injection, Surjection, IsInjective
<1>12. IsFiniteSet(Ops(t, r)) /\ Cardinality(Ops(t, r)) = r.count
  BY <1>1, <1>4, <1>10, <1>11, FS_Surjection
<1>13. ASSUME NEW o \in Ops(t, r)
       PROVE  /\ o.task = t /\ o.event = r.kind /\ o.buf \in S
              /\ o.nth \in 1..r.count /\ (o.link <=> o.nth < r.count)
              /\ o.pos = start + Len(loaded) + (o.nth - 1) * Block /\ o.pos \in Nat
  <2>1. PICK b \in S : o = op(b)
    BY <1>6
  <2> QED
    BY <1>7, <1>8, <1>9, <2>1
<1>14. ASSUME NEW o \in Ops(t, r), NEW q \in Ops(t, r), q.nth = o.nth \/ q.buf = o.buf PROVE q = o
  <2>1. PICK b \in S : o = op(b)
    BY <1>6
  <2>2. PICK c \in S : q = op(c)
    BY <1>6
  <2>3. b = c
    BY <1>5, <1>7, <1>14, <2>1, <2>2
  <2> QED
    BY <2>1, <2>2, <2>3
<1>15. \A n \in 1..r.count : \E o \in Ops(t, r) : o.nth = n
  BY <1>5, <1>6, <1>7
<1>16. \A b \in S : \E o \in Ops(t, r) : o.buf = b
  BY <1>6, <1>7
<1> QED
  BY <1>12, <1>13, <1>14, <1>15, <1>16 DEF S

\* A task that asks for buffers, or waits for them: nothing of it is under way.
Idle(t) ==
  /\ \A op \in Outstanding : op.task # t
  /\ \A i \in 1..Len(inbound) : inbound[i].op.task # t
  /\ \A p \in payloads : p[1] # t
  /\ t # Loader => ~Served(t)
  /\ t = Loader => load = "reading" /\ listener = "load" /\ inbound = <<>> /\ counter = 0

\* What it says of a step of t that the others go on as they were.
Apart(t) ==
  \A u \in Task \ {t} :
    /\ req'[u] = req[u] /\ got'[u] = got[u] /\ want'[u] = want[u]
    /\ B!Waiting(u)' <=> B!Waiting(u)

Waits(t) ==
  /\ B!Waiting(t)'
  /\ Outstanding' = Outstanding
  /\ UNCHANGED <<inflight, pending, severed, reports, load, streamVars>>
Refuses(t) ==
  /\ ~B!Waiting(t)' /\ closing
  /\ Outstanding' = Outstanding
  /\ UNCHANGED <<inflight, pending, severed>>
  /\ IF t = Loader
       THEN EndLoad("failed") /\ UNCHANGED reports
       ELSE /\ reports' = [reports EXCEPT ![t] = IF req'[t].kind = "write" THEN Append(@, "error") ELSE @]
            /\ UNCHANGED <<load, streamVars>>
Submits(t) ==
  /\ ~B!Waiting(t)' /\ ~closing /\ Cardinality(got'[t]) = req'[t].count
  /\ Outstanding' = Outstanding \cup Ops(t, req'[t])
  /\ inflight' = inflight \cup Ops(t, req'[t])
  /\ pending' = pending + req'[t].count
  /\ severed' = severed \ {t}
  /\ UNCHANGED <<reports, load, streamVars>>

\* A step of t that makes or goes on with its request.
Issues(t) ==
  /\ BP!PInv' /\ RingInv' /\ B!Next /\ Apart(t)
  /\ req' \in [Task -> RequestType \cup {None}] /\ req'[t] \in RequestType
  /\ want'[t] = req'[t].count
  /\ IF t = Loader
       THEN req'[t].kind = "read" /\ req'[t].count = blocksCount /\ next' = 0
       ELSE (listener # "application" => req'[t].kind = "write") /\ next' = next
  /\ UNCHANGED <<payloads, doneCounter, errorCounter, closeVars, size, start, cancelled, cq, batch,
                 loaded, blocksCount, counter>>
  /\ Waits(t) \/ Refuses(t) \/ Submits(t)

\* The ring after the part of a request that begins with Start, or without it.
LEMMA StartRing ==
  ASSUME FInv, NEW t \in Task, req'[t] \in RequestType, BP!PInv', Start(t, req'[t]),
         UNCHANGED <<cancelled, cq, batch>>, \A op \in Outstanding : op.task # t,
         Cardinality(got'[t]) = req'[t].count, ~B!Waiting(t)'
  PROVE  RingInv' /\ (Refuses(t) \/ Submits(t))
<1>1. RingInv /\ loaded \in Seq(Nat) /\ start \in Nat
  BY DEF FInv, BaseInv, Loading, Bytes, Streams
<1>2. CASE closing
  <2>1. /\ UNCHANGED <<inflight, events, pending, severed>>
        /\ IF t = Loader
             THEN EndLoad("failed") /\ UNCHANGED reports
             ELSE /\ reports' = [reports EXCEPT ![t] = IF req'[t].kind = "write" THEN Append(@, "error") ELSE @]
                  /\ UNCHANGED <<load, streamVars>>
    BY <1>2 DEF Start
  <2>2. RingInv' /\ Outstanding' = Outstanding
    BY <1>1, <2>1, KeepRing DEF RingInv
  <2> QED
    BY <1>2, <2>1, <2>2 DEF Refuses
<1>3. CASE ~closing
  <2>1. /\ Submit(Ops(t, req'[t]), events) /\ pending' = pending + req'[t].count
        /\ severed' = severed \ {t} /\ UNCHANGED <<reports, load, streamVars>>
    BY <1>3 DEF Start, Count, Ops
  <2>2. IsFiniteSet(Ops(t, req'[t])) /\ \A op \in Ops(t, req'[t]) : op.task = t
    BY <1>1, OpsFacts
  <2>3. Ops(t, req'[t]) \cap Outstanding = {}
    BY <2>2
  <2>4. inflight' = inflight \cup Ops(t, req'[t])
    BY <2>1 DEF Submit
  <2>5. RingInv' /\ Outstanding' = Outstanding \cup Ops(t, req'[t])
    BY <1>1, <2>1, <2>2, <2>3, SubmitRing
  <2> QED
    BY <1>3, <2>1, <2>4, <2>5 DEF Submits
<1> QED
  BY <1>2, <1>3

LEMMA NotStartedRing ==
  ASSUME RingInv, NEW t, NotStarted, UNCHANGED <<cancelled, cq, batch>>, B!Waiting(t)'
  PROVE  RingInv' /\ Waits(t)
<1>1. UNCHANGED <<inflight, events, pending, severed, reports, load, streamVars>>
  BY DEF NotStarted
<1>2. RingInv' /\ Outstanding' = Outstanding
  BY <1>1, KeepRing DEF RingInv
<1> QED
  BY <1>1, <1>2 DEF Waits

\* A task whose request is not served has nothing under way.
LEMMA IdleTask ==
  ASSUME FInv, NEW t \in Task, ~Served(t)
  PROVE  /\ \A op \in Outstanding : op.task # t
         /\ \A i \in 1..Len(inbound) : inbound[i].op.task # t
         /\ \A p \in payloads : p[1] # t
BY DEF FInv, BaseInv, Operations, OperationOK, Events, EventOK, Payloads, PayloadOK

\* The events of a stream that load() has are its own.
LEMMA LoaderEvents ==
  ASSUME FInv, listener # "application", NEW i \in 1..Len(inbound)
  PROVE  inbound[i].op.task = Loader /\ Served(Loader)
BY DEF FInv, BaseInv, Events, EventOK, Streams, Served

\* load() asks for its blocks: nothing of it is under way.
LEMMA LoaderIdle ==
  ASSUME FInv, B!Waiting(Loader) \/ next # 0
  PROVE  Idle(Loader)
<1>1. Loader \in Task
  BY FileAssumption
<1>2. CASE B!Waiting(Loader)
  <2>1. ~Served(Loader)
    BY <1>2 DEF Served
  <2>2. req[Loader] # None
    BY <1>1, <1>2, PoolFacts DEF FInv, BaseInv, Requests
  <2>3. load = "reading" /\ listener = "load" /\ counter = 0
    BY <1>2, <2>2 DEF FInv, Streams, Ended, Loading, Reading, Round
  <2>4. Len(inbound) \in Nat /\ (inbound # <<>> => Len(inbound) # 0)
    BY DEF FInv, BaseInv, Events
  <2>5. inbound = <<>>
    <3>1. ASSUME inbound # <<>> PROVE FALSE
      <4>1. 1 \in 1..Len(inbound)
        BY <2>4, <3>1
      <4> QED
        BY <2>1, <2>3, <4>1, LoaderEvents
    <3> QED
      BY <3>1
  <2> QED
    BY <1>1, <2>1, <2>3, <2>5, IdleTask DEF Idle
<1>3. CASE next # 0
  <2>1. load = "reading" /\ listener = "load"
    BY <1>3 DEF FInv, Streams
  <2>2. counter = 0 /\ inbound = <<>> /\ \A op \in Outstanding : op.task # Loader
    BY <1>3, <2>1 DEF FInv, Loading, Reading, Round
  <2>3. \A p \in payloads : p[1] # Loader
    BY DEF FInv, BaseInv, Payloads, PayloadOK
  <2> QED
    BY <2>1, <2>2, <2>3 DEF Idle
<1> QED
  BY <1>2, <1>3

LEMMA AllocateIssues ==
  ASSUME FInv, NEW t \in Task, NEW r \in RequestType, Allocate(t, r), Idle(t)
  PROVE  /\ BP!PInv' /\ RingInv' /\ B!Next /\ Apart(t)
         /\ req' \in [Task -> RequestType \cup {None}] /\ req'[t] = r /\ want'[t] = req'[t].count
         /\ UNCHANGED <<payloads, doneCounter, errorCounter, closeVars, size, start, cancelled, cq, batch>>
         /\ Waits(t) \/ Refuses(t) \/ Submits(t)
<1>1. /\ B!Request(t, r.count) /\ req' = [req EXCEPT ![t] = r]
      /\ B!Waiting(t)' => NotStarted
      /\ ~B!Waiting(t)' => Start(t, r)
      /\ UNCHANGED <<payloads, doneCounter, errorCounter, closeVars, size, start, cancelled, cq, batch>>
  BY DEF Allocate
<1>2. BP!PInv /\ RingInv /\ req \in [Task -> RequestType \cup {None}]
  BY DEF FInv, BaseInv
<1>3. r.count \in 1..MaxWant
  BY DEF RequestType
<1>4. /\ BP!PInv' /\ B!Next
      /\ want' = [want EXCEPT ![t] = r.count]
      /\ \A u \in Task \ {t} : got'[u] = got[u] /\ (B!Waiting(u)' <=> B!Waiting(u))
      /\ ~B!Waiting(t)' => r.count = 1 /\ Cardinality(got'[t]) = r.count
  BY <1>1, <1>2, <1>3, RequestPool
<1>5. /\ req'[t] = r /\ req' \in [Task -> RequestType \cup {None}]
      /\ \A u \in Task \ {t} : req'[u] = req[u] /\ want'[u] = want[u]
      /\ want'[t] = req'[t].count
  BY <1>1, <1>2, <1>4, PoolFacts
<1>6. Apart(t)
  BY <1>4, <1>5 DEF Apart
<1>7. \A op \in Outstanding : op.task # t
  BY DEF Idle
<1>8. CASE B!Waiting(t)'
  BY <1>1, <1>2, <1>4, <1>5, <1>6, <1>8, NotStartedRing
<1>9. CASE ~B!Waiting(t)'
  <2>1. Start(t, req'[t]) /\ Cardinality(got'[t]) = req'[t].count /\ req'[t] \in RequestType
    BY <1>1, <1>4, <1>5, <1>9
  <2>2. RingInv' /\ (Refuses(t) \/ Submits(t))
    BY <1>1, <1>4, <1>7, <1>9, <2>1, StartRing
  <2> QED
    BY <1>1, <1>4, <1>5, <1>6, <2>2
<1> QED
  BY <1>8, <1>9

LEMMA RequestIssues ==
  ASSUME FInv, NEW t \in Task, NEW kind \in {"read", "write"}, NEW n \in 1..MaxWant,
         NEW single \in BOOLEAN, Request(t, kind, n, single)
  PROVE  Issues(t) /\ Idle(t)
<1> DEFINE r == [kind |-> kind, count |-> n, single |-> single]
<1>1. /\ next = 0 /\ t # Loader /\ req[t] = None
      /\ kind = "read" => listener = "application"
      /\ Allocate(t, r)
      /\ UNCHANGED <<loaded, blocksCount, counter, next>>
  BY DEF Request
<1>2. r \in RequestType /\ r.kind = kind
  BY DEF RequestType
<1> HIDE DEF r
<1>3. ~Served(t)
  BY <1>1 DEF Served
<1>4. Idle(t)
  BY <1>1, <1>3, IdleTask DEF Idle
<1>5. /\ BP!PInv' /\ RingInv' /\ B!Next /\ Apart(t)
      /\ req' \in [Task -> RequestType \cup {None}] /\ req'[t] = r /\ want'[t] = req'[t].count
      /\ UNCHANGED <<payloads, doneCounter, errorCounter, closeVars, size, start, cancelled, cq, batch>>
      /\ Waits(t) \/ Refuses(t) \/ Submits(t)
  BY <1>1, <1>2, <1>4, AllocateIssues
<1> QED
  BY <1>1, <1>2, <1>4, <1>5 DEF Issues

LEMMA LoadRequestIssues ==
  ASSUME FInv, LoadRequest
  PROVE  Issues(Loader) /\ Idle(Loader)
<1> DEFINE r == [kind |-> "read", count |-> next,
                 single |-> IF req[Loader] = None THEN next = 1 ELSE req[Loader].single]
<1>1. /\ next > 0 /\ Allocate(Loader, r) /\ next' = 0
      /\ UNCHANGED <<loaded, blocksCount, counter>>
  BY DEF LoadRequest
<1>2. Loader \in Task
  BY FileAssumption
<1>3. Idle(Loader)
  BY <1>1, LoaderIdle DEF FInv, Streams
<1>4. next \in 1..MaxWant /\ next = blocksCount
  BY <1>1, <1>3, PoolAssumption DEF Idle, FInv, Streams, Loading, Reading, Round
<1>5. (IF req[Loader] = None THEN next = 1 ELSE req[Loader].single) \in BOOLEAN
  BY <1>2 DEF FInv, BaseInv, RequestType
<1>6. r \in RequestType /\ r.kind = "read" /\ r.count = next
  BY <1>4, <1>5 DEF RequestType
<1> HIDE DEF r
<1>7. /\ BP!PInv' /\ RingInv' /\ B!Next /\ Apart(Loader)
      /\ req' \in [Task -> RequestType \cup {None}] /\ req'[Loader] = r /\ want'[Loader] = req'[Loader].count
      /\ UNCHANGED <<payloads, doneCounter, errorCounter, closeVars, size, start, cancelled, cq, batch>>
      /\ Waits(Loader) \/ Refuses(Loader) \/ Submits(Loader)
  BY <1>1, <1>2, <1>3, <1>6, AllocateIssues
<1> QED
  BY <1>1, <1>3, <1>4, <1>6, <1>7 DEF Issues

LEMMA ResumeIssues ==
  ASSUME FInv, NEW t \in Task, Resume(t)
  PROVE  Issues(t) /\ Idle(t)
<1>1. /\ B!Resume(t) /\ next = 0
      /\ IF Cardinality(got'[t]) = want'[t] THEN Start(t, req[t]) ELSE NotStarted
      /\ UNCHANGED <<req, payloads, doneCounter, errorCounter, loaded, blocksCount, counter, next,
                     closeVars, size, start, cancelled, cq, batch>>
  BY DEF Resume, taskVars
<1>2. BP!PInv /\ RingInv /\ req \in [Task -> RequestType \cup {None}] /\ Requests
  BY DEF FInv, BaseInv
<1>3. /\ BP!PInv' /\ B!Next
      /\ B!Waiting(t) /\ want' = want
      /\ \A u \in Task \ {t} : got'[u] = got[u] /\ (B!Waiting(u)' <=> B!Waiting(u))
      /\ B!Waiting(t)' <=> Cardinality(got'[t]) # want[t]
  BY <1>1, <1>2, ResumePool
<1>4. req[t] # None /\ want[t] = req[t].count
  BY <1>2, <1>3, PoolFacts DEF Requests
<1>5. /\ req'[t] \in RequestType /\ req'[t] = req[t] /\ want'[t] = req'[t].count
      /\ req' \in [Task -> RequestType \cup {None}]
  BY <1>1, <1>2, <1>3, <1>4
<1>6. Apart(t)
  BY <1>1, <1>3 DEF Apart
<1>7. ~Served(t)
  BY <1>3 DEF Served
<1>8. Idle(t)
  <2>1. t = Loader => Idle(Loader)
    BY <1>3, LoaderIdle
  <2> QED
    BY <1>7, <2>1, IdleTask DEF Idle
<1>9. RingInv' /\ (Waits(t) \/ Refuses(t) \/ Submits(t))
  <2>1. CASE B!Waiting(t)'
    BY <1>1, <1>2, <1>3, <2>1, NotStartedRing
  <2>2. CASE ~B!Waiting(t)'
    <3>1. Start(t, req'[t]) /\ Cardinality(got'[t]) = req'[t].count
      BY <1>1, <1>3, <1>5, <2>2
    <3> QED
      BY <1>1, <1>3, <1>5, <1>8, <2>2, <3>1, StartRing DEF Idle
  <2> QED
    BY <2>1, <2>2
<1>10. IF t = Loader
         THEN req'[t].kind = "read" /\ req'[t].count = blocksCount /\ next' = 0
         ELSE (listener # "application" => req'[t].kind = "write") /\ next' = next
  <2>1. CASE t = Loader
    <3>1. load = "reading"
      BY <1>8, <2>1 DEF Idle
    <3> QED
      BY <1>1, <1>2, <1>4, <1>5, <2>1, <3>1 DEF FInv, Requests, Loading, Reading, Round
  <2>2. CASE t # Loader
    BY <1>1, <1>4, <1>5, <2>2 DEF FInv, Streams
  <2> QED
    BY <2>1, <2>2
<1> QED
  BY <1>1, <1>3, <1>5, <1>6, <1>8, <1>9, <1>10 DEF Issues

-----------------------------------------------------------------------------
(* What a request changes of the parts of the invariant.                     *)

\* The operations of a request that is submitted, and those of the others.
LEMMA SubmitsOps ==
  ASSUME FInv, NEW t \in Task, Issues(t), Submits(t)
  PROVE  LET ops == Ops(t, req'[t]) IN
         /\ Outstanding' = Outstanding \cup ops /\ inflight' = inflight \cup ops
         /\ IsFiniteSet(ops) /\ Cardinality(ops) = req'[t].count
         /\ \A op \in ops :
              /\ op.task = t /\ op.event = req'[t].kind /\ op.buf \in got'[t]
              /\ op.nth \in 1..req'[t].count /\ (op.link <=> op.nth < req'[t].count)
              /\ op.pos = start + Len(loaded) + (op.nth - 1) * Block /\ op.pos \in Nat
         /\ \A op, o \in ops : o.nth = op.nth \/ o.buf = op.buf => o = op
         /\ \A n \in 1..req'[t].count : \E op \in ops : op.nth = n
         /\ \A b \in got'[t] : \E op \in ops : op.buf = b
<1>1. /\ BP!PInv' /\ req'[t] \in RequestType /\ Cardinality(got'[t]) = req'[t].count
      /\ loaded \in Seq(Nat) /\ start \in Nat
      /\ Outstanding' = Outstanding \cup Ops(t, req'[t]) /\ inflight' = inflight \cup Ops(t, req'[t])
  BY DEF Issues, Submits, FInv, Loading, Bytes, Streams
<1> QED
  BY <1>1, OpsFacts

LEMMA IssueBase ==
  ASSUME FInv, NEW t \in Task, Issues(t), Idle(t)
  PROVE  BaseInv'
<1>1. /\ Apart(t) /\ req'[t] \in RequestType /\ want'[t] = req'[t].count /\ req'[t] # None
      /\ payloads' = payloads /\ (t = Loader => req'[t].kind = "read")
  BY FileAssumption DEF Issues
<1>2. \A u \in Task \ {t} : (Served(u)' <=> Served(u)) /\ req'[u] = req[u] /\ got'[u] = got[u]
  BY <1>1 DEF Apart, Served
<1>3. Requests'
  <2>1. \A u \in Task : /\ want'[u] > 0 => req'[u] # None
                        /\ B!Waiting(u)' => want'[u] = req'[u].count
    BY <1>1 DEF Apart, FInv, BaseInv, Requests
  <2>2. req'[Loader] # None => req'[Loader].kind = "read"
    BY <1>1, FileAssumption DEF Apart, FInv, BaseInv, Requests
  <2> QED
    BY <2>1, <2>2 DEF Requests
<1>4. \A op \in Outstanding : op.task # t /\ OperationOK(op)'
  BY <1>2 DEF Idle, FInv, BaseInv, Operations, OperationOK
<1>5. CASE Outstanding' = Outstanding
  <2>1. Operations'
    BY <1>4, <1>5 DEF FInv, BaseInv, Operations
  <2>2. Payloads'
    BY <1>1, <1>2, <1>5 DEF Idle, FInv, BaseInv, Payloads, PayloadOK
  <2>3. \A e \in {inbound[i] : i \in 1..Len(inbound)} : EventOK(e)'
    BY <1>1, <1>2, <1>5 DEF Idle, FInv, BaseInv, Events, EventOK, Pays
  <2>4. inbound' = inbound \/ inbound' = <<>>
    BY <1>5 DEF Issues, Waits, Refuses, Submits, EndLoad, streamVars
  <2>5. Events'
    <3>1. CASE inbound' = inbound
      BY <2>3, <3>1 DEF FInv, BaseInv, Events, Pays
    <3>2. CASE inbound' = <<>>
      BY <3>2 DEF Events
    <3> QED
      BY <2>4, <3>1, <3>2
  <2> QED
    BY <1>3, <2>1, <2>2, <2>5 DEF Issues, BaseInv
<1>6. CASE Submits(t)
  <2> DEFINE ops == Ops(t, req'[t])
  <2>1. /\ Outstanding' = Outstanding \cup ops
        /\ \A op \in ops :
             /\ op.task = t /\ op.event = req'[t].kind /\ op.buf \in got'[t] /\ op.pos \in Nat
             /\ op.nth \in 1..req'[t].count /\ (op.link <=> op.nth < req'[t].count)
        /\ \A op, o \in ops : o.nth = op.nth \/ o.buf = op.buf => o = op
    BY <1>6, SubmitsOps
  <2>2. Served(t)' /\ inbound' = inbound
    BY <1>1, <1>6 DEF Submits, Served, streamVars
  <2> HIDE DEF ops
  <2>3. Operations'
    <3>1. \A op \in ops : OperationOK(op)'
      BY <2>1, <2>2 DEF OperationOK
    <3>2. \A op, o \in Outstanding' :
            o.task = op.task /\ (o.nth = op.nth \/ o.buf = op.buf) => o = op
      BY <1>4, <2>1 DEF FInv, BaseInv, Operations
    <3> QED
      BY <1>4, <2>1, <3>1, <3>2 DEF Operations
  <2>4. Payloads'
    BY <1>1, <1>2, <2>1 DEF Idle, FInv, BaseInv, Payloads, PayloadOK
  <2>5. \A e \in {inbound[i] : i \in 1..Len(inbound)} : EventOK(e)'
    <3> SUFFICES ASSUME NEW i \in 1..Len(inbound) PROVE EventOK(inbound[i])'
      BY <2>2
    <3>1. PICK e : e = inbound[i]
      OBVIOUS
    <3>2. EventOK(e) /\ e.op.task # t
      BY <1>2, <3>1 DEF Idle, FInv, BaseInv, Events
    <3>3. \A op \in Outstanding' : op.task = e.op.task => op \in Outstanding
      BY <2>1, <3>2
    <3>4. PICK u \in Task \ {t} : u = e.op.task
      BY <3>2 DEF EventOK
    <3>5. req'[u] = req[u] /\ got'[u] = got[u] /\ (B!Waiting(u)' <=> B!Waiting(u))
      BY <1>1, <3>4 DEF Apart
    <3>6. Served(u)' <=> Served(u)
      BY <3>5 DEF Served
    <3>7. EventOK(e)'
      BY <1>1, <3>2, <3>3, <3>4, <3>5, <3>6 DEF EventOK, Pays
    <3> QED
      BY <2>2, <3>1, <3>7
  <2>6. Events'
    BY <2>2, <2>5 DEF FInv, BaseInv, Events, Pays
  <2> QED
    BY <1>3, <2>3, <2>4, <2>6 DEF Issues, BaseInv
<1> QED
  BY <1>5, <1>6 DEF Issues, Waits, Refuses

LEMMA IssuePending ==
  ASSUME FInv, NEW t \in Task, Issues(t), Idle(t)
  PROVE  PendingExact'
<1>1. CASE Outstanding' = Outstanding /\ pending' = pending
  BY <1>1 DEF FInv, PendingExact
<1>2. CASE Submits(t)
  <2> DEFINE ops == Ops(t, req'[t])
  <2>1. /\ Outstanding' = Outstanding \cup ops /\ IsFiniteSet(ops) /\ Cardinality(ops) = req'[t].count
        /\ \A op \in ops : op.task = t
    BY <1>2, SubmitsOps
  <2> HIDE DEF ops
  <2>2. Outstanding \cap ops = {}
    BY <2>1 DEF Idle
  <2>3. IsFiniteSet(Outstanding)
    BY OutstandingFinite DEF FInv, BaseInv
  <2>4. Cardinality(Outstanding \cup ops) = Cardinality(Outstanding) + Cardinality(ops) - Cardinality(Outstanding \cap ops)
    BY <2>1, <2>3, FS_Union
  <2>5. Cardinality(Outstanding \cap ops) = 0
    BY <2>2, FS_EmptySet
  <2>6. Cardinality(Outstanding) \in Nat /\ Cardinality(ops) \in Nat
    BY <2>1, <2>3, FS_CardinalityType
  <2>7. pending' = pending + Cardinality(ops)
    BY <1>2, <2>1 DEF Submits
  <2> QED
    BY <2>1, <2>4, <2>5, <2>6, <2>7 DEF FInv, PendingExact
<1> QED
  BY <1>1, <1>2 DEF Issues, Waits, Refuses

LEMMA IssueClosing ==
  ASSUME FInv, NEW t \in Task, Issues(t)
  PROVE  Closing'
<1>1. UNCHANGED <<active, closing, closer, closePc, cancelled>>
  BY DEF Issues, closeVars
<1>2. pending' = pending \/ ~closing
  BY DEF Issues, Waits, Refuses, Submits
<1> QED
  BY <1>1, <1>2 DEF FInv, Closing

\* The chains of the others go on, that of the request begins.
LEMMA IssueChains ==
  ASSUME FInv, NEW t \in Task, Issues(t), Idle(t)
  PROVE  /\ Chains'
         /\ cq' = cq /\ (\A i \in 1..Len(cq) : cq[i].op.task # t)
         /\ \A u \in Task \ {t} :
              /\ u \in severed' <=> u \in severed
              /\ \A op : op.task = u => (op \in inflight' <=> op \in inflight)
              /\ \A op : op.task = u => (op \in Outstanding' <=> op \in Outstanding)
<1>1. cq' = cq /\ severed' \subseteq Task
  BY DEF Issues, Waits, Refuses, Submits, FInv, Chains
<1>2. \A i \in 1..Len(cq) : cq[i].op.task # t
  BY DEF Idle, Outstanding
<1>3. \A op \in inflight : op.task # t
  BY DEF Idle, Outstanding
<1>4. CASE inflight' = inflight /\ severed' = severed /\ Outstanding' = Outstanding
  BY <1>1, <1>2, <1>4 DEF FInv, Chains
<1>5. CASE Submits(t)
  <2> DEFINE ops == Ops(t, req'[t])
  <2>1. /\ inflight' = inflight \cup ops /\ severed' = severed \ {t}
        /\ Outstanding' = Outstanding \cup ops
        /\ \A op \in ops : op.task = t
    BY <1>5, SubmitsOps DEF Submits
  <2> HIDE DEF ops
  <2>2. /\ \A i \in 1..Len(cq) : \A op \in inflight' : cq[i].op.task = op.task =>
             /\ cq[i].op.nth < op.nth
             /\ cq[i].res # Block => op.task \in severed'
    BY <1>2, <2>1 DEF FInv, Chains
  <2>3. \A op \in inflight' : op.task \in severed' => op.nth > 1
    BY <2>1 DEF FInv, Chains
  <2>4. Chains'
    BY <1>1, <2>2, <2>3 DEF FInv, Chains
  <2> QED
    BY <1>1, <1>2, <2>1, <2>4
<1> QED
  BY <1>4, <1>5 DEF Issues, Waits, Refuses

-----------------------------------------------------------------------------
(* What the steps of the others leave.                                       *)

\* The completion queue as it was, or without its first completion.
Shifted(d) ==
  /\ d \in {0, 1} /\ Len(cq) \in Nat /\ Len(cq') = Len(cq) - d
  /\ \A i \in 1..Len(cq') : i + d \in 1..Len(cq) /\ cq'[i] = cq[i + d]

LEMMA ShiftedSame == RingInv /\ cq' = cq => Shifted(0)
<1> SUFFICES ASSUME RingInv, cq' = cq PROVE Shifted(0)
  OBVIOUS
<1>1. Len(cq) \in Nat
  BY DEF RingInv
<1> QED
  BY <1>1 DEF Shifted

LEMMA ShiftedTail == RingInv /\ cq # <<>> /\ cq' = Tail(cq) => Shifted(1)
<1> SUFFICES ASSUME RingInv, cq # <<>>, cq' = Tail(cq) PROVE Shifted(1)
  OBVIOUS
<1>1. Sequence(cq)
  BY DEF RingInv, Sequence
<1>2. /\ Len(cq) \in Nat \ {0} /\ Len(Tail(cq)) = Len(cq) - 1
      /\ \A i \in 1..Len(Tail(cq)) : i + 1 \in 2..Len(cq) /\ Tail(cq)[i] = cq[i + 1]
  BY <1>1, TailSequence
<1> QED
  BY <1>2 DEF Shifted

\* A chain that is cut stays so.
LEMMA KeepCut ==
  ASSUME NEW t, Cut(t), NEW d, Shifted(d),
         \A op : op.task = t /\ op \in inflight' => op \in inflight,
         t \in severed => t \in severed'
  PROVE  Cut(t)'
<1>1. \A i \in 1..Len(cq') : cq'[i].op.task = t => cq'[i].res = Canceled
  BY DEF Shifted, Cut
<1>2. \A op \in inflight' : op.task = t => t \in severed'
  BY DEF Cut
<1> QED
  BY <1>1, <1>2 DEF Cut

LEMMA KeepTold ==
  ASSUME NEW u, Told(u), req'[u] = req[u], got'[u] = got[u], want'[u] = want[u],
         B!Waiting(u)' <=> B!Waiting(u),
         doneCounter'[u] = doneCounter[u], errorCounter'[u] = errorCounter[u], reports'[u] = reports[u],
         Reporting' => Reporting, Cut(u) => Cut(u)',
         \A op : op.task = u => (op \in Outstanding' <=> op \in Outstanding)
  PROVE  Told(u)'
<1>1. Served(u)' <=> Served(u)
  BY DEF Served
<1>2. Refused(u) => Refused(u)'
  BY DEF Refused
<1>3. Counted(u) => Counted(u)'
  BY DEF Counted
<1> QED
  BY <1>1, <1>2, <1>3 DEF Told

\* load() as it was.
LoadKept ==
  /\ UNCHANGED <<load, loaded, blocksCount, counter, next, inbound, listener, size, start>>
  /\ req'[Loader] = req[Loader] /\ got'[Loader] = got[Loader]
  /\ B!Waiting(Loader)' <=> B!Waiting(Loader)
  /\ closing => closing'
  /\ active' => active
  /\ Loader \in severed' <=> Loader \in severed
  /\ \A op : op.task = Loader => (op \in Outstanding' <=> op \in Outstanding)
  /\ \A op : op.task = Loader => (op \in inflight' <=> op \in inflight)

LEMMA KeepLoading ==
  ASSUME Loading, LoadKept, NEW d, Shifted(d), d = 1 => cq[1].op.task # Loader
  PROVE  Loading'
<1>1. /\ UNCHANGED <<load, loaded, blocksCount, counter, next, inbound, size, start>>
      /\ Total' = Total /\ (AtEnd' <=> AtEnd)
      /\ (Served(Loader)' <=> Served(Loader)) /\ (Ended' <=> Ended)
  BY DEF LoadKept, Total, AtEnd, Served, Ended
<1>2. /\ \A op : (Placed(op)' <=> Placed(op))
      /\ \A e : (Brings(e)' <=> Brings(e)) /\ (Short(e)' <=> Short(e)) /\ (Pays(e)' <=> Pays(e))
      /\ ShortInbound' <=> ShortInbound
  BY <1>1 DEF Placed, Brings, BytesAt, Short, Pays, ShortInbound
<1>3. Bytes'
  BY <1>1 DEF Loading, Bytes, Content
<1>4. Answered'
  BY <1>2 DEF Loading, Answered, Shifted
<1>5. Cut(Loader) => Cut(Loader)'
  BY KeepCut DEF LoadKept
<1>6. Round => Round'
  BY <1>1 DEF Round, LoadKept
<1>7. Collected => Collected'
  BY <1>1, <1>2 DEF Collected, LoadKept, Whole
<1>8. \A i : i \in 1..(Len(cq') + 1) /\ ShortBefore(i + d) => ShortBefore(i)'
  <2> SUFFICES ASSUME NEW i \in 1..(Len(cq') + 1), ShortBefore(i + d) PROVE ShortBefore(i)'
    OBVIOUS
  <2>1. PICK j \in 1..Len(cq) : j < i + d /\ cq[j].op.task = Loader /\ cq[j].res # Block
    BY DEF ShortBefore, Short
  <2>2. j - d \in 1..Len(cq') /\ j - d < i /\ cq'[j - d] = cq[j]
    BY <2>1 DEF Shifted
  <2> QED
    BY <2>1, <2>2 DEF ShortBefore, Short
<1>9. Cancellations => Cancellations'
  <2> SUFFICES ASSUME Cancellations PROVE Cancellations'
    OBVIOUS
  <2>1. /\ \A i, j \in 1..Len(inbound) : i < j /\ Short(inbound[i]) => inbound[j].res = Canceled
        /\ ShortInbound => Cut(Loader)
        /\ \A i \in 1..Len(inbound) : inbound[i].res = Canceled =>
             AtEnd \/ \E j \in 1..Len(inbound) : j < i /\ Short(inbound[j])
    BY DEF Cancellations
  <2>2. ASSUME active', NEW i \in 1..Len(cq'), cq'[i].op.task = Loader, cq'[i].res = Canceled
        PROVE  AtEnd \/ ShortInbound \/ ShortBefore(i)'
    <3>1. i + d \in 1..Len(cq) /\ cq'[i] = cq[i + d] /\ active
      BY <2>2 DEF Shifted, LoadKept
    <3>2. AtEnd \/ ShortInbound \/ ShortBefore(i + d)
      BY <2>2, <3>1 DEF Cancellations
    <3>3. i \in 1..(Len(cq') + 1)
      BY DEF Shifted
    <3> QED
      BY <1>8, <3>2, <3>3
  <2>3. ASSUME active', NEW op \in inflight', op.task = Loader, Loader \in severed'
        PROVE  AtEnd \/ ShortInbound \/ ShortBefore(Len(cq) + 1)'
    <3>1. AtEnd \/ ShortInbound \/ ShortBefore(Len(cq) + 1)
      BY <2>3 DEF Cancellations, LoadKept
    <3>2. PICK n : n = Len(cq') + 1
      OBVIOUS
    <3>3. Len(cq) + 1 = n + d /\ n \in 1..(Len(cq') + 1)
      BY <3>2 DEF Shifted
    <3>4. ShortBefore(n + d) => ShortBefore(n)'
      BY <1>8, <3>3
    <3> QED
      BY <3>1, <3>2, <3>3, <3>4 DEF ShortBefore
  <2>4. /\ \A i, j \in 1..Len(inbound') : i < j /\ inbound'[i].res # Block => inbound'[j].res = Canceled
        /\ \A i \in 1..Len(inbound') : inbound'[i].res = Canceled =>
             AtEnd' \/ \E j \in 1..Len(inbound') : j < i /\ inbound'[j].res # Block
    BY <1>1, <2>1 DEF Short
  <2>5. ShortInbound' => Cut(Loader)'
    BY <1>2, <1>5, <2>1
  <2>6. active' =>
          /\ \A i \in 1..Len(cq') : cq'[i].op.task = Loader /\ cq'[i].res = Canceled =>
               AtEnd' \/ ShortInbound' \/ ShortBefore(i)'
          /\ \A op \in inflight' : op.task = Loader /\ Loader \in severed' =>
               AtEnd' \/ ShortInbound' \/ ShortBefore(Len(cq) + 1)'
    BY <1>1, <1>2, <2>2, <2>3
  <2> QED
    BY <2>4, <2>5, <2>6 DEF Cancellations, Short
<1>10. Overread' <=> Overread
  BY <1>1 DEF Overread, LoadKept
<1>11. Released'
  <2>1. Held => Held'
    BY <1>1, <1>2 DEF Held, LoadKept
  <2> QED
    BY <1>1, <1>5, <1>10, <2>1 DEF Loading, Released, LoadKept
<1> QED
  BY <1>1, <1>3, <1>4, <1>6, <1>7, <1>9, <1>11 DEF Loading, Reading

-----------------------------------------------------------------------------
(* What a request changes of the writes and of load().                       *)
LEMMA IssueWritten ==
  ASSUME FInv, NEW t \in Task, Issues(t), Idle(t)
  PROVE  Written'
<1>1. /\ UNCHANGED <<doneCounter, errorCounter, active, closePc>> /\ Apart(t)
      /\ req'[t] \in RequestType /\ want'[t] = req'[t].count
      /\ t = Loader => req'[t].kind = "read"
  BY DEF Issues, closeVars
<1>2. Shifted(0)
  BY IssueChains, ShiftedSame DEF FInv, BaseInv
<1>3. reports \in [Task -> {<<>>, <<"done">>, <<"error">>}] /\ \A u \in Task : Told(u)
  BY DEF FInv, Written
<1>4. /\ doneCounter[t] = 0 /\ errorCounter[t] = 0 /\ reports[t] = <<>>
  <2>1. t = Loader => req[t] = None \/ req[t].kind = "read"
    BY DEF FInv, BaseInv, Requests
  <2> QED
    BY <1>3, <2>1 DEF Idle, Told, Served
<1>5. /\ \A u \in Task \ {t} : reports'[u] = reports[u]
      /\ reports' \in [Task -> {<<>>, <<"done">>, <<"error">>}]
      /\ reports'[t] = IF Refuses(t) /\ t # Loader /\ req'[t].kind = "write" THEN <<"error">> ELSE <<>>
  <2>1. CASE UNCHANGED reports /\ (t = Loader \/ ~Refuses(t))
    BY <1>3, <1>4, <2>1
  <2>2. CASE Refuses(t) /\ t # Loader
    <3>1. reports' = [reports EXCEPT ![t] = IF req'[t].kind = "write" THEN Append(@, "error") ELSE @]
      BY <2>2 DEF Refuses
    <3>2. Append(<<>>, "error") = <<"error">>
      OBVIOUS
    <3> QED
      BY <1>3, <1>4, <2>2, <3>1, <3>2
  <2> QED
    BY <2>1, <2>2 DEF Issues, Waits, Submits, Refuses
<1>6. ASSUME NEW u \in Task \ {t} PROVE Told(u)'
  <2>1. /\ req'[u] = req[u] /\ got'[u] = got[u] /\ want'[u] = want[u]
        /\ B!Waiting(u)' <=> B!Waiting(u)
    BY <1>1 DEF Apart
  <2>2. Reporting' => Reporting
    BY <1>1 DEF Reporting
  <2>3. /\ u \in severed' <=> u \in severed
        /\ \A op : op.task = u => (op \in inflight' <=> op \in inflight)
        /\ \A op : op.task = u => (op \in Outstanding' <=> op \in Outstanding)
    BY IssueChains
  <2>4. Cut(u) => Cut(u)'
    BY <1>2, <2>3, KeepCut
  <2> QED
    BY <1>1, <1>3, <1>5, <2>1, <2>2, <2>3, <2>4, KeepTold
<1>7. Told(t)'
  <2>1. CASE ~(Served(t)' /\ req'[t].kind = "write")
    <3>1. Refuses(t) /\ req'[t].kind = "write" => Served(t)'
      BY <1>1, FileAssumption DEF Refuses, Served
    <3>2. reports'[t] = <<>>
      BY <1>5, <2>1, <3>1
    <3> QED
      BY <1>1, <1>4, <2>1, <3>2 DEF Told
  <2>2. CASE Served(t)' /\ req'[t].kind = "write"
    <3>1. t # Loader /\ ~B!Waiting(t)'
      BY <1>1, <2>2 DEF Served
    <3>2. CASE Refuses(t)
      <4>1. Outstanding' = Outstanding
        BY <3>2 DEF Refuses
      <4>2. reports'[t] = <<"error">>
        BY <1>5, <2>2, <3>1, <3>2
      <4> QED
        BY <1>1, <1>4, <2>2, <4>1, <4>2 DEF Told, Refused, Idle
    <3>3. CASE Submits(t)
      <4>1. reports'[t] = <<>>
        BY <3>3, <1>4 DEF Submits
      <4>2. \A b \in got'[t] : \E op \in Outstanding' : op.task = t /\ op.buf = b
        BY <3>3, SubmitsOps
      <4>3. req'[t].count \in Nat \ {0}
        BY <1>1, PoolAssumption DEF RequestType
      <4>4. Counted(t)'
        BY <1>1, <1>4, <4>1, <4>2, <4>3 DEF Counted
      <4> QED
        BY <2>2, <4>4 DEF Told
    <3> QED
      BY <3>1, <3>2, <3>3 DEF Issues, Waits
  <2> QED
    BY <2>1, <2>2
<1> QED
  BY <1>1, <1>3, <1>5, <1>6, <1>7 DEF Written, FInv

LEMMA IssueStreams ==
  ASSUME FInv, NEW t \in Task, Issues(t), Idle(t)
  PROVE  Streams'
<1>1. /\ UNCHANGED <<size, start, blocksCount, counter, loaded>> /\ Apart(t)
      /\ IF t = Loader THEN next' = 0
         ELSE (listener # "application" => req'[t].kind = "write") /\ next' = next
  BY DEF Issues
<1>2. Loader \in Task /\ Streams
  BY FileAssumption DEF FInv
<1>3. CASE t = Loader
  <2>1. \A u \in Task \ {Loader} : req'[u] = req[u]
    BY <1>1, <1>3 DEF Apart
  <2>2. load = "reading" /\ listener = "load" /\ inbound = <<>>
    BY <1>3 DEF Idle
  <2>3. CASE UNCHANGED <<load, inbound, listener>>
    BY <1>1, <1>2, <1>3, <2>1, <2>2, <2>3, PoolAssumption DEF Streams, Ended
  <2>4. CASE Refuses(t)
    <3>1. load' = "failed" /\ listener' = "cancelled" /\ inbound' = <<>> /\ ~B!Waiting(Loader)'
      BY <1>3, <2>4 DEF Refuses, EndLoad
    <3> QED
      BY <1>1, <1>2, <1>3, <2>1, <2>2, <3>1, PoolAssumption DEF Streams, Ended
  <2> QED
    BY <2>3, <2>4 DEF Issues, Waits, Submits, streamVars
<1>4. CASE t # Loader
  <2>1. UNCHANGED <<load, inbound, listener>>
    BY <1>4 DEF Issues, Waits, Refuses, Submits, streamVars
  <2>2. req'[Loader] = req[Loader] /\ (B!Waiting(Loader)' <=> B!Waiting(Loader))
    BY <1>1, <1>2, <1>4 DEF Apart
  <2>3. listener # "application" => \A u \in Task \ {Loader} : req'[u] # None => req'[u].kind = "write"
    BY <1>1, <1>2, <1>4 DEF Apart, Streams
  <2> QED
    BY <1>1, <1>2, <1>4, <2>1, <2>2, <2>3 DEF Streams, Ended
<1> QED
  BY <1>3, <1>4

LEMMA IssueLoading ==
  ASSUME FInv, NEW t \in Task, Issues(t), Idle(t)
  PROVE  Loading'
<1>1. /\ UNCHANGED <<size, start, blocksCount, counter, loaded, active, closing, cq>> /\ Apart(t)
  BY DEF Issues, closeVars
<1>2. Loader \in Task /\ Shifted(0) /\ Loading
  BY FileAssumption, <1>1, ShiftedSame DEF FInv, BaseInv
<1>3. CASE t # Loader
  <2>1. UNCHANGED <<load, inbound, listener>> /\ next' = next
    BY <1>3 DEF Issues, Waits, Refuses, Submits, streamVars
  <2>2. /\ req'[Loader] = req[Loader] /\ got'[Loader] = got[Loader]
        /\ B!Waiting(Loader)' <=> B!Waiting(Loader)
    BY <1>1, <1>2, <1>3 DEF Apart
  <2>3. LoadKept
    BY <1>1, <1>2, <1>3, <2>1, <2>2, IssueChains DEF LoadKept
  <2> QED
    BY <1>2, <2>3, KeepLoading
<1>4. CASE t = Loader
  <2>1. /\ load = "reading" /\ listener = "load" /\ inbound = <<>> /\ counter = 0 /\ next' = 0
        /\ req'[Loader].count = blocksCount /\ req'[Loader] \in RequestType
        /\ \A i \in 1..Len(cq) : cq[i].op.task # Loader
        /\ \A op \in Outstanding : op.task # Loader
    BY <1>4, IssueChains DEF Idle, Issues
  <2>2. Answered' /\ Total' = Total /\ (AtEnd' <=> AtEnd)
    BY <1>1, <2>1 DEF Answered, Total, AtEnd
  <2>3. CASE Waits(t)
    <3>1. /\ UNCHANGED <<load, inbound>> /\ B!Waiting(Loader)' /\ Outstanding' = Outstanding
          /\ inflight' = inflight
      BY <1>4, <2>3 DEF Waits, streamVars
    <3>2. req'[Loader] # None
      BY <2>1, FileAssumption
    <3>3. Round'
      BY <1>1, <1>2, <2>1, <3>1, <3>2 DEF Loading, Reading, Round
    <3>4. Collected' /\ Bytes'
      BY <1>1, <1>2, <2>1, <2>2, <3>1 DEF Loading, Reading, Collected, Bytes, Content, Whole
    <3>5. Cancellations'
      <4>1. \A op \in inflight : op.task # Loader
        BY <2>1 DEF Outstanding
      <4> QED
        BY <1>1, <2>1, <3>1, <4>1 DEF Cancellations, ShortInbound
    <3>6. Released'
      BY <2>1, <3>1 DEF Released, Ended, Served
    <3> QED
      BY <2>2, <3>3, <3>4, <3>5, <3>6 DEF Loading, Reading
  <2>4. CASE Refuses(t)
    <3>1. load' = "failed" /\ closing'
      BY <1>1, <1>4, <2>4 DEF Refuses, EndLoad
    <3>2. Bytes'
      BY <1>1, <1>2, <3>1 DEF Loading, Bytes, Content
    <3> QED
      BY <2>2, <3>1, <3>2 DEF Loading, Reading, Released
  <2>5. CASE Submits(t)
    <3> DEFINE ops == Ops(t, req'[t])
    <3>1. /\ Outstanding' = Outstanding \cup ops /\ inflight' = inflight \cup ops
          /\ \A op \in ops :
               /\ op.task = Loader /\ op.nth \in 1..blocksCount
               /\ op.pos = start + Len(loaded) + (op.nth - 1) * Block
          /\ \A n \in 1..blocksCount : \E op \in ops : op.nth = n
          /\ \A b \in got'[Loader] : \E op \in ops : op.buf = b
      BY <1>4, <2>1, <2>5, SubmitsOps
    <3>2. UNCHANGED <<load, inbound>> /\ ~B!Waiting(Loader)' /\ Loader \notin severed'
      BY <1>4, <2>5 DEF Submits, streamVars
    <3> HIDE DEF ops
    <3>3. req'[Loader] # None
      BY <2>1, FileAssumption
    <3>4. Round'
      <4>1. blocksCount > 0 /\ 0 < blocksCount /\ counter' = 0 /\ blocksCount' = blocksCount
            /\ Len(inbound') = 0 /\ blocksCount \in Nat
        BY <1>1, <1>2, <2>1, <3>2 DEF Loading, Reading, Round, FInv, Streams
      <4>2. \A op \in Outstanding' : op.task = Loader => op.nth > 0 + 0
        BY <2>1, <3>1, <4>1
      <4>3. \A n \in 1..blocksCount : \E op \in Outstanding' : op.task = Loader /\ op.nth = n
        BY <3>1
      <4> QED
        BY <2>1, <3>2, <3>3, <4>1, <4>2, <4>3 DEF Round
    <3>5. Collected' /\ Bytes'
      <4>1. \A op \in ops : Placed(op)'
        <5> SUFFICES ASSUME NEW op \in ops PROVE Placed(op)'
          OBVIOUS
        <5>1. op.pos = start + Len(loaded) + (op.nth - (0 + 1)) * Block
          BY <3>1
        <5> QED
          BY <1>1, <2>1, <5>1 DEF Placed
      <4>2. \A op \in Outstanding' : op.task = Loader => Placed(op)'
        BY <2>1, <3>1, <4>1
      <4>3. \A i \in 1..Len(inbound') : FALSE
        BY <2>1, <3>2
      <4> QED
        BY <1>1, <1>2, <2>1, <2>2, <3>2, <4>2, <4>3 DEF Loading, Reading, Collected, Bytes, Content, Whole
    <3>6. Cancellations'
      BY <1>1, <2>1, <3>2 DEF Cancellations, ShortInbound
    <3>7. Released'
      BY <2>1, <3>1, <3>2 DEF Released, Ended, Held
    <3> QED
      BY <2>2, <3>4, <3>5, <3>6, <3>7 DEF Loading, Reading
  <2> QED
    BY <2>3, <2>4, <2>5 DEF Issues
<1> QED
  BY <1>3, <1>4

LEMMA IssueFInv ==
  ASSUME FInv, NEW t \in Task, Issues(t), Idle(t)
  PROVE  FInv' /\ [B!Next]_bufferVars
<1>1. B!Next
  BY DEF Issues
<1> QED
  BY <1>1, IssueBase, IssuePending, IssueClosing, IssueChains, IssueWritten, IssueStreams, IssueLoading
  DEF FInv

-----------------------------------------------------------------------------
(* The kernel, close() and the peek: nothing but the queue changes.          *)
LEMMA KeepBase ==
  ASSUME BaseInv, UNCHANGED <<bufferVars, req, payloads, inbound>>, RingInv', Outstanding' = Outstanding
  PROVE  BaseInv' /\ \A u : B!Waiting(u)' <=> B!Waiting(u)
<1>1. BP!PInv' /\ \A u : B!Waiting(u)' <=> B!Waiting(u)
  BY KeepPool DEF BaseInv
<1>2. got' = got /\ want' = want
  BY DEF bufferVars
<1>3. \A u : Served(u)' <=> Served(u)
  BY <1>1 DEF Served
<1>4. Requests'
  BY <1>1, <1>2 DEF BaseInv, Requests
<1>5. Operations'
  BY <1>2, <1>3 DEF BaseInv, Operations, OperationOK
<1>6. Events'
  <2>1. \A e : EventOK(e)' <=> EventOK(e)
    BY <1>2, <1>3 DEF EventOK, Pays
  <2>2. \A i \in 1..Len(inbound') : LET e == inbound'[i] IN EventOK(e)
    BY DEF BaseInv, Events
  <2>3. \A i \in 1..Len(inbound') : EventOK(inbound[i])'
    <3> SUFFICES ASSUME NEW i \in 1..Len(inbound') PROVE EventOK(inbound[i])'
      OBVIOUS
    <3>1. PICK e : e = inbound[i]
      OBVIOUS
    <3>2. EventOK(e)' /\ e = inbound'[i]
      BY <2>1, <2>2, <3>1
    <3> QED
      BY <3>2 DEF EventOK, Pays
  <2> QED
    BY <2>3 DEF BaseInv, Events, Pays
<1>7. Payloads'
  BY <1>2, <1>3 DEF BaseInv, Payloads, PayloadOK
<1> QED
  BY <1>1, <1>4, <1>5, <1>6, <1>7 DEF BaseInv

LEMMA QuietFInv ==
  ASSUME FInv, UNCHANGED fileVars, UNCHANGED <<inflight, cq>>, RingInv', Closing',
         active' => active, closing => closing', Reporting' => Reporting
  PROVE  FInv'
<1>1. /\ UNCHANGED <<bufferVars, req, payloads, inbound, doneCounter, errorCounter, reports>>
      /\ UNCHANGED <<load, loaded, blocksCount, counter, next, inbound, listener>>
      /\ UNCHANGED <<size, start, pending, severed, inflight, cq>>
  BY DEF fileVars, taskVars, writeVars, loadVars, streamVars
<1>2. got' = got /\ want' = want
  BY <1>1 DEF bufferVars
<1>3. Outstanding' = Outstanding
  BY <1>1 DEF Outstanding
<1>4. BaseInv' /\ \A u : B!Waiting(u)' <=> B!Waiting(u)
  BY <1>1, <1>3, KeepBase DEF FInv
<1>5. PendingExact'
  BY <1>1, <1>3 DEF FInv, PendingExact
<1>6. Chains'
  BY <1>1 DEF FInv, Chains
<1>7. Shifted(0)
  BY <1>1, ShiftedSame DEF FInv, BaseInv
<1>8. Written'
  <2>1. ASSUME NEW u \in Task PROVE Told(u)'
    <3>1. Told(u) /\ (Cut(u) => Cut(u)')
      BY <1>1, <1>7, KeepCut DEF FInv, Written
    <3> QED
      BY <1>1, <1>2, <1>3, <1>4, <3>1, KeepTold
  <2> QED
    BY <1>1, <2>1 DEF FInv, Written
<1>9. Streams'
  BY <1>1, <1>4 DEF FInv, Streams, Ended
<1>10. Loading'
  <2>1. LoadKept
    BY <1>1, <1>2, <1>3, <1>4 DEF LoadKept
  <2> QED
    BY <1>7, <2>1, KeepLoading DEF FInv
<1> QED
  BY <1>4, <1>5, <1>6, <1>8, <1>9, <1>10 DEF FInv

\* close() and the peek.
LEMMA LoopFInv ==
  ASSUME FInv, \/ GracefulTimeout \/ ResumeClose \/ EndClose \/ Peek \/ UNCHANGED vars
               \/ \E graceful \in BOOLEAN : Close(graceful)
  PROVE  FInv' /\ [B!Next]_bufferVars
<1> DEFINE Same == /\ UNCHANGED fileVars /\ UNCHANGED <<inflight, cq>>
                   /\ cancelled' \subseteq inflight /\ batch' \in 0..Len(cq)
                   /\ active' => active
                   /\ closing => closing'
                   /\ Reporting' => Reporting
<1>1. cancelled \subseteq inflight /\ batch \in 0..Len(cq) /\ Len(cq) \in Nat
  BY DEF FInv, BaseInv, RingInv
<1>2. ASSUME GracefulTimeout PROVE Same /\ Closing'
  BY <1>1, <1>2 DEF GracefulTimeout, CancelByFd, CancelEvents, FInv, Closing, fileVars, Reporting
<1>3. ASSUME ResumeClose PROVE Same /\ Closing'
  BY <1>1, <1>3 DEF ResumeClose, FInv, Closing, Drain, ringVars, fileVars, Reporting
<1>4. ASSUME EndClose PROVE Same /\ Closing'
  BY <1>1, <1>4 DEF EndClose, FInv, Closing, ringVars, fileVars, Reporting
<1>5. ASSUME Peek PROVE Same /\ Closing'
  <2>1. batch' \in 0..Len(cq)
    BY <1>1, <1>5, PeekAssumption DEF Peek, PeekBatch
  <2>2. UNCHANGED fileVars /\ UNCHANGED <<active, closing, closer, closePc, inflight, cq, cancelled>>
    BY <1>5 DEF Peek, PeekBatch, closeVars
  <2>3. Closing'
    BY <2>2 DEF FInv, Closing, fileVars
  <2> QED
    BY <1>1, <2>1, <2>2, <2>3 DEF Reporting
<1>6. ASSUME UNCHANGED vars PROVE Same /\ Closing'
  <2>1. UNCHANGED fileVars /\ UNCHANGED <<active, closing, closer, closePc, inflight, cq, cancelled, batch>>
    BY <1>6 DEF vars, fileVars, closeVars, ringVars
  <2>2. Closing'
    BY <2>1 DEF FInv, Closing, fileVars
  <2> QED
    BY <1>1, <2>1, <2>2 DEF Reporting
<1>7. ASSUME \E graceful \in BOOLEAN : Close(graceful) PROVE Same /\ Closing'
  <2>1. PICK graceful \in BOOLEAN : Close(graceful)
    BY <1>7
  <2>2. /\ ~closing /\ closing' = TRUE /\ UNCHANGED fileVars /\ UNCHANGED <<closer, inflight, cq, batch>>
    BY <2>1 DEF Close
  <2>3. closePc = "none" /\ active /\ cancelled = {} /\ ~closer /\ Reporting
    BY <2>2 DEF FInv, Closing, Reporting
  <2>4. CASE pending > 0
    <3>1. /\ closePc' = IF graceful THEN "graceful" ELSE "forced"
          /\ active' = (active /\ graceful)
          /\ IF graceful THEN UNCHANGED <<events, cancelled>> ELSE CancelByFd(Fd, events)
      BY <2>1, <2>4 DEF Close
    <3>2. cancelled' \subseteq inflight
      BY <1>1, <3>1 DEF CancelByFd, CancelEvents
    <3>3. pending' = pending
      BY <2>2 DEF fileVars
    <3>4. graceful => cancelled' = {}
      BY <2>3, <3>1
    <3>5. closer' \in BOOLEAN /\ ~closer' /\ pending' # 0 /\ (active' <=> graceful)
      BY <2>2, <2>3, <2>4, <3>1, <3>3 DEF FInv, Closing
    <3>6. ASSUME graceful PROVE Closing'
      <4>1. closePc' = "graceful" /\ active' = TRUE /\ cancelled' = {} /\ closing' = TRUE
        BY <2>2, <2>3, <3>1, <3>4, <3>6
      <4>2. active' /\ closing'
        BY <4>1
      <4> QED
        BY <3>5, <4>1, <4>2 DEF Closing
    <3>7. ASSUME ~graceful PROVE Closing'
      <4>1. closePc' = "forced" /\ active' = FALSE /\ closing' = TRUE
        BY <2>2, <2>3, <3>1, <3>7
      <4>2. ~active' /\ closing'
        BY <4>1
      <4> QED
        BY <3>5, <4>1, <4>2 DEF Closing
    <3>8. active' => active
      BY <2>3
    <3>9. Closing'
      BY <3>6, <3>7
    <3> QED
      BY <1>1, <2>2, <2>3, <3>2, <3>9
  <2>5. CASE ~(pending > 0)
    <3>1. active' = FALSE /\ Drain /\ UNCHANGED <<events, cancelled>>
      BY <2>1, <2>5 DEF Close
    <3>2. IsFiniteSet(Outstanding)
      BY OutstandingFinite DEF FInv, BaseInv
    <3>3. pending \in Nat
      BY <3>2, FS_CardinalityType DEF FInv, PendingExact
    <3>4. pending = 0 /\ pending' = 0
      BY <2>2, <2>5, <3>3 DEF fileVars
    <3>5. closePc' \in {"drain", "closed"}
      BY <3>1 DEF Drain
    <3>6. active' = FALSE /\ closing' = TRUE /\ closer' \in BOOLEAN
      BY <2>2, <3>1 DEF FInv, Closing
    <3>7. Closing'
      BY <3>4, <3>5, <3>6 DEF Closing
    <3> QED
      BY <1>1, <2>2, <2>3, <3>1, <3>7
  <2> QED
    BY <2>4, <2>5
<1>8. Same /\ Closing'
  BY <1>2, <1>3, <1>4, <1>5, <1>6, <1>7
<1>9. RingInv'
  BY <1>8, KeepRing DEF FInv, BaseInv
<1> QED
  BY <1>8, <1>9, QuietFInv DEF fileVars

-----------------------------------------------------------------------------
(* The kernel completes an operation.                                        *)

\* The operation op is at the end of the queue, with a result that the kernel
\* may give it.
Completes(op, res) ==
  /\ KernelComplete(op, res) /\ Startable(op) /\ res \in Results(op)
  /\ severed' = IF op.link /\ res # Block THEN severed \cup {op.task} ELSE severed
  /\ UNCHANGED <<bufferVars, taskVars, writeVars, loadVars, streamVars, closeVars, size, start, pending>>

LEMMA BytesAtType ==
  ASSUME size \in Nat, NEW pos \in Nat
  PROVE  BytesAt(pos) \in 0..Block /\ BytesAt(pos) \in Nat
BY FileAssumption DEF BytesAt, Lesser

LEMMA CompleteQueue ==
  ASSUME FInv, NEW op \in inflight, NEW res, Completes(op, res)
  PROVE  /\ RingInv' /\ Outstanding' = Outstanding
         /\ inflight' = inflight \ {op} /\ cancelled' = cancelled \ {op}
         /\ Len(cq) \in Nat /\ Len(cq') = Len(cq) + 1
         /\ cq'[Len(cq) + 1].op = op /\ cq'[Len(cq) + 1].res = res
         /\ \A i \in 1..Len(cq) : i \in 1..Len(cq') /\ cq'[i] = cq[i]
         /\ \A i \in 1..Len(cq') : i \in 1..Len(cq) \/ i = Len(cq) + 1
         /\ Len(cq) + 1 \in 1..Len(cq')
<1>1. RingInv /\ KernelComplete(op, res)
  BY DEF FInv, BaseInv, Completes
<1>2. RingInv' /\ Outstanding' = Outstanding
  BY <1>1, CompleteRing
<1> DEFINE end == [op |-> op, res |-> res]
<1>3. cq' = Append(cq, end) /\ inflight' = inflight \ {op} /\ cancelled' = cancelled \ {op}
  BY <1>1 DEF KernelComplete
<1>4. end.op = op /\ end.res = res
  OBVIOUS
<1> HIDE DEF end
<1>5. Sequence(cq)
  BY <1>1 DEF RingInv, Sequence
<1>6. /\ Len(cq) \in Nat /\ Len(cq') = Len(cq) + 1
      /\ cq'[Len(cq) + 1] = end
      /\ \A i \in 1..Len(cq) : cq'[i] = cq[i]
      /\ \A i \in 1..(Len(cq) + 1) : i \in 1..Len(cq) \/ i = Len(cq) + 1
  BY <1>3, <1>5, AppendSequence
<1> QED
  BY <1>2, <1>3, <1>4, <1>6

\* It is the first of its chain, and is cancelled if the chain is severed.
LEMMA CompleteFirst ==
  ASSUME FInv, NEW op \in inflight, NEW res, Completes(op, res)
  PROVE  /\ OperationOK(op) /\ op.nth \in Nat \ {0}
         /\ \A p \in inflight \ {op} : p.task = op.task => op.nth < p.nth /\ op.link
         /\ op.task \in severed => res = Canceled
         /\ op.task \notin severed /\ res = Canceled => ~active
         /\ res \in Nat \cup {Failed, Canceled}
         /\ op.task = Loader => res \in {Failed, Canceled, BytesAt(op.pos)}
<1>1. Startable(op) /\ res \in Results(op)
  BY DEF Completes
<1>2. \A p \in inflight : p \in Outstanding /\ OperationOK(p)
  BY DEF FInv, BaseInv, Operations, Outstanding
<1>3. op.task \in Task /\ op.pos \in Nat /\ req[op.task] \in RequestType /\ op.nth \in 1..req[op.task].count
  BY <1>2 DEF OperationOK, Served, FInv, BaseInv
<1>4. op.nth \in Nat \ {0} /\ req[op.task].count \in Nat
  BY <1>3, PoolAssumption DEF RequestType
<1>5. ASSUME NEW p \in inflight \ {op}, p.task = op.task PROVE op.nth < p.nth /\ op.link
  <2>1. /\ p.nth # op.nth /\ p.nth \in 1..req[op.task].count
        /\ p.link <=> p.nth < req[op.task].count
        /\ op.link <=> op.nth < req[op.task].count
    BY <1>2, <1>5 DEF OperationOK, FInv, BaseInv, Operations
  <2>2. p.nth < op.nth => ~p.link
    BY <1>1, <1>5 DEF Startable
  <2> QED
    BY <1>3, <1>4, <2>1, <2>2
<1>6. op.task \in severed => op.nth > 1
  BY DEF FInv, Chains
<1>7. active => cancelled = {}
  BY DEF FInv, Closing
<1>8. BytesAt(op.pos) \in Nat /\ Block \in Nat
  BY <1>3, BytesAtType, FileAssumption DEF FInv, Streams
<1>9. op.task \in severed => res = Canceled
  BY <1>1, <1>6 DEF Results
<1>10. op.task \notin severed => res \in {Failed} \cup (IF op \in cancelled THEN {Canceled} ELSE {})
                                   \cup (IF op.task = Loader THEN {BytesAt(op.pos)} ELSE {1, Block})
  BY <1>1 DEF Results
<1>11. op.task \notin severed /\ res = Canceled => ~active
  BY <1>7, <1>8, <1>10 DEF Failed, Canceled
<1>12. /\ res \in Nat \cup {Failed, Canceled}
       /\ op.task = Loader => res \in {Failed, Canceled, BytesAt(op.pos)}
  BY <1>8, <1>9, <1>10
<1> QED
  BY <1>2, <1>4, <1>5, <1>9, <1>11, <1>12

LEMMA CompleteChains ==
  ASSUME FInv, NEW op \in inflight, NEW res, Completes(op, res)
  PROVE  Chains' /\ \A t : Cut(t) => Cut(t)'
<1>1. severed' = IF op.link /\ res # Block THEN severed \cup {op.task} ELSE severed
  BY DEF Completes
<1>2. Chains /\ \A i \in 1..Len(cq) : cq[i].res \in Nat \cup {Failed, Canceled}
  BY DEF FInv, Chains
<1>3. severed' \subseteq Task /\ severed \subseteq severed'
  BY <1>1, <1>2, CompleteFirst DEF Chains, OperationOK
<1>4. \A i \in 1..Len(cq') : cq'[i].res \in Nat \cup {Failed, Canceled}
  BY <1>2, CompleteQueue, CompleteFirst
<1>5. ASSUME NEW i \in 1..Len(cq'), NEW j \in 1..Len(cq'), i < j, cq'[i].op.task = cq'[j].op.task
      PROVE  cq'[i].op.nth < cq'[j].op.nth /\ (cq'[i].res # Block => cq'[j].res = Canceled)
  <2>1. i \in 1..Len(cq) /\ cq'[i] = cq[i]
    BY <1>5, CompleteQueue
  <2>2. CASE j \in 1..Len(cq)
    BY <1>2, <1>5, <2>1, <2>2, CompleteQueue DEF Chains
  <2>3. CASE j = Len(cq) + 1
    <3>1. cq'[j].op = op /\ cq'[j].res = res
      BY <2>3, CompleteQueue
    <3>2. cq[i].op.nth < op.nth /\ (cq[i].res # Block => op.task \in severed)
      BY <1>2, <1>5, <2>1, <3>1 DEF Chains
    <3> QED
      BY <2>1, <3>1, <3>2, CompleteFirst
  <2> QED
    BY <2>2, <2>3, CompleteQueue
<1>6. ASSUME NEW i \in 1..Len(cq'), NEW p \in inflight', cq'[i].op.task = p.task
      PROVE  cq'[i].op.nth < p.nth /\ (cq'[i].res # Block => p.task \in severed')
  <2>1. p \in inflight \ {op}
    BY CompleteQueue
  <2>2. CASE i \in 1..Len(cq)
    BY <1>2, <1>3, <1>6, <2>1, <2>2, CompleteQueue DEF Chains
  <2>3. CASE i = Len(cq) + 1
    <3>1. cq'[i].op = op /\ cq'[i].res = res
      BY <2>3, CompleteQueue
    <3>2. op.nth < p.nth /\ op.link
      BY <1>6, <2>1, <3>1, CompleteFirst
    <3> QED
      BY <1>1, <1>6, <3>1, <3>2
  <2> QED
    BY <2>2, <2>3, CompleteQueue
<1>7. ASSUME NEW p \in inflight', p.task \in severed' PROVE p.nth > 1
  <2>1. p \in inflight \ {op}
    BY CompleteQueue
  <2>2. CASE p.task \in severed
    BY <1>2, <2>1, <2>2 DEF Chains
  <2>3. CASE p.task = op.task
    <3>1. op.nth < p.nth /\ op.nth \in Nat \ {0}
      BY <2>1, <2>3, CompleteFirst
    <3>2. p.nth \in Int
      <4>1. OperationOK(p)
        BY <2>1 DEF FInv, BaseInv, Operations, Outstanding
      <4> QED
        BY <4>1 DEF OperationOK
    <3> QED
      BY <3>1, <3>2
  <2> QED
    BY <1>1, <1>7, <2>2, <2>3
<1>8. Chains'
  BY <1>3, <1>4, <1>5, <1>6, <1>7 DEF Chains
<1>9. ASSUME NEW t, Cut(t) PROVE Cut(t)'
  <2>1. \A i \in 1..Len(cq') : cq'[i].op.task = t => cq'[i].res = Canceled
    BY <1>9, CompleteQueue, CompleteFirst DEF Cut
  <2>2. \A p \in inflight' : p.task = t => t \in severed'
    BY <1>3, <1>9, CompleteQueue DEF Cut
  <2> QED
    BY <2>1, <2>2 DEF Cut
<1> QED
  BY <1>8, <1>9

LEMMA CompleteLoading ==
  ASSUME FInv, NEW op \in inflight, NEW res, Completes(op, res),
         \A u : B!Waiting(u)' <=> B!Waiting(u)
  PROVE  Loading'
<1>1. /\ UNCHANGED <<load, loaded, blocksCount, counter, next, inbound, size, start, closing, active>>
      /\ Outstanding' = Outstanding /\ req' = req /\ got' = got
  BY CompleteQueue DEF Completes, loadVars, streamVars, closeVars, taskVars, bufferVars
<1>2. Loading /\ Total' = Total /\ (AtEnd' <=> AtEnd) /\ (Overread' <=> Overread)
  BY <1>1 DEF FInv, Total, AtEnd, Overread
<1>3. /\ \A o : (Placed(o)' <=> Placed(o))
      /\ \A e : (Brings(e)' <=> Brings(e)) /\ (Short(e)' <=> Short(e)) /\ (Pays(e)' <=> Pays(e))
      /\ ShortInbound' <=> ShortInbound
  BY <1>1, <1>2 DEF Placed, Brings, BytesAt, Short, Pays, ShortInbound
<1>4. Cut(Loader) => Cut(Loader)'
  BY CompleteChains
<1>5. Bytes'
  BY <1>1, <1>2 DEF Loading, Bytes, Content
<1>6. Answered'
  <2>1. ASSUME NEW i \in 1..Len(cq'), cq'[i].op.task = Loader PROVE cq'[i].res \in {Failed, Canceled, BytesAt(cq'[i].op.pos)}
    BY <1>2, <2>1, CompleteQueue, CompleteFirst DEF Loading, Answered, Brings
  <2>2. \A pos : BytesAt(pos)' = BytesAt(pos)
    BY <1>1 DEF BytesAt
  <2>3. \A e : e.res \in {Failed, Canceled, BytesAt(e.op.pos)} => Brings(e)'
    BY <2>2 DEF Brings
  <2>4. \A e \in {cq'[i] : i \in 1..Len(cq')} : e.op.task = Loader => Brings(e)'
    BY <2>1, <2>3
  <2> QED
    BY <2>1, <2>2 DEF Answered, Brings
<1>7. Round => Round'
  BY <1>1 DEF Round
<1>8. Collected => Collected'
  BY <1>1, <1>2, <1>3 DEF Collected, Whole
<1>9. Cancellations => Cancellations'
  <2> SUFFICES ASSUME Cancellations PROVE Cancellations'
    OBVIOUS
  <2>1. PICK n : n = Len(cq) + 1
    OBVIOUS
  <2>2. \A m : m \in 1..n /\ ShortBefore(m) => ShortBefore(m)' /\ ShortBefore(n + 1)'
    <3>1. n \in Nat
      BY <2>1, CompleteQueue
    <3> QED
      BY <2>1, <3>1, CompleteQueue DEF ShortBefore, Short
  <2>3. ASSUME active, NEW p \in inflight, p.task = Loader, Loader \in severed
        PROVE  AtEnd \/ ShortInbound \/ (ShortBefore(n)' /\ ShortBefore(n + 1)')
    <3>1. AtEnd \/ ShortInbound \/ ShortBefore(Len(cq) + 1)
      BY <2>3 DEF Cancellations
    <3>2. n \in 1..n /\ (ShortBefore(Len(cq) + 1) <=> ShortBefore(n))
      BY <2>1, CompleteQueue
    <3> QED
      BY <2>2, <3>1, <3>2
  <2>4. ASSUME active, NEW i \in 1..Len(cq'), cq'[i].op.task = Loader, cq'[i].res = Canceled
        PROVE  AtEnd \/ ShortInbound \/ ShortBefore(i)'
    <3>1. CASE i \in 1..Len(cq)
      <4>1. AtEnd \/ ShortInbound \/ ShortBefore(i)
        BY <2>4, <3>1, CompleteQueue DEF Cancellations
      <4>2. i \in 1..n
        BY <2>1, <3>1, CompleteQueue
      <4> QED
        BY <2>2, <4>1, <4>2
    <3>2. CASE i = Len(cq) + 1
      <4>1. op.task = Loader /\ res = Canceled
        BY <2>4, <3>2, CompleteQueue
      <4>2. Loader \in severed
        BY <2>4, <4>1, CompleteFirst
      <4>3. i = n
        BY <2>1, <3>2
      <4> QED
        BY <2>3, <2>4, <4>1, <4>2, <4>3
    <3> QED
      BY <3>1, <3>2, CompleteQueue
  <2>5. ASSUME active, NEW p \in inflight', p.task = Loader, Loader \in severed'
        PROVE  AtEnd \/ ShortInbound \/ ShortBefore(n + 1)'
    <3>1. p \in inflight
      BY CompleteQueue
    <3>2. CASE Loader \in severed
      BY <2>3, <2>5, <3>1, <3>2
    <3>3. CASE op.task = Loader /\ res # Block
      <4>1. n \in 1..Len(cq') /\ n < n + 1 /\ cq'[n].op.task = Loader /\ cq'[n].res # Block
        BY <2>1, <3>3, CompleteQueue
      <4> QED
        BY <4>1 DEF ShortBefore, Short
    <3> QED
      BY <2>5, <3>2, <3>3 DEF Completes
  <2>6. Len(cq') = n
    BY <2>1, CompleteQueue
  <2>7. /\ \A i, j \in 1..Len(inbound) : i < j /\ Short(inbound[i]) => inbound[j].res = Canceled
        /\ ShortInbound => Cut(Loader)
        /\ \A i \in 1..Len(inbound) : inbound[i].res = Canceled =>
             AtEnd \/ \E j \in 1..Len(inbound) : j < i /\ Short(inbound[j])
    BY DEF Cancellations
  <2>8. /\ \A i, j \in 1..Len(inbound') : i < j /\ inbound'[i].res # Block => inbound'[j].res = Canceled
        /\ ShortInbound' => Cut(Loader)'
        /\ \A i \in 1..Len(inbound') : inbound'[i].res = Canceled =>
             AtEnd' \/ \E j \in 1..Len(inbound') : j < i /\ inbound'[j].res # Block
    BY <1>1, <1>2, <1>3, <1>4, <2>7 DEF Short
  <2>9. active' =>
          /\ \A i \in 1..Len(cq') : cq'[i].op.task = Loader /\ cq'[i].res = Canceled =>
               AtEnd' \/ ShortInbound' \/ ShortBefore(i)'
          /\ \A p \in inflight' : p.task = Loader /\ Loader \in severed' =>
               AtEnd' \/ ShortInbound' \/ ShortBefore(n + 1)'
    BY <1>1, <1>2, <1>3, <2>4, <2>5
  <2>10. ShortBefore(n + 1)' => \E i \in 1..Len(cq') : i < Len(cq') + 1 /\ cq'[i].op.task = Loader /\ cq'[i].res # Block
    BY <2>6 DEF ShortBefore, Short
  <2> QED
    BY <2>8, <2>9, <2>10 DEF Cancellations, Short, ShortBefore
<1>10. Released'
  <2>1. Held => Held'
    BY <1>1, <1>3 DEF Held
  <2> QED
    BY <1>1, <1>2, <1>4, <2>1 DEF Loading, Released, Ended, Served
<1> QED
  BY <1>1, <1>2, <1>5, <1>6, <1>7, <1>8, <1>9, <1>10 DEF Loading, Reading

LEMMA CompleteFInv ==
  ASSUME FInv, NEW op \in inflight, Complete(op)
  PROVE  FInv' /\ [B!Next]_bufferVars
<1>1. PICK res : Completes(op, res)
  BY DEF Complete, Completes
<1>2. /\ UNCHANGED <<bufferVars, taskVars, writeVars, loadVars, streamVars, closeVars, size, start, pending>>
      /\ RingInv' /\ Outstanding' = Outstanding
  BY <1>1, CompleteQueue DEF Completes
<1>3. BaseInv' /\ \A u : B!Waiting(u)' <=> B!Waiting(u)
  BY <1>2, KeepBase DEF FInv, taskVars, streamVars
<1>4. PendingExact'
  BY <1>2 DEF FInv, PendingExact
<1>5. Closing'
  <2>1. active => cancelled' = {}
    BY <1>1, CompleteQueue DEF FInv, Closing
  <2> QED
    BY <1>2, <2>1 DEF FInv, Closing, closeVars
<1>6. Chains' /\ \A t : Cut(t) => Cut(t)'
  BY <1>1, CompleteChains
<1>7. Written'
  <2>1. ASSUME NEW u \in Task PROVE Told(u)'
    <3>1. Told(u)
      BY DEF FInv, Written
    <3> QED
      BY <1>2, <1>3, <1>6, <3>1, KeepTold DEF bufferVars, taskVars, writeVars, closeVars, Reporting
  <2> QED
    BY <1>2, <2>1 DEF FInv, Written, writeVars
<1>8. Streams'
  BY <1>2, <1>3 DEF FInv, Streams, Ended, taskVars, loadVars, streamVars
<1>9. Loading'
  BY <1>1, <1>3, CompleteLoading
<1> QED
  BY <1>2, <1>3, <1>4, <1>5, <1>6, <1>7, <1>8, <1>9 DEF FInv

-----------------------------------------------------------------------------
(* load() begins, and the application releases a buffer.                     *)
LEMMA LoadFInv ==
  ASSUME FInv, NEW n \in 1..MaxWant, Load(n)
  PROVE  FInv' /\ [B!Next]_bufferVars
<1>1. /\ next = 0 /\ listener = "load" /\ load = "none"
      /\ load' = "reading" /\ blocksCount' = n /\ next' = n
      /\ UNCHANGED <<bufferVars, req, payloads, writeVars, inbound, listener, closeVars, cancelled,
                     inflight, cq, batch, size, start, pending, severed, loaded, counter>>
  BY DEF Load, taskVars, streamVars, ringVars
<1>2. RingInv /\ cancelled \subseteq inflight /\ batch \in 0..Len(cq)
  BY DEF FInv, BaseInv, RingInv
<1>3. RingInv' /\ Outstanding' = Outstanding
  BY <1>1, <1>2, KeepRing
<1>4. BaseInv' /\ \A u : B!Waiting(u)' <=> B!Waiting(u)
  BY <1>1, <1>3, KeepBase DEF FInv
<1>5. got' = got /\ want' = want
  BY <1>1 DEF bufferVars
<1>6. PendingExact' /\ Closing' /\ Chains'
  BY <1>1, <1>3 DEF FInv, PendingExact, Closing, Chains, closeVars
<1>7. Shifted(0)
  BY <1>1, <1>2, ShiftedSame
<1>8. Written'
  <2>1. ASSUME NEW u \in Task PROVE Told(u)'
    <3>1. Told(u) /\ (Cut(u) => Cut(u)')
      BY <1>1, <1>7, KeepCut DEF FInv, Written
    <3> QED
      BY <1>1, <1>3, <1>4, <1>5, <3>1, KeepTold DEF writeVars, closeVars, Reporting
  <2> QED
    BY <1>1, <2>1 DEF FInv, Written, writeVars
<1>9. /\ req[Loader] = None /\ loaded = <<>> /\ counter = 0 /\ inbound = <<>>
      /\ size \in Nat /\ start \in Nat /\ Loader \in Task
  BY <1>1, FileAssumption DEF FInv, Streams
<1>10. Streams'
  BY <1>1, <1>4, <1>9, PoolAssumption DEF FInv, Streams
<1>11. ~B!Waiting(Loader) /\ ~Served(Loader)
  <2>1. ~(want[Loader] > 0)
    BY <1>9 DEF FInv, BaseInv, Requests
  <2> QED
    BY <1>9, <2>1, PoolFacts DEF FInv, BaseInv, Served
<1>12. /\ \A op \in Outstanding : op.task # Loader
       /\ \A i \in 1..Len(cq) : cq[i].op.task # Loader
       /\ \A op \in inflight : op.task # Loader
  BY <1>9, <1>11, IdleTask DEF Outstanding
<1>13. Bytes' /\ Answered'
  BY <1>1, <1>12 DEF FInv, Loading, Bytes, Content, Answered
<1>14. Round'
  <2>1. n # 0 /\ n > 0 /\ Len(inbound) = 0 /\ 0 + 0 <= n
    BY <1>9, PoolAssumption
  <2> QED
    BY <1>1, <1>3, <1>4, <1>9, <1>11, <1>12, <2>1 DEF Round
<1>15. Collected'
  <2>1. Len(loaded) = 0 /\ Total \in Nat /\ Total' = Total
    BY <1>1, <1>9 DEF Total
  <2>2. Whole(0)
    BY FileAssumption DEF Whole
  <2>3. n <= size \div Block => n * Block <= size
    BY <1>9, MultipleBelow, FileAssumption, PoolAssumption
  <2>4. n <= size \div Block => 0 + (n - 0) * Block <= size
    BY <1>9, <2>3, FileAssumption, PoolAssumption
  <2> QED
    BY <1>1, <1>3, <1>9, <1>12, <2>1, <2>2, <2>4 DEF Collected, Whole
<1>16. Cancellations'
  BY <1>1, <1>9, <1>12 DEF Cancellations, ShortInbound
<1>17. Released'
  BY <1>1, <1>4, <1>11 DEF Released, Ended, Served
<1> QED
  BY <1>1, <1>4, <1>6, <1>8, <1>10, <1>13, <1>14, <1>15, <1>16, <1>17 DEF FInv, Loading, Reading

\* A released buffer: what the tasks have asked for stays.
LEMMA ReleaseRequests ==
  ASSUME BaseInv, NEW t \in Task, NEW b \in Buffer, B!Release(t, b), req' = req
  PROVE  /\ BP!PInv' /\ B!Next /\ Requests'
         /\ \A u \in Task : /\ B!Waiting(u)' <=> B!Waiting(u)
                            /\ Served(u)' <=> Served(u)
         /\ want' = [want EXCEPT ![t] = @ - 1] /\ got' = [got EXCEPT ![t] = @ \ {b}]
         /\ \A u \in Task \ {t} : got'[u] = got[u] /\ want'[u] = want[u]
         /\ got'[t] = got[t] \ {b} /\ want'[t] = want[t] - 1 /\ want[t] \in 1..MaxWant
         /\ b \in got[t] /\ ~B!Waiting(t) /\ Served(t)
<1>1. BP!PInv /\ Requests
  BY DEF BaseInv
<1>2. /\ BP!PInv' /\ B!Next
      /\ b \in got[t] /\ ~B!Waiting(t) /\ want[t] > 0
      /\ want' = [want EXCEPT ![t] = @ - 1]
      /\ got' = [got EXCEPT ![t] = @ \ {b}]
      /\ \A u \in Task : B!Waiting(u)' <=> B!Waiting(u)
  BY <1>1, ReleasePool
<1>3. got \in [Task -> SUBSET Buffer] /\ want \in [Task -> 0..MaxWant]
  BY <1>1, PoolFacts
<1>4. /\ \A u \in Task \ {t} : got'[u] = got[u] /\ want'[u] = want[u]
      /\ got'[t] = got[t] \ {b} /\ want'[t] = want[t] - 1 /\ want[t] \in 1..MaxWant
  BY <1>2, <1>3, PoolAssumption
<1>5. \A u \in Task : Served(u)' <=> Served(u)
  BY <1>2 DEF Served
<1>6. req[t] # None
  BY <1>1, <1>2 DEF Requests
<1>7. Requests'
  <2>1. \A u \in Task : want'[u] > 0 => req'[u] # None
    BY <1>1, <1>4, <1>6 DEF Requests
  <2>2. \A u \in Task : B!Waiting(u)' => want'[u] = req'[u].count
    BY <1>1, <1>2, <1>4 DEF Requests
  <2> QED
    BY <1>1, <2>1, <2>2 DEF Requests
<1> QED
  BY <1>2, <1>4, <1>5, <1>6, <1>7 DEF Served

LEMMA ReleasePayloadFInv ==
  ASSUME FInv, NEW t \in Task, NEW b \in Buffer, ReleasePayload(t, b)
  PROVE  FInv' /\ [B!Next]_bufferVars
<1>1. /\ <<t, b>> \in payloads /\ B!Release(t, b) /\ payloads' = payloads \ {<<t, b>>}
      /\ UNCHANGED <<req, writeVars, loadVars, inbound, listener, closeVars, cancelled, inflight, cq,
                     batch, size, start, pending, severed>>
  BY DEF ReleasePayload, streamVars, ringVars
<1>2. BaseInv /\ RingInv /\ cancelled \subseteq inflight /\ batch \in 0..Len(cq)
  BY DEF FInv, BaseInv, RingInv
<1>3. RingInv' /\ Outstanding' = Outstanding
  BY <1>1, <1>2, KeepRing
<1>4. /\ t # Loader /\ Served(t) /\ req[t].kind = "read"
      /\ \A op \in Outstanding : op.task = t => op.buf # b
  BY <1>1 DEF BaseInv, FInv, Payloads, PayloadOK
<1>5. /\ BP!PInv' /\ B!Next /\ Requests'
      /\ \A u \in Task : (B!Waiting(u)' <=> B!Waiting(u)) /\ (Served(u)' <=> Served(u))
      /\ \A u \in Task \ {t} : got'[u] = got[u] /\ want'[u] = want[u]
      /\ got'[t] = got[t] \ {b}
  BY <1>1, <1>2, ReleaseRequests
<1>6. \A u \in Task : \A c : c # b \/ u # t => (c \in got'[u] <=> c \in got[u])
  BY <1>5
<1>7. BaseInv'
  <2>1. Operations'
    BY <1>1, <1>2, <1>3, <1>4, <1>5, <1>6 DEF BaseInv, Operations, OperationOK
  <2>2. Payloads'
    <3>1. ASSUME NEW p \in payloads' PROVE PayloadOK(p[1], p[2])'
      <4>1. p \in payloads /\ p # <<t, b>> /\ p \in Task \X Buffer /\ PayloadOK(p[1], p[2])
        BY <1>1, <1>2, <3>1 DEF BaseInv, Payloads
      <4>2. p[2] # b \/ p[1] # t
        BY <4>1
      <4> QED
        BY <1>1, <1>3, <1>5, <1>6, <4>1, <4>2 DEF PayloadOK
    <3> QED
      BY <1>1, <1>2, <3>1 DEF BaseInv, Payloads
  <2>3. ASSUME NEW e \in {inbound[i] : i \in 1..Len(inbound)} PROVE EventOK(e)'
    <3>1. EventOK(e)
      BY <1>2 DEF BaseInv, Events
    <3>2. Pays(e) => e.op.buf # b \/ e.op.task # t
      BY <1>1, <3>1 DEF EventOK
    <3> QED
      BY <1>1, <1>3, <1>5, <1>6, <3>1, <3>2 DEF EventOK, Pays
  <2>4. Events'
    BY <1>1, <1>2, <2>3 DEF BaseInv, Events, Pays
  <2> QED
    BY <1>1, <1>2, <1>3, <1>5, <2>1, <2>2, <2>4 DEF BaseInv
<1>8. PendingExact' /\ Closing' /\ Chains'
  BY <1>1, <1>3 DEF FInv, PendingExact, Closing, Chains, closeVars
<1>9. Shifted(0) /\ Loader \in Task
  BY <1>1, <1>2, ShiftedSame, FileAssumption
<1>10. Written'
  <2>1. ASSUME NEW u \in Task PROVE Told(u)'
    <3>1. Told(u) /\ (Cut(u) => Cut(u)')
      BY <1>1, <1>9, KeepCut DEF FInv, Written
    <3>2. CASE u = t
      BY <1>1, <1>4, <1>5, <3>1, <3>2 DEF Told, writeVars
    <3>3. CASE u # t
      BY <1>1, <1>3, <1>5, <3>1, <3>3, KeepTold DEF writeVars, closeVars, Reporting
    <3> QED
      BY <3>2, <3>3
  <2> QED
    BY <1>1, <2>1 DEF FInv, Written, writeVars
<1>11. Streams'
  BY <1>1, <1>5, <1>9 DEF FInv, Streams, loadVars
<1>12. Loading'
  <2>1. LoadKept
    BY <1>1, <1>3, <1>4, <1>5, <1>9 DEF LoadKept, loadVars, closeVars
  <2> QED
    BY <1>9, <2>1, KeepLoading DEF FInv
<1> QED
  BY <1>5, <1>7, <1>8, <1>10, <1>11, <1>12 DEF FInv

-----------------------------------------------------------------------------
(* An event of the inbound stream is delivered.                              *)

\* What no delivery touches.
Delivers == UNCHANGED <<req, writeVars, closeVars, ringVars, size, start, pending, severed>>

LEMMA DeliverKeeps ==
  ASSUME FInv, Delivers
  PROVE  /\ RingInv' /\ Outstanding' = Outstanding
         /\ PendingExact' /\ Closing' /\ Chains'
         /\ \A t : Cut(t) => Cut(t)'
<1>1. /\ UNCHANGED <<pending, severed, active, closing, closer, closePc>>
      /\ UNCHANGED <<inflight, cancelled, cq, batch>>
  BY DEF Delivers, closeVars, ringVars
<1>2. RingInv /\ cancelled \subseteq inflight /\ batch \in 0..Len(cq)
  BY DEF FInv, BaseInv, RingInv
<1>3. RingInv' /\ Outstanding' = Outstanding
  BY <1>1, <1>2, KeepRing
<1>4. PendingExact' /\ Closing' /\ Chains'
  BY <1>1, <1>3 DEF FInv, PendingExact, Closing, Chains
<1>5. \A t : Cut(t) => Cut(t)'
  BY <1>1 DEF Cut
<1> QED
  BY <1>3, <1>4, <1>5

\* The buffer of a delivered event is that of a read.
LEMMA DeliverWritten ==
  ASSUME FInv, Delivers,
         \A u \in Task : /\ B!Waiting(u)' <=> B!Waiting(u)
                         /\ \/ got'[u] = got[u] /\ want'[u] = want[u]
                            \/ Served(u) /\ req[u].kind = "read"
  PROVE  Written'
<1>1. /\ UNCHANGED <<req, doneCounter, errorCounter, reports, active, closePc>>
  BY DEF Delivers, closeVars, writeVars
<1>2. ASSUME NEW u \in Task PROVE Told(u)'
  <2>1. Told(u) /\ (Cut(u) => Cut(u)') /\ Outstanding' = Outstanding
    BY DeliverKeeps DEF FInv, Written
  <2>2. Served(u)' <=> Served(u)
    BY <1>1 DEF Served
  <2>3. CASE got'[u] = got[u] /\ want'[u] = want[u]
    BY <1>1, <2>1, <2>3, KeepTold DEF Reporting
  <2>4. CASE Served(u) /\ req[u].kind = "read"
    BY <1>1, <2>1, <2>2, <2>4 DEF Told
  <2> QED
    BY <2>3, <2>4
<1> QED
  BY <1>1, <1>2 DEF FInv, Written

\* The first event, and those behind it.
LEMMA FirstEvent ==
  ASSUME FInv, inbound # <<>>
  PROVE  /\ Len(inbound) \in Nat \ {0} /\ 1 \in 1..Len(inbound)
         /\ Head(inbound) = inbound[1] /\ EventOK(inbound[1])
         /\ Sequence(Tail(inbound)) /\ Len(Tail(inbound)) = Len(inbound) - 1
         /\ \A i \in 1..Len(Tail(inbound)) :
              i + 1 \in 2..Len(inbound) /\ i + 1 \in 1..Len(inbound) /\ Tail(inbound)[i] = inbound[i + 1]
         /\ \A i \in 2..Len(inbound) :
              /\ i \in 1..Len(inbound)
              /\ i - 1 \in 1..Len(Tail(inbound)) /\ Tail(inbound)[i - 1] = inbound[i]
              /\ Pays(inbound[1]) /\ Pays(inbound[i]) =>
                   inbound[i].op.task # inbound[1].op.task \/ inbound[i].op.buf # inbound[1].op.buf
<1>1. Sequence(inbound)
  BY DEF FInv, BaseInv, Events, Sequence
<1>2. /\ Sequence(Tail(inbound)) /\ Len(inbound) \in Nat \ {0} /\ Len(Tail(inbound)) = Len(inbound) - 1
      /\ Head(inbound) = inbound[1] /\ 1 \in 1..Len(inbound)
      /\ \A i \in 1..Len(Tail(inbound)) : i + 1 \in 2..Len(inbound) /\ Tail(inbound)[i] = inbound[i + 1]
  BY <1>1, TailSequence
<1>3. EventOK(inbound[1])
  BY <1>2 DEF FInv, BaseInv, Events
<1>4. \A i \in 1..Len(Tail(inbound)) : i + 1 \in 1..Len(inbound)
  BY <1>2
<1>5. ASSUME NEW i \in 2..Len(inbound)
      PROVE  /\ i \in 1..Len(inbound)
             /\ i - 1 \in 1..Len(Tail(inbound)) /\ Tail(inbound)[i - 1] = inbound[i]
             /\ Pays(inbound[1]) /\ Pays(inbound[i]) =>
                  inbound[i].op.task # inbound[1].op.task \/ inbound[i].op.buf # inbound[1].op.buf
  <2>1. i \in 1..Len(inbound) /\ i # 1 /\ i - 1 \in 1..Len(Tail(inbound)) /\ (i - 1) + 1 = i
    BY <1>2
  <2>2. Tail(inbound)[i - 1] = inbound[i]
    BY <1>2, <2>1
  <2>3. Pays(inbound[1]) /\ Pays(inbound[i]) /\ inbound[i].op.task = inbound[1].op.task
          /\ inbound[i].op.buf = inbound[1].op.buf => i = 1
    BY <1>2, <2>1 DEF FInv, BaseInv, Events
  <2> QED
    BY <2>1, <2>2, <2>3
<1> QED
  BY <1>2, <1>3, <1>4, <1>5

\* The events behind the first are those of the stream.
LEMMA TailEvents ==
  ASSUME FInv, inbound # <<>>, inbound' = Tail(inbound),
         \A i \in 2..Len(inbound) : \A e : e = inbound[i] => EventOK(e)'
  PROVE  Events'
<1>1. inbound' \in Seq({inbound'[i] : i \in 1..Len(inbound')})
  BY FirstEvent DEF Sequence
<1>2. ASSUME NEW i \in 1..Len(inbound') PROVE EventOK(inbound[i])'
  <2>1. PICK e : e = inbound'[i]
    OBVIOUS
  <2>2. i + 1 \in 2..Len(inbound) /\ e = inbound[i + 1]
    BY <2>1, FirstEvent
  <2>3. EventOK(e)'
    BY <2>2
  <2> QED
    BY <2>1, <2>3 DEF EventOK, Pays
<1>3. ASSUME NEW i \in 1..Len(inbound'), NEW j \in 1..Len(inbound'),
             Pays(inbound'[i]), Pays(inbound'[j]),
             inbound'[i].op.task = inbound'[j].op.task, inbound'[i].op.buf = inbound'[j].op.buf
      PROVE  i = j
  <2>1. /\ i + 1 \in 1..Len(inbound) /\ inbound'[i] = inbound[i + 1]
        /\ j + 1 \in 1..Len(inbound) /\ inbound'[j] = inbound[j + 1]
    BY FirstEvent
  <2>2. i + 1 = j + 1
    BY <1>3, <2>1 DEF FInv, BaseInv, Events
  <2> QED
    BY <2>2
<1>4. \A i, j \in 1..Len(inbound') :
        /\ Pays(inbound[i])' /\ Pays(inbound[j])'
        /\ inbound'[i].op.task = inbound'[j].op.task /\ inbound'[i].op.buf = inbound'[j].op.buf
        => i = j
  BY <1>3 DEF Pays
<1> QED
  BY <1>1, <1>2, <1>4 DEF Events

\* The application gets an event.
LEMMA ApplicationFInv ==
  ASSUME FInv, Deliver, listener = "application"
  PROVE  FInv' /\ [B!Next]_bufferVars
<1> DEFINE e1 == inbound[1]
<1>1. inbound # <<>> /\ Delivers
  BY DEF Deliver, Delivers
<1>2. Head(inbound) = e1 /\ EventOK(e1) /\ Len(inbound) \in Nat \ {0}
  BY <1>1, FirstEvent
<1>3. /\ payloads' = IF e1.res < 0 THEN payloads ELSE payloads \cup {<<e1.op.task, e1.op.buf>>}
      /\ inbound' = Tail(inbound) /\ UNCHANGED <<bufferVars, loadVars, listener>>
  BY <1>2 DEF Deliver
<1>4. load = "none" /\ req[Loader] = None /\ next = 0
  BY DEF FInv, Streams
<1>5. UNCHANGED <<req, size, start, load, loaded, blocksCount, counter, next>>
  BY <1>1, <1>3 DEF Delivers, loadVars
<1>6. Outstanding' = Outstanding /\ RingInv'
  BY <1>1, DeliverKeeps
<1>7. got' = got /\ want' = want /\ BP!PInv' /\ \A u : B!Waiting(u)' <=> B!Waiting(u)
  BY <1>3, KeepPool DEF bufferVars, FInv, BaseInv
<1>8. \A u : Served(u)' <=> Served(u)
  BY <1>5, <1>7 DEF Served
<1>9. e1.op.task \in Task \ {Loader}
  BY <1>2, <1>4 DEF EventOK, Served
<1>10. \A i \in 2..Len(inbound) : \A e : e = inbound[i] => EventOK(e)'
  <2> SUFFICES ASSUME NEW i \in 2..Len(inbound), NEW e, e = inbound[i] PROVE EventOK(e)'
    OBVIOUS
  <2>1. i \in 1..Len(inbound) /\ EventOK(e)
    BY <1>1, FirstEvent DEF FInv, BaseInv, Events
  <2>2. Pays(e) => <<e.op.task, e.op.buf>> \notin payloads'
    <3>1. Pays(e) => <<e.op.task, e.op.buf>> \notin payloads
      BY <2>1 DEF EventOK
    <3>2. ~(e1.res < 0) => Pays(e1)
      BY <1>2 DEF EventOK, Pays, Failed, Canceled
    <3>3. Pays(e1) /\ Pays(e) => e.op.task # e1.op.task \/ e.op.buf # e1.op.buf
      BY <1>1, FirstEvent
    <3> QED
      BY <1>3, <3>1, <3>2, <3>3
  <2> QED
    BY <1>5, <1>6, <1>7, <1>8, <2>1, <2>2 DEF EventOK, Pays
<1>11. Events'
  BY <1>1, <1>3, <1>10, TailEvents
<1>12. Payloads'
  <2>1. ASSUME ~(e1.res < 0) PROVE PayloadOK(e1.op.task, e1.op.buf) /\ e1.op.buf \in Buffer
    <3>1. Pays(e1)
      BY <1>2, <2>1 DEF EventOK, Pays, Failed, Canceled
    <3> QED
      BY <1>2, <1>9, <3>1, PoolFacts DEF EventOK, PayloadOK, FInv, BaseInv
  <2>2. \A p \in payloads : p \in Task \X Buffer /\ PayloadOK(p[1], p[2])
    BY DEF FInv, BaseInv, Payloads
  <2> HIDE DEF e1
  <2>3. \A p \in payloads' : p \in Task \X Buffer /\ PayloadOK(p[1], p[2])
    BY <1>3, <1>9, <2>1, <2>2
  <2> QED
    BY <1>5, <1>6, <1>7, <1>8, <2>3 DEF Payloads, PayloadOK
<1>13. BaseInv'
  BY <1>5, <1>6, <1>7, <1>8, <1>11, <1>12 DEF FInv, BaseInv, Requests, Operations, OperationOK
<1>14. Written'
  BY <1>1, <1>7, DeliverWritten
<1>15. Streams'
  BY <1>3, <1>4, <1>5, <1>7 DEF FInv, Streams
<1>16. Loading'
  <2>1. cq' = cq /\ closing' = closing
    BY <1>1 DEF Delivers, ringVars, closeVars
  <2>2. Answered'
    BY <1>5, <2>1 DEF FInv, Loading, Answered, Brings, BytesAt
  <2> QED
    BY <1>4, <1>5, <1>8, <2>1, <2>2, FileAssumption
    DEF FInv, Loading, Bytes, Content, AtEnd, Total, Reading, Released, Ended, Served
<1> QED
  BY <1>1, <1>3, <1>13, <1>14, <1>15, <1>16, DeliverKeeps DEF FInv

\* load() has the stream: its first event is the next block of its round.
LEMMA ListenerFacts ==
  ASSUME FInv, inbound # <<>>, listener = "load"
  PROVE  /\ load = "reading" /\ next = 0 /\ Round /\ Collected /\ Cancellations
         /\ inbound[1].op.task = Loader /\ Served(Loader) /\ ~B!Waiting(Loader)
         /\ req[Loader].count = blocksCount /\ req[Loader].kind = "read"
         /\ \A i \in 1..Len(inbound) : inbound[i].op.task = Loader
         /\ inbound[1].op.nth = counter + 1
         /\ Placed(inbound[1].op) /\ Brings(inbound[1])
         /\ counter \in Nat /\ blocksCount \in 1..MaxWant /\ counter + 1 <= blocksCount
         /\ size \in Nat /\ start \in Nat /\ Len(loaded) \in Nat
<1>1. load = "reading"
  BY DEF FInv, Streams
<1>2. Round /\ Collected /\ Cancellations
  BY <1>1 DEF FInv, Loading, Reading
<1>3. \A i \in 1..Len(inbound) : inbound[i].op.task = Loader /\ Served(Loader)
  BY LoaderEvents
<1>4. 1 \in 1..Len(inbound)
  BY FirstEvent
<1>5. next = 0
  BY <1>2 DEF Round
<1>6. req[Loader].count = blocksCount
  BY <1>2, <1>5 DEF Round
<1>7. inbound[1].op.nth = counter + 1 /\ Placed(inbound[1].op) /\ Brings(inbound[1])
  BY <1>2, <1>4 DEF Round, Collected
<1>8. counter \in Nat /\ blocksCount \in 1..MaxWant /\ counter + 1 <= blocksCount
  BY <1>2, PoolAssumption DEF FInv, Streams, Round
<1>9. size \in Nat /\ start \in Nat /\ Len(loaded) \in Nat
  BY DEF FInv, Streams, Loading, Bytes
<1> QED
  BY <1>1, <1>2, <1>3, <1>4, <1>5, <1>6, <1>7, <1>8, <1>9 DEF Served, FInv, BaseInv, Requests

\* load() has ended: its buffers are with operations that are outstanding, as
\* long as nobody closes the file and the exception does not apply.
LEMMA EndedLoading ==
  ASSUME FInv, Delivers, load = "reading", load' \in {"complete", "failed"}, Bytes',
         ~closing /\ ~Overread => Cut(Loader)
             /\ \A b \in got'[Loader] : \E op \in Outstanding : op.task = Loader /\ op.buf = b
  PROVE  Loading'
<1>1. UNCHANGED <<req, size, start, closing, cq>> /\ Outstanding' = Outstanding
  BY DeliverKeeps DEF Delivers, closeVars, ringVars
<1>2. Answered'
  BY <1>1 DEF FInv, Loading, Answered, Brings, BytesAt
<1>3. Overread' <=> Overread
  BY <1>1 DEF Overread
<1>4. ~closing /\ ~Overread => Cut(Loader)' /\ Held'
  BY <1>1, DeliverKeeps DEF Held
<1>5. Released'
  BY <1>1, <1>3, <1>4 DEF Released, Ended
<1> QED
  BY <1>2, <1>5 DEF Loading, Reading

LEMMA EndedStreams ==
  ASSUME FInv, Delivers, load = "reading", load' \in {"complete", "failed"}, next = 0,
         UNCHANGED <<blocksCount, counter, next>>, listener' = "cancelled", inbound' = <<>>,
         ~B!Waiting(Loader)'
  PROVE  Streams'
BY DEF FInv, Streams, Delivers

\* A cancellation or a failure ends load().
LEMMA FailedFInv ==
  ASSUME FInv, Deliver, listener = "load", inbound[1].res < 0
  PROVE  FInv' /\ [B!Next]_bufferVars
<1> DEFINE e1 == inbound[1]
<1>1. inbound # <<>> /\ Delivers
  BY DEF Deliver, Delivers
<1>2. Head(inbound) = e1 /\ EventOK(e1) /\ Len(inbound) \in Nat \ {0} /\ 1 \in 1..Len(inbound)
  BY <1>1, FirstEvent
<1>3. /\ EndLoad(IF e1.res = Canceled THEN "complete" ELSE "failed")
      /\ UNCHANGED <<bufferVars, payloads, loaded, blocksCount, counter, next>>
  <2>1. e1.res \in Int /\ e1.res < 0 /\ ~(e1.res >= 0)
    BY <1>2 DEF EventOK, Failed, Canceled
  <2> QED
    BY <1>2, <2>1 DEF Deliver
<1>4. /\ load' \in {"complete", "failed"} /\ (load' = "complete" => e1.res = Canceled)
      /\ listener' = "cancelled" /\ inbound' = <<>>
  BY <1>3 DEF EndLoad
<1>5. load = "reading" /\ next = 0 /\ Cancellations /\ ~B!Waiting(Loader) /\ Served(Loader)
  BY <1>1, ListenerFacts
<1>6. UNCHANGED <<req, size, start, closing>> /\ Outstanding' = Outstanding /\ RingInv'
  BY <1>1, DeliverKeeps DEF Delivers, closeVars
<1>7. got' = got /\ want' = want /\ BP!PInv' /\ \A u : B!Waiting(u)' <=> B!Waiting(u)
  BY <1>3, KeepPool DEF bufferVars, FInv, BaseInv
<1>8. \A u : Served(u)' <=> Served(u)
  BY <1>6, <1>7 DEF Served
<1>9. Events'
  BY <1>4 DEF Events
<1>10. BaseInv'
  BY <1>3, <1>6, <1>7, <1>8, <1>9
  DEF FInv, BaseInv, Requests, Operations, OperationOK, Payloads, PayloadOK
<1>11. Written'
  BY <1>1, <1>7, DeliverWritten
<1>12. Streams'
  BY <1>1, <1>3, <1>4, <1>5, <1>7, EndedStreams
<1>13. Short(e1) /\ ShortInbound
  BY <1>2, FileAssumption DEF Short, ShortInbound
<1>14. Bytes'
  <2>1. e1.res = Canceled => AtEnd
    <3>1. e1.res = Canceled => AtEnd \/ \E j \in 1..Len(inbound) : j < 1 /\ Short(inbound[j])
      BY <1>2, <1>5 DEF Cancellations
    <3> QED
      BY <3>1
  <2> QED
    BY <1>3, <1>4, <1>6, <2>1 DEF FInv, Loading, Bytes, Content, AtEnd, Total
<1>15. Cut(Loader)
  BY <1>5, <1>13 DEF Cancellations
<1>16. ASSUME ~closing, ~Overread, NEW b \in got'[Loader]
       PROVE  \E op \in Outstanding : op.task = Loader /\ op.buf = b
  <2>1. Held
    BY <1>5, <1>16 DEF FInv, Loading, Released, Ended
  <2>2. ~Pays(e1)
    BY <1>2 DEF Pays, EventOK, Failed, Canceled
  <2>3. ASSUME NEW i \in 1..Len(inbound) PROVE ~Pays(inbound[i])
    <3>1. i = 1 \/ 1 < i
      OBVIOUS
    <3>2. 1 < i => inbound[i].res = Canceled
      BY <1>2, <1>5, <1>13 DEF Cancellations
    <3> QED
      BY <2>2, <3>1, <3>2 DEF Pays, Canceled
  <2> QED
    BY <1>7, <1>16, <2>1, <2>3 DEF Held
<1>17. Loading'
  BY <1>1, <1>4, <1>5, <1>14, <1>15, <1>16, EndedLoading
<1> QED
  BY <1>1, <1>3, <1>10, <1>11, <1>12, <1>17, DeliverKeeps DEF FInv


\* A payload brings the next bytes of the file.
LEMMA CollectBytes ==
  ASSUME FInv, inbound # <<>>, listener = "load", inbound[1].res >= 0,
         NEW bytes, bytes = loaded \o [i \in 1..inbound[1].res |-> inbound[1].op.pos + i - 1]
  PROVE  LET res == inbound[1].res IN
         /\ res \in 0..Block /\ Len(bytes) = Len(loaded) + res /\ Len(bytes) \in Nat
         /\ bytes \in Seq(Nat) /\ bytes = Content(Len(bytes))
         /\ Total \in Nat /\ Len(bytes) <= Total /\ Total <= size
         /\ res = 0 => AtEnd
         /\ res # 0 => Whole(Len(loaded)) /\ Len(loaded) < Total /\ Total = size - start
         /\ res \notin {0, Block} => Len(bytes) = Total
<1> DEFINE res == inbound[1].res
           pos == inbound[1].op.pos
           n == Len(loaded)
<1>1. /\ Collected /\ Placed(inbound[1].op) /\ Brings(inbound[1])
      /\ inbound[1].op.nth = counter + 1 /\ counter \in Nat
      /\ size \in Nat /\ start \in Nat /\ n \in Nat /\ loaded \in Seq(Nat) /\ loaded = Content(n)
  BY ListenerFacts DEF FInv, Loading, Bytes
<1>2. EventOK(inbound[1])
  BY FirstEvent
<1>3. res \in Nat /\ res = BytesAt(pos)
  BY <1>1, <1>2 DEF EventOK, Brings, Failed, Canceled
<1>4. n <= Total /\ (Whole(n) \/ AtEnd) /\ Total \in Nat /\ Total <= size
  BY <1>1 DEF Collected, Total
<1>5. pos = start + n \/ (AtEnd /\ pos >= size)
  <2>1. inbound[1].op.nth - (counter + 1) = 0
    BY <1>1
  <2>2. 0 * Block = 0
    BY FileAssumption
  <2>3. start + n + 0 = start + n
    BY <1>1
  <2> QED
    BY <1>1, <2>1, <2>2, <2>3 DEF Placed
<1>6. Block \in Nat /\ Block >= 2
  BY FileAssumption
<1> DEFINE more == [i \in 1..res |-> pos + i - 1]
<1>7. bytes = loaded \o more
  OBVIOUS
<1>8. n = Len(loaded)
  OBVIOUS
<1> HIDE DEF pos, res, n, more
<1>9. res # 0 => pos = start + n /\ start + n < size
  <2>1. res # 0 => ~(pos >= size)
    BY <1>3 DEF BytesAt
  <2> QED
    BY <1>1, <1>5, <2>1
<1>10. more \in Seq(Nat) /\ Len(more) = res /\ \A i \in 1..res : more[i] = start + n + i - 1
  <2>1. CASE res = 0
    <3>1. more = <<>>
      BY <2>1 DEF more
    <3> QED
      BY <2>1, <3>1
  <2>2. CASE res # 0
    <3>1. \A i \in 1..res : pos + i - 1 \in Nat /\ pos + i - 1 = start + n + i - 1
      BY <1>1, <1>3, <1>9, <2>2
    <3> QED
      BY <1>3, <3>1 DEF more
  <2> QED
    BY <2>1, <2>2
<1>11. bytes \in Seq(Nat) /\ Len(bytes) = n + res /\ bytes = Content(n + res)
  <2>1. Len(loaded) = n /\ \A i \in 1..n : loaded[i] = start + i - 1
    <3>1. Len(Content(n)) = n
      BY <1>1 DEF Content
    <3>2. \A i \in 1..n : Content(n)[i] = start + i - 1
      BY DEF Content
    <3> QED
      BY <1>1, <3>1, <3>2
  <2> DEFINE both == loaded \o more
  <2>2. /\ both \in Seq(Nat) /\ Len(both) = n + res
        /\ \A i \in 1..(n + res) : both[i] = IF i <= n THEN loaded[i] ELSE more[i - n]
    <3>1. /\ both \in Seq(Nat) /\ Len(both) = Len(loaded) + Len(more)
          /\ \A i \in 1..(Len(loaded) + Len(more)) : both[i] = IF i <= Len(loaded) THEN loaded[i] ELSE more[i - Len(loaded)]
      BY <1>1, <1>10, ConcatProperties
    <3> HIDE DEF both
    <3> QED
      BY <1>10, <2>1, <3>1
  <2>3. \A i \in 1..(n + res) : both[i] = IF i <= n THEN loaded[i] ELSE more[i - n]
    BY <2>2
  <2> HIDE DEF both
  <2>4. ASSUME NEW i \in 1..(n + res) PROVE both[i] = start + i - 1
    <3>1. CASE i <= n
      <4>1. i \in 1..n
        BY <1>1, <1>3, <3>1
      <4> QED
        BY <2>1, <2>3, <3>1, <4>1
    <3>2. CASE ~(i <= n)
      <4>1. i - n \in 1..res /\ both[i] = more[i - n]
        BY <1>1, <1>3, <2>3, <3>2
      <4>2. both[i] = start + n + (i - n) - 1
        BY <1>10, <4>1
      <4> QED
        BY <1>1, <1>3, <4>2
    <3> QED
      BY <3>1, <3>2
  <2>5. both = [i \in 1..(n + res) |-> both[i]]
    BY <2>2
  <2>6. both = Content(n + res)
    BY <2>4, <2>5 DEF Content
  <2> QED
    BY <1>7, <2>2, <2>6 DEF both
<1>12. CASE res = 0
  <2>1. AtEnd
    <3>1. CASE pos = start + n
      <4>1. pos >= size
        BY <1>1, <1>3, <1>6, <1>12, <3>1 DEF BytesAt, Lesser
      <4> QED
        BY <1>1, <1>4, <1>8, <3>1, <4>1 DEF Total, AtEnd
    <3> QED
      BY <1>5, <3>1
  <2>2. n + res = n
    BY <1>1, <1>12
  <2>3. Len(bytes) = n /\ bytes = Content(n)
    BY <1>11, <2>2, Zenon
  <2> QED
    BY <1>1, <1>4, <1>6, <1>8, <1>11, <1>12, <2>1, <2>2, <2>3 DEF res
<1>13. CASE res # 0
  <2>1. pos = start + n /\ start + n < size
    BY <1>9, <1>13
  <2>2. /\ res <= Block /\ n + res <= size - start
        /\ res # Block => n + res = size - start
    BY <1>1, <1>3, <1>6, <2>1 DEF BytesAt, Lesser
  <2>3. Total = size - start /\ n < Total
    BY <1>1, <2>1 DEF Total
  <2>4. Whole(n)
    BY <1>1, <1>4, <1>8, <2>3 DEF AtEnd
  <2>5. res \in 0..Block /\ n + res \in Nat
    BY <1>1, <1>3, <1>6, <2>2
  <2> QED
    BY <1>4, <1>8, <1>11, <1>13, <2>2, <2>3, <2>4, <2>5 DEF res
<1> QED
  BY <1>12, <1>13

\* The base of a collected payload: the buffer is free, and nobody else has it.
LEMMA CollectBase ==
  ASSUME FInv, Delivers, inbound # <<>>, listener = "load", Pays(inbound[1]), payloads' = payloads,
         B!Release(Loader, inbound[1].op.buf), inbound' \in {Tail(inbound), <<>>}
  PROVE  /\ BaseInv' /\ B!Next /\ Written'
         /\ got'[Loader] = got[Loader] \ {inbound[1].op.buf}
         /\ \A u \in Task : (B!Waiting(u)' <=> B!Waiting(u)) /\ (Served(u)' <=> Served(u))
<1> DEFINE b == inbound[1].op.buf
<1>1. Loader \in Task /\ BaseInv /\ UNCHANGED req /\ Outstanding' = Outstanding /\ RingInv'
  BY DeliverKeeps, FileAssumption DEF FInv, Delivers
<1>2. inbound[1].op.task = Loader /\ EventOK(inbound[1]) /\ Served(Loader) /\ req[Loader].kind = "read"
  BY FirstEvent, ListenerFacts
<1>3. /\ b \in got[Loader] /\ b \in Buffer
      /\ \A op \in Outstanding : op.task = Loader => op.buf # b
  BY <1>1, <1>2, PoolFacts DEF EventOK, BaseInv
<1>4. /\ BP!PInv' /\ B!Next /\ Requests'
      /\ \A u \in Task : (B!Waiting(u)' <=> B!Waiting(u)) /\ (Served(u)' <=> Served(u))
      /\ \A u \in Task \ {Loader} : got'[u] = got[u] /\ want'[u] = want[u]
      /\ got'[Loader] = got[Loader] \ {b}
  BY <1>1, <1>3, ReleaseRequests
<1>5. \A u \in Task : \A c : c # b \/ u # Loader => (c \in got'[u] <=> c \in got[u])
  BY <1>4
<1>6. Operations'
  BY <1>1, <1>3, <1>4, <1>5 DEF BaseInv, Operations, OperationOK
<1>7. Payloads'
  BY <1>1, <1>4, <1>5 DEF BaseInv, Payloads, PayloadOK
<1>8. Events'
  <2>1. CASE inbound' = <<>>
    BY <2>1 DEF Events
  <2>2. CASE inbound' = Tail(inbound)
    <3>1. ASSUME NEW i \in 2..Len(inbound), NEW e, e = inbound[i] PROVE EventOK(e)'
      <4>1. i \in 1..Len(inbound) /\ EventOK(e)
        BY <3>1, FirstEvent DEF BaseInv, FInv, Events
      <4>2. Pays(e) => e.op.buf # b \/ e.op.task # Loader
        BY <1>2, <3>1, FirstEvent
      <4> QED
        BY <1>1, <1>4, <1>5, <4>1, <4>2 DEF EventOK, Pays
    <3> QED
      BY <2>2, <3>1, TailEvents
  <2> QED
    BY <2>1, <2>2
<1>9. BaseInv'
  BY <1>1, <1>4, <1>6, <1>7, <1>8 DEF BaseInv
<1>10. Written'
  BY <1>2, <1>4, DeliverWritten
<1> QED
  BY <1>4, <1>9, <1>10

\* What the three ways to go on from a payload have in common.
LEMMA CollectStep ==
  ASSUME FInv, Deliver, listener = "load", inbound[1].res >= 0
  PROVE  LET res == inbound[1].res
             left == size - Len(loaded')
         IN
         /\ inbound # <<>> /\ Delivers /\ payloads' = payloads
         /\ Pays(inbound[1]) /\ B!Release(Loader, inbound[1].op.buf)
         /\ loaded' \in Seq(Nat) /\ loaded' = Content(Len(loaded'))
         /\ Len(loaded) \in Nat /\ Len(loaded') = Len(loaded) + res /\ res \in 0..Block
         /\ Total \in Nat /\ Len(loaded') \in Nat /\ Len(loaded') <= Total /\ Total <= size /\ left \in Nat
         /\ res = 0 => AtEnd
         /\ res # 0 => Whole(Len(loaded)) /\ Len(loaded) < Total /\ Total = size - start
         /\ res \notin {0, Block} => Len(loaded') = Total
         /\ \/ /\ res = 0 \/ left = 0
               /\ EndLoad("complete")
               /\ UNCHANGED <<blocksCount, counter, next>>
            \/ /\ res # 0 /\ left # 0 /\ counter + 1 < blocksCount
               /\ counter' = counter + 1
               /\ inbound' = Tail(inbound)
               /\ UNCHANGED <<load, listener, blocksCount, next>>
            \/ /\ res # 0 /\ left # 0 /\ counter + 1 = blocksCount
               /\ counter' = 0
               /\ blocksCount' = NextBlocks(left)
               /\ next' = blocksCount'
               /\ inbound' = Tail(inbound)
               /\ UNCHANGED <<load, listener>>
<1> DEFINE res == inbound[1].res
           op == inbound[1].op
<1>1. inbound # <<>> /\ Delivers
  BY DEF Deliver, Delivers
<1>2. Head(inbound) = inbound[1] /\ EventOK(inbound[1])
  BY <1>1, FirstEvent
<1>3. res \in Nat /\ ~(res < 0) /\ Pays(inbound[1])
  BY <1>2 DEF EventOK, Failed, Canceled, Pays
<1>4. Collect(op, res) /\ payloads' = payloads
  BY <1>2, <1>3 DEF Deliver
<1>5. op.task = Loader /\ size \in Nat /\ start \in Nat /\ Len(loaded) \in Nat
  BY <1>1, ListenerFacts
<1>6. PICK bytes : bytes = loaded \o [i \in 1..res |-> op.pos + i - 1]
  OBVIOUS
<1>7. loaded' = bytes
  BY <1>4, <1>6 DEF Collect
<1>8. /\ res \in 0..Block /\ Len(bytes) = Len(loaded) + res /\ Len(bytes) \in Nat
      /\ bytes \in Seq(Nat) /\ bytes = Content(Len(bytes))
      /\ Total \in Nat /\ Len(bytes) <= Total /\ Total <= size
      /\ res = 0 => AtEnd
      /\ res # 0 => Whole(Len(loaded)) /\ Len(loaded) < Total /\ Total = size - start
      /\ res \notin {0, Block} => Len(bytes) = Total
  BY <1>1, <1>6, CollectBytes
<1>9. size - Len(bytes) \in Nat
  BY <1>5, <1>8
<1>10. B!Release(Loader, inbound[1].op.buf)
  BY <1>4, <1>5 DEF Collect
<1>11. size - Len(loaded') = size - Len(loaded \o [i \in 1..res |-> op.pos + i - 1])
  BY <1>6, <1>7
<1>12. \/ /\ res = 0 \/ size - Len(loaded') = 0
          /\ EndLoad("complete")
          /\ UNCHANGED <<blocksCount, counter, next>>
       \/ /\ res # 0 /\ size - Len(loaded') # 0 /\ counter + 1 < blocksCount
          /\ counter' = counter + 1
          /\ inbound' = Tail(inbound)
          /\ UNCHANGED <<load, listener, blocksCount, next>>
       \/ /\ res # 0 /\ size - Len(loaded') # 0 /\ counter + 1 = blocksCount
          /\ counter' = 0
          /\ blocksCount' = NextBlocks(size - Len(loaded'))
          /\ next' = blocksCount'
          /\ inbound' = Tail(inbound)
          /\ UNCHANGED <<load, listener>>
  <2> DEFINE n == size - Len(loaded \o [i \in 1..res |-> op.pos + i - 1])
  <2>1. \/ /\ res = 0 \/ n = 0
           /\ EndLoad("complete")
           /\ UNCHANGED <<blocksCount, counter, next>>
        \/ /\ res # 0 /\ n # 0 /\ counter + 1 < blocksCount
           /\ counter' = counter + 1
           /\ inbound' = Tail(inbound)
           /\ UNCHANGED <<load, listener, blocksCount, next>>
        \/ /\ res # 0 /\ n # 0 /\ counter + 1 = blocksCount
           /\ counter' = 0
           /\ blocksCount' = NextBlocks(n)
           /\ next' = blocksCount'
           /\ inbound' = Tail(inbound)
           /\ UNCHANGED <<load, listener>>
    BY <1>4 DEF Collect
  <2>2. size - Len(loaded') = n
    BY <1>11
  <2> HIDE DEF n
  <2> QED
    BY <2>1, <2>2
<1> HIDE DEF res, op
<1>13. /\ loaded' \in Seq(Nat) /\ loaded' = Content(Len(loaded'))
       /\ Len(loaded') = Len(loaded) + res
       /\ Len(loaded') \in Nat /\ Len(loaded') <= Total /\ size - Len(loaded') \in Nat
       /\ res \notin {0, Block} => Len(loaded') = Total
  BY <1>7, <1>8, <1>9
<1> QED
  BY <1>1, <1>3, <1>4, <1>5, <1>8, <1>10, <1>12, <1>13 DEF res

\* The file has been read to its end.
LEMMA CollectEndFInv ==
  ASSUME FInv, Deliver, listener = "load", inbound[1].res >= 0,
         inbound[1].res = 0 \/ size - Len(loaded') = 0, EndLoad("complete"),
         UNCHANGED <<blocksCount, counter, next>>
  PROVE  FInv' /\ B!Next
<1> DEFINE e1 == inbound[1]
           res == inbound[1].res
<1>1. /\ inbound # <<>> /\ Delivers /\ payloads' = payloads
      /\ Pays(e1) /\ B!Release(Loader, e1.op.buf)
      /\ loaded' \in Seq(Nat) /\ loaded' = Content(Len(loaded'))
      /\ Len(loaded) \in Nat /\ Len(loaded') = Len(loaded) + res /\ res \in 0..Block
      /\ Total \in Nat /\ Len(loaded') \in Nat /\ Len(loaded') <= Total /\ Total <= size
      /\ res = 0 => AtEnd
      /\ res # 0 => Whole(Len(loaded)) /\ Len(loaded) < Total /\ Total = size - start
  BY CollectStep
<1>2. /\ load = "reading" /\ next = 0 /\ Round /\ Collected /\ Cancellations
      /\ ~B!Waiting(Loader) /\ Served(Loader) /\ req[Loader].count = blocksCount
      /\ counter \in Nat /\ blocksCount \in 1..MaxWant /\ counter + 1 <= blocksCount
      /\ size \in Nat /\ start \in Nat
  BY <1>1, ListenerFacts
<1>3. load' = "complete" /\ listener' = "cancelled" /\ inbound' = <<>>
  BY DEF EndLoad
<1>4. /\ BaseInv' /\ B!Next /\ Written'
      /\ got'[Loader] = got[Loader] \ {e1.op.buf}
      /\ \A u \in Task : (B!Waiting(u)' <=> B!Waiting(u)) /\ (Served(u)' <=> Served(u))
  BY <1>1, <1>3, CollectBase
<1>5. Streams'
  BY <1>1, <1>2, <1>3, <1>4, EndedStreams, FileAssumption
<1>6. Len(loaded') = Total
  <2>1. CASE res = 0
    BY <1>1, <2>1 DEF AtEnd
  <2>2. CASE size - Len(loaded') = 0
    BY <1>1, <1>2, <2>2
  <2> QED
    BY <2>1, <2>2
<1>7. Bytes'
  <2>1. start' = start /\ size' = size
    BY <1>1 DEF Delivers
  <2> QED
    BY <1>1, <1>6, <2>1 DEF Bytes, Content, AtEnd, Total
<1>8. Held \/ closing
  BY <1>2 DEF FInv, Loading, Released, Ended
<1>9. 1 \in 1..Len(inbound) /\ Len(inbound) \in Nat
  BY <1>1, FirstEvent
<1>10. ASSUME ~closing, ~Overread
       PROVE  /\ Cut(Loader)
              /\ \A i \in 1..Len(inbound) : i # 1 => ~Pays(inbound[i])
  <2>1. CASE Short(e1)
    <3>1. Cut(Loader)
      BY <1>2, <1>9, <2>1 DEF Cancellations, ShortInbound
    <3>2. ASSUME NEW i \in 1..Len(inbound), i # 1 PROVE ~Pays(inbound[i])
      <4>1. inbound[i].res = Canceled
        BY <1>2, <1>9, <2>1, <3>2 DEF Cancellations
      <4> QED
        BY <4>1 DEF Pays, Canceled
    <3> QED
      BY <3>1, <3>2
  <2>2. CASE ~Short(e1)
    <3>1. res = Block /\ Block \in Nat /\ Block >= 2
      BY <2>2, FileAssumption DEF Short
    <3>2. size = Len(loaded) + Block /\ start = 0
      BY <1>1, <1>2, <1>6, <3>1
    <3>3. PICK k \in Nat : Len(loaded) = k * Block
      BY <1>1, <3>1 DEF Whole
    <3>4. size = (k + 1) * Block
      BY <3>1, <3>2, <3>3, Multiples
    <3>5. size % Block = 0 /\ size \div Block = k + 1
      BY <3>1, <3>4, DivideMultiple
    <3>6. blocksCount <= k + 1
      BY <1>2, <1>10, <3>2, <3>5 DEF Overread
    <3>7. Len(loaded) + (blocksCount - counter) * Block <= size
      BY <1>2, <3>2, <3>5, <3>6 DEF Collected
    <3>8. (blocksCount - counter) * Block <= Block
      <4>1. (blocksCount - counter) * Block \in Int
        BY <1>2, <3>1
      <4> QED
        BY <1>1, <3>1, <3>2, <3>7, <4>1
    <3>9. blocksCount = counter + 1
      <4>1. ASSUME blocksCount - counter >= 2 PROVE FALSE
        <5>1. 2 * Block <= (blocksCount - counter) * Block
          BY <1>2, <3>1, <4>1, MultiplesOrdered
        <5> QED
          BY <1>2, <3>1, <3>8, <5>1
      <4> QED
        BY <1>2, <4>1
    <3>10. Len(inbound) = 1
      <4>1. counter + Len(inbound) <= blocksCount
        BY <1>2 DEF Round
      <4>2. Len(inbound) >= 1 /\ counter \in Int
        BY <1>2, <1>9
      <4>3. counter + Len(inbound) <= counter + 1
        BY <3>9, <4>1
      <4>4. \A m \in Nat, n \in Int : m >= 1 /\ n + m <= n + 1 => m = 1
        OBVIOUS
      <4>5. Len(inbound) \in Nat
        BY <1>9
      <4> QED
        BY <4>2, <4>3, <4>4, <4>5
    <3>11. \A op \in Outstanding : op.task # Loader
      <4>1. ASSUME NEW op \in Outstanding, op.task = Loader PROVE FALSE
        <5>1. op.nth > counter + 1
          BY <1>2, <3>10, <4>1 DEF Round
        <5>2. op.nth \in 1..blocksCount
          BY <1>2, <4>1 DEF FInv, BaseInv, Operations, OperationOK
        <5> QED
          BY <1>2, <3>9, <5>1, <5>2
      <4> QED
        BY <4>1
    <3> QED
      BY <3>10, <3>11 DEF Cut, Outstanding
  <2> QED
    BY <2>1, <2>2
<1>11. ASSUME ~closing, ~Overread, NEW b \in got'[Loader]
       PROVE  \E op \in Outstanding : op.task = Loader /\ op.buf = b
  BY <1>4, <1>8, <1>10, <1>11 DEF Held
<1>12. Loading'
  BY <1>1, <1>2, <1>3, <1>7, <1>10, <1>11, EndedLoading
<1> QED
  BY <1>1, <1>4, <1>5, <1>12, DeliverKeeps DEF FInv

\* A step of the stream within load(): the event is taken, its buffer is free.
LEMMA CollectStreams ==
  ASSUME FInv, Delivers, load = "reading", listener = "load", UNCHANGED <<load, listener>>,
         blocksCount' \in 0..MaxWant, counter' \in 0..MaxWant, next' \in 0..MaxWant
  PROVE  Streams'
BY DEF FInv, Streams, Delivers

\* The buffers that load() still has are where they were.
LEMMA CollectHeld ==
  ASSUME FInv, inbound # <<>>, inbound' = Tail(inbound), Outstanding' = Outstanding, Held,
         got'[Loader] = got[Loader] \ {inbound[1].op.buf}
  PROVE  Held'
<1> SUFFICES ASSUME NEW b \in got'[Loader]
             PROVE  \/ \E op \in Outstanding' : op.task = Loader /\ op.buf = b
                    \/ \E i \in 1..Len(inbound') : inbound'[i].res >= 0 /\ inbound'[i].op.buf = b
  BY DEF Held, Pays
<1>1. b \in got[Loader] /\ b # inbound[1].op.buf
  OBVIOUS
<1>2. CASE \E op \in Outstanding : op.task = Loader /\ op.buf = b
  BY <1>2
<1>3. CASE \E i \in 1..Len(inbound) : Pays(inbound[i]) /\ inbound[i].op.buf = b
  <2>1. PICK i \in 1..Len(inbound) : inbound[i].res >= 0 /\ inbound[i].op.buf = b
    BY <1>3 DEF Pays
  <2>2. i \in 2..Len(inbound)
    BY <1>1, <2>1, FirstEvent
  <2>3. i - 1 \in 1..Len(inbound') /\ inbound'[i - 1] = inbound[i]
    BY <2>2, FirstEvent
  <2> QED
    BY <2>1, <2>3
<1> QED
  BY <1>1, <1>2, <1>3 DEF Held

\* The round goes on.
LEMMA CollectNextFInv ==
  ASSUME FInv, Deliver, listener = "load", inbound[1].res >= 0,
         inbound[1].res # 0, counter + 1 < blocksCount,
         counter' = counter + 1, inbound' = Tail(inbound),
         UNCHANGED <<load, listener, blocksCount, next>>
  PROVE  FInv' /\ B!Next
<1> DEFINE e1 == inbound[1]
           res == inbound[1].res
<1>1. /\ inbound # <<>> /\ Delivers /\ payloads' = payloads
      /\ Pays(e1) /\ B!Release(Loader, e1.op.buf)
      /\ loaded' \in Seq(Nat) /\ loaded' = Content(Len(loaded'))
      /\ Len(loaded) \in Nat /\ Len(loaded') = Len(loaded) + res /\ res \in 0..Block /\ res # 0
      /\ Total \in Nat /\ Len(loaded') \in Nat /\ Len(loaded') <= Total /\ Total <= size
      /\ Whole(Len(loaded)) /\ Len(loaded) < Total /\ Total = size - start
      /\ res # Block => Len(loaded') = Total
  BY CollectStep
<1>2. /\ load = "reading" /\ next = 0 /\ Round /\ Collected /\ Cancellations
      /\ ~B!Waiting(Loader) /\ Served(Loader) /\ req[Loader].count = blocksCount
      /\ counter \in Nat /\ blocksCount \in 1..MaxWant /\ counter + 1 <= blocksCount
      /\ size \in Nat /\ start \in Nat /\ Loader \in Task
      /\ Block \in Nat /\ Block >= 2
  BY <1>1, ListenerFacts, FileAssumption
<1>3. /\ BaseInv' /\ B!Next /\ Written'
      /\ got'[Loader] = got[Loader] \ {e1.op.buf}
      /\ \A u \in Task : (B!Waiting(u)' <=> B!Waiting(u)) /\ (Served(u)' <=> Served(u))
  BY <1>1, CollectBase
<1>4. /\ UNCHANGED <<req, size, start, closing, active, cq, inflight, severed, cancelled>>
      /\ Outstanding' = Outstanding /\ Total' = Total
  BY <1>1, DeliverKeeps DEF Delivers, closeVars, ringVars, Total
<1>5. /\ Len(inbound) \in Nat \ {0} /\ 1 \in 1..Len(inbound) /\ Len(inbound') = Len(inbound) - 1
      /\ \A i \in 1..Len(inbound') :
           i + 1 \in 2..Len(inbound) /\ i + 1 \in 1..Len(inbound) /\ inbound'[i] = inbound[i + 1]
      /\ \A i \in 2..Len(inbound) : i - 1 \in 1..Len(inbound') /\ inbound'[i - 1] = inbound[i]
  BY <1>1, FirstEvent
<1>6. PICK k \in Nat : Len(loaded) = k * Block
  BY <1>1 DEF Whole
<1>7. ~AtEnd /\ (AtEnd' <=> Len(loaded') = Total)
  BY <1>1, <1>4 DEF AtEnd
<1>8. Streams'
  BY <1>1, <1>2, CollectStreams, PoolAssumption
<1>9. Bytes'
  BY <1>1, <1>2, <1>4 DEF Bytes, Content
<1>10. Answered'
  BY <1>4 DEF FInv, Loading, Answered, Brings, BytesAt
<1>11. Round'
  <2>1. blocksCount' > 0 /\ counter' < blocksCount' /\ counter' + Len(inbound') = counter + Len(inbound)
    BY <1>2, <1>5
  <2>2. counter + Len(inbound) <= blocksCount
    BY <1>2 DEF Round
  <2>3. \A i \in 1..Len(inbound') : inbound'[i].op.nth = counter' + i
    <3>1. \A i \in 1..Len(inbound) : inbound[i].op.nth = counter + i
      BY <1>2 DEF Round
    <3>2. \A i \in 1..Len(inbound') : counter + (i + 1) = counter' + i
      BY <1>2
    <3> QED
      BY <1>5, <3>1, <3>2
  <2>4. \A op \in Outstanding : op.task = Loader => op.nth > counter + Len(inbound)
    BY <1>2 DEF Round
  <2>5. active => \A n \in (counter + Len(inbound) + 1)..blocksCount :
                    \E op \in Outstanding : op.task = Loader /\ op.nth = n
    BY <1>2 DEF Round
  <2>6. req[Loader] # None
    BY <1>2 DEF Served
  <2> HIDE DEF e1, res
  <2> QED
    BY <1>2, <1>3, <1>4, <2>1, <2>2, <2>3, <2>4, <2>5, <2>6 DEF Round
<1>12. ASSUME NEW op, op.nth \in Int, op.nth > counter + 1, Placed(op)
       PROVE  Placed(op)'
  <2>1. op.pos = start + Len(loaded) + (op.nth - (counter + 1)) * Block
    BY <1>7, <1>12 DEF Placed
  <2> DEFINE d == op.nth - (counter + 1)
  <2>2. d \in Nat /\ d >= 1 /\ d - 1 \in Nat /\ op.nth - (counter' + 1) = d - 1
    BY <1>2, <1>12
  <2>3. op.pos = start + Len(loaded) + d * Block
    BY <2>1
  <2>4. d * Block \in Nat /\ (d - 1) * Block \in Nat /\ d * Block = (d - 1) * Block + Block
    <3>1. (d - 1) + 1 = d
      BY <2>2
    <3>2. (d - 1) * Block \in Int /\ ((d - 1) + 1) * Block = (d - 1) * Block + Block
      BY <1>2, <2>2, Multiples
    <3>3. \A m \in Nat : m * Block \in Nat
      BY <1>2
    <3> QED
      BY <2>2, <3>1, <3>2, <3>3
  <2> HIDE DEF d
  <2>5. CASE res = Block
    <3>1. op.pos = start + Len(loaded') + (d - 1) * Block
      BY <1>1, <1>2, <2>3, <2>4, <2>5
    <3>2. op.pos = start + Len(loaded') + (op.nth - (counter' + 1)) * Block
      BY <2>2, <3>1
    <3> QED
      BY <1>4, <3>2 DEF Placed
  <2>6. CASE res # Block
    <3>1. Len(loaded') = Total /\ start + Len(loaded) + Block >= size
      BY <1>1, <1>2, <2>6
    <3>2. op.pos >= size
      BY <1>1, <1>2, <2>3, <2>4, <3>1
    <3> QED
      BY <1>4, <1>7, <3>1, <3>2 DEF Placed
  <2> QED
    BY <2>5, <2>6
<1>13. Collected'
  <2>1. Len(loaded') <= Total' /\ (Whole(Len(loaded')) \/ AtEnd')
    <3>1. CASE res = Block
      <4>1. Len(loaded') = (k + 1) * Block
        BY <1>1, <1>2, <1>6, <3>1, Multiples
      <4> QED
        BY <1>1, <1>4, <4>1 DEF Whole
    <3> QED
      BY <1>1, <1>4, <1>7, <3>1
  <2>2. \A i \in 1..Len(inbound') : \A e : e = inbound'[i] => Placed(e.op)' /\ Brings(e)'
    <3> SUFFICES ASSUME NEW i \in 1..Len(inbound'), NEW e, e = inbound'[i]
                 PROVE  Placed(e.op)' /\ Brings(e)'
      OBVIOUS
    <3>1. i + 1 \in 1..Len(inbound) /\ e = inbound[i + 1]
      BY <1>5
    <3>2. Placed(e.op) /\ Brings(e) /\ e.op.nth = counter + (i + 1)
      BY <1>2, <3>1 DEF Collected, Round
    <3>3. e.op.nth \in Int /\ e.op.nth > counter + 1
      BY <1>2, <3>2
    <3>4. Brings(e)'
      BY <1>4, <3>2 DEF Brings, BytesAt
    <3> QED
      BY <1>12, <3>2, <3>3, <3>4
  <2>3. \A op \in Outstanding' : op.task = Loader => Placed(op)'
    <3> SUFFICES ASSUME NEW op \in Outstanding, op.task = Loader PROVE Placed(op)'
      BY <1>4
    <3>1. Placed(op) /\ op.nth > counter + Len(inbound)
      BY <1>2 DEF Collected, Round
    <3>2. op.nth \in Int
      BY DEF FInv, BaseInv, Operations, OperationOK
    <3>3. op.nth > counter + 1
      BY <1>2, <1>5, <3>1, <3>2
    <3> QED
      BY <1>12, <3>1, <3>2, <3>3
  <2>4. start = 0 /\ size % Block = 0 /\ blocksCount <= size \div Block =>
          Len(loaded') + (blocksCount - counter') * Block <= size
    <3>1. start = 0 /\ size % Block = 0 /\ blocksCount <= size \div Block =>
            Len(loaded) + (blocksCount - counter) * Block <= size
      BY <1>2 DEF Collected
    <3> DEFINE c == blocksCount - counter'
    <3>2. c \in Int /\ blocksCount - counter = c + 1 /\ c = blocksCount - counter'
      BY <1>2
    <3>3. Block \in Int /\ c \in Int
      BY <1>2, <3>2
    <3> HIDE DEF c
    <3>4. c * Block \in Int /\ (c + 1) * Block = c * Block + Block
      BY <3>3, Multiples, Zenon
    <3>5. (blocksCount - counter) * Block = c * Block + Block
      BY <3>2, <3>4
    <3>6. (blocksCount - counter') * Block = c * Block
      BY <3>2
    <3>7. /\ Len(loaded) \in Nat /\ res \in Nat /\ res <= Block /\ Len(loaded') = Len(loaded) + res
      BY <1>1, <1>2
    <3> HIDE DEF e1, res
    <3>8. Len(loaded) + (blocksCount - counter) * Block <= size =>
            Len(loaded') + (blocksCount - counter') * Block <= size
      <4>1. PICK m : m = c * Block
        OBVIOUS
      <4>2. m \in Int /\ (blocksCount - counter) * Block = m + Block /\ (blocksCount - counter') * Block = m
        BY <3>4, <3>5, <3>6, <4>1
      <4>3. size \in Int /\ Block \in Int
        BY <1>2
      <4>4. Len(loaded) + (m + Block) <= size => Len(loaded') + m <= size
        BY <3>7, <4>2, <4>3
      <4> QED
        BY <4>2, <4>4
    <3> QED
      BY <3>1, <3>8
  <2>5. \A i \in 1..Len(inbound') : Placed(inbound[i].op)' /\ Brings(inbound[i])'
    <3> SUFFICES ASSUME NEW i \in 1..Len(inbound') PROVE Placed(inbound[i].op)' /\ Brings(inbound[i])'
      OBVIOUS
    <3>1. PICK e : e = inbound'[i]
      OBVIOUS
    <3>2. Placed(e.op)' /\ Brings(e)'
      BY <2>2, <3>1
    <3> QED
      BY <3>1, <3>2 DEF Placed, Brings, BytesAt, AtEnd, Total
  <2> QED
    BY <1>4, <2>1, <2>3, <2>4, <2>5 DEF Collected
<1>14. ShortInbound => AtEnd' \/ ShortInbound'
  <2> SUFFICES ASSUME NEW j \in 1..Len(inbound), inbound[j].res # Block PROVE AtEnd' \/ ShortInbound'
    BY DEF ShortInbound, Short
  <2>1. CASE j = 1
    BY <1>1, <1>7, <2>1
  <2>2. CASE j # 1
    <3>1. j - 1 \in 1..Len(inbound') /\ inbound'[j - 1].res # Block
      BY <1>5, <2>2
    <3> QED
      BY <3>1 DEF ShortInbound, Short
  <2> QED
    BY <2>1, <2>2
<1>15. Cancellations'
  <2>1. \A i, j \in 1..Len(inbound') : i < j /\ inbound'[i].res # Block => inbound'[j].res = Canceled
    <3> SUFFICES ASSUME NEW i \in 1..Len(inbound'), NEW j \in 1..Len(inbound'), i < j, inbound'[i].res # Block
                 PROVE  inbound'[j].res = Canceled
      OBVIOUS
    <3>1. /\ i + 1 \in 1..Len(inbound) /\ inbound'[i] = inbound[i + 1]
          /\ j + 1 \in 1..Len(inbound) /\ inbound'[j] = inbound[j + 1] /\ i + 1 < j + 1
      BY <1>5
    <3> QED
      BY <1>2, <3>1 DEF Cancellations, Short
  <2>2. ShortInbound' => Cut(Loader)'
    <3>1. ShortInbound' => ShortInbound
      BY <1>5 DEF ShortInbound, Short
    <3> QED
      BY <1>1, <1>2, <3>1, DeliverKeeps DEF Cancellations
  <2>3. \A i \in 1..Len(inbound') : inbound'[i].res = Canceled =>
          AtEnd' \/ \E j \in 1..Len(inbound') : j < i /\ inbound'[j].res # Block
    <3> SUFFICES ASSUME NEW i \in 1..Len(inbound'), inbound'[i].res = Canceled, ~AtEnd'
                 PROVE  \E j \in 1..Len(inbound') : j < i /\ inbound'[j].res # Block
      OBVIOUS
    <3>1. i + 1 \in 1..Len(inbound) /\ inbound'[i] = inbound[i + 1]
      BY <1>5
    <3>2. PICK j \in 1..Len(inbound) : j < i + 1 /\ inbound[j].res # Block
      BY <1>2, <1>7, <3>1 DEF Cancellations, Short
    <3>3. j # 1
      BY <1>1, <1>7, <3>2
    <3>4. j - 1 \in 1..Len(inbound') /\ inbound'[j - 1] = inbound[j] /\ j - 1 < i
      BY <1>5, <3>2, <3>3
    <3> QED
      BY <3>2, <3>4
  <2>4. active =>
          /\ \A i \in 1..Len(cq) : cq[i].op.task = Loader /\ cq[i].res = Canceled =>
               AtEnd' \/ ShortInbound' \/ ShortBefore(i)
          /\ \A op \in inflight : op.task = Loader /\ Loader \in severed =>
               AtEnd' \/ ShortInbound' \/ ShortBefore(Len(cq) + 1)
    BY <1>2, <1>7, <1>14 DEF Cancellations
  <2>5. active' =>
          /\ \A i \in 1..Len(cq') : cq'[i].op.task = Loader /\ cq'[i].res = Canceled =>
               AtEnd' \/ ShortInbound' \/ ShortBefore(i)'
          /\ \A op \in inflight' : op.task = Loader /\ Loader \in severed' =>
               AtEnd' \/ ShortInbound' \/ ShortBefore(Len(cq) + 1)'
    <3>1. \A n : ShortBefore(n) => ShortBefore(n)'
      BY <1>4 DEF ShortBefore, Short
    <3>2. PICK m : m = Len(cq) + 1
      OBVIOUS
    <3>3. ShortBefore(Len(cq) + 1) => ShortBefore(Len(cq) + 1)'
      BY <1>4, <3>1, <3>2 DEF ShortBefore, Short
    <3> QED
      BY <1>4, <2>4, <3>1, <3>3
  <2> QED
    BY <2>1, <2>2, <2>3, <2>5 DEF Cancellations, Short
<1>16. Released'
  <2>1. ~closing => Held
    BY <1>2 DEF FInv, Loading, Released, Ended
  <2>2. ~closing => Held'
    BY <1>1, <1>3, <1>4, <2>1, CollectHeld
  <2> QED
    BY <1>2, <1>4, <2>2 DEF Released, Ended
<1> QED
  BY <1>1, <1>2, <1>3, <1>8, <1>9, <1>10, <1>11, <1>13, <1>15, <1>16, DeliverKeeps
  DEF FInv, Loading, Reading

\* The blocks of the next round are those of the rest of the file, if it has
\* as many.
LEMMA NextBlocksFacts ==
  ASSUME NEW left \in Nat \ {0}, blocksCount \in 1..MaxWant
  PROVE  /\ NextBlocks(left) \in 1..MaxWant
         /\ (\E m \in Nat : left = m * Block) => NextBlocks(left) * Block <= left
<1>1. Block \in Nat \ {0} /\ MaxWant \in Nat
  BY FileAssumption, PoolAssumption
<1>2. left \div Block \in Nat
  BY <1>1, Division
<1> DEFINE q == left \div Block
           n == NextBlocks(left)
<1>3. n = Lesser(blocksCount, IF q > 1 THEN q ELSE 1)
  BY DEF NextBlocks
<1>4. q \in Nat
  BY <1>2
<1> HIDE DEF q, n
<1>5. n \in 1..MaxWant /\ (q >= 1 => n <= q)
  BY <1>1, <1>3, <1>4 DEF Lesser
<1>6. ASSUME NEW m \in Nat, left = m * Block PROVE n * Block <= left
  <2>1. q = m
    BY <1>1, <1>6, DivideMultiple DEF q
  <2>2. m # 0
    <3>1. 0 * Block = 0
      BY <1>1
    <3> QED
      BY <1>6, <3>1
  <2>3. n <= left \div Block /\ n \in Nat
    BY <1>1, <1>5, <2>1, <2>2 DEF q
  <2> QED
    BY <1>1, <2>3, MultipleBelow
<1> QED
  BY <1>5, <1>6 DEF n

\* The round is over, and the next one begins.
LEMMA CollectRoundFInv ==
  ASSUME FInv, Deliver, listener = "load", inbound[1].res >= 0,
         inbound[1].res # 0, size - Len(loaded') # 0, counter + 1 = blocksCount,
         counter' = 0, blocksCount' = NextBlocks(size - Len(loaded')), next' = blocksCount',
         inbound' = Tail(inbound), UNCHANGED <<load, listener>>
  PROVE  FInv' /\ B!Next
<1> DEFINE e1 == inbound[1]
           res == inbound[1].res
<1>1. /\ inbound # <<>> /\ Delivers /\ payloads' = payloads
      /\ Pays(e1) /\ B!Release(Loader, e1.op.buf)
      /\ loaded' \in Seq(Nat) /\ loaded' = Content(Len(loaded'))
      /\ Len(loaded) \in Nat /\ Len(loaded') = Len(loaded) + res /\ res \in 0..Block /\ res # 0
      /\ Total \in Nat /\ Len(loaded') \in Nat /\ Len(loaded') <= Total /\ Total <= size
      /\ size - Len(loaded') \in Nat
      /\ Whole(Len(loaded)) /\ Len(loaded) < Total /\ Total = size - start
      /\ res # Block => Len(loaded') = Total
  BY CollectStep
<1>2. /\ load = "reading" /\ next = 0 /\ Round /\ Collected
      /\ ~B!Waiting(Loader) /\ Served(Loader) /\ req[Loader].count = blocksCount
      /\ counter \in Nat /\ blocksCount \in 1..MaxWant
      /\ size \in Nat /\ start \in Nat /\ Loader \in Task
      /\ Block \in Nat /\ Block >= 2 /\ MaxWant \in Nat
  BY <1>1, ListenerFacts, FileAssumption, PoolAssumption
<1>3. /\ BaseInv' /\ B!Next /\ Written'
      /\ got'[Loader] = got[Loader] \ {e1.op.buf}
      /\ \A u \in Task : (B!Waiting(u)' <=> B!Waiting(u)) /\ (Served(u)' <=> Served(u))
  BY <1>1, CollectBase
<1>4. /\ UNCHANGED <<req, size, start, closing, active, cq, inflight, severed, cancelled>>
      /\ Outstanding' = Outstanding /\ Total' = Total
  BY <1>1, DeliverKeeps DEF Delivers, closeVars, ringVars, Total
<1>5. blocksCount' \in 1..MaxWant /\ blocksCount' > 0
  <2>1. size - Len(loaded') \in Nat \ {0}
    BY <1>1
  <2>2. NextBlocks(size - Len(loaded')) \in 1..MaxWant
    BY <1>2, <2>1, NextBlocksFacts
  <2> QED
    BY <1>2, <2>2
<1>6. Len(inbound) = 1 /\ inbound' = <<>>
  <2>1. Len(inbound) \in Nat \ {0} /\ Len(inbound') = Len(inbound) - 1
        /\ Sequence(inbound')
    BY <1>1, FirstEvent
  <2>2. counter + Len(inbound) <= counter + 1
    BY <1>2 DEF Round
  <2>3. Len(inbound) = 1
    <3>1. \A m \in Nat \ {0}, n \in Nat : n + m <= n + 1 => m = 1
      OBVIOUS
    <3> QED
      BY <1>2, <2>1, <2>2, <3>1
  <2>4. Len(inbound') = 0
    BY <2>1, <2>3
  <2>5. inbound' \in Seq({inbound'[i] : i \in 1..Len(inbound')})
    BY <2>1 DEF Sequence
  <2>6. inbound' = <<>>
    BY <2>4, <2>5, EmptySeq
  <2> QED
    BY <2>3, <2>6
<1>7. \A op \in Outstanding : op.task # Loader
  <2>1. ASSUME NEW op \in Outstanding, op.task = Loader PROVE FALSE
    <3>1. op.nth > counter + 1
      BY <1>2, <1>6, <2>1 DEF Round
    <3>2. op.nth \in 1..blocksCount
      BY <1>2, <2>1 DEF FInv, BaseInv, Operations, OperationOK
    <3> QED
      BY <1>2, <3>1, <3>2
  <2> QED
    BY <2>1
<1>8. /\ \A i \in 1..Len(cq') : cq'[i].op.task # Loader
      /\ \A op \in inflight' : op.task # Loader
  BY <1>4, <1>7 DEF Outstanding
<1>9. Streams'
  BY <1>1, <1>2, <1>5, CollectStreams
<1>10. Bytes' /\ Answered'
  BY <1>1, <1>2, <1>4, <1>8 DEF Bytes, Content, Answered
<1>11. Round'
  <2>1. Len(inbound') = 0 /\ 0 + 0 <= blocksCount' /\ 0 < blocksCount' /\ next' # 0
    BY <1>5, <1>6
  <2>2. ~B!Waiting(Loader)' /\ req'[Loader] = req[Loader]
    BY <1>2, <1>3, <1>4
  <2>3. /\ \A i \in 1..Len(inbound') : inbound'[i].op.nth = counter' + i
        /\ \A op \in Outstanding' : op.task = Loader => op.nth > counter' + Len(inbound')
    BY <1>4, <1>7, <2>1
  <2> HIDE DEF e1, res
  <2> QED
    BY <1>4, <1>5, <1>6, <1>7, <2>1, <2>2, <2>3 DEF Round
<1>12. Whole(Len(loaded')) \/ Len(loaded') = Total
  <2>1. CASE res = Block
    <3>1. PICK k \in Nat : Len(loaded) = k * Block
      BY <1>1 DEF Whole
    <3>2. Len(loaded') = (k + 1) * Block
      BY <1>1, <1>2, <2>1, <3>1, Multiples
    <3> QED
      BY <3>2 DEF Whole
  <2> QED
    BY <1>1, <2>1
<1>13. ASSUME start = 0, size % Block = 0 PROVE Len(loaded') + blocksCount' * Block <= size
  <2>1. Whole(Len(loaded'))
    BY <1>1, <1>2, <1>12, <1>13
  <2>2. PICK k \in Nat : Len(loaded') = k * Block
    BY <2>1 DEF Whole
  <2>3. PICK q : q = size \div Block
    OBVIOUS
  <2>4. q \in Nat /\ size = q * Block
    <3>1. Block \in Nat \ {0} /\ size \in Nat
      BY <1>2
    <3>2. /\ size \div Block \in Nat
          /\ size = Block * (size \div Block) + (size % Block)
      BY <3>1, Division, Zenon
    <3>3. size = Block * q + 0 /\ q \in Nat
      BY <1>13, <2>3, <3>2, Zenon
    <3>4. \A m, n \in Nat : m * n + 0 = n * m
      OBVIOUS
    <3> QED
      BY <3>1, <3>3, <3>4
  <2>5. PICK left : left = size - Len(loaded')
    OBVIOUS
  <2>6. left \in Nat \ {0}
    BY <1>1, <2>5
  <2>7. left = (q - k) * Block
    BY <1>2, <2>2, <2>4, <2>5, Multiples
  <2>8. q - k \in Nat
    <3>1. ASSUME q <= k PROVE FALSE
      <4>1. q * Block <= k * Block
        BY <1>2, <2>4, <3>1, MultiplesOrdered
      <4>2. size <= Len(loaded')
        BY <2>2, <2>4, <4>1
      <4> QED
        BY <1>1, <1>2, <2>5, <2>6, <4>2
    <3> QED
      BY <2>4, <3>1
  <2>9. NextBlocks(left) * Block <= left /\ NextBlocks(left) \in 1..MaxWant
    BY <1>2, <2>6, <2>7, <2>8, NextBlocksFacts
  <2>10. blocksCount' = NextBlocks(left)
    BY <2>5
  <2>11. PICK m : m = blocksCount' * Block
    OBVIOUS
  <2>12. m \in Int /\ m <= left
    <3>1. m = NextBlocks(left) * Block /\ NextBlocks(left) \in Int /\ Block \in Int
      BY <1>2, <2>9, <2>10, <2>11
    <3>2. NextBlocks(left) * Block \in Int
      BY <3>1, Multiples, Zenon
    <3> QED
      BY <2>9, <3>1, <3>2
  <2>13. Len(loaded') + m <= size
    <3>1. \A a, b, x \in Int : x <= a - b => b + x <= a
      OBVIOUS
    <3>2. m <= size - Len(loaded') /\ size \in Int /\ Len(loaded') \in Int /\ m \in Int
      BY <1>1, <1>2, <2>5, <2>12
    <3> QED
      BY <3>1, <3>2
  <2> QED
    BY <2>11, <2>13
<1>14. Collected'
  <2>1. Len(inbound') = 0
    BY <1>6
  <2>2. blocksCount' - counter' = blocksCount'
    <3>1. \A m \in 1..MaxWant : m - 0 = m
      BY <1>2
    <3> QED
      BY <1>5, <3>1
  <2>3. start' = 0 /\ size' % Block = 0 =>
          Len(loaded') + (blocksCount' - counter') * Block <= size'
    BY <1>4, <1>13, <2>2
  <2>4. \A op \in Outstanding' : op.task # Loader
    BY <1>4, <1>7
  <2>5. Len(loaded') <= Total' /\ (Whole(Len(loaded')) \/ Len(loaded') = Total')
    BY <1>1, <1>4, <1>12
  <2>6. \A i \in 1..Len(inbound') : FALSE
    <3>1. \A i \in 1..0 : FALSE
      OBVIOUS
    <3> QED
      BY <2>1, <3>1, Zenon
  <2>7. Whole(Len(loaded))' \/ AtEnd'
    BY <2>5 DEF Whole, AtEnd
  <2>8. \A i \in 1..Len(inbound') : Placed(inbound[i].op)' /\ Brings(inbound[i])'
    BY <2>6, Zenon
  <2>9. \A op \in Outstanding' : op.task = Loader => Placed(op)'
    BY <2>4, Zenon
  <2>10. start' = 0 /\ size' % Block = 0 /\ blocksCount' <= size' \div Block =>
           Len(loaded') + (blocksCount' - counter') * Block <= size'
    BY <2>3, Zenon
  <2> QED
    BY <2>5, <2>7, <2>8, <2>9, <2>10 DEF Collected
<1>15. Cancellations'
  <2>1. \A i \in 1..Len(inbound') : FALSE
    <3>1. Len(inbound') = 0 /\ \A i \in 1..0 : FALSE
      BY <1>6
    <3> QED
      BY <3>1, Zenon
  <2> HIDE DEF e1, res
  <2> QED
    BY <1>8, <2>1 DEF Cancellations, ShortInbound
<1>16. Released'
  <2>1. ~closing => Held
    BY <1>2 DEF FInv, Loading, Released, Ended
  <2>2. ~closing => Held'
    BY <1>1, <1>3, <1>4, <2>1, CollectHeld
  <2> QED
    BY <1>2, <1>4, <2>2 DEF Released, Ended
<1> QED
  BY <1>1, <1>2, <1>3, <1>9, <1>10, <1>11, <1>14, <1>15, <1>16, DeliverKeeps
  DEF FInv, Loading, Reading

LEMMA DeliverFInv ==
  ASSUME FInv, Deliver
  PROVE  FInv' /\ [B!Next]_bufferVars
<1>1. inbound # <<>>
  BY DEF Deliver
<1>2. EventOK(inbound[1]) /\ Head(inbound) = inbound[1]
  BY <1>1, FirstEvent
<1>3. inbound[1].res < 0 \/ inbound[1].res >= 0
  BY <1>2 DEF EventOK, Failed, Canceled
<1>4. listener \in {"application", "load"}
  BY DEF Deliver
<1>5. CASE listener = "application"
  BY <1>5, ApplicationFInv
<1>6. CASE listener = "load" /\ inbound[1].res < 0
  BY <1>6, FailedFInv
<1>7. CASE listener = "load" /\ inbound[1].res >= 0
  <2>1. FInv' /\ B!Next
    BY <1>7, CollectStep, CollectEndFInv, CollectNextFInv, CollectRoundFInv
  <2> QED
    BY <2>1
<1> QED
  BY <1>3, <1>4, <1>5, <1>6, <1>7

-----------------------------------------------------------------------------
(* The loop handles a completion.                                            *)
LEMMA HandleQueue ==
  ASSUME FInv, HandleCqe
  PROVE  LET op == cq[1].op
             res == cq[1].res
         IN
         /\ cq # <<>> /\ 1 \in 1..Len(cq) /\ Shifted(1)
         /\ op \in Outstanding \ inflight /\ Outstanding' = Outstanding \ {op} /\ RingInv'
         /\ OperationOK(op) /\ res \in Nat \cup {Failed, Canceled}
         /\ UNCHANGED <<taskVars, loadVars, listener, size, start, severed, closing, closePc, inflight, cancelled>>
         /\ pending \in Nat \ {0} /\ pending' = pending - 1 /\ Settle
         /\ IF active THEN NotifyActive(op, res)
            ELSE B!Release(op.task, op.buf) /\ UNCHANGED <<writeVars, inbound>>
         /\ PendingExact'
<1> DEFINE op == cq[1].op
           res == cq[1].res
<1>1. /\ TakeCqe
      /\ IF closePc = "closed"
           THEN UNCHANGED <<bufferVars, writeVars, inbound, pending, active, closer>>
           ELSE /\ pending' = pending - 1
                /\ Settle
                /\ IF active THEN NotifyActive(Head(cq).op, Head(cq).res)
                   ELSE B!Release(Head(cq).op.task, Head(cq).op.buf) /\ UNCHANGED <<writeVars, inbound>>
      /\ UNCHANGED <<taskVars, loadVars, listener, size, start, severed, closing, closePc, inflight, cancelled>>
  BY DEF HandleCqe
<1>2. RingInv /\ IsFiniteSet(Outstanding) /\ pending = Cardinality(Outstanding)
  BY OutstandingFinite DEF FInv, BaseInv, PendingExact
<1>3. cq # <<>> /\ cq' = Tail(cq)
  BY <1>1, <1>2 DEF TakeCqe, RingInv
<1>4. Sequence(cq)
  BY <1>2 DEF RingInv, Sequence
<1>5. Head(cq) = cq[1] /\ 1 \in 1..Len(cq)
  BY <1>3, <1>4, TailSequence
<1>6. Shifted(1)
  BY <1>2, <1>3, ShiftedTail
<1>7. RingInv' /\ op \in Outstanding \ inflight /\ Outstanding' = Outstanding \ {op}
  <2>1. IsFiniteSet({}) /\ {} \cap (Outstanding \ {Head(cq).op}) = {} /\ inflight' = inflight \cup {}
        /\ cancelled' \subseteq inflight'
    BY <1>1, <1>2, FS_EmptySet DEF RingInv
  <2>2. /\ RingInv' /\ Head(cq).op \in Outstanding \ inflight
        /\ Outstanding' = (Outstanding \ {Head(cq).op}) \cup {}
    BY <1>1, <1>2, <2>1, TakeRing
  <2> QED
    BY <1>5, <2>2
<1>8. OperationOK(op) /\ res \in Nat \cup {Failed, Canceled}
  BY <1>5, <1>7 DEF FInv, BaseInv, Operations, Chains
<1>9. pending \in Nat \ {0} /\ Cardinality(Outstanding \ {op}) = pending - 1
  <2>1. Cardinality(Outstanding) \in Nat /\ Outstanding # {}
    BY <1>2, <1>7, FS_CardinalityType
  <2>2. Cardinality(Outstanding) # 0
    BY <1>2, <2>1, FS_EmptySet
  <2>3. Cardinality(Outstanding \ {op}) = Cardinality(Outstanding) - 1
    BY <1>2, <1>7, FS_RemoveElement
  <2> QED
    BY <1>2, <2>1, <2>2, <2>3
<1>10. closePc # "closed"
  BY <1>9 DEF FInv, Closing
<1>11. PendingExact'
  BY <1>1, <1>7, <1>9, <1>10 DEF PendingExact
<1> QED
  BY <1>1, <1>3, <1>5, <1>6, <1>7, <1>8, <1>9, <1>10, <1>11

\* It is the first of its chain: if it is not a whole block, the rest of the
\* chain is cancelled.
LEMMA HandleChains ==
  ASSUME FInv, HandleCqe
  PROVE  LET op == cq[1].op
             res == cq[1].res
         IN
         /\ Chains' /\ \A t : Cut(t) => Cut(t)'
         /\ Cut(op.task) => res = Canceled
         /\ \A o \in Outstanding' : o.task = op.task => op.nth < o.nth
         /\ \A t : t = op.task /\ res # Block => Cut(t)'
<1> DEFINE op == cq[1].op
           res == cq[1].res
<1>1. /\ Shifted(1) /\ 1 \in 1..Len(cq) /\ Outstanding' = Outstanding \ {op}
      /\ severed' = severed /\ inflight' = inflight
  BY HandleQueue
<1>2. Chains
  BY DEF FInv
<1>3. \A i \in 1..Len(cq') : i + 1 \in 1..Len(cq) /\ 1 < i + 1 /\ cq'[i] = cq[i + 1]
  BY <1>1 DEF Shifted
<1>4. Chains'
  <2>1. \A i, j \in 1..Len(cq') : i < j => i + 1 < j + 1
    OBVIOUS
  <2>2. ASSUME NEW i \in 1..Len(cq'), NEW j \in 1..Len(cq'), i < j, cq'[i].op.task = cq'[j].op.task
        PROVE  cq'[i].op.nth < cq'[j].op.nth /\ (cq'[i].res # Block => cq'[j].res = Canceled)
    <3>1. PICK m, n : m = i + 1 /\ n = j + 1
      OBVIOUS
    <3>2. m \in 1..Len(cq) /\ n \in 1..Len(cq) /\ m < n /\ cq'[i] = cq[m] /\ cq'[j] = cq[n]
      BY <1>3, <2>1, <2>2, <3>1
    <3> QED
      BY <1>2, <2>2, <3>2 DEF Chains
  <2>3. /\ \A i \in 1..Len(cq') : cq'[i].res \in Nat \cup {Failed, Canceled}
        /\ \A i \in 1..Len(cq') : \A o \in inflight' : cq'[i].op.task = o.task =>
             /\ cq'[i].op.nth < o.nth
             /\ cq'[i].res # Block => o.task \in severed'
        /\ severed' \subseteq Task
        /\ \A o \in inflight' : o.task \in severed' => o.nth > 1
    <3>1. severed' \subseteq Task /\ \A o \in inflight' : o.task \in severed' => o.nth > 1
      BY <1>1, <1>2 DEF Chains
    <3>2. ASSUME NEW i \in 1..Len(cq')
          PROVE  /\ cq'[i].res \in Nat \cup {Failed, Canceled}
                 /\ \A o \in inflight' : cq'[i].op.task = o.task =>
                      /\ cq'[i].op.nth < o.nth
                      /\ cq'[i].res # Block => o.task \in severed'
      <4>1. PICK m \in 1..Len(cq) : cq'[i] = cq[m]
        BY <1>3
      <4> QED
        BY <1>1, <1>2, <4>1 DEF Chains
    <3> QED
      BY <3>1, <3>2
  <2> HIDE DEF op, res
  <2> QED
    BY <2>2, <2>3 DEF Chains
<1>5. \A t : Cut(t) => Cut(t)'
  BY <1>1, KeepCut
<1>6. Cut(op.task) => res = Canceled
  BY <1>1 DEF Cut
<1>7. ASSUME NEW o \in Outstanding', o.task = op.task PROVE op.nth < o.nth
  <2>1. o \in inflight \/ \E i \in 1..Len(cq') : o = cq'[i].op
    BY <1>1, <1>7 DEF Outstanding
  <2>2. CASE o \in inflight
    BY <1>1, <1>2, <1>7, <2>2 DEF Chains
  <2>3. CASE \E i \in 1..Len(cq') : o = cq'[i].op
    <3>1. PICK i \in 1..Len(cq') : o = cq'[i].op
      BY <2>3
    <3>2. PICK n : n = i + 1
      OBVIOUS
    <3>3. n \in 1..Len(cq) /\ 1 < n /\ o = cq[n].op
      BY <1>3, <3>1, <3>2
    <3> QED
      BY <1>1, <1>2, <1>7, <3>3 DEF Chains
  <2> QED
    BY <2>1, <2>2, <2>3
<1>8. ASSUME NEW t, t = op.task, res # Block PROVE Cut(t)'
  <2>1. ASSUME NEW i \in 1..Len(cq'), cq'[i].op.task = t PROVE cq'[i].res = Canceled
    <3>1. PICK n : n = i + 1
      OBVIOUS
    <3>2. n \in 1..Len(cq) /\ 1 < n /\ cq'[i] = cq[n]
      BY <1>3, <3>1
    <3>3. cq[1].res # Block /\ cq[1].op.task = cq[n].op.task
      BY <1>8, <2>1, <3>2
    <3> QED
      BY <1>1, <1>2, <3>2, <3>3 DEF Chains
  <2>2. ASSUME NEW o \in inflight', o.task = t PROVE t \in severed'
    <3>1. cq[1].res # Block /\ cq[1].op.task = o.task /\ o \in inflight
      BY <1>1, <1>8, <2>2
    <3> QED
      BY <1>1, <1>2, <2>2, <3>1 DEF Chains
  <2> HIDE DEF op, res
  <2> QED
    BY <2>1, <2>2 DEF Cut
<1> QED
  BY <1>4, <1>5, <1>6, <1>7, <1>8

LEMMA HandleClosing ==
  ASSUME FInv, HandleCqe
  PROVE  Closing' /\ (active' => active) /\ (Reporting' => active)
<1>1. /\ UNCHANGED <<closing, closePc, cancelled>>
      /\ pending \in Nat \ {0} /\ pending' = pending - 1
      /\ closer' = (closer \/ (pending = 1 /\ closing))
      /\ active' = (active /\ ~(pending = 1 /\ closing))
  BY HandleQueue DEF Settle
<1>2. Closing
  BY DEF FInv
<1>3. closer' \in BOOLEAN /\ active' \in BOOLEAN /\ (active' => active)
  BY <1>1, <1>2 DEF Closing
<1>4. closePc = "none" => active'
  BY <1>1, <1>2 DEF Closing
<1>5. closePc = "graceful" => active /\ (active' <=> pending' # 0)
  BY <1>1, <1>2 DEF Closing
<1>6. closer' => closing /\ pending' = 0
  BY <1>1, <1>2 DEF Closing
<1>7. closePc \notin {"drain", "closed"}
  BY <1>1, <1>2 DEF Closing
<1>8. Closing'
  BY <1>1, <1>2, <1>3, <1>4, <1>5, <1>6, <1>7 DEF Closing
<1> QED
  BY <1>1, <1>3, <1>5, <1>8 DEF Reporting

\* An event is added to the stream.
LEMMA AppendEvents ==
  ASSUME FInv, NEW e, EventOK(e)', inbound' = Append(inbound, e),
         \A i \in 1..Len(inbound) : \A x : x = inbound[i] => EventOK(x)',
         Pays(e) => \A i \in 1..Len(inbound) :
           Pays(inbound[i]) => inbound[i].op.task # e.op.task \/ inbound[i].op.buf # e.op.buf
  PROVE  Events'
<1>1. Sequence(inbound)
  BY DEF FInv, BaseInv, Events, Sequence
<1>2. /\ Sequence(inbound') /\ Len(inbound) \in Nat /\ Len(inbound') = Len(inbound) + 1
      /\ inbound'[Len(inbound) + 1] = e
      /\ \A i \in 1..Len(inbound) : inbound'[i] = inbound[i]
      /\ \A i \in 1..(Len(inbound) + 1) : i \in 1..Len(inbound) \/ i = Len(inbound) + 1
  BY <1>1, AppendSequence
<1>3. \A i \in 1..Len(inbound') : EventOK(inbound[i])'
  <2> SUFFICES ASSUME NEW i \in 1..Len(inbound') PROVE EventOK(inbound[i])'
    OBVIOUS
  <2>1. PICK x : x = inbound'[i]
    OBVIOUS
  <2>2. EventOK(x)'
    BY <1>2, <2>1
  <2> QED
    BY <2>1, <2>2 DEF EventOK, Pays
<1>4. \A i, j \in 1..Len(inbound) :
        /\ Pays(inbound[i]) /\ Pays(inbound[j])
        /\ inbound[i].op.task = inbound[j].op.task /\ inbound[i].op.buf = inbound[j].op.buf
        => i = j
  BY DEF FInv, BaseInv, Events
<1>5. ASSUME NEW i \in 1..Len(inbound'), NEW j \in 1..Len(inbound'),
             inbound'[i].res >= 0, inbound'[j].res >= 0,
             inbound'[i].op.task = inbound'[j].op.task, inbound'[i].op.buf = inbound'[j].op.buf
      PROVE  i = j
  <2>1. CASE i \in 1..Len(inbound) /\ j \in 1..Len(inbound)
    BY <1>2, <1>4, <1>5, <2>1 DEF Pays
  <2>2. CASE i \in 1..Len(inbound) /\ j = Len(inbound) + 1
    BY <1>2, <1>5, <2>2 DEF Pays
  <2>3. CASE i = Len(inbound) + 1 /\ j \in 1..Len(inbound)
    BY <1>2, <1>5, <2>3 DEF Pays
  <2> QED
    BY <1>2, <2>1, <2>2, <2>3
<1>6. inbound' \in Seq({inbound'[i] : i \in 1..Len(inbound')})
  BY <1>2 DEF Sequence
<1> QED
  BY <1>3, <1>5, <1>6 DEF Events, Pays

\* The loop handles the completion of op.
Handles(op, res) ==
  /\ cq # <<>> /\ 1 \in 1..Len(cq) /\ Shifted(1) /\ cq[1].op = op /\ cq[1].res = res
  /\ op \in Outstanding \ inflight /\ Outstanding' = Outstanding \ {op} /\ RingInv'
  /\ OperationOK(op) /\ res \in Nat \cup {Failed, Canceled}
  /\ UNCHANGED <<taskVars, loadVars, listener, size, start, severed, closing, closePc, inflight, cancelled>>
  /\ \A t : Cut(t) => Cut(t)'
  /\ Cut(op.task) => res = Canceled
  /\ \A t : t = op.task /\ res # Block => Cut(t)'
  /\ \A o \in Outstanding' : o.task = op.task => op.nth < o.nth
  /\ (active' => active) /\ (Reporting' => active)

\* notify, on a file that is active and on one that is not.
Notifies(op, res) ==
  IF active THEN NotifyActive(op, res)
  ELSE B!Release(op.task, op.buf) /\ UNCHANGED <<writeVars, inbound>>

LEMMA HandleFacts ==
  ASSUME FInv, HandleCqe
  PROVE  PendingExact' /\ Closing' /\ Chains' /\ \E op, res : Handles(op, res) /\ Notifies(op, res)
<1>1. Handles(cq[1].op, cq[1].res) /\ Notifies(cq[1].op, cq[1].res)
  BY HandleQueue, HandleChains, HandleClosing DEF Handles, Notifies
<1> QED
  BY <1>1, HandleQueue, HandleChains, HandleClosing

\* The buffer of op stays where it is, or is released.
Pooled(op) ==
  /\ BP!PInv' /\ [B!Next]_bufferVars /\ Requests'
  /\ \A u \in Task : (B!Waiting(u)' <=> B!Waiting(u)) /\ (Served(u)' <=> Served(u))
  /\ \A u \in Task \ {op.task} : got'[u] = got[u] /\ want'[u] = want[u]
  /\ \A u \in Task : \A b : b \in got'[u] => b \in got[u]
  /\ \A u \in Task : \A b : b \in got[u] /\ (u # op.task \/ b # op.buf) => b \in got'[u]

LEMMA HandlePool ==
  ASSUME FInv, NEW op, NEW res, Handles(op, res),
         UNCHANGED bufferVars \/ B!Release(op.task, op.buf)
  PROVE  /\ Pooled(op)
         /\ B!Release(op.task, op.buf) =>
              /\ got'[op.task] = got[op.task] \ {op.buf}
              /\ want'[op.task] = want[op.task] - 1 /\ want[op.task] \in 1..MaxWant
<1>1. BaseInv /\ BP!PInv /\ Requests /\ req' = req
  BY DEF FInv, BaseInv, Handles, taskVars
<1>2. op.task \in Task /\ op.buf \in got[op.task]
  BY DEF Handles, OperationOK
<1>3. op.buf \in Buffer
  BY <1>1, <1>2, PoolFacts
<1>4. ASSUME B!Release(op.task, op.buf)
      PROVE  /\ Pooled(op)
             /\ got'[op.task] = got[op.task] \ {op.buf}
             /\ want'[op.task] = want[op.task] - 1 /\ want[op.task] \in 1..MaxWant
  <2>1. /\ BP!PInv' /\ B!Next /\ Requests'
        /\ \A u \in Task : (B!Waiting(u)' <=> B!Waiting(u)) /\ (Served(u)' <=> Served(u))
        /\ \A u \in Task \ {op.task} : got'[u] = got[u] /\ want'[u] = want[u]
        /\ got'[op.task] = got[op.task] \ {op.buf}
        /\ want'[op.task] = want[op.task] - 1 /\ want[op.task] \in 1..MaxWant
    BY <1>1, <1>2, <1>3, <1>4, ReleaseRequests
  <2>2. \A u \in Task : \A b : b \in got'[u] => b \in got[u]
    BY <2>1
  <2>3. \A u \in Task : \A b : b \in got[u] /\ (u # op.task \/ b # op.buf) => b \in got'[u]
    BY <2>1
  <2> QED
    BY <2>1, <2>2, <2>3 DEF Pooled
<1>5. ASSUME UNCHANGED bufferVars PROVE Pooled(op)
  <2>1. BP!PInv' /\ (\A u : B!Waiting(u)' <=> B!Waiting(u)) /\ got' = got /\ want' = want
    BY <1>1, <1>5, KeepPool DEF bufferVars
  <2>2. \A u : Served(u)' <=> Served(u)
    BY <1>1, <2>1 DEF Served
  <2>3. Requests'
    BY <1>1, <2>1 DEF Requests
  <2> QED
    BY <1>5, <2>1, <2>2, <2>3 DEF Pooled
<1>6. CASE B!Release(op.task, op.buf)
  BY <1>4, <1>6
<1>7. CASE UNCHANGED bufferVars /\ ~B!Release(op.task, op.buf)
  BY <1>5, <1>7
<1> QED
  BY <1>6, <1>7

\* A read adds an event, unless nobody listens any more.
Added(op, res) ==
  \/ inbound' = inbound
  \/ op.event = "read" /\ inbound' = Append(inbound, [op |-> op, res |-> res])

LEMMA HandleBase ==
  ASSUME FInv, NEW op, NEW res, Handles(op, res), Added(op, res),
         IF op.event = "read" /\ res >= 0 /\ inbound' # inbound THEN UNCHANGED bufferVars
         ELSE UNCHANGED bufferVars \/ B!Release(op.task, op.buf)
  PROVE  BaseInv'
<1>1. /\ Operations /\ Events /\ Payloads /\ BaseInv
      /\ op \in Outstanding /\ Outstanding' = Outstanding \ {op}
      /\ OperationOK(op) /\ res \in Nat \cup {Failed, Canceled}
      /\ req' = req /\ payloads' = payloads /\ RingInv'
  BY DEF FInv, BaseInv, Handles, taskVars
<1>2. Pooled(op)
  BY HandlePool
<1>3. /\ BP!PInv' /\ Requests'
      /\ \A u \in Task : Served(u)' <=> Served(u)
      /\ \A u \in Task : \A b : b \in got[u] /\ (u # op.task \/ b # op.buf) => b \in got'[u]
  BY <1>2 DEF Pooled
<1>4. \A o \in Outstanding' : o \in Outstanding /\ o # op
  BY <1>1
<1>5. Operations'
  <2>1. ASSUME NEW o \in Outstanding' PROVE OperationOK(o)'
    <3>1. OperationOK(o) /\ (o.task # op.task \/ o.buf # op.buf)
      BY <1>1, <1>4 DEF Operations
    <3> QED
      BY <1>1, <1>3, <3>1 DEF OperationOK
  <2> QED
    BY <1>1, <1>4, <2>1 DEF Operations
<1>6. Payloads'
  <2>1. ASSUME NEW p \in payloads' PROVE PayloadOK(p[1], p[2])'
    <3>1. PayloadOK(p[1], p[2]) /\ (p[1] # op.task \/ p[2] # op.buf)
      BY <1>1, <2>1 DEF Payloads, PayloadOK
    <3> QED
      BY <1>1, <1>3, <1>4, <3>1 DEF PayloadOK
  <2> QED
    BY <1>1, <2>1 DEF Payloads
<1>7. ASSUME NEW i \in 1..Len(inbound), NEW x, x = inbound[i] PROVE EventOK(x)'
  <2>1. EventOK(x)
    BY <1>1, <1>7 DEF Events
  <2>2. Pays(x) => x.op.task # op.task \/ x.op.buf # op.buf
    BY <1>1, <2>1 DEF EventOK
  <2> QED
    BY <1>1, <1>3, <1>4, <2>1, <2>2 DEF EventOK, Pays
<1>8. Events'
  <2>1. CASE inbound' = inbound
    <3>1. \A i \in 1..Len(inbound') : EventOK(inbound[i])'
      <4> SUFFICES ASSUME NEW i \in 1..Len(inbound') PROVE EventOK(inbound[i])'
        OBVIOUS
      <4>1. PICK x : x = inbound'[i]
        OBVIOUS
      <4>2. EventOK(x)'
        BY <1>7, <2>1, <4>1
      <4> QED
        BY <4>1, <4>2 DEF EventOK, Pays
    <3> QED
      BY <1>1, <2>1, <3>1 DEF Events, Pays
  <2>2. CASE op.event = "read" /\ inbound' = Append(inbound, [op |-> op, res |-> res]) /\ inbound' # inbound
    <3>1. PICK e : e = [op |-> op, res |-> res]
      OBVIOUS
    <3>2. e.op = op /\ e.res = res /\ inbound' = Append(inbound, e)
      BY <2>2, <3>1
    <3>3. op.task \in Task /\ Served(op.task) /\ req[op.task].kind = "read" /\ op.buf \in got[op.task]
      BY <1>1, <2>2 DEF OperationOK
    <3>4. Pays(e) => got' = got
      BY <2>2, <3>2 DEF Pays, bufferVars
    <3>5. <<op.task, op.buf>> \notin payloads
      <4> SUFFICES ASSUME <<op.task, op.buf>> \in payloads PROVE FALSE
        OBVIOUS
      <4>1. PICK p \in payloads : p = <<op.task, op.buf>>
        OBVIOUS
      <4>2. PayloadOK(p[1], p[2]) /\ p[1] = op.task /\ p[2] = op.buf
        BY <1>1, <4>1 DEF Payloads
      <4> QED
        BY <1>1, <4>2 DEF PayloadOK
    <3>6. \A o \in Outstanding' : o.task = op.task => o.buf # op.buf
      BY <1>1, <1>4 DEF Operations
    <3>7. EventOK(e)'
      BY <1>1, <1>3, <3>2, <3>3, <3>4, <3>5, <3>6 DEF EventOK, Pays
    <3>8. \A i \in 1..Len(inbound) :
            Pays(inbound[i]) => inbound[i].op.task # e.op.task \/ inbound[i].op.buf # e.op.buf
      BY <1>1, <3>2 DEF Events, EventOK
    <3> QED
      BY <1>7, <3>2, <3>7, <3>8, AppendEvents
  <2> QED
    BY <2>1, <2>2 DEF Added
<1> QED
  BY <1>1, <1>3, <1>5, <1>6, <1>8 DEF BaseInv

\* The tasks of the other operations.
LEMMA HandleOthers ==
  ASSUME FInv, NEW op, NEW res, Handles(op, res), Pooled(op), NEW u \in Task \ {op.task},
         doneCounter'[u] = doneCounter[u], errorCounter'[u] = errorCounter[u], reports'[u] = reports[u]
  PROVE  Told(u)'
<1>1. Told(u)
  BY DEF FInv, Written
<1>2. \A o : o.task = u => (o \in Outstanding' <=> o \in Outstanding)
  BY DEF Handles
<1>3. /\ got'[u] = got[u] /\ want'[u] = want[u] /\ (B!Waiting(u)' <=> B!Waiting(u))
      /\ req' = req /\ (Reporting' => active) /\ (Cut(u) => Cut(u)')
  BY DEF Handles, Pooled, taskVars
<1>4. Reporting' => Reporting
  BY <1>3 DEF Reporting
<1> QED
  BY <1>1, <1>2, <1>3, <1>4, KeepTold

\* writeMany counts another block.
LEMMA HandleReport ==
  ASSUME FInv, NEW op, NEW res, Handles(op, res), Pooled(op), op.event = "write", active,
         got'[op.task] = got[op.task] \ {op.buf}, want'[op.task] = want[op.task] - 1,
         want[op.task] \in 1..MaxWant, Report(op.task, req[op.task].count, res)
  PROVE  Written'
<1> DEFINE t == op.task
           n == req[t].count
<1>1. /\ op \in Outstanding /\ Outstanding' = Outstanding \ {op} /\ OperationOK(op)
      /\ res \in Nat \cup {Failed, Canceled} /\ req' = req
      /\ (Cut(t) => res = Canceled) /\ \A u : Cut(u) => Cut(u)'
      /\ \A u : u = t /\ res # Block => Cut(u)'
  BY DEF Handles, taskVars
<1>2. t \in Task /\ Served(t) /\ req[t].kind = "write" /\ req[t] \in RequestType
  BY <1>1 DEF OperationOK, Served, FInv, BaseInv
<1>3. n \in 1..MaxWant /\ n \in Nat /\ MaxWant \in Nat
  BY <1>2, PoolAssumption DEF RequestType
<1>4. /\ doneCounter \in [Task -> 0..MaxWant] /\ errorCounter \in [Task -> 0..MaxWant]
      /\ reports \in [Task -> {<<>>, <<"done">>, <<"error">>}] /\ Told(t)
  BY <1>2 DEF FInv, Written
<1>5. ~Refused(t)
  BY <1>1 DEF Refused
<1>6. Counted(t)
  BY <1>2, <1>4, <1>5 DEF Told
<1> DEFINE d == doneCounter[t]
           e == errorCounter[t]
           d1 == d + (IF res >= 0 /\ e = 0 THEN 1 ELSE 0)
           e1 == e + (IF res < 0 THEN 1 ELSE 0)
           r1 == CASE res >= 0 /\ e1 = 0 /\ d1 = n -> Append(reports[t], "done")
                   [] res < 0 /\ e1 + d1 = n -> Append(reports[t], "error")
                   [] OTHER -> reports[t]
<1>7. /\ doneCounter' = [doneCounter EXCEPT ![t] = d1]
      /\ errorCounter' = [errorCounter EXCEPT ![t] = e1]
      /\ reports' = [reports EXCEPT ![t] = r1]
  BY DEF Report
<1>8. d \in 0..MaxWant /\ e \in 0..MaxWant /\ d + e = n - want[t] /\ (e > 0 => Cut(t))
  BY <1>2, <1>4, <1>6 DEF Counted, Reporting
<1>9. reports[t] = <<>>
  BY <1>3, <1>6, <1>8 DEF Counted
<1>10. res < 0 => res # Block
  BY FileAssumption
<1>11. e > 0 => res < 0
  BY <1>1, <1>8 DEF Canceled
<1>12. (res < 0 \/ res >= 0) /\ ~(res < 0 /\ res >= 0)
  BY <1>1 DEF Failed, Canceled
<1>13. d1 \in Nat /\ e1 \in Nat /\ d1 + e1 = d + e + 1
  <2>1. d \in Nat /\ e \in Nat
    BY <1>3, <1>8
  <2>2. CASE res < 0
    <3>1. d1 = d + 0 /\ e1 = e + 1
      BY <1>12, <2>2
    <3> HIDE DEF d, e, d1, e1
    <3> QED
      BY <2>1, <3>1
  <2>3. CASE res >= 0
    <3>1. e = 0
      BY <1>11, <1>12, <2>1, <2>3
    <3>2. d1 = d + 1 /\ e1 = e + 0
      BY <1>12, <2>3, <3>1
    <3> HIDE DEF d, e, d1, e1
    <3> QED
      BY <2>1, <3>2
  <2> QED
    BY <1>12, <2>2, <2>3
<1>14. d1 + e1 = n - want'[t] /\ d1 + e1 <= n
  BY <1>3, <1>8, <1>13
<1>15. d1 \in 0..MaxWant /\ e1 \in 0..MaxWant
  BY <1>3, <1>13, <1>14
<1>16. r1 = IF d1 + e1 < n THEN <<>> ELSE IF e1 = 0 THEN <<"done">> ELSE <<"error">>
  <2>1. CASE res < 0
    <3>1. e1 > 0 /\ ~(res >= 0)
      BY <1>1, <1>3, <1>8, <2>1 DEF Failed, Canceled
    <3>2. e1 + d1 = d1 + e1
      BY <1>13
    <3>3. r1 = IF d1 + e1 = n THEN Append(<<>>, "error") ELSE <<>>
      BY <1>9, <2>1, <3>1, <3>2
    <3> HIDE DEF r1, d1, e1, d, e, n, t
    <3> QED
      BY <1>3, <1>13, <1>14, <3>1, <3>3
  <2>2. CASE res >= 0
    <3>1. e1 = 0 /\ ~(res < 0)
      BY <1>1, <1>3, <1>8, <1>11, <2>2 DEF Failed, Canceled
    <3>2. r1 = IF d1 = n THEN Append(<<>>, "done") ELSE <<>>
      BY <1>9, <2>2, <3>1
    <3> HIDE DEF r1, d1, e1, d, e, n, t
    <3> QED
      BY <1>3, <1>13, <1>14, <3>1, <3>2
  <2> QED
    BY <1>12, <2>1, <2>2
<1>17. e1 > 0 => \A u : u = t => Cut(u)'
  <2>1. CASE res < 0
    BY <1>1, <1>10, <2>1
  <2>2. CASE res >= 0 /\ ~(res < 0)
    BY <1>1, <1>3, <1>8, <2>2
  <2> QED
    BY <1>1, <1>12, <2>1, <2>2 DEF Failed, Canceled
<1>18. r1 \in {<<>>, <<"done">>, <<"error">>}
  <2> HIDE DEF r1, d1, e1, d, e, n, t
  <2> QED
    BY <1>16
<1> HIDE DEF d, e, d1, e1, r1
<1>19. /\ doneCounter' \in [Task -> 0..MaxWant] /\ errorCounter' \in [Task -> 0..MaxWant]
       /\ reports' \in [Task -> {<<>>, <<"done">>, <<"error">>}]
       /\ doneCounter'[t] = d1 /\ errorCounter'[t] = e1 /\ reports'[t] = r1
       /\ \A u \in Task \ {t} : /\ doneCounter'[u] = doneCounter[u] /\ errorCounter'[u] = errorCounter[u]
                                /\ reports'[u] = reports[u]
  BY <1>2, <1>4, <1>7, <1>15, <1>18
<1>20. ASSUME NEW u \in Task PROVE Told(u)'
  <2>1. CASE u # t
    BY <1>19, <2>1, HandleOthers
  <2>2. CASE u = t
    <3>1. Served(u)' /\ req'[u].kind = "write" /\ req'[u].count = n
      BY <1>1, <1>2, <2>2 DEF Pooled
    <3>2. \A b \in got'[u] : \E o \in Outstanding' : o.task = u /\ o.buf = b
      <4> SUFFICES ASSUME NEW b \in got'[u] PROVE \E o \in Outstanding' : o.task = u /\ o.buf = b
        OBVIOUS
      <4>1. b \in got[t] /\ b # op.buf
        BY <2>2
      <4>2. PICK o \in Outstanding : o.task = t /\ o.buf = b
        BY <1>6, <4>1 DEF Counted
      <4> QED
        BY <1>1, <2>2, <4>1, <4>2
    <3>3. Counted(u)'
      BY <1>14, <1>16, <1>17, <1>19, <2>2, <3>1, <3>2 DEF Counted
    <3> QED
      BY <3>1, <3>3 DEF Told
  <2> QED
    BY <2>1, <2>2
<1> QED
  BY <1>19, <1>20 DEF Written

LEMMA HandleWritten ==
  ASSUME FInv, NEW op, NEW res, Handles(op, res), Pooled(op), UNCHANGED writeVars,
         op.event = "write" =>
           /\ ~active
           /\ got'[op.task] = got[op.task] \ {op.buf} /\ want'[op.task] = want[op.task] - 1
           /\ want[op.task] \in 1..MaxWant
  PROVE  Written'
<1> DEFINE t == op.task
<1>1. /\ op \in Outstanding /\ Outstanding' = Outstanding \ {op} /\ OperationOK(op)
      /\ req' = req /\ (Reporting' => active) /\ \A u : Cut(u) => Cut(u)'
  BY DEF Handles, taskVars
<1>2. t \in Task /\ Served(t) /\ req[t].kind = op.event /\ req[t] \in RequestType /\ Served(t)'
  BY <1>1 DEF OperationOK, Served, FInv, BaseInv, Pooled
<1>3. UNCHANGED <<doneCounter, errorCounter, reports>> /\ Told(t)
  BY <1>2 DEF writeVars, FInv, Written
<1>4. ASSUME NEW u \in Task PROVE Told(u)'
  <2>1. CASE u # t
    BY <1>3, <2>1, HandleOthers
  <2>2. CASE u = t /\ op.event # "write"
    BY <1>1, <1>2, <1>3, <2>2 DEF Told
  <2>3. CASE u = t /\ op.event = "write"
    <3>1. Counted(t)
      BY <1>1, <1>2, <1>3, <2>3 DEF Told, Refused
    <3>2. \A b \in got'[u] : \E o \in Outstanding' : o.task = u /\ o.buf = b
      <4> SUFFICES ASSUME NEW b \in got'[u] PROVE \E o \in Outstanding' : o.task = u /\ o.buf = b
        OBVIOUS
      <4>1. b \in got[t] /\ b # op.buf
        BY <2>3
      <4>2. PICK o \in Outstanding : o.task = t /\ o.buf = b
        BY <3>1, <4>1 DEF Counted
      <4> QED
        BY <1>1, <2>3, <4>1, <4>2
    <3>3. doneCounter[t] + errorCounter[t] <= req[t].count - want'[t]
      <4>1. /\ doneCounter[t] \in 0..MaxWant /\ errorCounter[t] \in 0..MaxWant
            /\ req[t].count \in 1..MaxWant /\ MaxWant \in Nat
        BY <1>2, PoolAssumption DEF FInv, Written, RequestType
      <4> QED
        BY <2>3, <3>1, <4>1 DEF Counted
    <3>4. Counted(u)'
      BY <1>1, <1>3, <2>3, <3>1, <3>2, <3>3 DEF Counted
    <3> QED
      BY <1>1, <1>2, <2>3, <3>4 DEF Told
  <2> QED
    BY <2>1, <2>2, <2>3
<1> QED
  BY <1>3, <1>4 DEF FInv, Written

\* The stream gets the events of its listener.
LEMMA HandleStreams ==
  ASSUME FInv, NEW op, NEW res, Handles(op, res), Pooled(op),
         inbound' # inbound => op.event = "read" /\ listener # "cancelled"
  PROVE  Streams'
<1>1. /\ UNCHANGED <<load, loaded, blocksCount, counter, next, req, listener, size, start>>
      /\ OperationOK(op)
  BY DEF Handles, loadVars, taskVars
<1>2. Streams /\ Loader \in Task
  BY FileAssumption DEF FInv
<1>3. B!Waiting(Loader)' <=> B!Waiting(Loader)
  BY <1>2 DEF Pooled
<1>4. load = "none" /\ listener = "load" => inbound' = <<>>
  <2> SUFFICES ASSUME load = "none", listener = "load" PROVE inbound' = inbound
    BY <1>2 DEF Streams
  <2>1. req[Loader] = None
    BY <1>2 DEF Streams
  <2>2. op.task \in Task \ {Loader} /\ req[op.task] # None /\ op.event = req[op.task].kind
    BY <1>1, <2>1 DEF OperationOK, Served
  <2>3. op.event = "write"
    BY <1>2, <2>2 DEF Streams
  <2> QED
    BY <2>3
<1>5. load \in {"complete", "failed"} => inbound' = <<>>
  BY <1>2 DEF Streams
<1> QED
  BY <1>1, <1>2, <1>3, <1>4, <1>5 DEF Streams

\* What load() has collected stays, and the completions stay as they were.
LEMMA HandleBytes ==
  ASSUME FInv, NEW op, NEW res, Handles(op, res)
  PROVE  /\ Bytes' /\ Answered' /\ Total' = Total /\ (AtEnd' <=> AtEnd) /\ (Overread' <=> Overread)
         /\ \A o : (Placed(o)' <=> Placed(o))
         /\ \A e : (Brings(e)' <=> Brings(e)) /\ (Short(e)' <=> Short(e)) /\ (Pays(e)' <=> Pays(e))
<1>1. /\ UNCHANGED <<load, loaded, blocksCount, counter, next, req, size, start>>
      /\ Shifted(1)
  BY DEF Handles, loadVars, taskVars
<1>2. /\ Total' = Total /\ (AtEnd' <=> AtEnd) /\ (Overread' <=> Overread)
  BY <1>1 DEF Total, AtEnd, Overread
<1>3. /\ \A o : (Placed(o)' <=> Placed(o))
      /\ \A e : (Brings(e)' <=> Brings(e)) /\ (Short(e)' <=> Short(e)) /\ (Pays(e)' <=> Pays(e))
  BY <1>1, <1>2 DEF Placed, Brings, BytesAt, Short, Pays
<1>4. Bytes'
  BY <1>1, <1>2 DEF FInv, Loading, Bytes, Content
<1>5. Answered'
  BY <1>1, <1>3 DEF FInv, Loading, Answered, Shifted
<1> QED
  BY <1>2, <1>3, <1>4, <1>5

\* An operation of the application.
LEMMA HandleApplication ==
  ASSUME FInv, NEW op, NEW res, Handles(op, res), Pooled(op), op.task # Loader,
         inbound' # inbound => op.event = "read"
  PROVE  Loading'
<1>1. /\ UNCHANGED <<load, loaded, blocksCount, counter, next, req, listener, size, start>>
      /\ OperationOK(op) /\ Shifted(1) /\ cq[1].op = op /\ Outstanding' = Outstanding \ {op}
      /\ UNCHANGED <<severed, closing, inflight>> /\ (active' => active)
  BY DEF Handles, loadVars, taskVars
<1>2. Streams /\ Loading /\ Loader \in Task
  BY FileAssumption DEF FInv
<1>3. CASE load = "none"
  <2>1. ~Served(Loader)'
    BY <1>1, <1>2, <1>3 DEF Streams, Served
  <2> QED
    BY <1>1, <1>3, <2>1, HandleBytes DEF Loading, Reading, Released, Ended
<1>4. CASE load # "none"
  <2>1. listener # "application"
    BY <1>2, <1>4 DEF Streams
  <2>2. op.task \in Task \ {Loader} /\ req[op.task] # None /\ op.event = req[op.task].kind
    BY <1>1 DEF OperationOK, Served
  <2>3. op.event = "write"
    BY <1>2, <2>1, <2>2 DEF Streams
  <2>4. inbound' = inbound
    BY <2>3
  <2>5. got'[Loader] = got[Loader] /\ (B!Waiting(Loader)' <=> B!Waiting(Loader))
    BY <1>2 DEF Pooled
  <2>6. \A o : o.task = Loader => (o \in Outstanding' <=> o \in Outstanding)
    BY <1>1
  <2>7. LoadKept
    BY <1>1, <2>4, <2>5, <2>6 DEF LoadKept
  <2> QED
    BY <1>1, <1>2, <2>7, KeepLoading
<1> QED
  BY <1>3, <1>4

\* load() is over: what still comes is cancelled, and released.
LEMMA HandleEnded ==
  ASSUME FInv, NEW op, NEW res, Handles(op, res), Pooled(op), op.task = Loader, Ended, inbound' = inbound,
         active /\ res < 0 => got'[Loader] = got[Loader] \ {op.buf}
  PROVE  Loading'
<1>1. /\ UNCHANGED <<load, req, closing>> /\ Outstanding' = Outstanding \ {op}
      /\ (Cut(Loader) => Cut(Loader)') /\ (Cut(Loader) => res = Canceled)
  BY DEF Handles, loadVars, taskVars
<1>2. inbound = <<>> /\ Loading /\ Loader \in Task
  BY FileAssumption DEF FInv, Streams, Ended
<1>3. (Served(Loader)' <=> Served(Loader)) /\ (Ended' <=> Ended)
  BY <1>1, <1>2 DEF Pooled, Ended
<1>4. ASSUME ~closing', Served(Loader)', Ended' => ~Overread' PROVE Held'
  <2>1. ~closing /\ Served(Loader) /\ ~Overread
    BY <1>1, <1>3, <1>4, HandleBytes
  <2>2. Cut(Loader) /\ Held
    BY <1>2, <2>1 DEF Loading, Released
  <2>3. active /\ res < 0
    BY <1>1, <2>1, <2>2 DEF FInv, Closing, Canceled
  <2>4. got'[Loader] = got[Loader] \ {op.buf}
    BY <2>3
  <2>5. ASSUME NEW b \in got'[Loader] PROVE \E o \in Outstanding' : o.task = Loader /\ o.buf = b
    <3>1. b \in got[Loader] /\ b # op.buf
      BY <2>4, <2>5
    <3>2. Len(inbound) = 0
      BY <1>2
    <3>3. PICK o \in Outstanding : o.task = Loader /\ o.buf = b
      BY <2>2, <3>1, <3>2 DEF Held
    <3> QED
      BY <1>1, <3>1, <3>3
  <2> QED
    BY <2>5 DEF Held
<1>5. Released'
  BY <1>1, <1>2, <1>3, <1>4, HandleBytes DEF Loading, Released
<1> QED
  BY <1>1, <1>5, HandleBytes DEF Loading, Reading, Ended

\* The file is closed: the events of load() stay as they are.
LEMMA HandleClosed ==
  ASSUME FInv, NEW op, NEW res, Handles(op, res), Pooled(op), load = "reading", ~active, inbound' = inbound
  PROVE  Loading'
<1>1. /\ UNCHANGED <<load, loaded, blocksCount, counter, next, req, size, start, closing>>
      /\ \A o : o \in Outstanding' => o \in Outstanding
      /\ (Cut(Loader) => Cut(Loader)') /\ ~active'
  BY DEF Handles, loadVars, taskVars
<1>2. Loading /\ closing /\ Loader \in Task
  BY FileAssumption DEF FInv, Closing
<1>3. (B!Waiting(Loader)' <=> B!Waiting(Loader))
  BY <1>2 DEF Pooled
<1>4. Round /\ Collected /\ Cancellations
  BY <1>2 DEF Loading, Reading
<1>5. Round'
  BY <1>1, <1>3, <1>4 DEF Round
<1>6. Collected'
  BY <1>1, <1>4, HandleBytes DEF Collected, Whole
<1>7. Cancellations'
  <2>1. ShortInbound' <=> ShortInbound
    BY HandleBytes DEF ShortInbound
  <2> QED
    BY <1>1, <1>4, <2>1, HandleBytes DEF Cancellations
<1>8. Released'
  BY <1>1, <1>2 DEF Released
<1> QED
  BY <1>5, <1>6, <1>7, <1>8, HandleBytes DEF Loading, Reading

\* The next event of a round.
Extends(op, res) ==
  /\ op.task = Loader /\ load = "reading" /\ active
  /\ inbound' = Append(inbound, [op |-> op, res |-> res])

LEMMA HandleRound ==
  ASSUME FInv, NEW op, NEW res, Handles(op, res), Pooled(op), Extends(op, res)
  PROVE  /\ Len(inbound) \in Nat /\ Len(inbound') = Len(inbound) + 1
         /\ inbound'[Len(inbound) + 1].op = op /\ inbound'[Len(inbound) + 1].res = res
         /\ \A i \in 1..Len(inbound) : i \in 1..Len(inbound') /\ inbound'[i] = inbound[i]
         /\ \A i \in 1..Len(inbound') : i \in 1..Len(inbound) \/ i = Len(inbound) + 1
         /\ Len(inbound) + 1 \in 1..Len(inbound')
         /\ Round'
<1>1. PICK e : e = [op |-> op, res |-> res]
  OBVIOUS
<1>2. e.op = op /\ e.res = res /\ inbound' = Append(inbound, e)
  BY <1>1 DEF Extends
<1>3. Sequence(inbound)
  BY DEF FInv, BaseInv, Events, Sequence
<1>4. /\ Len(inbound) \in Nat /\ Len(inbound') = Len(inbound) + 1
      /\ inbound'[Len(inbound) + 1] = e
      /\ \A i \in 1..Len(inbound) : inbound'[i] = inbound[i]
      /\ \A i \in 1..(Len(inbound) + 1) : i \in 1..Len(inbound) \/ i = Len(inbound) + 1
  BY <1>2, <1>3, AppendSequence
<1>5. /\ op \in Outstanding /\ Outstanding' = Outstanding \ {op} /\ OperationOK(op) /\ op.task = Loader
      /\ UNCHANGED <<loaded, blocksCount, counter, next, req>> /\ (active' => active)
      /\ \A o \in Outstanding' : o.task = Loader => op.nth < o.nth
  BY DEF Handles, loadVars, taskVars, Extends
<1>6. Round /\ active /\ Loader \in Task
  BY FileAssumption DEF FInv, Loading, Reading, Extends
<1>7. /\ ~B!Waiting(Loader) /\ ~B!Waiting(Loader)'
      /\ req[Loader] \in RequestType /\ op.nth \in 1..req[Loader].count
  BY <1>5, <1>6 DEF OperationOK, Served, Pooled, FInv, BaseInv
<1>8. next = 0 /\ req[Loader] # None /\ req[Loader].count = blocksCount
  BY <1>5, <1>6 DEF Round
<1>9. blocksCount \in Nat /\ counter \in Nat /\ counter < blocksCount
  BY <1>6, PoolAssumption DEF FInv, Streams, Round
<1>10. PICK k : k = counter + Len(inbound) + 1
  OBVIOUS
<1>11. k \in Nat /\ k = counter + Len(inbound') /\ op.nth \in 1..blocksCount
  BY <1>4, <1>7, <1>8, <1>9, <1>10
<1>12. op.nth >= k
  <2>1. op.nth > counter + Len(inbound)
    BY <1>5, <1>6 DEF Round
  <2> QED
    BY <1>4, <1>9, <1>10, <1>11, <2>1
<1>13. op.nth = k
  <2>1. k \in k..blocksCount
    BY <1>11, <1>12, <1>9
  <2>2. PICK o \in Outstanding : o.task = Loader /\ o.nth = k
    BY <1>6, <1>7, <1>8, <1>10, <2>1 DEF Round
  <2>3. CASE o = op
    BY <2>2, <2>3
  <2>4. CASE o # op
    BY <1>5, <1>11, <1>12, <2>2, <2>4
  <2> QED
    BY <2>3, <2>4
<1>14. ASSUME NEW i \in 1..Len(inbound') PROVE inbound'[i].op.nth = counter + i
  <2>1. CASE i \in 1..Len(inbound)
    BY <1>4, <1>6, <2>1 DEF Round
  <2>2. CASE i = Len(inbound) + 1
    BY <1>2, <1>4, <1>9, <1>10, <1>13, <2>2
  <2> QED
    BY <1>4, <2>1, <2>2
<1>15. \A o \in Outstanding' : o.task = Loader => o.nth > counter + Len(inbound')
  BY <1>5, <1>11, <1>13
<1>16. ASSUME active', NEW n \in (counter + Len(inbound') + 1)..blocksCount
       PROVE  \E o \in Outstanding' : o.task = Loader /\ o.nth = n
  <2>1. n \in k..blocksCount /\ n # k
    BY <1>9, <1>11
  <2>2. PICK o \in Outstanding : o.task = Loader /\ o.nth = n
    BY <1>6, <1>7, <1>8, <1>10, <2>1 DEF Round
  <2> QED
    BY <1>5, <1>13, <2>1, <2>2
<1>17. counter + Len(inbound') <= blocksCount
  BY <1>9, <1>11, <1>13
<1>18. Round'
  BY <1>5, <1>7, <1>8, <1>9, <1>14, <1>15, <1>16, <1>17 DEF Round
<1> QED
  BY <1>2, <1>4, <1>18

LEMMA HandleCancellations ==
  ASSUME FInv, NEW op, NEW res, Handles(op, res), Pooled(op), Extends(op, res)
  PROVE  Cancellations'
<1> DEFINE z == Len(inbound) + 1
<1>1. /\ op.task = Loader /\ cq[1].op = op /\ cq[1].res = res /\ 1 \in 1..Len(cq) /\ Shifted(1)
      /\ (Cut(Loader) => res = Canceled) /\ (Cut(Loader) => Cut(Loader)')
      /\ (res # Block => Cut(Loader)') /\ (active' => active) /\ active
      /\ UNCHANGED <<severed, inflight>>
  BY DEF Handles, Extends
<1>2. Cancellations
  BY DEF FInv, Loading, Reading, Extends
<1>3. /\ Len(inbound) \in Nat /\ Len(inbound') = z /\ z \in 1..Len(inbound')
      /\ inbound'[z].op = op /\ inbound'[z].res = res
      /\ \A i \in 1..Len(inbound) : i \in 1..Len(inbound') /\ inbound'[i] = inbound[i]
      /\ \A i \in 1..Len(inbound') : i \in 1..Len(inbound) \/ i = z
  BY HandleRound
<1>4. \A i \in 1..Len(inbound) : i < z
  BY <1>3
<1> HIDE DEF z
<1>5. ShortInbound => ShortInbound'
  BY <1>3 DEF ShortInbound, Short
<1>6. res # Block => ShortInbound'
  BY <1>3 DEF ShortInbound, Short
<1>7. ShortInbound' => Cut(Loader)'
  <2>1. CASE ShortInbound
    BY <1>1, <1>2, <2>1 DEF Cancellations
  <2>2. CASE ShortInbound' /\ ~ShortInbound
    <3>1. PICK i \in 1..Len(inbound') : inbound'[i].res # Block
      BY <2>2 DEF ShortInbound, Short
    <3>2. i = z
      BY <1>3, <2>2, <3>1 DEF ShortInbound, Short
    <3> QED
      BY <1>1, <1>3, <3>1, <3>2
  <2> QED
    BY <2>1, <2>2
<1>8. ASSUME NEW i \in 1..Len(inbound'), NEW j \in 1..Len(inbound'), i < j, inbound'[i].res # Block
      PROVE  inbound'[j].res = Canceled
  <2>1. i \in 1..Len(inbound)
    BY <1>3, <1>8
  <2>2. inbound[i].res # Block
    BY <1>3, <1>8, <2>1
  <2>3. CASE j \in 1..Len(inbound)
    BY <1>2, <1>3, <1>8, <2>1, <2>2, <2>3 DEF Cancellations, Short
  <2>4. CASE j = z
    <3>1. ShortInbound
      BY <2>1, <2>2 DEF ShortInbound, Short
    <3> QED
      BY <1>1, <1>2, <1>3, <2>4, <3>1 DEF Cancellations
  <2> QED
    BY <1>3, <2>3, <2>4
<1>9. res = Canceled => AtEnd \/ ShortInbound
  <2>1. res = Canceled => AtEnd \/ ShortInbound \/ ShortBefore(1)
    BY <1>1, <1>2 DEF Cancellations
  <2>2. ~ShortBefore(1)
    BY DEF ShortBefore
  <2> QED
    BY <2>1, <2>2
<1>10. ASSUME NEW i \in 1..Len(inbound'), inbound'[i].res = Canceled
       PROVE  AtEnd \/ \E j \in 1..Len(inbound') : j < i /\ inbound'[j].res # Block
  <2>1. CASE i \in 1..Len(inbound)
    <3>1. AtEnd \/ \E j \in 1..Len(inbound) : j < i /\ inbound[j].res # Block
      BY <1>2, <1>3, <1>10, <2>1 DEF Cancellations, Short
    <3> QED
      BY <1>3, <3>1
  <2>2. CASE i = z
    <3>1. AtEnd \/ \E j \in 1..Len(inbound) : inbound[j].res # Block
      BY <1>3, <1>9, <1>10, <2>2 DEF ShortInbound, Short
    <3> QED
      BY <1>3, <1>4, <2>2, <3>1
  <2> QED
    BY <1>3, <2>1, <2>2
<1>11. ASSUME NEW i \in 1..(Len(cq') + 1), NEW n, n = i + 1, ShortBefore(n)
       PROVE  ShortInbound' \/ ShortBefore(i)'
  <2>1. PICK j \in 1..Len(cq) : j < n /\ cq[j].op.task = Loader /\ cq[j].res # Block
    BY <1>11 DEF ShortBefore, Short
  <2>2. CASE j = 1
    BY <1>1, <1>6, <2>1, <2>2
  <2>3. CASE j # 1
    <3>1. PICK m : m = j - 1
      OBVIOUS
    <3>2. m \in 1..Len(cq') /\ m < i /\ cq'[m] = cq[j]
      BY <1>1, <1>11, <2>1, <2>3, <3>1 DEF Shifted
    <3> QED
      BY <2>1, <3>2 DEF ShortBefore, Short
  <2> QED
    BY <2>2, <2>3
<1>12. ASSUME active', NEW i \in 1..Len(cq'), cq'[i].op.task = Loader, cq'[i].res = Canceled
       PROVE  AtEnd \/ ShortInbound' \/ ShortBefore(i)'
  <2>1. PICK n : n = i + 1
    OBVIOUS
  <2>2. n \in 1..Len(cq) /\ cq'[i] = cq[n] /\ i \in 1..(Len(cq') + 1)
    BY <1>1, <2>1 DEF Shifted
  <2>3. AtEnd \/ ShortInbound \/ ShortBefore(n)
    BY <1>1, <1>2, <1>12, <2>2 DEF Cancellations
  <2> QED
    BY <1>5, <1>11, <2>1, <2>2, <2>3
<1>13. ASSUME active', NEW p \in inflight', p.task = Loader, Loader \in severed'
       PROVE  AtEnd \/ ShortInbound' \/ ShortBefore(Len(cq) + 1)'
  <2>1. PICK n : n = Len(cq) + 1
    OBVIOUS
  <2>2. PICK i : i = Len(cq') + 1
    OBVIOUS
  <2>3. n = i + 1 /\ i \in 1..(Len(cq') + 1)
    BY <1>1, <2>1, <2>2 DEF Shifted
  <2>4. AtEnd \/ ShortInbound \/ ShortBefore(n)
    BY <1>1, <1>2, <1>13, <2>1 DEF Cancellations
  <2>5. ShortInbound' \/ AtEnd \/ ShortBefore(i)'
    BY <1>5, <1>11, <2>3, <2>4
  <2> QED
    BY <2>2, <2>5 DEF ShortBefore
<1>14. (AtEnd' <=> AtEnd) /\ \A e : (Short(e)' <=> Short(e))
  BY HandleBytes
<1> QED
  BY <1>7, <1>8, <1>10, <1>12, <1>13, <1>14 DEF Cancellations, Short

LEMMA HandleReading ==
  ASSUME FInv, NEW op, NEW res, Handles(op, res), Pooled(op), Extends(op, res),
         res < 0 => got'[Loader] = got[Loader] \ {op.buf}
  PROVE  Loading'
<1>1. /\ UNCHANGED <<load, loaded, blocksCount, counter, next, req, size, start, closing>>
      /\ op \in Outstanding /\ Outstanding' = Outstanding \ {op} /\ op.task = Loader
      /\ cq[1].op = op /\ cq[1].res = res /\ 1 \in 1..Len(cq)
      /\ res \in Nat \cup {Failed, Canceled}
  BY DEF Handles, loadVars, taskVars, Extends
<1>2. Loading /\ load = "reading" /\ Loader \in Task
  BY FileAssumption DEF FInv, Extends
<1>3. Collected /\ Answered
  BY <1>2 DEF Loading, Reading
<1>4. /\ Len(inbound) \in Nat /\ Len(inbound') = Len(inbound) + 1 /\ Len(inbound) + 1 \in 1..Len(inbound')
      /\ inbound'[Len(inbound) + 1].op = op /\ inbound'[Len(inbound) + 1].res = res
      /\ \A i \in 1..Len(inbound) : i \in 1..Len(inbound') /\ inbound'[i] = inbound[i]
      /\ \A i \in 1..Len(inbound') : i \in 1..Len(inbound) \/ i = Len(inbound) + 1
  BY HandleRound
<1>5. Placed(op) /\ res \in {Failed, Canceled, BytesAt(op.pos)}
  BY <1>1, <1>3 DEF Collected, Answered, Brings
<1>6. ASSUME NEW i \in 1..Len(inbound'), NEW e, e = inbound'[i] PROVE Placed(e.op) /\ Brings(e)
  <2>1. CASE i \in 1..Len(inbound)
    BY <1>3, <1>4, <1>6, <2>1 DEF Collected
  <2>2. CASE i = Len(inbound) + 1
    BY <1>4, <1>5, <1>6, <2>2 DEF Brings
  <2> QED
    BY <1>4, <2>1, <2>2
<1>7. Collected'
  <2>1. \A i \in 1..Len(inbound') : Placed(inbound[i].op)' /\ Brings(inbound[i])'
    <3> SUFFICES ASSUME NEW i \in 1..Len(inbound') PROVE Placed(inbound[i].op)' /\ Brings(inbound[i])'
      OBVIOUS
    <3>1. PICK e : e = inbound'[i]
      OBVIOUS
    <3>2. PICK o : o = e.op
      OBVIOUS
    <3>3. Placed(o)' /\ Brings(e)'
      BY <1>6, <3>1, <3>2, HandleBytes
    <3> QED
      BY <3>1, <3>2, <3>3 DEF Placed, Brings, BytesAt
  <2>2. \A o \in Outstanding' : o.task = Loader => Placed(o)'
    BY <1>1, <1>3, HandleBytes DEF Collected
  <2> QED
    BY <1>1, <1>3, <2>1, <2>2, HandleBytes DEF Collected, Whole
<1>8. Served(Loader)' <=> Served(Loader)
  BY <1>2 DEF Pooled
<1>9. ASSUME ~closing', Served(Loader)' PROVE Held'
  <2>1. Held
    BY <1>1, <1>2, <1>8, <1>9 DEF Loading, Released, Ended
  <2>2. ASSUME NEW b \in got'[Loader]
        PROVE  \/ \E o \in Outstanding' : o.task = Loader /\ o.buf = b
               \/ \E i \in 1..Len(inbound') : inbound'[i].res >= 0 /\ inbound'[i].op.buf = b
    <3>1. b \in got[Loader]
      BY <1>2 DEF Pooled
    <3>2. CASE \E i \in 1..Len(inbound) : Pays(inbound[i]) /\ inbound[i].op.buf = b
      BY <1>4, <3>2 DEF Pays
    <3>3. CASE \E o \in Outstanding : o.task = Loader /\ o.buf = b
      <4>1. PICK o \in Outstanding : o.task = Loader /\ o.buf = b
        BY <3>3
      <4>2. CASE o # op
        BY <1>1, <4>1, <4>2
      <4>3. CASE o = op
        <5>1. ~(res < 0)
          BY <2>2, <4>1, <4>3
        <5>2. res >= 0
          BY <1>1, <5>1 DEF Failed, Canceled
        <5> QED
          BY <1>4, <4>1, <4>3, <5>2
      <4> QED
        BY <4>2, <4>3
    <3> QED
      BY <2>1, <3>1, <3>2, <3>3 DEF Held
  <2> QED
    BY <2>2 DEF Held, Pays
<1>10. Released'
  BY <1>1, <1>2, <1>9 DEF Released, Ended
<1> QED
  BY <1>7, <1>10, HandleRound, HandleCancellations, HandleBytes DEF Loading, Reading

LEMMA HandleLoading ==
  ASSUME FInv, NEW op, NEW res, Handles(op, res), Pooled(op),
         active /\ op.event = "read" => IF listener = "cancelled" THEN inbound' = inbound
                                        ELSE inbound' = Append(inbound, [op |-> op, res |-> res]),
         ~active => inbound' = inbound,
         op.event = "write" => inbound' = inbound,
         op.event = "read" /\ res < 0 => got'[op.task] = got[op.task] \ {op.buf}
  PROVE  Loading'
<1>1. OperationOK(op)
  BY DEF Handles
<1>2. op.event \in {"read", "write"} /\ (op.task = Loader => op.event = "read" /\ req[Loader] # None)
  <2>1. op.task \in Task /\ req[op.task] \in RequestType /\ op.event = req[op.task].kind /\ req[op.task] # None
    BY <1>1 DEF OperationOK, Served, FInv, BaseInv
  <2>2. req[Loader] # None => req[Loader].kind = "read"
    BY DEF FInv, BaseInv, Requests
  <2> QED
    BY <2>1, <2>2 DEF RequestType
<1>3. CASE op.task # Loader
  BY <1>2, <1>3, HandleApplication
<1>4. CASE op.task = Loader /\ Ended
  <2>1. listener = "cancelled"
    BY <1>4 DEF FInv, Streams, Ended
  <2> QED
    BY <1>2, <1>4, <2>1, HandleEnded DEF FInv, Closing
<1>5. CASE op.task = Loader /\ load = "reading"
  <2>1. listener = "load"
    BY <1>5 DEF FInv, Streams
  <2>2. CASE active
    BY <1>2, <1>5, <2>1, <2>2, HandleReading DEF Extends
  <2>3. CASE ~active
    BY <1>5, <2>3, HandleClosed
  <2> QED
    BY <2>2, <2>3
<1>6. ~(op.task = Loader /\ load = "none")
  BY <1>2 DEF FInv, Streams
<1>7. load \in {"none", "reading", "complete", "failed"}
  BY DEF FInv, Streams
<1> QED
  BY <1>3, <1>4, <1>5, <1>6, <1>7 DEF Ended

LEMMA HandleFInv ==
  ASSUME FInv, HandleCqe
  PROVE  FInv' /\ [B!Next]_bufferVars
<1>1. PICK op, res : Handles(op, res) /\ Notifies(op, res)
  BY HandleFacts
<1>2. OperationOK(op) /\ res \in Nat \cup {Failed, Canceled} /\ listener' = listener
  BY <1>1 DEF Handles
<1>3. op.event \in {"read", "write"} /\ active \in BOOLEAN
  BY <1>2 DEF OperationOK, Served, FInv, BaseInv, RequestType, Closing
<1>4. (res < 0 \/ res >= 0) /\ ~(res < 0 /\ res >= 0)
  BY <1>2 DEF Failed, Canceled
<1> DEFINE released == B!Release(op.task, op.buf)
           added == IF listener = "cancelled" THEN inbound' = inbound
                    ELSE inbound' = Append(inbound, [op |-> op, res |-> res])
<1>5. \/ active /\ op.event = "read" /\ res >= 0 /\ UNCHANGED bufferVars /\ added /\ UNCHANGED writeVars
      \/ active /\ op.event = "read" /\ res < 0 /\ released /\ added /\ UNCHANGED writeVars
      \/ active /\ op.event = "write" /\ released /\ inbound' = inbound /\ Report(op.task, req[op.task].count, res)
      \/ ~active /\ released /\ inbound' = inbound /\ UNCHANGED writeVars
  BY <1>1, <1>3, <1>4 DEF Notifies, NotifyActive, Add
<1> HIDE DEF released, added
<1>6. UNCHANGED bufferVars \/ released
  BY <1>5
<1>7. Pooled(op) /\ (released => /\ got'[op.task] = got[op.task] \ {op.buf}
                                 /\ want'[op.task] = want[op.task] - 1 /\ want[op.task] \in 1..MaxWant)
  BY <1>1, <1>6, HandlePool DEF released
<1>8. added => \/ inbound' = inbound
               \/ inbound' = Append(inbound, [op |-> op, res |-> res]) /\ listener # "cancelled"
  BY DEF added
<1>9. Added(op, res) /\ (inbound' # inbound => active /\ op.event = "read" /\ listener # "cancelled")
  BY <1>5, <1>8 DEF Added
<1>10. BaseInv'
  <2>1. IF op.event = "read" /\ res >= 0 /\ inbound' # inbound THEN UNCHANGED bufferVars
        ELSE UNCHANGED bufferVars \/ B!Release(op.task, op.buf)
    BY <1>4, <1>5, <1>6, <1>9 DEF released
  <2> QED
    BY <1>1, <1>9, <2>1, HandleBase
<1>11. Written'
  <2>1. CASE active /\ op.event = "write"
    BY <1>1, <1>3, <1>5, <1>7, <2>1, HandleReport
  <2>2. CASE ~(active /\ op.event = "write")
    <3>1. UNCHANGED writeVars /\ (op.event = "write" => ~active /\ released)
      BY <1>3, <1>5, <2>2
    <3> QED
      BY <1>1, <1>7, <3>1, HandleWritten
  <2> QED
    BY <2>1, <2>2
<1>12. Streams'
  BY <1>1, <1>7, <1>9, HandleStreams
<1>13. Loading'
  <2>1. /\ active /\ op.event = "read" => added
        /\ ~active => inbound' = inbound
        /\ op.event = "write" => inbound' = inbound
        /\ op.event = "read" /\ res < 0 => got'[op.task] = got[op.task] \ {op.buf}
    BY <1>4, <1>5, <1>7
  <2> QED
    BY <1>1, <1>7, <2>1, HandleLoading DEF added
<1> QED
  BY <1>7, <1>10, <1>11, <1>12, <1>13, HandleFacts DEF FInv, Pooled

-----------------------------------------------------------------------------
LEMMA NextFInv ==
  ASSUME FInv, [Next]_vars
  PROVE  FInv' /\ [B!Next]_bufferVars
<1>1. ASSUME NEW t \in Task, NEW kind \in {"read", "write"}, NEW n \in 1..MaxWant, NEW single \in BOOLEAN,
             Request(t, kind, n, single)
      PROVE  FInv' /\ [B!Next]_bufferVars
  BY <1>1, RequestIssues, IssueFInv
<1>2. ASSUME NEW t \in Task, Resume(t) PROVE FInv' /\ [B!Next]_bufferVars
  BY <1>2, ResumeIssues, IssueFInv
<1>3. ASSUME NEW t \in Task, NEW b \in Buffer, ReleasePayload(t, b) PROVE FInv' /\ [B!Next]_bufferVars
  BY <1>3, ReleasePayloadFInv
<1>4. ASSUME NEW n \in 1..MaxWant, Load(n) PROVE FInv' /\ [B!Next]_bufferVars
  BY <1>4, LoadFInv
<1>5. ASSUME LoadRequest PROVE FInv' /\ [B!Next]_bufferVars
  BY <1>5, LoadRequestIssues, IssueFInv, FileAssumption
<1>6. ASSUME Deliver PROVE FInv' /\ [B!Next]_bufferVars
  BY <1>6, DeliverFInv
<1>7. ASSUME NEW op \in inflight, Complete(op) PROVE FInv' /\ [B!Next]_bufferVars
  BY <1>7, CompleteFInv
<1>8. ASSUME HandleCqe PROVE FInv' /\ [B!Next]_bufferVars
  BY <1>8, HandleFInv
<1>9. ASSUME \/ GracefulTimeout \/ ResumeClose \/ EndClose \/ Peek \/ UNCHANGED vars
             \/ \E graceful \in BOOLEAN : Close(graceful)
      PROVE  FInv' /\ [B!Next]_bufferVars
  BY <1>9, LoopFInv
<1> QED
  BY <1>1, <1>2, <1>3, <1>4, <1>5, <1>6, <1>7, <1>8, <1>9 DEF Next

LEMMA FileInvariance == Spec => [](FInv) /\ B!Init /\ [][B!Next]_bufferVars
<1>1. Init => FInv /\ B!Init
  BY InitFInv DEF Init
<1>2. FInv /\ [Next]_vars => FInv' /\ [B!Next]_bufferVars
  BY NextFInv
<1> QED
  BY <1>1, <1>2, PTL DEF Spec

\* The variables keep their types.
THEOREM FileTypeCorrect == Spec => []TypeOK
<1>1. FInv => TypeOK
  <2> SUFFICES ASSUME FInv PROVE TypeOK
    OBVIOUS
  <2>1. B!TypeOK
    <3>1. BP!TypeOK
      BY DEF FInv, BaseInv, BP!PInv, BP!RInv, BP!IInv
    <3> QED
      BY <3>1 DEF B!TypeOK, BP!TypeOK, B!Buffer, BP!Buffer
  <2>2. RingTypeOK
    BY DEF FInv, BaseInv, RingInv, RingTypeOK
  <2>3. pending \in Nat
    BY OutstandingFinite, FS_CardinalityType DEF FInv, BaseInv, PendingExact
  <2>4. reports \in [Task -> Seq({"done", "error"})]
    <3>1. {<<>>, <<"done">>, <<"error">>} \subseteq Seq({"done", "error"})
      OBVIOUS
    <3> QED
      BY <3>1 DEF FInv, Written
  <2>5. listener \in {"application", "load", "cancelled"}
    BY DEF FInv, Streams
  <2> QED
    BY <2>1, <2>2, <2>3, <2>4, <2>5
    DEF FInv, BaseInv, Payloads, Written, Chains, Streams, Loading, Bytes, Closing, TypeOK
<1> QED
  BY <1>1, FileInvariance, PTL

\* Under the rounds of load() and the requests of one and of several buffers, a
\* buffer is free once or held by one of them, and none waits in
\* TransportBuffers.allocate beside a free buffer.
THEOREM BuffersOwned == Spec => [](B!BufferOwnership /\ B!NoLostWakeup)
<1>1. FInv => B!BufferOwnership /\ B!NoLostWakeup
  <2> SUFFICES ASSUME FInv PROVE B!BufferOwnership /\ B!NoLostWakeup
    OBVIOUS
  <2>1. BP!BufferOwnership /\ BP!NoLostWakeup
    BY DEF FInv, BaseInv, BP!PInv, BP!RInv, BP!IInv
  <2> QED
    BY <2>1
    DEF BP!BufferOwnership, B!BufferOwnership, BP!Injective, B!Injective, BP!InSeq, B!InSeq,
        BP!Buffer, B!Buffer, BP!NoLostWakeup, B!NoLostWakeup
<1> QED
  BY <1>1, FileInvariance, PTL

LEMMA FInvReports == FInv => WritesReportedOnce
<1> SUFFICES ASSUME FInv, NEW t \in Task, req[t] # None, req[t].kind = "write", ~B!Waiting(t)
             PROVE  /\ Len(reports[t]) <= 1
                    /\ Reporting /\ (\A op \in Outstanding : op.task # t) => Len(reports[t]) = 1
                    /\ reports[t] = <<"done">> => doneCounter[t] = req[t].count /\ errorCounter[t] = 0
  BY DEF WritesReportedOnce, Reporting
<1>1. Refused(t) \/ Counted(t)
  BY DEF FInv, Written, Told, Served
<1>2. Len(<<>>) = 0 /\ Len(<<"done">>) = 1 /\ Len(<<"error">>) = 1
      /\ <<>> # <<"done">> /\ <<"error">> # <<"done">>
  OBVIOUS
<1>3. CASE Refused(t)
  BY <1>2, <1>3 DEF Refused
<1>4. CASE Counted(t)
  <2>1. /\ doneCounter[t] \in Nat /\ errorCounter[t] \in Nat
        /\ req[t].count \in Nat /\ want[t] \in Nat
    <3>1. req[t] \in RequestType /\ want \in [Task -> 0..MaxWant]
      BY PoolFacts DEF FInv, BaseInv
    <3> QED
      BY <3>1, PoolAssumption DEF FInv, Written, RequestType
  <2>2. ASSUME Reporting, \A op \in Outstanding : op.task # t PROVE ~(doneCounter[t] + errorCounter[t] < req[t].count)
    <3>1. got[t] = {}
      BY <1>4, <2>2 DEF Counted
    <3>2. want[t] = 0
      BY <3>1, PoolFacts, FS_EmptySet DEF FInv, BaseInv
    <3> QED
      BY <1>4, <2>1, <2>2, <3>2 DEF Counted
  <2>3. reports[t] = IF doneCounter[t] + errorCounter[t] < req[t].count THEN <<>>
                     ELSE IF errorCounter[t] = 0 THEN <<"done">> ELSE <<"error">>
    BY <1>4 DEF Counted
  <2>4. doneCounter[t] + errorCounter[t] <= req[t].count - want[t]
    BY <1>4 DEF Counted
  <2> QED
    BY <1>2, <2>1, <2>2, <2>3, <2>4
<1> QED
  BY <1>1, <1>3, <1>4

\* The callbacks of writeMany: for every number of blocks, in whatever order
\* the requests of others are handled, and whatever part of them fails.
THEOREM WritesAreReportedOnce == Spec => []WritesReportedOnce
BY FileInvariance, FInvReports, PTL

LEMMA FInvContent == FInv => LoadReturnsContent
<1> SUFFICES ASSUME FInv, load = "complete"
             PROVE  loaded = [i \in 1..(IF start < size THEN size - start ELSE 0) |-> start + i - 1]
  BY DEF LoadReturnsContent
<1>1. loaded = Content(Len(loaded)) /\ Len(loaded) = Total
  BY DEF FInv, Loading, Bytes, AtEnd
<1>2. loaded = Content(Total)
  BY <1>1, Zenon
<1> QED
  BY <1>2 DEF Content, Total

\* load() that completes has the bytes of the file from its offset, each once
\* and in their order, for every size of the file and of a block and every
\* number of blocks a round asks for; what it takes for the end of the file, a
\* cancellation, never reaches it before that end.
THEOREM LoadReturnsFile == Spec => []LoadReturnsContent
BY FileInvariance, FInvContent, PTL

LEMMA FInvFrees == FInv => LoadReleasesBuffers
<1> SUFFICES ASSUME FInv, Rest, load \in {"complete", "failed"}, ~closing, ~Overread PROVE got[Loader] = {}
  BY DEF LoadReleasesBuffers
<1>1. ~B!Waiting(Loader) /\ Loader \in Task
  BY FileAssumption DEF FInv, Streams
<1>2. CASE req[Loader] = None
  <2>1. want[Loader] = 0
    <3>1. want[Loader] \in 0..MaxWant /\ ~(want[Loader] > 0)
      BY <1>1, <1>2, PoolFacts DEF FInv, BaseInv, Requests
    <3> QED
      BY <3>1, PoolAssumption
  <2> QED
    BY <1>1, <2>1, PoolFacts DEF FInv, BaseInv
<1>3. CASE req[Loader] # None
  <2>1. Held
    BY <1>1, <1>3 DEF FInv, Loading, Released, Served
  <2>2. Len(inbound) = 0 /\ Outstanding = {}
    BY DEF Rest
  <2>3. \A i \in 1..Len(inbound) : FALSE
    BY <2>2
  <2> QED
    BY <2>1, <2>2, <2>3 DEF Held
<1> QED
  BY <1>2, <1>3

\* After load() its buffers are free, whatever its rounds were, unless its
\* first round asks for more than a file of whole blocks has.
THEOREM LoadFreesBuffers == Spec => []LoadReleasesBuffers
BY FileInvariance, FInvFrees, PTL
=============================================================================
