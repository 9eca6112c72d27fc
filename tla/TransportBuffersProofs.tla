----------------------- MODULE TransportBuffersProofs -----------------------
(***************************************************************************)
(* For any number of tasks and buffers: the types, the ownership of the    *)
(* buffers, the absence of lost wakeups, the bookkeeping of the waiting    *)
(* requests, and that TransportBuffers implements BufferAllocator.         *)
(***************************************************************************)
EXTENDS TransportBuffers, FiniteSetTheorems, SequenceTheorems, TLAPS

\* A task never holds more than it asked for, which keeps the loop of
\* allocateArray from popping a negative number of buffers.
GotWithinWant == \A t \in Task : Cardinality(got[t]) <= want[t]

\* The inductive invariant.
IInv == TypeOK /\ BufferOwnership /\ NoLostWakeup /\ GotWithinWant

-----------------------------------------------------------------------------
LEMMA BufferFinite ==
  ASSUME NEW S, S \subseteq Buffer
  PROVE  IsFiniteSet(S) /\ Cardinality(S) \in Nat
<1>1. IsFiniteSet(Buffer)
  BY BuffersCountAssumption, FS_Interval DEF Buffer
<1>2. IsFiniteSet(S)
  BY <1>1, FS_Subset
<1> QED
  BY <1>2, FS_CardinalityType

\* The k topmost elements of the stack are k different buffers.
LEMMA TopCount ==
  ASSUME ids \in Seq(Buffer), Injective(ids), NEW k \in 0..Len(ids)
  PROVE  /\ Top(k) \subseteq Buffer
         /\ Cardinality(Top(k)) = k
         /\ \A b \in Top(k) : InSeq(b, ids)
<1> DEFINE I == (Len(ids) - k + 1)..Len(ids)
           f == [i \in I |-> ids[i]]
<1>1. Len(ids) \in Nat
  OBVIOUS
<1>2. I \subseteq 1..Len(ids)
  BY <1>1
<1>3. Top(k) \subseteq Buffer /\ \A b \in Top(k) : InSeq(b, ids)
  BY <1>2 DEF Top, InSeq
<1>4. IsFiniteSet(I) /\ Cardinality(I) = k
  BY <1>1, FS_Interval
<1>5. f \in Surjection(I, Top(k))
  BY DEF Surjection, Top
<1>6. f \in Injection(I, Top(k))
  BY <1>2, <1>5 DEF Injection, Surjection, Injective, Top, IsInjective
<1>7. Cardinality(Top(k)) = Cardinality(I)
  BY <1>4, <1>5, <1>6, FS_Surjection
<1> QED
  BY <1>3, <1>4, <1>7

\* Giving a task that holds S the k topmost buffers.
LEMMA UnionCount ==
  ASSUME NEW S, NEW T, S \subseteq Buffer, T \subseteq Buffer, S \cap T = {}
  PROVE  Cardinality(S \cup T) = Cardinality(S) + Cardinality(T)
<1>1. IsFiniteSet(S) /\ IsFiniteSet(T)
  BY BufferFinite
<1>2. Cardinality(S \cup T) = Cardinality(S) + Cardinality(T) - Cardinality(S \cap T)
  BY <1>1, FS_Union
<1>3. Cardinality(S \cap T) = 0
  BY FS_EmptySet
<1> QED
  BY <1>1, <1>2, <1>3, FS_CardinalityType

LEMMA AvailableRange ==
  ASSUME ids \in Seq(Buffer), NEW n \in Nat
  PROVE  Available(n) \in 0..Len(ids) /\ Available(n) <= n
  BY DEF Available

\* Popping k elements leaves the rest of the stack as it was.
LEMMA PopRest ==
  ASSUME ids \in Seq(Buffer), Injective(ids), NEW k \in 0..Len(ids), Pop(k)
  PROVE  /\ ids' \in Seq(Buffer)
         /\ Injective(ids')
         /\ Len(ids') = Len(ids) - k
         /\ \A b \in Buffer : InSeq(b, ids') <=> InSeq(b, ids) /\ b \notin Top(k)
<1>1. /\ ids' \in Seq(Buffer)
      /\ Len(ids') = Len(ids) - k
      /\ \A i \in 1..Len(ids') : ids'[i] = ids[i]
  BY DEF Pop
<1>2. Injective(ids')
  BY <1>1 DEF Injective
<1>3. ASSUME NEW b \in Buffer
      PROVE  InSeq(b, ids') <=> InSeq(b, ids) /\ b \notin Top(k)
  <2>1. InSeq(b, ids') => InSeq(b, ids) /\ b \notin Top(k)
    BY <1>1 DEF InSeq, Top, Injective
  <2>2. InSeq(b, ids) /\ b \notin Top(k) => InSeq(b, ids')
    BY <1>1 DEF InSeq, Top
  <2> QED
    BY <2>1, <2>2
<1> QED
  BY <1>1, <1>2, <1>3

\* A released buffer that was not on the stack is its new top.
LEMMA PushRest ==
  ASSUME ids \in Seq(Buffer), Injective(ids), NEW b \in Buffer, ~InSeq(b, ids),
         ids' = Append(ids, b)
  PROVE  /\ ids' \in Seq(Buffer)
         /\ Injective(ids')
         /\ \A c \in Buffer : InSeq(c, ids') <=> InSeq(c, ids) \/ c = b
<1>1. /\ ids' \in Seq(Buffer)
      /\ Len(ids') = Len(ids) + 1
      /\ ids'[Len(ids')] = b
      /\ \A i \in 1..Len(ids) : ids'[i] = ids[i]
  OBVIOUS
<1>2. Injective(ids')
  BY <1>1 DEF Injective, InSeq
<1>3. ASSUME NEW c \in Buffer
      PROVE  InSeq(c, ids') <=> InSeq(c, ids) \/ c = b
  BY <1>1 DEF InSeq
<1> QED
  BY <1>1, <1>2, <1>3

-----------------------------------------------------------------------------
LEMMA InitIInv == Init => IInv
<1> SUFFICES ASSUME Init PROVE IInv
  OBVIOUS
<1> USE BuffersCountAssumption, BoundsAssumption
<1>1. /\ ids \in Seq(Buffer)
      /\ Len(ids) = BuffersCount
      /\ \A i \in 1..BuffersCount : ids[i] = i - 1
  BY DEF Init, InitialIds, Buffer
<1>2. TypeOK
  BY <1>1 DEF Init, TypeOK
<1>3. BufferOwnership
  <2>1. Injective(ids)
    BY <1>1 DEF Injective
  <2>2. ASSUME NEW b \in Buffer PROVE InSeq(b, ids)
    <3>1. b + 1 \in 1..Len(ids) /\ ids[b + 1] = b
      BY <1>1 DEF Buffer
    <3> QED
      BY <3>1 DEF InSeq
  <2> QED
    BY <2>1, <2>2 DEF Init, BufferOwnership
<1>4. NoLostWakeup
  BY DEF Init, NoLostWakeup
<1>5. GotWithinWant
  BY FS_EmptySet DEF Init, GotWithinWant
<1> QED
  BY <1>2, <1>3, <1>4, <1>5 DEF IInv

\* A sequence of completers of which there is at most one.
LEMMA SingleCompleter ==
  ASSUME finalizers \in Seq(Seq(Task)), Len(finalizers) <= 1, finalizers # <<>>
  PROVE  Len(finalizers) = 1 /\ finalizers[1] \in Seq(Task)
<1>1. \A s \in Seq(Seq(Task)) : s # <<>> => Len(s) \in Nat \ {0}
  BY EmptySeq
<1>2. Len(finalizers) \in Nat \ {0}
  BY <1>1, Zenon
<1>3. \A n \in Nat \ {0} : n <= 1 => n = 1
  OBVIOUS
<1>4. Len(finalizers) = 1
  BY <1>2, <1>3, Zenon
<1> QED
  BY <1>4, ElementOfSeq

\* Where Park puts a task.
LEMMA ParkType ==
  ASSUME finalizers \in Seq(Seq(Task)), NEW t \in Task, Park(t), Len(finalizers) <= 1
  PROVE  finalizers' \in Seq(Seq(Task)) /\ Len(finalizers') = 1
<1>1. CASE finalizers = <<>>
  BY <1>1 DEF Park
<1>2. CASE finalizers # <<>>
  <2>1. Len(finalizers) = 1 /\ finalizers[1] \in Seq(Task)
    BY <1>2, SingleCompleter
  <2>2. finalizers' = [finalizers EXCEPT ![1] = Append(finalizers[1], t)]
    BY <1>2, <2>1 DEF Park
  <2>3. Append(finalizers[1], t) \in Seq(Task)
    BY <2>1
  <2> QED
    BY <2>1, <2>2, <2>3, ExceptSeq
<1> QED
  BY <1>1, <1>2

LEMMA RequestIInv ==
  ASSUME IInv, NEW t \in Task, NEW n \in 1..MaxWant, Request(t, n)
  PROVE  IInv'
<1> USE BoundsAssumption
<1> DEFINE k == Available(n)
<1>1. k \in 0..Len(ids) /\ k <= n
  BY AvailableRange DEF IInv, TypeOK
<1>2. Top(k) \subseteq Buffer /\ Cardinality(Top(k)) = k /\ \A b \in Top(k) : InSeq(b, ids)
  BY <1>1, TopCount DEF IInv, TypeOK, BufferOwnership
<1>3. /\ ids' \in Seq(Buffer)
      /\ Injective(ids')
      /\ Len(ids') = Len(ids) - k
      /\ \A b \in Buffer : InSeq(b, ids') <=> InSeq(b, ids) /\ b \notin Top(k)
  BY <1>1, PopRest DEF IInv, TypeOK, BufferOwnership, Request
<1>4. got[t] = {}
  <2>1. Cardinality(got[t]) <= 0
    BY DEF IInv, GotWithinWant, Request
  <2>2. IsFiniteSet(got[t]) /\ Cardinality(got[t]) \in Nat
    BY BufferFinite DEF IInv, TypeOK
  <2> QED
    BY <2>1, <2>2, FS_EmptySet
<1>5. /\ got' = [got EXCEPT ![t] = Top(k)]
      /\ want' = [want EXCEPT ![t] = n]
      /\ calls' \in {calls, [calls EXCEPT ![t] = @ + 1]}
      /\ \/ k = n /\ ((n = 1 /\ ready' = ready) \/ ready' = Append(ready, t)) /\ finalizers' = finalizers
         \/ k < n /\ Park(t) /\ ready' = ready
  BY DEF Request, ReturnArray, Counted
<1>6. TypeOK'
  <2>1. ready' \in Seq(Task)
    <3>1. ready \in Seq(Task) /\ Append(ready, t) \in Seq(Task)
      BY DEF IInv, TypeOK
    <3> QED
      BY <1>5, <3>1
  <2>2. finalizers' \in Seq(Seq(Task))
    <3>1. finalizers \in Seq(Seq(Task)) /\ Len(finalizers) <= 1
      BY DEF IInv, TypeOK, NoLostWakeup
    <3> QED
      BY <1>5, <3>1, ParkType
  <2>3. /\ got' \in [Task -> SUBSET Buffer]
        /\ want' \in [Task -> 0..MaxWant]
    BY <1>2, <1>5 DEF IInv, TypeOK
  <2>4. calls' \in [Task -> Nat]
    <3>1. calls \in [Task -> Nat] /\ [calls EXCEPT ![t] = @ + 1] \in [Task -> Nat]
      BY DEF IInv, TypeOK
    <3> QED
      BY <1>5, <3>1
  <2> QED
    BY <1>3, <2>1, <2>2, <2>3, <2>4 DEF TypeOK
<1>7. BufferOwnership'
  BY <1>2, <1>3, <1>4, <1>5 DEF IInv, TypeOK, BufferOwnership
<1>8. NoLostWakeup'
  <2>1. CASE k = n
    BY <1>3, <1>5, <2>1 DEF IInv, TypeOK, NoLostWakeup
  <2>2. CASE k < n
    <3>1. k = Len(ids)
      BY <2>2 DEF Available, IInv, TypeOK
    <3>2. ids' = <<>>
      BY <1>3, <3>1 DEF IInv, TypeOK
    <3>3. Len(finalizers') = 1
      BY <1>1, <1>5, <2>2, ParkType DEF IInv, TypeOK, NoLostWakeup
    <3> QED
      BY <3>2, <3>3 DEF NoLostWakeup
  <2> QED
    BY <1>1, <2>1, <2>2 DEF IInv, TypeOK
<1>9. GotWithinWant'
  BY <1>1, <1>2, <1>5 DEF IInv, TypeOK, GotWithinWant
<1> QED
  BY <1>6, <1>7, <1>8, <1>9 DEF IInv

LEMMA ResumeIInv ==
  ASSUME IInv, NEW t \in Task, Resume(t)
  PROVE  IInv'
<1> USE BoundsAssumption
<1> DEFINE missing == want[t] - Cardinality(got[t])
           k == Available(missing)
<1>1. got[t] \subseteq Buffer /\ Cardinality(got[t]) \in Nat
  BY BufferFinite DEF IInv, TypeOK
<1>2. missing \in Nat
  BY <1>1 DEF IInv, TypeOK, GotWithinWant
<1>3. k \in 0..Len(ids) /\ k <= missing
  BY <1>2, AvailableRange DEF IInv, TypeOK
<1>4. Top(k) \subseteq Buffer /\ Cardinality(Top(k)) = k /\ \A b \in Top(k) : InSeq(b, ids)
  BY <1>3, TopCount DEF IInv, TypeOK, BufferOwnership
<1>5. Pop(k)
  BY DEF Resume
<1>6. /\ ids' \in Seq(Buffer)
      /\ Injective(ids')
      /\ Len(ids') = Len(ids) - k
      /\ \A b \in Buffer : InSeq(b, ids') <=> InSeq(b, ids) /\ b \notin Top(k)
  BY <1>3, <1>5, PopRest DEF IInv, TypeOK, BufferOwnership
<1>7. /\ got' = [got EXCEPT ![t] = @ \cup Top(k)]
      /\ want' = want /\ calls' = calls
      /\ ready # <<>> /\ ready' = Tail(ready)
      /\ \/ k = missing /\ finalizers' = finalizers
         \/ k < missing /\ Park(t)
  BY DEF Resume
<1>9. TypeOK'
  <2>1. ready' \in Seq(Task)
    BY <1>7 DEF IInv, TypeOK
  <2>2. finalizers' \in Seq(Seq(Task))
    BY <1>7, ParkType DEF IInv, TypeOK, NoLostWakeup
  <2>3. got' \in [Task -> SUBSET Buffer]
    BY <1>4, <1>7 DEF IInv, TypeOK
  <2> QED
    BY <1>6, <1>7, <2>1, <2>2, <2>3 DEF IInv, TypeOK
<1>10. BufferOwnership'
  BY <1>4, <1>6, <1>7 DEF IInv, TypeOK, BufferOwnership
<1>11. NoLostWakeup'
  <2>1. CASE k = missing
    BY <1>6, <1>7, <2>1, <1>3 DEF IInv, TypeOK, NoLostWakeup
  <2>2. CASE k < missing
    <3>1. k = Len(ids)
      BY <1>2, <2>2 DEF Available, IInv, TypeOK
    <3>2. ids' = <<>>
      BY <1>6, <3>1 DEF IInv, TypeOK
    <3>3. Len(finalizers') = 1
      BY <1>2, <1>3, <1>7, <2>2, ParkType DEF IInv, TypeOK, NoLostWakeup
    <3> QED
      BY <3>2, <3>3 DEF NoLostWakeup
  <2> QED
    BY <1>2, <1>3, <2>1, <2>2
<1>12. GotWithinWant'
  <2>1. got[t] \cap Top(k) = {}
    BY <1>4 DEF IInv, TypeOK, BufferOwnership
  <2>2. Cardinality(got[t] \cup Top(k)) = Cardinality(got[t]) + k
    BY <1>1, <1>4, <2>1, UnionCount
  <2>3. Cardinality(got'[t]) <= want'[t]
    BY <1>1, <1>2, <1>3, <1>7, <2>2 DEF IInv, TypeOK
  <2> QED
    BY <1>7, <2>3 DEF IInv, TypeOK, GotWithinWant
<1> QED
  BY <1>9, <1>10, <1>11, <1>12 DEF IInv

LEMMA ReleaseIInv ==
  ASSUME IInv, NEW t \in Task, NEW b \in Buffer, Release(t, b)
  PROVE  IInv'
<1> USE BoundsAssumption
<1>1. /\ b \in got[t] /\ want[t] > 0
      /\ got' = [got EXCEPT ![t] = @ \ {b}]
      /\ want' = [want EXCEPT ![t] = @ - 1]
      /\ calls' = calls
      /\ ids' = Append(ids, b)
  BY DEF Release, Holding, ReleaseBuffer
<1>2. ~InSeq(b, ids)
  BY <1>1 DEF IInv, BufferOwnership
<1>3. /\ ids' \in Seq(Buffer)
      /\ Injective(ids')
      /\ \A c \in Buffer : InSeq(c, ids') <=> InSeq(c, ids) \/ c = b
  BY <1>1, <1>2, PushRest DEF IInv, TypeOK, BufferOwnership
<1>4. /\ finalizers' = <<>>
      /\ ready' \in Seq(Task)
  <2>1. /\ finalizers \in Seq(Seq(Task)) /\ Len(finalizers) <= 1
        /\ ready \in Seq(Task)
    BY DEF IInv, TypeOK, NoLostWakeup
  <2>2. CASE finalizers = <<>>
    BY <2>1, <2>2 DEF Release, ReleaseBuffer
  <2>3. CASE finalizers # <<>>
    <3>1. Len(finalizers) = 1 /\ finalizers[1] \in Seq(Task)
      BY <2>1, <2>3, SingleCompleter
    <3>2. /\ finalizers' = SubSeq(finalizers, 1, 0)
          /\ ready' = ready \o finalizers[1]
      BY <2>3, <3>1 DEF Release, ReleaseBuffer
    <3> QED
      BY <2>1, <3>1, <3>2
  <2> QED
    BY <2>2, <2>3
<1>5. TypeOK'
  BY <1>1, <1>3, <1>4 DEF IInv, TypeOK
<1>6. BufferOwnership'
  BY <1>1, <1>3 DEF IInv, TypeOK, BufferOwnership
<1>7. NoLostWakeup'
  BY <1>4 DEF NoLostWakeup
<1>8. GotWithinWant'
  <2>1. IsFiniteSet(got[t]) /\ Cardinality(got[t]) \in Nat
    BY BufferFinite DEF IInv, TypeOK
  <2>2. Cardinality(got[t] \ {b}) = Cardinality(got[t]) - 1
    BY <1>1, <2>1, FS_RemoveElement
  <2> QED
    BY <1>1, <2>1, <2>2 DEF IInv, TypeOK, GotWithinWant
<1> QED
  BY <1>5, <1>6, <1>7, <1>8 DEF IInv

LEMMA NextIInv == IInv /\ [Next]_vars => IInv'
<1> SUFFICES ASSUME IInv, [Next]_vars PROVE IInv'
  OBVIOUS
<1>1. ASSUME NEW t \in Task, NEW n \in 1..MaxWant, Request(t, n) PROVE IInv'
  BY <1>1, RequestIInv
<1>2. ASSUME NEW t \in Task, Resume(t) PROVE IInv'
  BY <1>2, ResumeIInv
<1>3. ASSUME NEW t \in Task, NEW b \in Buffer, Release(t, b) PROVE IInv'
  BY <1>3, ReleaseIInv
<1>4. CASE UNCHANGED vars
  BY <1>4 DEF vars, IInv, TypeOK, BufferOwnership, NoLostWakeup, GotWithinWant, InSeq, Injective
<1> QED
  BY <1>1, <1>2, <1>3, <1>4 DEF Next

-----------------------------------------------------------------------------
\* Nobody who still misses a buffer is forgotten: the task is an awaiter of a
\* completer or in the microtask queue.  With IInv this is inductive; it makes
\* Holding(t) mean that the request of t was served.
WaitersHeld == \A t \in Task : Cardinality(got[t]) < want[t] => Waiting(t)

RInv == IInv /\ WaitersHeld

\* Park queues its task and keeps the awaiters that were there.
LEMMA ParkKeeps ==
  ASSUME finalizers \in Seq(Seq(Task)), NEW t \in Task, Park(t), Len(finalizers) <= 1
  PROVE  Parked(t)' /\ \A u \in Task : Parked(u) => Parked(u)'
<1>1. CASE finalizers = <<>>
  <2>1. finalizers' = <<(<<t>>)>>
    BY <1>1 DEF Park
  <2> QED
    BY <1>1, <2>1 DEF Parked, InSeq
<1>2. CASE finalizers # <<>>
  <2>1. Len(finalizers) = 1 /\ finalizers[1] \in Seq(Task)
    BY <1>2, SingleCompleter
  <2> DEFINE s == finalizers[1]
             r == Append(s, t)
  <2>2. finalizers' = [finalizers EXCEPT ![1] = r]
    BY <1>2, <2>1 DEF Park
  <2>3. Len(finalizers') = 1 /\ finalizers'[1] = r
    BY <2>1, <2>2
  <2>4. InSeq(t, r) /\ \A u \in Task : InSeq(u, s) => InSeq(u, r)
    <3>1. /\ Len(r) = Len(s) + 1 /\ Len(s) \in Nat
          /\ r[Len(r)] = t
          /\ \A i \in 1..Len(s) : r[i] = s[i]
      BY <2>1
    <3> QED
      BY <3>1 DEF InSeq
  <2>5. Parked(t)'
    BY <2>3, <2>4 DEF Parked, InSeq
  <2>6. ASSUME NEW u \in Task, Parked(u) PROVE Parked(u)'
    <3>1. InSeq(u, s)
      BY <2>1, <2>6 DEF Parked
    <3> QED
      BY <2>3, <2>4, <3>1 DEF Parked, InSeq
  <2> QED
    BY <2>5, <2>6
<1> QED
  BY <1>1, <1>2

LEMMA AppendKeeps ==
  ASSUME NEW s \in Seq(Task), NEW t \in Task, NEW u \in Task, InSeq(u, s)
  PROVE  InSeq(u, Append(s, t))
<1>1. /\ Len(Append(s, t)) = Len(s) + 1 /\ Len(s) \in Nat
      /\ \A i \in 1..Len(s) : Append(s, t)[i] = s[i]
  OBVIOUS
<1> QED
  BY <1>1 DEF InSeq

LEMMA TailKeeps ==
  ASSUME NEW s \in Seq(Task), s # <<>>, NEW u \in Task, InSeq(u, s), u # Head(s)
  PROVE  InSeq(u, Tail(s))
<1>1. PICK i \in 1..Len(s) : s[i] = u
  BY DEF InSeq
<1>2. i # 1
  BY <1>1
<1>3. i - 1 \in 1..Len(Tail(s)) /\ Tail(s)[i - 1] = u
  BY <1>1, <1>2
<1> QED
  BY <1>3 DEF InSeq

LEMMA ConcatKeeps ==
  ASSUME NEW s \in Seq(Task), NEW r \in Seq(Task), NEW u \in Task, InSeq(u, s) \/ InSeq(u, r)
  PROVE  InSeq(u, s \o r)
<1>1. /\ Len(s \o r) = Len(s) + Len(r) /\ Len(s) \in Nat /\ Len(r) \in Nat
      /\ \A i \in 1..Len(s) : (s \o r)[i] = s[i]
      /\ \A i \in 1..Len(r) : (s \o r)[Len(s) + i] = r[i]
  OBVIOUS
<1>2. CASE InSeq(u, s)
  BY <1>1, <1>2 DEF InSeq
<1>3. CASE InSeq(u, r)
  <2>1. PICK i \in 1..Len(r) : r[i] = u
    BY <1>3 DEF InSeq
  <2>2. Len(s) + i \in 1..Len(s \o r) /\ (s \o r)[Len(s) + i] = u
    BY <1>1, <2>1
  <2> QED
    BY <2>2 DEF InSeq
<1> QED
  BY <1>2, <1>3

\* A task that is neither parked nor in the microtask queue has all it asked for.
LEMMA HoldingServed ==
  ASSUME RInv, NEW t \in Task, Holding(t)
  PROVE  Cardinality(got[t]) = want[t]
<1>1. Cardinality(got[t]) \in Nat /\ want[t] \in Int
  BY BufferFinite, BoundsAssumption DEF RInv, IInv, TypeOK
<1>2. Cardinality(got[t]) <= want[t] /\ ~(Cardinality(got[t]) < want[t])
  BY DEF RInv, IInv, GotWithinWant, WaitersHeld, Holding
<1> QED
  BY <1>1, <1>2

LEMMA RequestWaiters ==
  ASSUME RInv, NEW t \in Task, NEW n \in 1..MaxWant, Request(t, n)
  PROVE  WaitersHeld'
<1> USE BoundsAssumption DEF RInv
<1> DEFINE k == Available(n)
<1>1. k \in 0..Len(ids) /\ Cardinality(Top(k)) = k
  BY AvailableRange, TopCount DEF IInv, TypeOK, BufferOwnership
<1>2. /\ got' = [got EXCEPT ![t] = Top(k)]
      /\ want' = [want EXCEPT ![t] = n]
      /\ \/ k = n /\ ((n = 1 /\ ready' = ready) \/ ready' = Append(ready, t)) /\ finalizers' = finalizers
         \/ k < n /\ Park(t) /\ ready' = ready
  BY DEF Request, ReturnArray
<1>3. /\ finalizers \in Seq(Seq(Task)) /\ Len(finalizers) <= 1
      /\ ready \in Seq(Task) /\ got \in [Task -> SUBSET Buffer] /\ want \in [Task -> 0..MaxWant]
  BY DEF IInv, TypeOK, NoLostWakeup
<1>4. ASSUME NEW u \in Task, Waiting(u) PROVE Waiting(u)'
  <2>1. InSeq(u, ready) => InSeq(u, ready')
    BY <1>2, <1>3, AppendKeeps
  <2>2. Parked(u) => Parked(u)'
    BY <1>2, <1>3, ParkKeeps DEF Parked
  <2> QED
    BY <1>4, <2>1, <2>2 DEF Waiting, InSeq
<1>5. k < n => Waiting(t)'
  BY <1>2, <1>3, ParkKeeps DEF Waiting
<1>6. ASSUME NEW u \in Task, Cardinality(got'[u]) < want'[u] PROVE Waiting(u)'
  <2>1. CASE u = t
    BY <1>1, <1>2, <1>3, <1>5, <1>6, <2>1
  <2>2. CASE u # t
    BY <1>2, <1>3, <1>4, <1>6, <2>2 DEF WaitersHeld
  <2> QED
    BY <2>1, <2>2
<1> QED
  BY <1>6 DEF WaitersHeld

\* A resumed task that found all it was missing holds what it asked for.
LEMMA ResumeCount ==
  ASSUME IInv, NEW t \in Task, Resume(t)
  PROVE  LET k == Available(want[t] - Cardinality(got[t])) IN
         /\ k \in 0..Len(ids)
         /\ Top(k) \subseteq Buffer
         /\ \A b \in Top(k) : InSeq(b, ids)
         /\ Cardinality(got[t] \cup Top(k)) = Cardinality(got[t]) + k
         /\ Cardinality(got[t] \cup Top(k)) <= want[t]
<1> USE BoundsAssumption
<1> DEFINE missing == want[t] - Cardinality(got[t])
           k == Available(missing)
<1>1. got[t] \subseteq Buffer /\ Cardinality(got[t]) \in Nat
  BY BufferFinite DEF IInv, TypeOK
<1>2. missing \in Nat
  BY <1>1 DEF IInv, TypeOK, GotWithinWant
<1>3. k \in 0..Len(ids) /\ k <= missing
  BY <1>2, AvailableRange DEF IInv, TypeOK
<1>4. Top(k) \subseteq Buffer /\ Cardinality(Top(k)) = k /\ \A b \in Top(k) : InSeq(b, ids)
  BY <1>3, TopCount DEF IInv, TypeOK, BufferOwnership
<1>5. got[t] \cap Top(k) = {}
  BY <1>4 DEF IInv, TypeOK, BufferOwnership
<1>6. Cardinality(got[t] \cup Top(k)) = Cardinality(got[t]) + k
  BY <1>1, <1>4, <1>5, UnionCount
<1>7. Cardinality(got[t] \cup Top(k)) <= want[t]
  BY <1>1, <1>2, <1>3, <1>6 DEF IInv, TypeOK
<1> QED
  BY <1>3, <1>4, <1>6, <1>7

LEMMA ResumeWaiters ==
  ASSUME RInv, NEW t \in Task, Resume(t)
  PROVE  WaitersHeld'
<1> USE BoundsAssumption DEF RInv
<1> DEFINE missing == want[t] - Cardinality(got[t])
           k == Available(missing)
<1>1. /\ got' = [got EXCEPT ![t] = @ \cup Top(k)]
      /\ want' = want
      /\ ready # <<>> /\ t = Head(ready) /\ ready' = Tail(ready)
      /\ \/ k = missing /\ finalizers' = finalizers
         \/ k < missing /\ Park(t)
  BY DEF Resume
<1>2. /\ finalizers \in Seq(Seq(Task)) /\ Len(finalizers) <= 1
      /\ ready \in Seq(Task) /\ got \in [Task -> SUBSET Buffer] /\ want \in [Task -> 0..MaxWant]
  BY DEF IInv, TypeOK, NoLostWakeup
<1>3. ASSUME NEW u \in Task, u # t, Waiting(u) PROVE Waiting(u)'
  <2>1. InSeq(u, ready) => InSeq(u, ready')
    BY <1>1, <1>2, <1>3, TailKeeps
  <2>2. Parked(u) => Parked(u)'
    BY <1>1, <1>2, ParkKeeps DEF Parked
  <2> QED
    BY <1>3, <2>1, <2>2 DEF Waiting, InSeq
<1>4. k # missing => Waiting(t)'
  <2>1. k # missing => Park(t)
    BY <1>1
  <2> QED
    BY <1>2, <2>1, ParkKeeps DEF Waiting
<1>5. k = missing => Cardinality(got'[t]) = want'[t]
  <2>1. Cardinality(got[t] \cup Top(k)) = Cardinality(got[t]) + k
    BY ResumeCount
  <2>2. Cardinality(got[t]) \in Nat /\ want[t] \in Int
    BY <1>2, BufferFinite
  <2>3. got'[t] = got[t] \cup Top(k) /\ want'[t] = want[t]
    BY <1>1, <1>2
  <2> HIDE DEF k
  <2> QED
    BY <2>1, <2>2, <2>3
<1>6. ASSUME NEW u \in Task, Cardinality(got'[u]) < want'[u] PROVE Waiting(u)'
  <2>1. CASE u = t
    BY <1>1, <1>2, <1>4, <1>5, <1>6, <2>1
  <2>2. CASE u # t
    BY <1>1, <1>2, <1>3, <1>6, <2>2 DEF WaitersHeld
  <2> QED
    BY <2>1, <2>2
<1> QED
  BY <1>6 DEF WaitersHeld

LEMMA ReleaseWaiters ==
  ASSUME RInv, NEW t \in Task, NEW b \in Buffer, Release(t, b)
  PROVE  WaitersHeld'
<1> USE BoundsAssumption DEF RInv
<1>1. /\ b \in got[t] /\ Holding(t)
      /\ got' = [got EXCEPT ![t] = @ \ {b}]
      /\ want' = [want EXCEPT ![t] = @ - 1]
  BY DEF Release
<1>2. /\ finalizers \in Seq(Seq(Task)) /\ Len(finalizers) <= 1
      /\ ready \in Seq(Task) /\ got \in [Task -> SUBSET Buffer] /\ want \in [Task -> 0..MaxWant]
  BY DEF IInv, TypeOK, NoLostWakeup
<1>3. ASSUME NEW u \in Task, Waiting(u) PROVE Waiting(u)'
  <2>1. CASE finalizers = <<>>
    <3>1. InSeq(u, ready) /\ ready' = ready
      BY <1>3, <2>1 DEF Waiting, Parked, Release, ReleaseBuffer
    <3> QED
      BY <3>1 DEF Waiting, InSeq
  <2>2. CASE finalizers # <<>>
    <3>1. Len(finalizers) = 1 /\ finalizers[1] \in Seq(Task)
      BY <1>2, <2>2, SingleCompleter
    <3>2. ready' = ready \o finalizers[1]
      BY <2>2, <3>1 DEF Release, ReleaseBuffer
    <3>3. InSeq(u, ready) \/ InSeq(u, finalizers[1])
      BY <1>3, <3>1 DEF Waiting, Parked
    <3>4. InSeq(u, ready')
      BY <1>2, <3>1, <3>2, <3>3, ConcatKeeps
    <3> QED
      BY <3>4 DEF Waiting, InSeq
  <2> QED
    BY <2>1, <2>2
<1>4. Cardinality(got'[t]) = want'[t]
  BY <1>1, <1>2, HoldingServed, BufferFinite, FS_RemoveElement
<1>5. ASSUME NEW u \in Task, Cardinality(got'[u]) < want'[u] PROVE Waiting(u)'
  <2>1. CASE u = t
    BY <1>1, <1>2, <1>4, <1>5, <2>1
  <2>2. CASE u # t
    BY <1>1, <1>2, <1>3, <1>5, <2>2 DEF WaitersHeld
  <2> QED
    BY <2>1, <2>2
<1> QED
  BY <1>5 DEF WaitersHeld

LEMMA InitRInv == Init => RInv
<1> SUFFICES ASSUME Init PROVE RInv
  OBVIOUS
<1>1. WaitersHeld
  BY FS_EmptySet DEF Init, WaitersHeld
<1> QED
  BY <1>1, InitIInv DEF RInv

LEMMA NextRInv == RInv /\ [Next]_vars => RInv'
<1> SUFFICES ASSUME RInv, [Next]_vars PROVE RInv'
  OBVIOUS
<1>1. ASSUME NEW t \in Task, NEW n \in 1..MaxWant, Request(t, n) PROVE WaitersHeld'
  BY <1>1, RequestWaiters
<1>2. ASSUME NEW t \in Task, Resume(t) PROVE WaitersHeld'
  BY <1>2, ResumeWaiters
<1>3. ASSUME NEW t \in Task, NEW b \in Buffer, Release(t, b) PROVE WaitersHeld'
  BY <1>3, ReleaseWaiters
<1>4. ASSUME UNCHANGED vars PROVE WaitersHeld'
  BY <1>4 DEF vars, RInv, WaitersHeld, Waiting, Parked, InSeq
<1> QED
  BY <1>1, <1>2, <1>3, <1>4, NextIInv DEF Next, RInv

-----------------------------------------------------------------------------
\* A task is queued in one place at most, and only on behalf of a request: it
\* is resumed once for every wait, and a task that is served is queued nowhere.
QueuedOnce ==
  /\ Injective(ready)
  /\ \A i \in 1..Len(finalizers) : Injective(finalizers[i])
  /\ \A t \in Task : ~(Parked(t) /\ InSeq(t, ready))
  /\ \A t \in Task : Waiting(t) => want[t] > 0

PInv == RInv /\ QueuedOnce

LEMMA AppendMembers ==
  ASSUME NEW s \in Seq(Task), NEW t \in Task
  PROVE  /\ \A u \in Task : InSeq(u, Append(s, t)) <=> InSeq(u, s) \/ u = t
         /\ Injective(s) /\ ~InSeq(t, s) => Injective(Append(s, t))
<1> DEFINE r == Append(s, t)
<1>1. /\ Len(r) = Len(s) + 1 /\ Len(s) \in Nat
      /\ r[Len(r)] = t
      /\ \A i \in 1..Len(s) : r[i] = s[i]
  OBVIOUS
<1> HIDE DEF r
<1>2. \A u \in Task : InSeq(u, r) <=> InSeq(u, s) \/ u = t
  BY <1>1 DEF InSeq
<1>3. Injective(s) /\ ~InSeq(t, s) => Injective(r)
  BY <1>1 DEF InSeq, Injective
<1> QED
  BY <1>2, <1>3 DEF r

LEMMA TailMembers ==
  ASSUME NEW s \in Seq(Task), s # <<>>, Injective(s)
  PROVE  /\ \A u \in Task : InSeq(u, Tail(s)) <=> InSeq(u, s) /\ u # Head(s)
         /\ Injective(Tail(s))
<1> DEFINE r == Tail(s)
<1>1. /\ Len(r) = Len(s) - 1 /\ Len(s) \in Nat \ {0}
      /\ Head(s) = s[1]
      /\ \A i \in 1..Len(r) : r[i] = s[i + 1]
  OBVIOUS
<1> HIDE DEF r
<1>2. Injective(r)
  BY <1>1 DEF Injective
<1>3. ASSUME NEW u \in Task, InSeq(u, r) PROVE InSeq(u, s) /\ u # Head(s)
  <2>1. PICK i \in 1..Len(r) : r[i] = u
    BY <1>3 DEF InSeq
  <2>2. i + 1 \in 1..Len(s) /\ s[i + 1] = u /\ i + 1 # 1
    BY <1>1, <2>1
  <2> QED
    BY <1>1, <2>2 DEF InSeq, Injective
<1>4. ASSUME NEW u \in Task, InSeq(u, s), u # Head(s) PROVE InSeq(u, r)
  BY <1>4, TailKeeps DEF r
<1> QED
  BY <1>2, <1>3, <1>4 DEF r

LEMMA ConcatMembers ==
  ASSUME NEW s \in Seq(Task), NEW r \in Seq(Task)
  PROVE  /\ \A u \in Task : InSeq(u, s \o r) <=> InSeq(u, s) \/ InSeq(u, r)
         /\ Injective(s) /\ Injective(r) /\ (\A u \in Task : ~(InSeq(u, s) /\ InSeq(u, r)))
              => Injective(s \o r)
<1> DEFINE q == s \o r
<1>1. /\ Len(q) = Len(s) + Len(r) /\ Len(s) \in Nat /\ Len(r) \in Nat
      /\ \A i \in 1..Len(s) : q[i] = s[i] /\ s[i] \in Task
      /\ \A i \in 1..Len(r) : q[Len(s) + i] = r[i]
      /\ \A i \in 1..Len(q) : i > Len(s) => i - Len(s) \in 1..Len(r) /\ q[i] = r[i - Len(s)]
  OBVIOUS
<1>2. ASSUME NEW u \in Task PROVE InSeq(u, q) => InSeq(u, s) \/ InSeq(u, r)
  <2> HIDE DEF q
  <2> QED
    BY <1>1 DEF InSeq
<1>3. ASSUME NEW u \in Task, InSeq(u, s) \/ InSeq(u, r) PROVE InSeq(u, q)
  BY <1>3, ConcatKeeps
<1>4. ASSUME Injective(s), Injective(r), \A u \in Task : ~(InSeq(u, s) /\ InSeq(u, r)),
             NEW i \in 1..Len(q), NEW j \in 1..Len(q), q[i] = q[j]
      PROVE  i = j
  <2> HIDE DEF q
  <2>1. CASE i <= Len(s) /\ j <= Len(s)
    <3>1. i \in 1..Len(s) /\ j \in 1..Len(s)
      BY <1>1, <1>4, <2>1
    <3>2. s[i] = s[j]
      BY <1>1, <1>4, <3>1
    <3> QED
      BY <1>4, <3>1, <3>2 DEF Injective
  <2>2. CASE i > Len(s) /\ j > Len(s)
    <3> DEFINE k == i - Len(s)
               l == j - Len(s)
    <3>1. k \in 1..Len(r) /\ l \in 1..Len(r) /\ r[k] = r[l]
      BY <1>1, <1>4, <2>2
    <3>2. k = l
      BY <1>4, <3>1 DEF Injective
    <3> QED
      BY <1>1, <3>2
  <2>3. ASSUME NEW k \in 1..Len(q), NEW l \in 1..Len(q), k <= Len(s), l > Len(s), q[k] = q[l]
        PROVE  FALSE
    <3>1. k \in 1..Len(s) /\ l - Len(s) \in 1..Len(r) /\ s[k] = r[l - Len(s)] /\ s[k] \in Task
      BY <1>1, <2>3
    <3> QED
      BY <1>4, <3>1 DEF InSeq
  <2> QED
    BY <1>1, <1>4, <2>1, <2>2, <2>3
<1> QED
  BY <1>2, <1>3, <1>4 DEF Injective

\* The awaiters of the completers, of which there is one at most.
LEMMA ParkedOnce ==
  ASSUME finalizers \in Seq(Seq(Task)), Len(finalizers) <= 1, NEW u
  PROVE  Parked(u) <=> finalizers # <<>> /\ InSeq(u, finalizers[1])
<1>1. CASE finalizers = <<>>
  BY <1>1 DEF Parked
<1>2. CASE finalizers # <<>>
  BY <1>2, SingleCompleter DEF Parked
<1> QED
  BY <1>1, <1>2

LEMMA ParkMembers ==
  ASSUME finalizers \in Seq(Seq(Task)), Len(finalizers) <= 1, NEW t \in Task, Park(t),
         \A i \in 1..Len(finalizers) : Injective(finalizers[i]), ~Parked(t)
  PROVE  /\ \A u \in Task : Parked(u)' <=> Parked(u) \/ u = t
         /\ \A i \in 1..Len(finalizers') : Injective(finalizers'[i])
<1>1. CASE finalizers = <<>>
  <2>1. finalizers' = <<(<<t>>)>>
    BY <1>1 DEF Park
  <2> QED
    BY <1>1, <2>1 DEF Parked, InSeq, Injective
<1>2. CASE finalizers # <<>>
  <2>1. Len(finalizers) = 1 /\ finalizers[1] \in Seq(Task)
    BY <1>2, SingleCompleter
  <2> DEFINE s == finalizers[1]
             r == Append(s, t)
  <2>2. Len(finalizers') = 1 /\ finalizers'[1] = r
    BY <1>2, <2>1 DEF Park
  <2>3. Injective(s) /\ ~InSeq(t, s)
    BY <2>1 DEF Parked
  <2>4. Injective(r) /\ \A u \in Task : InSeq(u, r) <=> InSeq(u, s) \/ u = t
    BY <2>1, <2>3, AppendMembers
  <2> HIDE DEF r
  <2>5. \A u \in Task : Parked(u) <=> InSeq(u, s)
    BY <2>1 DEF Parked
  <2>6. \A u \in Task : Parked(u)' <=> InSeq(u, r)
    BY <2>2 DEF Parked, InSeq
  <2> QED
    BY <2>2, <2>4, <2>5, <2>6
<1> QED
  BY <1>1, <1>2

\* What the queues of a state are made of.
LEMMA Queues ==
  ASSUME PInv
  PROVE  /\ finalizers \in Seq(Seq(Task)) /\ Len(finalizers) <= 1
         /\ ready \in Seq(Task) /\ Injective(ready)
         /\ \A i \in 1..Len(finalizers) : Injective(finalizers[i])
         /\ got \in [Task -> SUBSET Buffer] /\ want \in [Task -> 0..MaxWant]
  BY DEF PInv, RInv, IInv, TypeOK, NoLostWakeup, QueuedOnce

\* A request leaves the other tasks where they are; its own task waits unless
\* it asked for one buffer, got it and goes on at once.
LEMMA RequestQueues ==
  ASSUME PInv, NEW t \in Task, NEW n \in 1..MaxWant, Request(t, n)
  PROVE  /\ QueuedOnce'
         /\ \A u \in Task \ {t} : Waiting(u)' <=> Waiting(u)
         /\ ~Waiting(t)' => n = 1 /\ Cardinality(got'[t]) = n
<1> USE BoundsAssumption
<1> DEFINE k == Available(n)
<1>1. /\ want[t] = 0 /\ want' = [want EXCEPT ![t] = n] /\ got' = [got EXCEPT ![t] = Top(k)]
      /\ \/ k = n /\ ((n = 1 /\ ready' = ready) \/ ready' = Append(ready, t)) /\ finalizers' = finalizers
         \/ k < n /\ Park(t) /\ ready' = ready
  BY DEF Request, ReturnArray
<1>2. ~Waiting(t) /\ ~Parked(t) /\ ~InSeq(t, ready)
  BY <1>1 DEF PInv, QueuedOnce, Waiting
<1>3. k \in 0..Len(ids) /\ Cardinality(got'[t]) = k
  <2>1. k \in 0..Len(ids) /\ Cardinality(Top(k)) = k
    BY AvailableRange, TopCount DEF PInv, RInv, IInv, TypeOK, BufferOwnership
  <2> QED
    BY <1>1, <2>1, Queues
<1> HIDE DEF k
<1>4. CASE k = n /\ ready' = Append(ready, t)
  <2>1. ready' = Append(ready, t) /\ finalizers' = finalizers
    BY <1>1, <1>4
  <2>2. /\ Injective(ready')
        /\ \A u \in Task : InSeq(u, ready') <=> InSeq(u, ready) \/ u = t
    BY <1>2, <2>1, Queues, AppendMembers
  <2>3. \A u \in Task : Parked(u)' <=> Parked(u)
    BY <2>1 DEF Parked, InSeq
  <2>4. \A u \in Task : Waiting(u)' <=> Waiting(u) \/ u = t
    BY <2>2, <2>3 DEF Waiting, InSeq
  <2>5. QueuedOnce'
    BY <1>1, <1>2, <2>1, <2>2, <2>3, <2>4, Queues DEF PInv, QueuedOnce, InSeq, Injective
  <2> QED
    BY <1>4, <2>4, <2>5
<1>5. CASE k = n /\ n = 1 /\ ready' = ready
  <2>1. ready' = ready /\ finalizers' = finalizers
    BY <1>1, <1>5
  <2>2. \A u \in Task : Waiting(u)' <=> Waiting(u)
    BY <2>1 DEF Waiting, Parked, InSeq
  <2>3. \A u \in Task : Parked(u)' <=> Parked(u)
    BY <2>1 DEF Parked, InSeq
  <2>4. QueuedOnce'
    <3>1. \A u \in Task : ~(Parked(u)' /\ InSeq(u, ready'))
      BY <2>1, <2>3 DEF PInv, QueuedOnce
    <3>2. \A u \in Task : Waiting(u)' => want'[u] > 0
      BY <1>1, <1>2, <2>2, Queues DEF PInv, QueuedOnce
    <3> QED
      BY <2>1, <3>1, <3>2, Queues DEF QueuedOnce, InSeq, Injective
  <2> QED
    BY <1>2, <1>3, <1>5, <2>2, <2>4
<1>6. CASE k < n
  <2>1. Park(t) /\ ready' = ready
    BY <1>1, <1>6
  <2>2. /\ \A u \in Task : Parked(u)' <=> Parked(u) \/ u = t
        /\ \A i \in 1..Len(finalizers') : Injective(finalizers'[i])
    BY <1>2, <2>1, Queues, ParkMembers
  <2>3. \A u \in Task : Waiting(u)' <=> Waiting(u) \/ u = t
    BY <2>1, <2>2 DEF Waiting, InSeq
  <2>4. QueuedOnce'
    BY <1>1, <1>2, <2>1, <2>2, <2>3, Queues DEF PInv, QueuedOnce, InSeq, Injective
  <2> QED
    BY <1>3, <1>6, <2>3, <2>4
<1> QED
  BY <1>1, <1>4, <1>5, <1>6

\* A resumed task waits again unless it has all it asked for.
LEMMA ResumeQueues ==
  ASSUME PInv, NEW t \in Task, Resume(t)
  PROVE  /\ QueuedOnce'
         /\ Waiting(t)
         /\ \A u \in Task \ {t} : Waiting(u)' <=> Waiting(u)
         /\ Waiting(t)' <=> Cardinality(got'[t]) # want[t]
<1> USE BoundsAssumption
<1> DEFINE missing == want[t] - Cardinality(got[t])
           k == Available(missing)
<1>1. /\ got' = [got EXCEPT ![t] = @ \cup Top(k)] /\ want' = want
      /\ ready # <<>> /\ t = Head(ready) /\ ready' = Tail(ready)
      /\ \/ k = missing /\ finalizers' = finalizers
         \/ k < missing /\ Park(t)
  BY DEF Resume
<1>2. /\ Injective(ready')
      /\ \A u \in Task : InSeq(u, ready') <=> InSeq(u, ready) /\ u # t
  BY <1>1, Queues, TailMembers
<1>3. InSeq(t, ready) /\ Waiting(t) /\ ~Parked(t)
  <2>1. 1 \in 1..Len(ready) /\ ready[1] = t
    BY <1>1, Queues
  <2>2. InSeq(t, ready)
    BY <2>1 DEF InSeq
  <2> QED
    BY <2>2 DEF PInv, QueuedOnce, Waiting
<1>4. /\ Cardinality(got'[t]) = Cardinality(got[t]) + k
      /\ Cardinality(got[t]) \in Nat /\ k \in Nat /\ want[t] \in Int
  <2>1. got[t] \subseteq Buffer
    BY Queues
  <2>2. Cardinality(got[t]) \in Nat
    BY <2>1, BufferFinite
  <2>3. /\ k \in 0..Len(ids)
        /\ Cardinality(got[t] \cup Top(k)) = Cardinality(got[t]) + k
    BY ResumeCount DEF PInv, RInv
  <2>4. Len(ids) \in Nat
    BY DEF PInv, RInv, IInv, TypeOK
  <2>5. got'[t] = got[t] \cup Top(k)
    BY <1>1, Queues
  <2> HIDE DEF k
  <2> QED
    BY <2>2, <2>3, <2>4, <2>5, Queues
<1>5. missing = want[t] - Cardinality(got[t])
  OBVIOUS
<1> HIDE DEF k, missing
<1>6. CASE k = missing /\ finalizers' = finalizers
  <2>1. \A u \in Task : Parked(u)' <=> Parked(u)
    BY <1>6 DEF Parked, InSeq
  <2>2. \A u \in Task : Waiting(u)' <=> Waiting(u) /\ u # t
    BY <1>2, <1>3, <2>1 DEF Waiting, InSeq
  <2>3. QueuedOnce'
    BY <1>1, <1>2, <1>6, <2>1, <2>2, Queues DEF PInv, QueuedOnce, InSeq, Injective
  <2>4. Cardinality(got'[t]) = want[t]
    BY <1>4, <1>5, <1>6
  <2> QED
    BY <1>3, <2>2, <2>3, <2>4
<1>7. CASE k < missing /\ Park(t)
  <2>1. /\ \A u \in Task : Parked(u)' <=> Parked(u) \/ u = t
        /\ \A i \in 1..Len(finalizers') : Injective(finalizers'[i])
    BY <1>3, <1>7, Queues, ParkMembers
  <2>2. \A u \in Task : Waiting(u)' <=> Waiting(u)
    BY <1>2, <1>3, <2>1 DEF Waiting, InSeq
  <2>3. QueuedOnce'
    BY <1>1, <1>2, <2>1, <2>2, Queues DEF PInv, QueuedOnce, InSeq, Injective
  <2>4. Cardinality(got'[t]) # want[t]
    BY <1>4, <1>5, <1>7
  <2> QED
    BY <1>3, <2>2, <2>3, <2>4
<1> QED
  BY <1>1, <1>6, <1>7

\* A release moves the awaiters of the completer to the microtask queue.
LEMMA ReleaseQueues ==
  ASSUME PInv, NEW t \in Task, NEW b \in Buffer, Release(t, b)
  PROVE  /\ QueuedOnce'
         /\ \A u \in Task : Waiting(u)' <=> Waiting(u)
<1> USE BoundsAssumption
<1>1. /\ ~Waiting(t) /\ want' = [want EXCEPT ![t] = @ - 1]
      /\ IF finalizers = <<>>
           THEN finalizers' = finalizers /\ ready' = ready
           ELSE /\ finalizers' = SubSeq(finalizers, 1, Len(finalizers) - 1)
                /\ ready' = ready \o finalizers[Len(finalizers)]
  BY DEF Release, ReleaseBuffer, Holding
<1>2. CASE finalizers = <<>>
  <2>1. finalizers' = finalizers /\ ready' = ready
    BY <1>1, <1>2
  <2>2. \A u \in Task : Waiting(u)' <=> Waiting(u)
    BY <2>1 DEF Waiting, Parked, InSeq
  <2>3. QueuedOnce'
    BY <1>1, <2>1, <2>2, Queues DEF PInv, QueuedOnce, Parked, InSeq, Injective
  <2> QED
    BY <2>2, <2>3
<1>3. CASE finalizers # <<>>
  <2>1. Len(finalizers) = 1 /\ finalizers[1] \in Seq(Task)
    BY <1>3, Queues, SingleCompleter
  <2>2. finalizers' = <<>> /\ ready' = ready \o finalizers[1]
    BY <1>1, <1>3, <2>1, Queues
  <2>3. \A u \in Task : Parked(u) <=> InSeq(u, finalizers[1])
    BY <2>1 DEF Parked
  <2>4. /\ Injective(ready')
        /\ \A u \in Task : InSeq(u, ready') <=> InSeq(u, ready) \/ Parked(u)
    <3>1. Injective(finalizers[1]) /\ \A u \in Task : ~(InSeq(u, ready) /\ InSeq(u, finalizers[1]))
      BY <2>1, <2>3 DEF PInv, QueuedOnce
    <3> QED
      BY <2>1, <2>2, <2>3, <3>1, Queues, ConcatMembers
  <2>5. \A u \in Task : ~Parked(u)'
    BY <2>2 DEF Parked
  <2>6. \A u \in Task : Waiting(u)' <=> Waiting(u)
    BY <2>4, <2>5 DEF Waiting, InSeq
  <2>7. \A u \in Task : Waiting(u)' => want'[u] > 0
    BY <1>1, <2>6, Queues DEF PInv, QueuedOnce
  <2>8. QueuedOnce'
    BY <2>2, <2>4, <2>5, <2>7 DEF QueuedOnce, InSeq, Injective
  <2> QED
    BY <2>6, <2>8
<1> QED
  BY <1>2, <1>3

LEMMA InitPInv == Init => PInv
<1> SUFFICES ASSUME Init PROVE PInv
  OBVIOUS
<1>1. QueuedOnce
  BY DEF Init, QueuedOnce, Injective, Parked, InSeq, Waiting
<1> QED
  BY <1>1, InitRInv DEF PInv

LEMMA NextPInv == PInv /\ [Next]_vars => PInv'
<1> SUFFICES ASSUME PInv, [Next]_vars PROVE PInv'
  OBVIOUS
<1>1. RInv'
  BY NextRInv DEF PInv
<1>2. ASSUME NEW t \in Task, NEW n \in 1..MaxWant, Request(t, n) PROVE QueuedOnce'
  BY <1>2, RequestQueues
<1>3. ASSUME NEW t \in Task, Resume(t) PROVE QueuedOnce'
  BY <1>3, ResumeQueues
<1>4. ASSUME NEW t \in Task, NEW b \in Buffer, Release(t, b) PROVE QueuedOnce'
  BY <1>4, ReleaseQueues
<1>5. ASSUME UNCHANGED vars PROVE QueuedOnce'
  BY <1>5 DEF vars, PInv, QueuedOnce, Waiting, Parked, InSeq, Injective
<1> QED
  BY <1>1, <1>2, <1>3, <1>4, <1>5 DEF Next, PInv

\* What the users of the pool need of a state of it, and of each operation.
LEMMA PoolState ==
  ASSUME PInv
  PROVE  /\ got \in [Task -> SUBSET Buffer] /\ want \in [Task -> 0..MaxWant]
         /\ \A t \in Task : IsFiniteSet(got[t]) /\ (want[t] = 0 => got[t] = {})
         /\ \A t, u \in Task : t # u => got[t] \cap got[u] = {}
         /\ \A t \in Task : Waiting(t) => want[t] > 0
         /\ \A t \in Task : ~Waiting(t) => Cardinality(got[t]) = want[t]
<1>1. got \in [Task -> SUBSET Buffer] /\ want \in [Task -> 0..MaxWant]
  BY Queues
<1>2. ASSUME NEW t \in Task
      PROVE  /\ IsFiniteSet(got[t]) /\ (want[t] = 0 => got[t] = {})
             /\ ~Waiting(t) => Cardinality(got[t]) = want[t]
  <2>1. IsFiniteSet(got[t]) /\ Cardinality(got[t]) \in Nat /\ want[t] \in Int
    BY <1>1, BufferFinite, BoundsAssumption
  <2>2. Cardinality(got[t]) <= want[t]
    BY DEF PInv, RInv, IInv, GotWithinWant
  <2>3. ~Waiting(t) => ~(Cardinality(got[t]) < want[t])
    BY DEF PInv, RInv, WaitersHeld
  <2>4. want[t] = 0 => Cardinality(got[t]) = 0
    BY <2>1, <2>2
  <2> QED
    BY <2>1, <2>2, <2>3, <2>4, FS_EmptySet
<1>3. \A t, u \in Task : t # u => got[t] \cap got[u] = {}
  BY DEF PInv, RInv, IInv, BufferOwnership
<1>4. \A t \in Task : Waiting(t) => want[t] > 0
  BY DEF PInv, QueuedOnce
<1> QED
  BY <1>1, <1>2, <1>3, <1>4

LEMMA PoolRequest ==
  ASSUME PInv, NEW t \in Task, NEW n \in 1..MaxWant, Request(t, n)
  PROVE  /\ PInv'
         /\ want[t] = 0 /\ got[t] = {} /\ ~Waiting(t)
         /\ want' = [want EXCEPT ![t] = n]
         /\ \A u \in Task \ {t} : got'[u] = got[u] /\ (Waiting(u)' <=> Waiting(u))
         /\ ~Waiting(t)' => n = 1 /\ Cardinality(got'[t]) = n
<1>1. PInv'
  BY NextPInv DEF Next
<1>2. want[t] = 0 /\ want' = [want EXCEPT ![t] = n] /\ got' = [got EXCEPT ![t] = Top(Available(n))]
  BY DEF Request
<1>3. got[t] = {} /\ ~Waiting(t)
  BY <1>2, PoolState
<1>4. \A u \in Task \ {t} : got'[u] = got[u]
  BY <1>2, PoolState
<1> QED
  BY <1>1, <1>2, <1>3, <1>4, RequestQueues

LEMMA PoolResume ==
  ASSUME PInv, NEW t \in Task, Resume(t)
  PROVE  /\ PInv'
         /\ Waiting(t) /\ want' = want
         /\ \A u \in Task \ {t} : got'[u] = got[u] /\ (Waiting(u)' <=> Waiting(u))
         /\ Waiting(t)' <=> Cardinality(got'[t]) # want[t]
<1>1. PInv'
  BY NextPInv DEF Next
<1>2. want' = want /\ \A u \in Task \ {t} : got'[u] = got[u]
  BY PoolState DEF Resume
<1> QED
  BY <1>1, <1>2, ResumeQueues

LEMMA PoolRelease ==
  ASSUME PInv, NEW t \in Task, NEW b \in Buffer, Release(t, b)
  PROVE  /\ PInv'
         /\ b \in got[t] /\ ~Waiting(t) /\ want[t] > 0
         /\ want' = [want EXCEPT ![t] = @ - 1]
         /\ got' = [got EXCEPT ![t] = @ \ {b}]
         /\ \A u \in Task : Waiting(u)' <=> Waiting(u)
<1>1. PInv'
  BY NextPInv DEF Next
<1> QED
  BY <1>1, ReleaseQueues DEF Release, Holding

-----------------------------------------------------------------------------
\* The types of the pool, the completers and the microtask queue.
THEOREM TypeCorrect == Spec => []TypeOK
<1>1. IInv => TypeOK
  BY DEF IInv
<1> QED
  BY <1>1, InitIInv, NextIInv, PTL DEF Spec

\* A buffer is free once or held by one task: transport_buffers_pool_push
\* needs no bound check and no two operations share an iovec.
THEOREM BuffersOwned == Spec => []BufferOwnership
<1>1. IInv => BufferOwnership
  BY DEF IInv
<1> QED
  BY <1>1, InitIInv, NextIInv, PTL DEF Spec

\* An allocation is never suspended while the stack has a buffer, although
\* release() completes only the last completer.
THEOREM WakeupsNotLost == Spec => []NoLostWakeup
<1>1. IInv => NoLostWakeup
  BY DEF IInv
<1> QED
  BY <1>1, InitIInv, NextIInv, PTL DEF Spec

\* The instance's Cardinality is that of FiniteSets.
LEMMA SameCardinality == \A S : Allocator!Cardinality(S) = Cardinality(S)
  BY DEF Cardinality, Allocator!Cardinality

\* The refinement of the abstract allocator: every request, resumption and
\* release is a step of BufferAllocator, whatever the completers do.
LEMMA FreeSet ==
  ASSUME NEW s \in Seq(Buffer)
  PROVE  {s[i] : i \in 1..Len(s)} = {b \in Buffer : InSeq(b, s)}
<1>1. \A i \in 1..Len(s) : s[i] \in Buffer
  OBVIOUS
<1> QED
  BY <1>1, Zenon DEF InSeq

LEMMA InitAllocator == Init => Allocator!Init
<1> SUFFICES ASSUME Init PROVE Allocator!Init
  OBVIOUS
<1>1. BufferOwnership /\ TypeOK
  BY InitIInv DEF IInv
<1>2. {ids[i] : i \in 1..Len(ids)} = Buffer
  <2>1. \A b \in Buffer : InSeq(b, ids)
    BY <1>1 DEF BufferOwnership, Init
  <2>2. {ids[i] : i \in 1..Len(ids)} = {b \in Buffer : InSeq(b, ids)}
    BY <1>1, FreeSet DEF TypeOK
  <2> QED
    BY <2>1, <2>2
<1> QED
  BY <1>2 DEF Init, Allocator!Init

LEMMA RequestAllocator ==
  ASSUME RInv, NEW t \in Task, NEW n \in 1..MaxWant, Request(t, n)
  PROVE  Allocator!Request(t, n)
<1>0. MaxWant \in Nat
  BY BoundsAssumption
<1> USE <1>0 DEF RInv
<1> DEFINE k == Available(n)
           S == Top(k)
           Free == {ids[i] : i \in 1..Len(ids)}
<1>1. ids \in Seq(Buffer) /\ Injective(ids) /\ k \in 0..Len(ids) /\ k <= n
  BY AvailableRange DEF IInv, TypeOK, BufferOwnership
<1>2. S \subseteq Buffer /\ Cardinality(S) = k /\ \A b \in S : InSeq(b, ids)
  BY <1>1, TopCount
<1>3. S \subseteq Free
  BY <1>2 DEF InSeq
<1>4. /\ ids' \in Seq(Buffer)
      /\ \A b \in Buffer : InSeq(b, ids') <=> InSeq(b, ids) /\ b \notin S
  BY <1>1, PopRest DEF Request
<1>5. Free' = Free \ S
  BY <1>1, <1>4 DEF InSeq
<1>6. want[t] = 0 /\ want' = [want EXCEPT ![t] = n] /\ got' = [got EXCEPT ![t] = S]
  BY DEF Request
<1> HIDE DEF Free, S, k
<1>7. \E Q \in SUBSET Free : Cardinality(Q) <= n /\ Free' = Free \ Q /\ got' = [got EXCEPT ![t] = Q]
  BY <1>1, <1>2, <1>3, <1>5, <1>6
<1> QED
  BY <1>6, <1>7, SameCardinality DEF Allocator!Request, Free

LEMMA ResumeAllocator ==
  ASSUME RInv, NEW t \in Task, Resume(t)
  PROVE  Allocator!Grant(t)
<1> USE BoundsAssumption DEF RInv
<1> DEFINE k == Available(want[t] - Cardinality(got[t]))
           S == Top(k)
           Free == {ids[i] : i \in 1..Len(ids)}
<1>1. /\ k \in 0..Len(ids) /\ S \subseteq Buffer /\ \A b \in S : InSeq(b, ids)
      /\ Cardinality(got[t] \cup S) <= want[t]
  BY ResumeCount
<1>2. ids \in Seq(Buffer) /\ Injective(ids)
  BY DEF IInv, TypeOK, BufferOwnership
<1>3. S \subseteq Free
  BY <1>1 DEF InSeq
<1>4. /\ ids' \in Seq(Buffer)
      /\ \A b \in Buffer : InSeq(b, ids') <=> InSeq(b, ids) /\ b \notin S
  BY <1>1, <1>2, PopRest DEF Resume
<1>5. Free' = Free \ S
  BY <1>2, <1>4 DEF InSeq
<1>6. want' = want /\ got' = [got EXCEPT ![t] = @ \cup S]
  BY DEF Resume
<1> HIDE DEF Free, S, k
<1>7. \E Q \in SUBSET Free : /\ Cardinality(got[t] \cup Q) <= want[t]
                             /\ Free' = Free \ Q
                             /\ got' = [got EXCEPT ![t] = @ \cup Q]
  BY <1>1, <1>3, <1>5, <1>6
<1> QED
  BY <1>6, <1>7, SameCardinality DEF Allocator!Grant, Free

LEMMA ReleaseAllocator ==
  ASSUME RInv, NEW t \in Task, NEW b \in Buffer, Release(t, b)
  PROVE  Allocator!Return(t, b)
<1> USE DEF RInv
<1> DEFINE Free == {ids[i] : i \in 1..Len(ids)}
<1>1. /\ b \in got[t] /\ Holding(t)
      /\ got' = [got EXCEPT ![t] = @ \ {b}]
      /\ want' = [want EXCEPT ![t] = @ - 1]
      /\ ids' = Append(ids, b)
  BY DEF Release, ReleaseBuffer
<1>2. Cardinality(got[t]) = want[t]
  BY <1>1, HoldingServed
<1>3. ids \in Seq(Buffer) /\ Injective(ids) /\ ~InSeq(b, ids)
  BY <1>1 DEF IInv, TypeOK, BufferOwnership
<1>4. /\ ids' \in Seq(Buffer)
      /\ \A c \in Buffer : InSeq(c, ids') <=> InSeq(c, ids) \/ c = b
  BY <1>1, <1>3, PushRest
<1>5. Free' = Free \cup {b}
  <2>1. Free = {c \in Buffer : InSeq(c, ids)} /\ Free' = {c \in Buffer : InSeq(c, ids')}
    BY <1>3, <1>4, FreeSet
  <2> QED
    BY <1>4, <2>1
<1> QED
  BY <1>1, <1>2, <1>5, SameCardinality DEF Allocator!Return, Allocator!Served

\* TransportBuffers implements the abstract allocator: to its users the pool
\* is a set of buffers, given only when free, returned only by the holder of
\* a request that was served.
THEOREM AllocatorImplemented == Spec => ImplementsAllocator
<1>1. RInv /\ [Next]_vars => [Allocator!Next]_(Allocator!vars)
  <2> SUFFICES ASSUME RInv, [Next]_vars PROVE [Allocator!Next]_(Allocator!vars)
    OBVIOUS
  <2>1. ASSUME NEW t \in Task, NEW n \in 1..MaxWant, Request(t, n) PROVE Allocator!Next
    BY <2>1, RequestAllocator DEF Allocator!Next
  <2>2. ASSUME NEW t \in Task, Resume(t) PROVE Allocator!Next
    BY <2>2, ResumeAllocator DEF Allocator!Next
  <2>3. ASSUME NEW t \in Task, NEW b \in Buffer, Release(t, b) PROVE Allocator!Next
    BY <2>3, ReleaseAllocator DEF Allocator!Next
  <2>4. CASE UNCHANGED vars
    BY <2>4 DEF vars, Allocator!vars
  <2> QED
    BY <2>1, <2>2, <2>3, <2>4 DEF Next
<1> QED
  BY <1>1, InitAllocator, InitRInv, NextRInv, PTL DEF Spec, ImplementsAllocator, Allocator!Spec
=============================================================================
