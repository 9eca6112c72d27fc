-------------------------- MODULE WorkerRingProofs --------------------------
(***************************************************************************)
(* What the operators of WorkerRing do to the set of the outstanding       *)
(* operations and to the table of events, whatever the operations are: the *)
(* lemmas that the proofs about the channels share.                        *)
(***************************************************************************)
EXTENDS WorkerRing, FiniteSetTheorems, SequenceTheorems, TLAPS

CqOps == {cq[i].op : i \in 1..Len(cq)}

\* An operation is outstanding once: in the kernel or under one completion.
RingInv ==
  /\ cq \in Seq({cq[i] : i \in 1..Len(cq)})
  /\ IsFiniteSet(inflight)
  /\ cancelled \subseteq inflight
  /\ batch \in 0..Len(cq)
  /\ \A i, j \in 1..Len(cq) : cq[i].op = cq[j].op => i = j
  /\ \A i \in 1..Len(cq) : cq[i].op \notin inflight

\* The table has the operations that nobody asked to cancel, and only
\* outstanding ones.
Tracked ==
  /\ \A op \in inflight \ cancelled : Data(op) \in events
  /\ \A e \in events : \E op \in Outstanding : Data(op) = e

\* The user_data tells the outstanding operations apart.
DataUnique == \A op1, op2 \in Outstanding : Data(op1) = Data(op2) => op1 = op2

-----------------------------------------------------------------------------
LEMMA OutstandingFinite == RingInv => IsFiniteSet(Outstanding)
<1> SUFFICES ASSUME RingInv PROVE IsFiniteSet(Outstanding)
  OBVIOUS
<1> DEFINE f == [i \in 1..Len(cq) |-> cq[i].op]
<1>1. Len(cq) \in Nat /\ IsFiniteSet(inflight)
  BY DEF RingInv
<1>2. IsFiniteSet(1..Len(cq))
  BY <1>1, FS_Interval
<1>3. f \in Surjection(1..Len(cq), CqOps)
  BY DEF Surjection, CqOps
<1>4. IsFiniteSet(CqOps)
  BY <1>2, <1>3, FS_Surjection
<1> QED
  BY <1>1, <1>4, FS_Union DEF Outstanding, CqOps

LEMMA InitRing == RingInit => RingInv /\ Tracked /\ Outstanding = {}
<1> SUFFICES ASSUME RingInit PROVE RingInv /\ Tracked /\ Outstanding = {}
  OBVIOUS
<1>1. cq = <<>> /\ inflight = {} /\ cancelled = {} /\ batch = 0 /\ events = {}
  BY DEF RingInit
<1>2. RingInv
  BY <1>1, FS_EmptySet DEF RingInv
<1> QED
  BY <1>1, <1>2 DEF Tracked, Outstanding

\* The ring keeps its operations: what it has been asked to cancel, and how
\* many completions the turn still has, may change.
LEMMA KeepRing ==
  ASSUME RingInv, UNCHANGED <<inflight, cq>>, cancelled' \subseteq inflight, batch' \in 0..Len(cq)
  PROVE  RingInv' /\ Outstanding' = Outstanding
BY DEF RingInv, Outstanding

LEMMA PeekRing ==
  ASSUME RingInv, PeekBatch
  PROVE  RingInv' /\ Outstanding' = Outstanding /\ (Tracked => Tracked')
<1>1. batch' \in 0..Len(cq)
  BY PeekAssumption DEF RingInv, PeekBatch
<1>2. RingInv' /\ Outstanding' = Outstanding
  BY <1>1, KeepRing DEF RingInv, PeekBatch
<1> QED
  BY <1>2 DEF Tracked, PeekBatch

\* Operations that are not outstanding become so.
LEMMA SubmitRing ==
  ASSUME RingInv, NEW ops, IsFiniteSet(ops), ops \cap Outstanding = {}, NEW known,
         Submit(ops, known), UNCHANGED <<cancelled, cq, batch>>
  PROVE  /\ RingInv' /\ Outstanding' = Outstanding \cup ops
         /\ Tracked /\ known = events => Tracked'
<1>1. inflight' = inflight \cup ops /\ events' = known \cup {Data(op) : op \in ops}
  BY DEF Submit
<1>2. IsFiniteSet(inflight')
  BY <1>1, FS_Union DEF RingInv
<1>3. \A i \in 1..Len(cq) : cq[i].op \notin ops
  BY DEF Outstanding
<1>4. RingInv'
  BY <1>1, <1>2, <1>3 DEF RingInv
<1>5. Outstanding' = Outstanding \cup ops
  BY <1>1 DEF Outstanding
<1>6. ASSUME Tracked, known = events PROVE Tracked'
  BY <1>1, <1>5, <1>6 DEF Tracked
<1> QED
  BY <1>4, <1>5, <1>6

\* A completion moves its operation from the kernel to the queue.
LEMMA CompleteRing ==
  ASSUME RingInv, NEW op \in inflight, NEW res, KernelComplete(op, res)
  PROVE  /\ RingInv' /\ Outstanding' = Outstanding
         /\ Tracked => Tracked'
<1> DEFINE end == [op |-> op, res |-> res]
           s == Append(cq, end)
<1>1. /\ cq' = s /\ inflight' = inflight \ {op} /\ cancelled' = cancelled \ {op}
      /\ batch' = batch /\ events' = events
  BY DEF KernelComplete
<1>2. /\ Len(s) = Len(cq) + 1 /\ Len(cq) \in Nat
      /\ s[Len(cq) + 1] = end
      /\ \A i \in 1..Len(cq) : s[i] = cq[i]
  BY DEF RingInv
<1>3. s \in Seq({s[i] : i \in 1..Len(s)})
  <2> DEFINE C == {cq[i] : i \in 1..Len(cq)} \cup {end}
  <2>1. cq \in Seq(C)
    BY DEF RingInv
  <2>2. s \in Seq(C)
    BY <2>1
  <2> HIDE DEF s, C
  <2> QED
    BY <2>2
<1> HIDE DEF s
<1>4. end.op = op
  OBVIOUS
<1> HIDE DEF end
<1>5. IsFiniteSet(inflight')
  BY <1>1, FS_Subset DEF RingInv
<1>6. /\ \A i \in 1..Len(s) : i \in 1..Len(cq) \/ i = Len(cq) + 1
      /\ \A i \in 1..Len(cq) : i \in 1..Len(s)
      /\ Len(cq) + 1 \in 1..Len(s)
  BY <1>2
<1>7. /\ s[Len(cq) + 1].op = op
      /\ \A i \in 1..Len(cq) : s[i].op = cq[i].op /\ s[i].op \notin inflight
  BY <1>2, <1>4 DEF RingInv
<1>8. \A i, j \in 1..Len(s) : s[i].op = s[j].op => i = j
  BY <1>6, <1>7 DEF RingInv
<1>9. \A i \in 1..Len(s) : s[i].op \notin inflight \ {op}
  BY <1>6, <1>7
<1>10. RingInv'
  BY <1>1, <1>2, <1>3, <1>5, <1>8, <1>9 DEF RingInv
<1>11. Outstanding' = Outstanding
  <2>1. \A x : x \in {s[i].op : i \in 1..Len(s)} <=> x \in {cq[i].op : i \in 1..Len(cq)} \/ x = op
    BY <1>6, <1>7
  <2>2. Outstanding' = (inflight \ {op}) \cup {s[i].op : i \in 1..Len(s)}
    BY <1>1 DEF Outstanding
  <2> QED
    BY <2>1, <2>2 DEF Outstanding
<1>12. ASSUME Tracked PROVE Tracked'
  BY <1>1, <1>11, <1>12 DEF Tracked
<1> QED
  BY <1>10, <1>11, <1>12

\* A round of the loop ends the operation of the first completion, and a
\* handler may submit new ones.
LEMMA TakeRing ==
  ASSUME RingInv, TakeCqe, NEW ops, IsFiniteSet(ops), inflight' = inflight \cup ops,
         ops \cap (Outstanding \ {Head(cq).op}) = {}, cancelled' \subseteq inflight'
  PROVE  /\ RingInv'
         /\ Head(cq).op \in Outstanding \ inflight
         /\ Outstanding' = (Outstanding \ {Head(cq).op}) \cup ops
<1> DEFINE op == Head(cq).op
           s == Tail(cq)
<1>1. /\ cq # <<>> /\ Len(cq) \in Nat \ {0} /\ cq' = s /\ batch' = batch - 1 /\ batch' \in 0..(Len(cq) - 1)
  BY DEF RingInv, TakeCqe
<1>2. /\ Len(s) = Len(cq) - 1
      /\ \A i \in 1..Len(s) : s[i] = cq[i + 1]
      /\ op = cq[1].op
  BY <1>1 DEF RingInv
<1>3. s \in Seq({s[i] : i \in 1..Len(s)})
  <2> DEFINE C == {cq[i] : i \in 1..Len(cq)}
  <2>1. s \in Seq(C)
    BY <1>1 DEF RingInv
  <2> HIDE DEF s, C
  <2> QED
    BY <2>1
<1> HIDE DEF s, op
<1>4. 1 \in 1..Len(cq) /\ \A i \in 1..Len(s) : i + 1 \in 1..Len(cq) /\ i + 1 # 1
  BY <1>1, <1>2
<1>5. /\ \A i, j \in 1..Len(s) : s[i].op = s[j].op => i = j
      /\ \A i \in 1..Len(s) : s[i].op \notin inflight /\ s[i].op # op /\ s[i].op \in Outstanding
  <2>1. \A i, j \in 1..Len(s) : s[i].op = s[j].op => i = j
    <3>1. ASSUME NEW i \in 1..Len(s), NEW j \in 1..Len(s), s[i].op = s[j].op PROVE i = j
      <4>1. i + 1 = j + 1
        BY <1>2, <1>4, <3>1 DEF RingInv
      <4> QED
        BY <4>1
    <3> QED
      BY <3>1
  <2>2. \A i \in 1..Len(s) : s[i].op \notin inflight /\ s[i].op # op /\ s[i].op \in Outstanding
    BY <1>2, <1>4 DEF RingInv, Outstanding
  <2> QED
    BY <2>1, <2>2
<1>6. op \in Outstanding \ inflight
  BY <1>2, <1>4 DEF RingInv, Outstanding
<1>7. {s[i].op : i \in 1..Len(s)} = {cq[i].op : i \in 1..Len(cq)} \ {op}
  <2>1. ASSUME NEW i \in 1..Len(cq), cq[i].op # op PROVE \E j \in 1..Len(s) : s[j].op = cq[i].op
    <3>1. i - 1 \in 1..Len(s) /\ (i - 1) + 1 = i
      BY <1>1, <1>2, <2>1
    <3>2. s[i - 1].op = cq[i].op
      BY <1>2, <3>1
    <3> QED
      BY <3>1, <3>2
  <2>2. \A i \in 1..Len(s) : s[i].op # op /\ \E j \in 1..Len(cq) : s[i].op = cq[j].op
    BY <1>2, <1>4, <1>5
  <2>3. \A x : x \in {s[i].op : i \in 1..Len(s)} <=> x \in {cq[i].op : i \in 1..Len(cq)} /\ x # op
    BY <2>1, <2>2
  <2> QED
    BY <2>3
<1>8. Outstanding' = (Outstanding \ {op}) \cup ops
  <2>1. op \notin inflight
    BY <1>6
  <2>2. Outstanding' = inflight' \cup {s[i].op : i \in 1..Len(s)}
    BY <1>1 DEF Outstanding
  <2>3. Outstanding' = (inflight \cup ops) \cup ({cq[i].op : i \in 1..Len(cq)} \ {op})
    BY <1>7, <2>2
  <2> QED
    BY <2>1, <2>3 DEF Outstanding
<1>9. IsFiniteSet(inflight')
  BY FS_Union DEF RingInv
<1>10. \A i \in 1..Len(s) : s[i].op \notin ops
  BY <1>5 DEF op
<1>11. batch' \in 0..Len(s)
  BY <1>1, <1>2
<1>12. RingInv'
  BY <1>1, <1>3, <1>5, <1>9, <1>10, <1>11 DEF RingInv
<1> QED
  BY <1>6, <1>8, <1>12 DEF op

-----------------------------------------------------------------------------
\* Cancelling forgets the entries of what it cancels, and of nothing else.
LEMMA CancelTracked ==
  ASSUME Tracked, NEW E, CancelEvents(E, events), UNCHANGED <<inflight, cq>>
  PROVE  Tracked'
BY DEF Tracked, CancelEvents, Outstanding

\* The entry of a completion leaves, and those of the operations cancelled by
\* the handler: an entry that stays has its operation.
LEMMA TakeTracked ==
  ASSUME Tracked, DataUnique, NEW op \in Outstanding \ inflight, NEW E,
         inflight' = inflight, Outstanding' = Outstanding \ {op},
         CancelEvents(E, RemoveEvent(Data(op)))
  PROVE  Tracked'
<1>1. /\ events' = (events \ {Data(op)}) \ E
      /\ cancelled' = cancelled \cup {o \in inflight : Data(o) \in E}
  BY DEF CancelEvents, RemoveEvent
<1>2. ASSUME NEW o \in inflight' \ cancelled' PROVE Data(o) \in events'
  <2>1. o \in inflight \ cancelled /\ Data(o) \notin E
    BY <1>1, <1>2
  <2>2. o # op /\ o \in Outstanding
    BY <2>1 DEF Outstanding
  <2>3. Data(o) # Data(op)
    BY <2>2 DEF DataUnique
  <2> QED
    BY <1>1, <2>1, <2>3 DEF Tracked
<1>3. ASSUME NEW e \in events' PROVE \E o \in Outstanding' : Data(o) = e
  BY <1>1 DEF Tracked
<1> QED
  BY <1>2, <1>3 DEF Tracked

\* The same when the handler cancels nothing.
LEMMA TakeTrackedOnly ==
  ASSUME Tracked, DataUnique, NEW op \in Outstanding \ inflight,
         inflight' = inflight, Outstanding' = Outstanding \ {op},
         events' = RemoveEvent(Data(op)), cancelled' = cancelled
  PROVE  Tracked'
<1>1. CancelEvents({}, RemoveEvent(Data(op)))
  BY DEF CancelEvents
<1> QED
  BY <1>1, TakeTracked
=============================================================================
