------------------------ MODULE TransportWorkerProofs ------------------------
(***************************************************************************)
(* For any operations, timeouts, sizes of the ring, numbers of buffers and *)
(* resolutions of the clock: when the isolate can be caught for want of a  *)
(* submission entry, what destruction gives back after whichever failure,  *)
(* and what a timeout that expires says about the time that has passed,    *)
(* however often and however far the clock is set.                         *)
(***************************************************************************)
EXTENDS TransportWorker, FiniteSetTheorems, SequenceTheorems, TLAPS

Entry == [seconds : Int, age : Nat, forward : Nat]

Types ==
  /\ stage \in {"new", "running", "failed", "destroyed", "undefined"}
  /\ ring \in Nat \ {0} /\ sq \in Nat /\ stuck \in BOOLEAN
  /\ op \in [Op -> {"idle", "queued", "kernel", "done"}]
  /\ Tracked \subseteq Op
  /\ entries = [o \in Tracked |-> entries[o]]
  /\ \A o \in Tracked : entries[o] \in Entry
  /\ timer \in {"none", "runs", "stopped"}
  /\ phase \in 0..TicksPerSecond - 1
  /\ sets \in Nat

Queued == {o \in Op : op[o] = "queued"}

\* The entries of the submission queue are those of operations: cancellations
\* are flushed in the step that makes them.
QueueBounded == ~stuck => sq <= Cardinality(Queued)

\* What a worker has in each stage.
Allocated ==
  /\ owned \subseteq AllParts
  /\ stage = "running" => owned \in {AllParts, AllParts \ {One("cqes")}}
  /\ stage = "failed" => One("queue") \notin owned \/ Read \subseteq owned

\* The difference of two times of the clock is less than a second more than
\* what has passed and what the clock was set forward.
Behind(e, o) ==
  /\ e.seconds <= Ceiling(o)
  /\ \/ e.seconds * TicksPerSecond + phase <= e.age + e.forward + TicksPerSecond - 1
     \/ e.age >= Late(o)

ClockBehind == \A o \in Tracked : Timeout[o] # Infinity => Behind(entries[o], o)

IInv ==
  /\ Types
  /\ QueueBounded /\ StuckOnlyIfSmall
  /\ Allocated /\ DestroyExact
  /\ ClockBehind

-----------------------------------------------------------------------------
(* The parts of a worker.                                                    *)

LEMMA ThreeSequences ==
  ASSUME NEW S, NEW a \in Seq(S), NEW b \in Seq(S), NEW c \in Seq(S)
  PROVE  /\ (a \o b) \o c \in Seq(S)
         /\ Len((a \o b) \o c) = Len(a) + Len(b) + Len(c)
         /\ \A i \in 1..Len(a) : ((a \o b) \o c)[i] = a[i]
         /\ \A i \in 1..Len(b) : ((a \o b) \o c)[Len(a) + i] = b[i]
         /\ \A i \in 1..Len(c) : ((a \o b) \o c)[Len(a) + Len(b) + i] = c[i]
<1>1. Len(a) \in Nat /\ Len(b) \in Nat /\ Len(c) \in Nat
  OBVIOUS
<1>2. /\ a \o b \in Seq(S)
      /\ Len(a \o b) = Len(a) + Len(b)
      /\ \A i \in 1..Len(a) + Len(b) : (a \o b)[i] = IF i <= Len(a) THEN a[i] ELSE b[i - Len(a)]
  BY ConcatProperties
<1>3. /\ (a \o b) \o c \in Seq(S)
      /\ Len((a \o b) \o c) = Len(a \o b) + Len(c)
      /\ \A i \in 1..Len(a \o b) + Len(c) :
           ((a \o b) \o c)[i] = IF i <= Len(a \o b) THEN (a \o b)[i] ELSE c[i - Len(a \o b)]
  <2>1. \A s, t \in Seq(S) :
          /\ s \o t \in Seq(S)
          /\ Len(s \o t) = Len(s) + Len(t)
          /\ \A i \in 1..Len(s) + Len(t) : (s \o t)[i] = IF i <= Len(s) THEN s[i] ELSE t[i - Len(s)]
    BY ConcatProperties
  <2> QED
    BY <1>2, <2>1, Zenon
<1> DEFINE k == Len(a)
           l == Len(b)
           m == Len(c)
           ab == a \o b
           abc == ab \o c
<1>4. /\ k \in Nat /\ l \in Nat /\ m \in Nat
      /\ Len(abc) = k + l + m
      /\ \A i \in 1..k + l : ab[i] = IF i <= k THEN a[i] ELSE b[i - k]
      /\ \A i \in 1..k + l + m : abc[i] = IF i <= k + l THEN ab[i] ELSE c[i - (k + l)]
  BY <1>1, <1>2, <1>3
<1> HIDE DEF k, l, m, ab, abc
<1>5. ASSUME NEW i \in 1..k PROVE abc[i] = a[i]
  BY <1>4
<1>6. ASSUME NEW i \in 1..l PROVE abc[k + i] = b[i]
  <2>1. k + i \in 1..k + l /\ k + i \in 1..k + l + m /\ (k + i) - k = i /\ ~(k + i <= k)
    BY <1>4
  <2> QED
    BY <1>4, <2>1
<1>7. ASSUME NEW i \in 1..m PROVE abc[k + l + i] = c[i]
  <2>1. k + l + i \in 1..k + l + m /\ (k + l + i) - (k + l) = i /\ ~(k + l + i <= k + l)
    BY <1>4
  <2> QED
    BY <1>4, <2>1
<1> QED
  BY <1>3, <1>4, <1>5, <1>6, <1>7 DEF k, l, m, ab, abc

\* The arrays and tables, the parts of the buffers, and the ring at the end.
FirstParts == <<One("cqes"), One("buffers"), One("events"), One("pool"), One("inet"), One("unix")>>
BufferParts ==
  [i \in 1..3 * BuffersCount |-> <<<<"iov", "inetName", "unixName">>[((i - 1) % 3) + 1], (i - 1) \div 3>>]
LastParts == <<One("ring"), One("queue"), One("registered")>>

LEMMA PartsLayout ==
  /\ Len(Parts) = 3 * BuffersCount + 9
  /\ \A i \in 1..6 : Parts[i] = FirstParts[i]
  /\ \A i \in 1..3 * BuffersCount : Parts[6 + i] = BufferParts[i]
  /\ \A i \in 1..3 : Parts[6 + 3 * BuffersCount + i] = LastParts[i]
  /\ DOMAIN Parts = 1..Len(Parts)
<1> DEFINE any == {FirstParts[i] : i \in 1..6} \cup {BufferParts[i] : i \in 1..3 * BuffersCount}
                    \cup {LastParts[i] : i \in 1..3}
<1>1. 3 * BuffersCount \in Nat
  BY SizeAssumption
<1>2. FirstParts \in Seq(any) /\ Len(FirstParts) = 6
  <2>1. FirstParts \in [1..6 -> any]
    BY DEF FirstParts
  <2> QED
    BY <2>1 DEF FirstParts
<1>3. BufferParts \in Seq(any) /\ Len(BufferParts) = 3 * BuffersCount
  <2>1. BufferParts \in [1..3 * BuffersCount -> any]
    BY DEF BufferParts
  <2> HIDE DEF any
  <2> QED
    BY <1>1, <2>1
<1>4. LastParts \in Seq(any) /\ Len(LastParts) = 3
  <2>1. LastParts \in [1..3 -> any]
    BY DEF LastParts
  <2> QED
    BY <2>1 DEF LastParts
<1>5. Parts = (FirstParts \o BufferParts) \o LastParts
  BY DEF Parts, FirstParts, BufferParts, LastParts
<1> HIDE DEF any
<1>6. /\ Parts \in Seq(any)
      /\ Len(Parts) = Len(FirstParts) + Len(BufferParts) + Len(LastParts)
      /\ \A i \in 1..Len(FirstParts) : Parts[i] = FirstParts[i]
      /\ \A i \in 1..Len(BufferParts) : Parts[Len(FirstParts) + i] = BufferParts[i]
      /\ \A i \in 1..Len(LastParts) : Parts[Len(FirstParts) + Len(BufferParts) + i] = LastParts[i]
  <2> DEFINE whole == (FirstParts \o BufferParts) \o LastParts
  <2>1. \A a, b, c \in Seq(any) :
          /\ (a \o b) \o c \in Seq(any)
          /\ Len((a \o b) \o c) = Len(a) + Len(b) + Len(c)
          /\ \A i \in 1..Len(a) : ((a \o b) \o c)[i] = a[i]
          /\ \A i \in 1..Len(b) : ((a \o b) \o c)[Len(a) + i] = b[i]
          /\ \A i \in 1..Len(c) : ((a \o b) \o c)[Len(a) + Len(b) + i] = c[i]
    BY ThreeSequences
  <2>2. FirstParts \in Seq(any) /\ BufferParts \in Seq(any) /\ LastParts \in Seq(any)
    BY <1>2, <1>3, <1>4
  <2>3. /\ whole \in Seq(any)
        /\ Len(whole) = Len(FirstParts) + Len(BufferParts) + Len(LastParts)
        /\ \A i \in 1..Len(FirstParts) : whole[i] = FirstParts[i]
        /\ \A i \in 1..Len(BufferParts) : whole[Len(FirstParts) + i] = BufferParts[i]
        /\ \A i \in 1..Len(LastParts) : whole[Len(FirstParts) + Len(BufferParts) + i] = LastParts[i]
    BY <2>1, <2>2, Zenon
  <2>4. Parts = whole
    BY <1>5
  <2> HIDE DEF whole
  <2> QED
    BY <2>3, <2>4, Zenon
<1>7. DOMAIN Parts = 1..Len(Parts)
  BY <1>6
<1> QED
  BY <1>1, <1>2, <1>3, <1>4, <1>6, <1>7

LEMMA PartsLength == Len(Parts) \in Nat /\ Len(Parts) >= 9 /\ DOMAIN Parts = 1..Len(Parts)
  BY PartsLayout, SizeAssumption

\* Only the pinned buffers come after the mapped ring.
LEMMA QueueIndex ==
  ASSUME NEW i \in 1..Len(Parts), Parts[i] = One("queue")
  PROVE  i = Len(Parts) - 1
<1> DEFINE n == 3 * BuffersCount
<1>1. n \in Nat /\ Len(Parts) = n + 9
  BY PartsLayout, SizeAssumption
<1>2. CASE i \in 1..6
  <2>1. FirstParts[i] # One("queue")
    BY <1>2 DEF FirstParts, One
  <2> QED
    BY <1>2, <2>1, PartsLayout
<1>3. CASE i \in 7..6 + n
  <2>1. PICK j \in 1..n : 6 + j = i
    <3>1. i - 6 \in 1..n /\ 6 + (i - 6) = i
      BY <1>1, <1>3
    <3> QED
      BY <3>1
  <2>2. ((j - 1) % 3) + 1 \in 1..3
    BY <1>1
  <2>3. <<"iov", "inetName", "unixName">>[((j - 1) % 3) + 1] # "queue"
    BY <2>2
  <2>4. BufferParts[j] # One("queue")
    BY <2>3 DEF BufferParts, One
  <2> QED
    BY <2>1, <2>4, PartsLayout
<1>4. CASE i \in 7 + n..9 + n
  <2>1. PICK j \in 1..3 : 6 + n + j = i
    <3>1. i - 6 - n \in 1..3 /\ 6 + n + (i - 6 - n) = i
      BY <1>1, <1>4
    <3> QED
      BY <3>1
  <2>2. LastParts[j] = One("queue")
    BY <2>1, PartsLayout
  <2>3. j = 2
    BY <2>2 DEF LastParts, One
  <2> QED
    BY <1>1, <2>1, <2>3
<1> QED
  BY <1>1, <1>2, <1>3, <1>4

LEMMA LastPart == Parts[Len(Parts)] = One("registered")
<1>1. Len(Parts) = 6 + 3 * BuffersCount + 3 /\ 3 \in 1..3
  BY PartsLayout, SizeAssumption
<1>2. Parts[6 + 3 * BuffersCount + 3] = LastParts[3]
  BY PartsLayout
<1> QED
  BY <1>1, <1>2 DEF LastParts

\* What is there when a part cannot be made: before the last part not the
\* queue, at the last part all that destruction reads.
LEMMA FailurePoint ==
  ASSUME NEW n \in 1..Len(Parts)
  PROVE  /\ MadeBefore(n) \subseteq AllParts
         /\ n < Len(Parts) => One("queue") \notin MadeBefore(n)
         /\ n = Len(Parts) => Read \subseteq MadeBefore(n)
<1>1. MadeBefore(n) \subseteq AllParts
  BY PartsLength DEF MadeBefore, AllParts
<1>2. ASSUME n < Len(Parts), One("queue") \in MadeBefore(n)
      PROVE  FALSE
  <2>1. PICK i \in 1..n - 1 : Parts[i] = One("queue")
    BY <1>2 DEF MadeBefore
  <2>2. i \in 1..Len(Parts) /\ i < n
    BY PartsLength
  <2>3. i = Len(Parts) - 1
    BY <2>1, <2>2, QueueIndex
  <2> QED
    BY <1>2, <2>2, <2>3, PartsLength
<1>3. ASSUME n = Len(Parts), NEW x \in Read
      PROVE  x \in MadeBefore(n)
  <2>1. x \in AllParts /\ x # One("registered")
    BY DEF Read
  <2>2. PICK i \in 1..Len(Parts) : x = Parts[i]
    BY <2>1, PartsLength DEF AllParts
  <2>3. i # Len(Parts)
    BY <2>1, <2>2, LastPart
  <2>4. i \in 1..n - 1
    BY <1>3, <2>3, PartsLength
  <2> QED
    BY <2>2, <2>4 DEF MadeBefore
<1> QED
  BY <1>1, <1>2, <1>3

\* Destruction frees every part there can be.
LEMMA FreedAll ==
  ASSUME NEW S, S \subseteq AllParts
  PROVE  Freed(S) = {}
<1> DEFINE n == 3 * BuffersCount
           single == {One(name) : name \in {"pool", "events", "cqes", "buffers", "inet", "unix", "ring"}}
           queues == {One(name) : name \in {"queue", "registered"}}
           perBuffer == {<<name, buffer>> : name \in {"iov", "inetName", "unixName"}, buffer \in 0..BuffersCount - 1}
<1>1. n \in Nat /\ Len(Parts) = n + 9
  BY PartsLayout, SizeAssumption
<1>2. ASSUME NEW i \in 1..6 PROVE FirstParts[i] \in single
  BY DEF FirstParts, One
<1>3. ASSUME NEW i \in 1..3 PROVE LastParts[i] \in single \cup queues
  BY DEF LastParts, One
<1>4. ASSUME NEW i \in 1..n PROVE BufferParts[i] \in perBuffer
  <2>1. ((i - 1) % 3) + 1 \in 1..3 /\ (i - 1) \div 3 \in 0..BuffersCount - 1
    BY <1>1, SizeAssumption
  <2>2. <<"iov", "inetName", "unixName">>[((i - 1) % 3) + 1] \in {"iov", "inetName", "unixName"}
    BY <2>1
  <2> QED
    BY <2>1, <2>2 DEF BufferParts
<1>5. ASSUME NEW i \in 1..Len(Parts)
      PROVE  Parts[i] \in single \cup queues \cup perBuffer
  <2>1. CASE i \in 1..6
    BY <1>2, <2>1, PartsLayout
  <2>2. CASE i \in 7..6 + n
    <3>1. i - 6 \in 1..n /\ 6 + (i - 6) = i
      BY <1>1, <2>2
    <3>2. PICK j \in 1..n : 6 + j = i
      BY <3>1
    <3> QED
      BY <1>4, <3>2, PartsLayout
  <2>3. CASE i \in 7 + n..9 + n
    <3>1. i - 6 - n \in 1..3 /\ 6 + n + (i - 6 - n) = i
      BY <1>1, <2>3
    <3>2. PICK j \in 1..3 : 6 + n + j = i
      BY <3>1
    <3> QED
      BY <1>3, <3>2, PartsLayout
  <2> QED
    BY <1>1, <2>1, <2>2, <2>3
<1>6. AllParts \subseteq single \cup queues \cup perBuffer
  BY <1>5, PartsLength DEF AllParts
<1> QED
  BY <1>6 DEF Freed

-----------------------------------------------------------------------------
(* Counting operations.                                                      *)

LEMMA OpsFinite ==
  ASSUME NEW S, S \subseteq Op
  PROVE  IsFiniteSet(S) /\ Cardinality(S) \in Nat /\ Cardinality(S) <= Cardinality(Op)
  BY SizeAssumption, FS_Subset, FS_CardinalityType

LEMMA FewerOps ==
  ASSUME NEW S, NEW T, S \subseteq T, T \subseteq Op
  PROVE  Cardinality(S) <= Cardinality(T)
  BY OpsFinite, FS_Subset

\* With an idle operation the queue holds fewer entries than there are
\* operations.
LEMMA RoomForOne ==
  ASSUME NEW o \in Op, op[o] = "idle"
  PROVE  Cardinality(Queued) + 1 <= Cardinality(Op) /\ Cardinality(Queued \cup {o}) = Cardinality(Queued) + 1
<1>1. IsFiniteSet(Queued) /\ Cardinality(Queued) \in Nat
  BY OpsFinite DEF Queued
<1>2. Cardinality(Queued \cup {o}) = Cardinality(Queued) + 1
  BY <1>1, FS_AddElement DEF Queued
<1>3. Cardinality(Queued \cup {o}) <= Cardinality(Op)
  BY OpsFinite DEF Queued
<1> QED
  BY <1>2, <1>3

-----------------------------------------------------------------------------
LEMMA Division ==
  ASSUME NEW a \in Int, NEW n \in Nat \ {0}
  PROVE  /\ a \div n \in Int /\ (a \div n) * n + (a % n) = a /\ a % n \in 0..n - 1
         /\ a >= 0 => a \div n >= 0
  OBVIOUS

LEMMA CeilingType ==
  ASSUME NEW o \in Op
  PROVE  /\ Ceiling(o) \in Nat
         /\ Timeout[o] # Infinity =>
              /\ InSeconds(o) \in Nat /\ Ceiling(o) > InSeconds(o)
              /\ Late(o) = (InSeconds(o) + 1) * TicksPerSecond
<1>1. CASE Timeout[o] = Infinity
  BY <1>1 DEF Ceiling
<1>2. CASE Timeout[o] # Infinity
  <2>1. Timeout[o] \in Nat /\ TicksPerSecond \in Nat \ {0}
    BY <1>2, TimeAssumption
  <2>2. InSeconds(o) \in Nat
    BY <1>2, <2>1, Division DEF InSeconds
  <2>3. MaxSets * MaxBack \in Nat
    BY TimeAssumption
  <2>4. Ceiling(o) = InSeconds(o) + MaxSets * MaxBack + 1 /\ Late(o) = (InSeconds(o) + 1) * TicksPerSecond
    BY <1>2 DEF Ceiling, Late
  <2> QED
    BY <2>2, <2>3, <2>4
<1> QED
  BY <1>1, <1>2

LEMMA InitIInv == Init => IInv
<1> SUFFICES ASSUME Init PROVE IInv
  OBVIOUS
<1> USE TimeAssumption, SizeAssumption
<1>1. Tracked = {}
  BY DEF Init, Tracked
<1>2. Types
  BY <1>1 DEF Init, Types
<1>3. QueueBounded /\ StuckOnlyIfSmall
  BY OpsFinite DEF Init, QueueBounded, StuckOnlyIfSmall, Queued
<1>4. Allocated /\ DestroyExact
  BY DEF Init, Allocated, DestroyExact
<1>5. ClockBehind
  BY <1>1 DEF ClockBehind
<1> QED
  BY <1>2, <1>3, <1>4, <1>5 DEF IInv

\* A worker that is made, or fails to be made.
LEMMA InitializeIInv ==
  ASSUME IInv, NEW n \in 1..Len(Parts) + 1, Initialize(n)
  PROVE  IInv'
<1>1. UNCHANGED <<ring, ringVars, entries, clockVars>>
  BY DEF Initialize
<1>2. /\ owned' \subseteq AllParts
      /\ stage' \in {"running", "failed", "undefined"}
      /\ stage' = "running" => owned' \in {AllParts, AllParts \ {One("cqes")}}
      /\ stage' = "failed" => One("queue") \notin owned' \/ Read \subseteq owned'
      /\ stage' = "undefined" => One("queue") \notin owned'
  <2>1. CASE n > Len(Parts)
    BY <2>1 DEF Initialize
  <2>2. CASE n <= Len(Parts)
    <3>1. n \in 1..Len(Parts)
      BY <2>2, PartsLength
    <3>2. Parts[n] \in {One("events"), One("pool")} => n < Len(Parts)
      <4>1. Parts[Len(Parts)] \notin {One("events"), One("pool")}
        BY LastPart DEF One
      <4> QED
        BY <3>1, <4>1, PartsLength
    <3>3. n < Len(Parts) \/ n = Len(Parts)
      <4>1. \A k \in Nat : \A i \in 1..k : i < k \/ i = k
        OBVIOUS
      <4>2. Len(Parts) \in Nat
        BY PartsLength
      <4> QED
        BY <3>1, <4>1, <4>2, Zenon
    <3>4. /\ MadeBefore(n) \subseteq AllParts
          /\ n < Len(Parts) => One("queue") \notin MadeBefore(n)
          /\ n = Len(Parts) => Read \subseteq MadeBefore(n)
      BY <3>1, FailurePoint
    <3>5. CASE Parts[n] = One("cqes")
      <4>1. stage' = "running" /\ owned' = AllParts \ {One("cqes")}
        BY <2>2, <3>1, <3>5, PartsLength DEF Initialize
      <4> QED
        BY <4>1
    <3>6. CASE Parts[n] # One("cqes")
      <4>1. /\ owned' = MadeBefore(n)
            /\ stage' = IF Parts[n] \in {One("events"), One("pool")} THEN "undefined" ELSE "failed"
        BY <2>2, <3>1, <3>6, PartsLength DEF Initialize
      <4> QED
        BY <3>2, <3>3, <3>4, <4>1
    <3> QED
      BY <3>5, <3>6
  <2> QED
    BY <2>1, <2>2, PartsLength
<1>3. Types' /\ QueueBounded' /\ StuckOnlyIfSmall' /\ ClockBehind'
  BY <1>1, <1>2 DEF ringVars, clockVars, IInv, Types, Tracked, QueueBounded, Queued, StuckOnlyIfSmall,
       ClockBehind, Behind, Ceiling, Late, InSeconds
<1>4. Allocated' /\ DestroyExact'
  BY <1>2 DEF Allocated, DestroyExact
<1> QED
  BY <1>3, <1>4 DEF IInv

LEMMA DestroyIInv == IInv /\ Destroy => IInv'
<1> SUFFICES ASSUME IInv, Destroy PROVE IInv'
  OBVIOUS
<1>1. /\ stage \in {"failed", "running"}
      /\ sq' = 0 /\ op' = [o \in Op |-> "idle"] /\ entries' = Without(Op)
      /\ UNCHANGED <<ring, stuck, timer, phase, sets>>
      /\ \/ Read \subseteq owned /\ stage' = "destroyed" /\ owned' = Freed(owned)
         \/ ~(Read \subseteq owned) /\ stage' = "undefined" /\ owned' = owned
  BY DEF Destroy, clockVars
<1>2. Tracked' = {}
  BY <1>1 DEF Without, Tracked, IInv, Types
<1>3. Types'
  <2>1. entries' = [o \in Tracked' |-> entries'[o]]
    BY <1>1 DEF Without, Tracked
  <2>2. op' \in [Op -> {"idle", "queued", "kernel", "done"}] /\ stage' \in {"destroyed", "undefined"}
    BY <1>1
  <2>3. Tracked' \subseteq Op /\ \A o \in Tracked' : entries'[o] \in Entry
    BY <1>2
  <2> QED
    BY <1>1, <2>1, <2>2, <2>3 DEF IInv, Types
<1>4. QueueBounded' /\ StuckOnlyIfSmall'
  <2>1. Cardinality(Queued') \in Nat
    BY OpsFinite DEF Queued
  <2> QED
    BY <1>1, <2>1 DEF IInv, QueueBounded, StuckOnlyIfSmall
<1>5. Allocated' /\ DestroyExact'
  <2>1. stage = "running" => Read \subseteq owned
    BY DEF IInv, Allocated, Read
  <2> QED
    BY <1>1, <2>1, FreedAll DEF IInv, Allocated, DestroyExact
<1>6. ClockBehind'
  BY <1>2 DEF ClockBehind
<1> QED
  BY <1>3, <1>4, <1>5, <1>6 DEF IInv

\* A new operation takes one entry.
LEMMA SubmitIInv ==
  ASSUME IInv, NEW o \in Op, Submit(o)
  PROVE  IInv'
<1> USE TimeAssumption
<1>1. /\ ~stuck /\ op[o] = "idle"
      /\ stuck' = (sq + 1 > ring)
      /\ sq' = IF sq + 1 > ring THEN ring ELSE sq + 1
      /\ UNCHANGED <<stage, owned, ring, clockVars>>
      /\ \/ sq = ring /\ UNCHANGED <<op, entries>>
         \/ /\ sq # ring
            /\ op' = [op EXCEPT ![o] = "queued"]
            /\ entries' = [p \in Tracked \cup {o} |-> IF p = o THEN [seconds |-> 0, age |-> 0, forward |-> 0] ELSE entries[p]]
  BY DEF Submit, ProvideSqe, Working
<1>2. sq <= Cardinality(Queued) /\ Cardinality(Queued) \in Nat /\ Cardinality(Op) \in Nat
  BY <1>1, OpsFinite DEF IInv, QueueBounded, Queued
<1>3. Cardinality(Queued) + 1 <= Cardinality(Op) /\ Cardinality(Queued \cup {o}) = Cardinality(Queued) + 1
  BY <1>1, RoomForOne
<1>4. Allocated' /\ DestroyExact'
  BY <1>1 DEF IInv, Allocated, DestroyExact
<1>5. StuckOnlyIfSmall'
  BY <1>1, <1>2, <1>3 DEF IInv, Types, StuckOnlyIfSmall
<1>6. CASE sq = ring /\ UNCHANGED <<op, entries>>
  <2>1. Types' /\ ClockBehind'
    BY <1>1, <1>6 DEF clockVars, IInv, Types, Tracked, ClockBehind, Behind, Ceiling, Late, InSeconds
  <2>2. QueueBounded'
    <3>1. sq + 1 > ring
      BY <1>6 DEF IInv, Types
    <3> QED
      BY <1>1, <3>1 DEF QueueBounded
  <2> QED
    BY <1>4, <1>5, <2>1, <2>2 DEF IInv
<1>7. CASE /\ sq # ring
           /\ op' = [op EXCEPT ![o] = "queued"]
           /\ entries' = [p \in Tracked \cup {o} |-> IF p = o THEN [seconds |-> 0, age |-> 0, forward |-> 0] ELSE entries[p]]
  <2>1. /\ Tracked' = Tracked \cup {o}
        /\ entries'[o] = [seconds |-> 0, age |-> 0, forward |-> 0]
        /\ \A p \in Tracked : p # o => entries'[p] = entries[p]
    BY <1>7 DEF Tracked
  <2>2. Types'
    BY <1>1, <1>7, <2>1 DEF clockVars, IInv, Types, Entry
  <2>3. QueueBounded'
    <3>1. Queued' = Queued \cup {o}
      BY <1>7 DEF Queued, IInv, Types
    <3> QED
      BY <1>1, <1>2, <1>3, <3>1 DEF QueueBounded, IInv, Types
  <2>4. ClockBehind'
    <3>1. Ceiling(o) >= 0
      BY CeilingType
    <3>2. phase <= TicksPerSecond - 1 /\ phase' = phase /\ phase \in Nat
      BY <1>1 DEF clockVars, IInv, Types
    <3>3. Behind(entries[o], o)'
      BY <2>1, <3>1, <3>2 DEF Behind, Ceiling, InSeconds
    <3>4. ASSUME NEW p \in Tracked, p # o, Timeout[p] # Infinity
          PROVE  Behind(entries[p], p)'
      BY <2>1, <3>2, <3>4 DEF IInv, ClockBehind, Behind, Ceiling, Late, InSeconds
    <3> QED
      BY <2>1, <3>3, <3>4 DEF ClockBehind
  <2> QED
    BY <1>4, <1>5, <2>2, <2>3, <2>4 DEF IInv
<1> QED
  BY <1>1, <1>6, <1>7

\* Steps that only take entries away.
LEMMA WithoutKeeps ==
  ASSUME IInv, NEW E, entries' = Without(E) \/ entries' = entries, UNCHANGED <<stage, owned, ring, clockVars>>,
         sq' \in Nat, stuck' \in BOOLEAN, op' \in [Op -> {"idle", "queued", "kernel", "done"}],
         QueueBounded', StuckOnlyIfSmall'
  PROVE  IInv'
<1>1. Tracked' \subseteq Tracked /\ \A p \in Tracked' : entries'[p] = entries[p]
  BY DEF Without, Tracked
<1>2. entries' = [p \in Tracked' |-> entries'[p]]
  BY DEF Without, Tracked, IInv, Types
<1>3. Types'
  BY <1>1, <1>2 DEF clockVars, IInv, Types
<1>4. ClockBehind'
  BY <1>1 DEF clockVars, IInv, ClockBehind, Behind, Ceiling, Late, InSeconds
<1>5. Allocated' /\ DestroyExact'
  BY DEF IInv, Allocated, DestroyExact
<1> QED
  BY <1>3, <1>4, <1>5 DEF IInv

LEMMA CancelIInv ==
  ASSUME IInv, NEW E, E \subseteq Tracked, Working, Cancel(E), UNCHANGED <<stage, owned, ring, clockVars>>
  PROVE  IInv'
<1>1. E \subseteq Op
  BY DEF IInv, Types
<1>2. Cardinality(E) \in Nat /\ Cardinality(E) <= Cardinality(Op) /\ Cardinality(Op) \in Nat
  BY <1>1, OpsFinite
<1>3. sq <= Cardinality(Queued) /\ Cardinality(Queued) \in Nat /\ Cardinality(Queued) <= Cardinality(Op)
  BY OpsFinite DEF Working, IInv, QueueBounded, Queued
<1>4. CASE sq + Cardinality(E) > ring
  <2>1. stuck' = TRUE /\ sq' = ring /\ UNCHANGED <<entries, op>>
    BY <1>4 DEF Cancel, ProvideSqe
  <2>2. StuckOnlyIfSmall'
    BY <1>2, <1>3, <1>4 DEF StuckOnlyIfSmall, IInv, Types
  <2> QED
    BY <2>1, <2>2, WithoutKeeps DEF IInv, Types, QueueBounded
<1>5. CASE ~(sq + Cardinality(E) > ring)
  <2>1. sq' = 0 /\ op' = Flushed /\ entries' = Without(E) /\ stuck' = stuck
    BY <1>5 DEF Cancel
  <2>2. QueueBounded' /\ StuckOnlyIfSmall'
    <3>1. Cardinality(Queued') \in Nat
      BY OpsFinite DEF Queued
    <3> QED
      BY <2>1, <3>1 DEF QueueBounded, StuckOnlyIfSmall, IInv
  <2>3. op' \in [Op -> {"idle", "queued", "kernel", "done"}]
    BY <2>1 DEF Flushed, IInv, Types
  <2> QED
    BY <2>1, <2>2, <2>3, WithoutKeeps DEF IInv, Types
<1> QED
  BY <1>4, <1>5

LEMMA PeekIInv == IInv /\ Peek => IInv'
<1> SUFFICES ASSUME IInv, Peek PROVE IInv'
  OBVIOUS
<1>1. /\ stage = "running" /\ ~stuck /\ sq' = 0 /\ op' = Flushed
      /\ stage' = IF One("cqes") \in owned THEN stage ELSE "undefined"
      /\ UNCHANGED <<owned, ring, stuck, entries, clockVars>>
  BY DEF Peek, Working
<1>2. op' \in [Op -> {"idle", "queued", "kernel", "done"}]
  BY <1>1 DEF Flushed, IInv, Types
<1>3. Types'
  BY <1>1, <1>2 DEF clockVars, IInv, Types, Tracked
<1>4. QueueBounded' /\ StuckOnlyIfSmall'
  <2>1. Cardinality(Queued') \in Nat
    BY OpsFinite DEF Queued
  <2> QED
    BY <1>1, <2>1 DEF QueueBounded, StuckOnlyIfSmall, IInv
<1>5. Allocated' /\ DestroyExact'
  BY <1>1 DEF IInv, Allocated, DestroyExact
<1>6. ClockBehind'
  BY <1>1 DEF clockVars, IInv, ClockBehind, Behind, Tracked, Ceiling, Late, InSeconds
<1> QED
  BY <1>3, <1>4, <1>5, <1>6 DEF IInv

\* The operation of a completion leaves the kernel, and its entry goes.
LEMMA CompletionIInv ==
  ASSUME IInv, NEW o \in Op, KernelComplete(o) \/ RemoveEvent(o)
  PROVE  IInv'
<1>1. /\ op[o] \in {"kernel", "done"}
      /\ op' = [op EXCEPT ![o] = "done"] \/ op' = [op EXCEPT ![o] = "idle"]
      /\ UNCHANGED <<stage, owned, ring, sq, stuck, clockVars>>
      /\ entries' = Without({o}) \/ entries' = entries
  BY DEF KernelComplete, RemoveEvent, Working
<1>2. Queued' = Queued
  BY <1>1 DEF Queued, IInv, Types
<1>3. QueueBounded' /\ StuckOnlyIfSmall'
  BY <1>1, <1>2 DEF QueueBounded, StuckOnlyIfSmall, IInv
<1>4. op' \in [Op -> {"idle", "queued", "kernel", "done"}]
  BY <1>1 DEF IInv, Types
<1> QED
  BY <1>1, <1>3, <1>4, WithoutKeeps DEF IInv, Types

-----------------------------------------------------------------------------
(* The clock.                                                                *)

LEMMA Times ==
  ASSUME NEW s \in Int, NEW t \in Nat
  PROVE  s * t \in Int /\ (s + 1) * t = s * t + t
  OBVIOUS

LEMMA TimesMonotone ==
  ASSUME NEW a \in Int, NEW b \in Int, NEW t \in Nat, a <= b
  PROVE  a * t \in Int /\ b * t \in Int /\ a * t <= b * t
  OBVIOUS

\* The arithmetic of one entry: s and a are its seconds and what has passed and
\* was set forward, ph the ticks of the second.
LEMMA CarryKeeps ==
  ASSUME NEW s \in Int, NEW a \in Int, NEW ph \in Int, NEW ticks \in Int, NEW n \in Nat \ {0},
         s * n + ph <= a + n - 1
  PROVE  /\ s + ((ph + ticks) \div n) \in Int
         /\ (s + ((ph + ticks) \div n)) * n + ((ph + ticks) % n) <= a + ticks + n - 1
<1>1. PICK c \in Int, r \in Int : c = (ph + ticks) \div n /\ r = (ph + ticks) % n /\ c * n + r = ph + ticks
  <2>1. ph + ticks \in Int
    OBVIOUS
  <2> QED
    BY <2>1, Division
<1>2. (s + c) * n = s * n + c * n /\ s * n \in Int /\ c * n \in Int
  OBVIOUS
<1> QED
  BY <1>1, <1>2

\* The clock shows ticks more, the time that has passed or not.
LEMMA ClockKeepsBehind ==
  ASSUME IInv, NEW ticks \in Int, NEW time \in Nat, ticks <= time \/ time = 0, Clock(ticks, time),
         NEW o \in Tracked
  PROVE  /\ entries'[o] \in Entry
         /\ Timeout[o] # Infinity => Behind(entries[o], o)'
<1>1. CASE Timeout[o] = Infinity
  BY <1>1 DEF Clock, IInv, Types
<1>2. CASE Timeout[o] # Infinity
  <2>1. PICK s \in Int, a \in Nat, f \in Nat : s = entries[o].seconds /\ a = entries[o].age /\ f = entries[o].forward
    BY DEF IInv, Types, Entry
  <2>2. PICK n \in Nat \ {0}, ph \in Nat : n = TicksPerSecond /\ ph = phase
    BY TimeAssumption DEF IInv, Types
  <2>3. PICK c \in Int, r \in Int : c = (ph + ticks) \div n /\ r = (ph + ticks) % n
    <3>1. (ph + ticks) \div n \in Int /\ (ph + ticks) % n \in Int
      <4>1. ph + ticks \in Int
        OBVIOUS
      <4> QED
        BY <4>1, Division
    <3> QED
      BY <3>1, Zenon
  <2>4. PICK cap \in Nat, late \in Nat : cap = Ceiling(o) /\ late = Late(o)
    <3>1. o \in Op
      BY DEF IInv, Types
    <3>2. (InSeconds(o) + 1) * TicksPerSecond \in Nat
      BY <1>2, <3>1, CeilingType, TimeAssumption
    <3> QED
      BY <1>2, <3>1, <3>2, CeilingType
  <2>5. /\ phase' = r
        /\ entries'[o] = [seconds |-> AtMost(s + c, cap), age |-> AtMost(a + time, late),
                          forward |-> IF ticks > time THEN f + ticks ELSE f]
    BY <1>2, <2>1, <2>2, <2>3, <2>4 DEF Clock
  <2>6. PICK f2 \in Nat : f2 = (IF ticks > time THEN f + ticks ELSE f)
    OBVIOUS
  <2>7. PICK s2 \in Int, a2 \in Nat : s2 = AtMost(s + c, cap) /\ a2 = AtMost(a + time, late)
    BY DEF AtMost
  <2>8. entries'[o] = [seconds |-> s2, age |-> a2, forward |-> f2]
    BY <2>5, <2>6, <2>7
  <2>9. s2 <= cap /\ s2 <= s + c /\ (a2 = a + time \/ a2 >= late) /\ (a >= late => a2 >= late)
    BY <2>7 DEF AtMost
  <2>10. s2 * n + r <= a2 + f2 + n - 1 \/ a2 >= late
    <3>1. s * n + ph <= a + f + n - 1 \/ a >= late
      BY <1>2, <2>1, <2>2, <2>4 DEF IInv, ClockBehind, Behind
    <3>2. CASE a2 >= late
      BY <3>2
    <3>3. CASE s * n + ph <= a + f + n - 1 /\ a2 = a + time
      <4>1. (s + c) * n + r <= a + f + ticks + n - 1 /\ (s + c) * n \in Int
        BY <2>3, <3>3, CarryKeeps
      <4>2. s2 * n <= (s + c) * n /\ s2 * n \in Int
        BY <2>9, TimesMonotone
      <4>3. f + ticks <= time + f2
        BY <2>6
      <4> QED
        BY <3>3, <4>1, <4>2, <4>3
    <3> QED
      BY <2>9, <3>1, <3>2, <3>3
  <2>11. entries'[o] \in Entry
    BY <2>8 DEF Entry
  <2>12. Ceiling(o)' = Ceiling(o) /\ Late(o)' = Late(o)
    BY DEF Ceiling, Late, InSeconds
  <2>13. Behind(entries[o], o)'
    <3>1. entries'[o].seconds = s2 /\ entries'[o].age = a2 /\ entries'[o].forward = f2
      BY <2>8
    <3> QED
      BY <2>2, <2>4, <2>5, <2>9, <2>10, <2>12, <3>1 DEF Behind
  <2> QED
    BY <2>11, <2>13
<1> QED
  BY <1>1, <1>2

LEMMA ClockIInv ==
  ASSUME IInv, NEW ticks \in Int, NEW time \in Nat, ticks <= time \/ time = 0, Clock(ticks, time), sets' \in Nat
  PROVE  IInv'
<1>1. UNCHANGED <<stage, owned, ring, ringVars, timer>>
  BY DEF Clock
<1>2. Tracked' = Tracked /\ entries' = [o \in Tracked' |-> entries'[o]]
  BY DEF Clock, Tracked
<1>3. phase' \in 0..TicksPerSecond - 1
  <2>1. phase + ticks \in Int /\ TicksPerSecond \in Nat \ {0}
    BY TimeAssumption DEF IInv, Types
  <2>2. phase' = (phase + ticks) % TicksPerSecond
    BY DEF Clock
  <2> QED
    BY <2>1, <2>2, Division
<1>4. Types'
  <2>1. \A o \in Tracked' : entries'[o] \in Entry
    BY <1>2, ClockKeepsBehind
  <2> QED
    BY <1>1, <1>2, <1>3, <2>1 DEF ringVars, IInv, Types
<1>5. ClockBehind'
  BY <1>2, ClockKeepsBehind DEF ClockBehind
<1>6. QueueBounded' /\ StuckOnlyIfSmall' /\ Allocated' /\ DestroyExact'
  BY <1>1 DEF ringVars, IInv, QueueBounded, Queued, StuckOnlyIfSmall, Allocated, DestroyExact
<1> QED
  BY <1>4, <1>5, <1>6 DEF IInv

LEMMA TickIInv == IInv /\ Tick => IInv'
<1> SUFFICES ASSUME IInv, Tick PROVE IInv'
  OBVIOUS
<1>1. Clock(1, 1) /\ sets' \in Nat
  BY DEF Tick, IInv, Types
<1> QED
  BY <1>1, ClockIInv

LEMMA SetClockIInv == IInv /\ SetClock => IInv'
<1> SUFFICES ASSUME IInv, SetClock PROVE IInv'
  OBVIOUS
<1>1. PICK ticks \in (-MaxBack * TicksPerSecond..MaxForward * TicksPerSecond) \ {0} : Clock(ticks, 0)
  BY DEF SetClock
<1>2. sets' \in Nat /\ ticks \in Int
  BY DEF SetClock, IInv, Types
<1> QED
  BY <1>1, <1>2, ClockIInv

-----------------------------------------------------------------------------
LEMMA NextIInv == IInv /\ [Next]_vars => IInv'
<1> SUFFICES ASSUME IInv, [Next]_vars PROVE IInv'
  OBVIOUS
<1>1. ASSUME NEW fd, CancelByFd(fd) PROVE IInv'
  <2>1. {o \in Tracked : FdOf[o] = fd} \subseteq Tracked
    OBVIOUS
  <2> QED
    BY <1>1, <2>1, CancelIInv DEF CancelByFd
<1>2. CASE CheckEventTimeouts
  <2>1. {o \in Tracked : Due(o)} \subseteq Tracked
    OBVIOUS
  <2> QED
    BY <1>2, <2>1, CancelIInv DEF CheckEventTimeouts
<1>3. CASE StartTimer \/ StopTimer
  <2>1. UNCHANGED <<stage, owned, ring, sq, stuck, op, entries, phase, sets>> /\ timer' \in {"none", "runs", "stopped"}
    BY <1>3 DEF StartTimer, StopTimer, ringVars
  <2> QED
    BY <2>1 DEF IInv, Types, Tracked, QueueBounded, Queued, StuckOnlyIfSmall,
         Allocated, DestroyExact, ClockBehind, Behind, Ceiling, Late, InSeconds
<1>4. CASE UNCHANGED vars
  BY <1>4 DEF vars, ringVars, clockVars, IInv, Types, Tracked, QueueBounded, Queued, StuckOnlyIfSmall,
       Allocated, DestroyExact, ClockBehind, Behind, Ceiling, Late, InSeconds
<1> QED
  BY <1>1, <1>2, <1>3, <1>4, InitializeIInv, DestroyIInv, SubmitIInv, CompletionIInv, PeekIInv, TickIInv,
     SetClockIInv DEF Next

LEMMA Invariance == Spec => []IInv
  BY InitIInv, NextIInv, PTL DEF Spec

\* The isolate is caught in transport_provide_sqe only if the ring has fewer
\* entries than twice the operations that can be under way.
THEOREM NeverStuckWithRoom == Spec => []StuckOnlyIfSmall
<1>1. IInv => StuckOnlyIfSmall
  BY DEF IInv
<1> QED
  BY <1>1, Invariance, PTL

\* Destruction gives everything back, for any number of buffers and whichever
\* allocation failed, or the failure is one of those that DestroyExact names.
THEOREM DestructionIsExact == Spec => []DestroyExact
<1>1. IInv => DestroyExact
  BY DEF IInv
<1> QED
  BY <1>1, Invariance, PTL

\* When the check cancels an operation, the whole seconds of its timeout have
\* passed, of real time and of what somebody set the clock forward, or the clock
\* shows a time before the submission: for any timeouts, any resolution of the
\* clock and any number of settings.
THEOREM TimeoutsAreNotEarly == Spec => NeverEarly
<1>1. ASSUME IInv, CheckEventTimeouts, NEW o \in Tracked \ Tracked', entries[o].seconds >= 0
      PROVE  entries[o].age + entries[o].forward > InSeconds(o) * TicksPerSecond
  <2>1. Due(o)
    BY <1>1 DEF CheckEventTimeouts, Cancel, Without, Tracked
  <2>2. o \in Op /\ Timeout[o] # Infinity
    BY <1>1, <2>1 DEF IInv, Types, Due, InSeconds
  <2>3. PICK s \in Nat, a \in Nat, f \in Nat, ph \in Nat :
          s = entries[o].seconds /\ a = entries[o].age /\ f = entries[o].forward /\ ph = phase
    BY <1>1 DEF IInv, Types, Entry
  <2>4. PICK n \in Nat \ {0}, limit \in Nat, cap \in Nat :
          n = TicksPerSecond /\ limit = InSeconds(o) /\ cap = Ceiling(o) /\ Late(o) = (limit + 1) * n
    BY <2>2, TimeAssumption, CeilingType
  <2>5. /\ s <= cap
        /\ s * n + ph <= a + f + n - 1 \/ a >= (limit + 1) * n
    BY <1>1, <2>2, <2>3, <2>4 DEF IInv, ClockBehind, Behind
  <2>6. s > limit
    <3>1. cap < Modulus /\ Modulus \in Nat
      BY <2>2, <2>4, TimeAssumption
    <3>2. s \in 0..Modulus - 1
      BY <2>5, <3>1
    <3>3. s % Modulus = s
      BY <3>1, <3>2
    <3> QED
      BY <2>1, <2>3, <2>4, <3>3 DEF Due, Elapsed
  <2>7. (limit + 1) * n = limit * n + n /\ limit * n \in Int /\ (limit + 1) * n <= s * n /\ s * n \in Int
    BY <2>6, Times, TimesMonotone
  <2>8. a + f > limit * n
    BY <2>5, <2>7
  <2> QED
    BY <2>3, <2>4, <2>8
<1>2. ASSUME IInv, CheckEventTimeouts
      PROVE  \A o \in Tracked \ Tracked' :
               \/ entries[o].seconds < 0
               \/ entries[o].age + entries[o].forward > InSeconds(o) * TicksPerSecond
  <2>1. \A o \in Tracked : entries[o].seconds \in Int
    BY <1>2 DEF IInv, Types, Entry
  <2> QED
    BY <1>1, <1>2, <2>1
<1> QED
  BY <1>2, Invariance, PTL DEF NeverEarly
=============================================================================
