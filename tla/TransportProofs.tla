--------------------------- MODULE TransportProofs ---------------------------
(***************************************************************************)
(* The transport as a whole.  Its shutdown, for any number of workers and  *)
(* any channels: nothing uses a destroyed worker, the channels that the    *)
(* closer found are closed, and a shutdown that returns has destroyed the  *)
(* workers that it told to close.  Its endpoints, for any descriptors,     *)
(* paths, addresses and configurations: the descriptors of the process are *)
(* accounted for, the paths of unix sockets lead to the servers that       *)
(* listen there, and a socket has the options that were asked.  The table  *)
(* of tracked operations that each of its workers has, for any keys and    *)
(* hashes and any sequence of additions, removals and resizes: it is sound *)
(* and it implements a map.                                                *)
(***************************************************************************)
EXTENDS TransportShutdown, TransportEndpoints, EventsTable, FiniteSetTheorems, SequenceTheorems,
        WellFoundedInduction, TLAPS

Messages == {"configuration", "close"}
Statuses == {"new", "connecting", "open", "closing", "ending", "closed", "hung"}

Types ==
  /\ workerClosers \subseteq Worker
  /\ shutdown \in {"none", "waiting", "done"}
  /\ expected \in Nat
  /\ toWorker \in [Worker -> Seq(Messages)]
  /\ phase \in [Worker -> {"new", "constructed", "initializing", "running"}]
  /\ timer \subseteq Worker
  /\ active \in [Worker -> BOOLEAN]
  /\ done \subseteq Worker
  /\ status \in [Channel -> Statuses]
  /\ closing \in [Worker -> 0..4]
  /\ awaited \subseteq Channel /\ joined \subseteq Channel /\ found \subseteq Channel
  /\ destroyed \subseteq Worker

\* The loop ends only when the closer is through with the registries, and the
\* timer that the closer stopped is not started again.
LoopStops ==
  /\ \A w \in Worker : closing[w] # 0 => phase[w] = "running" /\ w \notin timer
  /\ \A w \in Worker : closing[w] = 4 => ~active[w]
  /\ \A w \in done : ~active[w]
  /\ \A w \in destroyed : closing[w] = 4 /\ w \in done

\* A worker is told to close at most once, after shutdown() began.
ToldOnce ==
  /\ \A w \in Worker : \A i, j \in 1..Len(toWorker[w]) :
       toWorker[w][i] = "close" /\ toWorker[w][j] = "close" => i = j
  /\ \A w \in Worker : closing[w] # 0 => ~Told(w)
  /\ shutdown = "none" => \A w \in Worker : closing[w] = 0 /\ ~Told(w)

\* Of a channel that the closer called close() of for a second time, what it
\* does not wait for.
Rest(c) == c \in joined /\ (Kind[c] = 3 \/ status[c] = "ending")

\* The closer goes from registry to registry.
RegistryClosed(c) ==
  /\ status[c] # "new"
  /\ closing[Host[c]] # 0 /\ status[c] # "closed" /\ ~Rest(c) =>
       /\ Kind[c] >= closing[Host[c]]
       /\ Kind[c] = closing[Host[c]] => c \in awaited \cup joined
RegistriesClosed == \A c \in found : RegistryClosed(c)

\* The workers that were told to close and did not fail.
Ending == {w \in Worker : Told(w) \/ closing[w] # 0}

\* shutdown() waits for no fewer workers than it told.
Counted ==
  /\ destroyer = Cardinality(destroyed)
  /\ shutdown # "none" =>
       /\ Cardinality(Ending) <= expected
       /\ Ending \subseteq workerClosers

IInv == Types /\ LoopStops /\ ToldOnce /\ RegistriesClosed /\ Counted

-----------------------------------------------------------------------------
LEMMA WorkersFinite ==
  ASSUME NEW S, S \subseteq Worker
  PROVE  IsFiniteSet(S) /\ Cardinality(S) \in Nat
  BY WorkerAssumption, FS_Subset, FS_CardinalityType

LEMMA Fewer ==
  ASSUME NEW S, NEW T, S \subseteq T, T \subseteq Worker
  PROVE  Cardinality(S) <= Cardinality(T)
  BY WorkersFinite, FS_Subset

\* What the first message of a queue says, and what is left behind it.
LEMMA Taking ==
  ASSUME NEW s \in Seq(Messages), s # <<>>
  PROVE  /\ Tail(s) \in Seq(Messages)
         /\ Head(s) = s[1] /\ 1 \in 1..Len(s)
         /\ Len(Tail(s)) = Len(s) - 1
         /\ \A i \in 1..Len(Tail(s)) : i + 1 \in 1..Len(s) /\ Tail(s)[i] = s[i + 1]
<1>1. Len(s) \in Nat \ {0}
  BY EmptySeq
<1> QED
  BY <1>1

LEMMA Sending ==
  ASSUME NEW s \in Seq(Messages), NEW x \in Messages
  PROVE  /\ Append(s, x) \in Seq(Messages)
         /\ Len(Append(s, x)) = Len(s) + 1
         /\ Append(s, x)[Len(s) + 1] = x
         /\ \A i \in 1..Len(s) : Append(s, x)[i] = s[i]
  OBVIOUS

-----------------------------------------------------------------------------
LEMMA InitIInv == Init => IInv
<1> SUFFICES ASSUME Init PROVE IInv
  OBVIOUS
<1>1. Types
  BY DEF Init, Types, Statuses
<1>2. LoopStops /\ RegistriesClosed
  BY DEF Init, LoopStops, RegistriesClosed, RegistryClosed, Rest
<1>3. ToldOnce
  BY DEF Init, ToldOnce, Told
<1>4. Counted
  BY FS_EmptySet DEF Init, Counted
<1> QED
  BY <1>1, <1>2, <1>3, <1>4 DEF IInv

\* Steps that send no message of shutdown() and take none.
LEMMA QuietKeepsTold ==
  ASSUME IInv, UNCHANGED <<shutdown, expected, closing, destroyer, destroyed>>,
         workerClosers \subseteq workerClosers',
         toWorker' \in [Worker -> Seq(Messages)],
         \A w \in Worker : Told(w)' => Told(w),
         \A w \in Worker : \A i, j \in 1..Len(toWorker'[w]) :
           toWorker'[w][i] = "close" /\ toWorker'[w][j] = "close" => i = j
  PROVE  ToldOnce' /\ Counted'
<1>1. ToldOnce'
  BY DEF IInv, ToldOnce, Types
<1>2. Ending' \subseteq Ending
  BY DEF Ending
<1>3. Cardinality(Ending') <= Cardinality(Ending)
  BY <1>2, Fewer DEF Ending
<1>4. Cardinality(Ending') \in Nat /\ Cardinality(Ending) \in Nat
  BY WorkersFinite, <1>2 DEF Ending
<1>5. Counted'
  BY <1>2, <1>3, <1>4 DEF IInv, Types, Counted
<1> QED
  BY <1>1, <1>5

LEMMA RegisterIInv ==
  ASSUME IInv, NEW w \in Worker, Register(w)
  PROVE  IInv'
<1>1. /\ workerClosers \subseteq workerClosers' /\ workerClosers' \subseteq Worker
      /\ \/ toWorker' = toWorker
         \/ toWorker' = [toWorker EXCEPT ![w] = Append(toWorker[w], "configuration")]
      /\ UNCHANGED <<shutdown, expected, destroyer, loopVars, status, closerVars>>
  BY DEF Register, IInv, Types
<1>2. toWorker[w] \in Seq(Messages) /\ "configuration" \in Messages /\ "configuration" # "close"
  BY DEF IInv, Types, Messages
<1>3. toWorker' \in [Worker -> Seq(Messages)]
  <2>1. Append(toWorker[w], "configuration") \in Seq(Messages)
    BY <1>2, Sending
  <2>2. toWorker \in [Worker -> Seq(Messages)]
    BY DEF IInv, Types
  <2> QED
    BY <1>1, <2>1, <2>2
<1>4. \A v \in Worker : \A i \in 1..Len(toWorker'[v]) :
        toWorker'[v][i] = "close" => i \in 1..Len(toWorker[v]) /\ toWorker[v][i] = "close"
  <2>1. CASE toWorker' = toWorker
    BY <2>1
  <2>2. CASE toWorker' = [toWorker EXCEPT ![w] = Append(toWorker[w], "configuration")]
    BY <1>2, <2>2, Sending DEF IInv, Types
  <2> QED
    BY <1>1, <2>1, <2>2
<1>5. ToldOnce' /\ Counted'
  <2>1. \A v \in Worker : Told(v)' => Told(v)
    BY <1>4 DEF Told
  <2>2. \A v \in Worker : \A i, j \in 1..Len(toWorker'[v]) :
          toWorker'[v][i] = "close" /\ toWorker'[v][j] = "close" => i = j
    BY <1>4 DEF IInv, ToldOnce
  <2> QED
    BY <1>1, <1>3, <2>1, <2>2, QuietKeepsTold DEF loopVars, closerVars
<1>6. Types' /\ LoopStops' /\ RegistriesClosed'
  BY <1>1, <1>3 DEF loopVars, closerVars, IInv, Types, LoopStops, RegistriesClosed, RegistryClosed, Rest
<1> QED
  BY <1>5, <1>6 DEF IInv

LEMMA ShutdownIInv == IInv /\ Shutdown => IInv'
<1> SUFFICES ASSUME IInv, Shutdown PROVE IInv'
  OBVIOUS
<1>1. /\ shutdown = "none" /\ shutdown' = "waiting"
      /\ expected' = Cardinality(workerClosers)
      /\ toWorker' = [w \in Worker |-> IF w \in workerClosers THEN Append(toWorker[w], "close") ELSE toWorker[w]]
      /\ UNCHANGED <<workerClosers, destroyer, loopVars, status, closerVars>>
  BY DEF Shutdown, Expected
<1>2. \A w \in Worker : closing[w] = 0 /\ ~Told(w)
  BY <1>1 DEF IInv, ToldOnce
<1>3. "close" \in Messages /\ \A w \in Worker : toWorker[w] \in Seq(Messages)
  BY DEF IInv, Types, Messages
<1>4. toWorker' \in [Worker -> Seq(Messages)]
  BY <1>1, <1>3, Sending
<1>5. \A w \in Worker : \A i \in 1..Len(toWorker'[w]) :
        toWorker'[w][i] = "close" => w \in workerClosers /\ i = Len(toWorker[w]) + 1
  <2> SUFFICES ASSUME NEW w \in Worker, NEW i \in 1..Len(toWorker'[w]), toWorker'[w][i] = "close"
               PROVE  w \in workerClosers /\ i = Len(toWorker[w]) + 1
    OBVIOUS
  <2>1. \A j \in 1..Len(toWorker[w]) : toWorker[w][j] # "close"
    BY <1>2 DEF Told
  <2>2. w \in workerClosers
    BY <1>1, <2>1
  <2>3. toWorker'[w] = Append(toWorker[w], "close")
    BY <1>1, <2>2
  <2>4. Len(toWorker'[w]) = Len(toWorker[w]) + 1
    BY <1>3, <2>3, Sending
  <2>5. \A j \in 1..Len(toWorker[w]) : toWorker'[w][j] # "close"
    BY <1>3, <2>1, <2>3, Sending
  <2>6. Len(toWorker[w]) \in Nat
    BY <1>3
  <2> QED
    BY <2>2, <2>4, <2>5, <2>6
<1>6. Ending' \subseteq workerClosers
  BY <1>1, <1>2, <1>5 DEF Ending, Told, closerVars
<1>7. expected' \in Nat /\ Cardinality(Ending') <= expected'
  BY <1>1, <1>6, Fewer, WorkersFinite DEF IInv, Types
<1>8. Types'
  BY <1>1, <1>4, <1>7 DEF loopVars, closerVars, IInv, Types
<1>9. LoopStops' /\ RegistriesClosed'
  BY <1>1 DEF loopVars, closerVars, IInv, LoopStops, RegistriesClosed, RegistryClosed, Rest
<1>10. ToldOnce'
  BY <1>1, <1>2, <1>5 DEF ToldOnce, closerVars
<1>11. Counted'
  BY <1>1, <1>6, <1>7 DEF IInv, Counted, closerVars
<1> QED
  BY <1>8, <1>9, <1>10, <1>11 DEF IInv

\* A message taken from the queue of a worker.
LEMMA TakingKeepsTold ==
  ASSUME IInv, NEW w \in Worker, toWorker[w] # <<>>,
         toWorker' = [toWorker EXCEPT ![w] = Tail(toWorker[w])]
  PROVE  /\ toWorker' \in [Worker -> Seq(Messages)]
         /\ \A v \in Worker : Told(v)' => Told(v)
         /\ \A v \in Worker : \A i, j \in 1..Len(toWorker'[v]) :
              toWorker'[v][i] = "close" /\ toWorker'[v][j] = "close" => i = j
         /\ Head(toWorker[w]) = "close" => ~Told(w)'
<1> DEFINE s == toWorker[w]
<1>1. s \in Seq(Messages)
  BY DEF IInv, Types
<1>2. /\ Tail(s) \in Seq(Messages)
      /\ Head(s) = s[1] /\ 1 \in 1..Len(s)
      /\ \A i \in 1..Len(Tail(s)) : i + 1 \in 1..Len(s) /\ Tail(s)[i] = s[i + 1]
  BY <1>1, Taking
<1>3. toWorker'[w] = Tail(s) /\ \A v \in Worker : v # w => toWorker'[v] = toWorker[v]
  BY DEF IInv, Types
<1>4. toWorker' \in [Worker -> Seq(Messages)]
  BY <1>2 DEF IInv, Types
<1>5. \A v \in Worker : Told(v)' => Told(v)
  BY <1>2, <1>3 DEF Told
<1>6. \A i, j \in 1..Len(s) : s[i] = "close" /\ s[j] = "close" => i = j
  BY DEF IInv, ToldOnce
<1>7. ASSUME NEW v \in Worker, NEW i \in 1..Len(toWorker'[v]), NEW j \in 1..Len(toWorker'[v]),
             toWorker'[v][i] = "close", toWorker'[v][j] = "close"
      PROVE  i = j
  <2>1. CASE v = w
    <3>1. i + 1 = j + 1
      BY <1>2, <1>3, <1>6, <1>7, <2>1
    <3> QED
      BY <3>1, <1>2, <1>3, <2>1
  <2>2. CASE v # w
    BY <1>3, <1>7, <2>2 DEF IInv, ToldOnce
  <2> QED
    BY <2>1, <2>2
<1>8. Head(s) = "close" => ~Told(w)'
  <2> SUFFICES ASSUME s[1] = "close", NEW i \in 1..Len(Tail(s)), Tail(s)[i] = "close"
               PROVE  FALSE
    BY <1>2, <1>3 DEF Told
  <2>1. i + 1 = 1
    BY <1>2, <1>6
  <2> QED
    BY <2>1, <1>2
<1> QED
  BY <1>4, <1>5, <1>7, <1>8

LEMMA ConfigureIInv ==
  ASSUME IInv, NEW w \in Worker, Configure(w)
  PROVE  IInv'
<1>1. /\ toWorker[w] # <<>>
      /\ toWorker' = [toWorker EXCEPT ![w] = Tail(toWorker[w])]
      /\ UNCHANGED <<transportVars, destroyer, active, done, status, closerVars>>
      /\ \/ phase[w] = "initializing" /\ phase' = [phase EXCEPT ![w] = "running"] /\ timer' = timer \cup {w}
         \/ phase' = phase /\ timer' = timer
  BY DEF Configure, Run
<1>2. /\ toWorker' \in [Worker -> Seq(Messages)]
      /\ \A v \in Worker : Told(v)' => Told(v)
      /\ \A v \in Worker : \A i, j \in 1..Len(toWorker'[v]) :
           toWorker'[v][i] = "close" /\ toWorker'[v][j] = "close" => i = j
  BY <1>1, TakingKeepsTold
<1>3. ToldOnce' /\ Counted'
  BY <1>1, <1>2, QuietKeepsTold DEF transportVars, closerVars
<1>4. Types' /\ LoopStops' /\ RegistriesClosed'
  BY <1>1, <1>2 DEF transportVars, closerVars, IInv, Types, LoopStops, RegistriesClosed, RegistryClosed, Rest
<1> QED
  BY <1>3, <1>4 DEF IInv

LEMMA InitializeIInv ==
  ASSUME IInv, NEW w \in Worker, Initialize(w)
  PROVE  IInv'
<1>1. /\ phase[w] = "constructed"
      /\ \/ phase' = [phase EXCEPT ![w] = "running"] /\ timer' = timer \cup {w}
         \/ phase' = [phase EXCEPT ![w] = "initializing"] /\ timer' = timer
      /\ UNCHANGED <<transportVars, messageVars, active, done, status, closerVars>>
  BY DEF Initialize, Run
<1>2. Types' /\ LoopStops' /\ RegistriesClosed'
  BY <1>1 DEF transportVars, messageVars, closerVars, IInv, Types, LoopStops, RegistriesClosed, RegistryClosed, Rest
<1>3. ToldOnce' /\ Counted'
  BY <1>1 DEF transportVars, messageVars, closerVars, IInv, ToldOnce, Counted, Ending, Told
<1> QED
  BY <1>2, <1>3 DEF IInv

\* What becomes of the channels that a closer calls close() of.
LEMMA JoinFacts ==
  ASSUME IInv, NEW w \in Worker, NEW kind \in 1..3, Join(w, kind)
  PROVE  /\ status' \in [Channel -> Statuses]
         /\ awaited' \subseteq Channel /\ joined' \subseteq Channel
         /\ awaited \subseteq awaited' /\ joined \subseteq joined'
         /\ \A c \in Channel : status[c] # "open" => status'[c] = status[c]
         /\ \A c \in Channel : status[c] = "open" => status'[c] \in {"open", "closing"}
         /\ \A c \in Channel : Host[c] = w /\ Kind[c] = kind /\ status[c] \notin {"new", "closed"}
                               => c \in awaited' \cup joined'
  BY DEF Join, Registered, IInv, Types, Statuses

\* That disturbs no channel that the closer found.
LEMMA JoinKeeps ==
  ASSUME IInv, NEW w \in Worker, NEW kind \in 1..3, Join(w, kind),
         NEW c \in Channel, RegistryClosed(c), closing'[Host[c]] = closing[Host[c]]
  PROVE  RegistryClosed(c)'
<1>1. /\ awaited \subseteq awaited' /\ joined \subseteq joined'
      /\ status[c] # "open" => status'[c] = status[c]
      /\ status[c] = "open" => status'[c] \in {"open", "closing"}
  BY JoinFacts
<1> QED
  BY <1>1 DEF RegistryClosed, Rest

LEMMA CloserIInv ==
  ASSUME IInv, NEW w \in Worker, Closer(w)
  PROVE  IInv'
<1>1. /\ toWorker[w] # <<>> /\ Head(toWorker[w]) = "close"
      /\ toWorker' = [toWorker EXCEPT ![w] = Tail(toWorker[w])]
      /\ UNCHANGED <<transportVars, destroyer, phase, active, done, destroyed>>
      /\ \/ /\ phase[w] = "running"
            /\ timer' = timer \ {w}
            /\ closing' = [closing EXCEPT ![w] = 1]
            /\ Join(w, 1)
            /\ found' = found \cup Registered(w)
         \/ UNCHANGED <<timer, status, closing, awaited, joined, found>>
  BY DEF Closer, StopTimer, Await
<1>2. /\ toWorker' \in [Worker -> Seq(Messages)]
      /\ \A v \in Worker : Told(v)' => Told(v)
      /\ \A v \in Worker : \A i, j \in 1..Len(toWorker'[v]) :
           toWorker'[v][i] = "close" /\ toWorker'[v][j] = "close" => i = j
      /\ ~Told(w)'
  BY <1>1, TakingKeepsTold
<1>3. Told(w) /\ closing[w] = 0
  <2>1. toWorker[w] \in Seq(Messages)
    BY DEF IInv, Types
  <2>2. Told(w)
    BY <1>1, <2>1, Taking DEF Told
  <2> QED
    BY <2>2 DEF IInv, Types, ToldOnce
<1>4. Types'
  <2>1. timer' \subseteq Worker /\ closing' \in [Worker -> 0..4]
    <3>1. closing \in [Worker -> 0..4] /\ 1 \in 0..4 /\ timer \subseteq Worker
      BY DEF IInv, Types
    <3> QED
      BY <1>1, <3>1
  <2>2. /\ status' \in [Channel -> Statuses]
        /\ awaited' \subseteq Channel /\ joined' \subseteq Channel /\ found' \subseteq Channel
    BY <1>1, JoinFacts DEF IInv, Types, Registered
  <2> QED
    BY <1>1, <1>2, <2>1, <2>2 DEF transportVars, IInv, Types
<1>5. LoopStops'
  BY <1>1, <1>3 DEF transportVars, IInv, Types, LoopStops
<1>6. ToldOnce'
  BY <1>1, <1>2, <1>3 DEF transportVars, IInv, Types, ToldOnce
<1>7. RegistriesClosed'
  <2>1. CASE UNCHANGED <<timer, status, closing, awaited, joined, found>>
    BY <2>1 DEF IInv, RegistriesClosed, RegistryClosed, Rest
  <2>2. CASE Join(w, 1) /\ closing' = [closing EXCEPT ![w] = 1] /\ found' = found \cup Registered(w)
    <3>1. ASSUME NEW c \in found', Host[c] = w
          PROVE  RegistryClosed(c)'
      <4>1. c \in Channel /\ status[c] # "new" /\ Kind[c] \in 1..3
        BY <2>2, <3>1, KindAssumption DEF IInv, Types, RegistriesClosed, RegistryClosed, Registered
      <4>2. closing'[w] = 1
        BY <2>2 DEF IInv, Types
      <4>3. /\ status'[c] # "new" /\ (status'[c] = "closed" <=> status[c] = "closed")
            /\ Kind[c] = 1 /\ status[c] # "closed" => c \in awaited' \cup joined'
        BY <2>2, <3>1, <4>1, JoinFacts
      <4> QED
        BY <3>1, <4>1, <4>2, <4>3 DEF RegistryClosed
    <3>2. ASSUME NEW c \in found', Host[c] # w
          PROVE  RegistryClosed(c)'
      <4>1. c \in found /\ c \in Channel /\ RegistryClosed(c)
        BY <2>2, <3>2 DEF IInv, Types, RegistriesClosed, Registered
      <4>2. closing'[Host[c]] = closing[Host[c]]
        BY <2>2, <3>2 DEF IInv, Types
      <4> QED
        BY <2>2, <4>1, <4>2, JoinKeeps
    <3> QED
      BY <3>1, <3>2 DEF RegistriesClosed, RegistryClosed
  <2> QED
    BY <1>1, <2>1, <2>2
<1>8. Counted'
  <2>1. Ending' \subseteq Ending
    BY <1>1, <1>2, <1>3 DEF Ending, IInv, Types
  <2>2. Cardinality(Ending') <= Cardinality(Ending) /\ Cardinality(Ending') \in Nat /\ Cardinality(Ending) \in Nat
    BY <2>1, Fewer, WorkersFinite DEF Ending
  <2> QED
    BY <1>1, <2>1, <2>2 DEF transportVars, IInv, Types, Counted
<1> QED
  BY <1>4, <1>5, <1>6, <1>7, <1>8 DEF IInv

LEMMA NextRegistryIInv ==
  ASSUME IInv, NEW w \in Worker, NextRegistry(w)
  PROVE  IInv'
<1>1. /\ closing[w] \in 1..3
      /\ Awaited(w)
      /\ UNCHANGED <<transportVars, messageVars, phase, timer, done, found, destroyed>>
      /\ \/ /\ closing' = [closing EXCEPT ![w] = closing[w] + 1]
            /\ Join(w, closing[w] + 1)
            /\ active' = active /\ closing[w] < 3
         \/ /\ closing' = [closing EXCEPT ![w] = 4]
            /\ active' = [active EXCEPT ![w] = FALSE]
            /\ UNCHANGED <<status, awaited, joined>> /\ closing[w] = 3
  BY DEF NextRegistry, Await, Registries, IInv, Types
<1>2. /\ closing'[w] = closing[w] + 1
      /\ closing'[w] \in 2..4
      /\ closing'[w] < 4 => active' = active /\ Join(w, closing'[w])
      /\ closing'[w] = 4 => UNCHANGED <<status, awaited, joined>>
      /\ closing'[w] = 4 => ~active'[w]
      /\ active'[w] => active[w]
      /\ \A v \in Worker : v # w => closing'[v] = closing[v] /\ active'[v] = active[v]
  BY <1>1 DEF IInv, Types
<1>3. Types'
  <2>1. closing' \in [Worker -> 0..4]
    <3>1. closing \in [Worker -> 0..4] /\ closing[w] + 1 \in 0..4 /\ 4 \in 0..4
      BY <1>1 DEF IInv, Types
    <3> QED
      BY <1>1, <3>1
  <2>2. /\ status' \in [Channel -> Statuses]
        /\ awaited' \subseteq Channel /\ joined' \subseteq Channel
    <3>1. CASE closing'[w] < 4
      BY <1>2, <3>1, JoinFacts
    <3>2. CASE closing'[w] = 4
      BY <1>2, <3>2 DEF IInv, Types
    <3> QED
      BY <1>2, <3>1, <3>2
  <2>3. active' \in [Worker -> BOOLEAN]
    BY <1>1 DEF IInv, Types
  <2> QED
    BY <1>1, <2>1, <2>2, <2>3 DEF transportVars, messageVars, IInv, Types
<1>4. LoopStops'
  <2>1. \A v \in Worker : closing'[v] # 0 => closing[v] # 0
    BY <1>1, <1>2
  <2>2. \A v \in Worker : closing'[v] = 4 => ~active'[v]
    BY <1>2 DEF IInv, LoopStops
  <2>3. \A v \in done : ~active'[v]
    <3>1. done \subseteq Worker /\ \A v \in done : ~active[v]
      BY DEF IInv, Types, LoopStops
    <3> QED
      BY <1>2, <3>1
  <2>4. \A v \in destroyed : closing'[v] = 4 /\ v \in done
    <3>1. destroyed \subseteq Worker /\ \A v \in destroyed : closing[v] = 4 /\ v \in done
      BY DEF IInv, Types, LoopStops
    <3> QED
      BY <1>1, <1>2, <3>1
  <2> QED
    BY <1>1, <2>1, <2>2, <2>3, <2>4 DEF IInv, LoopStops
<1>9. RegistriesClosed'
  <2> SUFFICES ASSUME NEW c \in found PROVE RegistryClosed(c)'
    BY <1>1 DEF RegistriesClosed
  <2>1. c \in Channel /\ RegistryClosed(c) /\ Host[c] \in Worker /\ Kind[c] \in 1..3
    BY KindAssumption DEF IInv, Types, RegistriesClosed
  <2>2. CASE Host[c] # w
    <3>1. closing'[Host[c]] = closing[Host[c]]
      BY <1>2, <2>1, <2>2
    <3>2. CASE closing'[w] < 4
      BY <1>2, <2>1, <3>1, <3>2, JoinKeeps
    <3>3. CASE closing'[w] = 4
      BY <1>2, <2>1, <3>1, <3>3 DEF RegistryClosed, Rest
    <3> QED
      BY <1>2, <3>2, <3>3
  <2>3. CASE Host[c] = w
    <3>1. ASSUME status[c] # "closed", ~Rest(c)
          PROVE  Kind[c] > closing[w]
      <4>1. Kind[c] >= closing[w] /\ (Kind[c] = closing[w] => c \in awaited \cup joined)
        BY <1>1, <2>1, <2>3, <3>1 DEF RegistryClosed
      <4>2. c \notin awaited /\ c \notin joined
        BY <1>1, <2>3, <3>1 DEF Awaited, Rest
      <4> QED
        BY <1>1, <2>1, <4>1, <4>2
    <3>2. CASE closing'[w] = 4
      BY <1>1, <1>2, <2>1, <2>3, <3>1, <3>2 DEF RegistryClosed, Rest
    <3>3. CASE closing'[w] < 4
      <4>1. /\ joined \subseteq joined'
            /\ status[c] # "open" => status'[c] = status[c]
            /\ status[c] = "open" => status'[c] \in {"open", "closing"}
            /\ Kind[c] = closing'[w] /\ status[c] \notin {"new", "closed"} => c \in awaited' \cup joined'
        BY <1>2, <2>1, <2>3, <3>3, JoinFacts
      <4>2. status[c] # "new"
        BY <2>1 DEF RegistryClosed
      <4>3. CASE status[c] = "closed" \/ Rest(c)
        BY <2>1, <4>1, <4>2, <4>3 DEF RegistryClosed, Rest
      <4>4. CASE status[c] # "closed" /\ ~Rest(c)
        <5>1. Kind[c] >= closing'[w]
          BY <1>1, <1>2, <2>1, <3>1, <4>4
        <5>2. status'[c] # "new" /\ (Kind[c] = closing'[w] => c \in awaited' \cup joined')
          BY <4>1, <4>2, <4>4
        <5> QED
          BY <2>3, <5>1, <5>2 DEF RegistryClosed
      <4> QED
        BY <4>3, <4>4
    <3> QED
      BY <1>2, <3>2, <3>3
  <2> QED
    BY <2>2, <2>3
<1>5. /\ \A v \in Worker : closing'[v] # 0 <=> closing[v] # 0
      /\ \A v \in Worker : Told(v)' <=> Told(v)
  BY <1>1 DEF messageVars, Told, IInv, Types
<1>6. ToldOnce'
  BY <1>1, <1>5 DEF transportVars, messageVars, IInv, ToldOnce
<1>7. Ending' = Ending
  BY <1>5 DEF Ending
<1>8. Counted'
  BY <1>1, <1>7 DEF transportVars, messageVars, IInv, Counted
<1> QED
  BY <1>3, <1>4, <1>6, <1>8, <1>9 DEF IInv

LEMMA DestroyIInv ==
  ASSUME IInv, NEW w \in Worker, Destroy(w)
  PROVE  IInv'
<1>1. /\ closing[w] = 4 /\ w \in done /\ w \notin destroyed
      /\ destroyed' = destroyed \cup {w}
      /\ destroyer' = destroyer + 1
      /\ UNCHANGED <<transportVars, toWorker, loopVars, status, closing, awaited, joined, found>>
  BY DEF Destroy, NotifyTransport
<1>2. Types' /\ LoopStops' /\ ToldOnce' /\ RegistriesClosed'
  BY <1>1 DEF transportVars, loopVars, IInv, Types, LoopStops, ToldOnce, Told, RegistriesClosed, RegistryClosed, Rest
<1>3. Cardinality(destroyed') = Cardinality(destroyed) + 1
  BY <1>1, WorkersFinite, FS_AddElement DEF IInv, Types
<1>4. Ending' = Ending
  BY <1>1 DEF Ending, Told
<1>5. Counted'
  BY <1>1, <1>3, <1>4 DEF transportVars, IInv, Counted
<1> QED
  BY <1>2, <1>5 DEF IInv

\* A channel goes on.
LEMMA ChannelIInv ==
  ASSUME IInv, NEW c \in Channel,
         Open(c) \/ Connect(c) \/ CancelConnect(c) \/ BeginClose(c) \/ Settle(c) \/ Remove(c)
  PROVE  IInv'
<1>1. PICK next \in Statuses \ {"new"} :
        /\ Becomes(c, next)
        /\ status[c] # "closed"
        /\ status[c] = "ending" => next = "closed"
  BY DEF Open, Connect, CancelConnect, BeginClose, Settle, Remove, Statuses
<1>2. /\ status' = [status EXCEPT ![c] = next]
      /\ UNCHANGED <<transportVars, messageVars, loopVars, closerVars>>
  BY <1>1 DEF Becomes
<1>3. Types' /\ LoopStops' /\ ToldOnce' /\ Counted'
  BY <1>2 DEF transportVars, messageVars, loopVars, closerVars, IInv, Types, LoopStops, ToldOnce, Told,
       Counted, Ending
<1>4. RegistriesClosed'
  <2> SUFFICES ASSUME NEW d \in found PROVE RegistryClosed(d)'
    BY <1>2 DEF RegistriesClosed, closerVars
  <2>1. RegistryClosed(d) /\ d \in Channel
    BY DEF IInv, Types, RegistriesClosed
  <2>2. status'[d] = status[d] \/ (d = c /\ status'[d] = next)
    BY <1>2, <2>1 DEF IInv, Types
  <2> QED
    BY <1>1, <1>2, <2>1, <2>2 DEF RegistryClosed, Rest, closerVars
<1> QED
  BY <1>3, <1>4 DEF IInv

LEMMA NextIInv == IInv /\ [Next]_vars => IInv'
<1> SUFFICES ASSUME IInv, [Next]_vars PROVE IInv'
  OBVIOUS
<1>1. CASE Shutdown
  BY <1>1, ShutdownIInv
<1>2. CASE ShutdownEnds
  BY <1>2 DEF ShutdownEnds, messageVars, loopVars, closerVars, IInv, Types, LoopStops,
       ToldOnce, Told, RegistriesClosed, RegistryClosed, Rest, Counted, Ending
<1>3. ASSUME NEW w \in Worker, Construct(w)
      PROVE  IInv'
  BY <1>3 DEF Construct, transportVars, closerVars, IInv, Types, LoopStops,
       ToldOnce, Told, RegistriesClosed, RegistryClosed, Rest, Counted, Ending
<1>4. ASSUME NEW w \in Worker, EndLoop(w)
      PROVE  IInv'
  BY <1>4 DEF EndLoop, transportVars, messageVars, closerVars, IInv, Types, LoopStops,
       ToldOnce, Told, RegistriesClosed, RegistryClosed, Rest, Counted, Ending
<1>5. ASSUME NEW c \in Channel,
             Open(c) \/ Connect(c) \/ CancelConnect(c) \/ BeginClose(c) \/ Settle(c) \/ Remove(c)
      PROVE  IInv'
  BY <1>5, ChannelIInv
<1>7. CASE UNCHANGED vars
  BY <1>7 DEF vars, transportVars, messageVars, loopVars, closerVars, IInv, Types, LoopStops,
       ToldOnce, Told, RegistriesClosed, RegistryClosed, Rest, Counted, Ending
<1> QED
  BY <1>1, <1>2, <1>3, <1>4, <1>5, <1>7, RegisterIInv, InitializeIInv, ConfigureIInv, CloserIInv,
     NextRegistryIInv, DestroyIInv DEF Next

LEMMA Invariance == Spec => []IInv
  BY InitIInv, NextIInv, PTL DEF Spec

-----------------------------------------------------------------------------
\* The loop of a destroyed worker has ended, and its timer is stopped.  (Its channels
\* are not meant: one that is opened late may still use its memory.)
THEOREM DestroyedUnused == Spec => []NoUseAfterDestroy
<1>1. IInv => NoUseAfterDestroy
  BY DEF IInv, Types, LoopStops, NoUseAfterDestroy
<1> QED
  BY <1>1, Invariance, PTL

\* A destroyed worker has closed every channel that its closer found, except those
\* that the application was closing itself.
THEOREM ChannelsClosedFirst == Spec => []FoundChannelsClosed
<1>1. IInv => FoundChannelsClosed
  <2> SUFFICES ASSUME IInv, NEW c \in found, Host[c] \in destroyed, status[c] # "closed"
               PROVE  Rest(c)
    BY DEF FoundChannelsClosed, Rest
  <2>1. closing[Host[c]] = 4
    BY DEF IInv, Types, LoopStops
  <2>2. Kind[c] \in 1..3
    BY KindAssumption DEF IInv, Types
  <2>3. ~Rest(c) => Kind[c] >= 4
    BY <2>1 DEF IInv, RegistriesClosed, RegistryClosed
  <2> QED
    BY <2>2, <2>3
<1> QED
  BY <1>1, Invariance, PTL

\* shutdown() returns only when each worker that it told to close is destroyed.
THEOREM ShutdownIsComplete == Spec => ShutdownDestroysWorkers
<1>1. ASSUME IInv, [Next]_vars, shutdown' = "done", shutdown = "waiting"
      PROVE  Cardinality(destroyed) = expected /\ destroyed \subseteq workerClosers
  <2>1. destroyer >= expected
    BY <1>1 DEF Next, vars, transportVars, ShutdownEnds, Enough, Shutdown, Register, Construct, Initialize,
         Configure, EndLoop, Closer, NextRegistry, Destroy, Open, Connect, CancelConnect, BeginClose,
         Settle, Remove, Becomes, Join, Await
  <2>2. destroyed \subseteq Ending
    BY <1>1 DEF IInv, Types, LoopStops, Ending
  <2>3. Cardinality(destroyed) <= Cardinality(Ending) /\ Cardinality(destroyed) \in Nat /\ Cardinality(Ending) \in Nat
    BY <2>2, Fewer, WorkersFinite DEF Ending
  <2>4. destroyer = Cardinality(destroyed) /\ Cardinality(Ending) <= expected /\ Ending \subseteq workerClosers
    BY <1>1 DEF IInv, Counted
  <2> QED
    BY <1>1, <2>1, <2>2, <2>3, <2>4 DEF IInv, Types
<1>2. IInv /\ [Next]_vars =>
        (shutdown' = "done" /\ shutdown = "waiting" =>
           Cardinality(destroyed) = expected /\ destroyed \subseteq workerClosers)
  BY <1>1
<1> QED
  BY <1>2, Invariance, PTL DEF Spec, ShutdownDestroysWorkers

-----------------------------------------------------------------------------
(* The endpoints.                                                            *)

Endpoint == [kind : EndpointKind, path : Path \cup {None}, connecting : BOOLEAN]

\* Unix endpoints have a path.
EndpointTypes ==
  /\ open \subseteq Fd
  /\ leaked \subseteq Fd
  /\ DOMAIN registered \subseteq Fd
  /\ registered = [fd \in DOMAIN registered |-> registered[fd]]
  /\ \A fd \in DOMAIN registered :
       registered[fd] \in Endpoint /\ (Unix(registered[fd].kind) => registered[fd].path \in Path)
  /\ files \in [Path -> Fd \cup {None, Stale}]

-----------------------------------------------------------------------------
\* The kernel's choice is a free descriptor.
LEMMA LowestIsFree ==
  ASSUME Free # {}
  PROVE  Lowest \in Free
<1>1. Free \subseteq Nat
  BY FdAssumption, NoneAssumption DEF Free
<1>2. PICK fd \in Free : \A other \in Free : ~(<<other, fd>> \in OpToRel(<, Nat))
  BY <1>1, NatLessThanWellFounded, WFMin
<1>3. \A other \in Free : ~(other < fd)
  BY <1>1, <1>2 DEF OpToRel
<1>4. \A other \in Free : fd <= other
  BY <1>1, <1>3
<1> QED
  BY <1>4 DEF Lowest

\* What a registration adds.
LEMMA Registers ==
  ASSUME EndpointTypes, DescriptorsAccounted, NEW k, NEW p, RegisterEndpoint(k, p)
  PROVE  /\ Lowest \in Fd /\ Lowest \notin open /\ Lowest \notin DOMAIN registered /\ Lowest \notin leaked
         /\ open' = open \cup {Lowest}
         /\ DOMAIN registered' = DOMAIN registered \cup {Lowest}
         /\ registered' = [fd \in DOMAIN registered' |-> registered'[fd]]
         /\ registered'[Lowest] = [kind |-> k, path |-> p, connecting |-> k = "unixClient"]
         /\ \A fd \in DOMAIN registered : registered'[fd] = registered[fd]
         /\ leaked' = leaked
<1>1. Lowest \in Free
  BY LowestIsFree DEF RegisterEndpoint
<1>2. Lowest \in Fd /\ Lowest \notin open /\ Lowest \notin DOMAIN registered /\ Lowest \notin leaked
  BY <1>1 DEF Free, DescriptorsAccounted
<1>3. registered' = [fd \in DOMAIN registered \cup {Lowest} |->
                       IF fd = Lowest THEN [kind |-> k, path |-> p, connecting |-> k = "unixClient"]
                       ELSE registered[fd]]
  BY <1>2 DEF RegisterEndpoint, With
<1> QED
  BY <1>2, <1>3 DEF RegisterEndpoint

-----------------------------------------------------------------------------
\* The inductive invariant.
EndpointInv == EndpointTypes /\ DescriptorsAccounted /\ PathsLeadToServers

LEMMA InitEndpoints ==
  ASSUME EndpointInit
  PROVE  EndpointInv
<1>1. DOMAIN registered = {}
  BY DEF EndpointInit
<1>2. EndpointTypes
  BY <1>1 DEF EndpointInit, EndpointTypes
<1>3. DescriptorsAccounted
  BY <1>1 DEF EndpointInit, DescriptorsAccounted
<1>4. PathsLeadToServers
  BY <1>1, FdAssumption, NoneAssumption DEF EndpointInit, PathsLeadToServers, ServersOf, OpenSockets
<1> QED
  BY <1>2, <1>3, <1>4 DEF EndpointInv

\* A creation that fails changes neither the registry nor a path that leads to
\* a server.
LEMMA FailedCreation ==
  ASSUME EndpointInv, NEW k \in EndpointKind, NEW s \in Settings[k],
         NEW p \in IF Unix(k) THEN Path ELSE {None}, CreateFails(k, s, p)
  PROVE  EndpointInv'
<1>1. PICK failure \in Failures(k, s, p) :
        /\ IF StructureFd(Lowest, failure) = 0 THEN open' = open \cup {Lowest} ELSE UNCHANGED open
        /\ leaked' = IF failure = "option" THEN leaked \cup {Lowest} ELSE leaked
        /\ files' = FilesAfterFailure(k, p, failure)
  BY DEF CreateFails
<1>2. Lowest \in Fd /\ Lowest \notin open
  BY LowestIsFree DEF CreateFails, Free
<1>3. UNCHANGED <<registered, unlinked>>
  BY DEF CreateFails
<1>4. \/ failure = "option" /\ open' = open \cup {Lowest} /\ leaked' = leaked \cup {Lowest}
      \/ failure # "option" /\ open' = open /\ leaked' = leaked
  BY <1>1, <1>2, FdAssumption, NoneAssumption DEF StructureFd, Failures
<1>5. \/ files' = files
      \/ /\ k = "unixServer" /\ p \in Path /\ files[p] = None
         /\ files' = [files EXCEPT ![p] = Stale]
  BY <1>1 DEF FilesAfterFailure, Failures, Listens, Unix
<1>6. EndpointTypes'
  BY <1>2, <1>3, <1>4, <1>5 DEF EndpointInv, EndpointTypes
<1>7. DescriptorsAccounted'
  BY <1>2, <1>3, <1>4 DEF EndpointInv, EndpointTypes, DescriptorsAccounted
<1>8. PathsLeadToServers'
  BY <1>3, <1>5, FdAssumption, NoneAssumption DEF EndpointInv, EndpointTypes, PathsLeadToServers, ServersOf, OpenSockets
<1> QED
  BY <1>6, <1>7, <1>8 DEF EndpointInv

\* A registration keeps descriptors and types, whatever happens to the paths.
LEMMA RegistrationAccounts ==
  ASSUME EndpointInv, NEW k \in EndpointKind, NEW p \in IF Unix(k) THEN Path ELSE {None}, RegisterEndpoint(k, p),
         files' \in [Path -> Fd \cup {None, Stale}]
  PROVE  EndpointTypes' /\ DescriptorsAccounted'
<1>1. /\ Lowest \in Fd /\ Lowest \notin open /\ Lowest \notin DOMAIN registered /\ Lowest \notin leaked
      /\ open' = open \cup {Lowest}
      /\ DOMAIN registered' = DOMAIN registered \cup {Lowest}
      /\ registered' = [fd \in DOMAIN registered' |-> registered'[fd]]
      /\ registered'[Lowest] = [kind |-> k, path |-> p, connecting |-> k = "unixClient"]
      /\ \A fd \in DOMAIN registered : registered'[fd] = registered[fd]
      /\ leaked' = leaked
  BY Registers DEF EndpointInv
<1>2. registered'[Lowest] \in Endpoint /\ (Unix(k) => p \in Path)
  BY <1>1 DEF Endpoint
<1>3. EndpointTypes'
  <2>1. ASSUME NEW fd \in DOMAIN registered'
        PROVE  registered'[fd] \in Endpoint /\ (Unix(registered'[fd].kind) => registered'[fd].path \in Path)
    <3>1. CASE fd = Lowest
      <4>1. registered'[fd].kind = k /\ registered'[fd].path = p
        BY <1>1, <3>1
      <4> QED
        BY <1>2, <3>1, <4>1
    <3>2. CASE fd \in DOMAIN registered
      BY <1>1, <3>2 DEF EndpointInv, EndpointTypes
    <3> QED
      BY <1>1, <3>1, <3>2
  <2> QED
    BY <1>1, <2>1 DEF EndpointInv, EndpointTypes
<1>4. DescriptorsAccounted'
  BY <1>1 DEF EndpointInv, DescriptorsAccounted
<1> QED
  BY <1>3, <1>4

\* What a registration does to the servers of the paths.
LEMMA RegistrationServers ==
  ASSUME EndpointInv, NEW k \in EndpointKind, NEW p \in Path \cup {None}, RegisterEndpoint(k, p)
  PROVE  /\ k = "unixServer" => \A q \in Path : ServersOf(q)' = IF q = p THEN ServersOf(q) \cup {Lowest} ELSE ServersOf(q)
         /\ k # "unixServer" => \A q \in Path : ServersOf(q)' = ServersOf(q)
<1>1. /\ Lowest \notin DOMAIN registered
      /\ DOMAIN registered' = DOMAIN registered \cup {Lowest}
      /\ registered'[Lowest] = [kind |-> k, path |-> p, connecting |-> k = "unixClient"]
      /\ \A fd \in DOMAIN registered : registered'[fd] = registered[fd]
  BY Registers DEF EndpointInv
<1>2. registered'[Lowest].kind = k /\ registered'[Lowest].path = p
  BY <1>1
<1> QED
  BY <1>1, <1>2 DEF ServersOf, OpenSockets

LEMMA ServerCreation ==
  ASSUME EndpointInv, NEW k \in EndpointKind, NEW s, NEW p \in IF Unix(k) THEN Path ELSE {None}, CreateServer(k, s, p)
  PROVE  EndpointInv'
<1>1. RegisterEndpoint(k, p) /\ Lowest \in Fd
  BY Registers DEF EndpointInv, CreateServer
<1>2. files' \in [Path -> Fd \cup {None, Stale}]
  BY <1>1 DEF CreateServer, EndpointInv, EndpointTypes
<1>3. EndpointTypes' /\ DescriptorsAccounted'
  BY <1>1, <1>2, RegistrationAccounts
<1>4. PathsLeadToServers'
  <2>1. CASE k = "unixServer"
    <3>1. /\ p \in Path /\ files[p] = None
          /\ files' = [files EXCEPT ![p] = Lowest]
          /\ unlinked' = IF ServersOf(p) = {} THEN unlinked \ {p} ELSE unlinked
      BY <2>1 DEF CreateServer, Unix
    <3>2. \A q \in Path : ServersOf(q)' = IF q = p THEN ServersOf(q) \cup {Lowest} ELSE ServersOf(q)
      BY <1>1, <2>1, RegistrationServers
    <3>3. p \notin unlinked' => ServersOf(p) = {}
      <4>1. ServersOf(p) \subseteq Fd
        BY DEF ServersOf, OpenSockets, EndpointInv, EndpointTypes
      <4> QED
        BY <3>1, <4>1, FdAssumption, NoneAssumption DEF EndpointInv, PathsLeadToServers
    <3> QED
      BY <1>1, <3>1, <3>2, <3>3 DEF EndpointInv, EndpointTypes, PathsLeadToServers
  <2>2. CASE k # "unixServer"
    <3>1. files' = files /\ unlinked' = unlinked
      BY <2>2 DEF CreateServer
    <3>2. \A q \in Path : ServersOf(q)' = ServersOf(q)
      BY <1>1, <2>2, RegistrationServers
    <3> QED
      BY <3>1, <3>2 DEF EndpointInv, PathsLeadToServers
  <2> QED
    BY <2>1, <2>2
<1> QED
  BY <1>3, <1>4 DEF EndpointInv

LEMMA OtherCreation ==
  ASSUME EndpointInv, NEW k \in EndpointKind, k # "unixServer", NEW p \in IF Unix(k) THEN Path ELSE {None},
         RegisterEndpoint(k, p), UNCHANGED <<files, unlinked>>
  PROVE  EndpointInv'
<1>1. EndpointTypes' /\ DescriptorsAccounted'
  BY RegistrationAccounts DEF EndpointInv, EndpointTypes
<1>2. \A q \in Path : ServersOf(q)' = ServersOf(q)
  BY RegistrationServers
<1>3. PathsLeadToServers'
  BY <1>2 DEF EndpointInv, PathsLeadToServers
<1> QED
  BY <1>1, <1>3 DEF EndpointInv

LEMMA CloseEndpoint ==
  ASSUME EndpointInv, NEW fd \in DOMAIN registered, Close(fd)
  PROVE  EndpointInv'
<1>1. /\ open' = open \ {fd}
      /\ DOMAIN registered' = DOMAIN registered \ {fd}
      /\ registered' = [other \in DOMAIN registered' |-> registered[other]]
      /\ \A other \in DOMAIN registered' : registered'[other] = registered[other]
      /\ leaked' = leaked
  BY DEF Close, Release, Without
<1> DEFINE p == registered[fd].path
<1>2. \/ Unix(registered[fd].kind) /\ p \in Path /\ files' = [files EXCEPT ![p] = None]
      \/ ~Unix(registered[fd].kind) /\ files' = files
  BY DEF Close, Unlink, EndpointInv, EndpointTypes
<1>3. unlinked' = IF registered[fd].kind = "unixClient" THEN unlinked \cup {p} ELSE unlinked
  BY DEF Close
<1>4. EndpointTypes'
  BY <1>1, <1>2 DEF EndpointInv, EndpointTypes
<1>5. DescriptorsAccounted'
  BY <1>1 DEF EndpointInv, DescriptorsAccounted
<1>6. \A q \in Path : ServersOf(q)' = ServersOf(q) \ {fd}
  BY <1>1 DEF ServersOf, OpenSockets
<1>7. \A q \in Path : fd \in ServersOf(q) <=> registered[fd].kind = "unixServer" /\ q = p
  BY DEF ServersOf, OpenSockets
<1>8. ASSUME NEW q \in Path
      PROVE  /\ files'[q] \in Fd => files'[q] \in ServersOf(q)'
             /\ q \notin unlinked' => ServersOf(q)' \subseteq {files'[q]}
  <2>1. /\ files[q] \in Fd => files[q] \in ServersOf(q)
        /\ q \notin unlinked => ServersOf(q) \subseteq {files[q]}
    BY DEF EndpointInv, PathsLeadToServers
  <2>2. CASE Unix(registered[fd].kind) /\ q = p
    <3>1. files'[q] = None /\ None \notin Fd
      BY <1>2, <2>2, FdAssumption, NoneAssumption DEF EndpointInv, EndpointTypes
    <3>2. q \notin unlinked' => fd \in ServersOf(q) /\ q \notin unlinked
      BY <1>3, <1>7, <2>2 DEF Unix
    <3> QED
      BY <1>6, <2>1, <3>1, <3>2
  <2>3. CASE ~Unix(registered[fd].kind) \/ q # p
    <3>1. files'[q] = files[q] /\ fd \notin ServersOf(q) /\ (q \notin unlinked' => q \notin unlinked)
      BY <1>2, <1>3, <1>7, <2>3 DEF EndpointInv, EndpointTypes, Unix
    <3> QED
      BY <1>6, <2>1, <3>1
  <2> QED
    BY <2>2, <2>3
<1> QED
  BY <1>4, <1>5, <1>8 DEF EndpointInv, PathsLeadToServers

LEMMA ConnectsEndpoint ==
  ASSUME EndpointInv, NEW fd \in DOMAIN registered, Connects(fd)
  PROVE  EndpointInv'
<1>1. /\ registered' = [registered EXCEPT ![fd].connecting = FALSE]
      /\ UNCHANGED <<open, files, leaked, unlinked>>
  BY DEF Connects
<1>2. /\ DOMAIN registered' = DOMAIN registered
      /\ registered' = [other \in DOMAIN registered' |-> registered'[other]]
      /\ \A other \in DOMAIN registered :
           registered'[other] = IF other = fd THEN [registered[fd] EXCEPT !.connecting = FALSE]
                                ELSE registered[other]
  BY <1>1 DEF EndpointInv, EndpointTypes
<1>3. \A other \in DOMAIN registered :
        /\ registered'[other] \in Endpoint
        /\ registered'[other].kind = registered[other].kind
        /\ registered'[other].path = registered[other].path
  BY <1>2 DEF EndpointInv, EndpointTypes, Endpoint
<1>4. EndpointTypes'
  BY <1>1, <1>2, <1>3 DEF EndpointInv, EndpointTypes
<1>5. DescriptorsAccounted'
  BY <1>1, <1>2 DEF EndpointInv, DescriptorsAccounted
<1>6. \A q \in Path : ServersOf(q)' = ServersOf(q)
  BY <1>2, <1>3 DEF ServersOf, OpenSockets
<1>7. PathsLeadToServers'
  BY <1>1, <1>6 DEF EndpointInv, PathsLeadToServers
<1> QED
  BY <1>4, <1>5, <1>7 DEF EndpointInv

LEMMA CrashEndpoints ==
  ASSUME EndpointInv, Crash
  PROVE  EndpointInv'
<1>1. DOMAIN registered' = {} /\ open' = {} /\ leaked' = {}
  BY DEF Crash
<1>2. files' = [p \in Path |-> IF files[p] \in Fd THEN Stale ELSE files[p]]
  BY DEF Crash
<1>3. EndpointTypes'
  BY <1>1, <1>2 DEF Crash, EndpointInv, EndpointTypes
<1>4. PathsLeadToServers'
  BY <1>1, <1>2, FdAssumption, NoneAssumption DEF EndpointInv, EndpointTypes, PathsLeadToServers, ServersOf, OpenSockets
<1> QED
  BY <1>1, <1>3, <1>4 DEF EndpointInv, DescriptorsAccounted

LEMMA RemoveStalePath ==
  ASSUME EndpointInv, NEW p \in Path, RemoveStale(p)
  PROVE  EndpointInv'
<1>1. /\ files[p] = Stale /\ files' = [files EXCEPT ![p] = None]
      /\ UNCHANGED <<open, registered, leaked, unlinked>>
  BY DEF RemoveStale
<1>2. EndpointTypes' /\ DescriptorsAccounted'
  BY <1>1 DEF EndpointInv, EndpointTypes, DescriptorsAccounted
<1>3. \A q \in Path : ServersOf(q)' = ServersOf(q) /\ ServersOf(q) \subseteq Fd
  BY <1>1 DEF ServersOf, OpenSockets, EndpointInv, EndpointTypes
<1>4. PathsLeadToServers'
  BY <1>1, <1>3, FdAssumption, NoneAssumption DEF EndpointInv, EndpointTypes, PathsLeadToServers
<1> QED
  BY <1>2, <1>4 DEF EndpointInv

LEMMA NextEndpoints ==
  ASSUME EndpointInv, [EndpointNext]_endpointVars
  PROVE  EndpointInv'
<1>1. CASE Create
  <2>1. ASSUME NEW k \in EndpointKind, NEW s \in Settings[k], NEW p \in IF Unix(k) THEN Path ELSE {None},
               CreateFails(k, s, p) \/ CreateServer(k, s, p) \/ CreateClient(k, s, p)
        PROVE  EndpointInv'
    BY <2>1, FailedCreation, ServerCreation, OtherCreation DEF CreateClient
  <2>2. ASSUME NEW s, NEW source, NEW destination, CreateUdpClient(s, source, destination)
        PROVE  EndpointInv'
    <3>1. "udpClient" \in EndpointKind /\ ~Unix("udpClient")
      BY DEF EndpointKind, Clients, Unix
    <3> QED
      BY <2>2, <3>1, OtherCreation DEF CreateUdpClient
  <2>3. CASE OpenFile
    <3>1. "file" \in EndpointKind /\ ~Unix("file")
      BY DEF EndpointKind, Unix
    <3> QED
      BY <2>3, <3>1, OtherCreation DEF OpenFile
  <2> QED
    BY <1>1, <2>1, <2>2, <2>3 DEF Create
<1>2. ASSUME NEW fd \in DOMAIN registered, Close(fd) \/ Connects(fd) \/ ConnectFails(fd)
      PROVE  EndpointInv'
  BY <1>2, CloseEndpoint, ConnectsEndpoint DEF ConnectFails
<1>3. CASE Crash
  BY <1>3, CrashEndpoints
<1>4. ASSUME NEW p \in Path, RemoveStale(p)
      PROVE  EndpointInv'
  BY <1>4, RemoveStalePath
<1>5. CASE UNCHANGED endpointVars
  BY <1>5 DEF endpointVars, EndpointInv, EndpointTypes, DescriptorsAccounted, PathsLeadToServers, ServersOf, OpenSockets
<1> QED
  BY <1>1, <1>2, <1>3, <1>4, <1>5 DEF EndpointNext

LEMMA EndpointInvariance == EndpointSpec => []EndpointInv
<1>1. EndpointInit => EndpointInv
  BY InitEndpoints
<1>2. EndpointInv /\ [EndpointNext]_endpointVars => EndpointInv'
  BY NextEndpoints
<1> QED
  BY <1>1, <1>2, PTL DEF EndpointSpec

\* No creation, however it fails, no close and no crash makes the process lose
\* count of its descriptors, but for those of failed options.
THEOREM DescriptorsAreAccounted == EndpointSpec => []DescriptorsAccounted
<1>1. EndpointInv => DescriptorsAccounted
  BY DEF EndpointInv
<1> QED
  BY <1>1, EndpointInvariance, PTL

\* Whatever endpoints come and go, and if the process crashes, a path leads to
\* the open server that listens there, unless a client removed it.
THEOREM PathsAreRight == EndpointSpec => []PathsLeadToServers
<1>1. EndpointInv => PathsLeadToServers
  BY DEF EndpointInv
<1> QED
  BY <1>1, EndpointInvariance, PTL

-----------------------------------------------------------------------------
(* The socket options.                                                       *)

\* What a translation enables, but for the interval of keep-alive probes, is
\* the option that the field it takes is named for.
LEMMA TranslatesField ==
  ASSUME NEW k \in EndpointKind, NEW t \in Configuration[k],
         t[1] \in Options[k] \ {"CLOEXEC"}, t # <<"KEEPINTVL", "tcpKeepAliveIdle">>
  PROVE  /\ t = <<NamedOption[t[2]], t[2]>>
         /\ t[2] \notin Ignored(k)
         /\ t[2] # "always"
<1>1. CASE k \in {"unixServer", "unixClient"}
  BY <1>1 DEF Configuration, UnixConfiguration, NamedOption, Ignored
<1>2. CASE k \in {"udpServer", "udpClient"}
  BY <1>2 DEF Configuration, UdpConfiguration, NamedOption, Ignored
<1>3. ASSUME k \in {"tcpServer", "tcpClient"}, t \in TcpClientConfiguration
      PROVE  t = <<NamedOption[t[2]], t[2]>> /\ t[2] \notin Ignored(k) /\ t[2] # "always"
  BY <1>3 DEF TcpClientConfiguration, UnixConfiguration, NamedOption, Ignored
<1>4. ASSUME k = "tcpServer", t = <<"NODELAY", "tcpNoDelay">>
      PROVE  t = <<NamedOption[t[2]], t[2]>> /\ t[2] \notin Ignored(k) /\ t[2] # "always"
  BY <1>4 DEF NamedOption, Ignored
<1>5. CASE k = "file"
  BY <1>5 DEF Configuration
<1> QED
  BY <1>1, <1>2, <1>3, <1>4, <1>5 DEF Configuration, TcpServerConfiguration, EndpointKind, Servers, Clients

\* Every field of a class that is not ignored is translated to the option it is
\* named for, which the socket knows.
LEMMA FieldIsTranslated ==
  ASSUME NEW k \in EndpointKind, NEW f \in Fields[k] \ Ignored(k)
  PROVE  /\ <<NamedOption[f], f>> \in Configuration[k]
         /\ NamedOption[f] \in Options[k] \ {"CLOEXEC"}
         /\ f # "always"
         /\ <<NamedOption[f], f>> # <<"KEEPINTVL", "tcpKeepAliveIdle">>
<1>1. CASE k \in {"unixServer", "unixClient"}
  BY <1>1 DEF Fields, UnixFields, CommonFields, Configuration, UnixConfiguration,
       NamedOption, Ignored, Options, UnixOptions
<1>2. CASE k \in {"udpServer", "udpClient"}
  BY <1>2 DEF Fields, UdpFields, CommonFields, Configuration, UdpConfiguration,
       NamedOption, Ignored, Options, UdpOptions
<1>3. CASE k = "tcpServer"
  BY <1>3 DEF Fields, TcpFields, CommonFields, Configuration, TcpServerConfiguration,
       TcpClientConfiguration, UnixConfiguration, NamedOption, Ignored,
       Options, TcpOptions
<1>4. CASE k = "tcpClient"
  BY <1>4 DEF Fields, TcpFields, CommonFields, Configuration, TcpClientConfiguration,
       UnixConfiguration, NamedOption, Ignored, Options, TcpOptions
<1>5. CASE k = "file"
  BY <1>5 DEF Fields
<1> QED
  BY <1>1, <1>2, <1>3, <1>4, <1>5 DEF EndpointKind, Servers, Clients

\* What a socket has of a configuration.
GivenOf(k, s) == {o \in Effective(k, s) : o[2] # "always"}

\* The options that a socket has are those that were asked.
LEMMA GivenIsAsked ==
  ASSUME NEW k \in EndpointKind, NEW s \in SUBSET Fields[k]
  PROVE  GivenOf(k, s) \ {<<"KEEPINTVL", "tcpKeepAliveIdle">>} = Asked(s \ Ignored(k))
<1>1. ASSUME NEW t \in GivenOf(k, s) \ {<<"KEEPINTVL", "tcpKeepAliveIdle">>}
      PROVE  t \in Asked(s \ Ignored(k))
  <2>1. t \in Attempted(k, s) /\ t[1] # "CLOEXEC" /\ t[2] # "always"
    BY <1>1 DEF GivenOf, Effective
  <2>2. t # <<"REUSEADDR", "always">>
    BY <2>1
  <2>3. t \in Flags(k, s) /\ t[1] \in Options[k]
    BY <2>1, <2>2 DEF Attempted
  <2>4. t \in Configuration[k] /\ t[2] \in s
    BY <2>3 DEF Flags
  <2>5. t = <<NamedOption[t[2]], t[2]>> /\ t[2] \in s \ Ignored(k)
    BY <1>1, <2>1, <2>3, <2>4, TranslatesField
  <2> QED
    BY <2>5 DEF Asked
<1>2. ASSUME NEW t \in Asked(s \ Ignored(k))
      PROVE  t \in GivenOf(k, s) \ {<<"KEEPINTVL", "tcpKeepAliveIdle">>}
  <2>1. PICK f \in s \ Ignored(k) : t = <<NamedOption[f], f>>
    BY <1>2 DEF Asked
  <2>2. /\ t \in Configuration[k] /\ NamedOption[f] \in Options[k] \ {"CLOEXEC"}
        /\ f # "always" /\ t # <<"KEEPINTVL", "tcpKeepAliveIdle">>
    BY <2>1, FieldIsTranslated
  <2>3. t[1] = NamedOption[f] /\ t[2] = f
    BY <2>1
  <2>4. t \in Flags(k, s)
    BY <2>2, <2>3 DEF Flags
  <2>5. t \in Attempted(k, s)
    BY <2>2, <2>3, <2>4 DEF Attempted
  <2> QED
    BY <2>2, <2>3, <2>5 DEF GivenOf, Effective
<1> QED
  BY <1>1, <1>2

\* The endpoint created last has a configuration of its class.
Configured == last # None => last.kind \in EndpointKind /\ last.settings \in SUBSET Fields[last.kind]

LEMMA NextConfigured ==
  ASSUME Configured, [EndpointNext]_endpointVars
  PROVE  Configured'
<1>1. ASSUME NEW k \in EndpointKind, NEW s \in Settings[k], NEW p,
             CreateFails(k, s, p) \/ CreateServer(k, s, p) \/ CreateClient(k, s, p)
      PROVE  Configured'
  <2>1. CASE CreateFails(k, s, p)
    BY <2>1 DEF CreateFails, Configured
  <2>2. CASE last' = [kind |-> k, settings |-> s]
    BY <2>2, SettingsAssumption DEF Configured
  <2> QED
    BY <1>1, <2>1, <2>2 DEF CreateServer, CreateClient
<1>2. ASSUME NEW s \in Settings["udpClient"], NEW source, NEW destination,
             CreateUdpClient(s, source, destination)
      PROVE  Configured'
  BY <1>2, SettingsAssumption DEF CreateUdpClient, Configured, EndpointKind, Clients
<1>3. CASE OpenFile
  BY <1>3 DEF OpenFile, Configured, EndpointKind
<1>4. ASSUME NEW fd, Close(fd) \/ Connects(fd) \/ ConnectFails(fd)
      PROVE  Configured'
  BY <1>4 DEF Close, Connects, ConnectFails, Configured
<1>5. CASE Crash
  BY <1>5 DEF Crash, Configured
<1>6. ASSUME NEW p, RemoveStale(p)
      PROVE  Configured'
  BY <1>6 DEF RemoveStale, Configured
<1>7. CASE UNCHANGED endpointVars
  BY <1>7 DEF endpointVars, Configured
<1> QED
  BY <1>1, <1>2, <1>3, <1>4, <1>5, <1>6, <1>7 DEF EndpointNext, Create

\* Whatever is set of a configuration, a socket that opens has exactly the
\* options that its fields are named for, except the ones that the code gets
\* wrong.
THEOREM OptionsAreNamed == EndpointSpec => []OptionsAsNamed
<1>1. EndpointInit => Configured
  BY DEF EndpointInit, Configured
<1>2. Configured /\ [EndpointNext]_endpointVars => Configured'
  BY NextConfigured
<1>3. Configured => OptionsAsNamed
  BY GivenIsAsked DEF Configured, GivenOf, OptionsAsNamed, Given
<1> QED
  BY <1>1, <1>2, <1>3, PTL DEF EndpointSpec

-----------------------------------------------------------------------------
(* Natural numbers.                                                          *)

LEMMA MinNat ==
  ASSUME NEW S \in SUBSET Nat, S # {}
  PROVE  Min(S) \in S /\ \A y \in S : Min(S) <= y
<1>1. PICK x \in S : \A y \in S : ~(<<y, x>> \in OpToRel(<, Nat))
  BY NatLessThanWellFounded, WFMin
<1>2. \A y \in S : ~(y < x)
  BY <1>1 DEF OpToRel
<1>3. \A y \in S : x <= y
  BY <1>2
<1> QED
  BY <1>3 DEF Min

\* A set that goes on from each number of an interval to the next is all of it.
LEMMA IntervalInduction ==
  ASSUME NEW a \in Nat, NEW b \in Nat, NEW A, a \in A,
         \A i \in a..b : i \in A /\ i < b => i + 1 \in A
  PROVE  \A i \in a..b : i \in A
<1> DEFINE S == {i \in a..b : i \notin A}
<1> SUFFICES ASSUME S # {} PROVE FALSE
  OBVIOUS
<1>1. Min(S) \in S /\ \A y \in S : Min(S) <= y
  BY MinNat
<1>2. PICK m : m = Min(S)
  OBVIOUS
<1>3. m \in a..b /\ m \notin A /\ m # a /\ \A y \in S : m <= y
  BY <1>1, <1>2
<1>4. m - 1 \in a..b /\ m - 1 < b /\ m - 1 \in A
  BY <1>3
<1> QED
  BY <1>3, <1>4

LEMMA Quotient ==
  ASSUME NEW n \in Nat, n > 0, NEW x \in Nat
  PROVE  \E q \in Int : x = n * q + (x % n)
<1>1. x = n * (x \div n) + (x % n)
  BY SMT
<1>2. x \div n \in Int
  OBVIOUS
<1> QED
  BY <1>1, <1>2

\* Two numbers with the same remainder.
LEMMA SameRemainder ==
  ASSUME NEW n \in Nat, n > 0, NEW x \in Nat, NEW y \in Nat, y <= x, x % n = y % n
  PROVE  (x - y) % n = 0
<1>1. PICK p \in Int : x = n * p + (x % n)
  BY Quotient
<1>2. PICK q \in Int : y = n * q + (y % n)
  BY Quotient
<1>3. x % n \in Int
  OBVIOUS
<1>4. PICK e \in Int : e = x % n
  BY <1>3
<1>5. x = n * p + e /\ y = n * q + e
  BY <1>1, <1>2, <1>4
<1>6. x - y = n * (p - q)
  BY <1>5
<1>7. PICK d \in Int, z \in Nat : d = p - q /\ z = x - y
  OBVIOUS
<1>8. PICK r \in Int : z = n * r + (z % n)
  BY Quotient
<1>9. z % n \in 0..n - 1
  OBVIOUS
<1>10. n * (d - r) = z % n
  <2>1. PICK w \in Int : w = z % n
    BY <1>9
  <2>2. z = n * d /\ z = n * r + w
    BY <1>6, <1>7, <1>8, <2>1
  <2>3. n * (d - r) = w
    BY <2>2
  <2> QED
    BY <2>1, <2>3
<1>11. PICK c \in Int : c = d - r
  OBVIOUS
<1>12. n * c \in 0..n - 1
  BY <1>9, <1>10, <1>11
<1>13. ~(c >= 1)
  <2> SUFFICES ASSUME c >= 1 PROVE FALSE
    OBVIOUS
  <2>1. n * c >= n
    OBVIOUS
  <2> QED
    BY <1>12, <2>1
<1>14. ~(c <= -1)
  <2> SUFFICES ASSUME c <= -1 PROVE FALSE
    OBVIOUS
  <2>1. n * c <= -n
    OBVIOUS
  <2> QED
    BY <1>12, <2>1
<1>15. c = 0
  BY <1>13, <1>14
<1> QED
  BY <1>7, <1>10, <1>11, <1>15

-----------------------------------------------------------------------------
(* The probes of a key reach every slot of a table once.                     *)

Size == {Primes[i] : i \in DOMAIN Primes}

LEMMA SizeFacts ==
  ASSUME NEW n \in Size
  PROVE  /\ n \in Nat /\ n >= 3
         /\ \A a, b \in 1..n - 1 : (a * b) % n # 0
<1>1. PICK i \in DOMAIN Primes : n = Primes[i]
  BY DEF Size
<1>2. n \in Nat /\ 1 \in DOMAIN Primes /\ Primes[1] \in Nat /\ Primes[1] >= 3 /\ i \in Nat /\ i >= 1
  BY <1>1, PrimesAssumption
<1>3. n >= 3
  <2>1. 1 < i => Primes[1] < Primes[i]
    BY <1>1, <1>2, PrimesAssumption
  <2> QED
    BY <1>1, <1>2, <2>1
<1> QED
  BY <1>1, <1>2, <1>3, PrimesAssumption

LEMMA ProbeType ==
  ASSUME NEW t, t.n \in Size, NEW k \in Key, NEW j \in Nat
  PROVE  Probe(t, k, j) \in 0..t.n - 1
<1>1. t.n \in Nat /\ t.n >= 3 /\ HashOf[k] \in Nat
  BY SizeFacts, KeyAssumption
<1>2. PICK n, h : n = t.n /\ h = HashOf[k]
  OBVIOUS
<1>3. n \in Nat /\ n >= 3 /\ h \in Nat /\ n - 1 \in Nat /\ n - 1 > 0
  BY <1>1, <1>2
<1>4. h % n \in Nat /\ 1 + (h % (n - 1)) \in Nat
  BY <1>3
<1>5. PICK s \in Nat : s = 1 + (h % (n - 1))
  BY <1>4
<1>6. j * s \in Nat
  OBVIOUS
<1>7. ((h % n) + j * s) % n \in 0..n - 1
  BY <1>3, <1>4, <1>6
<1> QED
  BY <1>2, <1>5, <1>7 DEF Probe

LEMMA ProbeInjective ==
  ASSUME NEW t, t.n \in Size, NEW k \in Key, NEW i \in 0..t.n - 1, NEW j \in 0..t.n - 1,
         Probe(t, k, i) = Probe(t, k, j)
  PROVE  i = j
<1>1. t.n \in Nat /\ t.n >= 3 /\ HashOf[k] \in Nat
  BY SizeFacts, KeyAssumption
<1>2. PICK n, h : n = t.n /\ h = HashOf[k]
  OBVIOUS
<1>3. n \in Nat /\ n >= 3 /\ h \in Nat /\ n - 1 \in Nat /\ n - 1 > 0
  BY <1>1, <1>2
<1>4. h % n \in Nat /\ h % (n - 1) \in 0..(n - 1) - 1
  BY <1>3
<1>5. PICK s : s = 1 + (h % (n - 1))
  OBVIOUS
<1>6. s \in 1..n - 1
  BY <1>3, <1>4, <1>5
<1>7. PICK a \in Nat : a = h % n
  BY <1>4
<1>8. ASSUME NEW x \in 0..n - 1, NEW y \in 0..n - 1, y < x, (a + x * s) % n = (a + y * s) % n
      PROVE  FALSE
  <2>1. PICK p \in Nat : p = x * s
    BY <1>3, <1>6
  <2>2. PICK q \in Nat : q = y * s
    BY <1>3, <1>6
  <2>3. p - q = (x - y) * s
    BY <1>3, <1>6, <2>1, <2>2
  <2>4. x - y \in 1..n - 1
    BY <1>3, <1>8
  <2>5. (x - y) * s \in Nat
    BY <1>3, <1>6, <2>4
  <2>6. q <= p
    BY <2>3, <2>5
  <2>7. (a + p) % n = (a + q) % n
    BY <1>8, <2>1, <2>2
  <2>8. ((a + p) - (a + q)) % n = 0
    <3>1. a + p \in Nat /\ a + q \in Nat /\ a + q <= a + p /\ n \in Nat /\ n > 0
      BY <1>3, <2>6
    <3> QED
      BY <2>7, <3>1, SameRemainder
  <2>9. (a + p) - (a + q) = (x - y) * s
    BY <2>3
  <2> QED
    BY <1>2, <1>6, <2>4, <2>8, <2>9, SizeFacts
<1>9. (a + i * s) % n = (a + j * s) % n
  BY <1>2, <1>5, <1>7 DEF Probe
<1>10. ~(i < j) /\ ~(j < i)
  BY <1>2, <1>8, <1>9
<1> QED
  BY <1>1, <1>10

LEMMA ProbeSurjective ==
  ASSUME NEW t, t.n \in Size, NEW k \in Key, NEW x \in 0..t.n - 1
  PROVE  \E j \in 0..t.n - 1 : Probe(t, k, j) = x
<1> DEFINE S == 0..t.n - 1
           f == [j \in S |-> Probe(t, k, j)]
<1>1. t.n \in Nat
  BY SizeFacts
<1>2. \A j \in S : Probe(t, k, j) \in S
  BY <1>1, ProbeType
<1>3. \A i, j \in S : f[i] = f[j] => i = j
  BY ProbeInjective
<1>4. f \in Injection(S, S)
  BY <1>2, <1>3 DEF Injection, IsInjective
<1>5. IsFiniteSet(S)
  BY <1>1, FS_Interval
<1>6. f \in Surjection(S, S)
  BY <1>4, <1>5, FS_Injection
<1>7. \A y \in S : \E j \in S : f[j] = y
  BY <1>6 DEF Surjection
<1> QED
  BY <1>7

-----------------------------------------------------------------------------
(* One table.                                                                *)

Entry == [key : Key, ver : Version \cup {0}]
Contents == UNION {[D -> Entry] : D \in SUBSET Nat}
TableRecord ==
  [n : Nat, prime : Nat, at : Contents, dirty : SUBSET Nat, used : Int, size : Int, position : Nat]

\* The slots that are in use or dirty.
Taken(t) == Exist(t) \cup t.dirty

\* x is reached by the probes of k over slots that are dirty.
Chained(t, k, x) ==
  \E j \in 0..t.n - 1 :
    Probe(t, k, j) = x /\ \A m \in 0..j - 1 : Probe(t, k, m) \in t.dirty

TableOK(t) ==
  /\ t \in TableRecord /\ t.n \in Size /\ Taken(t) \subseteq 0..t.n - 1
  /\ t.prime \in DOMAIN Primes /\ t.n <= Primes[t.prime]
  /\ t.size = Cardinality(Exist(t)) /\ t.used = Cardinality(Taken(t))
  /\ \A i, j \in Exist(t) : t.at[i].key = t.at[j].key => i = j
  /\ \A i \in Exist(t) : Chained(t, t.at[i].key, i)

\* The entries of a table.
Content(t) == {t.at[i] : i \in Exist(t)}

LEMMA ContentsType ==
  /\ \A a \in Contents : /\ DOMAIN a \subseteq Nat /\ a = [i \in DOMAIN a |-> a[i]]
                         /\ \A i \in DOMAIN a : a[i] \in Entry
  /\ \A D \in SUBSET Nat : \A a \in [D -> Entry] : a \in Contents
BY DEF Contents

LEMMA TableFacts ==
  ASSUME NEW t, TableOK(t)
  PROVE  /\ t.n \in Nat /\ t.n >= 3 /\ t.used \in Nat /\ t.size \in Nat /\ t.position \in Nat
         /\ IsFiniteSet(Exist(t)) /\ IsFiniteSet(Taken(t)) /\ t.size <= t.used
         /\ Exist(t) \subseteq 0..t.n - 1 /\ t.dirty \subseteq 0..t.n - 1
         /\ t.at \in [Exist(t) -> Entry] /\ Content(t) \subseteq Entry
         /\ \A c, d \in Content(t) : c.key = d.key => c = d
<1>1. t.n \in Nat /\ t.n >= 3
  BY SizeFacts DEF TableOK
<1>2. IsFiniteSet(0..t.n - 1)
  BY <1>1, FS_Interval
<1>3. Taken(t) \subseteq 0..t.n - 1
  BY DEF TableOK
<1>4. IsFiniteSet(Taken(t))
  BY <1>2, <1>3, FS_Subset
<1>5. Exist(t) \subseteq Taken(t) /\ t.dirty \subseteq Taken(t)
  BY DEF Taken
<1>6. IsFiniteSet(Exist(t)) /\ Cardinality(Exist(t)) <= Cardinality(Taken(t))
  BY <1>4, <1>5, FS_Subset
<1>7. t.used \in Nat /\ t.size \in Nat /\ t.size <= t.used
  BY <1>4, <1>6, FS_CardinalityType DEF TableOK
<1>8. t.at \in Contents /\ t.position \in Nat
  BY DEF TableOK, TableRecord
<1>9. t.at \in [Exist(t) -> Entry]
  BY <1>8, ContentsType DEF Exist
<1>10. Content(t) \subseteq Entry
  BY <1>9 DEF Content
<1>11. \A c, d \in Content(t) : c.key = d.key => c = d
  BY DEF Content, TableOK
<1> QED
  BY <1>1, <1>3, <1>4, <1>5, <1>6, <1>7, <1>8, <1>9, <1>10, <1>11

\* The probes of a key come to a slot that is neither in use nor dirty.
LEMMA CleanProbe ==
  ASSUME NEW t, TableOK(t), t.used < t.n, NEW k \in Key
  PROVE  \E j \in 0..t.n - 1 : Probe(t, k, j) \notin Taken(t)
<1>1. t.n \in Nat /\ IsFiniteSet(0..t.n - 1) /\ Cardinality(0..t.n - 1) = t.n
  <2>1. t.n \in Nat /\ t.n >= 3
    BY TableFacts
  <2>2. PICK n : n = t.n
    OBVIOUS
  <2>3. IsFiniteSet(0..n - 1) /\ Cardinality(0..n - 1) = IF 0 > n - 1 THEN 0 ELSE (n - 1) - 0 + 1
    BY <2>1, <2>2, FS_Interval
  <2> QED
    BY <2>1, <2>2, <2>3
<1>2. t.used = Cardinality(Taken(t)) /\ Taken(t) \subseteq 0..t.n - 1
  BY DEF TableOK
<1>3. Taken(t) # 0..t.n - 1
  BY <1>1, <1>2
<1>4. PICK x \in 0..t.n - 1 : x \notin Taken(t)
  BY <1>2, <1>3
<1>5. t.n \in Size
  BY DEF TableOK
<1> QED
  BY <1>4, <1>5, ProbeSurjective

\* The key of an entry is found at its slot, and no other.
LEMMA FindFacts ==
  ASSUME NEW t, TableOK(t), t.used < t.n, NEW k \in Key
  PROVE  /\ \A i \in Exist(t) : t.at[i].key = k => Find(t, k) = i
         /\ (\A i \in Exist(t) : t.at[i].key # k) => Find(t, k) = t.n
         /\ t.n \notin Exist(t)
<1> DEFINE S == {j \in 0..t.n - 1 : Holds(t, Probe(t, k, j), k) \/ Probe(t, k, j) \notin t.dirty}
           m == Min(S)
           x == Probe(t, k, m)
<1>1. t.n \in Nat /\ t.n \in Size /\ Exist(t) \subseteq 0..t.n - 1
  BY TableFacts DEF TableOK
<1>2. S # {}
  BY CleanProbe DEF Taken
<1>3. m \in S /\ \A j \in S : m <= j
  BY <1>1, <1>2, MinNat
<1>4. Find(t, k) = IF Holds(t, x, k) THEN x ELSE t.n
  BY DEF Find
<1> HIDE DEF m
<1>5. ASSUME NEW i \in Exist(t), t.at[i].key = k PROVE Find(t, k) = i
  <2>1. PICK j \in 0..t.n - 1 : Probe(t, k, j) = i /\ \A l \in 0..j - 1 : Probe(t, k, l) \in t.dirty
    BY <1>5 DEF TableOK, Chained
  <2>2. Holds(t, Probe(t, k, j), k)
    BY <1>5, <2>1 DEF Holds
  <2>3. m <= j /\ m \in 0..t.n - 1
    BY <1>3, <2>2
  <2>4. Holds(t, x, k)
    <3>1. CASE m = j
      BY <2>2, <3>1
    <3>2. CASE m # j
      <4>1. m \in 0..j - 1
        BY <2>3, <3>2
      <4>2. x \in t.dirty
        BY <2>1, <4>1
      <4> QED
        BY <1>3, <4>2
    <3> QED
      BY <3>1, <3>2
  <2>5. x \in Exist(t) /\ t.at[x].key = k
    BY <2>4 DEF Holds
  <2>6. x = i
    BY <1>5, <2>5 DEF TableOK
  <2> QED
    BY <1>4, <2>4, <2>6
<1>6. (\A i \in Exist(t) : t.at[i].key # k) => Find(t, k) = t.n
  BY <1>4 DEF Holds
<1> QED
  BY <1>1, <1>5, <1>6

\* Where an addition puts the entry of a key.
LEMMA PlaceFacts ==
  ASSUME NEW t, TableOK(t), t.used < t.n, NEW k \in Key
  PROVE  LET p == Place(t, k) IN
         /\ p.slot \in 0..t.n - 1 /\ p.dirty \in SUBSET (0..t.n - 1)
         /\ t.dirty \subseteq p.dirty /\ Exist(t) \cup p.dirty = Taken(t)
         /\ p.known => p.slot \in Exist(t) /\ t.at[p.slot].key = k
         /\ ~p.known => /\ p.slot \notin Exist(t) /\ \A i \in Exist(t) : t.at[i].key # k
                        /\ \E j \in 0..t.n - 1 : /\ Probe(t, k, j) = p.slot
                                                 /\ \A m \in 0..j - 1 : Probe(t, k, m) \in p.dirty
<1> DEFINE first == Min({j \in 0..t.n - 1 : Probe(t, k, j) \notin Exist(t) \/ Holds(t, Probe(t, k, j), k)})
           dirty == t.dirty \cup {Probe(t, k, j) : j \in 0..first - 1}
           end == Min({j \in first..t.n - 1 : Probe(t, k, j) \notin dirty})
           hits == IF Holds(t, Probe(t, k, first), k) THEN {first}
                    ELSE {j \in first..end : Holds(t, Probe(t, k, j), k)}
           q == [slot |-> Probe(t, k, IF hits = {} THEN first ELSE Min(hits)),
                 dirty |-> dirty, known |-> hits # {}]
<1>1. t.n \in Nat /\ t.n \in Size /\ Exist(t) \subseteq 0..t.n - 1 /\ t.dirty \subseteq 0..t.n - 1
  BY TableFacts DEF TableOK
<1>2. PICK c \in 0..t.n - 1 : Probe(t, k, c) \notin Taken(t)
  BY CleanProbe
<1>3. /\ first \in 0..t.n - 1 /\ (Probe(t, k, first) \notin Exist(t) \/ Holds(t, Probe(t, k, first), k))
      /\ \A j \in 0..t.n - 1 :
           Probe(t, k, j) \notin Exist(t) \/ Holds(t, Probe(t, k, j), k) => first <= j
  <2> DEFINE S == {j \in 0..t.n - 1 : Probe(t, k, j) \notin Exist(t) \/ Holds(t, Probe(t, k, j), k)}
  <2>1. S \in SUBSET Nat /\ c \in S
    BY <1>1, <1>2 DEF Taken
  <2>2. Min(S) \in S /\ \A y \in S : Min(S) <= y
    BY <2>1, MinNat
  <2> QED
    BY <2>2
<1>4. PICK f : f = first
  OBVIOUS
<1>5. f \in 0..t.n - 1 /\ f <= c
  BY <1>2, <1>3, <1>4 DEF Taken
<1>6. \A j \in 0..f - 1 : /\ j \in 0..t.n - 1 /\ Probe(t, k, j) \in Exist(t)
                          /\ t.at[Probe(t, k, j)].key # k
  BY <1>1, <1>3, <1>4, <1>5 DEF Holds
<1>7. PICK d : d = dirty
  OBVIOUS
<1>8. d = t.dirty \cup {Probe(t, k, j) : j \in 0..f - 1}
  BY <1>4, <1>7
<1>9. t.dirty \subseteq d /\ Exist(t) \cup d = Taken(t) /\ d \subseteq 0..t.n - 1
  BY <1>1, <1>6, <1>8 DEF Taken
<1>10. /\ end \in f..t.n - 1 /\ Probe(t, k, end) \notin d
       /\ \A j \in f..t.n - 1 : Probe(t, k, j) \notin d => end <= j
  <2> DEFINE S == {j \in f..t.n - 1 : Probe(t, k, j) \notin d}
  <2>1. S \in SUBSET Nat
    BY <1>1, <1>5
  <2>2. c \in S
    BY <1>2, <1>5, <1>9
  <2>3. Min(S) \in S /\ \A y \in S : Min(S) <= y
    BY <2>1, <2>2, MinNat
  <2>4. end = Min(S)
    BY <1>4, <1>7
  <2> HIDE DEF end
  <2> QED
    BY <2>3, <2>4
<1>11. PICK l : l = end
  OBVIOUS
<1>12. PICK F : F = hits
  OBVIOUS
<1>13. F = IF Holds(t, Probe(t, k, f), k) THEN {f} ELSE {j \in f..l : Holds(t, Probe(t, k, j), k)}
  BY <1>4, <1>11, <1>12
<1>14. Place(t, k) = [slot |-> Probe(t, k, IF F = {} THEN f ELSE Min(F)), dirty |-> d, known |-> F # {}]
  BY <1>4, <1>7, <1>12 DEF Place
<1> HIDE DEF first, dirty, end, hits, q
<1>15. l \in f..t.n - 1 /\ Probe(t, k, l) \notin d
       /\ \A j \in f..t.n - 1 : Probe(t, k, j) \notin d => l <= j
  BY <1>10, <1>11
<1>16. F \in SUBSET (0..t.n - 1) /\ \A j \in F : Holds(t, Probe(t, k, j), k)
  BY <1>1, <1>5, <1>13, <1>15
<1>17. ASSUME NEW i \in Exist(t), t.at[i].key = k PROVE F # {}
  <2>1. PICK j \in 0..t.n - 1 : Probe(t, k, j) = i /\ \A m \in 0..j - 1 : Probe(t, k, m) \in t.dirty
    BY <1>17 DEF TableOK, Chained
  <2>2. Holds(t, Probe(t, k, j), k)
    BY <1>17, <2>1 DEF Holds
  <2>3. f <= j
    BY <1>3, <1>4, <2>1, <2>2
  <2>4. ~(l < j)
    <3> SUFFICES ASSUME l < j PROVE FALSE
      OBVIOUS
    <3>1. l \in 0..j - 1
      BY <1>1, <1>5, <1>15
    <3> QED
      BY <1>9, <1>15, <2>1, <3>1
  <2>5. j \in f..l
    BY <1>1, <1>5, <1>15, <2>3, <2>4
  <2> QED
    BY <1>13, <2>2, <2>5
<1>18. CASE F = {}
  <2>1. Place(t, k) = [slot |-> Probe(t, k, f), dirty |-> d, known |-> FALSE]
    BY <1>14, <1>18
  <2>2. ~Holds(t, Probe(t, k, f), k)
    BY <1>13, <1>18
  <2>3. Probe(t, k, f) \notin Exist(t)
    BY <1>3, <1>4, <2>2
  <2>4. \A m \in 0..f - 1 : Probe(t, k, m) \in d
    BY <1>8
  <2>5. Probe(t, k, f) \in 0..t.n - 1
    BY <1>1, <1>5, ProbeType
  <2> QED
    BY <1>5, <1>9, <1>17, <1>18, <2>1, <2>3, <2>4, <2>5
<1>19. CASE F # {}
  <2>1. Min(F) \in F
    <3>1. F \in SUBSET Nat
      BY <1>1, <1>16
    <3> QED
      BY <1>19, <3>1, MinNat
  <2>2. Holds(t, Probe(t, k, Min(F)), k)
    BY <1>16, <2>1
  <2>3. Place(t, k) = [slot |-> Probe(t, k, Min(F)), dirty |-> d, known |-> TRUE]
    BY <1>14, <1>19
  <2> QED
    BY <1>1, <1>9, <2>2, <2>3 DEF Holds
<1> QED
  BY <1>18, <1>19

LEMMA NewTableOK ==
  ASSUME NEW p \in DOMAIN Primes
  PROVE  LET w == NewTable(Primes[p], p) IN
         /\ TableOK(w) /\ Exist(w) = {} /\ Content(w) = {}
         /\ w.n = Primes[p] /\ w.used = 0 /\ w.position = 0
<1>1. PICK n, w : n = Primes[p] /\ w = NewTable(n, p)
  OBVIOUS
<1>2. n \in Size /\ n \in Nat /\ p \in Nat
  BY <1>1, SizeFacts, PrimesAssumption DEF Size
<1>3. PICK empty : empty = [i \in {} |-> 0]
  OBVIOUS
<1>4. DOMAIN empty = {} /\ empty \in [{} -> Entry]
  BY <1>3
<1>5. empty \in Contents
  BY <1>4, ContentsType
<1>6. w = [n |-> n, prime |-> p, at |-> empty, dirty |-> {}, used |-> 0, size |-> 0, position |-> 0]
  BY <1>1, <1>3 DEF NewTable
<1>7. w \in TableRecord
  BY <1>2, <1>5, <1>6 DEF TableRecord
<1>8. Exist(w) = {} /\ Taken(w) = {} /\ Content(w) = {}
  BY <1>4, <1>6 DEF Exist, Taken, Content
<1>9. Cardinality({}) = 0
  BY FS_EmptySet
<1>10. w.n = n /\ w.prime = p /\ w.used = 0 /\ w.size = 0 /\ w.position = 0
  BY <1>6
<1>11. TableOK(w)
  BY <1>1, <1>2, <1>7, <1>8, <1>9, <1>10 DEF TableOK
<1> QED
  BY <1>1, <1>8, <1>10, <1>11

\* What an addition to a table does.
LEMMA PutSlotFacts ==
  ASSUME NEW t, TableOK(t), t.used < t.n, NEW e \in Entry
  PROVE  LET u == PutSlot(t, e) IN
         /\ TableOK(u) /\ u.n = t.n /\ u.position = t.position
         /\ Content(u) = {c \in Content(t) : c.key # e.key} \cup {e}
         /\ u.used <= t.used + 1
         /\ (\E c \in Content(t) : c.key = e.key) => u.used = t.used
         /\ \A i \in Exist(t) : t.at[i].key # e.key => i \in Exist(u) /\ u.at[i] = t.at[i]
         /\ \A i \in Exist(u) : u.at[i] # e => i \in Exist(t) /\ t.at[i] = u.at[i]
<1> DEFINE k == e.key
<1>1. k \in Key
  BY DEF Entry
<1>2. PICK p : p = Place(t, k)
  OBVIOUS
<1>3. /\ p.slot \in 0..t.n - 1 /\ p.dirty \in SUBSET (0..t.n - 1)
      /\ t.dirty \subseteq p.dirty /\ Exist(t) \cup p.dirty = Taken(t)
      /\ p.known => p.slot \in Exist(t) /\ t.at[p.slot].key = k
      /\ ~p.known => /\ p.slot \notin Exist(t) /\ \A i \in Exist(t) : t.at[i].key # k
                     /\ \E j \in 0..t.n - 1 : /\ Probe(t, k, j) = p.slot
                                              /\ \A m \in 0..j - 1 : Probe(t, k, m) \in p.dirty
  BY <1>1, <1>2, PlaceFacts
<1> DEFINE a == [i \in Exist(t) \cup {p.slot} |-> IF i = p.slot THEN e ELSE t.at[i]]
           sz == IF p.known THEN t.size ELSE t.size + 1
           us == IF p.known \/ p.slot \in p.dirty THEN t.used ELSE t.used + 1
<1>4. /\ t \in TableRecord /\ t.n \in Size /\ t.n \in Nat /\ t.used \in Nat /\ t.size \in Nat
      /\ t.at \in [Exist(t) -> Entry] /\ Exist(t) \subseteq 0..t.n - 1
      /\ IsFiniteSet(Exist(t)) /\ IsFiniteSet(Taken(t)) /\ t.dirty \subseteq 0..t.n - 1
  BY TableFacts DEF TableOK
<1>5. PICK u : u = PutSlot(t, e)
  OBVIOUS
<1>6. u = [t EXCEPT !.at = a, !.dirty = p.dirty, !.size = sz, !.used = us]
  BY <1>2, <1>5 DEF PutSlot, Fill, Exist
<1>7. a \in [Exist(t) \cup {p.slot} -> Entry]
  BY <1>4
<1>8. Exist(t) \cup {p.slot} \subseteq Nat
  BY <1>3, <1>4
<1>9. a \in Contents
  BY <1>7, <1>8, ContentsType
<1> HIDE DEF a, sz, us
<1>10. sz \in Nat /\ us \in Nat /\ us <= t.used + 1
  BY <1>4 DEF sz, us
<1>11. /\ u \in TableRecord /\ u.n = t.n /\ u.position = t.position /\ u.prime = t.prime
       /\ u.at = a /\ u.dirty = p.dirty /\ u.size = sz /\ u.used = us
  <2>1. p.dirty \in SUBSET Nat /\ sz \in Int /\ us \in Int
    BY <1>3, <1>4, <1>10
  <2> QED
    <3>1. PICK b, d, y, z : b = a /\ d = p.dirty /\ y = sz /\ z = us
      OBVIOUS
    <3>2. u = [t EXCEPT !.at = b, !.dirty = d, !.size = y, !.used = z]
      BY <1>6, <3>1
    <3>3. b \in Contents /\ d \in SUBSET Nat /\ y \in Int /\ z \in Int
      BY <1>9, <2>1, <3>1
    <3> QED
      BY <1>4, <3>1, <3>2, <3>3 DEF TableRecord
<1>12. Exist(u) = Exist(t) \cup {p.slot}
  BY <1>7, <1>11 DEF Exist
<1>13. /\ u.at[p.slot] = e
       /\ \A i \in Exist(t) : i # p.slot => u.at[i] = t.at[i]
  BY <1>11 DEF a
<1>14. Taken(u) = Taken(t) \cup {p.slot}
  BY <1>3, <1>11, <1>12 DEF Taken
<1>15. u.size = Cardinality(Exist(u))
  <2>1. Cardinality(Exist(u)) = IF p.slot \in Exist(t) THEN t.size ELSE t.size + 1
    <3>1. t.size = Cardinality(Exist(t))
      BY DEF TableOK
    <3> QED
      BY <1>4, <1>12, <3>1, FS_AddElement
  <2> QED
    BY <1>3, <1>11, <2>1 DEF sz
<1>16. u.used = Cardinality(Taken(u))
  <2>1. Cardinality(Taken(u)) = IF p.slot \in Taken(t) THEN t.used ELSE t.used + 1
    BY <1>4, <1>14, FS_AddElement DEF TableOK
  <2>2. p.slot \in Taken(t) <=> p.known \/ p.slot \in p.dirty
    BY <1>3
  <2> QED
    BY <1>11, <2>1, <2>2 DEF us
<1>17. \A i \in Exist(u) : i # p.slot => i \in Exist(t) /\ u.at[i] = t.at[i] /\ t.at[i].key # k
  <2> SUFFICES ASSUME NEW i \in Exist(u), i # p.slot
               PROVE  i \in Exist(t) /\ u.at[i] = t.at[i] /\ t.at[i].key # k
    OBVIOUS
  <2>1. i \in Exist(t) /\ u.at[i] = t.at[i]
    BY <1>12, <1>13
  <2>2. t.at[i].key # k
    BY <1>3, <2>1 DEF TableOK
  <2> QED
    BY <2>1, <2>2
<1>18. \A i, j \in Exist(u) : u.at[i].key = u.at[j].key => i = j
  BY <1>13, <1>17 DEF TableOK
<1>19. \A x, l : Chained(t, l, x) => Chained(u, l, x)
  <2>1. \A l, j : Probe(u, l, j) = Probe(t, l, j)
    BY <1>11 DEF Probe
  <2> QED
    BY <1>3, <1>11, <2>1 DEF Chained
<1>20. Chained(u, k, p.slot)
  <2>1. CASE p.known
    BY <1>3, <1>19, <2>1 DEF TableOK
  <2>2. CASE ~p.known
    <3>1. \A l, j : Probe(u, l, j) = Probe(t, l, j)
      BY <1>11 DEF Probe
    <3> QED
      BY <1>3, <1>11, <2>2, <3>1 DEF Chained
  <2> QED
    BY <2>1, <2>2
<1>21. \A i \in Exist(u) : Chained(u, u.at[i].key, i)
  BY <1>13, <1>17, <1>19, <1>20 DEF TableOK
<1>22. TableOK(u)
  <2>1. Taken(u) \subseteq 0..u.n - 1 /\ u.n \in Size
    BY <1>3, <1>4, <1>11, <1>14 DEF TableOK
  <2>2. u.prime \in DOMAIN Primes /\ u.n <= Primes[u.prime]
    BY <1>11 DEF TableOK
  <2> QED
    BY <1>11, <1>15, <1>16, <1>18, <1>21, <2>1, <2>2 DEF TableOK
<1>23. \A i \in Exist(t) : t.at[i].key # k => i # p.slot
  BY <1>3
<1>24. Content(u) = {c \in Content(t) : c.key # k} \cup {e}
  <2>1. ASSUME NEW c \in Content(u) PROVE c = e \/ (c \in Content(t) /\ c.key # k)
    <3>1. PICK i \in Exist(u) : c = u.at[i]
      BY DEF Content
    <3> QED
      BY <1>13, <1>17, <3>1 DEF Content
  <2>2. e \in Content(u)
    BY <1>12, <1>13 DEF Content
  <2>3. ASSUME NEW c \in Content(t), c.key # k PROVE c \in Content(u)
    <3>1. PICK i \in Exist(t) : c = t.at[i]
      BY DEF Content
    <3>2. i # p.slot
      BY <1>23, <2>3, <3>1
    <3> QED
      BY <1>12, <1>13, <3>1, <3>2 DEF Content
  <2> QED
    BY <2>1, <2>2, <2>3
<1>25. (\E c \in Content(t) : c.key = k) => us = t.used
  <2>1. (\E c \in Content(t) : c.key = k) => p.known
    BY <1>3 DEF Content
  <2> QED
    BY <2>1 DEF us
<1> QED
  BY <1>5, <1>10, <1>11, <1>12, <1>13, <1>17, <1>22, <1>23, <1>24, <1>25

\* What a deletion does.
LEMMA FreeSlotFacts ==
  ASSUME NEW t, TableOK(t), NEW x
  PROVE  LET u == FreeSlot(t, x) IN
         /\ TableOK(u) /\ u.n = t.n /\ u.position = t.position /\ u.used <= t.used
         /\ Exist(u) = Exist(t) \ {x} /\ \A i \in Exist(u) : u.at[i] = t.at[i]
         /\ x \in Exist(t) => Content(u) = {c \in Content(t) : c.key # t.at[x].key}
         /\ x \notin Exist(t) => u = t
<1>1. PICK u : u = FreeSlot(t, x)
  OBVIOUS
<1>2. /\ t \in TableRecord /\ t.n \in Size /\ t.n \in Nat /\ t.used \in Nat /\ t.size \in Nat
      /\ t.at \in [Exist(t) -> Entry] /\ Exist(t) \subseteq 0..t.n - 1
      /\ IsFiniteSet(Exist(t)) /\ IsFiniteSet(Taken(t)) /\ t.dirty \subseteq 0..t.n - 1
  BY TableFacts DEF TableOK
<1>3. CASE x \notin Exist(t)
  <2>1. u = t
    BY <1>1, <1>3 DEF FreeSlot
  <2>2. Exist(t) = Exist(t) \ {x}
    BY <1>3
  <2> QED
    BY <1>1, <1>2, <1>3, <2>1, <2>2
<1>4. CASE x \in Exist(t)
  <2> DEFINE a == [i \in Exist(t) \ {x} |-> t.at[i]]
             us == IF x \in t.dirty THEN t.used ELSE t.used - 1
  <2>1. u = [t EXCEPT !.at = a, !.size = t.size - 1, !.used = us]
    BY <1>1, <1>2, <1>4 DEF FreeSlot, Exist
  <2>2. a \in [Exist(t) \ {x} -> Entry] /\ Exist(t) \ {x} \subseteq Nat
    BY <1>2
  <2>3. a \in Contents
    BY <2>2, ContentsType
  <2> HIDE DEF a, us
  <2>4. us \in Int /\ us <= t.used
    BY <1>2 DEF us
  <2>5. /\ u \in TableRecord /\ u.n = t.n /\ u.position = t.position /\ u.prime = t.prime
        /\ u.at = a /\ u.dirty = t.dirty /\ u.size = t.size - 1 /\ u.used = us
    <3>1. u = [t EXCEPT !.at = a, !.dirty = t.dirty, !.size = t.size - 1, !.used = us]
      BY <1>2, <2>1 DEF TableRecord
    <3>2. t.dirty \in SUBSET Nat /\ t.size - 1 \in Int
      BY <1>2
    <3> QED
      <4>1. PICK b, d, y, z : b = a /\ d = t.dirty /\ y = t.size - 1 /\ z = us
        OBVIOUS
      <4>2. u = [t EXCEPT !.at = b, !.dirty = d, !.size = y, !.used = z]
        BY <3>1, <4>1
      <4>3. b \in Contents /\ d \in SUBSET Nat /\ y \in Int /\ z \in Int
        BY <2>3, <2>4, <3>2, <4>1
      <4> QED
        BY <1>2, <4>1, <4>2, <4>3 DEF TableRecord
  <2>6. Exist(u) = Exist(t) \ {x} /\ \A i \in Exist(u) : u.at[i] = t.at[i]
    BY <2>2, <2>5 DEF Exist, a
  <2>7. u.size = Cardinality(Exist(u))
    BY <1>2, <1>4, <2>5, <2>6, FS_RemoveElement DEF TableOK
  <2>8. u.used = Cardinality(Taken(u))
    <3>1. CASE x \in t.dirty
      <4>1. Taken(u) = Taken(t)
        BY <2>5, <2>6, <3>1 DEF Taken
      <4> QED
        BY <2>5, <3>1, <4>1 DEF TableOK, us
    <3>2. CASE x \notin t.dirty
      <4>1. Taken(u) = Taken(t) \ {x} /\ x \in Taken(t)
        BY <1>4, <2>5, <2>6, <3>2 DEF Taken
      <4>2. Cardinality(Taken(t) \ {x}) = Cardinality(Taken(t)) - 1
        BY <1>2, <4>1, FS_RemoveElement
      <4> QED
        BY <2>5, <3>2, <4>1, <4>2 DEF TableOK, us
    <3> QED
      BY <3>1, <3>2
  <2>9. \A i, j \in Exist(u) : u.at[i].key = u.at[j].key => i = j
    BY <2>6 DEF TableOK
  <2>10. \A i \in Exist(u) : Chained(u, u.at[i].key, i)
    <3>1. \A l, j : Probe(u, l, j) = Probe(t, l, j)
      BY <2>5 DEF Probe
    <3> QED
      BY <2>5, <2>6, <3>1 DEF TableOK, Chained
  <2>11. TableOK(u)
    <3>1. Taken(u) \subseteq 0..u.n - 1 /\ u.n \in Size
      BY <1>2, <2>5, <2>6 DEF TableOK, Taken
    <3> QED
      BY <2>5, <2>7, <2>8, <2>9, <2>10, <3>1 DEF TableOK
  <2>12. Content(u) = {c \in Content(t) : c.key # t.at[x].key}
    <3>1. \A i \in Exist(t) : i # x => t.at[i].key # t.at[x].key
      BY <1>4 DEF TableOK
    <3> QED
      BY <2>6, <3>1 DEF Content
  <2> QED
    BY <1>1, <1>4, <2>4, <2>5, <2>6, <2>11, <2>12
<1> QED
  BY <1>3, <1>4

-----------------------------------------------------------------------------
(* Recursive functions over an interval.                                     *)

\* The steps G lead from x in Q[a] on into Q[b].
Leads(a, b, Q, G, x) ==
  x \in Q[a] /\ \A i \in a..b - 1 : \A u \in Q[i] : G[<<i, u>>] \in Q[i + 1]

\* There is one that makes such steps.
LEMMA IterationExists ==
  ASSUME NEW a \in Nat, NEW b \in Nat, a <= b, NEW Q, NEW G, NEW x, Leads(a, b, Q, G, x)
  PROVE  \E f : /\ f = [i \in a..b |-> f[i]] /\ f[a] = x
                /\ \A i \in a..b : f[i] \in Q[i]
                /\ \A i \in a..b - 1 : f[i + 1] = G[<<i, f[i]>>]
<1> DEFINE Upto(m, f) == /\ f = [i \in a..m |-> f[i]] /\ f[a] = x
                         /\ \A i \in a..m : f[i] \in Q[i]
                         /\ \A i \in a..m - 1 : f[i + 1] = G[<<i, f[i]>>]
           A == {m \in a..b : \E f : Upto(m, f)}
<1> USE DEF Leads
<1>1. a \in A
  <2> DEFINE f == [i \in a..a |-> x]
  <2>1. f = [i \in a..a |-> f[i]] /\ f[a] = x
    OBVIOUS
  <2>2. \A i \in a..a : i = a /\ f[i] \in Q[i]
    OBVIOUS
  <2>3. \A i \in a..a - 1 : FALSE
    OBVIOUS
  <2> HIDE DEF f
  <2>4. Upto(a, f)
    BY <2>1, <2>2, <2>3
  <2> QED
    BY <2>4
<1>2. ASSUME NEW m \in a..b, m \in A, m < b PROVE m + 1 \in A
  <2>1. PICK f : Upto(m, f)
    BY <1>2
  <2> DEFINE g == [i \in a..m + 1 |-> IF i = m + 1 THEN G[<<m, f[m]>>] ELSE f[i]]
  <2>2. \A i \in a..m : g[i] = f[i]
    OBVIOUS
  <2>3. g[m + 1] = G[<<m, f[m]>>]
    OBVIOUS
  <2>4. g = [i \in a..m + 1 |-> g[i]]
    OBVIOUS
  <2> HIDE DEF g
  <2>5. g[a] = x
    BY <2>1, <2>2
  <2>6. f[m] \in Q[m] /\ m \in a..b - 1 /\ g[m] = f[m]
    BY <1>2, <2>1, <2>2
  <2>7. g[m + 1] \in Q[m + 1]
    BY <2>3, <2>6
  <2>8. ASSUME NEW i \in a..m + 1 PROVE g[i] \in Q[i]
    <3>1. i = m + 1 \/ i \in a..m
      OBVIOUS
    <3> QED
      BY <2>1, <2>2, <2>7, <3>1
  <2>9. ASSUME NEW i \in a..(m + 1) - 1 PROVE g[i + 1] = G[<<i, g[i]>>]
    <3>1. CASE i = m
      BY <2>3, <2>6, <3>1
    <3>2. CASE i # m
      <4>1. i \in a..m - 1 /\ i \in a..m /\ i + 1 \in a..m
        BY <3>2
      <4> QED
        BY <2>1, <2>2, <4>1
    <3> QED
      BY <3>1, <3>2
  <2>10. Upto(m + 1, g)
    BY <2>4, <2>5, <2>8, <2>9
  <2>11. m + 1 \in a..b
    BY <1>2
  <2> QED
    BY <2>10, <2>11
<1>3. \A i \in a..b : i \in A /\ i < b => i + 1 \in A
  BY <1>2
<1> HIDE DEF A
<1>4. \A i \in a..b : i \in A
  BY <1>1, <1>3, IntervalInduction, Zenon
<1>5. b \in A
  BY <1>4
<1> QED
  BY <1>5 DEF A

-----------------------------------------------------------------------------
(* A table with its shadow.                                                  *)

LEMMA UpperFacts ==
  ASSUME NEW n \in Nat
  PROVE  Upper(n) \in Nat /\ 10 * Upper(n) <= 7 * n /\ 7 * n <= 10 * Upper(n) + 9
BY DEF Upper

LEMMA MinPair ==
  ASSUME NEW a \in Nat, NEW b \in Nat
  PROVE  Min({a, b}) = IF a <= b THEN a ELSE b
<1>1. {a, b} \in SUBSET Nat /\ {a, b} # {}
  OBVIOUS
<1>2. Min({a, b}) \in {a, b} /\ \A y \in {a, b} : Min({a, b}) <= y
  BY <1>1, MinNat
<1> QED
  BY <1>2

\* Batches of this size end before three tenths as many additions.
LEMMA BatchFacts ==
  /\ Batch \in Nat /\ Batch >= 4
  /\ \A n, d \in Int : 0 <= d /\ 3 * n <= 10 * d => n <= Batch * d
  /\ \A x, y \in Int : Batch * x \in Int /\ Batch * (x + y) = Batch * x + Batch * y
  /\ \A x, y \in Int : x <= y => Batch * x <= Batch * y
<1>1. Batch \in Nat /\ Batch >= 4 /\ 3 * Batch >= 10
  BY BatchAssumption
<1>2. ASSUME NEW n \in Int, NEW d \in Int, 0 <= d, 3 * n <= 10 * d PROVE n <= Batch * d
  <2>1. (3 * Batch) * d >= 10 * d
    BY <1>1, <1>2
  <2>2. 3 * (Batch * d) >= 3 * n
    BY <1>1, <1>2, <2>1
  <2> QED
    BY <1>1, <2>2
<1>3. ASSUME NEW x \in Int, NEW y \in Int
      PROVE  Batch * x \in Int /\ Batch * (x + y) = Batch * x + Batch * y
  BY <1>1
<1>4. ASSUME NEW x \in Int, NEW y \in Int, x <= y PROVE Batch * x <= Batch * y
  BY <1>1, <1>4
<1> QED
  BY <1>1, <1>2, <1>3, <1>4

PairRecord == [h : TableRecord, s : TableRecord, fault : {"none", "abort", "shadow"}]

\* The entries from slot i on that the shadow does not have.
Unmoved(h, s, i) == {j \in Exist(h) : j >= i /\ h.at[j] \notin Content(s)}

\* The shadow has the entries before slot i, and no others than the table.
InStep(h, s, i) ==
  /\ Content(s) \subseteq Content(h)
  /\ \A j \in Exist(h) : j < i => h.at[j] \in Content(s)

\* What is used of the shadow, when all is moved to it.
Load(h, s, i) == s.used + Cardinality(Unmoved(h, s, i))

\* A table that is moved to its shadow: both have room for "more" additions
\* and for one with each step that is left.
Shadowed(T, more) ==
  /\ TableOK(T.s) /\ T.s.position = 0 /\ InStep(T.h, T.s, T.h.position)
  /\ Batch * (T.h.used + more - Upper(T.h.n)) <= T.h.position
  /\ Batch * (Load(T.h, T.s, T.h.position) + more) + (T.h.n - T.h.position)
       <= Batch * Upper(T.s.n)

PairOK(T, more) ==
  /\ T \in PairRecord /\ T.fault = "none" /\ TableOK(T.h) /\ T.h.position < T.h.n
  /\ IF Resizing(T) THEN Shadowed(T, more) ELSE T.h.used + more <= Upper(T.h.n)

LEMMA UnmovedFinite ==
  ASSUME NEW h, TableOK(h), NEW s, NEW i
  PROVE  IsFiniteSet(Unmoved(h, s, i)) /\ Cardinality(Unmoved(h, s, i)) \in Nat
<1>1. IsFiniteSet(Exist(h))
  BY TableFacts
<1>2. Unmoved(h, s, i) \subseteq Exist(h)
  BY DEF Unmoved
<1>3. IsFiniteSet(Unmoved(h, s, i))
  BY <1>1, <1>2, FS_Subset
<1> QED
  BY <1>3, FS_CardinalityType

\* A slot is moved.
LEMMA MoveSlot ==
  ASSUME NEW h, TableOK(h), NEW s, TableOK(s), s.used < s.n, NEW i \in Nat, InStep(h, s, i)
  PROVE  LET u == IF i \in Exist(h) THEN PutSlot(s, h.at[i]) ELSE s IN
         /\ TableOK(u) /\ u.n = s.n /\ u.position = s.position
         /\ InStep(h, u, i + 1) /\ Load(h, u, i + 1) <= Load(h, s, i)
<1>0. /\ IsFiniteSet(Unmoved(h, s, i)) /\ Cardinality(Unmoved(h, s, i)) \in Nat
      /\ Exist(h) \subseteq Nat /\ s.used \in Nat /\ h.at \in [Exist(h) -> Entry]
  <2>1. Exist(h) \subseteq 0..h.n - 1 /\ h.n \in Nat
    BY TableFacts
  <2> QED
    BY <2>1, TableFacts, UnmovedFinite
<1>1. CASE i \notin Exist(h)
  <2>1. \A j \in Exist(h) : j < i + 1 => j < i
    BY <1>0, <1>1
  <2>2. InStep(h, s, i + 1)
    BY <2>1 DEF InStep
  <2>3. Unmoved(h, s, i + 1) \subseteq Unmoved(h, s, i)
    BY <1>0 DEF Unmoved
  <2>4. /\ Cardinality(Unmoved(h, s, i + 1)) <= Cardinality(Unmoved(h, s, i))
        /\ Cardinality(Unmoved(h, s, i + 1)) \in Nat
    BY <1>0, <2>3, FS_Subset, UnmovedFinite
  <2>5. Load(h, s, i + 1) <= Load(h, s, i)
    BY <1>0, <2>4 DEF Load
  <2> QED
    BY <1>1, <2>2, <2>5
<1>2. CASE i \in Exist(h)
  <2> DEFINE e == h.at[i]
  <2>1. e \in Entry /\ e \in Content(h)
    BY <1>0, <1>2 DEF Content
  <2>2. PICK u : u = PutSlot(s, e)
    OBVIOUS
  <2>3. /\ TableOK(u) /\ u.n = s.n /\ u.position = s.position
        /\ Content(u) = {c \in Content(s) : c.key # e.key} \cup {e}
        /\ u.used <= s.used + 1
        /\ (\E c \in Content(s) : c.key = e.key) => u.used = s.used
    BY <2>1, <2>2, PutSlotFacts
  <2>4. \A c \in Content(h) : c.key = e.key => c = e
    BY <2>1, TableFacts
  <2>5. Content(s) \subseteq Content(u)
    BY <2>3, <2>4 DEF InStep
  <2>6. InStep(h, u, i + 1)
    <3>1. \A j \in Exist(h) : j < i + 1 => j < i \/ j = i
      BY <1>0
    <3> QED
      BY <2>1, <2>3, <2>5, <3>1 DEF InStep
  <2>7. Unmoved(h, u, i + 1) \subseteq Unmoved(h, s, i) \ {i}
    BY <1>0, <2>5 DEF Unmoved
  <2>8. u.used \in Nat /\ Cardinality(Unmoved(h, u, i + 1)) \in Nat
    BY <2>3, TableFacts, UnmovedFinite
  <2>9. Load(h, u, i + 1) <= Load(h, s, i)
    <3>1. CASE e \in Content(s)
      <4>1. Unmoved(h, u, i + 1) \subseteq Unmoved(h, s, i)
        BY <2>7
      <4>2. Cardinality(Unmoved(h, u, i + 1)) <= Cardinality(Unmoved(h, s, i))
        BY <1>0, <4>1, FS_Subset
      <4>3. u.used = s.used
        BY <2>3, <3>1
      <4> QED
        BY <1>0, <2>8, <4>2, <4>3 DEF Load
    <3>2. CASE e \notin Content(s)
      <4>1. i \in Unmoved(h, s, i)
        BY <1>2, <3>2 DEF Unmoved
      <4>2. /\ IsFiniteSet(Unmoved(h, s, i) \ {i})
            /\ Cardinality(Unmoved(h, s, i) \ {i}) = Cardinality(Unmoved(h, s, i)) - 1
        BY <1>0, <4>1, FS_RemoveElement
      <4>3. Cardinality(Unmoved(h, u, i + 1)) <= Cardinality(Unmoved(h, s, i) \ {i})
        BY <2>7, <4>2, FS_Subset
      <4> QED
        BY <1>0, <2>3, <2>8, <4>2, <4>3 DEF Load
    <3> QED
      BY <3>1, <3>2
  <2> QED
    BY <1>2, <2>2, <2>3, <2>6, <2>9
<1> QED
  BY <1>1, <1>2

\* A batch of slots is moved, to a shadow that has room for them.
LEMMA MovedFacts ==
  ASSUME NEW T, TableOK(T.h), TableOK(T.s), NEW from \in Nat, NEW to \in Nat, from <= to,
         InStep(T.h, T.s, from), Load(T.h, T.s, from) < T.s.n
  PROVE  LET u == Moved(T, from, to) IN
         /\ TableOK(u) /\ u.n = T.s.n /\ u.position = T.s.position
         /\ InStep(T.h, u, to) /\ Load(T.h, u, to) <= Load(T.h, T.s, from)
<1> DEFINE Good(i) == {u \in TableRecord :
                         /\ TableOK(u) /\ u.n = T.s.n /\ u.position = T.s.position
                         /\ InStep(T.h, u, i) /\ Load(T.h, u, i) <= Load(T.h, T.s, from)}
           Step(i, u) == IF i \in Exist(T.h) THEN PutSlot(u, T.h.at[i]) ELSE u
           IsMove(f) == f = [i \in from..to |->
                               IF i = from THEN T.s
                               ELSE IF i - 1 \in Exist(T.h) THEN PutSlot(f[i - 1], T.h.at[i - 1])
                               ELSE f[i - 1]]
<1>1. T.s \in Good(from)
  <2>1. Load(T.h, T.s, from) \in Nat
    <3>1. T.s.used \in Nat
      BY TableFacts
    <3>2. Cardinality(Unmoved(T.h, T.s, from)) \in Nat
      BY UnmovedFinite
    <3> QED
      BY <3>1, <3>2 DEF Load
  <2>2. T.s \in TableRecord
    BY DEF TableOK
  <2> QED
    BY <2>1, <2>2
<1>2. ASSUME NEW i \in Nat, NEW u \in Good(i) PROVE Step(i, u) \in Good(i + 1)
  <2>1. u.used < u.n
    <3>1. u.used \in Nat /\ u.n \in Nat
      BY TableFacts
    <3>2. Cardinality(Unmoved(T.h, u, i)) \in Nat
      BY UnmovedFinite
    <3>3. Load(T.h, T.s, from) \in Nat
      <4>1. T.s.used \in Nat
        BY TableFacts
      <4>2. Cardinality(Unmoved(T.h, T.s, from)) \in Nat
        BY UnmovedFinite
      <4> QED
        BY <4>1, <4>2 DEF Load
    <3>4. Load(T.h, u, i) <= Load(T.h, T.s, from) /\ u.n = T.s.n
      OBVIOUS
    <3>5. u.used <= Load(T.h, u, i) /\ Load(T.h, u, i) \in Nat
      BY <3>1, <3>2 DEF Load
    <3> QED
      BY <3>1, <3>3, <3>4, <3>5
  <2>2. PICK w : w = Step(i, u)
    OBVIOUS
  <2>3. /\ TableOK(w) /\ w.n = u.n /\ w.position = u.position
        /\ InStep(T.h, w, i + 1) /\ Load(T.h, w, i + 1) <= Load(T.h, u, i)
    <3>1. PICK h : h = T.h
      OBVIOUS
    <3>2. w = IF i \in Exist(h) THEN PutSlot(u, h.at[i]) ELSE u
      BY <2>2, <3>1
    <3>3. TableOK(h) /\ TableOK(u) /\ InStep(h, u, i)
      BY <3>1
    <3>4. /\ TableOK(w) /\ w.n = u.n /\ w.position = u.position
          /\ InStep(h, w, i + 1) /\ Load(h, w, i + 1) <= Load(h, u, i)
      BY <2>1, <3>2, <3>3, MoveSlot
    <3> QED
      BY <3>1, <3>4
  <2>4. Load(T.h, w, i + 1) <= Load(T.h, T.s, from)
    <3>1. ASSUME NEW t, TableOK(t), NEW j PROVE Load(T.h, t, j) \in Int
      <4>1. t.used \in Nat
        BY <3>1, TableFacts
      <4>2. Cardinality(Unmoved(T.h, t, j)) \in Nat
        BY UnmovedFinite
      <4> QED
        BY <4>1, <4>2 DEF Load
    <3>2. Load(T.h, w, i + 1) \in Int /\ Load(T.h, u, i) \in Int /\ Load(T.h, T.s, from) \in Int
      BY <2>3, <3>1
    <3>3. Load(T.h, u, i) <= Load(T.h, T.s, from)
      OBVIOUS
    <3> QED
      BY <2>3, <3>2, <3>3
  <2>5. w \in TableRecord
    BY <2>3 DEF TableOK
  <2> QED
    BY <2>2, <2>3, <2>4, <2>5
<1> HIDE DEF Good
<1>3. \E f : IsMove(f)
  <2> DEFINE Q == [i \in from..to |-> Good(i)]
             G == [p \in Nat \X TableRecord |-> Step(p[1], p[2])]
  <2>1. \A i \in from..to - 1 : \A u \in Q[i] : G[<<i, u>>] \in Q[i + 1] /\ G[<<i, u>>] = Step(i, u)
    <3> SUFFICES ASSUME NEW i \in from..to - 1, NEW u \in Q[i]
                 PROVE  G[<<i, u>>] \in Q[i + 1] /\ G[<<i, u>>] = Step(i, u)
      OBVIOUS
    <3>1. i \in from..to /\ i + 1 \in from..to /\ i \in Nat
      OBVIOUS
    <3>2. u \in Good(i) /\ Q[i + 1] = Good(i + 1)
      BY <3>1
    <3>3. u \in TableRecord
      BY <3>2 DEF Good
    <3>4. G[<<i, u>>] = Step(i, u)
      BY <3>1, <3>3
    <3> QED
      BY <1>2, <3>1, <3>2, <3>4
  <2>2. T.s \in Q[from]
    BY <1>1
  <2> HIDE DEF Q, G
  <2>3. \A i \in from..to - 1 : \A u \in Q[i] : G[<<i, u>>] \in Q[i + 1]
    BY <2>1
  <2>4. PICK f : /\ f = [i \in from..to |-> f[i]] /\ f[from] = T.s
                 /\ \A i \in from..to : f[i] \in Q[i]
                 /\ \A i \in from..to - 1 : f[i + 1] = G[<<i, f[i]>>]
    <3>1. Leads(from, to, Q, G, T.s)
      BY <2>2, <2>3 DEF Leads
    <3> QED
      BY <3>1, IterationExists
  <2>5. ASSUME NEW i \in from..to, i # from PROVE f[i] = Step(i - 1, f[i - 1])
    <3>1. i - 1 \in from..to - 1 /\ i - 1 \in from..to /\ (i - 1) + 1 = i
      BY <2>5
    <3> QED
      BY <2>1, <2>4, <3>1
  <2>6. IsMove(f)
    BY <2>4, <2>5
  <2> QED
    BY <2>6
<1>4. PICK g : IsMove(g) /\ Moved(T, from, to) = g[to]
  <2>1. PICK g : g = CHOOSE f : IsMove(f)
    OBVIOUS
  <2>2. IsMove(g)
    BY <1>3, <2>1
  <2>3. Moved(T, from, to) = g[to]
    BY <2>1 DEF Moved
  <2> QED
    BY <2>2, <2>3
<1>5. \A i \in from..to :
        g[i] = IF i = from THEN T.s
               ELSE IF i - 1 \in Exist(T.h) THEN PutSlot(g[i - 1], T.h.at[i - 1])
               ELSE g[i - 1]
  BY <1>4
<1> DEFINE A == {i \in from..to : g[i] \in Good(i)}
<1>6. from \in A
  BY <1>1, <1>5
<1>7. \A i \in from..to : i \in A /\ i < to => i + 1 \in A
  <2> SUFFICES ASSUME NEW i \in from..to, i \in A, i < to PROVE i + 1 \in A
    OBVIOUS
  <2>1. i \in Nat /\ i + 1 \in from..to /\ (i + 1) - 1 = i /\ i + 1 # from
    OBVIOUS
  <2>2. g[i + 1] = Step(i, g[i])
    BY <1>5, <2>1
  <2> QED
    BY <1>2, <2>1, <2>2
<1> HIDE DEF A
<1>8. \A i \in from..to : i \in A
  BY <1>6, <1>7, IntervalInduction, Zenon
<1>9. g[to] \in Good(to)
  BY <1>8 DEF A
<1> QED
  BY <1>4, <1>9 DEF Good

LEMMA NoTableType == NoTable \in TableRecord
<1>1. PICK empty : empty = [i \in {} |-> 0]
  OBVIOUS
<1>2. DOMAIN empty = {} /\ empty \in [{} -> Entry]
  BY <1>1
<1>3. empty \in Contents
  BY <1>2, ContentsType
<1>4. NoTable = [n |-> 0, prime |-> 0, at |-> empty, dirty |-> {}, used |-> 0, size |-> 0, position |-> 0]
  BY <1>1 DEF NoTable, NewTable
<1> QED
  BY <1>3, <1>4 DEF TableRecord

Positioned(t, p) == [t EXCEPT !.position = p]

\* The position is no part of what makes a table.
LEMMA PositionChanged ==
  ASSUME NEW t, TableOK(t), NEW p \in Nat
  PROVE  LET u == Positioned(t, p) IN
         /\ TableOK(u) /\ u.position = p /\ u.n = t.n /\ u.at = t.at /\ u.used = t.used /\ u.size = t.size
         /\ Exist(u) = Exist(t) /\ Content(u) = Content(t)
<1>1. PICK u : u = Positioned(t, p)
  OBVIOUS
<1>2. t \in TableRecord
  BY DEF TableOK
<1>3. /\ u \in TableRecord /\ u.position = p /\ u.n = t.n /\ u.at = t.at /\ u.dirty = t.dirty
      /\ u.used = t.used /\ u.size = t.size /\ u.prime = t.prime
  BY <1>1, <1>2 DEF TableRecord, Positioned
<1>4. Exist(u) = Exist(t) /\ Taken(u) = Taken(t) /\ Content(u) = Content(t)
  BY <1>3 DEF Exist, Taken, Content
<1>5. \A l, j : Probe(u, l, j) = Probe(t, l, j)
  BY <1>3 DEF Probe
<1>6. TableOK(u)
  BY <1>3, <1>4, <1>5 DEF TableOK, Chained
<1> QED
  BY <1>1, <1>3, <1>4, <1>6

\* Nor is the index of the prime, as long as it does not fall behind.
LEMMA PrimeChanged ==
  ASSUME NEW t, TableOK(t), NEW p \in DOMAIN Primes, t.n <= Primes[p]
  PROVE  LET u == Primed(t, p) IN
         /\ TableOK(u) /\ u.position = t.position /\ u.n = t.n /\ u.at = t.at
         /\ u.used = t.used /\ u.size = t.size
         /\ Exist(u) = Exist(t) /\ Content(u) = Content(t)
<1>1. PICK u : u = Primed(t, p)
  OBVIOUS
<1>2. t \in TableRecord /\ p \in Nat
  BY PrimesAssumption DEF TableOK
<1>3. /\ u \in TableRecord /\ u.position = t.position /\ u.n = t.n /\ u.at = t.at /\ u.dirty = t.dirty
      /\ u.used = t.used /\ u.size = t.size /\ u.prime = p
  BY <1>1, <1>2 DEF TableRecord, Primed
<1>4. Exist(u) = Exist(t) /\ Taken(u) = Taken(t) /\ Content(u) = Content(t)
  BY <1>3 DEF Exist, Taken, Content
<1>5. \A l, j : Probe(u, l, j) = Probe(t, l, j)
  BY <1>3 DEF Probe
<1>6. TableOK(u)
  BY <1>3, <1>4, <1>5 DEF TableOK, Chained
<1> QED
  BY <1>1, <1>3, <1>4, <1>6

LEMMA PositionInStep ==
  ASSUME NEW t, NEW u, u.at = t.at, NEW s, NEW i
  PROVE  Load(u, s, i) = Load(t, s, i) /\ (InStep(t, s, i) => InStep(u, s, i))
BY DEF Load, Unmoved, InStep, Exist, Content

\* There are as many entries as slots in use.
LEMMA ContentSize ==
  ASSUME NEW t, TableOK(t)
  PROVE  t.size = Cardinality(Content(t))
<1> DEFINE f == [i \in Exist(t) |-> t.at[i]]
<1>1. \A i, j \in Exist(t) : f[i] = f[j] => i = j
  BY DEF TableOK
<1>2. f \in [Exist(t) -> Content(t)] /\ \A c \in Content(t) : \E i \in Exist(t) : f[i] = c
  BY DEF Content
<1>3. f \in Bijection(Exist(t), Content(t))
  BY <1>1, <1>2 DEF Bijection, Injection, Surjection, IsInjective
<1>4. ExistsBijection(Exist(t), Content(t))
  BY <1>3 DEF ExistsBijection
<1>5. IsFiniteSet(Exist(t))
  BY TableFacts
<1>6. Cardinality(Content(t)) = Cardinality(Exist(t))
  BY <1>4, <1>5, FS_Bijection
<1> QED
  BY <1>6 DEF TableOK

LEMMA LoadType ==
  ASSUME NEW h, TableOK(h), NEW s, TableOK(s), NEW i
  PROVE  Load(h, s, i) \in Nat /\ s.used <= Load(h, s, i)
<1>1. s.used \in Nat
  BY TableFacts
<1>2. Cardinality(Unmoved(h, s, i)) \in Nat
  BY UnmovedFinite
<1> QED
  BY <1>1, <1>2 DEF Load

\* The bounds of a table that is moved, and of its shadow.
LEMMA ShadowedBounds ==
  ASSUME NEW T, TableOK(T.h), T.h.position < T.h.n, NEW more \in Nat, Shadowed(T, more)
  PROVE  /\ T.h.used + more < T.h.n
         /\ Load(T.h, T.s, T.h.position) + more < Upper(T.s.n)
         /\ T.s.used + more < Upper(T.s.n) /\ Upper(T.s.n) < T.s.n
<1>1. PICK n, used, pos, load, m, U, V :
        /\ n = T.h.n /\ used = T.h.used /\ pos = T.h.position /\ m = T.s.n
        /\ load = Load(T.h, T.s, T.h.position) /\ U = Upper(n) /\ V = Upper(m)
  OBVIOUS
<1>2. n \in Nat /\ used \in Nat /\ pos \in Nat /\ m \in Nat /\ m >= 3 /\ n >= 3
  BY <1>1, TableFacts DEF Shadowed
<1>3. load \in Nat /\ T.s.used <= load /\ T.s.used \in Nat
  BY <1>1, LoadType, TableFacts DEF Shadowed
<1>4. /\ U \in Nat /\ 10 * U <= 7 * n
      /\ V \in Nat /\ 10 * V <= 7 * m
  BY <1>1, <1>2, UpperFacts
<1>5. /\ pos < n /\ Batch * (used + more - U) <= pos
      /\ Batch * (load + more) + (n - pos) <= Batch * V
  BY <1>1 DEF Shadowed
<1>6. used + more < n
  <2> SUFFICES ASSUME used + more >= n PROVE FALSE
    BY <1>2
  <2>1. PICK d \in Int : d = used + more - U
    BY <1>2, <1>4
  <2>2. 0 <= d /\ 3 * n <= 10 * d
    BY <1>2, <1>4, <2>1
  <2>3. n <= Batch * d
    BY <1>2, <2>2, BatchFacts
  <2>4. Batch * d <= pos /\ Batch * d \in Int
    BY <1>5, <2>1, BatchFacts
  <2> QED
    BY <1>2, <1>5, <2>3, <2>4
<1>7. load + more < V
  <2> SUFFICES ASSUME V <= load + more PROVE FALSE
    BY <1>3, <1>4
  <2>1. PICK d \in Int : d = load + more
    BY <1>3
  <2>2. Batch * V <= Batch * d /\ Batch * V \in Int /\ Batch * d \in Int
    BY <1>4, <2>1, BatchFacts
  <2>3. Batch * d + (n - pos) <= Batch * V
    BY <1>5, <2>1
  <2> QED
    BY <1>2, <1>5, <2>2, <2>3
<1>8. V < m
  BY <1>2, <1>4
<1> QED
  BY <1>1, <1>3, <1>4, <1>6, <1>7, <1>8

\* A step of a resize keeps the entries, and leaves room for an addition.
LEMMA ResizeStepFacts ==
  ASSUME NEW T \in PairRecord, T.fault = "none", TableOK(T.h), T.h.position < T.h.n, Shadowed(T, 0)
  PROVE  LET R == ResizeStep(T) IN
         /\ PairOK(R, 1) /\ Content(R.h) = Content(T.h)
         /\ Resizing(R) => R.h.n = T.h.n /\ R.h.at = T.h.at
<1>1. PICK h, s, n, pos, to, u :
        /\ h = T.h /\ s = T.s /\ n = h.n /\ pos = h.position /\ to = Min({pos + Batch, n})
        /\ u = Moved(T, pos, to)
  OBVIOUS
<1>2. /\ TableOK(h) /\ TableOK(s) /\ s.position = 0 /\ InStep(h, s, pos) /\ pos < n
      /\ Batch * (h.used + 0 - Upper(n)) <= pos
      /\ Batch * (Load(h, s, pos) + 0) + (n - pos) <= Batch * Upper(s.n)
  BY <1>1 DEF Shadowed
<1>3. /\ n \in Nat /\ n >= 3 /\ pos \in Nat /\ h.used \in Nat /\ Upper(n) \in Nat
      /\ s.n \in Nat /\ Upper(s.n) \in Nat /\ Load(h, s, pos) \in Nat /\ s.used \in Nat
  <2>1. n \in Nat /\ n >= 3 /\ pos \in Nat /\ h.used \in Nat /\ s.n \in Nat /\ s.used \in Nat
    BY <1>1, <1>2, TableFacts
  <2> QED
    BY <1>2, <2>1, UpperFacts, LoadType
<1>4. Batch \in Nat /\ Batch >= 4
  BY BatchFacts
<1>5. to = (IF pos + Batch <= n THEN pos + Batch ELSE n) /\ to \in Nat /\ pos <= to /\ to <= n /\ to > 0
  BY <1>1, <1>2, <1>3, <1>4, MinPair
<1>6. Load(h, s, pos) < Upper(s.n) /\ Upper(s.n) < s.n
  <2>1. /\ Load(h, s, pos) + 0 < Upper(s.n) /\ Upper(s.n) < s.n
    BY <1>1, <1>2, ShadowedBounds
  <2> QED
    BY <1>3, <2>1
<1>7. /\ TableOK(u) /\ u.n = s.n /\ u.position = 0
      /\ InStep(h, u, to) /\ Load(h, u, to) <= Load(h, s, pos)
  <2>1. Load(h, s, pos) < s.n
    BY <1>3, <1>6
  <2> QED
    BY <1>1, <1>2, <1>3, <1>5, <2>1, MovedFacts
<1>8. Load(h, u, to) \in Nat /\ u.used <= Load(h, u, to) /\ u.used \in Nat
  BY <1>2, <1>7, LoadType, TableFacts
<1>9. PICK g : g = Positioned(h, to)
  OBVIOUS
<1>10. /\ TableOK(g) /\ g.position = to /\ g.n = n /\ g.at = h.at /\ g.used = h.used /\ g.size = h.size
       /\ Exist(g) = Exist(h) /\ Content(g) = Content(h)
       /\ Load(g, u, to) = Load(h, u, to) /\ InStep(g, u, to)
  <2>1. /\ TableOK(g) /\ g.position = to /\ g.n = h.n /\ g.at = h.at /\ g.used = h.used /\ g.size = h.size
        /\ Exist(g) = Exist(h) /\ Content(g) = Content(h)
    BY <1>2, <1>5, <1>9, PositionChanged
  <2>2. Load(g, u, to) = Load(h, u, to) /\ InStep(g, u, to)
    BY <1>7, <2>1, PositionInStep
  <2> QED
    BY <1>1, <2>1, <2>2
<1>11. PICK Y : Y = [T EXCEPT !.h.position = to, !.s = u]
  OBVIOUS
<1>12. g \in TableRecord /\ u \in TableRecord
  BY <1>7, <1>10 DEF TableOK
<1>13. Y \in PairRecord /\ Y.h = g /\ Y.s = u /\ Y.fault = "none"
  <2>1. Y = [T EXCEPT !.h = g, !.s = u]
    BY <1>1, <1>9, <1>11 DEF PairRecord, Positioned
  <2> QED
    BY <1>12, <2>1 DEF PairRecord
<1>14. PICK R : R = Exchange(Y)
  OBVIOUS
<1>15. ResizeStep(T) = R
  BY <1>1, <1>11, <1>14 DEF ResizeStep
<1>16. CASE to < n
  <2>1. R = Y /\ Resizing(R)
    BY <1>5, <1>10, <1>13, <1>14, <1>16 DEF Exchange, Resizing
  <2>2. to = pos + Batch
    BY <1>3, <1>4, <1>5, <1>16
  <2>3. Batch * (g.used + 1 - Upper(g.n)) <= g.position
    <3>1. PICK d \in Int : d = h.used + 0 - Upper(n)
      BY <1>3
    <3>2. Batch * (d + 1) = Batch * d + Batch * 1 /\ Batch * d \in Int
      BY <3>1, BatchFacts
    <3>3. Batch * d <= pos
      BY <1>2, <3>1
    <3>4. g.used + 1 - Upper(g.n) = d + 1
      BY <1>3, <1>10, <3>1
    <3> QED
      BY <1>3, <1>4, <1>10, <2>2, <3>2, <3>3, <3>4
  <2>4. Batch * (Load(g, u, to) + 1) + (n - to) <= Batch * Upper(s.n)
    <3>1. PICK d \in Int, e \in Int : d = Load(h, u, to) /\ e = Load(h, s, pos) + 0
      BY <1>3, <1>8
    <3>2. Batch * (d + 1) = Batch * d + Batch * 1 /\ Batch * d \in Int
      BY <3>1, BatchFacts
    <3>3. d <= e
      BY <1>3, <1>7, <3>1
    <3>4. Batch * d <= Batch * e /\ Batch * e \in Int
      BY <3>1, <3>3, BatchFacts
    <3>5. Batch * e + (n - pos) <= Batch * Upper(s.n) /\ Batch * Upper(s.n) \in Int
      BY <1>2, <1>3, <3>1, BatchFacts
    <3>6. Load(g, u, to) + 1 = d + 1
      BY <1>10, <3>1
    <3> QED
      BY <1>3, <1>4, <2>2, <3>2, <3>4, <3>5, <3>6
  <2>5. Shadowed(R, 1)
    BY <1>7, <1>10, <1>13, <2>1, <2>3, <2>4 DEF Shadowed
  <2>6. PairOK(R, 1)
    BY <1>10, <1>13, <1>16, <2>1, <2>5 DEF PairOK
  <2> QED
    BY <1>1, <1>10, <1>13, <1>15, <2>1, <2>6
<1>17. CASE ~(to < n)
  <2>1. to = n
    BY <1>3, <1>5, <1>17
  <2>2. Exist(h) \subseteq 0..n - 1
    BY <1>1, <1>2, TableFacts
  <2>3. \A c \in Content(h) : c \in Content(u)
    <3>1. \A j \in Exist(h) : j < to
      BY <1>3, <2>1, <2>2
    <3> QED
      BY <1>7, <3>1 DEF InStep, Content
  <2>4. Content(u) = Content(h)
    BY <1>7, <2>3 DEF InStep
  <2>5. u.size = g.size
    BY <1>2, <1>7, <1>10, <2>4, ContentSize
  <2>6. NoTable \in TableRecord
    BY NoTableType
  <2>7. R = [Y EXCEPT !.h = Y.s, !.s = NoTable]
    BY <1>10, <1>13, <1>14, <1>17, <2>5 DEF Exchange
  <2>8. R \in PairRecord /\ R.h = u /\ R.fault = "none"
    BY <1>12, <1>13, <2>6, <2>7 DEF PairRecord
  <2>9. u.used + 1 <= Upper(u.n)
    BY <1>3, <1>6, <1>7, <1>8
  <2>10. u.position < u.n
    BY <1>7, TableFacts
  <2>11. PairOK(R, 1) /\ ~Resizing(R)
    BY <1>7, <2>8, <2>9, <2>10 DEF PairOK, Resizing
  <2> QED
    BY <1>1, <1>15, <2>4, <2>8, <2>11
<1> QED
  BY <1>16, <1>17

\* Room for an addition is more than none.
LEMMA SpareRoom ==
  ASSUME NEW T, PairOK(T, 1)
  PROVE  PairOK(T, 0)
<1>1. TableOK(T.h) /\ T.h.used \in Nat /\ T.h.n \in Nat /\ T.h.position \in Nat /\ Upper(T.h.n) \in Nat
  BY TableFacts, UpperFacts DEF PairOK
<1>2. CASE ~Resizing(T)
  BY <1>1, <1>2 DEF PairOK
<1>3. CASE Resizing(T)
  <2>1. Shadowed(T, 1)
    BY <1>3 DEF PairOK
  <2>2. Load(T.h, T.s, T.h.position) \in Nat
    BY <1>1, <2>1, LoadType DEF Shadowed
  <2>3. Upper(T.s.n) \in Nat
    BY <2>1, TableFacts, UpperFacts DEF Shadowed
  <2>4. PICK x \in Int, y \in Int : x = T.h.used - Upper(T.h.n) /\ y = Load(T.h, T.s, T.h.position)
    BY <1>1, <2>2
  <2>5. /\ T.h.used + 1 - Upper(T.h.n) = x + 1 /\ T.h.used + 0 - Upper(T.h.n) = x
        /\ Load(T.h, T.s, T.h.position) + 1 = y + 1 /\ Load(T.h, T.s, T.h.position) + 0 = y
    BY <1>1, <2>2, <2>4
  <2>6. Batch * x <= Batch * (x + 1) /\ Batch * y <= Batch * (y + 1)
    BY BatchFacts
  <2>7. /\ Batch * x \in Int /\ Batch * (x + 1) \in Int /\ Batch * y \in Int /\ Batch * (y + 1) \in Int
        /\ Batch * Upper(T.s.n) \in Int
    BY <2>3, BatchFacts
  <2>8. Batch * (T.h.used + 0 - Upper(T.h.n)) <= T.h.position
    BY <1>1, <2>1, <2>5, <2>6, <2>7 DEF Shadowed
  <2>9. Batch * (Load(T.h, T.s, T.h.position) + 0) + (T.h.n - T.h.position) <= Batch * Upper(T.s.n)
    BY <1>1, <2>1, <2>5, <2>6, <2>7 DEF Shadowed
  <2>10. Shadowed(T, 0)
    BY <2>1, <2>8, <2>9 DEF Shadowed
  <2> QED
    BY <1>3, <2>10 DEF PairOK
<1> QED
  BY <1>2, <1>3

\* How much is used of a table: never all of it.
LEMMA UsedBelow ==
  ASSUME NEW T, NEW more \in Nat, PairOK(T, more)
  PROVE  T.h.used + more < T.h.n
<1>1. TableOK(T.h) /\ T.h.used \in Nat /\ T.h.n \in Nat /\ T.h.n >= 3
  BY TableFacts DEF PairOK
<1>2. Upper(T.h.n) \in Nat /\ Upper(T.h.n) < T.h.n
  BY <1>1, UpperFacts
<1>3. CASE ~Resizing(T)
  BY <1>1, <1>2, <1>3 DEF PairOK
<1>4. CASE Resizing(T)
  BY <1>4, ShadowedBounds DEF PairOK
<1> QED
  BY <1>3, <1>4

\* An addition to a table and its shadow.
LEMMA PutBoth ==
  ASSUME NEW T, PairOK(T, 1), NEW e \in Entry
  PROVE  LET R == PutTable(PutShadow(T, e), e) IN
         /\ PairOK(R, 0)
         /\ Content(R.h) = {c \in Content(T.h) : c.key # e.key} \cup {e}
<1>1. PICK h, s, u, pos, R :
        h = T.h /\ s = T.s /\ u = PutSlot(h, e) /\ pos = h.position /\ R = PutTable(PutShadow(T, e), e)
  OBVIOUS
<1>2. /\ T \in PairRecord /\ T.fault = "none" /\ TableOK(h) /\ pos < h.n /\ pos \in Nat
      /\ h.n \in Nat /\ h.used \in Nat /\ s \in TableRecord
  BY <1>1, TableFacts DEF PairOK, PairRecord
<1>3. h.used < h.n
  <2>1. T.h.used + 1 < T.h.n
    BY UsedBelow
  <2> QED
    BY <1>1, <1>2, <2>1
<1>4. /\ TableOK(u) /\ u.n = h.n /\ u.position = pos
      /\ Content(u) = {c \in Content(h) : c.key # e.key} \cup {e}
      /\ u.used <= h.used + 1 /\ u.used \in Nat
      /\ \A i \in Exist(u) : u.at[i] # e => i \in Exist(h) /\ h.at[i] = u.at[i]
  BY <1>1, <1>2, <1>3, PutSlotFacts, TableFacts
<1>5. u \in TableRecord
  BY <1>4 DEF TableOK
<1>6. CASE ~Resizing(T)
  <2>1. PutShadow(T, e) = T
    BY <1>6 DEF PutShadow
  <2>2. R = [T EXCEPT !.h = u]
    BY <1>1, <2>1 DEF PutTable
  <2>3. R \in PairRecord /\ R.h = u /\ R.fault = "none"
    BY <1>2, <1>5, <2>2 DEF PairRecord
  <2>4. ~Resizing(R)
    BY <1>1, <1>4, <1>6, <2>3 DEF Resizing
  <2>5. h.used + 1 <= Upper(h.n) /\ Upper(h.n) \in Nat
    BY <1>1, <1>2, <1>6, UpperFacts DEF PairOK
  <2>6. u.used + 0 <= Upper(u.n)
    BY <1>2, <1>4, <2>5
  <2>7. PairOK(R, 0)
    BY <1>2, <1>4, <2>3, <2>4, <2>6 DEF PairOK
  <2> QED
    BY <1>1, <1>4, <2>3, <2>7
<1>7. CASE Resizing(T)
  <2>1. /\ TableOK(s) /\ s.position = 0 /\ InStep(h, s, pos)
        /\ Batch * (h.used + 1 - Upper(h.n)) <= pos
        /\ Batch * (Load(h, s, pos) + 1) + (h.n - pos) <= Batch * Upper(s.n)
    BY <1>1, <1>7 DEF PairOK, Shadowed
  <2>2. /\ s.used \in Nat /\ s.size \in Nat /\ s.size <= s.used /\ s.n \in Nat /\ Upper(s.n) \in Nat
        /\ Load(h, s, pos) \in Nat /\ Upper(h.n) \in Nat
    BY <1>2, <2>1, TableFacts, UpperFacts, LoadType
  <2>3. s.used < Upper(s.n) /\ Upper(s.n) < s.n
    <3>1. T.s.used + 1 < Upper(T.s.n) /\ Upper(T.s.n) < T.s.n
      BY <1>1, <1>2, <1>7, ShadowedBounds DEF PairOK
    <3> QED
      BY <1>1, <2>2, <3>1
  <2>4. PICK v : v = PutSlot(s, e)
    OBVIOUS
  <2>5. /\ TableOK(v) /\ v.n = s.n /\ v.position = 0
        /\ Content(v) = {c \in Content(s) : c.key # e.key} \cup {e}
        /\ v.used <= s.used + 1 /\ v.used \in Nat
    <3>1. s.used < s.n
      BY <2>2, <2>3
    <3> QED
      BY <2>1, <2>4, <3>1, PutSlotFacts, TableFacts
  <2>6. PutShadow(T, e) = [T EXCEPT !.s = v]
    BY <1>1, <1>7, <2>2, <2>3, <2>4 DEF PutShadow
  <2>7. R = [T EXCEPT !.s = v, !.h = u]
    BY <1>1, <1>2, <2>6 DEF PutTable, PairRecord
  <2>8. v \in TableRecord
    BY <2>5 DEF TableOK
  <2>9. R \in PairRecord /\ R.h = u /\ R.s = v /\ R.fault = "none"
    BY <1>2, <1>5, <2>7, <2>8 DEF PairRecord
  <2>10. Resizing(R)
    BY <1>1, <1>4, <1>7, <2>9 DEF Resizing
  <2>11. \A j \in Exist(u) : u.at[j] = e \/ (j \in Exist(h) /\ h.at[j] = u.at[j] /\ u.at[j].key # e.key)
    <3> SUFFICES ASSUME NEW j \in Exist(u), u.at[j] # e
                 PROVE  j \in Exist(h) /\ h.at[j] = u.at[j] /\ u.at[j].key # e.key
      OBVIOUS
    <3>1. j \in Exist(h) /\ h.at[j] = u.at[j]
      BY <1>4
    <3>2. u.at[j] \in Content(u) /\ e \in Content(u)
      BY <1>4 DEF Content
    <3>3. u.at[j].key # e.key
      BY <1>4, <3>2, TableFacts
    <3> QED
      BY <3>1, <3>3
  <2>12. InStep(u, v, pos)
    <3>1. Content(v) \subseteq Content(u)
      BY <1>4, <2>1, <2>5 DEF InStep
    <3>2. ASSUME NEW j \in Exist(u), j < pos PROVE u.at[j] \in Content(v)
      <4>1. CASE u.at[j] = e
        BY <2>5, <4>1
      <4>2. CASE u.at[j] # e
        BY <2>1, <2>5, <2>11, <3>2, <4>2 DEF InStep
      <4> QED
        BY <4>1, <4>2
    <3> QED
      BY <3>1, <3>2 DEF InStep
  <2>13. Unmoved(u, v, pos) \subseteq Unmoved(h, s, pos)
    BY <2>5, <2>11 DEF Unmoved
  <2>14. Load(u, v, pos) <= Load(h, s, pos) + 1 /\ Load(u, v, pos) \in Nat
    <3>1. IsFiniteSet(Unmoved(h, s, pos)) /\ Cardinality(Unmoved(h, s, pos)) \in Nat
      BY <1>2, UnmovedFinite
    <3>2. Cardinality(Unmoved(u, v, pos)) <= Cardinality(Unmoved(h, s, pos))
      BY <2>13, <3>1, FS_Subset
    <3>3. Cardinality(Unmoved(u, v, pos)) \in Nat
      BY <1>4, UnmovedFinite
    <3> QED
      BY <2>2, <2>5, <3>1, <3>2, <3>3 DEF Load
  <2>15. Batch * (u.used + 0 - Upper(u.n)) <= u.position
    <3>1. PICK x \in Int, y \in Int : x = u.used + 0 - Upper(u.n) /\ y = h.used + 1 - Upper(h.n)
      BY <1>2, <1>4, <2>2
    <3>2. x <= y
      BY <1>2, <1>4, <2>2, <3>1
    <3>3. Batch * x <= Batch * y /\ Batch * x \in Int /\ Batch * y \in Int
      BY <3>2, BatchFacts
    <3> QED
      BY <1>2, <1>4, <2>1, <3>1, <3>3
  <2>16. Batch * (Load(u, v, pos) + 0) + (u.n - pos) <= Batch * Upper(v.n)
    <3>1. PICK x \in Int, y \in Int : x = Load(u, v, pos) + 0 /\ y = Load(h, s, pos) + 1
      BY <2>2, <2>14
    <3>2. x <= y
      BY <2>2, <2>14, <3>1
    <3>3. Batch * x <= Batch * y /\ Batch * x \in Int /\ Batch * y \in Int /\ Batch * Upper(s.n) \in Int
      BY <2>2, <3>2, BatchFacts
    <3> QED
      BY <1>2, <1>4, <2>1, <2>5, <3>1, <3>3
  <2>17. Shadowed(R, 0)
    BY <1>4, <2>5, <2>9, <2>12, <2>15, <2>16 DEF Shadowed
  <2>18. PairOK(R, 0)
    BY <1>2, <1>4, <2>9, <2>10, <2>17 DEF PairOK
  <2> QED
    BY <1>1, <1>4, <2>9, <2>18
<1> QED
  BY <1>6, <1>7

\* A resize begins with room for all entries and for the additions.
\* The prime of a table that is not resized.
LEMMA PrimeOfPair ==
  ASSUME NEW T, PairOK(T, 0), ~Resizing(T), NEW p \in DOMAIN Primes, T.h.n <= Primes[p]
  PROVE  LET R == [T EXCEPT !.h = Primed(@, p)] IN
         /\ PairOK(R, 0) /\ ~Resizing(R) /\ R.h = Primed(T.h, p)
         /\ R.h.n = T.h.n /\ R.h.size = T.h.size /\ R.h.at = T.h.at /\ Content(R.h) = Content(T.h)
<1>1. PICK u, R : u = Primed(T.h, p) /\ R = [T EXCEPT !.h = u]
  OBVIOUS
<1>2. /\ T \in PairRecord /\ T.fault = "none" /\ TableOK(T.h) /\ T.h.position < T.h.n
      /\ T.h.used + 0 <= Upper(T.h.n)
  BY DEF PairOK
<1>3. /\ TableOK(u) /\ u.position = T.h.position /\ u.n = T.h.n /\ u.at = T.h.at
      /\ u.used = T.h.used /\ u.size = T.h.size /\ Content(u) = Content(T.h)
  BY <1>1, <1>2, PrimeChanged
<1>4. u \in TableRecord
  BY <1>3 DEF TableOK
<1>5. R \in PairRecord /\ R.h = u /\ R.s = T.s /\ R.fault = T.fault
  BY <1>1, <1>2, <1>4 DEF PairRecord
<1>6. ~Resizing(R)
  BY <1>3, <1>5 DEF Resizing
<1>7. PairOK(R, 0)
  BY <1>2, <1>3, <1>5, <1>6 DEF PairOK
<1>8. R = [T EXCEPT !.h = Primed(@, p)]
  BY <1>1
<1> QED
  BY <1>1, <1>3, <1>5, <1>6, <1>7, <1>8

\* A resize begins with its first step.
LEMMA FirstStep ==
  ASSUME NEW T, PairOK(T, 0), ~Resizing(T), NEW p \in DOMAIN Primes,
         Batch * T.h.size + T.h.n <= Batch * Upper(Primes[p])
  PROVE  LET R == ResizeStep([T EXCEPT !.s = NewTable(Primes[p], p)]) IN
         PairOK(R, 1) /\ Content(R.h) = Content(T.h)
<1>1. PICK N, w, Y : N = Primes[p] /\ w = NewTable(N, p) /\ Y = [T EXCEPT !.s = w]
  OBVIOUS
<1>2. /\ T \in PairRecord /\ T.fault = "none" /\ TableOK(T.h) /\ T.h.position = 0
      /\ T.h.n \in Nat /\ T.h.n >= 3 /\ T.h.used \in Nat /\ T.h.size \in Nat
      /\ T.h.used <= Upper(T.h.n) /\ Upper(T.h.n) \in Nat /\ Exist(T.h) \subseteq Nat
  <2>1. T \in PairRecord /\ T.fault = "none" /\ TableOK(T.h) /\ T.h.used + 0 <= Upper(T.h.n)
    BY DEF PairOK
  <2>2. /\ T.h.n \in Nat /\ T.h.n >= 3 /\ T.h.used \in Nat /\ T.h.size \in Nat /\ T.h.position \in Nat
        /\ Exist(T.h) \subseteq 0..T.h.n - 1
    BY <2>1, TableFacts
  <2>3. Upper(T.h.n) \in Nat
    BY <2>2, UpperFacts
  <2>4. T.h.position = 0
    BY <2>2 DEF Resizing
  <2> QED
    BY <2>1, <2>2, <2>3, <2>4
<1>3. /\ TableOK(w) /\ Exist(w) = {} /\ Content(w) = {} /\ w.n = N /\ w.used = 0 /\ w.position = 0
  BY <1>1, NewTableOK
<1>4. w \in TableRecord
  BY <1>3 DEF TableOK
<1>5. Y \in PairRecord /\ Y.h = T.h /\ Y.s = w /\ Y.fault = "none"
  BY <1>1, <1>2, <1>4 DEF PairRecord
<1>6. InStep(T.h, w, 0)
  BY <1>2, <1>3 DEF InStep
<1>7. Load(T.h, w, 0) = T.h.size
  <2>1. Unmoved(T.h, w, 0) = Exist(T.h)
    BY <1>2, <1>3 DEF Unmoved
  <2> QED
    BY <1>2, <1>3, <2>1 DEF Load, TableOK
<1>8. Batch * (T.h.used + 0 - Upper(T.h.n)) <= 0
  <2>1. PICK x \in Int : x = T.h.used + 0 - Upper(T.h.n)
    BY <1>2
  <2>2. x <= 0 /\ Batch * x <= Batch * 0 /\ Batch \in Nat
    BY <1>2, <2>1, BatchFacts
  <2> QED
    BY <2>1, <2>2
<1>9. Shadowed(Y, 0)
  <2>1. Batch * (Load(Y.h, Y.s, Y.h.position) + 0) + (Y.h.n - Y.h.position) <= Batch * Upper(Y.s.n)
    <3>1. Load(Y.h, Y.s, Y.h.position) + 0 = T.h.size /\ Y.h.n - Y.h.position = T.h.n
      BY <1>2, <1>5, <1>7
    <3> QED
      BY <1>1, <1>3, <1>5, <3>1
  <2> QED
    BY <1>2, <1>3, <1>5, <1>6, <1>8, <2>1 DEF Shadowed
<1>10. PairOK(ResizeStep(Y), 1) /\ Content(ResizeStep(Y).h) = Content(Y.h)
  BY <1>2, <1>5, <1>9, ResizeStepFacts
<1> QED
  BY <1>1, <1>5, <1>10

\* mh_events_start_resize
LEMMA StartFacts ==
  ASSUME NEW T, PairOK(T, 0), ~Resizing(T), NEW m \in Nat, T.h.n <= m, NEW ok \in BOOLEAN,
         NextPrime(T.h.prime, m) \in DOMAIN Primes,
         T.h.n <= Primes[NextPrime(T.h.prime, m)],
         Batch * T.h.size + T.h.n <= Batch * Upper(Primes[NextPrime(T.h.prime, m)])
  PROVE  LET R == StartResize(T, m, ok) IN
         /\ Content(R.h) = Content(T.h)
         /\ ok = TRUE => PairOK(R, 1)
         /\ ok = FALSE => PairOK(R, 0) /\ R.h.at = T.h.at
<1>1. PICK p, X, R : p = NextPrime(T.h.prime, m) /\ X = [T EXCEPT !.h = Primed(@, p)] /\ R = StartResize(T, m, ok)
  OBVIOUS
<1>2. /\ PairOK(X, 0) /\ ~Resizing(X) /\ X.h.n = T.h.n /\ X.h.size = T.h.size
      /\ X.h.at = T.h.at /\ Content(X.h) = Content(T.h)
  BY <1>1, PrimeOfPair
<1>3. ~(m < T.h.n)
  <2>1. T.h.n \in Nat
    BY TableFacts DEF PairOK
  <2> QED
    BY <2>1
<1>4. CASE ok = FALSE
  <2>1. R = X
    BY <1>1, <1>3, <1>4 DEF StartResize
  <2> QED
    BY <1>1, <1>2, <1>4, <2>1
<1>5. CASE ok = TRUE
  <2>1. PICK w : w = NewTable(Primes[p], p)
    OBVIOUS
  <2>2. R = ResizeStep([T EXCEPT !.h = Primed(@, p), !.s = w])
    BY <1>1, <1>3, <1>5, <2>1 DEF StartResize
  <2>3. T \in PairRecord
    BY DEF PairOK
  <2>4. [T EXCEPT !.h = Primed(@, p), !.s = w] = [X EXCEPT !.s = w]
    BY <1>1, <2>3 DEF PairRecord
  <2>5. p \in DOMAIN Primes /\ Batch * X.h.size + X.h.n <= Batch * Upper(Primes[p])
    BY <1>1, <1>2
  <2>6. PICK Z : Z = ResizeStep([X EXCEPT !.s = NewTable(Primes[p], p)])
    OBVIOUS
  <2>7. PairOK(Z, 1) /\ Content(Z.h) = Content(X.h)
    BY <1>2, <2>5, <2>6, FirstStep
  <2>8. R = Z
    <3>1. PICK a, b : a = [T EXCEPT !.h = Primed(@, p), !.s = w] /\ b = [X EXCEPT !.s = w]
      OBVIOUS
    <3>2. a = b
      BY <2>4, <3>1
    <3>3. R = ResizeStep(a) /\ Z = ResizeStep(b)
      BY <2>1, <2>2, <2>6, <3>1
    <3> QED
      BY <3>2, <3>3
  <2> QED
    BY <1>1, <1>2, <1>5, <2>7, <2>8
<1> QED
  BY <1>4, <1>5

\* There are no more entries than keys.
LEMMA SizeBelowKeys ==
  ASSUME NEW t, TableOK(t)
  PROVE  t.size <= Cardinality(Key) /\ Cardinality(Key) \in Nat
<1> DEFINE f == [i \in Exist(t) |-> t.at[i].key]
<1>1. \A i, j \in Exist(t) : f[i] = f[j] => i = j
  BY DEF TableOK
<1>2. f \in [Exist(t) -> Key]
  BY TableFacts DEF Entry
<1>3. f \in Injection(Exist(t), Key)
  BY <1>1, <1>2 DEF Injection, IsInjective
<1>4. IsFiniteSet(Key)
  BY KeyAssumption
<1>5. Cardinality(Exist(t)) <= Cardinality(Key)
  BY <1>3, <1>4, FS_Injection
<1> QED
  BY <1>4, <1>5, FS_CardinalityType DEF TableOK

\* The prime that follows.
LEMMA NextPrimeFacts ==
  ASSUME NEW t, TableOK(t), NEW m \in Nat
  PROVE  LET p == NextPrime(t.prime, m) IN
         /\ p \in DOMAIN Primes /\ t.prime <= p /\ t.n <= Primes[p]
         /\ p = Len(Primes) \/ m <= Primes[p]
<1> DEFINE fit == {j \in t.prime..Len(Primes) : Primes[j] >= m}
<1>1. /\ Primes \in Seq(Nat) /\ DOMAIN Primes = 1..Len(Primes) /\ Len(Primes) \in Nat
      /\ t.prime \in DOMAIN Primes /\ t.n <= Primes[t.prime] /\ t.n \in Nat
  BY PrimesAssumption, TableFacts DEF TableOK
<1>2. PICK p : p = NextPrime(t.prime, m)
  OBVIOUS
<1>3. p = IF fit = {} THEN Len(Primes) ELSE Min(fit)
  BY <1>2 DEF NextPrime
<1>4. fit # {} => Min(fit) \in fit
  <2>1. fit \in SUBSET Nat
    BY <1>1
  <2> QED
    BY <2>1, MinNat
<1>5. p \in t.prime..Len(Primes) /\ (p = Len(Primes) \/ m <= Primes[p])
  <2>2. CASE fit = {}
    BY <1>1, <1>3, <2>2
  <2>3. CASE fit # {}
    <3>1. p \in fit
      BY <1>3, <1>4, <2>3
    <3>2. p \in t.prime..Len(Primes) /\ Primes[p] >= m
      BY <3>1
    <3>3. Primes[p] \in Nat
      BY <1>1, <3>2
    <3> QED
      BY <3>2, <3>3
  <2> QED
    BY <2>2, <2>3
<1> HIDE DEF fit
<1>6. p \in DOMAIN Primes /\ p \in Nat /\ t.prime \in Nat /\ t.prime <= p
  <2>1. PICK l, q : l = Len(Primes) /\ q = t.prime
    OBVIOUS
  <2>2. l \in Nat /\ q \in 1..l /\ p \in q..l
    BY <1>1, <1>5, <2>1
  <2>3. p \in 1..l /\ p \in Nat /\ q \in Nat /\ q <= p
    BY <2>2
  <2> QED
    BY <1>1, <2>1, <2>3
<1>7. Primes[t.prime] <= Primes[p]
  <2>1. t.prime = p \/ t.prime < p
    BY <1>6
  <2>2. Primes[p] \in Nat
    BY <1>1, <1>6
  <2>3. t.prime < p => Primes[t.prime] < Primes[p]
    BY <1>1, <1>6, PrimesAssumption
  <2> QED
    BY <1>1, <2>1, <2>2, <2>3
<1>8. Primes[t.prime] \in Nat /\ Primes[p] \in Nat
  BY <1>1, <1>6
<1> QED
  BY <1>1, <1>2, <1>5, <1>6, <1>7, <1>8

\* A table that grows gets the next number of buckets, or a larger one.
LEMMA NextSize ==
  ASSUME NEW t, TableOK(t), NEW i \in DOMAIN Primes, t.n = Primes[i]
  PROVE  Primes[IF i < Len(Primes) THEN i + 1 ELSE i] <= Primes[NextPrime(t.prime, t.n + 1)]
<1>1. PICK p : p = NextPrime(t.prime, t.n + 1)
  OBVIOUS
<1>2. /\ Primes \in Seq(Nat) /\ DOMAIN Primes = 1..Len(Primes) /\ Len(Primes) \in Nat
      /\ \A j, l \in DOMAIN Primes : j < l => Primes[j] < Primes[l]
  BY PrimesAssumption
<1>3. t.n + 1 \in Nat
  BY TableFacts
<1>4. p \in DOMAIN Primes /\ t.n <= Primes[p] /\ (p = Len(Primes) \/ t.n + 1 <= Primes[p])
  BY <1>1, <1>3, NextPrimeFacts
<1>5. \A j \in DOMAIN Primes : Primes[j] \in Nat
  BY <1>2
<1>6. CASE i < Len(Primes)
  <2>1. i < p
    <3>1. p = Len(Primes) => i < p
      BY <1>6
    <3>2. t.n + 1 <= Primes[p] => i < p
      <4>1. i = p \/ p < i \/ i < p
        BY <1>2, <1>4
      <4>2. p < i => Primes[p] < Primes[i]
        BY <1>2, <1>4
      <4> QED
        BY <1>4, <1>5, <4>1, <4>2
    <3> QED
      BY <1>4, <3>1, <3>2
  <2>2. i + 1 \in DOMAIN Primes /\ (i + 1 = p \/ i + 1 < p)
    BY <1>2, <1>4, <1>6, <2>1
  <2>3. Primes[i + 1] <= Primes[p]
    BY <1>2, <1>4, <1>5, <2>2
  <2> QED
    BY <1>1, <1>6, <2>3
<1>7. CASE ~(i < Len(Primes))
  BY <1>1, <1>4, <1>7
<1> QED
  BY <1>6, <1>7

\* The next table has room.
LEMMA GrowRoom ==
  ASSUME NEW t, TableOK(t), t.used <= Upper(t.n)
  PROVE  LET N == Primes[NextPrime(t.prime, t.n + 1)] IN
         Batch * t.size + t.n <= Batch * Upper(N)
<1>1. PICK i \in DOMAIN Primes : t.n = Primes[i]
  BY DEF TableOK, Size
<1>2. PICK n, N, K, U : n = t.n /\ N = Primes[NextPrime(t.prime, t.n + 1)] /\ K = Cardinality(Key) /\ U = Upper(N)
  OBVIOUS
<1>3. PICK M : M = Primes[IF i < Len(Primes) THEN i + 1 ELSE i]
  OBVIOUS
<1>4. M <= N
  BY <1>1, <1>2, <1>3, NextSize
<1>5. M \in Nat /\ N \in Nat
  <2>1. DOMAIN Primes = 1..Len(Primes) /\ Primes \in Seq(Nat)
    BY PrimesAssumption
  <2>2. (IF i < Len(Primes) THEN i + 1 ELSE i) \in DOMAIN Primes
    BY <2>1
  <2>3. t.n + 1 \in Nat
    BY TableFacts
  <2>4. NextPrime(t.prime, t.n + 1) \in DOMAIN Primes
    BY <2>3, NextPrimeFacts
  <2> QED
    BY <1>2, <1>3, <2>1, <2>2, <2>4
<1>6. N \in Nat /\ n \in Nat /\ K \in Nat /\ t.size \in Nat /\ t.size <= K
  BY <1>2, <1>5, TableFacts, SizeBelowKeys
<1>7. Min({7 * n, 10 * K}) + 3 * n + 9 <= 7 * M
  BY <1>1, <1>2, <1>3, RoomAssumption
<1>8. U \in Nat /\ 7 * N <= 10 * U + 9
  BY <1>2, <1>6, UpperFacts
<1>9. 10 * t.size <= 7 * n
  <2>1. t.size <= t.used /\ t.used \in Nat /\ Upper(n) \in Nat /\ 10 * Upper(n) <= 7 * n /\ t.used <= Upper(n)
    BY <1>2, <1>6, TableFacts, UpperFacts
  <2> QED
    BY <1>6, <2>1
<1>10. 10 * t.size <= Min({7 * n, 10 * K}) /\ Min({7 * n, 10 * K}) \in Nat
  <2>1. 7 * n \in Nat /\ 10 * K \in Nat
    BY <1>6
  <2>2. Min({7 * n, 10 * K}) = IF 7 * n <= 10 * K THEN 7 * n ELSE 10 * K
    BY <2>1, MinPair
  <2> QED
    BY <1>6, <1>9, <2>1, <2>2
<1>11. PICK d \in Int : d = U - t.size
  BY <1>6, <1>8
<1>12. 3 * n <= 10 * d
  BY <1>4, <1>5, <1>6, <1>7, <1>8, <1>10, <1>11
<1>13. n <= Batch * d
  BY <1>6, <1>12, BatchFacts
<1>14. /\ Batch * (t.size + d) = Batch * t.size + Batch * d
       /\ Batch * t.size \in Int /\ Batch * d \in Int
  BY <1>6, BatchFacts
<1>15. t.size + d = U
  BY <1>6, <1>8, <1>11
<1> QED
  BY <1>2, <1>5, <1>6, <1>13, <1>14, <1>15

\* mh_events_put
LEMMA PutFacts ==
  ASSUME NEW T, PairOK(T, 0), NEW e \in Entry, NEW ok \in BOOLEAN
  PROVE  LET R == Put(T, e, ok) IN
         /\ PairOK(R, 0)
         /\ \/ Content(R.h) = {c \in Content(T.h) : c.key # e.key} \cup {e}
            \/ ok = FALSE /\ Content(R.h) = Content(T.h)
<1>1. /\ T \in PairRecord /\ T.fault = "none" /\ TableOK(T.h) /\ T.h.position < T.h.n
      /\ T.h.used \in Nat /\ T.h.n \in Nat /\ T.h.size \in Nat /\ T.h.size <= T.h.used
  BY TableFacts DEF PairOK
<1>2. T.h.used < T.h.n
  <2>1. T.h.used + 0 < T.h.n
    BY UsedBelow
  <2> QED
    BY <1>1, <2>1
<1>3. T.h.size # T.h.n
  BY <1>1, <1>2
<1>6. ASSUME MustGrow(T)
          PROVE  LET Y == Grown(T, ok) IN
                 /\ Content(Y.h) = Content(T.h)
                 /\ IF ok THEN PairOK(Y, 1) ELSE PairOK(Y, 0)
  <2>1. ~Resizing(T) /\ T.h.used <= Upper(T.h.n)
    BY <1>1, <1>6 DEF MustGrow, PairOK
  <2>2. Grown(T, ok) = StartResize(T, T.h.n + 1, ok)
    BY <1>6, <2>1 DEF Grown
  <2>3. T.h.n + 1 \in Nat /\ T.h.n <= T.h.n + 1
    BY <1>1
  <2>4. PICK p : p = NextPrime(T.h.prime, T.h.n + 1)
    OBVIOUS
  <2>5. p \in DOMAIN Primes /\ T.h.n <= Primes[p]
    BY <1>1, <2>3, <2>4, NextPrimeFacts
  <2>6. Batch * T.h.size + T.h.n <= Batch * Upper(Primes[p])
    BY <1>1, <2>1, <2>4, GrowRoom
  <2> QED
    BY <2>1, <2>2, <2>3, <2>4, <2>5, <2>6, StartFacts
<1>4. CASE MustGrow(T) /\ ok = FALSE
  <2>1. Put(T, e, ok) = Grown(T, ok)
    BY <1>3, <1>4 DEF Put
  <2> QED
    BY <1>4, <2>1, <1>6
<1>5. CASE ~(MustGrow(T) /\ ok = FALSE)
  <2>1. PICK Y : Y = Grown(T, ok)
    OBVIOUS
  <2>2. Put(T, e, ok) = PutTable(PutShadow(Y, e), e)
    BY <1>3, <1>5, <2>1 DEF Put
  <2>3. PairOK(Y, 1) /\ Content(Y.h) = Content(T.h)
    <3>1. CASE Resizing(T)
      <4>1. Y = ResizeStep(T)
        BY <2>1, <3>1 DEF Grown
      <4>2. Shadowed(T, 0)
        BY <3>1 DEF PairOK
      <4> QED
        BY <1>1, <4>1, <4>2, ResizeStepFacts
    <3>2. CASE ~Resizing(T) /\ T.h.used >= Upper(T.h.n)
      <4>1. MustGrow(T) /\ ok = TRUE
        BY <1>5, <3>2 DEF MustGrow
      <4> QED
        BY <2>1, <4>1, <1>6
    <3>3. CASE ~Resizing(T) /\ ~(T.h.used >= Upper(T.h.n))
      <4>1. Y = T
        BY <2>1, <3>3 DEF Grown, MustGrow
      <4>2. Upper(T.h.n) \in Nat
        BY <1>1, UpperFacts
      <4>3. T.h.used + 1 <= Upper(T.h.n)
        BY <1>1, <3>3, <4>2
      <4> QED
        BY <3>3, <4>1, <4>3 DEF PairOK
    <3> QED
      BY <3>1, <3>2, <3>3
  <2> QED
    BY <2>2, <2>3, PutBoth
<1> QED
  BY <1>4, <1>5

\* mh_events_del
LEMMA DelFacts ==
  ASSUME NEW T, PairOK(T, 0), NEW x
  PROVE  LET R == Del(T, x) IN
         /\ PairOK(R, 0) /\ Content(R.h) \subseteq Content(T.h)
         /\ x \in Exist(T.h) => Content(R.h) = {c \in Content(T.h) : c.key # T.h.at[x].key}
         /\ Resizing(R) => Resizing(T)
         /\ (Resizing(T) => Resizing(R)) =>
              Exist(R.h) = Exist(T.h) \ {x} /\ \A i \in Exist(R.h) : R.h.at[i] = T.h.at[i]
<1>1. PICK h, s, u, pos, R :
        h = T.h /\ s = T.s /\ u = FreeSlot(h, x) /\ pos = h.position /\ R = Del(T, x)
  OBVIOUS
<1>2. /\ T \in PairRecord /\ T.fault = "none" /\ TableOK(h) /\ pos < h.n /\ pos \in Nat
      /\ h.n \in Nat /\ h.used \in Nat /\ s \in TableRecord
  BY <1>1, TableFacts DEF PairOK, PairRecord
<1>3. /\ TableOK(u) /\ u.n = h.n /\ u.position = pos /\ u.used <= h.used /\ u.used \in Nat
      /\ Exist(u) = Exist(h) \ {x} /\ \A i \in Exist(u) : u.at[i] = h.at[i]
      /\ x \in Exist(h) => Content(u) = {c \in Content(h) : c.key # h.at[x].key}
  BY <1>1, <1>2, FreeSlotFacts, TableFacts
<1>4. u \in TableRecord
  BY <1>3 DEF TableOK
<1>5. CASE x \notin Exist(h)
  <2>1. R = T
    BY <1>1, <1>5 DEF Del
  <2>2. Exist(h) = Exist(h) \ {x}
    BY <1>5
  <2> QED
    BY <1>1, <1>5, <2>1, <2>2
<1>6. CASE x \in Exist(h) /\ ~Resizing(T)
  <2>1. R = [T EXCEPT !.h = u]
    BY <1>1, <1>6 DEF Del
  <2>2. R \in PairRecord /\ R.h = u /\ R.fault = "none"
    BY <1>2, <1>4, <2>1 DEF PairRecord
  <2>3. ~Resizing(R)
    BY <1>1, <1>3, <1>6, <2>2 DEF Resizing
  <2>4. u.used + 0 <= Upper(u.n)
    <3>1. h.used + 0 <= Upper(h.n) /\ Upper(h.n) \in Nat
      BY <1>1, <1>2, <1>6, UpperFacts DEF PairOK
    <3> QED
      BY <1>2, <1>3, <3>1
  <2>5. PairOK(R, 0)
    BY <1>2, <1>3, <2>2, <2>3, <2>4 DEF PairOK
  <2> QED
    BY <1>1, <1>3, <1>6, <2>2, <2>3, <2>5
<1>7. CASE x \in Exist(h) /\ Resizing(T)
  <2>1. /\ TableOK(s) /\ s.position = 0 /\ InStep(h, s, pos)
        /\ Batch * (h.used + 0 - Upper(h.n)) <= pos
        /\ Batch * (Load(h, s, pos) + 0) + (h.n - pos) <= Batch * Upper(s.n)
    BY <1>1, <1>7 DEF PairOK, Shadowed
  <2>2. /\ s.used \in Nat /\ s.n \in Nat /\ Upper(s.n) \in Nat
        /\ Load(h, s, pos) \in Nat /\ Upper(h.n) \in Nat
    BY <1>2, <2>1, TableFacts, UpperFacts, LoadType
  <2>3. s.used < s.n
    <3>1. T.s.used + 0 < Upper(T.s.n) /\ Upper(T.s.n) < T.s.n
      BY <1>1, <1>2, <1>7, ShadowedBounds DEF PairOK
    <3> QED
      BY <1>1, <2>2, <3>1
  <2>4. PICK k, y, v : k = h.at[x].key /\ y = Find(s, k) /\ v = FreeSlot(s, y)
    OBVIOUS
  <2>5. k \in Key
    <3>1. h.at[x] \in Entry
      BY <1>2, <1>7, TableFacts
    <3> QED
      BY <2>4, <3>1 DEF Entry
  <2>6. /\ TableOK(v) /\ v.n = s.n /\ v.position = 0 /\ v.used <= s.used /\ v.used \in Nat
    BY <2>1, <2>4, FreeSlotFacts, TableFacts
  <2>7. Content(v) = {c \in Content(s) : c.key # k}
    <3>1. CASE \E i \in Exist(s) : s.at[i].key = k
      <4>1. PICK i \in Exist(s) : s.at[i].key = k
        BY <3>1
      <4>2. y = i
        BY <2>1, <2>3, <2>4, <2>5, <4>1, FindFacts
      <4> QED
        BY <2>1, <2>4, <4>1, <4>2, FreeSlotFacts
    <3>2. CASE \A i \in Exist(s) : s.at[i].key # k
      <4>1. y = s.n /\ s.n \notin Exist(s)
        BY <2>1, <2>3, <2>4, <2>5, <3>2, FindFacts
      <4>2. v = s
        BY <2>1, <2>4, <4>1, FreeSlotFacts
      <4>3. \A c \in Content(s) : c.key # k
        BY <3>2 DEF Content
      <4> QED
        BY <4>2, <4>3
    <3> QED
      BY <3>1, <3>2
  <2>8. v \in TableRecord
    BY <2>6 DEF TableOK
  <2>9. PICK Y : Y = [T EXCEPT !.h = u, !.s = v]
    OBVIOUS
  <2>10. Y \in PairRecord /\ Y.h = u /\ Y.s = v /\ Y.fault = "none"
    BY <1>2, <1>4, <2>8, <2>9 DEF PairRecord
  <2>11. R = ResizeStep(Y)
    <3>1. R = ResizeStep([T EXCEPT !.h = FreeSlot(T.h, x), !.s = FreeSlot(T.s, Find(T.s, T.h.at[x].key))])
      BY <1>1, <1>7 DEF Del
    <3> QED
      BY <1>1, <2>4, <2>9, <3>1
  <2>12. \A j \in Exist(u) : j \in Exist(h) /\ u.at[j] = h.at[j] /\ u.at[j].key # k
    BY <1>2, <1>3, <1>7, <2>4 DEF TableOK
  <2>13. InStep(u, v, pos)
    <3>1. Content(v) \subseteq Content(u)
      BY <1>3, <1>7, <2>1, <2>4, <2>7 DEF InStep
    <3>2. \A j \in Exist(u) : j < pos => u.at[j] \in Content(v)
      BY <2>1, <2>7, <2>12 DEF InStep
    <3> QED
      BY <3>1, <3>2 DEF InStep
  <2>14. Unmoved(u, v, pos) \subseteq Unmoved(h, s, pos)
    BY <2>7, <2>12 DEF Unmoved
  <2>15. Load(u, v, pos) <= Load(h, s, pos) /\ Load(u, v, pos) \in Nat
    <3>1. IsFiniteSet(Unmoved(h, s, pos)) /\ Cardinality(Unmoved(h, s, pos)) \in Nat
      BY <1>2, UnmovedFinite
    <3>2. Cardinality(Unmoved(u, v, pos)) <= Cardinality(Unmoved(h, s, pos))
      BY <2>14, <3>1, FS_Subset
    <3>3. Cardinality(Unmoved(u, v, pos)) \in Nat
      BY <1>3, UnmovedFinite
    <3> QED
      BY <2>2, <2>6, <3>1, <3>2, <3>3 DEF Load
  <2>16. Batch * (u.used + 0 - Upper(u.n)) <= u.position
    <3>1. PICK a \in Int, b \in Int : a = u.used + 0 - Upper(u.n) /\ b = h.used + 0 - Upper(h.n)
      BY <1>2, <1>3, <2>2
    <3>2. a <= b
      BY <1>2, <1>3, <2>2, <3>1
    <3>3. Batch * a <= Batch * b /\ Batch * a \in Int /\ Batch * b \in Int
      BY <3>2, BatchFacts
    <3> QED
      BY <1>2, <1>3, <2>1, <3>1, <3>3
  <2>17. Batch * (Load(u, v, pos) + 0) + (u.n - pos) <= Batch * Upper(v.n)
    <3>1. PICK a \in Int, b \in Int : a = Load(u, v, pos) + 0 /\ b = Load(h, s, pos) + 0
      BY <2>2, <2>15
    <3>2. a <= b
      BY <2>2, <2>15, <3>1
    <3>3. Batch * a <= Batch * b /\ Batch * a \in Int /\ Batch * b \in Int /\ Batch * Upper(s.n) \in Int
      BY <2>2, <3>2, BatchFacts
    <3> QED
      BY <1>2, <1>3, <2>1, <2>6, <3>1, <3>3
  <2>18. Shadowed(Y, 0)
    BY <1>3, <2>6, <2>10, <2>13, <2>16, <2>17 DEF Shadowed
  <2>19. /\ PairOK(R, 1) /\ Content(R.h) = Content(u)
         /\ Resizing(R) => R.h.at = u.at
    <3>1. TableOK(Y.h) /\ Y.h.position < Y.h.n
      BY <1>2, <1>3, <2>10
    <3> QED
      BY <2>10, <2>11, <2>18, <3>1, ResizeStepFacts
  <2>20. PairOK(R, 0)
    BY <2>19, SpareRoom
  <2>21. Resizing(R) => Exist(R.h) = Exist(u)
    BY <2>19 DEF Exist
  <2> QED
    BY <1>1, <1>3, <1>7, <2>19, <2>20, <2>21
<1> QED
  BY <1>5, <1>6, <1>7

\* The loop over collected indices: it deletes what it should, unless the
\* resize ends meanwhile; and it never adds or changes an entry.
LEMMA DelAllFacts ==
  ASSUME NEW T, PairOK(T, 0), NEW I \in SUBSET Exist(T.h)
  PROVE  LET R == DelAll(T, I) IN
         /\ PairOK(R, 0) /\ Content(R.h) \subseteq Content(T.h)
         /\ Resizing(R) => Resizing(T)
         /\ (Resizing(T) => Resizing(R)) =>
              Exist(R.h) = Exist(T.h) \ I /\ \A i \in Exist(R.h) : R.h.at[i] = T.h.at[i]
<1> DEFINE Good(i) ==
             {Y \in PairRecord :
                /\ PairOK(Y, 0) /\ Content(Y.h) \subseteq Content(T.h)
                /\ Resizing(Y) => Resizing(T)
                /\ (Resizing(T) => Resizing(Y)) =>
                     /\ Exist(Y.h) = Exist(T.h) \ {x \in I : x < i}
                     /\ \A j \in Exist(Y.h) : Y.h.at[j] = T.h.at[j]}
           Step(i, Y) == IF i \in I THEN Del(Y, i) ELSE Y
           to == T.h.n
           IsLoop(d) == d = [i \in 0..to |-> IF i = 0 THEN T
                                             ELSE IF i - 1 \in I THEN Del(d[i - 1], i - 1)
                                             ELSE d[i - 1]]
<1>1. T \in PairRecord /\ to \in Nat /\ Exist(T.h) \subseteq 0..to - 1
  BY TableFacts DEF PairOK
<1>2. T \in Good(0)
  <2>1. {x \in I : x < 0} = {}
    BY <1>1
  <2> QED
    BY <1>1, <2>1
<1>3. ASSUME NEW i \in Nat, NEW Y \in Good(i) PROVE Step(i, Y) \in Good(i + 1)
  <2>1. CASE i \notin I
    <3>1. {x \in I : x < i + 1} = {x \in I : x < i}
      BY <1>1, <2>1
    <3> QED
      BY <2>1, <3>1
  <2>2. CASE i \in I
    <3>1. PICK R : R = Del(Y, i)
      OBVIOUS
    <3>2. /\ PairOK(R, 0) /\ Content(R.h) \subseteq Content(Y.h)
          /\ Resizing(R) => Resizing(Y)
          /\ (Resizing(Y) => Resizing(R)) =>
               Exist(R.h) = Exist(Y.h) \ {i} /\ \A j \in Exist(R.h) : R.h.at[j] = Y.h.at[j]
      BY <3>1, DelFacts
    <3>3. {x \in I : x < i + 1} = {x \in I : x < i} \cup {i}
      <4>1. \A x \in I : x \in Nat
        BY <1>1
      <4>2. \A x \in I : x < i + 1 <=> (x < i \/ x = i)
        BY <4>1
      <4> QED
        BY <2>2, <4>2
    <3>4. R \in PairRecord
      BY <3>2 DEF PairOK
    <3>5. R \in Good(i + 1)
      <4>1. Content(R.h) \subseteq Content(T.h) /\ (Resizing(R) => Resizing(T))
        BY <3>2
      <4>2. ASSUME Resizing(T) => Resizing(R)
            PROVE  /\ Exist(R.h) = Exist(T.h) \ {x \in I : x < i + 1}
                   /\ \A j \in Exist(R.h) : R.h.at[j] = T.h.at[j]
        <5>1. (Resizing(T) => Resizing(Y)) /\ (Resizing(Y) => Resizing(R))
          BY <3>2, <4>2
        <5>2. Exist(Y.h) = Exist(T.h) \ {x \in I : x < i} /\ \A j \in Exist(Y.h) : Y.h.at[j] = T.h.at[j]
          BY <5>1
        <5> QED
          BY <3>2, <3>3, <5>1, <5>2
      <4> QED
        BY <3>2, <3>4, <4>1, <4>2
    <3> QED
      BY <2>2, <3>1, <3>5
  <2> QED
    BY <2>1, <2>2
<1> HIDE DEF Good
<1>4. \E d : IsLoop(d)
  <2> DEFINE Q == [i \in 0..to |-> Good(i)]
             G == [p \in Nat \X PairRecord |-> Step(p[1], p[2])]
  <2>1. \A i \in 0..to - 1 : \A Y \in Q[i] : G[<<i, Y>>] \in Q[i + 1] /\ G[<<i, Y>>] = Step(i, Y)
    <3> SUFFICES ASSUME NEW i \in 0..to - 1, NEW Y \in Q[i]
                 PROVE  G[<<i, Y>>] \in Q[i + 1] /\ G[<<i, Y>>] = Step(i, Y)
      OBVIOUS
    <3>1. i \in 0..to /\ i + 1 \in 0..to /\ i \in Nat
      BY <1>1
    <3>2. Y \in Good(i) /\ Q[i + 1] = Good(i + 1)
      BY <3>1
    <3>3. Y \in PairRecord
      BY <3>2 DEF Good
    <3>4. G[<<i, Y>>] = Step(i, Y)
      BY <3>1, <3>3
    <3> QED
      BY <1>3, <3>1, <3>2, <3>4
  <2>2. T \in Q[0]
    BY <1>1, <1>2
  <2> HIDE DEF Q, G
  <2>3. \A i \in 0..to - 1 : \A Y \in Q[i] : G[<<i, Y>>] \in Q[i + 1]
    BY <2>1
  <2>4. PICK d : /\ d = [i \in 0..to |-> d[i]] /\ d[0] = T
                 /\ \A i \in 0..to : d[i] \in Q[i]
                 /\ \A i \in 0..to - 1 : d[i + 1] = G[<<i, d[i]>>]
    <3>1. Leads(0, to, Q, G, T)
      BY <2>2, <2>3 DEF Leads
    <3> QED
      <4>1. 0 \in Nat /\ to \in Nat /\ 0 <= to
        BY <1>1
      <4> HIDE DEF to
      <4> QED
        BY <3>1, <4>1, IterationExists
  <2>5. ASSUME NEW i \in 0..to, i # 0 PROVE d[i] = Step(i - 1, d[i - 1])
    <3>1. i - 1 \in 0..to - 1 /\ i - 1 \in 0..to /\ (i - 1) + 1 = i
      BY <1>1, <2>5
    <3> QED
      BY <2>1, <2>4, <3>1
  <2>6. IsLoop(d)
    BY <2>4, <2>5
  <2> QED
    BY <2>6
<1>5. PICK g : IsLoop(g) /\ DelAll(T, I) = g[to]
  <2>1. PICK g : g = CHOOSE d : IsLoop(d)
    OBVIOUS
  <2>2. IsLoop(g)
    BY <1>4, <2>1
  <2>3. DelAll(T, I) = g[to]
    BY <2>1 DEF DelAll
  <2> QED
    BY <2>2, <2>3
<1>6. \A i \in 0..to :
        g[i] = IF i = 0 THEN T
               ELSE IF i - 1 \in I THEN Del(g[i - 1], i - 1)
               ELSE g[i - 1]
  BY <1>5
<1> DEFINE A == {i \in 0..to : g[i] \in Good(i)}
<1>7. 0 \in A
  BY <1>1, <1>2, <1>6
<1>8. \A i \in 0..to : i \in A /\ i < to => i + 1 \in A
  <2> SUFFICES ASSUME NEW i \in 0..to, i \in A, i < to PROVE i + 1 \in A
    OBVIOUS
  <2>1. i \in Nat /\ i + 1 \in 0..to /\ (i + 1) - 1 = i /\ i + 1 # 0
    BY <1>1
  <2>2. g[i + 1] = Step(i, g[i])
    BY <1>6, <2>1
  <2> QED
    BY <1>3, <2>1, <2>2
<1> HIDE DEF A
<1>9. \A i \in 0..to : i \in A
  BY <1>1, <1>7, <1>8, IntervalInduction
<1>10. g[to] \in Good(to)
  BY <1>1, <1>9 DEF A
<1>11. {x \in I : x < to} = I
  BY <1>1
<1> QED
  BY <1>5, <1>10, <1>11 DEF Good

-----------------------------------------------------------------------------
(* The table of the worker.                                                  *)

\* The numbers of buckets that are chosen.
LEMMA FirstSize ==
  /\ 1 \in DOMAIN Primes /\ Primes[1] \in Size
  /\ \A n \in Size : Primes[1] <= n
<1>1. DOMAIN Primes = 1..Len(Primes) /\ 1 \in DOMAIN Primes /\ Primes \in Seq(Nat)
  BY PrimesAssumption
<1>2. ASSUME NEW i \in DOMAIN Primes PROVE Primes[1] <= Primes[i]
  <2>1. 1 < i => Primes[1] < Primes[i]
    BY <1>1, PrimesAssumption
  <2>2. Primes[1] \in Nat /\ Primes[i] \in Nat /\ (i = 1 \/ 1 < i)
    BY <1>1
  <2> QED
    BY <2>1, <2>2
<1> QED
  BY <1>1, <1>2 DEF Size

\* mh_events_new and mh_events_reserve
LEMMA CreatedFacts ==
  ASSUME NEW ok \in BOOLEAN
  PROVE  PairOK(Created(ok), 0) /\ Content(Created(ok).h) = {}
<1>1. PICK n, w, m, T : /\ n = Primes[1] /\ w = NewTable(n, 1) /\ m = (Reserved * 10) \div 7
                        /\ T = [h |-> w, s |-> NoTable, fault |-> "none"]
  OBVIOUS
<1>2. n \in Size /\ n \in Nat /\ n >= 3
  BY <1>1, FirstSize, SizeFacts
<1>3. /\ TableOK(w) /\ Exist(w) = {} /\ Content(w) = {} /\ w.n = n /\ w.used = 0 /\ w.position = 0
  BY <1>1, FirstSize, NewTableOK
<1>4. w.size = 0
  BY <1>3, FS_EmptySet DEF TableOK
<1>5. w \in TableRecord /\ NoTable \in TableRecord
  BY <1>3, NoTableType DEF TableOK
<1>6. T \in PairRecord /\ T.h = w /\ T.fault = "none"
  BY <1>1, <1>5 DEF PairRecord
<1>7. ~Resizing(T)
  BY <1>3, <1>6 DEF Resizing
<1>8. PairOK(T, 0)
  <2>1. Upper(n) \in Nat
    BY <1>2, UpperFacts
  <2>2. w.used + 0 <= Upper(w.n) /\ w.position < w.n
    BY <1>2, <1>3, <2>1
  <2> QED
    BY <1>3, <1>6, <1>7, <2>2 DEF PairOK
<1>9. Created(ok) = StartResize(T, m, ok)
  BY <1>1 DEF Created
<1>10. m \in Nat
  BY <1>1, UseAssumption
<1>11. CASE m < n
  <2>1. Created(ok) = T
    BY <1>3, <1>6, <1>9, <1>11 DEF StartResize
  <2> QED
    BY <1>3, <1>6, <1>8, <2>1
<1>12. CASE ~(m < n)
  <2>1. PICK p, N : p = NextPrime(w.prime, m) /\ N = Primes[p]
    OBVIOUS
  <2>2. p \in DOMAIN Primes /\ N \in Nat /\ n <= N
    <3>1. p \in DOMAIN Primes /\ w.n <= Primes[p]
      BY <1>3, <1>10, <2>1, NextPrimeFacts
    <3>2. Primes \in Seq(Nat)
      BY PrimesAssumption
    <3> QED
      BY <1>3, <2>1, <3>1, <3>2
  <2>3. Upper(N) \in Nat /\ 7 * N <= 10 * Upper(N) + 9
    BY <2>2, UpperFacts
  <2>4. n <= Batch * Upper(N)
    <3>1. 0 <= Upper(N) /\ 3 * n <= 10 * Upper(N) /\ Upper(N) \in Int /\ n \in Int
      BY <1>2, <2>2, <2>3
    <3> QED
      BY <3>1, BatchFacts
  <2>5. Batch * w.size + n <= Batch * Upper(N)
    <3>1. Batch * 0 = 0
      BY BatchFacts
    <3> QED
      BY <1>2, <1>4, <2>4, <3>1
  <2>6. PICK R : R = StartResize(T, m, ok)
    OBVIOUS
  <2>7. /\ Content(R.h) = Content(T.h)
        /\ ok = TRUE => PairOK(R, 1)
        /\ ok = FALSE => PairOK(R, 0)
    <3>1. T.h.n <= m
      BY <1>2, <1>3, <1>6, <1>10, <1>12
    <3>2. Batch * T.h.size + T.h.n <= Batch * Upper(Primes[NextPrime(T.h.prime, m)])
      BY <1>3, <1>6, <2>1, <2>5
    <3>3. /\ NextPrime(T.h.prime, m) \in DOMAIN Primes
          /\ T.h.n <= Primes[NextPrime(T.h.prime, m)]
      BY <1>3, <1>6, <2>1, <2>2
    <3> QED
      BY <1>7, <1>8, <1>10, <2>6, <3>1, <3>2, <3>3, StartFacts
  <2>8. PairOK(R, 0)
    BY <2>7, SpareRoom
  <2> QED
    BY <1>3, <1>6, <1>9, <2>6, <2>7, <2>8
<1> QED
  BY <1>10, <1>11, <1>12

\* The table with the standing operations.
LEMMA FilledFacts ==
  ASSUME NEW ok \in BOOLEAN
  PROVE  PairOK(Filled(ok), 0) /\ \A c \in Content(Filled(ok).h) : c.ver = 0
<1> DEFINE Good == {Y \in PairRecord : PairOK(Y, 0) /\ \A c \in Content(Y.h) : c.ver = 0}
           Step(i, Y) == Put(Y, [key |-> Standing[i], ver |-> 0], TRUE)
           IsFill(f) == f = [i \in 0..Len(Standing) |->
                               IF i = 0 THEN Created(ok)
                               ELSE Put(f[i - 1], [key |-> Standing[i], ver |-> 0], TRUE)]
<1>1. PICK x, to : x = Created(ok) /\ to = Len(Standing)
  OBVIOUS
<1>2. to \in Nat /\ \A i \in 1..to : Standing[i] \in Key
  BY <1>1, UseAssumption
<1>3. x \in Good
  <2>1. PairOK(x, 0) /\ Content(x.h) = {}
    BY <1>1, CreatedFacts
  <2> QED
    BY <2>1 DEF PairOK
<1>4. ASSUME NEW i \in 1..to, NEW Y \in Good PROVE Step(i, Y) \in Good
  <2>1. PICK e : e = [key |-> Standing[i], ver |-> 0]
    OBVIOUS
  <2>2. e \in Entry /\ e.ver = 0
    BY <1>2, <2>1 DEF Entry
  <2>3. PICK R : R = Put(Y, e, TRUE)
    OBVIOUS
  <2>4. PairOK(R, 0) /\ Content(R.h) = {c \in Content(Y.h) : c.key # e.key} \cup {e}
    BY <2>2, <2>3, PutFacts
  <2>5. R \in PairRecord
    BY <2>4 DEF PairOK
  <2>6. \A c \in Content(R.h) : c.ver = 0
    BY <2>2, <2>4
  <2> QED
    BY <2>1, <2>3, <2>4, <2>5, <2>6
<1> HIDE DEF Good
<1>5. \E f : IsFill(f)
  <2> DEFINE Q == [i \in 0..to |-> Good]
             G == [p \in Nat \X Good |-> Step(p[1] + 1, p[2])]
  <2>1. \A i \in 0..to - 1 : \A Y \in Q[i] : G[<<i, Y>>] \in Q[i + 1] /\ G[<<i, Y>>] = Step(i + 1, Y)
    <3> SUFFICES ASSUME NEW i \in 0..to - 1, NEW Y \in Q[i]
                 PROVE  G[<<i, Y>>] \in Q[i + 1] /\ G[<<i, Y>>] = Step(i + 1, Y)
      OBVIOUS
    <3>1. i \in 0..to /\ i + 1 \in 0..to /\ i \in Nat /\ i + 1 \in 1..to
      BY <1>2
    <3>2. Y \in Good /\ Q[i + 1] = Good
      BY <3>1
    <3>3. G[<<i, Y>>] = Step(i + 1, Y)
      BY <3>1, <3>2
    <3> QED
      BY <1>4, <3>1, <3>2, <3>3
  <2>2. x \in Q[0]
    BY <1>2, <1>3
  <2> HIDE DEF Q, G
  <2>3. \A i \in 0..to - 1 : \A Y \in Q[i] : G[<<i, Y>>] \in Q[i + 1]
    BY <2>1
  <2>4. PICK f : /\ f = [i \in 0..to |-> f[i]] /\ f[0] = x
                 /\ \A i \in 0..to : f[i] \in Q[i]
                 /\ \A i \in 0..to - 1 : f[i + 1] = G[<<i, f[i]>>]
    <3>1. Leads(0, to, Q, G, x)
      BY <2>2, <2>3 DEF Leads
    <3>2. 0 \in Nat /\ 0 <= to
      BY <1>2
    <3> QED
      BY <1>2, <3>1, <3>2, IterationExists
  <2>5. ASSUME NEW i \in 0..to, i # 0 PROVE f[i] = Step(i, f[i - 1])
    <3>1. i - 1 \in 0..to - 1 /\ i - 1 \in 0..to /\ (i - 1) + 1 = i
      BY <1>2, <2>5
    <3> QED
      BY <2>1, <2>4, <3>1
  <2>6. IsFill(f)
    BY <1>1, <2>4, <2>5
  <2> QED
    BY <2>6
<1>6. PICK g : IsFill(g) /\ Filled(ok) = g[to]
  <2>1. PICK g : g = CHOOSE f : IsFill(f)
    OBVIOUS
  <2>2. IsFill(g)
    BY <1>5, <2>1
  <2>3. Filled(ok) = g[to]
    BY <1>1, <2>1 DEF Filled
  <2> QED
    BY <2>2, <2>3
<1>7. \A i \in 0..to : g[i] = IF i = 0 THEN x ELSE Step(i, g[i - 1])
  <2>1. g = [i \in 0..to |-> IF i = 0 THEN x
                             ELSE Put(g[i - 1], [key |-> Standing[i], ver |-> 0], TRUE)]
    BY <1>1, <1>6
  <2> QED
    BY <2>1
<1> DEFINE A == {i \in 0..to : g[i] \in Good}
<1>8. 0 \in A
  <2>1. 0 \in 0..to
    BY <1>2
  <2>2. g[0] = x
    <3> HIDE DEF Step
    <3> QED
      BY <1>7, <2>1
  <2> QED
    BY <1>3, <2>1, <2>2
<1>9. \A i \in 0..to : i \in A /\ i < to => i + 1 \in A
  <2> SUFFICES ASSUME NEW i \in 0..to, i \in A, i < to PROVE i + 1 \in A
    OBVIOUS
  <2>1. i + 1 \in 0..to /\ i + 1 \in 1..to /\ (i + 1) - 1 = i /\ i + 1 # 0
    BY <1>2
  <2>2. g[i + 1] = Step(i + 1, g[i])
    BY <1>7, <2>1
  <2> QED
    BY <1>4, <2>1, <2>2
<1> HIDE DEF A
<1>10. \A i \in 0..to : i \in A
  <2>1. 0 \in Nat
    OBVIOUS
  <2> QED
    BY <1>2, <1>8, <1>9, <2>1, IntervalInduction
<1>11. g[to] \in Good
  BY <1>2, <1>10 DEF A
<1> QED
  BY <1>6, <1>11 DEF Good

-----------------------------------------------------------------------------
(* The invariant.                                                            *)

EventsInv == PairOK(Tables, 0) /\ memory \in BOOLEAN

\* What the state is after Become.
LEMMA BecomeTables ==
  ASSUME NEW T \in PairRecord, Become(T)
  PROVE  Tables' = T /\ memory' = memory /\ table' = T.h
<1>1. table' = T.h /\ shadow' = T.s /\ fault' = T.fault /\ memory' = memory
  BY DEF Become
<1>2. Tables' = [h |-> table', s |-> shadow', fault |-> fault']
  BY DEF Tables
<1>3. T = [h |-> T.h, s |-> T.s, fault |-> T.fault]
  BY DEF PairRecord
<1> QED
  BY <1>1, <1>2, <1>3

LEMMA TablesFields == Tables.h = table /\ Tables.s = shadow /\ Tables.fault = fault
BY DEF Tables

\* The keys with an entry, and where they are found.
LEMMA TrackedFacts ==
  ASSUME EventsInv
  PROVE  /\ TableOK(table) /\ table.used < table.n /\ Tracked = {c.key : c \in Content(table)}
         /\ Tracked \subseteq Key
         /\ \A k \in Tracked : Find(table, k) \in Exist(table) /\ table.at[Find(table, k)].key = k
         /\ \A k \in Key \ Tracked : Find(table, k) = table.n
<1>1. PairOK(Tables, 0) /\ TableOK(table)
  BY TablesFields DEF EventsInv, PairOK
<1>2. table.used < table.n
  <2>1. Tables.h.used + 0 < Tables.h.n
    BY <1>1, UsedBelow
  <2>2. table.used \in Nat
    BY <1>1, TableFacts
  <2> QED
    BY <2>1, <2>2, TablesFields
<1>3. Tracked = {c.key : c \in Content(table)}
  BY DEF Tracked, Content
<1>4. Tracked \subseteq Key
  BY <1>1, <1>3, TableFacts DEF Entry
<1>5. ASSUME NEW k \in Tracked
      PROVE  Find(table, k) \in Exist(table) /\ table.at[Find(table, k)].key = k
  <2>1. PICK i \in Exist(table) : table.at[i].key = k
    BY DEF Tracked
  <2>2. Find(table, k) = i
    BY <1>1, <1>2, <1>4, <2>1, FindFacts
  <2> QED
    BY <2>1, <2>2
<1>6. ASSUME NEW k \in Key \ Tracked PROVE Find(table, k) = table.n
  <2>1. \A i \in Exist(table) : table.at[i].key # k
    BY DEF Tracked
  <2> QED
    BY <1>1, <1>2, <2>1, FindFacts
<1> QED
  BY <1>1, <1>2, <1>3, <1>4, <1>5, <1>6

LEMMA CollectedType ==
  \A E : Collected(E) \in SUBSET Exist(Tables.h)
BY TablesFields DEF Collected

LEMMA EventsInitInv == EventsInit => EventsInv
<1> SUFFICES ASSUME EventsInit PROVE EventsInv
  OBVIOUS
<1>1. memory \in BOOLEAN /\ Begins(Filled(memory))
  BY DEF EventsInit
<1>2. PairOK(Filled(memory), 0)
  BY <1>1, FilledFacts
<1>3. PICK T : T = Filled(memory)
  OBVIOUS
<1>4. T = [h |-> T.h, s |-> T.s, fault |-> T.fault]
  BY <1>2, <1>3 DEF PairOK, PairRecord
<1>5. Tables = T
  BY <1>1, <1>3, <1>4 DEF Begins, Tables
<1> QED
  BY <1>1, <1>2, <1>3, <1>5 DEF EventsInv

\* Each action replaces the table by that of an addition or a deletion, or
\* leaves it as it is.
LEMMA EventsSteps ==
  ASSUME EventsInv, EventsNext
  PROVE  \/ \E k \in Key, v \in Version : Become(Put(Tables, [key |-> k, ver |-> v], memory))
         \/ \E x : Become(Del(Tables, x))
         \/ \E E : Become(DelAll(Tables, Collected(E)))
         \/ MemoryChanges
BY DEF EventsNext, AddEvent, RemoveEvent, CancelByFd, CheckEventTimeouts, Forget, Changing

LEMMA EventsNextInv == EventsInv /\ [EventsNext]_eventsVars => EventsInv'
<1> SUFFICES ASSUME EventsInv, [EventsNext]_eventsVars PROVE EventsInv'
  OBVIOUS
<1>1. PairOK(Tables, 0) /\ memory \in BOOLEAN
  BY DEF EventsInv
<1>2. ASSUME NEW T, PairOK(T, 0), Become(T) PROVE EventsInv'
  <2>1. Tables' = T /\ memory' = memory
    BY <1>2, BecomeTables DEF PairOK
  <2>2. PairOK(Tables', 0)
    BY <1>2, <2>1
  <2> QED
    BY <1>1, <2>1, <2>2 DEF EventsInv
<1>3. ASSUME NEW k \in Key, NEW v \in Version, Become(Put(Tables, [key |-> k, ver |-> v], memory))
      PROVE  EventsInv'
  <2>1. [key |-> k, ver |-> v] \in Entry
    BY DEF Entry
  <2>2. PairOK(Put(Tables, [key |-> k, ver |-> v], memory), 0)
    BY <1>1, <2>1, PutFacts
  <2> QED
    BY <1>2, <1>3, <2>2
<1>4. ASSUME NEW x, Become(Del(Tables, x)) PROVE EventsInv'
  <2>1. PairOK(Del(Tables, x), 0)
    BY <1>1, DelFacts
  <2> QED
    BY <1>2, <1>4, <2>1
<1>5. ASSUME NEW E, Become(DelAll(Tables, Collected(E))) PROVE EventsInv'
  <2>1. PairOK(DelAll(Tables, Collected(E)), 0)
    BY <1>1, CollectedType, DelAllFacts
  <2> QED
    BY <1>2, <1>5, <2>1
<1>6. CASE MemoryChanges
  <2>1. memory' \in BOOLEAN /\ table' = table /\ shadow' = shadow /\ fault' = fault
    BY <1>1, <1>6 DEF MemoryChanges
  <2>2. Tables' = Tables
    BY <2>1 DEF Tables
  <2> QED
    BY <1>1, <2>1, <2>2 DEF EventsInv
<1>7. CASE UNCHANGED eventsVars
  <2>1. memory' = memory /\ Tables' = Tables
    BY <1>7 DEF eventsVars, Tables
  <2> QED
    BY <1>1, <2>1 DEF EventsInv
<1>8. CASE EventsNext
  BY <1>3, <1>4, <1>5, <1>6, <1>8, EventsSteps
<1> QED
  BY <1>7, <1>8

\* The structure of the table is what the worker rests on: in every state the
\* counters of the table and of its shadow are exact, every entry is found by
\* its key, and the shadow is in step with what was moved to it, whatever was
\* added, removed and cancelled before.
THEOREM TableIsSound == EventsSpec => []TableSound
<1>1. EventsInv => TableSound
  <2> SUFFICES ASSUME EventsInv PROVE TableSound
    OBVIOUS
  <2>1. PairOK(Tables, 0) /\ fault = "none" /\ TableOK(table)
    BY TablesFields DEF EventsInv, PairOK
  <2>2. table.used < table.n
    BY TrackedFacts
  <2>3. ASSUME Resizing(Tables)
        PROVE  /\ TableOK(shadow) /\ shadow.used < shadow.n /\ InStep(table, shadow, table.position)
    <3>1. /\ TableOK(shadow) /\ InStep(table, shadow, table.position) /\ table.position < table.n
          /\ Shadowed(Tables, 0)
      BY <2>1, <2>3, TablesFields DEF PairOK, Shadowed
    <3>2. Tables.s.used + 0 < Upper(Tables.s.n) /\ Upper(Tables.s.n) < Tables.s.n
      BY <2>1, <3>1, TablesFields, ShadowedBounds
    <3>3. shadow.used \in Nat /\ shadow.n \in Nat /\ Upper(shadow.n) \in Nat
      BY <3>1, TableFacts, UpperFacts
    <3>4. shadow.used < shadow.n
      BY <3>2, <3>3, TablesFields
    <3> QED
      BY <3>1, <3>4
  <2>4. ASSUME NEW t, TableOK(t), t.used < t.n PROVE Sound(t)
    <3>1. Taken(t) = Exist(t) \cup t.dirty
      BY DEF Taken
    <3> QED
      BY <2>4, <3>1 DEF Sound, TableOK
  <2>5. CountersExact
    BY <2>1, <2>2, <2>3, <2>4 DEF CountersExact
  <2>6. ASSUME NEW t, TableOK(t), t.used < t.n, NEW i \in Exist(t) PROVE Find(t, t.at[i].key) = i
    <3>1. t.at[i] \in Entry
      BY <2>6, TableFacts
    <3>2. t.at[i].key \in Key
      BY <3>1 DEF Entry
    <3> QED
      BY <2>6, <3>2, FindFacts
  <2>7. EntriesFound
    BY <2>1, <2>2, <2>3, <2>6 DEF EntriesFound
  <2>8. ShadowInStep
    <3> SUFFICES ASSUME Resizing(Tables)
                 PROVE  /\ \A i \in Exist(shadow) : \E j \in Exist(table) : table.at[j] = shadow.at[i]
                        /\ \A j \in Exist(table) :
                             j < table.position => \E i \in Exist(shadow) : shadow.at[i] = table.at[j]
      BY DEF ShadowInStep
    <3> QED
      BY <2>3 DEF InStep, Content
  <2> QED
    BY <2>5, <2>7, <2>8 DEF TableSound
<1> QED
  BY <1>1, EventsInitInv, EventsNextInv, PTL DEF EventsSpec

\* A removal forgets its entry and no other, and so does a cancellation that
\* completes no resize: whatever the chains and the dirty slots of the table,
\* and wherever the resize is.
THEOREM ForgettingIsExact == EventsSpec => []ForgetsExactly
<1>1. EventsInv => ForgetsExactly
  <2> SUFFICES ASSUME EventsInv PROVE ForgetsExactly
    OBVIOUS
  <2>1. PairOK(Tables, 0)
    BY DEF EventsInv
  <2>2. ASSUME NEW T PROVE {T.h.at[i].key : i \in Exist(T.h)} = {c.key : c \in Content(T.h)}
    BY DEF Content
  <2>3. ASSUME NEW k \in Tracked PROVE Forgets(Del(Tables, Find(table, k)), {k})
    <3>1. PICK x, R : x = Find(table, k) /\ R = Del(Tables, x)
      OBVIOUS
    <3>2. x \in Exist(table) /\ table.at[x].key = k
      BY <3>1, TrackedFacts
    <3>3. Content(R.h) = {c \in Content(table) : c.key # k}
      BY <2>1, <3>1, <3>2, TablesFields, DelFacts
    <3>4. {c.key : c \in Content(R.h)} = {c.key : c \in Content(table)} \ {k}
      BY <3>3
    <3>5. {R.h.at[i].key : i \in Exist(R.h)} = Tracked \ {k}
      BY <2>2, <3>4, TrackedFacts
    <3> QED
      BY <3>1, <3>5 DEF Forgets
  <2>4. ASSUME NEW E PROVE ForgetsOrResized(DelAll(Tables, Collected(E)), E)
    <3>1. PICK R : R = DelAll(Tables, Collected(E))
      OBVIOUS
    <3> SUFFICES ASSUME ~(Resizing(Tables) /\ ~Resizing(R)) PROVE Forgets(R, E)
      BY <3>1 DEF ForgetsOrResized
    <3>2. Collected(E) \in SUBSET Exist(Tables.h)
      BY CollectedType
    <3>3. /\ Exist(R.h) = Exist(table) \ Collected(E)
          /\ \A i \in Exist(R.h) : R.h.at[i] = table.at[i]
      BY <2>1, <3>1, <3>2, TablesFields, DelAllFacts
    <3>4. {R.h.at[i].key : i \in Exist(R.h)} = Tracked \ E
      BY <3>3 DEF Tracked, Collected
    <3> QED
      BY <3>4 DEF Forgets
  <2> QED
    BY <2>3, <2>4 DEF ForgetsExactly
<1> QED
  BY <1>1, EventsInitInv, EventsNextInv, PTL DEF EventsSpec

-----------------------------------------------------------------------------
(* The map that the table stands for.                                        *)

EntriesOf(t) ==
  [k \in {t.at[i].key : i \in Exist(t)} |-> t.at[CHOOSE i \in Exist(t) : t.at[i].key = k].ver]

LEMMA EntriesFacts ==
  ASSUME NEW t, TableOK(t)
  PROVE  /\ EntriesOf(t) = [k \in DOMAIN EntriesOf(t) |-> EntriesOf(t)[k]]
         /\ DOMAIN EntriesOf(t) = {c.key : c \in Content(t)}
         /\ \A c \in Content(t) : EntriesOf(t)[c.key] = c.ver
<1>1. DOMAIN EntriesOf(t) = {c.key : c \in Content(t)}
  BY DEF EntriesOf, Content
<1>2. ASSUME NEW c \in Content(t) PROVE EntriesOf(t)[c.key] = c.ver
  <2>1. PICK i \in Exist(t) : c = t.at[i]
    BY DEF Content
  <2>2. PICK j : j = CHOOSE l \in Exist(t) : t.at[l].key = c.key
    OBVIOUS
  <2>3. j \in Exist(t) /\ t.at[j].key = c.key
    BY <2>1, <2>2
  <2>4. j = i
    BY <2>1, <2>3 DEF TableOK
  <2>5. EntriesOf(t)[c.key] = t.at[j].ver
    BY <2>1, <2>2 DEF EntriesOf
  <2> QED
    BY <2>1, <2>4, <2>5
<1>3. EntriesOf(t) = [k \in DOMAIN EntriesOf(t) |-> EntriesOf(t)[k]]
  BY DEF EntriesOf
<1> QED
  BY <1>1, <1>2, <1>3

\* An addition to the table is one to the map.
LEMMA EntriesPut ==
  ASSUME NEW t, TableOK(t), NEW u, TableOK(u), NEW e,
         Content(u) = {c \in Content(t) : c.key # e.key} \cup {e}
  PROVE  EntriesOf(u) = [j \in DOMAIN EntriesOf(t) \cup {e.key} |->
                           IF j = e.key THEN e.ver ELSE EntriesOf(t)[j]]
<1>1. PICK f, g : f = EntriesOf(t) /\ g = EntriesOf(u)
  OBVIOUS
<1>2. /\ g = [k \in DOMAIN g |-> g[k]]
      /\ DOMAIN f = {c.key : c \in Content(t)} /\ DOMAIN g = {c.key : c \in Content(u)}
      /\ \A c \in Content(t) : f[c.key] = c.ver
      /\ \A c \in Content(u) : g[c.key] = c.ver
  BY <1>1, EntriesFacts
<1>3. DOMAIN g = DOMAIN f \cup {e.key}
  BY <1>2
<1>4. \A j \in DOMAIN g : g[j] = IF j = e.key THEN e.ver ELSE f[j]
  <2> SUFFICES ASSUME NEW j \in DOMAIN g PROVE g[j] = IF j = e.key THEN e.ver ELSE f[j]
    OBVIOUS
  <2>1. CASE j = e.key
    <3>1. e \in Content(u)
      OBVIOUS
    <3> QED
      BY <1>2, <2>1, <3>1
  <2>2. CASE j # e.key
    <3>1. PICK c \in Content(u) : j = c.key
      BY <1>2
    <3>2. c \in Content(t)
      BY <2>2, <3>1
    <3> QED
      BY <1>2, <2>2, <3>1, <3>2
  <2> QED
    BY <2>1, <2>2
<1>5. g = [j \in DOMAIN f \cup {e.key} |-> IF j = e.key THEN e.ver ELSE f[j]]
  BY <1>2, <1>3, <1>4
<1> QED
  BY <1>1, <1>5

\* A table with fewer entries is a smaller map.
LEMMA EntriesFewer ==
  ASSUME NEW t, TableOK(t), NEW u, TableOK(u), Content(u) \subseteq Content(t)
  PROVE  /\ DOMAIN EntriesOf(u) \subseteq DOMAIN EntriesOf(t)
         /\ EntriesOf(u) = [k \in DOMAIN EntriesOf(u) |-> EntriesOf(t)[k]]
<1>1. PICK f, g : f = EntriesOf(t) /\ g = EntriesOf(u)
  OBVIOUS
<1>2. /\ g = [k \in DOMAIN g |-> g[k]]
      /\ DOMAIN f = {c.key : c \in Content(t)} /\ DOMAIN g = {c.key : c \in Content(u)}
      /\ \A c \in Content(t) : f[c.key] = c.ver
      /\ \A c \in Content(u) : g[c.key] = c.ver
  BY <1>1, EntriesFacts
<1>3. \A k \in DOMAIN g : k \in DOMAIN f /\ g[k] = f[k]
  <2> SUFFICES ASSUME NEW k \in DOMAIN g PROVE k \in DOMAIN f /\ g[k] = f[k]
    OBVIOUS
  <2>1. PICK c \in Content(u) : k = c.key
    BY <1>2
  <2> QED
    BY <1>2, <2>1
<1>4. g = [k \in DOMAIN g |-> f[k]]
  BY <1>2, <1>3
<1> QED
  BY <1>1, <1>3, <1>4

\* The table with its chains, its dirty slots and its resizes behaves as the
\* map of EventSet: every addition is the addition to the map (or is lost, when
\* there is no memory), and every removal and cancellation only takes from it.
THEOREM TableIsMap == EventsSpec => ImplementsSet
<1>1. Entries = EntriesOf(table) /\ (Entries)' = EntriesOf(table')
  BY DEF Entries, EntriesOf, Tracked
<1>2. EventsInit => Abstract!Init
  <2> SUFFICES ASSUME EventsInit PROVE Abstract!Init
    OBVIOUS
  <2>1. memory \in BOOLEAN /\ Begins(Filled(memory))
    BY DEF EventsInit
  <2>2. PairOK(Filled(memory), 0) /\ \A c \in Content(Filled(memory).h) : c.ver = 0
    BY <2>1, FilledFacts
  <2>3. table = Filled(memory).h
    BY <2>1 DEF Begins
  <2>4. TableOK(table) /\ \A c \in Content(table) : c.ver = 0
    BY <2>2, <2>3 DEF PairOK
  <2>5. PICK f : f = EntriesOf(table)
    OBVIOUS
  <2>6. /\ f = [k \in DOMAIN f |-> f[k]] /\ DOMAIN f = {c.key : c \in Content(table)}
        /\ \A c \in Content(table) : f[c.key] = c.ver
    BY <2>4, <2>5, EntriesFacts
  <2>7. DOMAIN f \in SUBSET Key
    <3>1. Content(table) \subseteq Entry
      BY <2>4, TableFacts
    <3> QED
      BY <2>6, <3>1 DEF Entry
  <2>8. \A k \in DOMAIN f : f[k] = 0
    BY <2>4, <2>6
  <2>9. f = [k \in DOMAIN f |-> 0]
    BY <2>6, <2>8
  <2>10. \E S \in SUBSET Key : Entries = [k \in S |-> 0] /\ memory \in BOOLEAN
    BY <1>1, <2>1, <2>5, <2>7, <2>9
  <2> QED
    BY <2>10 DEF Abstract!Init
<1>3. EventsInv /\ [EventsNext]_eventsVars => [Abstract!Next]_(Abstract!vars)
  <2> SUFFICES ASSUME EventsInv, [EventsNext]_eventsVars PROVE [Abstract!Next]_(Abstract!vars)
    OBVIOUS
  <2>1. PairOK(Tables, 0) /\ TableOK(table) /\ memory \in BOOLEAN
    BY TrackedFacts DEF EventsInv
  <2>2. ASSUME table' = table, memory' = memory PROVE UNCHANGED Abstract!vars
    <3>1. (Entries)' = Entries
      BY <1>1, <2>2
    <3> QED
      BY <2>2, <3>1 DEF Abstract!vars
  <2>3. ASSUME NEW T, PairOK(T, 0), Content(T.h) \subseteq Content(table), Become(T)
        PROVE  Abstract!Next
    <3>1. table' = T.h /\ memory' = memory /\ TableOK(T.h)
      BY <2>3, BecomeTables DEF PairOK
    <3>2. PICK u : u = T.h
      OBVIOUS
    <3>3. /\ DOMAIN EntriesOf(u) \subseteq DOMAIN EntriesOf(table)
          /\ EntriesOf(u) = [k \in DOMAIN EntriesOf(u) |-> EntriesOf(table)[k]]
      BY <2>1, <2>3, <3>1, <3>2, EntriesFewer
    <3>4. (Entries)' = EntriesOf(u)
      BY <1>1, <3>1, <3>2
    <3>5. Abstract!Forget
      BY <1>1, <3>1, <3>3, <3>4 DEF Abstract!Forget
    <3> QED
      BY <3>5 DEF Abstract!Next
  <2>4. ASSUME NEW k \in Key, NEW v \in Version, Become(Put(Tables, [key |-> k, ver |-> v], memory))
        PROVE  [Abstract!Next]_(Abstract!vars)
    <3>1. PICK e, T : e = [key |-> k, ver |-> v] /\ T = Put(Tables, e, memory)
      OBVIOUS
    <3>2. e \in Entry /\ e.key = k /\ e.ver = v
      BY <3>1 DEF Entry
    <3>3. /\ PairOK(T, 0)
          /\ \/ Content(T.h) = {c \in Content(Tables.h) : c.key # e.key} \cup {e}
             \/ Content(T.h) = Content(Tables.h)
      <4>1. PICK ok \in BOOLEAN : ok = memory
        BY <2>1
      <4>2. T = Put(Tables, e, ok)
        BY <3>1, <4>1
      <4> QED
        BY <2>1, <3>2, <4>2, PutFacts
    <3>4. table' = T.h /\ memory' = memory /\ TableOK(T.h)
      BY <2>4, <3>1, <3>3, BecomeTables DEF PairOK
    <3>5. CASE Content(T.h) = Content(Tables.h)
      <4>1. Content(T.h) \subseteq Content(table) /\ Become(T)
        BY <2>4, <3>1, <3>5, TablesFields
      <4> QED
        BY <2>3, <3>3, <4>1
    <3>6. CASE Content(T.h) = {c \in Content(Tables.h) : c.key # e.key} \cup {e}
      <4>1. PICK u : u = T.h
        OBVIOUS
      <4>2. Content(u) = {c \in Content(table) : c.key # e.key} \cup {e}
        BY <3>6, <4>1, TablesFields
      <4>3. EntriesOf(u) = [j \in DOMAIN EntriesOf(table) \cup {e.key} |->
                              IF j = e.key THEN e.ver ELSE EntriesOf(table)[j]]
        BY <2>1, <3>4, <4>1, <4>2, EntriesPut
      <4>4. (Entries)' = EntriesOf(u)
        BY <1>1, <3>4, <4>1
      <4>5. (Entries)' = [j \in DOMAIN Entries \cup {k} |-> IF j = k THEN v ELSE Entries[j]]
        BY <1>1, <3>2, <4>3, <4>4
      <4>6. Abstract!Add(k, v)
        BY <3>4, <4>5 DEF Abstract!Add
      <4> QED
        BY <4>6 DEF Abstract!Next
    <3> QED
      BY <3>3, <3>5, <3>6
  <2>5. ASSUME NEW x, Become(Del(Tables, x)) PROVE Abstract!Next
    <3>1. PairOK(Del(Tables, x), 0) /\ Content(Del(Tables, x).h) \subseteq Content(table)
      BY <2>1, DelFacts, TablesFields
    <3> QED
      BY <2>3, <2>5, <3>1
  <2>6. ASSUME NEW E, Become(DelAll(Tables, Collected(E))) PROVE Abstract!Next
    <3>1. PICK T : T = DelAll(Tables, Collected(E))
      OBVIOUS
    <3>2. PairOK(T, 0) /\ Content(T.h) \subseteq Content(table)
      BY <2>1, <3>1, CollectedType, DelAllFacts, TablesFields
    <3> QED
      BY <2>3, <2>6, <3>1, <3>2
  <2>7. CASE MemoryChanges
    <3>1. memory' \in BOOLEAN /\ table' = table
      BY <2>1, <2>7 DEF MemoryChanges
    <3>2. (Entries)' = Entries
      BY <1>1, <3>1
    <3>3. Abstract!MemoryChanges
      BY <3>1, <3>2 DEF Abstract!MemoryChanges
    <3> QED
      BY <3>3 DEF Abstract!Next
  <2>8. CASE UNCHANGED eventsVars
    BY <2>2, <2>8 DEF eventsVars
  <2>9. CASE EventsNext
    BY <2>4, <2>5, <2>6, <2>7, <2>9, EventsSteps
  <2> QED
    BY <2>8, <2>9
<1> QED
  BY <1>2, <1>3, EventsInitInv, EventsNextInv, PTL DEF EventsSpec, ImplementsSet, Abstract!Spec
=============================================================================
