-------------------------- MODULE TransportBuffers --------------------------
(***************************************************************************)
(* The buffers of one worker: the native stack of free identifiers         *)
(* (transport_buffers_pool.h) and the Dart class TransportBuffers, which   *)
(* suspends an allocation on a Completer when the stack is empty and       *)
(* completes that Completer when a buffer is released.                     *)
(*                                                                         *)
(* A worker is one isolate: code runs to the next await without being      *)
(* interrupted, so an action is one such segment.  Completing a Completer  *)
(* does not run its awaiters, it puts them at the end of the microtask     *)
(* queue; between the two, other code may take the buffer that was         *)
(* released.                                                               *)
(***************************************************************************)
EXTENDS Integers, Sequences, FiniteSets

CONSTANTS
  Task,           \* asynchronous calls (read, write, ...) that may be in progress
  BuffersCount,   \* buffers_count of the worker's configuration
  MaxWant,        \* BOUND: the longest list of one allocateArray
  MaxCalls        \* BOUND: how many requests one task makes, or Unbounded

Unbounded == -1

\* transport.dart passes max(buffersCount, 2) to the native worker.
ASSUME BuffersCountAssumption == BuffersCount \in Nat /\ BuffersCount >= 2
ASSUME BoundsAssumption == MaxWant \in Nat \ {0} /\ MaxCalls \in Nat \cup {Unbounded}

Buffer == 0..(BuffersCount - 1)

VARIABLES
  ids,          \* free_buffers.ids[0..count-1]; the last element is the top
  finalizers,   \* _finalizers: each Completer is the sequence of its awaiters
  ready,        \* the microtask queue
  got,          \* task -> the buffers it took and has not released
  want,         \* task -> the number of buffers it asked for, less the released ones
  calls         \* task -> the number of requests it made, if they are bounded

vars == <<ids, finalizers, ready, got, want, calls>>

-----------------------------------------------------------------------------
\* transport_worker_initialize pushes 0, 1, ... in this order.
InitialIds == [i \in 1..BuffersCount |-> i - 1]

Init ==
  /\ ids = InitialIds
  /\ finalizers = <<>>
  /\ ready = <<>>
  /\ got = [t \in Task |-> {}]
  /\ want = [t \in Task |-> 0]
  /\ calls = [t \in Task |-> 0]

\* The k buffers that k calls of transport_buffers_pool_pop return.
Top(k) == {ids[i] : i \in (Len(ids) - k + 1)..Len(ids)}

\* Mutant: pop reads the top without decrementing the counter.
PopStale(k) == k <= Len(ids) /\ UNCHANGED ids

Pop(k) == ids' = SubSeq(ids, 1, Len(ids) - k)

\* How many of n buffers the loop over get() finds on the stack.
Available(n) == IF n <= Len(ids) THEN n ELSE Len(ids)

\* allocate() on an empty stack: await the last completer, or a new one.
Park(t) ==
  finalizers' = IF finalizers = <<>>
                  THEN <<(<<t>>)>>
                  ELSE [finalizers EXCEPT ![Len(finalizers)] = Append(@, t)]

\* Mutant: release() pushes and forgets the completers.
ReleaseBufferSilent(b) == ids' = Append(ids, b) /\ UNCHANGED <<finalizers, ready>>

\* Mutant: release() completes a completer and forgets the push.
ReleaseBufferLost(b) ==
  /\ finalizers' = <<>>
  /\ ready' = IF finalizers = <<>> THEN ready ELSE ready \o Head(finalizers)
  /\ UNCHANGED ids

\* Mutant: release() hands the buffer to the first awaiter and drops the rest.
ReleaseBufferFirstOnly(b) ==
  /\ ids' = Append(ids, b)
  /\ finalizers' = <<>>
  /\ ready' = IF finalizers = <<>> THEN ready ELSE Append(ready, Head(Head(finalizers)))

\* release(): push the identifier and complete the last completer, if any;
\* its awaiters join the microtask queue in the order in which they came.
ReleaseBuffer(b) ==
  /\ ids' = Append(ids, b)
  /\ IF finalizers = <<>>
       THEN UNCHANGED <<finalizers, ready>>
       ELSE /\ finalizers' = SubSeq(finalizers, 1, Len(finalizers) - 1)
            /\ ready' = ready \o finalizers[Len(finalizers)]

\* A request that found all its buffers: `get() ?? await allocate()` goes on at
\* once, allocateArray is async, and its caller resumes in a later microtask
\* even if it did not have to wait.  For one buffer it may be either.
ReturnArray(t, n) ==
  \/ n = 1 /\ UNCHANGED ready
  \/ ready' = Append(ready, t)

\* The bound on requests.
Counted(t) ==
  \/ MaxCalls = Unbounded /\ UNCHANGED calls
  \/ calls[t] < MaxCalls /\ calls' = [calls EXCEPT ![t] = @ + 1]

\* `get() ?? await allocate()` and `await allocateArray(n)`, up to the first
\* await.
Request(t, n) ==
  LET k == Available(n) IN
  /\ want[t] = 0
  /\ Counted(t)
  /\ want' = [want EXCEPT ![t] = n]
  /\ got' = [got EXCEPT ![t] = Top(k)]
  /\ Pop(k)
  /\ \/ k = n /\ ReturnArray(t, n) /\ UNCHANGED finalizers
     \/ k < n /\ Park(t) /\ UNCHANGED ready

\* The next microtask: an awaiter of a completed Completer tries the stack
\* again and, if that does not serve its request, awaits again.  For a
\* request already served this is the return of allocateArray.
Resume(t) ==
  LET missing == want[t] - Cardinality(got[t])
      k == Available(missing)
  IN
  /\ ready # <<>>
  /\ t = Head(ready)
  /\ ready' = Tail(ready)
  /\ got' = [got EXCEPT ![t] = @ \cup Top(k)]
  /\ Pop(k)
  /\ \/ k = missing /\ UNCHANGED finalizers
     \/ k < missing /\ Park(t)
  /\ UNCHANGED <<want, calls>>

InSeq(t, s) == \E i \in 1..Len(s) : s[i] = t
Parked(t) == \E i \in 1..Len(finalizers) : InSeq(t, finalizers[i])
Waiting(t) == Parked(t) \/ InSeq(t, ready)
Holding(t) == want[t] > 0 /\ ~Waiting(t)

\* The handler of the task's completion, or the user of its payload, releases
\* a buffer of a request that was served.
Release(t, b) ==
  /\ Holding(t)
  /\ b \in got[t]
  /\ got' = [got EXCEPT ![t] = @ \ {b}]
  /\ want' = [want EXCEPT ![t] = @ - 1]
  /\ ReleaseBuffer(b)
  /\ UNCHANGED calls

Next ==
  \E t \in Task :
    \/ \E n \in 1..MaxWant : Request(t, n)
    \/ Resume(t)
    \/ \E b \in Buffer : Release(t, b)

\* The isolate runs its microtasks, and whoever holds a buffer releases it:
\* the worker's event loop when the operation completes, the application when
\* it is done with the payload.  Nobody has to make a request.
Fairness ==
  /\ WF_vars(\E t \in Task : Resume(t))
  /\ \A t \in Task : WF_vars(\E b \in Buffer : Release(t, b))

Spec == Init /\ [][Next]_vars /\ Fairness

-----------------------------------------------------------------------------
TypeOK ==
  /\ ids \in Seq(Buffer)
  /\ finalizers \in Seq(Seq(Task))
  /\ ready \in Seq(Task)
  /\ got \in [Task -> SUBSET Buffer]
  /\ want \in [Task -> 0..MaxWant]
  /\ calls \in [Task -> Nat]

\* A buffer is on the free stack once or in the hands of one task, never both
\* and never neither: no buffer is given to two operations, pushed twice (the
\* native push has no bound check) or lost.
Injective(s) == \A i, j \in 1..Len(s) : s[i] = s[j] => i = j
BufferOwnership ==
  /\ Injective(ids)
  /\ \A b \in Buffer : InSeq(b, ids) <=> (\A t \in Task : b \notin got[t])
  /\ \A t, u \in Task : t # u => got[t] \cap got[u] = {}

\* No allocation stays suspended on a completer while the stack has a buffer:
\* release() completes one completer only, so there must never be two.
NoLostWakeup ==
  /\ Len(finalizers) <= 1
  /\ ids # <<>> => finalizers = <<>>

\* Every request is eventually served.  The code does not promise it: requests of
\* several buffers hold what they have and can wait for each other, and a task that
\* asks between a release and the microtask of an awaiter takes what woke it.
EveryRequestServed == \A t \in Task : want[t] > 0 ~> want[t] = Cardinality(got[t])

\* Another task asks while an awaiter was woken and has not run.
Overtakes(t) == InSeq(t, ready) /\ \E u \in Task \ {t}, n \in 1..MaxWant : Request(u, n)

\* As long as all ask for one buffer, a request is served unless it is overtaken
\* between its wake-up and its microtask again and again: awaiters of one completer keep
\* their order when they wait again, and no release passes them by.
SinglesServed ==
  [](\A t \in Task : want[t] <= 1)
    => \A t \in Task : (want[t] > 0 ~> want[t] = Cardinality(got[t])) \/ []<><<Overtakes(t)>>_vars

\* The allocator that the tasks see.
Allocator == INSTANCE BufferAllocator
               WITH free <- {ids[i] : i \in 1..Len(ids)}, held <- got
ImplementsAllocator == Allocator!Spec
=============================================================================
