--------------------------- MODULE BufferAllocator ---------------------------
(***************************************************************************)
(* What the buffer pool of a worker promises to the tasks that share it,   *)
(* without its stack, its completers or its microtasks: a task asks for a  *)
(* number of buffers, is given free ones in as many steps as it takes, and *)
(* gives back, one at a time, the buffers of a request that was served.    *)
(* TransportBuffers implements this module.                                *)
(***************************************************************************)
EXTENDS Naturals, FiniteSets

CONSTANTS
  Task,     \* the asynchronous calls that use the pool
  Buffer,   \* the identifiers of the buffers
  MaxWant   \* the largest number of buffers one call asks for

VARIABLES
  free,   \* buffers nobody holds
  held,   \* task -> the buffers it was given and has not returned
  want    \* task -> the number of buffers it is entitled to

vars == <<free, held, want>>

Served(t) == Cardinality(held[t]) = want[t]

Init ==
  /\ free = Buffer
  /\ held = [t \in Task |-> {}]
  /\ want = [t \in Task |-> 0]

\* A task that holds nothing asks for n buffers and may be given some at once.
Request(t, n) ==
  /\ want[t] = 0
  /\ want' = [want EXCEPT ![t] = n]
  /\ \E S \in SUBSET free :
       /\ Cardinality(S) <= n
       /\ free' = free \ S
       /\ held' = [held EXCEPT ![t] = S]

\* A task whose request is not served yet is given more free buffers.
Grant(t) ==
  /\ \E S \in SUBSET free :
       /\ Cardinality(held[t] \cup S) <= want[t]
       /\ free' = free \ S
       /\ held' = [held EXCEPT ![t] = @ \cup S]
  /\ UNCHANGED want

\* A served task returns one buffer.
Return(t, b) ==
  /\ Served(t)
  /\ b \in held[t]
  /\ held' = [held EXCEPT ![t] = @ \ {b}]
  /\ want' = [want EXCEPT ![t] = @ - 1]
  /\ free' = free \cup {b}

Next ==
  \E t \in Task :
    \/ \E n \in 1..MaxWant : Request(t, n)
    \/ Grant(t)
    \/ \E b \in Buffer : Return(t, b)

Spec == Init /\ [][Next]_vars
=============================================================================
