------------------------------ MODULE EventSet ------------------------------
(***************************************************************************)
(* What the worker expects of the table of its tracked operations: a map   *)
(* from user_data to the entry that was added last.  An addition may be    *)
(* lost while the process has no memory, as add_event ignores it; which    *)
(* entries a cancellation forgets is left to ForgetsExactly of EventsTable,*)
(* the module that implements this one.                                    *)
(***************************************************************************)
EXTENDS Naturals

CONSTANTS
  Key,      \* the values of user_data
  Version   \* what tells two entries of one user_data apart

VARIABLES
  entries,  \* user_data -> version, for the tracked operations
  memory    \* whether an allocation succeeds

vars == <<entries, memory>>

Init == \E S \in SUBSET Key : entries = [k \in S |-> 0] /\ memory \in BOOLEAN

Add(k, v) ==
  /\ \/ entries' = [j \in DOMAIN entries \cup {k} |-> IF j = k THEN v ELSE entries[j]]
     \/ ~memory /\ entries' = entries
  /\ UNCHANGED memory

\* Removals and cancellations: what is left is as it was.
Forget ==
  /\ DOMAIN entries' \subseteq DOMAIN entries
  /\ entries' = [k \in DOMAIN entries' |-> entries[k]]
  /\ UNCHANGED memory

MemoryChanges == memory' \in BOOLEAN /\ UNCHANGED entries

Next ==
  \/ \E k \in Key, v \in Version : Add(k, v)
  \/ Forget
  \/ MemoryChanges

Spec == Init /\ [][Next]_vars
=============================================================================
