-------------------------- MODULE MCDatagramServer --------------------------
(* DatagramServer for TLC: tasks and senders are interchangeable.           *)
EXTENDS DatagramServer, TLC

Symmetry == Permutations(Task) \cup Permutations(Sender)
=============================================================================
