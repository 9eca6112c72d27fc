------------------------- MODULE MCTransportServer -------------------------
(* TransportServer for TLC: the tasks are interchangeable model values.     *)
EXTENDS TransportServer, TLC

Symmetry == Permutations(Task)
=============================================================================
