------------------------- MODULE MCTransportBuffers -------------------------
(* TransportBuffers for TLC: the tasks are interchangeable model values.    *)
EXTENDS TransportBuffers, TLC

Symmetry == Permutations(Task)
=============================================================================
