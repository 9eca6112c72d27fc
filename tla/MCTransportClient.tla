-------------------------- MODULE MCTransportClient --------------------------
(* TransportClient for TLC.                                                 *)
EXTENDS TransportClient, TLC

Symmetry == Permutations(Task)
=============================================================================
