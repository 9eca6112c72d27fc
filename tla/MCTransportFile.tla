--------------------------- MODULE MCTransportFile ---------------------------
(* TransportFile for TLC: blocks of two bytes.                              *)
EXTENDS TransportFile
=============================================================================
