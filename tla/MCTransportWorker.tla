-------------------------- MODULE MCTransportWorker --------------------------
(* TransportWorker for TLC: two operations of one descriptor with timeouts  *)
(* of one and a half seconds and of half a second, and one of another with  *)
(* none; or, for the first two, timeouts of whole seconds, or of seven      *)
(* quarters of a second.                                                    *)
EXTENDS TransportWorker

CONSTANTS read, write, accept

MCTimeout == [o \in Op |-> IF o = accept THEN Infinity ELSE IF o = read THEN 3 ELSE 1]
MCWhole == [o \in Op |-> IF o = accept THEN Infinity ELSE 2]
MCTruncated == [o \in Op |-> 7]
MCFd == [o \in Op |-> IF o = accept THEN 1 ELSE 2]
=============================================================================
