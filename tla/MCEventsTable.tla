---------------------------- MODULE MCEventsTable ----------------------------
(* EventsTable for TLC.  The keys 1 to 4 come and go: 1 and 2 have the same *)
(* low bits (two connects), 3 and 4 meet them in tables of 11.  Four others *)
(* stand, so that the table of 11 buckets is moved in several steps.        *)
EXTENDS EventsTable

MCHash == [k \in Key |-> CASE k <= 2 -> 12 [] k = 3 -> 1 [] k = 4 -> 23 [] OTHER -> k]
MCFd == [k \in Key |-> IF k > 4 THEN 3 ELSE IF k \in {1, 4} THEN 1 ELSE 2]
MCPrimes == <<3, 11, 23>>
MCStanding == <<5, 6, 7, 8>>
=============================================================================
