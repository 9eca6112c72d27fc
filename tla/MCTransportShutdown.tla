------------------------ MODULE MCTransportShutdown ------------------------
(* TransportShutdown for TLC: one worker with a client and a server, and    *)
(* another with a file; and one worker with a client or a server only.      *)
EXTENDS TransportShutdown

CONSTANTS w1, w2

ThreeHosts == <<w1, w1, w2>>
ThreeKinds == <<2, 3, 1>>
OneHost == <<w1>>
OnlyClient == <<2>>
OnlyServer == <<3>>
=============================================================================
