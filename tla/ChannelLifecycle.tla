-------------------------- MODULE ChannelLifecycle --------------------------
(***************************************************************************)
(* What close() promises of a channel (a client, a connection of a server, *)
(* a file): once it began nothing more is started, the descriptor stays    *)
(* open until every started operation was handed back, and it is closed    *)
(* once.  Several channels may take a step together, as when a server      *)
(* closes its connections.                                                 *)
(***************************************************************************)
EXTENDS Naturals

CONSTANT Channel

VARIABLES
  phase,        \* channel -> "new", "open", "closing" or "closed"
  outstanding   \* channel -> operations started and not handed back

Init ==
  /\ phase = [c \in Channel |-> "new"]
  /\ outstanding = [c \in Channel |-> 0]

Move(c, from, to) == phase[c] = from /\ phase'[c] = to

\* A channel may be opened with an operation already started: its connect.
Open(c) == Move(c, "new", "open") /\ outstanding'[c] \in {0, 1}

Start(c) == Move(c, "open", "open") /\ outstanding'[c] > outstanding[c]

\* An operation is handed back; its result may be a reason to close.
Finish(c) ==
  /\ outstanding[c] > 0
  /\ outstanding'[c] = outstanding[c] - 1
  /\ \/ phase'[c] = phase[c]
     \/ Move(c, "open", "closing")
     \/ Move(c, "open", "closed") /\ outstanding'[c] = 0

Close(c) == Move(c, "open", "closing") /\ outstanding'[c] = outstanding[c]

End(c) ==
  /\ Move(c, "open", "closed") \/ Move(c, "closing", "closed")
  /\ outstanding[c] = 0 /\ outstanding'[c] = 0

Rest(c) == phase'[c] = phase[c] /\ outstanding'[c] = outstanding[c]

Next ==
  /\ phase' \in [Channel -> {"new", "open", "closing", "closed"}]
  /\ outstanding' \in [Channel -> Nat]
  /\ \A c \in Channel : Open(c) \/ Start(c) \/ Finish(c) \/ Close(c) \/ End(c) \/ Rest(c)

Spec == Init /\ [][Next]_<<phase, outstanding>>
=============================================================================
