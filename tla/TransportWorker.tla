--------------------------- MODULE TransportWorker ---------------------------
(***************************************************************************)
(* The native worker as a resource (transport_worker.c): what it allocates *)
(* in which order and what transport_worker_destroy gives back, the        *)
(* capacity of its submission queue, and its clock, which decides when an  *)
(* operation has timed out.  What the channels do with completions is in   *)
(* the modules over WorkerRing; the table of the entries is EventsTable.   *)
(*                                                                         *)
(* Time is counted in ticks of 1/TicksPerSecond.  An entry does not hold   *)
(* the time of its submission but what the code computes from it, the      *)
(* difference of time(NULL) now and then, so that time may go on for ever. *)
(* time(NULL) is the clock of the system, which somebody may set.          *)
(***************************************************************************)
EXTENDS Integers, Sequences, FiniteSets

CONSTANTS
  Op,              \* operations that can be under way at once
  Timeout,         \* Op -> the Duration of its configuration in ticks, or Infinity
  FdOf,            \* Op -> descriptor
  BuffersCount,
  RingSizes,       \* configurations of the ring: entries of its submission queue
  TicksPerSecond,
  Modulus,         \* the values of uint64_t: 2^64
  MaxBack,         \* bound: seconds by which the clock is set back at once
  MaxForward,      \* bound: seconds by which it is set forward at once
  MaxSets          \* bound: how often it is set

Infinity == -1   \* TRANSPORT_TIMEOUT_INFINITY

\* Duration.inSeconds of the timeout, which drops what is not a whole second.
InSeconds(o) == IF Timeout[o] = Infinity THEN Infinity ELSE Timeout[o] \div TicksPerSecond

\* Where a difference of seconds is large enough not to be told from a larger one.
Ceiling(o) == IF Timeout[o] = Infinity THEN 0 ELSE InSeconds(o) + MaxSets * MaxBack + 1

\* Where an age is: the ticks of the timeout and more.
Late(o) == IF Timeout[o] = Infinity THEN 0 ELSE (InSeconds(o) + 1) * TicksPerSecond

ASSUME TimeAssumption ==
  /\ Timeout \in [Op -> Nat \cup {Infinity}]
  /\ TicksPerSecond \in Nat \ {0} /\ MaxBack \in Nat /\ MaxForward \in Nat /\ MaxSets \in Nat
  /\ Modulus \in Nat /\ \A o \in Op : Ceiling(o) < Modulus
ASSUME SizeAssumption == BuffersCount \in Nat \ {0, 1} /\ RingSizes \subseteq Nat \ {0} /\ IsFiniteSet(Op)

VARIABLES
  stage,    \* "new", "running", "failed", "destroyed", or "undefined" (behaviour)
  owned,    \* what was allocated, and set up, and not freed
  ring,     \* entries of the submission queue
  sq,       \* entries in use
  stuck,    \* the isolate is in the loop of transport_provide_sqe for ever
  op,       \* Op -> "idle", "queued" (in the submission queue), "kernel" or "done"
  entries,  \* worker->events, for the operations that have an entry: seconds is
            \* time(NULL) - timestamp, age the ticks that have really passed
            \* and forward those by which the clock was set forward meanwhile
  timer,    \* TransportTimeoutChecker: "none", "runs" or "stopped"
  phase,    \* ticks of the current second of time(NULL)
  sets      \* how often the clock was set

ringVars == <<sq, stuck, op>>
clockVars == <<timer, phase, sets>>
vars == <<stage, owned, ring, ringVars, entries, clockVars>>

Tracked == DOMAIN entries

\* The entries without those of E.
Without(E) == [o \in Tracked \ E |-> entries[o]]

-----------------------------------------------------------------------------
(* Creation and destruction.                                                *)

One(name) == <<name, 0>>

\* The parts of a worker in the order they are made: "inet" and "unix" are the
\* arrays of message headers, three parts belong to each buffer, "queue" is
\* the mapped ring and "registered" the pinned buffers.
Parts ==
  <<One("cqes"), One("buffers"), One("events"), One("pool"), One("inet"), One("unix")>>
  \o [i \in 1..3 * BuffersCount |-> <<<<"iov", "inetName", "unixName">>[((i - 1) % 3) + 1], (i - 1) \div 3>>]
  \o <<One("ring"), One("queue"), One("registered")>>

AllParts == {Parts[i] : i \in DOMAIN Parts}

MadeBefore(n) == {Parts[i] : i \in 1..n - 1}

\* transport_worker_initialize up to the first part that cannot be made, n.
\* The array of completions is not checked; the table and the stack of
\* buffers are written to before they are checked.
Initialize(n) ==
  /\ stage = "new"
  /\ IF n > Len(Parts) THEN owned' = AllParts /\ stage' = "running"
     ELSE IF Parts[n] = One("cqes") THEN owned' = AllParts \ {Parts[n]} /\ stage' = "running"
     ELSE /\ owned' = MadeBefore(n)
          /\ stage' = IF Parts[n] \in {One("events"), One("pool")} THEN "undefined" ELSE "failed"
  /\ UNCHANGED <<ring, ringVars, entries, clockVars>>

\* Mutant: the array of completions is kept.
FreedKeepingCqes(parts) == parts \cap {One("cqes")}

\* What transport_worker_destroy leaves of the parts: it leaves the ring, frees
\* what belongs to each buffer, the stack, the table, the arrays and the ring.
Freed(parts) ==
  parts \ (   {One(name) : name \in {"queue", "registered"}}
         \cup {<<name, buffer>> : name \in {"iov", "inetName", "unixName"}, buffer \in 0..BuffersCount - 1}
         \cup {One(name) : name \in {"pool", "events", "cqes", "buffers", "inet", "unix", "ring"}})

\* What it reads: the ring to leave, the arrays and all their elements.
Read == AllParts \ {One("cqes"), One("registered")}

\* TransportWorker.initialize starts the timer and then the loop; the closer of the
\* worker stops it before it closes the channels.
StartTimer ==
  /\ stage = "running" /\ timer = "none"
  /\ timer' = "runs"
  /\ UNCHANGED <<stage, owned, ring, ringVars, entries, phase, sets>>

StopTimer ==
  /\ timer = "runs" /\ ~stuck
  /\ timer' = "stopped"
  /\ UNCHANGED <<stage, owned, ring, ringVars, entries, phase, sets>>

\* transport_worker_destroy, at the end of a worker or, by transport.dart,
\* after any failure of initialize.
Destroy ==
  /\ stage = "failed" \/ (stage = "running" /\ timer = "stopped" /\ ~stuck)
  /\ stage' = IF Read \subseteq owned THEN "destroyed" ELSE "undefined"
  /\ owned' = IF Read \subseteq owned THEN Freed(owned) ELSE owned
  /\ sq' = 0 /\ op' = [o \in Op |-> "idle"] /\ entries' = Without(Op)
  /\ UNCHANGED <<ring, stuck, clockVars>>

-----------------------------------------------------------------------------
(* The submission queue.                                                    *)

\* The isolate of the worker is initialised.
Working == stage = "running" /\ timer # "none" /\ ~stuck

\* transport_provide_sqe for n entries: when the queue is full it waits for a
\* completion, which it leaves where it is, and tries again; nothing submits.
ProvideSqe(n) ==
  /\ stuck' = (sq + n > ring)
  /\ sq' = IF sq + n > ring THEN ring ELSE sq + n

\* transport_worker_read, _write, _send_message, _receive_message, _connect
\* and _accept.
Submit(o) ==
  /\ Working
  /\ op[o] = "idle"
  /\ ProvideSqe(1)
  /\ IF sq = ring THEN UNCHANGED <<op, entries>>
     ELSE /\ op' = [op EXCEPT ![o] = "queued"]
          /\ entries' = [p \in Tracked \cup {o} |-> IF p = o THEN [seconds |-> 0, age |-> 0, forward |-> 0] ELSE entries[p]]
  /\ UNCHANGED <<stage, owned, ring, clockVars>>

Flushed == [o \in Op |-> IF op[o] = "queued" THEN "kernel" ELSE op[o]]

\* Mutant: what cancels is left to the next turn.
CancelLater(E) ==
  /\ ProvideSqe(Cardinality(E))
  /\ entries' = Without(E)
  /\ UNCHANGED op

\* Mutant: the entries are not deleted.
CancelKeeping(E) ==
  /\ ProvideSqe(Cardinality(E))
  /\ op' = Flushed
  /\ UNCHANGED entries

\* The loops of cancel_by_fd and the timeout check: an SQE that cancels for
\* each entry, then the deletions and a submit.
Cancel(E) ==
  IF sq + Cardinality(E) > ring
  THEN ProvideSqe(Cardinality(E)) /\ UNCHANGED <<entries, op>>
  ELSE sq' = 0 /\ op' = Flushed /\ entries' = Without(E) /\ UNCHANGED stuck

CancelByFd(fd) ==
  /\ Working
  /\ Cancel({o \in Tracked : FdOf[o] = fd})
  /\ UNCHANGED <<stage, owned, ring, clockVars>>

\* transport_worker_peek: submits, and writes to the array of completions.
Peek ==
  /\ Working
  /\ sq' = 0
  /\ op' = Flushed
  /\ stage' = IF One("cqes") \in owned THEN stage ELSE "undefined"
  /\ UNCHANGED <<owned, ring, stuck, entries, clockVars>>

\* The kernel completes an operation.
KernelComplete(o) ==
  /\ stage = "running"
  /\ op[o] = "kernel"
  /\ op' = [op EXCEPT ![o] = "done"]
  /\ UNCHANGED <<stage, owned, ring, sq, stuck, entries, clockVars>>

\* transport_worker_remove_event for a completion of the batch.
RemoveEvent(o) ==
  /\ Working
  /\ op[o] = "done"
  /\ op' = [op EXCEPT ![o] = "idle"]
  /\ entries' = Without({o})
  /\ UNCHANGED <<stage, owned, ring, sq, stuck, clockVars>>

-----------------------------------------------------------------------------
(* The clock.                                                               *)

\* time_t minus uint64_t.
Elapsed(o) == entries[o].seconds % Modulus

\* Mutant: an operation is due in the second its timeout ends.
DueAtOnce(o) == InSeconds(o) # Infinity /\ Elapsed(o) >= InSeconds(o)

Due(o) == InSeconds(o) # Infinity /\ Elapsed(o) > InSeconds(o)

\* transport_worker_check_event_timeouts, called by the periodic timer.
CheckEventTimeouts ==
  /\ Working /\ timer = "runs"
  /\ Cancel({o \in Tracked : Due(o)})
  /\ UNCHANGED <<stage, owned, ring, clockVars>>

AtMost(n, max) == IF n < max THEN n ELSE max

\* The clock shows ticks more than before, time of them has passed.
Clock(ticks, time) ==
  LET carry == (phase + ticks) \div TicksPerSecond IN
  /\ stage = "running"
  /\ phase' = (phase + ticks) % TicksPerSecond
  /\ entries' = [o \in Tracked |->
       IF Timeout[o] = Infinity THEN entries[o]
       ELSE [seconds |-> AtMost(entries[o].seconds + carry, Ceiling(o)),
             age |-> AtMost(entries[o].age + time, Late(o)),
             forward |-> IF ticks > time THEN entries[o].forward + ticks ELSE entries[o].forward]]
  /\ UNCHANGED <<stage, owned, ring, ringVars, timer>>

Tick == Clock(1, 1) /\ UNCHANGED sets

\* The clock of the system is set back or forward.
SetClock ==
  /\ sets < MaxSets
  /\ sets' = sets + 1
  /\ \E ticks \in (-MaxBack * TicksPerSecond..MaxForward * TicksPerSecond) \ {0} : Clock(ticks, 0)

Init ==
  /\ stage = "new" /\ owned = {}
  /\ ring \in RingSizes /\ sq = 0 /\ stuck = FALSE
  /\ op = [o \in Op |-> "idle"] /\ entries = [o \in {} |-> 0]
  /\ timer = "none" /\ phase \in 0..TicksPerSecond - 1 /\ sets = 0

Next ==
  \/ \E n \in 1..Len(Parts) + 1 : Initialize(n)
  \/ StartTimer \/ StopTimer
  \/ Destroy
  \/ \E o \in Op : Submit(o) \/ KernelComplete(o) \/ RemoveEvent(o)
  \/ \E fd \in {FdOf[o] : o \in Op} : CancelByFd(fd)
  \/ Peek
  \/ CheckEventTimeouts
  \/ Tick
  \/ SetClock

\* Time passes, and the periodic timer calls the check again and again until it is
\* stopped.
Spec == Init /\ [][Next]_vars /\ WF_vars(Tick) /\ WF_vars(CheckEventTimeouts)

-----------------------------------------------------------------------------
\* The isolate is never caught in transport_provide_sqe if the queue has room
\* for every operation and for the cancellation of every operation at once:
\* each submit empties it, and between two submits an operation is submitted
\* once and cancelled once.
StuckOnlyIfSmall == stuck => ring < 2 * Cardinality(Op)

\* A worker that was initialised gives everything back, and one whose buffers
\* could not be registered does, too; a worker without its array of
\* completions never gets as far as a turn, and other failures end in reads
\* of what was not made (transport.dart destroys after any of them).
DestroyExact ==
  /\ stage = "destroyed" => owned = {}
  /\ stage = "undefined" => One("cqes") \notin owned \/ One("queue") \notin owned

\* No operation is cancelled by the check before the whole seconds of its timeout have
\* passed, counting what the clock was set forward, unless the clock shows a time
\* before its submission.
NeverEarly ==
  [][CheckEventTimeouts =>
       \A o \in Tracked \ Tracked' :
         \/ entries[o].seconds < 0
         \/ entries[o].age + entries[o].forward > InSeconds(o) * TicksPerSecond]_vars

\* What a user of a timeout expects: it has really passed.  A clock that is set
\* breaks it, forward, or back by the unsigned difference, and so does a timeout that
\* is not a number of whole seconds.
NeverEarlyAtAll ==
  [][CheckEventTimeouts => \A o \in Tracked \ Tracked' : entries[o].age >= Timeout[o]]_vars

\* An operation with a timeout does not stay tracked: it completes, is
\* cancelled, or times out, as long as the worker runs and its timer does.
TimeoutsExpire ==
  \A o \in Op :
    (o \in Tracked /\ Timeout[o] # Infinity)
      ~> (o \notin Tracked \/ stuck \/ stage # "running" \/ timer = "stopped")

\* The same while the closer waits for channels, whose operations no timeout ends
\* any more.
TimeoutsAlwaysExpire ==
  \A o \in Op :
    (o \in Tracked /\ Timeout[o] # Infinity) ~> (o \notin Tracked \/ stuck \/ stage # "running")
=============================================================================
