----------------------------- MODULE WorkerRing -----------------------------
(***************************************************************************)
(* The io_uring of a worker and the table of the operations that it tracks *)
(* (transport_worker.c), as the channels of the worker see them.           *)
(*                                                                         *)
(* An operation is a record with the fields fd, buf and event, which make  *)
(* up its 64-bit user_data, and whatever the channels add to tell their    *)
(* operations apart: the code only ever sees the user_data.                *)
(*                                                                         *)
(* SQEs reach the kernel with the next submit, at the latest in the next   *)
(* peek; nothing observable happens to an operation before.                *)
(***************************************************************************)
EXTENDS Integers, Sequences

CONSTANTS
  PeekCount    \* cqe_peek_count: the most completions handled in one turn

ASSUME PeekAssumption == PeekCount \in Nat \ {0}

VARIABLES
  events,      \* keys of worker->events: the user_data of tracked operations
  inflight,    \* operations the kernel has
  cancelled,   \* those of them it was asked to cancel
  cq,          \* the completion queue
  batch        \* completions of the current turn not yet handled

ringVars == <<events, inflight, cancelled, cq, batch>>

Data(op) == [fd |-> op.fd, buf |-> op.buf, event |-> op.event]

\* The operations that the isolate has not been told the end of.
Outstanding == inflight \cup {cq[i].op : i \in 1..Len(cq)}

RingInit == events = {} /\ inflight = {} /\ cancelled = {} /\ cq = <<>> /\ batch = 0

\* Mutant: nothing is removed.
RemoveEventNever(data) == IF data \in events THEN events ELSE events \ {data}

\* transport_worker_remove_event, as the table it leaves.
RemoveEvent(data) == events \ {data}

\* transport_worker_read, _write, _receive_message, _send_message, _connect
\* and _accept: an SQE and an entry in the event table, which was known, for
\* each operation.  Connects and accepts have no buffer: their bits are 0.
Submit(ops, known) ==
  /\ inflight' = inflight \cup ops
  /\ events' = known \cup {Data(op) : op \in ops}

\* Cancels every operation whose user_data is in E, and forgets the entries.
CancelEvents(E, known) ==
  /\ events' = known \ E
  /\ cancelled' = cancelled \cup {op \in inflight : Data(op) \in E}

\* transport_worker_cancel_by_fd
CancelByFd(fd, known) == CancelEvents({e \in known : e.fd = fd}, known)

\* transport_worker_check_event_timeouts, from the periodic timer: any of the
\* tracked operations may have exceeded its timeout, accepts have none.
CheckTimeouts ==
  /\ batch = 0
  /\ \E E \in (SUBSET {e \in events : e.event # "accept"}) \ {{}} : CancelEvents(E, events)
  /\ UNCHANGED <<inflight, cq, batch>>

\* The kernel completes an operation, cancelled or not, in any order.
KernelComplete(op, res) ==
  /\ cq' = Append(cq, [op |-> op, res |-> res])
  /\ inflight' = inflight \ {op}
  /\ cancelled' = cancelled \ {op}
  /\ UNCHANGED <<events, batch>>

\* transport_worker_peek: the completions of this turn.
PeekBatch ==
  /\ batch = 0
  /\ cq # <<>>
  /\ batch' = IF Len(cq) < PeekCount THEN Len(cq) ELSE PeekCount
  /\ UNCHANGED <<events, inflight, cancelled, cq>>

\* One round of the loop over the batch consumes a completion.
TakeCqe ==
  /\ batch > 0
  /\ batch' = batch - 1
  /\ cq' = Tail(cq)

RingTypeOK == cancelled \subseteq inflight /\ batch \in 0..Len(cq)
=============================================================================
