--------------------------- MODULE TransportFile ---------------------------
(***************************************************************************)
(* One open file of a worker (file/file.dart, file/provider.dart): reads   *)
(* and writes of one or several blocks, whose operations are chained with  *)
(* IOSQE_IO_LINK, the callbacks of writeMany, load() and close().          *)
(*                                                                         *)
(* The content of the file does not change.  The inbound stream is used    *)
(* either by the application or by one load(), which has it to itself.     *)
(***************************************************************************)
EXTENDS WorkerRing, FiniteSets

CONSTANTS
  Task, BuffersCount, MaxWant, MaxCalls,   \* see TransportBuffers
  Loader,      \* the task that makes the requests of load()
  Block,       \* buffer_size
  Sizes,       \* BOUND: sizes of the file
  Offsets,     \* BOUND: where load() begins
  None

\* transport.dart passes max(buffersCount, 2) to the native worker.
ASSUME PoolAssumption ==
  /\ BuffersCount \in Nat /\ BuffersCount >= 2
  /\ MaxWant \in Nat \ {0} /\ MaxCalls \in Nat

\* What a task asks of the file: count blocks, by readSingle and writeSingle or
\* by readMany and writeMany.
RequestType == [kind : {"read", "write"}, count : 1..MaxWant, single : BOOLEAN]

ASSUME FileAssumption ==
  /\ Loader \in Task /\ None \notin RequestType
  /\ Block \in Nat /\ Block >= 2
  /\ Sizes \subseteq Nat /\ Offsets \subseteq Nat

VARIABLES
  ids, finalizers, ready, got, want, calls,   \* TransportBuffers
  req,         \* task -> its request
  payloads,    \* the application's payloads: task and buffer
  doneCounter, errorCounter,   \* task -> the counters of its writeMany
  reports,     \* task -> how its callbacks were called
  severed,     \* tasks whose chain of operations the kernel has severed
  inbound,     \* events of the inbound stream that are not delivered yet
  listener,    \* who listens to it: "application", "load", or "cancelled"
  size, start, \* stat.size, the offset of load()
  load,        \* load(): "none", "reading", "complete", "failed"
  loaded,      \* the positions of the bytes that load() has collected
  blocksCount, counter,        \* the local variables of _loadFile
  next,        \* blocks that the running listener is about to ask for
  pending, active, closing, closer, closePc   \* as in TransportClient

Fd == 1
Failed == -1
Canceled == -2
Lesser(a, b) == IF a < b THEN a ELSE b

bufferVars == <<ids, finalizers, ready, got, want, calls>>
taskVars == <<req, payloads>>
writeVars == <<doneCounter, errorCounter, reports>>
loadVars == <<load, loaded, blocksCount, counter, next>>
streamVars == <<inbound, listener>>
closeVars == <<active, closing, closer, closePc>>
vars == <<bufferVars, taskVars, writeVars, loadVars, streamVars, closeVars, ringVars,
          size, start, pending, severed>>

B == INSTANCE TransportBuffers
Buffer == B!Buffer

Init ==
  /\ B!Init
  /\ req = [t \in Task |-> None]
  /\ payloads = {}
  /\ doneCounter = [t \in Task |-> 0] /\ errorCounter = [t \in Task |-> 0]
  /\ reports = [t \in Task |-> <<>>]
  /\ severed = {}
  /\ inbound = <<>>
  /\ \/ listener = "load" /\ size \in Sizes /\ start \in Offsets
     \/ listener = "application" /\ size = 0 /\ start = 0    \* of no interest
  /\ load = "none" /\ loaded = <<>> /\ blocksCount = 0 /\ counter = 0 /\ next = 0
  /\ pending = 0
  /\ active = TRUE /\ closing = FALSE /\ closer = FALSE /\ closePc = "none"
  /\ RingInit

-----------------------------------------------------------------------------
(* The kernel.                                                               *)

\* An operation waits for those that it is linked behind.
Startable(op) == \A p \in inflight : p.task = op.task /\ p.nth < op.nth => ~p.link

\* The bytes of the file in the block at a position.
BytesAt(pos) == IF pos >= size THEN 0 ELSE Lesser(Block, size - pos)

Results(op) ==
  IF op.task \in severed /\ op.nth > 1 THEN {Canceled}
  ELSE {Failed} \cup (IF op \in cancelled THEN {Canceled} ELSE {})
       \cup (IF op.task = Loader THEN {BytesAt(op.pos)} ELSE {1, Block})

\* A linked operation that fails, or reads or writes less than a block,
\* severs its chain: those behind it are cancelled.
Complete(op) ==
  /\ Startable(op)
  /\ \E res \in Results(op) :
       /\ KernelComplete(op, res)
       /\ severed' = IF op.link /\ res # Block THEN severed \cup {op.task} ELSE severed
  /\ UNCHANGED <<bufferVars, taskVars, writeVars, loadVars, streamVars, closeVars, size, start, pending>>

-----------------------------------------------------------------------------
(* Requests.                                                                 *)

\* Mutant: no operation is linked to the one behind it.
LinkedNever(nth, n) == FALSE
Linked(nth, n) == nth < n

\* The place of a buffer in the array: any order would do.
Nth(t, b) == Cardinality({c \in got'[t] : c <= b})

\* Mutant: the offset does not move with the blocks of one request.
PositionFirst(nth) == start + Len(loaded)
Position(nth) == start + Len(loaded) + (nth - 1) * Block

\* Mutant: the operations of one request are counted as one.
CountOne(n) == pending' = pending + (IF n > 0 THEN 1 ELSE 0)
Count(n) == pending' = pending + n

\* load() is over: its completer is completed, and the subscription cancelled
\* before another event is delivered.
EndLoad(outcome) == load' = outcome /\ listener' = "cancelled" /\ inbound' = <<>>

\* The part of readSingle, readMany, writeSingle and writeMany after the
\* allocation.  All writes have both callbacks; TransportClosedException goes
\* to onError, or ends load().
Start(t, r) ==
  IF closing
    THEN /\ IF t = Loader
              THEN EndLoad("failed") /\ UNCHANGED reports
              ELSE /\ reports' = [reports EXCEPT ![t] = IF r.kind = "write" THEN Append(@, "error") ELSE @]
                   /\ UNCHANGED <<load, streamVars>>
         /\ UNCHANGED <<inflight, events, pending, severed>>
    ELSE /\ Submit({[fd |-> Fd, buf |-> b, event |-> r.kind, task |-> t, nth |-> Nth(t, b),
                     link |-> Linked(Nth(t, b), r.count), pos |-> Position(Nth(t, b))]
                      : b \in got'[t]}, events)
         /\ Count(r.count)
         /\ severed' = severed \ {t}
         /\ UNCHANGED <<reports, load, streamVars>>
NotStarted == UNCHANGED <<inflight, events, pending, severed, reports, load, streamVars>>

\* get() ?? await allocate(), or await allocateArray(n), and what follows if
\* there is no await.
Allocate(t, r) ==
  /\ B!Request(t, r.count)
  /\ IF r.single THEN UNCHANGED ready ELSE B!Waiting(t)'
  /\ req' = [req EXCEPT ![t] = r]
  /\ IF B!Waiting(t)' THEN NotStarted ELSE Start(t, r)
  /\ UNCHANGED <<payloads, doneCounter, errorCounter, closeVars, size, start, cancelled, cq, batch>>

\* TransportFile.read, writeSingle and writeMany.
\* BOUND: a task of the application makes one request.
Request(t, kind, n, single) ==
  /\ next = 0 /\ t # Loader /\ req[t] = None
  /\ kind = "read" => listener = "application"
  /\ single => n = 1
  /\ kind = "read" /\ n = 1 => single
  /\ Allocate(t, [kind |-> kind, count |-> n, single |-> single])
  /\ UNCHANGED <<loaded, blocksCount, counter, next>>

\* load(n, start), once stat() has answered: it listens, and asks for the
\* first blocks.
Load(n) ==
  /\ next = 0 /\ listener = "load" /\ load = "none"
  /\ load' = "reading"
  /\ blocksCount' = n /\ next' = n
  /\ UNCHANGED <<bufferVars, taskVars, writeVars, streamVars, closeVars, ringVars,
                 size, start, pending, severed, loaded, counter>>

\* readSingle or readMany, in the turn that began with Load or Deliver.  A
\* load(1) uses readSingle throughout, any other readMany, also for one block.
LoadRequest ==
  /\ next > 0
  /\ Allocate(Loader, [kind |-> "read", count |-> next,
                       single |-> IF req[Loader] = None THEN next = 1 ELSE req[Loader].single])
  /\ next' = 0
  /\ UNCHANGED <<loaded, blocksCount, counter>>

\* The next microtask of an allocation.
Resume(t) ==
  /\ batch = 0 /\ next = 0
  /\ B!Resume(t)
  /\ IF Cardinality(got'[t]) = want'[t] THEN Start(t, req[t]) ELSE NotStarted
  /\ UNCHANGED <<taskVars, doneCounter, errorCounter, loaded, blocksCount, counter, next,
                 closeVars, size, start, cancelled, cq, batch>>

\* TransportPayload.release, by the application.
ReleasePayload(t, b) ==
  /\ next = 0 /\ <<t, b>> \in payloads
  /\ B!Release(t, b)
  /\ payloads' = payloads \ {<<t, b>>}
  /\ UNCHANGED <<req, writeVars, loadVars, streamVars, closeVars, ringVars, size, start, pending, severed>>

-----------------------------------------------------------------------------
(* The inbound stream: an event is delivered in a microtask of its own.      *)

\* Mutant: a rest of less than a block asks for no block.
NextBlocksZero(left) == Lesser(blocksCount, left \div Block)

\* The blocks of the next round.
NextBlocks(left) == Lesser(blocksCount, IF left \div Block > 1 THEN left \div Block ELSE 1)

\* The listener of load() and a payload of res bytes: collect them, end with
\* the file, or go on with a round of at most blocksCount blocks.
Collect(op, res) ==
  LET bytes == loaded \o [i \in 1..res |-> op.pos + i - 1]
      left == size - Len(bytes)
  IN
  /\ B!Release(op.task, op.buf)
  /\ loaded' = bytes
  /\ \/ /\ res = 0 \/ left = 0
        /\ EndLoad("complete")
        /\ UNCHANGED <<blocksCount, counter, next>>
     \/ /\ res # 0 /\ left # 0 /\ counter + 1 < blocksCount
        /\ counter' = counter + 1
        /\ inbound' = Tail(inbound)
        /\ UNCHANGED <<load, listener, blocksCount, next>>
     \/ /\ res # 0 /\ left # 0 /\ counter + 1 = blocksCount
        /\ counter' = 0
        /\ blocksCount' = NextBlocks(left)
        /\ next' = blocksCount'
        /\ inbound' = Tail(inbound)
        /\ UNCHANGED <<load, listener>>

\* The next event reaches its listener; load() takes a cancellation for the
\* end of the file.
Deliver ==
  LET op == Head(inbound).op
      res == Head(inbound).res
  IN
  /\ batch = 0 /\ next = 0 /\ inbound # <<>>
  /\ \/ /\ listener = "application"
        /\ payloads' = IF res < 0 THEN payloads ELSE payloads \cup {<<op.task, op.buf>>}
        /\ inbound' = Tail(inbound)
        /\ UNCHANGED <<bufferVars, loadVars, listener>>
     \/ /\ listener = "load" /\ res >= 0
        /\ Collect(op, res)
        /\ UNCHANGED payloads
     \/ /\ listener = "load" /\ res < 0
        /\ EndLoad(IF res = Canceled THEN "complete" ELSE "failed")
        /\ UNCHANGED <<bufferVars, payloads, loaded, blocksCount, counter, next>>
  /\ UNCHANGED <<req, writeVars, closeVars, ringVars, size, start, pending, severed>>

-----------------------------------------------------------------------------
(* Closing, as TransportClientChannel.close.                                 *)

fileVars == <<bufferVars, taskVars, writeVars, loadVars, streamVars, size, start, pending, severed>>

\* The stream's close is awaited if it has a listener, which has then seen
\* all its events.
Listened == listener = "application" \/ load = "reading"
Drain == closePc' = IF Listened THEN "drain" ELSE "closed"

Close(graceful) ==
  /\ next = 0 /\ ~closing
  /\ closing' = TRUE
  /\ IF pending > 0
       THEN /\ closePc' = IF graceful THEN "graceful" ELSE "forced"
            /\ active' = (active /\ graceful)
            /\ IF graceful THEN UNCHANGED <<events, cancelled>> ELSE CancelByFd(Fd, events)
       ELSE active' = FALSE /\ Drain /\ UNCHANGED <<events, cancelled>>
  /\ UNCHANGED <<fileVars, closer, inflight, cq, batch>>

\* The graceful timeout expires first: cancel what is left.
GracefulTimeout ==
  /\ batch = 0 /\ ready = <<>> /\ inbound = <<>> /\ next = 0
  /\ closePc = "graceful" /\ ~closer
  /\ closePc' = "forced" /\ active' = FALSE
  /\ CancelByFd(Fd, events)
  /\ UNCHANGED <<fileVars, closing, closer, inflight, cq, batch>>

\* _closer is completed: close() resumes.
ResumeClose ==
  /\ batch = 0 /\ next = 0
  /\ closePc \in {"graceful", "forced"} /\ closer
  /\ active' = FALSE /\ Drain
  /\ UNCHANGED <<fileVars, closing, closer, ringVars>>

\* The inbound stream is closed: the descriptor is closed and forgotten.
EndClose ==
  /\ batch = 0 /\ next = 0 /\ inbound = <<>>
  /\ closePc = "drain"
  /\ closePc' = "closed"
  /\ UNCHANGED <<fileVars, active, closing, closer, ringVars>>

-----------------------------------------------------------------------------
(* The event loop.                                                           *)

Peek ==
  /\ ready = <<>> /\ inbound = <<>> /\ next = 0
  /\ PeekBatch
  /\ UNCHANGED <<fileVars, closeVars>>

\* The callbacks of writeMany around those of its buffers.
Report(t, n, res) ==
  LET done == doneCounter[t] + (IF res >= 0 /\ errorCounter[t] = 0 THEN 1 ELSE 0)
      errors == errorCounter[t] + (IF res < 0 THEN 1 ELSE 0)
  IN
  /\ doneCounter' = [doneCounter EXCEPT ![t] = done]
  /\ errorCounter' = [errorCounter EXCEPT ![t] = errors]
  /\ reports' = [reports EXCEPT ![t] =
       CASE res >= 0 /\ errors = 0 /\ done = n -> Append(@, "done")
         [] res < 0 /\ errors + done = n -> Append(@, "error")
         [] OTHER -> @]

\* An event for the stream: after the cancellation nobody gets it.
Add(event) == inbound' = IF listener = "cancelled" THEN inbound ELSE Append(inbound, event)

\* Mutant: a failed read does not release its buffer.
NotifyActiveKeeping(op, res) ==
  IF op.event = "read"
    THEN Add([op |-> op, res |-> res]) /\ UNCHANGED <<bufferVars, writeVars>>
    ELSE B!Release(op.task, op.buf) /\ Report(op.task, req[op.task].count, res) /\ UNCHANGED inbound

\* notify on an active file: a read of no byte is a payload too.
NotifyActive(op, res) ==
  IF op.event = "read"
    THEN /\ IF res >= 0 THEN UNCHANGED bufferVars ELSE B!Release(op.task, op.buf)
         /\ Add([op |-> op, res |-> res])
         /\ UNCHANGED writeVars
    ELSE /\ B!Release(op.task, op.buf)
         /\ Report(op.task, req[op.task].count, res)
         /\ UNCHANGED inbound

\* The last completion of a closing file completes _closer.
Settle ==
  /\ closer' = (closer \/ (pending = 1 /\ closing))
  /\ active' = (active /\ ~(pending = 1 /\ closing))

\* One round of _handleCqes, and notify.
HandleCqe ==
  LET op == Head(cq).op
      res == Head(cq).res
  IN
  /\ TakeCqe
  /\ events' = RemoveEvent(Data(op))
  /\ IF closePc = "closed"
       THEN UNCHANGED <<bufferVars, writeVars, inbound, pending, active, closer>>
       ELSE /\ pending' = pending - 1
            /\ Settle
            /\ IF active THEN NotifyActive(op, res)
               ELSE B!Release(op.task, op.buf) /\ UNCHANGED <<writeVars, inbound>>
  /\ UNCHANGED <<taskVars, loadVars, listener, size, start, severed, closing, closePc, inflight, cancelled>>

-----------------------------------------------------------------------------
Next ==
  \/ \E t \in Task :
       \/ \E kind \in {"read", "write"}, n \in 1..MaxWant, single \in BOOLEAN :
            Request(t, kind, n, single)
       \/ Resume(t)
       \/ \E b \in Buffer : ReleasePayload(t, b)
  \/ \E n \in 1..MaxWant : Load(n)
  \/ LoadRequest
  \/ Deliver
  \/ \E graceful \in BOOLEAN : Close(graceful)
  \/ GracefulTimeout
  \/ ResumeClose
  \/ EndClose
  \/ \E op \in inflight : Complete(op)
  \/ Peek
  \/ HandleCqe

\* The isolate runs; the operations of a file end, whatever their result.
Fairness ==
  /\ WF_vars(\E t \in Task : Resume(t)) /\ WF_vars(LoadRequest) /\ WF_vars(Deliver)
  /\ WF_vars(Peek) /\ WF_vars(HandleCqe)
  /\ WF_vars(\E op \in inflight : Complete(op))
  /\ WF_vars(GracefulTimeout \/ ResumeClose \/ EndClose)

Spec == Init /\ [][Next]_vars /\ Fairness

-----------------------------------------------------------------------------
TypeOK ==
  /\ B!TypeOK
  /\ req \in [Task -> RequestType \cup {None}]
  /\ payloads \subseteq Task \X Buffer
  /\ doneCounter \in [Task -> 0..MaxWant] /\ errorCounter \in [Task -> 0..MaxWant]
  /\ reports \in [Task -> Seq({"done", "error"})]
  /\ severed \subseteq Task
  /\ listener \in {"application", "load", "cancelled"}
  /\ load \in {"none", "reading", "complete", "failed"}
  /\ loaded \in Seq(Nat)
  /\ blocksCount \in 0..MaxWant /\ counter \in 0..MaxWant /\ next \in 0..MaxWant
  /\ pending \in Nat
  /\ active \in BOOLEAN /\ closing \in BOOLEAN /\ closer \in BOOLEAN
  /\ closePc \in {"none", "graceful", "forced", "drain", "closed"}
  /\ RingTypeOK

\* The caller of a write of one or several blocks is told exactly once, when
\* the last block has completed: onDone if all of them succeeded, else
\* onError.  It takes the chain: after an error only errors come.
WritesReportedOnce ==
  \A t \in Task : req[t] # None /\ req[t].kind = "write" /\ ~B!Waiting(t) =>
    /\ Len(reports[t]) <= 1
    /\ (active \/ closePc = "graceful") /\ (\A op \in Outstanding : op.task # t) => Len(reports[t]) = 1
    /\ reports[t] = <<"done">> => doneCounter[t] = req[t].count /\ errorCounter[t] = 0

\* load() that completes has the bytes from its offset to the end of the
\* file, each once and in their order, in whatever rounds it read them.
LoadReturnsContent ==
  load = "complete" => loaded = [i \in 1..(IF start < size THEN size - start ELSE 0) |-> start + i - 1]

\* When load() is over and nothing is under way, its buffers are free again:
\* none is with an event that will never be delivered.  The one exception is a
\* file of whole blocks whose first round asks for more of them than it has.
Rest == Outstanding = {} /\ inbound = <<>> /\ ready = <<>> /\ next = 0
Overread == start = 0 /\ size % Block = 0 /\ req[Loader].count > size \div Block
LoadReleasesBuffers ==
  Rest /\ load \in {"complete", "failed"} /\ ~closing /\ ~Overread => got[Loader] = {}

\* load() ends unless the file is closed under it, also when it has to wait
\* for the buffer of somebody's write.
LoadEnds == load = "reading" ~> load # "reading" \/ closing

\* test/buffers.dart, "(file)": after load() the worker uses no buffer.
LoadLeavesNoBuffer ==
  Rest /\ load = "complete" /\ ~closing /\ (\A t \in Task \ {Loader} : want[t] = 0)
    => Len(ids) = BuffersCount

=============================================================================
