--------------------------- MODULE DatagramServer ---------------------------
(***************************************************************************)
(* A datagram server (server.dart, server/responder.dart): it receives     *)
(* datagrams into buffers of the worker and gives each to the application  *)
(* as a responder, through which the application answers.                  *)
(*                                                                         *)
(* The address of a datagram's sender is not in the responder.  It stays   *)
(* in the message header that the worker keeps for the buffer, and is      *)
(* copied from there into the headers of the answer's buffers when the     *)
(* answer is submitted.                                                    *)
(***************************************************************************)
EXTENDS WorkerRing, FiniteSets

CONSTANTS
  Task, BuffersCount, MaxWant, MaxCalls,   \* see TransportBuffers
  Sender,      \* the addresses that datagrams come from
  Patient,     \* the application keeps a responder until its answers are submitted
  None

\* transport.dart passes max(buffersCount, 2) to the native worker.
ASSUME PoolAssumption ==
  /\ BuffersCount \in Nat /\ BuffersCount >= 2
  /\ MaxWant \in Nat \ {0} /\ MaxCalls \in Nat

\* What a task asks of the server: a datagram, or its answer in count buffers
\* to a sender, whose address is read from the header of destination.
ReceiveType == [kind : {"receive"}, count : {1}]
SendType == [kind : {"send"}, count : 1..MaxWant,
             destination : 0..(BuffersCount - 1), to : Sender]
AnsweringType == [task : Task, count : 1..MaxWant, answer : SendType]

ASSUME DatagramAssumption ==
  /\ Patient \in BOOLEAN
  /\ None \notin Sender \cup Task \cup ReceiveType \cup SendType \cup AnsweringType

VARIABLES
  ids, finalizers, ready, got, want, calls,   \* TransportBuffers
  req,         \* task -> its request
  refused,     \* tasks told that the server is closed
  responders,  \* tasks whose received datagram is with the application
  sender,      \* task -> the sender of the datagram that it received
  address,     \* buffer -> msg_name of its header: a sender, or None for zeros
  answering,   \* the answer that the running handler is about to make
  pending, active, closing, closer,   \* _pending, _active, _closing, _closer done
  closePc      \* where the first call of close() is

Fd == 1                  \* the server's descriptor
Open == closePc # "closed"   \* and whether it is open and in the registry
Result == {"positive", "zero", "negative"}

bufferVars == <<ids, finalizers, ready, got, want, calls>>
taskVars == <<req, refused>>
responderVars == <<responders, sender, answering>>
closeVars == <<active, closing, closer, closePc>>
vars == <<bufferVars, taskVars, responderVars, closeVars, ringVars, address, pending>>

B == INSTANCE TransportBuffers
Buffer == B!Buffer

Init ==
  /\ B!Init
  /\ req = [t \in Task |-> None]
  /\ refused = {}
  /\ responders = {}
  /\ sender = [t \in Task |-> None]
  /\ address = [b \in Buffer |-> None]
  /\ answering = None
  /\ pending = 0
  /\ active = TRUE /\ closing = FALSE /\ closer = FALSE
  /\ closePc = "none"
  /\ RingInit

-----------------------------------------------------------------------------
(* The kernel, and the timer of the worker.                                  *)

\* A datagram arrives with the address of its sender, any other end of an
\* operation leaves the address as it was.
Complete(op) ==
  /\ \/ /\ op.event = "receive"
        /\ \E a \in Sender :
             /\ address' = [address EXCEPT ![op.buf] = a]
             /\ sender' = [sender EXCEPT ![op.task] = a]
        /\ KernelComplete(op, "positive")
     \/ /\ \E res \in Result :
             (op.event = "receive" => res # "positive") /\ KernelComplete(op, res)
        /\ UNCHANGED <<address, sender>>
  /\ UNCHANGED <<bufferVars, taskVars, responders, answering, closeVars, pending>>

CheckEventTimeouts ==
  /\ ready = <<>> /\ answering = None
  /\ CheckTimeouts
  /\ UNCHANGED <<bufferVars, taskVars, responderVars, closeVars, address, pending>>

-----------------------------------------------------------------------------
(* Receiving and answering.                                                  *)

\* Mutant: an answer is addressed by the header of its own buffer.
AddressesOwn(t, r) ==
  IF r.kind = "receive"
    THEN address' = [b \in Buffer |-> IF b \in got'[t] THEN None ELSE address[b]]
    ELSE UNCHANGED address

\* transport_worker_receive_message clears the address of the buffer that it
\* receives into, transport_worker_send_message copies the destination.
Addresses(t, r) ==
  address' = [b \in Buffer |->
                IF b \notin got'[t] THEN address[b]
                ELSE IF r.kind = "receive" THEN None ELSE address[r.destination]]

\* Mutant: respondMany counts itself and not its buffers.
CountOne(n) == pending' = pending + 1

\* _pending++, _pending += bytes.length
Count(n) == pending' = pending + n

\* The part of receive, respondSingle and respondMany after the allocation.
Start(t, r) ==
  IF closing
    THEN refused' = refused \cup {t} /\ UNCHANGED <<inflight, events, pending, address>>
    ELSE /\ Submit({[fd |-> Fd, buf |-> b, event |-> r.kind, task |-> t] : b \in got'[t]}, events)
         /\ Addresses(t, r)
         /\ Count(r.count)
         /\ UNCHANGED refused

\* get() ?? await allocate(), or await allocateArray(n), and what follows if
\* it needs no wait.
Allocate(t, n, r) ==
  /\ B!Request(t, n)
  /\ req' = [req EXCEPT ![t] = r]
  /\ IF ~B!Waiting(t)'
       THEN Start(t, r)
       ELSE UNCHANGED <<refused, inflight, events, pending, address>>

\* receive, by the application or by stream() after each datagram.
Receive(t) ==
  /\ answering = None
  /\ Allocate(t, 1, [kind |-> "receive", count |-> 1])
  /\ UNCHANGED ready
  /\ UNCHANGED <<responderVars, closeVars, cancelled, cq, batch>>

\* An answer that still waits for buffers will read the address of b.
Unsubmitted(b) ==
  \E t \in Task : /\ req[t] # None /\ req[t].kind = "send" /\ req[t].destination = b
                  /\ B!Waiting(t)

Answer(u, b, n) == [kind |-> "send", count |-> n, destination |-> b, to |-> sender[u]]

\* respondSingle, respondMany on a responder that was not released.
Respond(t, u, n) ==
  /\ answering = None
  /\ u \in responders
  /\ \E b \in got[u] : Allocate(t, n, Answer(u, b, n))
  /\ UNCHANGED <<responderVars, closeVars, cancelled, cq, batch>>

\* takeBytes, which releases the responder, and then an answer, in one turn of
\* the handler: two steps with nothing of the isolate between them.
TakeBytes(t, u, n) ==
  /\ answering = None
  /\ u \in responders /\ t # u
  /\ want[t] = 0 /\ calls[t] < MaxCalls
  /\ \E b \in got[u] :
       /\ Patient => ~Unsubmitted(b)
       /\ B!Release(u, b)
       /\ answering' = [task |-> t, count |-> n, answer |-> Answer(u, b, n)]
  /\ responders' = responders \ {u}
  /\ UNCHANGED <<taskVars, sender, closeVars, ringVars, address, pending>>

RespondTaken ==
  /\ answering # None
  /\ \E t \in Task :
       t = answering.task /\ Allocate(t, answering.count, answering.answer)
  /\ answering' = None
  /\ UNCHANGED <<responders, sender, closeVars, cancelled, cq, batch>>

\* release, by the application.
ReleaseResponder(u) ==
  /\ answering = None
  /\ u \in responders
  /\ \E b \in got[u] : (Patient => ~Unsubmitted(b)) /\ B!Release(u, b)
  /\ responders' = responders \ {u}
  /\ UNCHANGED <<taskVars, sender, answering, closeVars, ringVars, address, pending>>

\* The next microtask of an allocation.
Resume(t) ==
  /\ batch = 0 /\ answering = None
  /\ B!Resume(t)
  /\ IF Cardinality(got'[t]) = want'[t]
       THEN Start(t, req[t])
       ELSE UNCHANGED <<refused, inflight, events, pending, address>>
  /\ UNCHANGED <<req, responderVars, closeVars, cancelled, cq, batch>>

-----------------------------------------------------------------------------
(* Closing.                                                                  *)

\* close(): it first waits for its connections, of which it has none, so that
\* it goes on in a microtask.  A second call changes nothing.
Close(graceful) ==
  /\ answering = None
  /\ ~closing
  /\ closing' = TRUE
  /\ closePc' = IF graceful THEN "begun gracefully" ELSE "begun"
  /\ UNCHANGED <<bufferVars, taskVars, responderVars, active, closer, ringVars, address, pending>>

\* What is left to do when nothing is pending: inactive, the listener of the
\* inbound stream told, if there is one, the descriptor closed and forgotten.
End == active' = FALSE /\ closePc' \in {"drain", "closed"}

\* close() after its connections are closed.
ContinueClose ==
  /\ batch = 0 /\ answering = None
  /\ closePc \in {"begun", "begun gracefully"}
  /\ \/ pending = 0 /\ End /\ UNCHANGED <<events, cancelled>>
     \/ /\ pending > 0 /\ closePc = "begun gracefully"
        /\ closePc' = "graceful"
        /\ UNCHANGED <<active, events, cancelled>>
     \/ /\ pending > 0 /\ closePc = "begun"
        /\ closePc' = "forced" /\ active' = FALSE
        /\ CancelByFd(Fd, events)
  /\ UNCHANGED <<bufferVars, taskVars, responderVars, closing, closer, address, pending,
                 inflight, cq, batch>>

\* The graceful timeout expires first: cancel what is left.
GracefulTimeout ==
  /\ batch = 0 /\ ready = <<>> /\ answering = None
  /\ closePc = "graceful" /\ ~closer
  /\ closePc' = "forced" /\ active' = FALSE
  /\ CancelByFd(Fd, events)
  /\ UNCHANGED <<bufferVars, taskVars, responderVars, closing, closer, address, pending,
                 inflight, cq, batch>>

\* _closer is completed: close() resumes.
ResumeClose ==
  /\ batch = 0 /\ answering = None
  /\ closePc \in {"graceful", "forced"} /\ closer
  /\ End
  /\ UNCHANGED <<bufferVars, taskVars, responderVars, closing, closer, ringVars, address, pending>>

\* The listener has seen the end of the inbound stream.
EndClose ==
  /\ batch = 0 /\ answering = None
  /\ closePc = "drain"
  /\ closePc' = "closed"
  /\ UNCHANGED <<bufferVars, taskVars, responderVars, active, closing, closer, ringVars, address, pending>>

-----------------------------------------------------------------------------
(* The event loop.                                                           *)

Peek ==
  /\ ready = <<>> /\ answering = None
  /\ PeekBatch
  /\ UNCHANGED <<bufferVars, taskVars, responderVars, closeVars, address, pending>>

\* Mutant: a closing server that was not told to stop does not complete
\* _closer.
SettleInactive ==
  /\ closer' = (closer \/ (pending = 1 /\ closing /\ ~active))
  /\ active' = (active /\ ~(pending = 1 /\ closing))

\* The last completion of a closing server completes _closer and makes it
\* inactive.
Settle ==
  /\ closer' = (closer \/ (pending = 1 /\ closing))
  /\ active' = (active /\ ~(pending = 1 /\ closing))

\* notifyDatagram: a datagram becomes a responder; everything else, and
\* everything on an inactive server, releases the buffer.
NotifyDatagram(op, res) ==
  /\ pending' = pending - 1
  /\ IF active /\ op.event = "receive" /\ res = "positive"
       THEN responders' = responders \cup {op.task} /\ UNCHANGED bufferVars
       ELSE B!Release(op.task, op.buf) /\ UNCHANGED responders
  /\ Settle

\* One round of _handleCqes.
HandleCqe ==
  LET op == Head(cq).op IN
  /\ answering = None
  /\ TakeCqe
  /\ events' = RemoveEvent(Data(op))
  /\ IF Open
       THEN NotifyDatagram(op, Head(cq).res)
       ELSE UNCHANGED <<bufferVars, responders, active, closer, pending>>
  /\ UNCHANGED <<taskVars, sender, answering, closing, closePc, address, inflight, cancelled>>

-----------------------------------------------------------------------------
Next ==
  \/ \E t \in Task :
       \/ Receive(t)
       \/ Resume(t)
       \/ ReleaseResponder(t)
       \/ \E u \in Task, n \in 1..MaxWant : Respond(t, u, n) \/ TakeBytes(t, u, n)
  \/ RespondTaken
  \/ \E graceful \in BOOLEAN : Close(graceful)
  \/ ContinueClose
  \/ GracefulTimeout
  \/ ResumeClose
  \/ EndClose
  \/ \E op \in inflight : Complete(op)
  \/ CheckEventTimeouts
  \/ Peek
  \/ HandleCqe

\* The isolate runs, the kernel completes what it was asked to cancel.
Fairness ==
  /\ WF_vars(\E t \in Task : Resume(t)) /\ WF_vars(RespondTaken)
  /\ WF_vars(Peek) /\ WF_vars(HandleCqe)
  /\ WF_vars(\E op \in cancelled : Complete(op))
  /\ WF_vars(ContinueClose \/ GracefulTimeout \/ ResumeClose \/ EndClose)

Spec == Init /\ [][Next]_vars /\ Fairness

-----------------------------------------------------------------------------
TypeOK ==
  /\ B!TypeOK
  /\ req \in [Task -> ReceiveType \cup SendType \cup {None}]
  /\ refused \subseteq Task /\ responders \subseteq Task
  /\ sender \in [Task -> Sender \cup {None}]
  /\ address \in [Buffer -> Sender \cup {None}]
  /\ answering \in AnsweringType \cup {None}
  /\ pending \in Nat
  /\ active \in BOOLEAN /\ closing \in BOOLEAN /\ closer \in BOOLEAN
  /\ closePc \in {"none", "begun", "begun gracefully", "graceful", "forced", "drain", "closed"}
  /\ RingTypeOK

\* _pending is the number of the server's operations whose completion was not
\* handled, also while requests are refused and close() cancels the others.
PendingExact == pending = Cardinality(Outstanding)

\* The address of a datagram that the application holds stays that of its
\* sender: no other operation of the server clears or overwrites it.
ResponderKeepsSender == \A u \in responders : \A b \in got[u] : address[b] = sender[u]

\* 05-server.mdx, "Responds with a single message to the sender": the kernel
\* sends every answer to the sender of the datagram it answers.  It holds of
\* applications that answer and release in either order as long as the
\* responder is not released under a waiting answer; without Patient it fails.
AnswersReachSender ==
  /\ ResponderKeepsSender
  /\ \A op \in inflight : op.event = "send" => address[op.buf] = req[op.task].to

\* close() comes to an end, with the wait that comes before it looks at the
\* pending operations.
CloseEnds == closing ~> closePc = "closed"
=============================================================================
