------------------------------ MODULE UDPServer ------------------------------
(***************************************************************************)
(* The server behind the UDP adapters (class UDPServer): an acceptor       *)
(* thread reads datagrams into one shared buffer and offers copies of them *)
(* to a bounded queue, a processor thread takes them from it. stop() may   *)
(* be called by the container that started the server and, when reading    *)
(* fails, by the acceptor itself: it then waits for its own thread.        *)
(*                                                                         *)
(* An Error thrown by processDatagram, which kills the processor's task,   *)
(* and interrupts, which nobody sends to these threads, are left out.      *)
(***************************************************************************)
EXTENDS Naturals, Sequences

CONSTANTS
  Payloads,     \* what a datagram may hold
  NoPayload,
  QueueCapacity,
  MaxDatagrams  \* bound: datagrams the network delivers

ASSUME QueueCapacityAssumption == QueueCapacity \in Nat \ {0}
ASSUME PayloadAssumption == NoPayload \notin Payloads
ASSUME MaxDatagramsAssumption == MaxDatagrams \in Nat

Callers == {"container", "acceptor"}   \* who may call stop()

VARIABLES
  starter,    \* where the container's thread is in start()
  started,
  stopped,
  channel,
  shutDown,   \* the executors are shut down
  stopping,   \* where each caller is in stop()
  monitor,    \* who holds the server's monitor: a caller or "nobody"
  acceptor,   \* where the acceptor thread is
  buffer,     \* the array every datagram is received into
  queue,
  processor,  \* where the processor thread is
  taken,      \* the datagram it has taken
  arrived,    \* history: how many datagrams were received
  accepted,   \* history: what was received and put into the queue
  handled,    \* history: what was given to datagramProcessor
  handledAtStop  \* history: how much of it before stopped was set

startVars     == <<starter, started>>
stopVars      == <<stopped, channel, shutDown, stopping, monitor, handledAtStop>>
acceptorVars  == <<acceptor, buffer, arrived, accepted>>
processorVars == <<processor, taken, handled>>
vars == <<startVars, stopVars, acceptorVars, queue, processorVars>>

Init ==
  /\ starter = "new"
  /\ started = FALSE
  /\ stopped = FALSE
  /\ channel = "none"
  /\ shutDown = FALSE
  /\ stopping = [c \in Callers |-> "no"]
  /\ monitor = "nobody"
  /\ acceptor = "none"
  /\ buffer = NoPayload
  /\ queue = <<>>
  /\ processor = "none"
  /\ taken = NoPayload
  /\ arrived = 0
  /\ accepted = <<>>
  /\ handled = <<>>
  /\ handledAtStop = 0

-----------------------------------------------------------------------------
(* start(): a second call finds started set, and throws *)

BeginStart ==
  /\ starter = "new"
  /\ ~started
  /\ started' = TRUE
  /\ starter' = "bind"
  /\ UNCHANGED <<stopVars, acceptorVars, queue, processorVars>>

\* The port is bound, or start() throws and the server stays marked as started.
openAndBindChannel ==
  /\ starter = "bind"
  /\ \/ channel' = "open" /\ starter' = "accept"
     \/ starter' = "failed" /\ UNCHANGED channel
  /\ UNCHANGED <<started, stopped, shutDown, stopping, monitor, handledAtStop,
                 acceptorVars, queue, processorVars>>

ExecuteAcceptor ==
  /\ starter = "accept"
  /\ acceptor' = "check"
  /\ starter' = "process"
  /\ UNCHANGED <<started, stopVars, buffer, arrived, accepted, queue, processorVars>>

\* Rejected if the acceptor has failed and stopped the server meanwhile.
ExecuteProcessor ==
  /\ starter = "process"
  /\ IF shutDown THEN starter' = "failed" /\ UNCHANGED processor
     ELSE starter' = "up" /\ processor' = "check"
  /\ UNCHANGED <<started, stopVars, acceptorVars, queue, taken, handled>>

\* The adapter's destroy(), called for a server that did start.
CallStop ==
  /\ starter = "up"
  /\ stopping["container"] = "no"
  /\ stopping' = [stopping EXCEPT !["container"] = "enter"]
  /\ UNCHANGED <<startVars, stopped, channel, shutDown, monitor, handledAtStop,
                 acceptorVars, queue, processorVars>>

-----------------------------------------------------------------------------
(* stop(), synchronized *)

EnterStop(c) ==
  /\ stopping[c] = "enter"
  /\ monitor = "nobody"
  /\ IF stopped
     THEN /\ stopping' = [stopping EXCEPT ![c] = "done"]
          /\ UNCHANGED <<stopped, monitor, handledAtStop>>
     ELSE /\ stopping' = [stopping EXCEPT ![c] = "close"]
          /\ stopped' = TRUE
          /\ monitor' = c
          /\ handledAtStop' = Len(handled)
  /\ UNCHANGED <<startVars, channel, shutDown, acceptorVars, queue, processorVars>>

\* Mutant: the channel is left open.
CloseChannel_Not(c) ==
  /\ stopping[c] = "close"
  /\ stopping' = [stopping EXCEPT ![c] = "shutdown"]
  /\ UNCHANGED <<startVars, stopped, channel, shutDown, monitor, handledAtStop,
                 acceptorVars, queue, processorVars>>

CloseChannel(c) ==
  /\ stopping[c] = "close"
  /\ channel' = "closed"
  /\ stopping' = [stopping EXCEPT ![c] = "shutdown"]
  /\ UNCHANGED <<startVars, stopped, shutDown, monitor, handledAtStop,
                 acceptorVars, queue, processorVars>>

\* shutdown() refuses new tasks; it interrupts no running one.
ShutDownExecutors(c) ==
  /\ stopping[c] = "shutdown"
  /\ shutDown' = TRUE
  /\ stopping' = [stopping EXCEPT ![c] = "await"]
  /\ UNCHANGED <<startVars, stopped, channel, monitor, handledAtStop,
                 acceptorVars, queue, processorVars>>

\* Mutant: without the limit of three seconds.
AwaitAcceptor_Forever(c) ==
  /\ stopping[c] = "await"
  /\ acceptor = "ended"
  /\ stopping' = [stopping EXCEPT ![c] = "done"]
  /\ monitor' = "nobody"
  /\ UNCHANGED <<startVars, stopped, channel, shutDown, handledAtStop,
                 acceptorVars, queue, processorVars>>

\* The acceptor has terminated, or three seconds have passed.
AwaitAcceptor(c) ==
  /\ stopping[c] = "await"
  /\ stopping' = [stopping EXCEPT ![c] = "done"]
  /\ monitor' = "nobody"
  /\ UNCHANGED <<startVars, stopped, channel, shutDown, handledAtStop,
                 acceptorVars, queue, processorVars>>

-----------------------------------------------------------------------------
(* The acceptor thread *)

AcceptorChecks ==
  /\ acceptor = "check"
  /\ acceptor' = IF stopped THEN "ended" ELSE "receive"
  /\ UNCHANGED <<startVars, stopVars, buffer, arrived, accepted, queue, processorVars>>

Receive ==
  /\ acceptor = "receive"
  /\ channel = "open"
  /\ arrived < MaxDatagrams
  /\ arrived' = arrived + 1
  /\ \E payload \in Payloads : buffer' = payload
  /\ acceptor' = "offer"
  /\ UNCHANGED <<startVars, stopVars, accepted, queue, processorVars>>

\* A datagram that finds the queue full is discarded.
OfferDatagram ==
  /\ acceptor = "offer"
  /\ IF Len(queue) < QueueCapacity
     THEN /\ queue' = Append(queue, buffer)
          /\ accepted' = Append(accepted, buffer)
     ELSE UNCHANGED <<queue, accepted>>
  /\ acceptor' = "check"
  /\ UNCHANGED <<startVars, stopVars, buffer, arrived, processorVars>>

\* The channel is closed, also under a blocked receive().
ReceiveFromClosed ==
  /\ acceptor = "receive"
  /\ channel = "closed"
  /\ acceptor' = "catch"
  /\ UNCHANGED <<startVars, stopVars, buffer, arrived, accepted, queue, processorVars>>

\* Any other IOException.
ReceiveFails ==
  /\ acceptor = "receive"
  /\ channel = "open"
  /\ acceptor' = "catch"
  /\ UNCHANGED <<startVars, stopVars, buffer, arrived, accepted, queue, processorVars>>

CatchIOException ==
  /\ acceptor = "catch"
  /\ IF stopped
     THEN acceptor' = "ended" /\ UNCHANGED stopping
     ELSE acceptor' = "stop" /\ stopping' = [stopping EXCEPT !["acceptor"] = "enter"]
  /\ UNCHANGED <<startVars, stopped, channel, shutDown, monitor, handledAtStop,
                 buffer, arrived, accepted, queue, processorVars>>

AcceptorEnds ==
  /\ acceptor = "stop"
  /\ stopping["acceptor"] = "done"
  /\ acceptor' = "ended"
  /\ UNCHANGED <<startVars, stopVars, buffer, arrived, accepted, queue, processorVars>>

-----------------------------------------------------------------------------
(* The processor thread *)

\* Mutant: the loop does not look at stopped.
ProcessorChecks_Not ==
  /\ processor = "check"
  /\ processor' = "take"
  /\ UNCHANGED <<startVars, stopVars, acceptorVars, queue, taken, handled>>

ProcessorChecks ==
  /\ processor = "check"
  /\ processor' = IF stopped THEN "ended" ELSE "take"
  /\ UNCHANGED <<startVars, stopVars, acceptorVars, queue, taken, handled>>

TakeDatagram ==
  /\ processor = "take"
  /\ queue # <<>>
  /\ taken' = Head(queue)
  /\ queue' = Tail(queue)
  /\ processor' = "process"
  /\ UNCHANGED <<startVars, stopVars, acceptorVars, handled>>

\* Mutant: the datagram refers to the acceptor's buffer.
getData_Shared(datagram) == buffer

\* The datagram's own copy of the bytes received.
getData(datagram) == datagram

ProcessDatagram ==
  /\ processor = "process"
  /\ handled' = Append(handled, getData(taken))
  /\ taken' = NoPayload
  /\ processor' = "check"
  /\ UNCHANGED <<startVars, stopVars, acceptorVars, queue>>

\* Mutant: the exception leaves the loop.
ProcessingFails_EndsLoop ==
  /\ processor = "process"
  /\ handled' = Append(handled, getData(taken))
  /\ taken' = NoPayload
  /\ processor' = "ended"
  /\ UNCHANGED <<startVars, stopVars, acceptorVars, queue>>

\* An exception costs the datagram it is about and no other.
ProcessingFails ==
  /\ processor = "process"
  /\ handled' = Append(handled, getData(taken))
  /\ taken' = NoPayload
  /\ processor' = "check"
  /\ UNCHANGED <<startVars, stopVars, acceptorVars, queue>>

-----------------------------------------------------------------------------
start == BeginStart \/ openAndBindChannel \/ ExecuteAcceptor \/ ExecuteProcessor

stop(c) == EnterStop(c) \/ CloseChannel(c) \/ ShutDownExecutors(c) \/ AwaitAcceptor(c)

acceptDatagrams ==
  \/ AcceptorChecks \/ OfferDatagram \/ ReceiveFromClosed
  \/ CatchIOException \/ AcceptorEnds

processorLoop ==
  \/ ProcessorChecks \/ TakeDatagram \/ ProcessDatagram \/ ProcessingFails

Next ==
  \/ start \/ CallStop \/ \E c \in Callers : stop(c)
  \/ acceptDatagrams \/ Receive \/ ReceiveFails \/ processorLoop

(***************************************************************************)
(* Every thread that can go on is scheduled; receive() fails once the      *)
(* channel is closed. No fairness for the network, its errors and the call *)
(* of stop().                                                              *)
(***************************************************************************)
Fairness ==
  /\ WF_vars(start)
  /\ \A c \in Callers : WF_vars(stop(c))
  /\ WF_vars(acceptDatagrams)
  /\ WF_vars(processorLoop)

Spec == Init /\ [][Next]_vars

FairSpec == Spec /\ Fairness

-----------------------------------------------------------------------------
(* Properties *)

TypeOK ==
  /\ starter \in {"new", "bind", "accept", "process", "up", "failed"}
  /\ started \in BOOLEAN /\ stopped \in BOOLEAN /\ shutDown \in BOOLEAN
  /\ channel \in {"none", "open", "closed"}
  /\ stopping \in [Callers -> {"no", "enter", "close", "shutdown", "await", "done"}]
  /\ monitor \in Callers \cup {"nobody"}
  /\ acceptor \in {"none", "check", "receive", "offer", "catch", "stop", "ended"}
  /\ buffer \in Payloads \cup {NoPayload}
  /\ queue \in Seq(Payloads) /\ Len(queue) <= QueueCapacity
  /\ processor \in {"none", "check", "take", "process", "ended"}
  /\ taken \in Payloads \cup {NoPayload}
  /\ arrived \in 0 .. MaxDatagrams
  /\ accepted \in Seq(Payloads)
  /\ handled \in Seq(Payloads)
  /\ handledAtStop \in Nat

(***************************************************************************)
(* Every datagram put into the queue is given to the processor at most     *)
(* once, in the order of arrival and with the bytes that arrived, although *)
(* the acceptor receives the following ones into the same array.           *)
(***************************************************************************)
InHand == IF processor = "process" THEN <<taken>> ELSE <<>>

HandledInOrder == handled \o InHand \o queue = accepted

(***************************************************************************)
(* Once stopped is set, the processor handles one more datagram at most:   *)
(* it does not go on saving logs while the application is shut down.       *)
(***************************************************************************)
AtMostOneAfterStop == stopped => Len(handled) + Len(InHand) <= handledAtStop + 1

(***************************************************************************)
(* A datagram in the queue is handled unless the server is stopped: no     *)
(* exception about another datagram keeps it from the processor.           *)
(***************************************************************************)
AcceptedIsHandled ==
  \A n \in 1 .. MaxDatagrams : Len(accepted) = n ~> Len(handled) >= n \/ stopped

(***************************************************************************)
(* Every call of stop() returns, also that of the acceptor, which waits    *)
(* for its own end, and one of the container that races with it.           *)
(***************************************************************************)
StopReturns ==
  \A c \in Callers : stopping[c] = "enter" ~> stopping[c] = "done"

(***************************************************************************)
(* Once stopped, the acceptor thread ends, wherever it was; a thread       *)
(* blocked in receive() is released by the closed channel.                 *)
(***************************************************************************)
AcceptorLeaves == stopped ~> acceptor = "ended"
=============================================================================
