--------------------------- MODULE UDPServerProofs ---------------------------
(* What holds of UDPServer for any queue capacity and any number of datagrams. *)
EXTENDS UDPServer, SequenceTheorems, TLAPS

-----------------------------------------------------------------------------
(* The queue, what was handled and what is in hand, as sequences *)

LEMMA HeadThenTail ==
  ASSUME NEW S, NEW s \in Seq(S), s # <<>>
  PROVE  /\ Head(s) \in S /\ Tail(s) \in Seq(S)
         /\ <<Head(s)>> \o Tail(s) = s
<1>1. Len(s) \in Nat \ {0}
  BY EmptySeq
<1>2. s = <<s[1]>> \o SubSeq(s, 1 + 1, Len(s))
  BY <1>1, SubSeqFull, SubSeqRecursiveFirst
<1>3. Tail(s) = SubSeq(s, 1 + 1, Len(s)) /\ Head(s) = s[1]
  BY <1>1, TailIsSubSeq
<1> QED  BY <1>2, <1>3, HeadTailProperties

LEMMA TakeKeepsOrder ==
  ASSUME NEW S, NEW done \in Seq(S), NEW waiting \in Seq(S), waiting # <<>>
  PROVE  (done \o <<Head(waiting)>>) \o Tail(waiting) = (done \o <<>>) \o waiting
<1>1. /\ Head(waiting) \in S /\ Tail(waiting) \in Seq(S)
      /\ <<Head(waiting)>> \o Tail(waiting) = waiting
  BY HeadThenTail
<1>2. <<Head(waiting)>> \in Seq(S)
  BY <1>1
<1> QED  BY <1>1, <1>2, ConcatAssociative, ConcatEmptySeq

LEMMA HandleKeepsOrder ==
  ASSUME NEW S, NEW done \in Seq(S), NEW waiting \in Seq(S), NEW d \in S
  PROVE  (Append(done, d) \o <<>>) \o waiting = (done \o <<d>>) \o waiting
BY AppendProperties, AppendIsConcat, ConcatEmptySeq

LEMMA OfferKeepsOrder ==
  ASSUME NEW S, NEW before \in Seq(S), NEW waiting \in Seq(S), NEW d \in S
  PROVE  before \o Append(waiting, d) = Append(before \o waiting, d)
<1>1. <<d>> \in Seq(S) /\ before \o waiting \in Seq(S)
  BY ConcatProperties
<1> QED  BY <1>1, AppendIsConcat, ConcatAssociative

-----------------------------------------------------------------------------
(***************************************************************************)
(* The threads hold a payload where they need one, and a processor that    *)
(* may still take a datagram after the stop has handled none since.        *)
(***************************************************************************)
SequencesOK ==
  /\ queue \in Seq(Payloads) /\ accepted \in Seq(Payloads) /\ handled \in Seq(Payloads)
  /\ handledAtStop \in Nat

HoldsPayload ==
  /\ acceptor = "offer" => buffer \in Payloads
  /\ processor = "process" => taken \in Payloads

NotYetProcessing == starter \notin {"up", "failed"} => processor = "none"

TakesNoSecond == stopped /\ processor = "take" => Len(handled) <= handledAtStop

DeliveryInv ==
  /\ SequencesOK /\ HoldsPayload /\ NotYetProcessing
  /\ HandledInOrder /\ AtMostOneAfterStop /\ TakesNoSecond

LEMMA InitDeliveryInv == Init => DeliveryInv
<1> SUFFICES ASSUME Init PROVE DeliveryInv
  OBVIOUS
<1>1. <<>> \in Seq(Payloads) /\ Len(<<>>) = 0 /\ (<<>> \o <<>>) \o <<>> = <<>>
  BY ConcatEmptySeq, EmptySeq
<1>2. SequencesOK
  BY <1>1 DEF Init, SequencesOK
<1>3. InHand = <<>>
  BY DEF Init, InHand
<1>4. HandledInOrder
  BY <1>1, <1>3 DEF Init, HandledInOrder
<1> QED  BY <1>2, <1>4 DEF Init, DeliveryInv, HoldsPayload, NotYetProcessing,
                               AtMostOneAfterStop, TakesNoSecond

LEMMA InHandType ==
  ASSUME DeliveryInv
  PROVE  InHand \in Seq(Payloads) /\ Len(InHand) \in {0, 1}
BY DEF DeliveryInv, HoldsPayload, InHand

LEMMA StartStopDeliveryInv ==
  ASSUME DeliveryInv, start \/ CallStop \/ \E c \in Callers : stop(c)
  PROVE  DeliveryInv'
<1> USE DEF DeliveryInv, SequencesOK, HoldsPayload, NotYetProcessing, HandledInOrder, InHand,
            AtMostOneAfterStop, TakesNoSecond,
            startVars, stopVars, acceptorVars, processorVars
<1>1. CASE start
  <2>1. CASE BeginStart
    BY <2>1 DEF BeginStart
  <2>2. CASE openAndBindChannel
    BY <2>2 DEF openAndBindChannel
  <2>3. CASE ExecuteAcceptor
    BY <2>3 DEF ExecuteAcceptor
  <2>4. CASE ExecuteProcessor
    BY <2>4 DEF ExecuteProcessor
  <2> QED  BY <1>1, <2>1, <2>2, <2>3, <2>4 DEF start
<1>2. CASE CallStop
  BY <1>2 DEF CallStop, Callers
<1>3. ASSUME NEW c \in Callers, stop(c) PROVE DeliveryInv'
  <2>1. CASE EnterStop(c)
    <3>1. CASE stopped
      BY <2>1, <3>1 DEF EnterStop
    <3>2. CASE ~stopped
      <4>1. /\ handledAtStop' \in Nat /\ Len(handled') = handledAtStop'
            /\ UNCHANGED processor
        BY <2>1, <3>2, LenProperties DEF EnterStop
      <4>2. AtMostOneAfterStop' /\ TakesNoSecond'
        <5>1. Len(InHand') \in {0, 1}
          BY DEF InHand
        <5>2. Len(handled') + Len(InHand') <= handledAtStop' + 1
          <6> HIDE DEF InHand
          <6>1. PICK held \in {0, 1} : Len(InHand') = held
            BY <5>1
          <6>2. PICK count \in Nat : Len(handled') = count /\ handledAtStop' = count
            BY <4>1
          <6>3. count + held <= count + 1
            BY <6>1, <6>2
          <6> QED  BY <6>1, <6>2, <6>3
        <5>3. TakesNoSecond'
          BY <4>1
        <5>4. AtMostOneAfterStop'
          BY <5>2
        <5> QED  BY <5>3, <5>4
      <4>3. SequencesOK' /\ HoldsPayload' /\ NotYetProcessing' /\ HandledInOrder'
        BY <2>1, <3>2, <4>1 DEF EnterStop, InHand
      <4> QED  BY <4>2, <4>3
    <3> QED  BY <3>1, <3>2
  <2>2. CASE CloseChannel(c)
    BY <2>2 DEF CloseChannel
  <2>3. CASE ShutDownExecutors(c)
    BY <2>3 DEF ShutDownExecutors
  <2>4. CASE AwaitAcceptor(c)
    BY <2>4 DEF AwaitAcceptor
  <2> QED  BY <1>3, <2>1, <2>2, <2>3, <2>4 DEF stop
<1> QED  BY <1>1, <1>2, <1>3

LEMMA AcceptorDeliveryInv ==
  ASSUME DeliveryInv, acceptDatagrams \/ Receive \/ ReceiveFails
  PROVE  DeliveryInv'
<1> USE DEF DeliveryInv, SequencesOK, HoldsPayload, NotYetProcessing, HandledInOrder, InHand,
            AtMostOneAfterStop, TakesNoSecond,
            startVars, stopVars, acceptorVars, processorVars
<1>1. CASE AcceptorChecks
  BY <1>1 DEF AcceptorChecks
<1>2. CASE OfferDatagram
  <2>1. CASE Len(queue) < QueueCapacity
    <3>1. /\ Append(queue, buffer) \in Seq(Payloads)
          /\ Append(accepted, buffer) \in Seq(Payloads)
      BY <1>2, AppendProperties DEF OfferDatagram
    <3>2. handled \o InHand \in Seq(Payloads)
      BY InHandType, ConcatProperties
    <3> HIDE DEF InHand
    <3>3. (handled \o InHand) \o Append(queue, buffer) = Append(accepted, buffer)
      <4>1. /\ buffer \in Payloads
            /\ queue \in Seq(Payloads)
            /\ (handled \o InHand) \o queue = accepted
        BY <1>2 DEF OfferDatagram
      <4> QED  BY ONLY <4>1, <3>2, OfferKeepsOrder
    <3>4. InHand' = InHand
      BY <1>2 DEF OfferDatagram, InHand
    <3>5. HandledInOrder'
      BY <1>2, <2>1, <3>3, <3>4 DEF OfferDatagram
    <3>6. SequencesOK'
      BY <1>2, <2>1, <3>1 DEF OfferDatagram
    <3> QED  BY <1>2, <2>1, <3>4, <3>5, <3>6 DEF OfferDatagram
  <2>2. CASE ~(Len(queue) < QueueCapacity)
    BY <1>2, <2>2 DEF OfferDatagram
  <2> QED  BY <2>1, <2>2
<1>3. CASE ReceiveFromClosed
  BY <1>3 DEF ReceiveFromClosed
<1>4. CASE CatchIOException
  BY <1>4 DEF CatchIOException, Callers
<1>5. CASE AcceptorEnds
  BY <1>5 DEF AcceptorEnds
<1>6. CASE Receive
  BY <1>6 DEF Receive
<1>7. CASE ReceiveFails
  BY <1>7 DEF ReceiveFails
<1> QED  BY <1>1, <1>2, <1>3, <1>4, <1>5, <1>6, <1>7 DEF acceptDatagrams

LEMMA ProcessorDeliveryInv ==
  ASSUME DeliveryInv, processorLoop
  PROVE  DeliveryInv'
<1> USE DEF DeliveryInv, SequencesOK, HoldsPayload, NotYetProcessing, HandledInOrder, InHand,
            AtMostOneAfterStop, TakesNoSecond,
            startVars, stopVars, acceptorVars, processorVars
<1>1. CASE ProcessorChecks
  BY <1>1 DEF ProcessorChecks
<1>2. CASE TakeDatagram
  <2>1. /\ Head(queue) \in Payloads /\ Tail(queue) \in Seq(Payloads)
    BY <1>2, HeadThenTail DEF TakeDatagram
  <2>2. (handled \o <<Head(queue)>>) \o Tail(queue) = (handled \o <<>>) \o queue
    BY <1>2, TakeKeepsOrder DEF TakeDatagram
  <2>3. HandledInOrder'
    BY <1>2, <2>2 DEF TakeDatagram
  <2>4. SequencesOK'
    BY <1>2, <2>1 DEF TakeDatagram
  <2> QED  BY <1>2, <2>1, <2>3, <2>4 DEF TakeDatagram
<1>3. CASE ProcessDatagram \/ ProcessingFails
  <2>1. /\ processor = "process" /\ processor' = "check" /\ taken' = NoPayload
        /\ handled' = Append(handled, taken)
        /\ UNCHANGED <<startVars, stopVars, acceptorVars, queue>>
    BY <1>3 DEF ProcessDatagram, ProcessingFails, getData
  <2>2. handled' \in Seq(Payloads) /\ Len(handled') = Len(handled) + 1
    BY <2>1, AppendProperties
  <2>3. (Append(handled, taken) \o <<>>) \o queue = (handled \o <<taken>>) \o queue
    BY <2>1, HandleKeepsOrder
  <2>4. HandledInOrder'
    BY <2>1, <2>3
  <2>5. SequencesOK' /\ HoldsPayload' /\ NotYetProcessing' /\ TakesNoSecond'
    BY <2>1, <2>2
  <2>6. AtMostOneAfterStop'
    <3>1. Len(InHand) = 1 /\ Len(InHand') = 0 /\ Len(handled) \in Nat
      BY <2>1, LenProperties
    <3> HIDE DEF InHand
    <3> QED  BY <2>1, <2>2, <3>1
  <2> QED  BY <2>1, <2>4, <2>5, <2>6
<1> QED  BY <1>1, <1>2, <1>3 DEF processorLoop

LEMMA DeliveryInvariant == Spec => []DeliveryInv
<1>1. DeliveryInv /\ [Next]_vars => DeliveryInv'
  <2> SUFFICES ASSUME DeliveryInv, [Next]_vars PROVE DeliveryInv'
    OBVIOUS
  <2>1. CASE Next
    BY <2>1, StartStopDeliveryInv, AcceptorDeliveryInv, ProcessorDeliveryInv DEF Next
  <2>2. CASE UNCHANGED vars
    BY <2>2 DEF vars, DeliveryInv, SequencesOK, HoldsPayload, NotYetProcessing, HandledInOrder, InHand,
                AtMostOneAfterStop, TakesNoSecond,
                startVars, stopVars, acceptorVars, processorVars
  <2> QED  BY <2>1, <2>2
<1> QED  BY <1>1, InitDeliveryInv, PTL DEF Spec

-----------------------------------------------------------------------------
(* Types, given what DeliveryInv says of the sequences *)

\* The processor takes from the queue only, and the acceptor adds to it below its capacity.
LEMMA QueueBounded ==
  ASSUME DeliveryInv, TypeOK, [Next]_vars
  PROVE  Len(queue') <= QueueCapacity
<1>1. CASE OfferDatagram
  <2>1. CASE Len(queue) < QueueCapacity
    <3>1. queue' = Append(queue, buffer) /\ buffer \in Payloads
      BY <1>1, <2>1 DEF OfferDatagram, DeliveryInv, HoldsPayload
    <3>2. Len(queue') = Len(queue) + 1 /\ Len(queue) \in Nat
      BY <3>1, AppendProperties, LenProperties DEF TypeOK
    <3> QED  BY <2>1, <3>2, QueueCapacityAssumption
  <2>2. CASE ~(Len(queue) < QueueCapacity)
    BY <1>1, <2>2 DEF OfferDatagram, TypeOK
  <2> QED  BY <2>1, <2>2
<1>2. CASE TakeDatagram
  <2>1. queue' = Tail(queue) /\ queue # <<>> /\ queue \in Seq(Payloads)
    BY <1>2 DEF TakeDatagram, TypeOK
  <2>2. Len(queue') = Len(queue) - 1 /\ Len(queue) \in Nat
    BY <2>1, HeadTailProperties, LenProperties
  <2> QED  BY <2>2, QueueCapacityAssumption DEF TypeOK
<1>3. CASE UNCHANGED queue
  BY <1>3 DEF TypeOK
<1>4. \/ OfferDatagram \/ TakeDatagram \/ UNCHANGED queue
  BY DEF Next, start, stop, acceptDatagrams, processorLoop, BeginStart, openAndBindChannel,
         ExecuteAcceptor, ExecuteProcessor, CallStop, EnterStop, CloseChannel, ShutDownExecutors,
         AwaitAcceptor, AcceptorChecks, Receive, ReceiveFromClosed, ReceiveFails, CatchIOException,
         AcceptorEnds, ProcessorChecks, ProcessDatagram, ProcessingFails, vars
<1> QED  BY <1>1, <1>2, <1>3, <1>4

LEMMA ServerTyped ==
  ASSUME TypeOK, DeliveryInv', Len(queue') <= QueueCapacity,
         start \/ CallStop \/ \E c \in Callers : stop(c)
  PROVE  TypeOK'
<1> USE DEF TypeOK, DeliveryInv, SequencesOK, startVars, stopVars, acceptorVars, processorVars
<1>1. CASE BeginStart
  BY <1>1 DEF BeginStart
<1>2. CASE openAndBindChannel
  BY <1>2 DEF openAndBindChannel
<1>3. CASE ExecuteAcceptor \/ ExecuteProcessor
  BY <1>3 DEF ExecuteAcceptor, ExecuteProcessor
<1>4. CASE CallStop
  <2>1. stopping' \in [Callers -> {"no", "enter", "close", "shutdown", "await", "done"}]
    BY <1>4 DEF CallStop, Callers
  <2> QED  BY <1>4, <2>1 DEF CallStop
<1>5. ASSUME NEW c \in Callers, stop(c) PROVE TypeOK'
  <2>0. stopping' \in [Callers -> {"no", "enter", "close", "shutdown", "await", "done"}]
    BY <1>5 DEF stop, EnterStop, CloseChannel, ShutDownExecutors, AwaitAcceptor
  <2>1. CASE EnterStop(c)
    <3>1. stopped' \in BOOLEAN /\ monitor' \in Callers \cup {"nobody"}
      BY <2>1 DEF EnterStop
    <3> QED  BY <2>0, <2>1, <3>1 DEF EnterStop
  <2>2. CASE CloseChannel(c)
    BY <2>0, <2>2 DEF CloseChannel
  <2>3. CASE ShutDownExecutors(c)
    BY <2>0, <2>3 DEF ShutDownExecutors
  <2>4. CASE AwaitAcceptor(c)
    BY <2>0, <2>4 DEF AwaitAcceptor
  <2> QED  BY <1>5, <2>1, <2>2, <2>3, <2>4 DEF stop
<1> QED  BY <1>1, <1>2, <1>3, <1>4, <1>5 DEF start

LEMMA ThreadsTyped ==
  ASSUME DeliveryInv, TypeOK, DeliveryInv', Len(queue') <= QueueCapacity,
         acceptDatagrams \/ Receive \/ ReceiveFails \/ processorLoop
  PROVE  TypeOK'
<1> USE DEF TypeOK, DeliveryInv, SequencesOK, startVars, stopVars, acceptorVars, processorVars
<1>1. CASE AcceptorChecks \/ AcceptorEnds \/ ReceiveFromClosed \/ ReceiveFails
  BY <1>1 DEF AcceptorChecks, AcceptorEnds, ReceiveFromClosed, ReceiveFails
<1>2. CASE CatchIOException
  BY <1>2 DEF CatchIOException, Callers
<1>3. CASE OfferDatagram
  BY <1>3 DEF OfferDatagram
<1>4. CASE Receive
  <2>1. arrived' \in 0 .. MaxDatagrams
    BY <1>4, MaxDatagramsAssumption DEF Receive
  <2>2. buffer' \in Payloads /\ acceptor' = "offer"
    BY <1>4 DEF Receive
  <2> QED  BY <1>4, <2>1, <2>2 DEF Receive
<1>5. CASE ProcessorChecks \/ ProcessDatagram \/ ProcessingFails
  BY <1>5 DEF ProcessorChecks, ProcessDatagram, ProcessingFails
<1>6. CASE TakeDatagram
  <2>1. taken' \in Payloads
    BY <1>6, HeadThenTail DEF TakeDatagram
  <2> QED  BY <1>6, <2>1 DEF TakeDatagram
<1> QED  BY <1>1, <1>2, <1>3, <1>4, <1>5, <1>6 DEF acceptDatagrams, processorLoop

(***************************************************************************)
(* The queue never holds more than its capacity, and every variable keeps  *)
(* its type.                                                               *)
(***************************************************************************)
THEOREM TypeCorrect == Spec => []TypeOK
<1>1. Init => TypeOK
  <2> SUFFICES ASSUME Init PROVE TypeOK
    OBVIOUS
  <2>1. Len(<<>>) <= QueueCapacity /\ <<>> \in Seq(Payloads)
    BY QueueCapacityAssumption, EmptySeq
  <2>2. 0 \in 0 .. MaxDatagrams /\ 0 \in Nat
    BY MaxDatagramsAssumption
  <2>3. stopping \in [Callers -> {"no", "enter", "close", "shutdown", "await", "done"}]
    BY DEF Init
  <2> QED  BY <2>1, <2>2, <2>3 DEF Init, TypeOK
<1>2. ASSUME DeliveryInv, TypeOK, DeliveryInv', [Next]_vars PROVE TypeOK'
  <2>1. Len(queue') <= QueueCapacity
    BY <1>2, QueueBounded
  <2>2. CASE UNCHANGED vars
    BY <1>2, <2>2 DEF TypeOK, vars, startVars, stopVars, acceptorVars, processorVars
  <2>3. CASE Next
    BY <1>2, <2>1, <2>3, ServerTyped, ThreadsTyped DEF Next
  <2> QED  BY <1>2, <2>2, <2>3
<1> QED  BY <1>1, <1>2, DeliveryInvariant, PTL DEF Spec

(***************************************************************************)
(* Datagrams reach the processor once, in order and unchanged.             *)
(***************************************************************************)
THEOREM DeliversInOrder == Spec => []HandledInOrder
<1>1. DeliveryInv => HandledInOrder
  BY DEF DeliveryInv
<1> QED  BY <1>1, DeliveryInvariant, PTL

(***************************************************************************)
(* The processor handles one datagram at most after the server is stopped. *)
(***************************************************************************)
THEOREM StopsHandling == Spec => []AtMostOneAfterStop
<1>1. DeliveryInv => AtMostOneAfterStop
  BY DEF DeliveryInv
<1> QED  BY <1>1, DeliveryInvariant, PTL
=============================================================================
