------------------------ MODULE LogBroadcastingProofs ------------------------
(* Proofs about LogBroadcasting, for any constants that satisfy its assumptions. *)
EXTENDS LogBroadcasting, SequenceTheorems, TLAPS

(***************************************************************************)
(* A call under way carries a log that has a host and a program; it adds   *)
(* the log to a ring that exists and writes to a session that was opened.  *)
(***************************************************************************)
CallOK ==
  \A t \in Threads :
    /\ pc[t] # "idle" => logData[t] \in Logs /\ StreamOf[logData[t]] \in Streams
    /\ pc[t] = "add" => logStorage[StreamOf[logData[t]]] # NoStorage
    /\ pc[t] = "send" => target[t] \in Sessions

TypeInv == TypeOK /\ CallOK

LEMMA NewRingType == NewRing \in Rings
BY CapacityAssumption DEF NewRing, Rings, Slots

\* add keeps a ring a ring.
LEMMA AddToRingType ==
  ASSUME NEW ring \in Rings, NEW log \in Logs
  PROVE  AddToRing(ring, log) \in Rings
BY CapacityAssumption DEF AddToRing, NextPointer, Rings, Slots

LEMMA AsLogSetType ==
  ASSUME NEW ring \in Rings
  PROVE  AsLogSet(ring) \subseteq Logs
BY DEF AsLogSet, Rings

LEMMA InitTypeInv == Init => TypeInv
BY MaxRequestsAssumption
   DEF Init, TypeInv, TypeOK, CallOK, Subscriptions, initialState, Requests, NoRequest

LEMMA ThreadTypeInv ==
  ASSUME TypeInv, NEW t \in Threads, ReceiveLog(t) \/ handleReceivedLogData(t)
  PROVE  TypeInv'
<1> USE DEF TypeInv, TypeOK, CallOK, sessionVars, scanVars, threadVars, handlerVars, clientVars
<1>1. CASE ReceiveLog(t)
  <2>1. PICK log \in pending :
           /\ pending' = pending \ {log}
           /\ IF StreamOf[log] = NoStream THEN UNCHANGED <<pc, logData>>
              ELSE /\ logData' = [logData EXCEPT ![t] = log]
                   /\ pc' = [pc EXCEPT ![t] = "find"]
    BY <1>1 DEF ReceiveLog
  <2>2. StreamOf[log] = NoStream \/ StreamOf[log] \in Streams
    BY StreamAssumption
  <2>3. TypeOK'
    <3>1. /\ pending' \in SUBSET Logs
          /\ logData' \in [Threads -> Logs \cup {NoLog}]
      BY <2>1
    <3>2. pc' \in [Threads -> {"idle", "find", "add", "broadcast", "next", "send", "done"}]
      BY <2>1
    <3> QED  BY <1>1, <3>1, <3>2 DEF ReceiveLog
  <2>4. CallOK'
    <3>1. UNCHANGED <<logStorage, target>>
      BY <1>1 DEF ReceiveLog
    <3>2. CASE StreamOf[log] = NoStream
      BY <2>1, <3>1, <3>2
    <3>3. CASE StreamOf[log] # NoStream
      <4>1. \A u \in Threads :
              \/ pc'[u] = pc[u] /\ logData'[u] = logData[u]
              \/ pc'[u] = "find" /\ logData'[u] = log
        BY <2>1, <3>3
      <4>2. log \in Logs /\ StreamOf[log] \in Streams
        BY <2>2, <3>3
      <4> QED  BY ONLY CallOK, <3>1, <4>1, <4>2 DEF CallOK
    <3> QED  BY <3>2, <3>3
  <2> QED  BY <2>3, <2>4
<1>2. CASE FindStorage(t)
  BY <1>2, NewRingType, NoStorageAssumption DEF FindStorage, computeIfAbsent
<1>3. CASE AddLog(t)
  <2>1. logStorage[StreamOf[logData[t]]] \in Rings /\ logData[t] \in Logs
    BY <1>3 DEF AddLog
  <2>2. AddToRing(logStorage[StreamOf[logData[t]]], logData[t]) \in Rings
    BY <2>1, AddToRingType
  <2> QED  BY <1>3, <2>2, NoStorageAssumption DEF AddLog
<1>4. CASE BeginBroadcast(t)
  BY <1>4 DEF BeginBroadcast, Subscribers
<1>5. CASE NextSubscription(t)
  <2>1. PICK s \in (met[t] \cup registered) \ returned[t] :
           /\ returned' = [returned EXCEPT ![t] = @ \cup {s}]
           /\ IF isBroadcastCandidateFor(subscription[s], StreamOf[logData[t]])
              THEN target' = [target EXCEPT ![t] = s] /\ pc' = [pc EXCEPT ![t] = "send"]
              ELSE UNCHANGED <<target, pc>>
    BY <1>5 DEF NextSubscription
  <2>2. s \in Sessions
    OBVIOUS
  <2>3. TypeOK'
    <3>1. returned' \in [Threads -> SUBSET Sessions]
      BY <2>1, <2>2
    <3>2. target' \in [Threads -> Sessions \cup {NoSession}]
      BY <2>1, <2>2
    <3>3. pc' \in [Threads -> {"idle", "find", "add", "broadcast", "next", "send", "done"}]
      BY <2>1, <2>2
    <3> QED  BY <1>5, <3>1, <3>2, <3>3 DEF NextSubscription
  <2>4. CallOK'
    BY <1>5, <2>1, <2>2, <2>3 DEF NextSubscription
  <2> QED  BY <2>3, <2>4
<1>6. CASE SendLog(t)
  BY <1>6 DEF SendLog
<1>7. CASE SendLogFails(t)
  BY <1>7 DEF SendLogFails
<1>8. CASE EndBroadcast(t)
  BY <1>8 DEF EndBroadcast
<1>9. CASE ReturnToCollector(t)
  BY <1>9 DEF ReturnToCollector
<1> HIDE DEF TypeInv
<1> QED  BY <1>1, <1>2, <1>3, <1>4, <1>5, <1>6, <1>7, <1>8, <1>9 DEF handleReceivedLogData

LEMMA SessionTypeInv ==
  ASSUME TypeInv, NEW s \in Sessions,
         ReceiveRequest(s) \/ handleLogBroadcastingRequest(s) \/ Container(s)
  PROVE  TypeInv'
<1> USE DEF TypeInv, TypeOK, CallOK, sessionVars, scanVars, threadVars, handlerVars,
            requestVars, clientVars
<1>1. CASE ReceiveRequest(s)
  BY <1>1, RequestAssumption, MaxRequestsAssumption DEF ReceiveRequest
<1>2. CASE ParseRequest(s)
  <2>1. request[s].hosts \X request[s].programs \subseteq Streams
    BY DEF Requests, Streams
  <2>2. NextStage(s, request[s]) \in {"idle", "fail", "refuse", "collect"}
    BY DEF NextStage
  <2>3. NoRequest \in Requests
    BY DEF NoRequest, Requests
  <2>4. CASE ReturnFromRequest(s)
    BY <1>2, <2>3, <2>4 DEF ParseRequest, ReturnFromRequest
  <2>5. CASE /\ handler' = [handler EXCEPT ![s] = NextStage(s, request[s])]
             /\ unread' = [unread EXCEPT ![s] = request[s].hosts \X request[s].programs]
             /\ UNCHANGED <<request, found, collected, requests>>
    BY <1>2, <2>1, <2>2, <2>5 DEF ParseRequest
  <2> QED  BY <1>2, <2>4, <2>5 DEF ParseRequest
<1>3. CASE CollectStorage(s)
  <2>1. PICK stream \in unread[s] :
           /\ unread' = [unread EXCEPT ![s] = @ \ {stream}]
           /\ IF logStorage[stream] = NoStorage THEN UNCHANGED <<found, collected>>
              ELSE /\ found' = [found EXCEPT ![s] = @ \cup {stream}]
                   /\ collected' =
                        [collected EXCEPT ![s] = @ \cup AsLogSet(logStorage[stream])]
    BY <1>3 DEF CollectStorage
  <2>2. logStorage[stream] # NoStorage => AsLogSet(logStorage[stream]) \subseteq Logs
    BY AsLogSetType
  <2> QED  BY <1>3, <2>1, <2>2 DEF CollectStorage
<1>4. CASE EndCollect(s)
  <2>1. CASE /\ \E kept \in SurvivingLists(found[s]) :
                   collected' = [collected EXCEPT ![s] = OfStreams(@, kept)]
             /\ handler' = [handler EXCEPT ![s] = "respond"]
    <3>1. PICK kept \in SurvivingLists(found[s]) :
             collected' = [collected EXCEPT ![s] = OfStreams(@, kept)]
      BY <2>1
    <3>2. OfStreams(collected[s], kept) \subseteq Logs
      BY DEF OfStreams
    <3> QED  BY <1>4, <2>1, <3>1, <3>2 DEF EndCollect
  <2>2. CASE handler' = [handler EXCEPT ![s] = "fail"] /\ UNCHANGED collected
    BY <1>4, <2>2 DEF EndCollect
  <2> QED  BY <1>4, <2>1, <2>2 DEF EndCollect
<1>5. CASE SendSnapshot(s)
  <2>1. request[s].hosts \X request[s].programs \subseteq Streams
    BY DEF Requests, Streams
  <2> QED  BY <1>5, <2>1 DEF SendSnapshot
<1>6. CASE SendSnapshotFails(s)
  BY <1>6 DEF SendSnapshotFails
<1>7. CASE Subscribe(s)
  <2>1. NoRequest \in Requests /\ Online(request[s]) \in Subscriptions
    BY DEF NoRequest, Requests, Online, Subscriptions
  <2> QED  BY <1>7, <2>1 DEF Subscribe, ReturnFromRequest
<1>8. CASE SubscribeFails(s)
  BY <1>8 DEF SubscribeFails
<1>9. CASE RefuseRequest(s) \/ RespondError(s)
  <2>1. NoRequest \in Requests
    BY DEF NoRequest, Requests
  <2>2. CASE RefuseRequest(s)
    <3>1. CASE ReturnFromRequest(s)
      BY <2>1, <2>2, <3>1 DEF RefuseRequest, ReturnFromRequest
    <3>2. CASE handler' = [handler EXCEPT ![s] = "fail"] /\ UNCHANGED requestVars
      BY <2>2, <3>2 DEF RefuseRequest
    <3> QED  BY <2>2, <3>1, <3>2 DEF RefuseRequest
  <2>3. CASE RespondError(s)
    BY <2>1, <2>3 DEF RespondError, ReturnFromRequest
  <2> QED  BY <1>9, <2>2, <2>3
<1>10. CASE onWebSocketOpen(s)
  <2>1. initialState \in Subscriptions
    BY DEF initialState, Subscriptions
  <2> QED  BY <1>10, <2>1 DEF onWebSocketOpen
<1>11. CASE LoseConnection(s)
  BY <1>11 DEF LoseConnection
<1>12. CASE onWebSocketError(s) \/ onWebSocketClose(s)
  BY <1>12 DEF onWebSocketError, onWebSocketClose
<1> HIDE DEF TypeInv
<1> QED  BY <1>1, <1>2, <1>3, <1>4, <1>5, <1>6, <1>7, <1>8, <1>9, <1>10, <1>11, <1>12
         DEF handleLogBroadcastingRequest, Container

LEMMA NextTypeInv == TypeInv /\ [Next]_vars => TypeInv'
<1> SUFFICES ASSUME TypeInv, [Next]_vars PROVE TypeInv'
  OBVIOUS
<1>1. CASE Next
  BY <1>1, ThreadTypeInv, SessionTypeInv DEF Next
<1>2. CASE UNCHANGED vars
  BY <1>2 DEF TypeInv, TypeOK, CallOK, vars, sessionVars, scanVars, threadVars,
              handlerVars, clientVars
<1> QED  BY <1>1, <1>2

LEMMA TypeInvariant == Spec => []TypeInv
BY InitTypeInv, NextTypeInv, PTL DEF Spec

(***************************************************************************)
(* Every variable keeps its type: the pointer of a ring stays within its   *)
(* buffer, and a thread adds only to a ring it has found.                  *)
(***************************************************************************)
THEOREM TypeCorrect == Spec => []TypeOK
<1>1. TypeInv => TypeOK
  BY DEF TypeInv
<1> QED  BY <1>1, TypeInvariant, PTL

----------------------------------------------------------------------------
\* What LogBroadcasting promises its subscribers.

(***************************************************************************)
(* LiveOnlyAfterSnapshot is not inductive: whoever is about to deliver a   *)
(* log, or to let one be delivered, must know the stream granted already.  *)
(***************************************************************************)
OnlineGranted ==
  \A s \in Sessions :
    subscription[s].state = "ONLINE_BROADCASTING"
      => subscription[s].hosts \X subscription[s].programs \subseteq granted[s]

SendingGranted ==
  \A t \in Threads :
    pc[t] = "send" => StreamOf[logData[t]] \in granted[target[t]]

SubscribingGranted ==
  \A s \in Sessions :
    handler[s] = "subscribe"
      => request[s].hosts \X request[s].programs \subseteq granted[s]

SnapshotInv ==
  /\ LiveOnlyAfterSnapshot
  /\ OnlineGranted
  /\ SendingGranted
  /\ SubscribingGranted

LEMMA InitSnapshotInv == Init => SnapshotInv
BY DEF Init, SnapshotInv, LiveOnlyAfterSnapshot, OnlineGranted, SendingGranted,
       SubscribingGranted, initialState

LEMMA ThreadSnapshotInv ==
  ASSUME TypeInv, SnapshotInv, NEW t \in Threads,
         ReceiveLog(t) \/ handleReceivedLogData(t)
  PROVE  SnapshotInv'
<1> USE DEF TypeInv, TypeOK, CallOK, SnapshotInv, LiveOnlyAfterSnapshot, OnlineGranted,
            SendingGranted, SubscribingGranted,
            sessionVars, scanVars, threadVars, handlerVars, clientVars
<1>1. CASE ReceiveLog(t)
  BY <1>1 DEF ReceiveLog
<1>2. CASE FindStorage(t)
  BY <1>2 DEF FindStorage
<1>3. CASE AddLog(t)
  BY <1>3 DEF AddLog
<1>4. CASE BeginBroadcast(t)
  BY <1>4 DEF BeginBroadcast
<1>5. CASE NextSubscription(t)
  <2>1. PICK s \in (met[t] \cup registered) \ returned[t] :
           /\ returned' = [returned EXCEPT ![t] = @ \cup {s}]
           /\ IF isBroadcastCandidateFor(subscription[s], StreamOf[logData[t]])
              THEN target' = [target EXCEPT ![t] = s] /\ pc' = [pc EXCEPT ![t] = "send"]
              ELSE UNCHANGED <<target, pc>>
    BY <1>5 DEF NextSubscription
  <2>2. s \in Sessions
    OBVIOUS
  <2>3. isBroadcastCandidateFor(subscription[s], StreamOf[logData[t]])
          => StreamOf[logData[t]] \in granted[s]
    BY <2>2 DEF isBroadcastCandidateFor
  <2>4. SendingGranted'
    BY <1>5, <2>1, <2>2, <2>3 DEF NextSubscription
  <2> QED  BY <1>5, <2>4 DEF NextSubscription
<1>6. CASE SendLog(t)
  BY <1>6 DEF SendLog
<1>7. CASE SendLogFails(t)
  BY <1>7 DEF SendLogFails
<1>8. CASE EndBroadcast(t)
  BY <1>8 DEF EndBroadcast
<1>9. CASE ReturnToCollector(t)
  BY <1>9 DEF ReturnToCollector
<1> HIDE DEF TypeInv, SnapshotInv
<1> QED  BY <1>1, <1>2, <1>3, <1>4, <1>5, <1>6, <1>7, <1>8, <1>9 DEF handleReceivedLogData

LEMMA SessionSnapshotInv ==
  ASSUME TypeInv, SnapshotInv, NEW s \in Sessions,
         ReceiveRequest(s) \/ handleLogBroadcastingRequest(s) \/ Container(s)
  PROVE  SnapshotInv'
<1> USE DEF TypeInv, TypeOK, CallOK, SnapshotInv, LiveOnlyAfterSnapshot, OnlineGranted,
            SendingGranted, SubscribingGranted,
            sessionVars, scanVars, threadVars, handlerVars, requestVars, clientVars
<1>1. CASE ReceiveRequest(s)
  BY <1>1 DEF ReceiveRequest
<1>2. CASE ParseRequest(s)
  <2>1. NextStage(s, request[s]) # "subscribe"
    BY DEF NextStage
  <2>2. handler'[s] # "subscribe"
    BY <1>2, <2>1 DEF ParseRequest, ReturnFromRequest
  <2>3. \A other \in Sessions \ {s} :
          handler'[other] = handler[other] /\ request'[other] = request[other]
    BY <1>2 DEF ParseRequest, ReturnFromRequest
  <2>4. SubscribingGranted'
    BY <1>2, <2>2, <2>3 DEF ParseRequest
  <2> QED  BY <1>2, <2>4 DEF ParseRequest
<1>3. CASE CollectStorage(s)
  BY <1>3 DEF CollectStorage
<1>4. CASE EndCollect(s)
  BY <1>4 DEF EndCollect
<1>5. CASE SendSnapshot(s)
  BY <1>5 DEF SendSnapshot
<1>6. CASE SendSnapshotFails(s)
  BY <1>6 DEF SendSnapshotFails
<1>7. CASE Subscribe(s)
  <2>1. Online(request[s]).hosts \X Online(request[s]).programs \subseteq granted[s]
    BY <1>7 DEF Subscribe, Online
  <2>2. OnlineGranted'
    BY <1>7, <2>1 DEF Subscribe
  <2>3. SubscribingGranted'
    BY <1>7 DEF Subscribe, ReturnFromRequest
  <2> QED  BY <1>7, <2>2, <2>3 DEF Subscribe
<1>8. CASE SubscribeFails(s)
  BY <1>8 DEF SubscribeFails
<1>9. CASE RefuseRequest(s)
  <2>1. handler'[s] # "subscribe"
    BY <1>9 DEF RefuseRequest, ReturnFromRequest
  <2>2. \A other \in Sessions \ {s} :
          handler'[other] = handler[other] /\ request'[other] = request[other]
    BY <1>9 DEF RefuseRequest, ReturnFromRequest
  <2> QED  BY <1>9, <2>1, <2>2 DEF RefuseRequest
<1>10. CASE RespondError(s)
  BY <1>10 DEF RespondError, ReturnFromRequest
<1>11. CASE onWebSocketOpen(s)
  BY <1>11 DEF onWebSocketOpen, initialState
<1>12. CASE LoseConnection(s) \/ onWebSocketError(s) \/ onWebSocketClose(s)
  BY <1>12 DEF LoseConnection, onWebSocketError, onWebSocketClose
<1> HIDE DEF TypeInv, SnapshotInv
<1> QED  BY <1>1, <1>2, <1>3, <1>4, <1>5, <1>6, <1>7, <1>8, <1>9, <1>10, <1>11, <1>12
         DEF handleLogBroadcastingRequest, Container

LEMMA NextSnapshotInv == TypeInv /\ SnapshotInv /\ [Next]_vars => SnapshotInv'
<1> SUFFICES ASSUME TypeInv, SnapshotInv, [Next]_vars PROVE SnapshotInv'
  OBVIOUS
<1>1. CASE Next
  BY <1>1, ThreadSnapshotInv, SessionSnapshotInv DEF Next
<1>2. CASE UNCHANGED vars
  BY <1>2 DEF SnapshotInv, LiveOnlyAfterSnapshot, OnlineGranted, SendingGranted,
              SubscribingGranted, vars, sessionVars, threadVars, handlerVars, clientVars
<1> QED  BY <1>1, <1>2

(***************************************************************************)
(* A client never prints a broadcast log of a stream whose snapshot it has *)
(* not got, however many sessions, threads and requests there are.         *)
(***************************************************************************)
THEOREM SnapshotFirst == Spec => []LiveOnlyAfterSnapshot
<1>1. SnapshotInv => LiveOnlyAfterSnapshot
  BY DEF SnapshotInv
<1> QED  BY <1>1, InitSnapshotInv, NextSnapshotInv, TypeInvariant, PTL DEF Spec

-----------------------------------------------------------------------------
(***************************************************************************)
(* NoSubscriberStarved is about a thread that has ended its scan. The      *)
(* invariant follows the sessions it owes its log to through the scan:     *)
(* each is one the iterator will return as long as it is registered, is    *)
(* still subscribed until it is returned, and has the log afterwards.      *)
(***************************************************************************)
Scanning == {"next", "send", "done"}

ScanClean ==
  \A t \in Threads : pc[t] \notin Scanning => due[t] = {} /\ returned[t] = {}

OpenedBefore ==
  /\ \A s \in registered : connection[s] # "new"
  /\ \A t \in Threads : \A s \in met[t] : connection[s] # "new"

DueMet == \A t \in Threads : due[t] \subseteq met[t]

DueSubscribed ==
  \A t \in Threads : \A s \in due[t] \ returned[t] :
    isBroadcastCandidateFor(subscription[s], StreamOf[logData[t]])

DueServed ==
  \A t \in Threads : \A s \in due[t] \cap returned[t] \cap registered :
    logData[t] \in live[s] \/ (pc[t] = "send" /\ target[t] = s)

ScanComplete ==
  \A t \in Threads : pc[t] = "done" => met[t] \cap registered \subseteq returned[t]

ScanInv ==
  /\ ScanClean
  /\ OpenedBefore
  /\ DueMet
  /\ DueSubscribed
  /\ DueServed
  /\ ScanComplete

LEMMA InitScanInv == Init => ScanInv
BY DEF Init, ScanInv, ScanClean, OpenedBefore, DueMet, DueSubscribed, DueServed,
       ScanComplete

LEMMA ThreadScanInv ==
  ASSUME TypeInv, ScanInv, NEW t \in Threads,
         ReceiveLog(t) \/ handleReceivedLogData(t)
  PROVE  ScanInv'
<1> USE DEF TypeInv, TypeOK, CallOK, ScanInv, Scanning, ScanClean, OpenedBefore, DueMet,
            DueSubscribed, DueServed, ScanComplete,
            sessionVars, scanVars, threadVars, handlerVars, clientVars
<1>1. CASE ReceiveLog(t)
  <2>1. /\ pc[t] = "idle" /\ pc'[t] \notin Scanning /\ due[t] = {} /\ returned[t] = {}
        /\ \A other \in Threads \ {t} :
             pc'[other] = pc[other] /\ logData'[other] = logData[other]
        /\ UNCHANGED <<sessionVars, target, scanVars, live>>
    BY <1>1 DEF ReceiveLog
  <2>2. ScanClean' /\ OpenedBefore' /\ DueMet'
    BY <2>1
  <2>3. DueSubscribed'
    <3>1. SUFFICES ASSUME NEW other \in Threads, NEW s \in due[other] \ returned[other]
                   PROVE  isBroadcastCandidateFor(subscription[s], StreamOf[logData'[other]])
      BY <2>1 DEF isBroadcastCandidateFor
    <3> QED  BY <2>1
  <2>4. DueServed'
    BY <2>1
  <2>5. ScanComplete'
    BY <2>1
  <2> QED  BY <2>2, <2>3, <2>4, <2>5
<1>2. CASE FindStorage(t)
  BY <1>2 DEF FindStorage
<1>3. CASE AddLog(t)
  BY <1>3 DEF AddLog
<1>4. CASE BeginBroadcast(t)
  <2>1. /\ Subscribers(StreamOf[logData[t]]) \subseteq registered
        /\ \A s \in Subscribers(StreamOf[logData[t]]) :
             isBroadcastCandidateFor(subscription[s], StreamOf[logData[t]])
    BY DEF Subscribers
  <2>2. DueMet' /\ OpenedBefore'
    BY <1>4, <2>1 DEF BeginBroadcast
  <2>3. DueSubscribed'
    BY <1>4, <2>1 DEF BeginBroadcast
  <2> QED  BY <1>4, <2>2, <2>3 DEF BeginBroadcast
<1>5. CASE NextSubscription(t)
  <2>1. PICK s \in (met[t] \cup registered) \ returned[t] :
           /\ returned' = [returned EXCEPT ![t] = @ \cup {s}]
           /\ IF isBroadcastCandidateFor(subscription[s], StreamOf[logData[t]])
              THEN target' = [target EXCEPT ![t] = s] /\ pc' = [pc EXCEPT ![t] = "send"]
              ELSE UNCHANGED <<target, pc>>
    BY <1>5 DEF NextSubscription
  <2>2. CASE isBroadcastCandidateFor(subscription[s], StreamOf[logData[t]])
    BY <1>5, <2>1, <2>2 DEF NextSubscription
  <2>3. CASE ~isBroadcastCandidateFor(subscription[s], StreamOf[logData[t]])
    BY <1>5, <2>1, <2>3 DEF NextSubscription
  <2> QED  BY <2>2, <2>3
<1>6. CASE SendLog(t)
  BY <1>6 DEF SendLog
<1>7. CASE SendLogFails(t)
  BY <1>7 DEF SendLogFails
<1>8. CASE EndBroadcast(t)
  BY <1>8 DEF EndBroadcast
<1>9. CASE ReturnToCollector(t)
  BY <1>9 DEF ReturnToCollector
<1> HIDE DEF TypeInv, ScanInv
<1> QED  BY <1>1, <1>2, <1>3, <1>4, <1>5, <1>6, <1>7, <1>8, <1>9 DEF handleReceivedLogData

LEMMA SessionScanInv ==
  ASSUME TypeInv, ScanInv, NEW s \in Sessions,
         ReceiveRequest(s) \/ handleLogBroadcastingRequest(s) \/ Container(s)
  PROVE  ScanInv'
<1> USE DEF TypeInv, TypeOK, CallOK, ScanInv, Scanning, ScanClean, OpenedBefore, DueMet,
            DueSubscribed, DueServed, ScanComplete,
            sessionVars, scanVars, threadVars, handlerVars, clientVars
<1>1. CASE UNCHANGED <<sessionVars, threadVars, live>>
  BY <1>1
<1>2. CASE Subscribe(s)
  BY <1>2 DEF Subscribe
<1>3. CASE Container(s)
  <2>1. CASE onWebSocketOpen(s)
    <3>1. \A t \in Threads : s \notin met[t]
      BY <2>1 DEF onWebSocketOpen
    <3>2. DueSubscribed'
      BY <2>1, <3>1 DEF onWebSocketOpen
    <3>3. DueMet' /\ OpenedBefore'
      BY <2>1, <3>1 DEF onWebSocketOpen
    <3>4. ScanComplete' /\ DueServed'
      BY <2>1, <3>1 DEF onWebSocketOpen
    <3> QED  BY <2>1, <3>2, <3>3, <3>4 DEF onWebSocketOpen
  <2>2. CASE LoseConnection(s)
    BY <2>2 DEF LoseConnection
  <2>3. CASE onWebSocketError(s)
    BY <2>3 DEF onWebSocketError
  <2>4. CASE onWebSocketClose(s)
    BY <2>4 DEF onWebSocketClose
  <2> QED  BY <1>3, <2>1, <2>2, <2>3, <2>4 DEF Container
<1>4. CASE ReceiveRequest(s) \/ (handleLogBroadcastingRequest(s) /\ ~Subscribe(s))
  <2>1. UNCHANGED <<sessionVars, threadVars, live>>
    BY <1>4 DEF handleLogBroadcastingRequest, ReceiveRequest, ParseRequest, CollectStorage,
                EndCollect, SendSnapshot, SendSnapshotFails, SubscribeFails, RefuseRequest,
                RespondError
  <2> QED  BY <1>1, <2>1
<1> HIDE DEF TypeInv, ScanInv
<1> QED  BY <1>2, <1>3, <1>4

LEMMA NextScanInv == TypeInv /\ ScanInv /\ [Next]_vars => ScanInv'
<1> SUFFICES ASSUME TypeInv, ScanInv, [Next]_vars PROVE ScanInv'
  OBVIOUS
<1>1. CASE Next
  BY <1>1, ThreadScanInv, SessionScanInv DEF Next
<1>2. CASE UNCHANGED vars
  BY <1>2 DEF ScanInv, ScanClean, OpenedBefore, DueMet, DueSubscribed, DueServed,
              ScanComplete, vars, sessionVars, scanVars, threadVars, clientVars
<1> QED  BY <1>1, <1>2

(***************************************************************************)
(* No session that stays subscribed during a broadcast is left out of it.  *)
(***************************************************************************)
THEOREM NobodyStarved == Spec => []NoSubscriberStarved
<1>1. ScanInv => NoSubscriberStarved
  BY DEF ScanInv, DueMet, DueServed, ScanComplete, NoSubscriberStarved
<1> QED  BY <1>1, InitScanInv, NextScanInv, TypeInvariant, PTL DEF Spec

-----------------------------------------------------------------------------
(***************************************************************************)
(* Only onWebSocketOpen registers a session, and only once.                *)
(***************************************************************************)
THEOREM NeverRegisteredAgain == Spec => RemovedForGood
<1>1. ASSUME [Next]_vars, NEW s \in Sessions,
             connection[s] # "new", s \notin registered
      PROVE  s \notin registered'
  <2> USE <1>1 DEF sessionVars, threadVars, handlerVars, clientVars
  <2>1. CASE \E t \in Threads : ReceiveLog(t) \/ handleReceivedLogData(t)
    BY <2>1 DEF ReceiveLog, handleReceivedLogData, FindStorage, AddLog, BeginBroadcast,
                NextSubscription, SendLog, SendLogFails, EndBroadcast, ReturnToCollector
  <2>2. CASE \E other \in Sessions :
               ReceiveRequest(other) \/ handleLogBroadcastingRequest(other)
    BY <2>2 DEF ReceiveRequest, handleLogBroadcastingRequest, ParseRequest,
                CollectStorage, EndCollect, SendSnapshot, SendSnapshotFails, Subscribe,
                SubscribeFails, RefuseRequest, RespondError
  <2>3. CASE \E other \in Sessions : Container(other)
    BY <2>3 DEF Container, onWebSocketOpen, LoseConnection, onWebSocketError,
                onWebSocketClose
  <2>4. CASE UNCHANGED vars
    BY <2>4 DEF vars
  <2> QED  BY <2>1, <2>2, <2>3, <2>4 DEF Next
<1>2. [Next]_vars =>
        [\A s \in Sessions :
           connection[s] # "new" /\ s \notin registered => s \notin registered']_vars
  BY <1>1
<1> QED  BY <1>2, PTL DEF Spec, RemovedForGood

-----------------------------------------------------------------------------
(***************************************************************************)
(* LogBroadcasting implements RecentLogs, for any capacity, any streams    *)
(* and any number of threads. Two facts carry the proof: a ring stays      *)
(* well-formed, so that adding to it drops the oldest log and no other,    *)
(* and no two calls carry the same log.                                    *)
(***************************************************************************)

(***************************************************************************)
(* A ring is filled from slot 0 on; once the pointer meets a log, every    *)
(* slot holds one.                                                         *)
(***************************************************************************)
WellFormed(ring) ==
  /\ ring \in Rings
  /\ \A slot \in Slots :
       slot < ring.currentLogDataPointer => ring.logDataBuffer[slot] \in Logs
  /\ Wrapped(ring) => \A slot \in Slots : ring.logDataBuffer[slot] \in Logs
  /\ ~Wrapped(ring) => \A slot \in Slots :
       slot >= ring.currentLogDataPointer => ring.logDataBuffer[slot] = NoLog

RingsOK ==
  \A stream \in Streams :
    logStorage[stream] # NoStorage => WellFormed(logStorage[stream])

\* Nobody else has the log of a call: neither another call nor an adapter.
OwnLog ==
  \A t \in Threads : pc[t] # "idle" =>
    /\ logData[t] \notin pending
    /\ \A other \in Threads :
         pc[other] # "idle" /\ logData[other] = logData[t] => other = t

RecentInv == RingsOK /\ OwnLog

-----------------------------------------------------------------------------
(* Rings and sequences *)

LEMMA NewRingOldestFirst == WellFormed(NewRing) /\ OldestFirst(NewRing) = <<>>
<1>1. ~Wrapped(NewRing)
  BY CapacityAssumption DEF Wrapped, NewRing, Slots
<1>2. WellFormed(NewRing)
  BY <1>1, NewRingType, CapacityAssumption DEF WellFormed, NewRing, Slots
<1>3. OldestFirst(NewRing) = [i \in 1 .. 0 |-> NewRing.logDataBuffer[i - 1]]
  BY <1>1 DEF OldestFirst, NewRing
<1> QED  BY <1>2, <1>3

\* The length and the elements of OldestFirst, as a sequence.
LEMMA OldestFirstType ==
  ASSUME NEW ring, WellFormed(ring)
  PROVE  LET n == IF Wrapped(ring) THEN Capacity ELSE ring.currentLogDataPointer
         IN  /\ OldestFirst(ring) \in Seq(Logs)
             /\ Len(OldestFirst(ring)) = n
             /\ \A i \in 1 .. n : OldestFirst(ring)[i] =
                  IF ~Wrapped(ring) THEN ring.logDataBuffer[i - 1]
                  ELSE IF ring.currentLogDataPointer + i - 1 < Capacity
                  THEN ring.logDataBuffer[ring.currentLogDataPointer + i - 1]
                  ELSE ring.logDataBuffer[ring.currentLogDataPointer + i - 1 - Capacity]
<1> DEFINE n == IF Wrapped(ring) THEN Capacity ELSE ring.currentLogDataPointer
<1> DEFINE logs == OldestFirst(ring)
<1>1. n \in Nat /\ n <= Capacity /\ ring.currentLogDataPointer \in Slots
  BY CapacityAssumption DEF WellFormed, Rings, Slots
<1>2. logs = [i \in 1 .. n |-> logs[i]]
  BY <1>1 DEF OldestFirst
<1>3. \A i \in 1 .. n : logs[i] =
         IF ~Wrapped(ring) THEN ring.logDataBuffer[i - 1]
         ELSE IF ring.currentLogDataPointer + i - 1 < Capacity
         THEN ring.logDataBuffer[ring.currentLogDataPointer + i - 1]
         ELSE ring.logDataBuffer[ring.currentLogDataPointer + i - 1 - Capacity]
  BY <1>1 DEF OldestFirst
<1>4. \A i \in 1 .. n : logs[i] \in Logs
  <2>1. SUFFICES ASSUME NEW i \in 1 .. n PROVE logs[i] \in Logs
    OBVIOUS
  <2>2. CASE Wrapped(ring)
    BY <1>1, <1>3, <2>2, CapacityAssumption DEF WellFormed, Slots
  <2>3. CASE ~Wrapped(ring)
    <3>1. i - 1 \in Slots /\ i - 1 < ring.currentLogDataPointer
      BY <1>1, <2>3, CapacityAssumption DEF Slots
    <3> QED  BY <1>3, <2>3, <3>1 DEF WellFormed
  <2> QED  BY <2>2, <2>3
<1> HIDE DEF logs, n
<1>5. logs \in [1 .. n -> Logs]
  BY <1>2, <1>4
<1>6. logs \in Seq(Logs)
  BY <1>1, <1>5, SeqDef
<1>7. Len(logs) = n
  BY <1>1, <1>5, <1>6, LenProperties
<1> QED  BY <1>3, <1>6, <1>7 DEF logs, n

(***************************************************************************)
(* add appends the log and drops the oldest one when the ring is full: the *)
(* wrap-around of the pointer loses no other log and keeps the order.      *)
(***************************************************************************)
LEMMA AddDropsOldest ==
  ASSUME NEW ring, WellFormed(ring), NEW log \in Logs
  PROVE  /\ WellFormed(AddToRing(ring, log))
         /\ OldestFirst(AddToRing(ring, log)) =
              Recent!DropOldest(Append(OldestFirst(ring), log))
<1> DEFINE next  == AddToRing(ring, log)
           old   == OldestFirst(ring)
           new   == OldestFirst(next)
           p     == ring.currentLogDataPointer
           added == Append(old, log)
<1>1. /\ ring \in Rings /\ p \in Slots /\ Capacity \in Nat /\ Capacity > 0
      /\ next \in Rings
      /\ next.logDataBuffer = [ring.logDataBuffer EXCEPT ![p] = log]
      /\ next.currentLogDataPointer = IF p < Capacity - 1 THEN p + 1 ELSE 0
  BY AddToRingType, CapacityAssumption DEF WellFormed, Rings, AddToRing, NextPointer
<1>2. Wrapped(next) <=> Wrapped(ring) \/ p = Capacity - 1
  BY <1>1, NoLogAssumption DEF Wrapped, WellFormed, Rings, Slots
<1>3. WellFormed(next)
  <2>1. CASE Wrapped(ring)
    BY <1>1, <1>2, <2>1 DEF WellFormed, Rings, Slots
  <2>2. CASE ~Wrapped(ring) /\ p = Capacity - 1
    BY <1>1, <1>2, <2>2 DEF WellFormed, Rings, Slots
  <2>3. CASE ~Wrapped(ring) /\ p < Capacity - 1
    BY <1>1, <1>2, <2>3 DEF WellFormed, Rings, Slots
  <2> QED  BY <1>1, <2>1, <2>2, <2>3 DEF Slots
<1>4. /\ old \in Seq(Logs) /\ Len(old) = IF Wrapped(ring) THEN Capacity ELSE p
      /\ new \in Seq(Logs)
      /\ Len(new) = IF Wrapped(next) THEN Capacity ELSE next.currentLogDataPointer
  BY <1>3, OldestFirstType
<1>5. /\ added \in Seq(Logs) /\ Len(added) = Len(old) + 1
      /\ \A i \in 1 .. Len(old) : added[i] = old[i]
      /\ added[Len(old) + 1] = log
  BY <1>4, AppendProperties
<1>6. CASE ~Wrapped(ring)
  <2>1. Len(new) = p + 1 /\ Len(added) = p + 1
    BY <1>1, <1>2, <1>4, <1>5, <1>6 DEF Slots
  <2>2. \A i \in 1 .. p + 1 : new[i] = added[i]
    <3>1. SUFFICES ASSUME NEW i \in 1 .. p + 1 PROVE new[i] = added[i]
      OBVIOUS
    <3>2. new[i] = next.logDataBuffer[i - 1]
      <4>1. CASE p < Capacity - 1
        <5>1. ~Wrapped(next) /\ i \in 1 .. next.currentLogDataPointer
          BY <1>1, <1>2, <1>6, <4>1 DEF Slots
        <5> QED  BY <1>3, <5>1, OldestFirstType
      <4>2. CASE p = Capacity - 1
        <5>1. Wrapped(next) /\ next.currentLogDataPointer = 0 /\ i \in 1 .. Capacity
          BY <1>1, <1>2, <4>2 DEF Slots
        <5>2. 0 + i - 1 < Capacity /\ 0 + i - 1 = i - 1
          BY <1>1, <5>1
        <5> QED  BY <1>3, <5>1, <5>2, OldestFirstType
      <4> QED  BY <1>1, <4>1, <4>2 DEF Slots
    <3>3. i <= p => added[i] = ring.logDataBuffer[i - 1]
      BY <1>1, <1>4, <1>5, <1>6, OldestFirstType DEF Slots
    <3> QED  BY <1>1, <1>4, <1>5, <1>6, <3>2, <3>3 DEF Slots, Rings
  <2>3. Recent!DropOldest(added) = added
    BY <1>1, <2>1 DEF Recent!DropOldest, Slots
  <2> HIDE DEF new, added
  <2>4. new = added
    BY <1>4, <1>5, <2>1, <2>2, SeqEqual
  <2> QED  BY <1>3, <2>3, <2>4 DEF new, added
<1>7. CASE Wrapped(ring)
  <2>1. Len(new) = Capacity /\ Len(added) = Capacity + 1 /\ added # <<>>
    BY <1>1, <1>2, <1>4, <1>5, <1>7
  <2>2. Recent!DropOldest(added) = Tail(added)
    BY <1>1, <2>1 DEF Recent!DropOldest
  <2>3. /\ Tail(added) \in Seq(Logs) /\ Len(Tail(added)) = Capacity
        /\ \A i \in 1 .. Capacity : Tail(added)[i] = added[i + 1]
    BY <1>1, <1>5, <2>1, HeadTailProperties
  <2>4. \A i \in 1 .. Capacity : new[i] = added[i + 1]
    <3>1. SUFFICES ASSUME NEW i \in 1 .. Capacity PROVE new[i] = added[i + 1]
      OBVIOUS
    <3> DEFINE q == next.currentLogDataPointer
    <3>2. new[i] = IF q + i - 1 < Capacity THEN next.logDataBuffer[q + i - 1]
                   ELSE next.logDataBuffer[q + i - 1 - Capacity]
      BY <1>2, <1>3, <1>7, OldestFirstType
    <3>3. i < Capacity =>
            added[i + 1] = IF p + i < Capacity THEN ring.logDataBuffer[p + i]
                           ELSE ring.logDataBuffer[p + i - Capacity]
      BY <1>1, <1>4, <1>5, <1>7, OldestFirstType
    <3>4. i = Capacity => added[i + 1] = log
      BY <1>4, <1>5, <1>7
    <3> HIDE DEF q, new, added, next
    <3>5. \A slot \in Slots : slot # p => next.logDataBuffer[slot] = ring.logDataBuffer[slot]
      BY <1>1 DEF Rings
    <3>6. next.logDataBuffer[p] = log
      BY <1>1 DEF Rings
    <3>7. CASE p < Capacity - 1
      <4>1. q = p + 1
        BY <1>1, <3>7 DEF q
      <4>2. CASE p + i < Capacity
        <5>1. p + i \in Slots /\ p + i # p /\ q + i - 1 = p + i /\ i < Capacity
          BY <1>1, <4>1, <4>2 DEF Slots
        <5> QED  BY <3>2, <3>3, <3>5, <4>2, <5>1
      <4>3. CASE p + i >= Capacity /\ i < Capacity
        <5>1. /\ p + i - Capacity \in Slots /\ p + i - Capacity # p
              /\ q + i - 1 - Capacity = p + i - Capacity
              /\ ~(p + i < Capacity) /\ ~(q + i - 1 < Capacity)
          BY <1>1, <4>1, <4>3 DEF Slots
        <5> QED  BY <3>2, <3>3, <3>5, <4>3, <5>1
      <4>4. CASE i = Capacity
        <5>1. ~(q + i - 1 < Capacity) /\ q + i - 1 - Capacity = p
          BY <1>1, <4>1, <4>4 DEF Slots
        <5> QED  BY <3>2, <3>4, <3>6, <4>4, <5>1
      <4> QED  BY <1>1, <4>2, <4>3, <4>4 DEF Slots
    <3>8. CASE p = Capacity - 1
      <4>1. q = 0 /\ q + i - 1 = i - 1 /\ i - 1 < Capacity /\ i - 1 \in Slots
        BY <1>1, <3>8 DEF q, Slots
      <4>2. CASE i < Capacity
        <5>1. ~(p + i < Capacity) /\ p + i - Capacity = i - 1 /\ i - 1 # p
          BY <1>1, <3>8, <4>2 DEF Slots
        <5> QED  BY <3>2, <3>3, <3>5, <4>1, <4>2, <5>1
      <4>3. CASE i = Capacity
        BY <3>2, <3>4, <3>6, <3>8, <4>1, <4>3
      <4> QED  BY <1>1, <4>2, <4>3
    <3> QED  BY <1>1, <3>7, <3>8 DEF Slots
  <2> HIDE DEF new, added
  <2>5. new = Tail(added)
    BY <1>4, <2>1, <2>3, <2>4, SeqEqual
  <2> QED  BY <1>3, <2>2, <2>5 DEF new, added
<1> QED  BY <1>6, <1>7

-----------------------------------------------------------------------------
(* The invariant *)

(***************************************************************************)
(* A step of a broadcast: to the rings it is a thread that has added its   *)
(* log and carries it on, or lets it go.                                   *)
(***************************************************************************)
BroadcastStep(t) ==
  /\ pc[t] \notin {"idle", "find", "add"} /\ pc'[t] \notin {"find", "add"}
  /\ logData'[t] = logData[t] \/ pc'[t] = "idle"
  /\ \A other \in Threads \ {t} :
       pc'[other] = pc[other] /\ logData'[other] = logData[other]
  /\ UNCHANGED <<logStorage, pending>>

\* The kinds of steps the rings and the calls that fill them tell apart.
LEMMA StepKinds ==
  ASSUME TypeInv, [Next]_vars
  PROVE  \/ UNCHANGED <<logStorage, pending, pc, logData>>
         \/ \E t \in Threads : ReceiveLog(t) \/ FindStorage(t) \/ AddLog(t) \/ BroadcastStep(t)
<1> USE DEF TypeInv, TypeOK, threadVars, scanVars
<1>1. ASSUME NEW t \in Threads, handleReceivedLogData(t), ~FindStorage(t), ~AddLog(t)
      PROVE  BroadcastStep(t)
  <2>1. CASE BeginBroadcast(t)
    BY <2>1 DEF BeginBroadcast, BroadcastStep
  <2>2. CASE NextSubscription(t)
    BY <2>2 DEF NextSubscription, BroadcastStep
  <2>3. CASE SendLog(t)
    BY <2>3 DEF SendLog, BroadcastStep
  <2>4. CASE SendLogFails(t)
    BY <2>4 DEF SendLogFails, BroadcastStep
  <2>5. CASE EndBroadcast(t)
    BY <2>5 DEF EndBroadcast, BroadcastStep
  <2>6. CASE ReturnToCollector(t)
    BY <2>6 DEF ReturnToCollector, BroadcastStep
  <2> HIDE DEF TypeInv
  <2> QED  BY <1>1, <2>1, <2>2, <2>3, <2>4, <2>5, <2>6 DEF handleReceivedLogData
<1>2. ASSUME NEW s \in Sessions,
             ReceiveRequest(s) \/ handleLogBroadcastingRequest(s) \/ Container(s)
      PROVE  UNCHANGED <<logStorage, pending, pc, logData>>
  <2>1. CASE ReceiveRequest(s) \/ handleLogBroadcastingRequest(s)
    BY <2>1 DEF ReceiveRequest, handleLogBroadcastingRequest, ParseRequest, CollectStorage,
                EndCollect, SendSnapshot, SendSnapshotFails, Subscribe, SubscribeFails,
                RefuseRequest, RespondError
  <2>2. CASE Container(s)
    BY <2>2 DEF Container, onWebSocketOpen, LoseConnection, onWebSocketError,
                onWebSocketClose
  <2> QED  BY <1>2, <2>1, <2>2
<1>3. CASE UNCHANGED vars
  BY <1>3 DEF vars
<1> HIDE DEF TypeInv
<1> QED  BY <1>1, <1>2, <1>3 DEF Next

LEMMA InitRecentInv == Init => RecentInv
BY DEF Init, RecentInv, RingsOK, OwnLog

LEMMA NextRecentInv == TypeInv /\ RecentInv /\ [Next]_vars => RecentInv'
<1> SUFFICES ASSUME TypeInv, RecentInv, [Next]_vars PROVE RecentInv'
  OBVIOUS
<1> USE DEF TypeInv, TypeOK, CallOK, RecentInv, RingsOK, OwnLog,
            threadVars, handlerVars, clientVars
<1>1. CASE UNCHANGED <<logStorage, pending, pc, logData>>
  BY <1>1
<1>2. ASSUME NEW t \in Threads, ReceiveLog(t) PROVE RecentInv'
  <2>1. PICK log \in pending :
           /\ pending' = pending \ {log}
           /\ IF StreamOf[log] = NoStream THEN UNCHANGED <<pc, logData>>
              ELSE /\ logData' = [logData EXCEPT ![t] = log]
                   /\ pc' = [pc EXCEPT ![t] = "find"]
    BY <1>2 DEF ReceiveLog
  <2>2. RingsOK'
    BY <1>2 DEF ReceiveLog
  <2>3. OwnLog'
    <3>1. CASE StreamOf[log] = NoStream
      BY <2>1, <3>1
    <3>2. CASE StreamOf[log] # NoStream
      <4>1. pc' = [pc EXCEPT ![t] = "find"] /\ logData' = [logData EXCEPT ![t] = log]
        BY <2>1, <3>2
      <4>2. \A u \in Threads \ {t} : pc'[u] = pc[u] /\ logData'[u] = logData[u]
        BY <4>1
      <4>3. logData'[t] = log
        BY <4>1
      <4>4. \A u \in Threads \ {t} : pc[u] # "idle" => logData[u] \notin pending
        BY OwnLog
      <4>5. log \in pending /\ pending' = pending \ {log}
        BY <2>1
      <4> QED  BY ONLY OwnLog, <4>2, <4>3, <4>4, <4>5 DEF OwnLog
    <3> QED  BY <3>1, <3>2
  <2> QED  BY <2>2, <2>3
<1>3. ASSUME NEW t \in Threads, FindStorage(t) PROVE RecentInv'
  <2>1. \A stream \in Streams :
          logStorage'[stream] \in {logStorage[stream], NewRing}
    BY <1>3 DEF FindStorage, computeIfAbsent
  <2>2. RingsOK'
    BY <2>1, NewRingOldestFirst
  <2>3. OwnLog'
    BY <1>3 DEF FindStorage
  <2> QED  BY <2>2, <2>3
<1>4. ASSUME NEW t \in Threads, AddLog(t) PROVE RecentInv'
  <2> DEFINE own == StreamOf[logData[t]]
  <2>1. own \in Streams /\ logData[t] \in Logs /\ WellFormed(logStorage[own])
    BY <1>4 DEF AddLog
  <2>2. WellFormed(AddToRing(logStorage[own], logData[t]))
    BY <2>1, AddDropsOldest
  <2>3. \A stream \in Streams :
          logStorage'[stream] =
            IF stream = own THEN AddToRing(logStorage[own], logData[t])
                            ELSE logStorage[stream]
    BY <1>4, <2>1 DEF AddLog
  <2>4. \A stream \in Streams :
          logStorage'[stream] # NoStorage => WellFormed(logStorage'[stream])
    <3> HIDE DEF own
    <3> QED  BY <2>2, <2>3
  <2>5. RingsOK'
    BY <2>4
  <2>6. OwnLog'
    BY <1>4 DEF AddLog
  <2> QED  BY <2>5, <2>6
<1>5. ASSUME NEW t \in Threads, BroadcastStep(t) PROVE RecentInv'
  <2>1. RingsOK'
    BY <1>5 DEF BroadcastStep
  <2>2. OwnLog'
    BY <1>5 DEF BroadcastStep
  <2> QED  BY <2>1, <2>2
<1> HIDE DEF TypeInv, RecentInv
<1> QED  BY <1>1, <1>2, <1>3, <1>4, <1>5, StepKinds

-----------------------------------------------------------------------------
(* The refinement *)

KeptAll == [stream \in Streams |-> KeptLogs(stream)]

LEMMA InitRefines == Init => Recent!Init
<1> SUFFICES ASSUME Init PROVE Recent!Init
  OBVIOUS
<1>1. KeptAll = [stream \in Streams |-> <<>>]
  BY DEF Init, KeptAll, KeptLogs
<1>2. Unkept = {log \in Logs : StreamOf[log] # NoStream}
  BY DEF Init, Unkept
<1> QED  BY <1>1, <1>2 DEF Recent!Init, Recent!Streamed, KeptAll

\* A step that adds no log leaves what is kept and what is awaited as they are.
LEMMA NextRefines ==
  TypeInv /\ RecentInv /\ [Next]_vars => [Recent!Next]_(Recent!vars)
<1> SUFFICES ASSUME TypeInv, RecentInv, [Next]_vars
             PROVE  Recent!Next \/ UNCHANGED <<KeptAll, Unkept>>
  BY DEF KeptAll, Recent!vars
<1> USE DEF TypeInv, TypeOK, CallOK, RecentInv, RingsOK, OwnLog
<1>1. CASE UNCHANGED <<logStorage, pending, pc, logData>>
  BY <1>1 DEF KeptAll, KeptLogs, Unkept
<1>2. ASSUME NEW t \in Threads, ReceiveLog(t) PROVE UNCHANGED <<KeptAll, Unkept>>
  <2>1. PICK log \in pending :
           /\ pending' = pending \ {log}
           /\ IF StreamOf[log] = NoStream THEN UNCHANGED <<pc, logData>>
              ELSE /\ logData' = [logData EXCEPT ![t] = log]
                   /\ pc' = [pc EXCEPT ![t] = "find"]
    BY <1>2 DEF ReceiveLog
  <2>2. UNCHANGED KeptAll
    BY <1>2 DEF ReceiveLog, KeptAll, KeptLogs
  <2>3. UNCHANGED Unkept
    BY <1>2, <2>1 DEF ReceiveLog, Unkept
  <2> QED  BY <2>2, <2>3
<1>3. ASSUME NEW t \in Threads, FindStorage(t) PROVE UNCHANGED <<KeptAll, Unkept>>
  <2>1. \A stream \in Streams : KeptLogs(stream)' = KeptLogs(stream)
    <3>1. SUFFICES ASSUME NEW stream \in Streams PROVE KeptLogs(stream)' = KeptLogs(stream)
      OBVIOUS
    <3>2. \/ logStorage'[stream] = logStorage[stream]
          \/ logStorage[stream] = NoStorage /\ logStorage'[stream] = NewRing
      BY <1>3 DEF FindStorage, computeIfAbsent
    <3> QED  BY <3>2, NewRingOldestFirst DEF KeptLogs
  <2>2. UNCHANGED KeptAll
    BY <2>1 DEF KeptAll
  <2>3. UNCHANGED Unkept
    BY <1>3 DEF FindStorage, Unkept, threadVars
  <2> QED  BY <2>2, <2>3
<1>4. ASSUME NEW t \in Threads, AddLog(t) PROVE Recent!Next
  <2> DEFINE log == logData[t]  own == StreamOf[log]
  <2>1. /\ own \in Streams /\ log \in Logs /\ own # NoStream
        /\ logStorage[own] # NoStorage /\ WellFormed(logStorage[own])
    BY <1>4, NoStreamAssumption DEF AddLog
  <2>2. /\ logStorage'[own] = AddToRing(logStorage[own], log)
        /\ \A stream \in Streams \ {own} : logStorage'[stream] = logStorage[stream]
    BY <1>4, <2>1 DEF AddLog
  <2>3. /\ WellFormed(AddToRing(logStorage[own], log))
        /\ OldestFirst(AddToRing(logStorage[own], log)) =
             Recent!DropOldest(Append(OldestFirst(logStorage[own]), log))
    BY <2>1, AddDropsOldest
  <2>4. \A stream \in Streams :
          stream = own => KeptLogs(stream)' = Recent!DropOldest(Append(KeptLogs(stream), log))
    <3>1. logStorage'[own] # NoStorage
      BY <2>2, <2>3, NoStorageAssumption DEF WellFormed
    <3> HIDE DEF log, own
    <3> QED  BY <2>1, <2>2, <2>3, <3>1 DEF KeptLogs
  <2>5. \A stream \in Streams \ {own} : KeptLogs(stream)' = KeptLogs(stream)
    BY <2>2 DEF KeptLogs
  <2>6. KeptAll' = [KeptAll EXCEPT ![own] = Recent!DropOldest(Append(@, log))]
    <3> HIDE DEF log, own
    <3> QED  BY <2>1, <2>4, <2>5 DEF KeptAll
  <2>7. log \in Unkept
    BY <1>4, <2>1 DEF AddLog, Unkept
  <2>8. Unkept' = Unkept \ {log}
    BY <1>4, <2>1 DEF AddLog, Unkept
  <2>9. Recent!Receive(log)
    BY <2>6, <2>7, <2>8 DEF Recent!Receive, KeptAll
  <2> QED  BY <2>1, <2>9 DEF Recent!Next
<1>5. ASSUME NEW t \in Threads, BroadcastStep(t) PROVE UNCHANGED <<KeptAll, Unkept>>
  <2>1. UNCHANGED KeptAll
    BY <1>5 DEF BroadcastStep, KeptAll, KeptLogs
  <2>2. UNCHANGED Unkept
    BY <1>5 DEF BroadcastStep, Unkept
  <2> QED  BY <2>1, <2>2
<1> HIDE DEF TypeInv, RecentInv
<1> QED  BY <1>1, <1>2, <1>3, <1>4, <1>5, StepKinds

(***************************************************************************)
(* Whatever the threads' interleaving, the rings keep each log once, under *)
(* its own stream, and the last Capacity of a stream in the order of add.  *)
(***************************************************************************)
THEOREM KeepsRecentLogs == Spec => RecentLogsKept
BY InitRecentInv, NextRecentInv, TypeInvariant, InitRefines, NextRefines, PTL
   DEF Spec, RecentLogsKept, Recent!Spec
=============================================================================
