--------------------------- MODULE LogBroadcasting ---------------------------
(***************************************************************************)
(* The online log feed: LogBroadcastingServiceImpl, the web socket         *)
(* endpoint that feeds it sessions and requests, and the threads of the    *)
(* adapters that bring it logs through SimpleLogCollector.saveLog.         *)
(*                                                                         *)
(* Three kinds of actors share two concurrent maps without a common lock:  *)
(*   - an ingesting thread finds or creates the ring of the log's stream,  *)
(*     adds the log, then walks over the subscriptions and sends the log   *)
(*     to each session that is subscribed to the stream;                   *)
(*   - the handler of a session's request collects the rings it asks for,  *)
(*     sends them as one response and then subscribes the session;         *)
(*   - the web socket container opens sessions, loses connections and      *)
(*     removes the sessions it closed.                                     *)
(***************************************************************************)
EXTENDS InMemoryLogStorage, FiniteSets

CONSTANTS
  Hosts, Programs,
  NoStream,     \* the stream of a log whose host or program is null
  StreamOf,     \* the host and program of each log
  NoStorage,    \* the absent ring of a stream
  Sessions,     \* web socket sessions; one is never opened twice
  NoSession,
  Threads,      \* threads that call handleReceivedLogData
  ClientRequests,  \* the requests clients make
  MaxRequests   \* bound: requests a session's client sends

Streams == Hosts \X Programs

ASSUME StreamAssumption == StreamOf \in [Logs -> Streams \cup {NoStream}]
ASSUME NoStreamAssumption == NoStream \notin Streams
ASSUME NoStorageAssumption == NoStorage \notin Rings
ASSUME NoSessionAssumption == NoSession \notin Sessions
ASSUME MaxRequestsAssumption == MaxRequests \in Nat

VARIABLES
  logStorage,    \* the ring of each stream; the map of maps, flattened
  registered,    \* the sessions that are keys of subscriptionStorage
  subscription,  \* the value of each session's AtomicReference
  connection,    \* the transport of each session
  pending,       \* logs no adapter has received yet
  pc,            \* where each ingesting thread is
  logData,       \* the log it carries
  met,           \* sessions registered when its iterator was created
  returned,      \* sessions its iterator has returned
  target,        \* the session it is sending to
  due,           \* history: sessions subscribed to its log since the scan began
  handler,       \* where the request handler of each session is
  request,       \* the request it serves
  unread,        \* streams it has still to look up
  found,         \* streams whose ring it has read
  collected,     \* the logs it has read
  requests,      \* requests received from each session
  snapshot,      \* history: logs delivered to a client in responses to requests
  granted,       \* history: streams for which such a response was delivered
  live           \* history: logs delivered to a client by a broadcast

sessionVars == <<registered, subscription, connection>>
scanVars    == <<met, returned, due>>
threadVars  == <<pending, pc, logData, target, scanVars>>
handlerVars == <<handler, request, unread, found, collected, requests>>
requestVars == <<request, unread, found, collected, requests>>
clientVars  == <<snapshot, granted, live>>
vars == <<logStorage, sessionVars, threadVars, handlerVars, clientVars>>

-----------------------------------------------------------------------------
(* Subscriptions and requests *)

Subscriptions == [hosts: SUBSET Hosts, programs: SUBSET Programs,
                  state: {"INITIAL", "ONLINE_BROADCASTING"}]

initialState == [hosts |-> {}, programs |-> {}, state |-> "INITIAL"]

\* MALFORMED: a text that jsonMapper.readValue or State.valueOf rejects.
Requests == [hosts: SUBSET Hosts, programs: SUBSET Programs,
             state: {"INITIAL", "ONLINE_BROADCASTING", "MALFORMED"}]

ASSUME RequestAssumption == ClientRequests \subseteq Requests

NoRequest == [hosts |-> {}, programs |-> {}, state |-> "MALFORMED"]

\* Mutant: the host of the log is not compared.
isBroadcastCandidateFor_AnyHost(sub, stream) ==
  /\ sub.state = "ONLINE_BROADCASTING"
  /\ stream[2] \in sub.programs

isBroadcastCandidateFor(sub, stream) ==
  /\ sub.state = "ONLINE_BROADCASTING"
  /\ stream \in sub.hosts \X sub.programs

Subscribers(stream) ==
  {s \in registered : isBroadcastCandidateFor(subscription[s], stream)}

-----------------------------------------------------------------------------
Init ==
  /\ logStorage = [stream \in Streams |-> NoStorage]
  /\ registered = {}
  /\ subscription = [s \in Sessions |-> initialState]
  /\ connection = [s \in Sessions |-> "new"]
  /\ pending = Logs
  /\ pc = [t \in Threads |-> "idle"]
  /\ logData = [t \in Threads |-> NoLog]
  /\ met = [t \in Threads |-> {}]
  /\ returned = [t \in Threads |-> {}]
  /\ target = [t \in Threads |-> NoSession]
  /\ due = [t \in Threads |-> {}]
  /\ handler = [s \in Sessions |-> "idle"]
  /\ request = [s \in Sessions |-> NoRequest]
  /\ unread = [s \in Sessions |-> {}]
  /\ found = [s \in Sessions |-> {}]
  /\ collected = [s \in Sessions |-> {}]
  /\ requests = [s \in Sessions |-> 0]
  /\ snapshot = [s \in Sessions |-> {}]
  /\ granted = [s \in Sessions |-> {}]
  /\ live = [s \in Sessions |-> {}]

-----------------------------------------------------------------------------
(* Ingesting threads: handleReceivedLogData *)

\* saveLog hands a log over; one without a host or a program goes no further.
ReceiveLog(t) ==
  /\ pc[t] = "idle"
  /\ \E log \in pending :
       /\ pending' = pending \ {log}
       /\ IF StreamOf[log] = NoStream THEN UNCHANGED <<pc, logData>>
          ELSE /\ logData' = [logData EXCEPT ![t] = log]
               /\ pc' = [pc EXCEPT ![t] = "find"]
  /\ UNCHANGED <<logStorage, sessionVars, target, scanVars, handlerVars, clientVars>>

\* Mutant: put instead of computeIfAbsent.
computeIfAbsent_Put(stream) == [logStorage EXCEPT ![stream] = NewRing]

computeIfAbsent(stream) ==
  [logStorage EXCEPT ![stream] = IF @ = NoStorage THEN NewRing ELSE @]

FindStorage(t) ==
  /\ pc[t] = "find"
  /\ logStorage' = computeIfAbsent(StreamOf[logData[t]])
  /\ pc' = [pc EXCEPT ![t] = "add"]
  /\ UNCHANGED <<sessionVars, pending, logData, target, scanVars, handlerVars,
                 clientVars>>

AddLog(t) ==
  /\ pc[t] = "add"
  /\ logStorage' = [logStorage EXCEPT ![StreamOf[logData[t]]] = AddToRing(@, logData[t])]
  /\ pc' = [pc EXCEPT ![t] = "broadcast"]
  /\ UNCHANGED <<sessionVars, pending, logData, target, scanVars, handlerVars,
                 clientVars>>

\* entrySet().iterator(): it will return every entry of now that is not removed.
BeginBroadcast(t) ==
  /\ pc[t] = "broadcast"
  /\ met' = [met EXCEPT ![t] = registered]
  /\ due' = [due EXCEPT ![t] = Subscribers(StreamOf[logData[t]])]
  /\ pc' = [pc EXCEPT ![t] = "next"]
  /\ UNCHANGED <<logStorage, sessionVars, pending, logData, target, returned,
                 handlerVars, clientVars>>

(***************************************************************************)
(* ConcurrentHashMap's iterator is weakly consistent: it may or may not    *)
(* return a session opened since it was created, and, having fetched the   *)
(* next entry ahead, it may return one removed since, with the value its   *)
(* reference still holds.                                                  *)
(***************************************************************************)
NextSubscription(t) ==
  /\ pc[t] = "next"
  /\ \E s \in (met[t] \cup registered) \ returned[t] :
       /\ returned' = [returned EXCEPT ![t] = @ \cup {s}]
       /\ IF isBroadcastCandidateFor(subscription[s], StreamOf[logData[t]])
          THEN /\ target' = [target EXCEPT ![t] = s]
               /\ pc' = [pc EXCEPT ![t] = "send"]
          ELSE UNCHANGED <<pc, target>>
  /\ UNCHANGED <<logStorage, sessionVars, pending, logData, met, due, handlerVars,
                 clientVars>>

(***************************************************************************)
(* synchronized (session) { sendText }: a write is one step here, so that  *)
(* two broadcasts exclude each other by themselves. The responses of the   *)
(* request handler are written without the monitor.                        *)
(***************************************************************************)
SendLog(t) ==
  /\ pc[t] = "send"
  /\ connection[target[t]] = "open"
  /\ live' = [live EXCEPT ![target[t]] = @ \cup {logData[t]}]
  /\ target' = [target EXCEPT ![t] = NoSession]
  /\ pc' = [pc EXCEPT ![t] = "next"]
  /\ UNCHANGED <<logStorage, sessionVars, pending, logData, scanVars, handlerVars,
                 snapshot, granted>>

\* Mutant: the failure of one session ends the scan.
SendLogFails_EndsScan(t) ==
  /\ pc[t] = "send"
  /\ connection[target[t]] # "open"
  /\ registered' = registered \ {target[t]}
  /\ target' = [target EXCEPT ![t] = NoSession]
  /\ pc' = [pc EXCEPT ![t] = "done"]
  /\ UNCHANGED <<logStorage, subscription, connection, pending, logData, scanVars,
                 handlerVars, clientVars>>

\* Mutant: the send is tried again.
SendLogFails_TriesAgain(t) ==
  /\ pc[t] = "send"
  /\ connection[target[t]] # "open"
  /\ registered' = registered \ {target[t]}
  /\ UNCHANGED <<logStorage, subscription, connection, threadVars, handlerVars,
                 clientVars>>

(***************************************************************************)
(* IOException: the entry is removed, the session closed and the scan goes *)
(* on. The connection is lost already, so close() changes nothing but that *)
(* the container will call the endpoint back.                              *)
(***************************************************************************)
SendLogFails(t) ==
  /\ pc[t] = "send"
  /\ connection[target[t]] # "open"
  /\ registered' = registered \ {target[t]}
  /\ target' = [target EXCEPT ![t] = NoSession]
  /\ pc' = [pc EXCEPT ![t] = "next"]
  /\ UNCHANGED <<logStorage, subscription, connection, pending, logData, scanVars,
                 handlerVars, clientVars>>

EndBroadcast(t) ==
  /\ pc[t] = "next"
  /\ met[t] \cap registered \subseteq returned[t]
  /\ pc' = [pc EXCEPT ![t] = "done"]
  /\ UNCHANGED <<logStorage, sessionVars, pending, logData, target, scanVars,
                 handlerVars, clientVars>>

\* The call returns to saveLog, and its local variables are gone.
ReturnToCollector(t) ==
  /\ pc[t] = "done"
  /\ pc' = [pc EXCEPT ![t] = "idle"]
  /\ logData' = [logData EXCEPT ![t] = NoLog]
  /\ met' = [met EXCEPT ![t] = {}]
  /\ returned' = [returned EXCEPT ![t] = {}]
  /\ due' = [due EXCEPT ![t] = {}]
  /\ UNCHANGED <<logStorage, sessionVars, pending, target, handlerVars, clientVars>>

-----------------------------------------------------------------------------
(* The request handler of a session: handleLogBroadcastingRequest *)

ReceiveRequest(s) ==
  /\ connection[s] = "open"
  /\ handler[s] = "idle"
  /\ requests[s] < MaxRequests
  /\ requests' = [requests EXCEPT ![s] = @ + 1]
  /\ handler' = [handler EXCEPT ![s] = "parse"]
  /\ \E req \in ClientRequests : request' = [request EXCEPT ![s] = req]
  /\ UNCHANGED <<logStorage, sessionVars, threadVars, unread, found, collected,
                 clientVars>>

ReturnFromRequest(s) ==
  /\ handler' = [handler EXCEPT ![s] = "idle"]
  /\ request' = [request EXCEPT ![s] = NoRequest]
  /\ unread' = [unread EXCEPT ![s] = {}]
  /\ found' = [found EXCEPT ![s] = {}]
  /\ collected' = [collected EXCEPT ![s] = {}]
  /\ UNCHANGED requests

(***************************************************************************)
(* What becomes of a request: an error if it cannot be parsed or the       *)
(* session is no longer in subscriptionStorage (NullPointerException);     *)
(* nothing at all if the session is online and does not ask to start over. *)
(***************************************************************************)
Unreadable(s, req) ==
  \/ req.state = "MALFORMED"
  \/ req.state = "ONLINE_BROADCASTING" /\ s \notin registered

StartsOver(s, req) == "INITIAL" \in {req.state, subscription[s].state}

NextStage(s, req) ==
  IF Unreadable(s, req) THEN "fail"
  ELSE IF ~StartsOver(s, req) THEN "idle"
  ELSE IF req.hosts = {} \/ req.programs = {} THEN "refuse" ELSE "collect"

ParseRequest(s) ==
  /\ handler[s] = "parse"
  /\ IF NextStage(s, request[s]) = "idle" THEN ReturnFromRequest(s)
     ELSE /\ handler' = [handler EXCEPT ![s] = NextStage(s, request[s])]
          /\ unread' = [unread EXCEPT ![s] = request[s].hosts \X request[s].programs]
          /\ UNCHANGED <<request, found, collected, requests>>
  /\ UNCHANGED <<logStorage, sessionVars, threadVars, clientVars>>

\* One asLogList of getLogDataListByHostsAndPrograms; the rings are not read at once.
CollectStorage(s) ==
  /\ handler[s] = "collect"
  /\ \E stream \in unread[s] :
       /\ unread' = [unread EXCEPT ![s] = @ \ {stream}]
       /\ IF logStorage[stream] = NoStorage THEN UNCHANGED <<found, collected>>
          ELSE /\ found' = [found EXCEPT ![s] = @ \cup {stream}]
               /\ collected' = [collected EXCEPT ![s] = @ \cup AsLogSet(logStorage[stream])]
  /\ UNCHANGED <<logStorage, sessionVars, threadVars, handler, request, requests,
                 clientVars>>

HostsOf(streams) == {stream[1] : stream \in streams}

OfStreams(logs, streams) == {log \in logs : StreamOf[log] \in streams}

(***************************************************************************)
(* parallel().forEach adds the lists of each host to one ArrayList, which  *)
(* is not thread-safe. With one host there is one task and nothing to      *)
(* race; with more, concurrent addAll calls may overwrite each other's     *)
(* lists, all but one of them at worst, or leave null elements, on which   *)
(* flatMap(List::stream) throws.                                           *)
(***************************************************************************)
SurvivingLists(streams) ==
  IF Cardinality(HostsOf(streams)) > 1 THEN SUBSET streams \ {{}} ELSE {streams}

EndCollect(s) ==
  /\ handler[s] = "collect"
  /\ unread[s] = {}
  /\ \/ /\ \E kept \in SurvivingLists(found[s]) :
             collected' = [collected EXCEPT ![s] = OfStreams(@, kept)]
        /\ handler' = [handler EXCEPT ![s] = "respond"]
     \/ /\ Cardinality(HostsOf(found[s])) > 1
        /\ handler' = [handler EXCEPT ![s] = "fail"]
        /\ UNCHANGED collected
  /\ UNCHANGED <<logStorage, sessionVars, threadVars, request, unread, found, requests,
                 clientVars>>

\* The collected logs are sent; nothing excludes a broadcast to the session meanwhile.
SendSnapshot(s) ==
  /\ handler[s] = "respond"
  /\ connection[s] = "open"
  /\ snapshot' = [snapshot EXCEPT ![s] = @ \cup collected[s]]
  /\ granted' = [granted EXCEPT ![s] = @ \cup (request[s].hosts \X request[s].programs)]
  /\ handler' = [handler EXCEPT ![s] = "subscribe"]
  /\ UNCHANGED <<logStorage, sessionVars, threadVars, requestVars, live>>

SendSnapshotFails(s) ==
  /\ handler[s] = "respond"
  /\ connection[s] # "open"
  /\ handler' = [handler EXCEPT ![s] = "fail"]
  /\ UNCHANGED <<logStorage, sessionVars, threadVars, requestVars, clientVars>>

Online(req) ==
  [hosts |-> req.hosts, programs |-> req.programs, state |-> "ONLINE_BROADCASTING"]

\* Mutant: put instead of get(session).set.
Subscribe_Put(s) ==
  /\ handler[s] = "subscribe"
  /\ registered' = registered \cup {s}
  /\ subscription' = [subscription EXCEPT ![s] = Online(request[s])]
  /\ due' = [t \in Threads |-> due[t] \ {s}]
  /\ ReturnFromRequest(s)
  /\ UNCHANGED <<logStorage, connection, pending, pc, logData, target, met, returned,
                 clientVars>>

\* subscriptionStorage.get(session).set(...)
Subscribe(s) ==
  /\ handler[s] = "subscribe"
  /\ s \in registered
  /\ subscription' = [subscription EXCEPT ![s] = Online(request[s])]
  /\ due' = [t \in Threads |-> due[t] \ {s}]
  /\ ReturnFromRequest(s)
  /\ UNCHANGED <<logStorage, registered, connection, pending, pc, logData, target, met,
                 returned, clientVars>>

\* get(session) is null for a session removed meanwhile: NullPointerException.
SubscribeFails(s) ==
  /\ handler[s] = "subscribe"
  /\ s \notin registered
  /\ handler' = [handler EXCEPT ![s] = "fail"]
  /\ UNCHANGED <<logStorage, sessionVars, threadVars, requestVars, clientVars>>

\* "Incorrect request parameters": a request without hosts or without programs.
RefuseRequest(s) ==
  /\ handler[s] = "refuse"
  /\ IF connection[s] = "open" THEN ReturnFromRequest(s)
     ELSE /\ handler' = [handler EXCEPT ![s] = "fail"]
          /\ UNCHANGED requestVars
  /\ UNCHANGED <<logStorage, sessionVars, threadVars, clientVars>>

\* The catch block: the error goes to the client if it can still be reached.
RespondError(s) ==
  /\ handler[s] = "fail"
  /\ ReturnFromRequest(s)
  /\ UNCHANGED <<logStorage, sessionVars, threadVars, clientVars>>

-----------------------------------------------------------------------------
(* The web socket container and the endpoint's callbacks *)

onWebSocketOpen(s) ==
  /\ connection[s] = "new"
  /\ connection' = [connection EXCEPT ![s] = "open"]
  /\ registered' = registered \cup {s}
  /\ subscription' = [subscription EXCEPT ![s] = initialState]
  /\ UNCHANGED <<logStorage, threadVars, handlerVars, clientVars>>

\* The peer closes the socket, the network drops it or it idles too long.
LoseConnection(s) ==
  /\ connection[s] = "open"
  /\ connection' = [connection EXCEPT ![s] = "lost"]
  /\ UNCHANGED <<logStorage, registered, subscription, threadVars, handlerVars,
                 clientVars>>

onWebSocketError(s) ==
  /\ connection[s] = "lost"
  /\ registered' = registered \ {s}
  /\ UNCHANGED <<logStorage, subscription, connection, threadVars, handlerVars,
                 clientVars>>

onWebSocketClose(s) ==
  /\ connection[s] = "lost"
  /\ connection' = [connection EXCEPT ![s] = "closed"]
  /\ registered' = registered \ {s}
  /\ UNCHANGED <<logStorage, subscription, threadVars, handlerVars, clientVars>>

-----------------------------------------------------------------------------
handleReceivedLogData(t) ==
  \/ FindStorage(t) \/ AddLog(t) \/ BeginBroadcast(t) \/ NextSubscription(t)
  \/ SendLog(t) \/ SendLogFails(t) \/ EndBroadcast(t)
  \/ ReturnToCollector(t)

handleLogBroadcastingRequest(s) ==
  \/ ParseRequest(s)
  \/ CollectStorage(s) \/ EndCollect(s) \/ SendSnapshot(s) \/ SendSnapshotFails(s)
  \/ Subscribe(s) \/ SubscribeFails(s) \/ RefuseRequest(s) \/ RespondError(s)

Container(s) ==
  \/ onWebSocketOpen(s) \/ LoseConnection(s)
  \/ onWebSocketError(s) \/ onWebSocketClose(s)

Next ==
  \/ \E t \in Threads : ReceiveLog(t) \/ handleReceivedLogData(t)
  \/ \E s \in Sessions : ReceiveRequest(s) \/ handleLogBroadcastingRequest(s) \/ Container(s)

(***************************************************************************)
(* A thread that entered a call is scheduled until it returns, and a write *)
(* ends: the container's idle timeout turns one that a stalled peer blocks *)
(* into a failure. No fairness for clients, the network or new logs.       *)
(***************************************************************************)
Fairness ==
  /\ \A t \in Threads : WF_vars(handleReceivedLogData(t))
  /\ \A s \in Sessions : WF_vars(handleLogBroadcastingRequest(s))

Spec == Init /\ [][Next]_vars

FairSpec == Spec /\ Fairness

-----------------------------------------------------------------------------
(* Properties *)

TypeOK ==
  /\ logStorage \in [Streams -> Rings \cup {NoStorage}]
  /\ registered \subseteq Sessions
  /\ subscription \in [Sessions -> Subscriptions]
  /\ connection \in [Sessions -> {"new", "open", "lost", "closed"}]
  /\ pending \subseteq Logs
  /\ pc \in [Threads -> {"idle", "find", "add", "broadcast", "next", "send", "done"}]
  /\ logData \in [Threads -> Logs \cup {NoLog}]
  /\ met \in [Threads -> SUBSET Sessions]
  /\ returned \in [Threads -> SUBSET Sessions]
  /\ target \in [Threads -> Sessions \cup {NoSession}]
  /\ due \in [Threads -> SUBSET Sessions]
  /\ handler \in [Sessions -> {"idle", "parse", "collect", "respond", "subscribe",
                               "refuse", "fail"}]
  /\ request \in [Sessions -> Requests]
  /\ unread \in [Sessions -> SUBSET Streams]
  /\ found \in [Sessions -> SUBSET Streams]
  /\ collected \in [Sessions -> SUBSET Logs]
  /\ requests \in [Sessions -> 0 .. MaxRequests]
  /\ snapshot \in [Sessions -> SUBSET Logs]
  /\ granted \in [Sessions -> SUBSET Streams]
  /\ live \in [Sessions -> SUBSET Logs]

(***************************************************************************)
(* The rings implement RecentLogs: whatever the interleaving of the        *)
(* threads that create rings and add to them, each log is kept once, under *)
(* its own host and program, and a ring holds the last Capacity of them in *)
(* the order of the add calls.                                             *)
(***************************************************************************)
KeptLogs(stream) ==
  IF logStorage[stream] = NoStorage THEN <<>> ELSE OldestFirst(logStorage[stream])

Unkept ==
  {log \in Logs : /\ StreamOf[log] # NoStream
                  /\ \/ log \in pending
                     \/ \E t \in Threads : pc[t] \in {"find", "add"} /\ logData[t] = log}

Recent == INSTANCE RecentLogs
            WITH recent <- [stream \in Streams |-> KeptLogs(stream)], awaited <- Unkept

RecentLogsKept == Recent!Spec

(***************************************************************************)
(* A broadcast log reaches a client only for a stream of a request whose   *)
(* snapshot the client already has: the terminal page never prints a new   *)
(* log before the old ones, nor one of a host or program nobody chose.     *)
(***************************************************************************)
LiveOnlyAfterSnapshot ==
  \A s \in Sessions : \A log \in live[s] : StreamOf[log] \in granted[s]

(***************************************************************************)
(* When a thread has broadcast a log, every session that was subscribed to *)
(* its stream as the scan began, and has neither subscribed anew nor been  *)
(* removed, has got the log: sessions that fail, open or close during the  *)
(* scan take nothing from the others.                                      *)
(***************************************************************************)
NoSubscriberStarved ==
  \A t \in Threads :
    pc[t] = "done" => \A s \in due[t] \cap registered : logData[t] \in live[s]

(***************************************************************************)
(* A session that was removed never returns to subscriptionStorage, also   *)
(* when its request is served while it is removed: no closed session is    *)
(* kept for ever.                                                          *)
(***************************************************************************)
RemovedForGood ==
  [][\A s \in Sessions :
       connection[s] # "new" /\ s \notin registered => s \notin registered']_vars

(***************************************************************************)
(* Every call ends: a thread that brings a log returns to its adapter,     *)
(* whatever sessions do during the broadcast, so that saveLog goes on to   *)
(* store the log.                                                          *)
(***************************************************************************)
IngestReturns == \A t \in Threads : pc[t] # "idle" ~> pc[t] = "idle"

(***************************************************************************)
(* Not so in the code: once a session has got the response to its request, *)
(* the logs of its streams reach it. When nothing is under way, a session  *)
(* that is online has been shown all that the rings of its streams hold.   *)
(***************************************************************************)
Quiet ==
  /\ \A t \in Threads : pc[t] = "idle"
  /\ \A s \in Sessions : handler[s] = "idle"

NothingMissed ==
  Quiet =>
    \A s \in registered : \A stream \in Streams :
      /\ isBroadcastCandidateFor(subscription[s], stream)
      /\ connection[s] = "open"
      /\ logStorage[stream] # NoStorage
      => AsLogSet(logStorage[stream]) \subseteq snapshot[s] \cup live[s]
=============================================================================
