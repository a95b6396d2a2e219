------------------------------ MODULE TCPServer ------------------------------
(***************************************************************************)
(* The TCP server of the Logback adapter (classes ThreadPooledServer,      *)
(* LoggerAcceptorNode, AbstractTCPLoggerAdapter). An acceptor thread       *)
(* accepts the clients, constructs a worker for each, which reads the      *)
(* header of the client's stream, and gives it to a pool of threads. A     *)
(* client may stay silent, write garbage, or leave at any time.            *)
(*                                                                         *)
(* stop() and isStopped() are synchronized, so stop() is one step for who  *)
(* looks at stopped. Closing the server socket does not fail, no thread is *)
(* interrupted, and saving an event returns or throws.                     *)
(***************************************************************************)
EXTENDS Naturals, Sequences, FiniteSets

CONSTANTS
  Clients,
  NoClient,
  PoolSize,
  MaxEvents   \* bound: events a client sends

ASSUME PoolAssumption == PoolSize \in Nat \ {0} /\ MaxEvents \in Nat
ASSUME ClientAssumption == NoClient \notin Clients

VARIABLES
  adapter,       \* where the container is in init() and destroy()
  started,
  seen,          \* what isStarted() is sure to return
  stopped,
  serverSocket,
  acceptor,      \* where the acceptor thread is in run()
  clientSocket,  \* the client it has accepted
  poolDown,      \* threadPool is shut down
  tasks,         \* the workers that wait for a thread of the pool
  worker,        \* what has become of each client's worker
  opened,        \* the worker has an ObjectInputStream
  handled,       \* how many events of each client were processed
  conn,          \* how far each client's connection is
  sent,          \* what each client has written: the header, then its events
  left           \* the clients that have closed their end

serverVars   == <<started, seen, stopped, serverSocket, poolDown>>
acceptorVars == <<acceptor, clientSocket>>
workerVars   == <<worker, opened, handled>>
clientVars   == <<sent, left>>
vars == <<adapter, serverVars, acceptorVars, tasks, workerVars, conn, clientVars>>

Init ==
  /\ adapter = "new"
  /\ started = FALSE /\ seen = FALSE /\ stopped = FALSE /\ poolDown = FALSE
  /\ serverSocket = "none"
  /\ acceptor = "none" /\ clientSocket = NoClient
  /\ tasks = <<>>
  /\ worker = [c \in Clients |-> "none"]
  /\ opened = [c \in Clients |-> FALSE]
  /\ handled = [c \in Clients |-> 0]
  /\ conn = [c \in Clients |-> "none"]
  /\ sent = [c \in Clients |-> 0]
  /\ left = {}

-----------------------------------------------------------------------------
(* AbstractTCPLoggerAdapter *)

CallInit ==
  /\ adapter = "new"
  /\ adapter' = "waiting"
  /\ acceptor' = "open"
  /\ UNCHANGED <<serverVars, clientSocket, tasks, workerVars, conn, clientVars>>

\* started is written without the lock: the new value may be seen at once or not.
IsStarted ==
  /\ adapter = "waiting"
  /\ started
  /\ adapter' = "up"
  /\ UNCHANGED <<serverVars, acceptorVars, tasks, workerVars, conn, clientVars>>

\* The last look. The ones before it change nothing.
CouldNotStart ==
  /\ adapter = "waiting"
  /\ ~seen
  /\ adapter' = "failed"
  /\ UNCHANGED <<serverVars, acceptorVars, tasks, workerVars, conn, clientVars>>

Refuse(connections) ==
  [c \in Clients |-> IF connections[c] = "backlog" THEN "refused" ELSE connections[c]]

\* Mutant: the acceptor is left waiting in accept().
Destroy_Open ==
  /\ adapter = "up"
  /\ adapter' = "destroyed"
  /\ stopped' = TRUE
  /\ UNCHANGED <<started, seen, serverSocket, poolDown, acceptorVars, tasks, workerVars, conn, clientVars>>

\* It never waits: isStopped() is what stop() has just set.
Destroy ==
  /\ adapter = "up"
  /\ adapter' = "destroyed"
  /\ stopped' = TRUE
  /\ serverSocket' = "closed"
  /\ conn' = Refuse(conn)
  /\ UNCHANGED <<started, seen, poolDown, acceptorVars, tasks, workerVars, clientVars>>

-----------------------------------------------------------------------------
(* ThreadPooledServer: the acceptor *)

\* Mutant: the exception is swallowed.
OpenServerSocket_Swallowed ==
  /\ acceptor = "open"
  /\ serverSocket' \in {"open", "none"}
  /\ acceptor' = "check"
  /\ UNCHANGED <<adapter, started, seen, stopped, poolDown, clientSocket, tasks, workerVars, conn, clientVars>>

OpenServerSocket ==
  /\ acceptor = "open"
  /\ \/ serverSocket' = "open" /\ acceptor' = "check"
     \/ acceptor' = "thrown" /\ UNCHANGED serverSocket
  /\ UNCHANGED <<adapter, started, seen, stopped, poolDown, clientSocket, tasks, workerVars, conn, clientVars>>

\* isStopped() releases the lock, so that what was written before it can be seen.
CheckStopped ==
  /\ acceptor = "check"
  /\ seen' = started
  /\ IF stopped THEN acceptor' = "ended" /\ poolDown' = TRUE /\ UNCHANGED started
                ELSE acceptor' = "accept" /\ started' = TRUE /\ UNCHANGED poolDown
  /\ UNCHANGED <<adapter, stopped, serverSocket, clientSocket, tasks, workerVars, conn, clientVars>>

Accept ==
  /\ acceptor = "accept" /\ serverSocket = "open"
  /\ \E c \in Clients :
       /\ conn[c] = "backlog"
       /\ conn' = [conn EXCEPT ![c] = "accepted"]
       /\ clientSocket' = c
  /\ acceptor' = "construct"
  /\ UNCHANGED <<adapter, serverVars, tasks, workerVars, clientVars>>

AcceptFromClosed ==
  /\ acceptor = "accept" /\ serverSocket = "closed"
  /\ acceptor' = "catch"
  /\ UNCHANGED <<adapter, serverVars, clientSocket, tasks, workerVars, conn, clientVars>>

\* Any other IOException, as of a process without file descriptors.
AcceptFails ==
  /\ acceptor = "accept" /\ serverSocket = "open"
  /\ acceptor' = "catch"
  /\ UNCHANGED <<adapter, serverVars, clientSocket, tasks, workerVars, conn, clientVars>>

\* Neither way shuts the pool down.
CatchIOException ==
  /\ acceptor = "catch"
  /\ acceptor' = IF stopped THEN "ended" ELSE "thrown"
  /\ UNCHANGED <<adapter, serverVars, clientSocket, tasks, workerVars, conn, clientVars>>

\* Mutant: the exception leaves the constructor.
ConstructWorker_Throws ==
  /\ acceptor = "construct"
  /\ \/ sent[clientSocket] > 0 /\ acceptor' = "execute" /\ opened' = [opened EXCEPT ![clientSocket] = TRUE]
     \/ sent[clientSocket] > 0 /\ acceptor' = "thrown" /\ UNCHANGED opened
     \/ clientSocket \in left  /\ acceptor' = "thrown" /\ UNCHANGED opened
  /\ UNCHANGED <<adapter, serverVars, clientSocket, tasks, worker, handled, conn, clientVars>>

\* The constructor of ObjectInputStream reads the header, or what is no header, or the end.
ConstructWorker ==
  /\ acceptor = "construct"
  /\ \/ sent[clientSocket] > 0 /\ opened' = [opened EXCEPT ![clientSocket] = TRUE]
     \/ (sent[clientSocket] > 0 \/ clientSocket \in left) /\ UNCHANGED opened
  /\ acceptor' = "execute"
  /\ UNCHANGED <<adapter, serverVars, clientSocket, tasks, worker, handled, conn, clientVars>>

Running == {c \in Clients : worker[c] = "running"}

\* Mutant: a pool without a queue that drops what it has no thread for.
Execute_Drops ==
  /\ acceptor = "execute"
  /\ IF Cardinality(Running) < PoolSize
     THEN tasks' = Append(tasks, clientSocket) /\ worker' = [worker EXCEPT ![clientSocket] = "queued"]
     ELSE UNCHANGED <<tasks, worker>>
  /\ clientSocket' = NoClient
  /\ acceptor' = "check"
  /\ UNCHANGED <<adapter, serverVars, opened, handled, conn, clientVars>>

Execute ==
  /\ acceptor = "execute"
  /\ tasks' = Append(tasks, clientSocket)
  /\ worker' = [worker EXCEPT ![clientSocket] = "queued"]
  /\ clientSocket' = NoClient
  /\ acceptor' = "check"
  /\ UNCHANGED <<adapter, serverVars, opened, handled, conn, clientVars>>

-----------------------------------------------------------------------------
(* LoggerAcceptorNode: the workers, on the threads of the pool *)

\* Also after the shutdown of the pool.
StartWorker ==
  /\ tasks # <<>>
  /\ Cardinality(Running) < PoolSize
  /\ worker' = [worker EXCEPT ![Head(tasks)] = "running"]
  /\ tasks' = Tail(tasks)
  /\ UNCHANGED <<adapter, serverVars, acceptorVars, opened, handled, conn, clientVars>>

\* An exception about one event closes the connection.
ProcessEvent(c) ==
  /\ worker[c] = "running" /\ opened[c]
  /\ handled[c] + 1 < sent[c]
  /\ handled' = [handled EXCEPT ![c] = @ + 1]
  /\ \/ UNCHANGED worker
     \/ worker' = [worker EXCEPT ![c] = "closed"]
  /\ UNCHANGED <<adapter, serverVars, acceptorVars, tasks, opened, conn, clientVars>>

\* There is no stream, it ends, or it is reset with what was not read yet.
CloseConnection(c) ==
  /\ worker[c] = "running"
  /\ ~opened[c] \/ c \in left
  /\ worker' = [worker EXCEPT ![c] = "closed"]
  /\ UNCHANGED <<adapter, serverVars, acceptorVars, tasks, opened, handled, conn, clientVars>>

-----------------------------------------------------------------------------
(* The clients *)

Connect(c) ==
  /\ conn[c] = "none" /\ serverSocket = "open"
  /\ conn' = [conn EXCEPT ![c] = "backlog"]
  /\ UNCHANGED <<adapter, serverVars, acceptorVars, tasks, workerVars, clientVars>>

Send(c) ==
  /\ conn[c] \in {"backlog", "accepted"} /\ worker[c] # "closed"
  /\ c \notin left
  /\ sent[c] < 1 + MaxEvents
  /\ sent' = [sent EXCEPT ![c] = @ + 1]
  /\ UNCHANGED <<adapter, serverVars, acceptorVars, tasks, workerVars, conn, left>>

Leave(c) ==
  /\ conn[c] \in {"backlog", "accepted"} /\ worker[c] # "closed"
  /\ c \notin left
  /\ left' = left \cup {c}
  /\ UNCHANGED <<adapter, serverVars, acceptorVars, tasks, workerVars, conn, sent>>

-----------------------------------------------------------------------------
init == CallInit \/ IsStarted \/ CouldNotStart

run ==
  \/ OpenServerSocket \/ CheckStopped \/ Accept \/ AcceptFromClosed
  \/ CatchIOException \/ ConstructWorker \/ Execute

Next ==
  \/ init \/ Destroy \/ run \/ AcceptFails \/ StartWorker
  \/ \E c \in Clients : ProcessEvent(c) \/ CloseConnection(c)
  \/ \E c \in Clients : Connect(c) \/ Send(c) \/ Leave(c)

(***************************************************************************)
(* Every thread that can go on is scheduled. No fairness for the clients,  *)
(* for errors of accept() and for the container's call of destroy().       *)
(***************************************************************************)
Fairness ==
  /\ WF_vars(init) /\ WF_vars(run) /\ WF_vars(StartWorker)
  /\ \A c \in Clients : WF_vars(ProcessEvent(c) \/ CloseConnection(c))

Spec == Init /\ [][Next]_vars

FairSpec == Spec /\ Fairness

-----------------------------------------------------------------------------
(* Properties *)

TypeOK ==
  /\ adapter \in {"new", "waiting", "up", "failed", "destroyed"}
  /\ started \in BOOLEAN /\ seen \in BOOLEAN /\ stopped \in BOOLEAN /\ poolDown \in BOOLEAN
  /\ serverSocket \in {"none", "open", "closed"}
  /\ acceptor \in {"none", "open", "check", "accept", "catch", "construct", "execute", "ended", "thrown"}
  /\ clientSocket \in Clients \cup {NoClient}
  /\ tasks \in Seq(Clients)
  /\ worker \in [Clients -> {"none", "queued", "running", "closed"}]
  /\ opened \in [Clients -> BOOLEAN]
  /\ handled \in [Clients -> 0 .. MaxEvents]
  /\ conn \in [Clients -> {"none", "backlog", "accepted", "refused"}]
  /\ sent \in [Clients -> 0 .. 1 + MaxEvents]
  /\ left \subseteq Clients

\* In its loop, or out of it because accept() has failed.
Serving == acceptor \in {"check", "accept", "construct", "execute"}
AcceptFailed == acceptor \in {"catch", "thrown"}

(***************************************************************************)
(* An init() that has returned tells the truth until destroy(): the port   *)
(* is open, the pool takes workers, and the acceptor is in its loop,       *)
(* unless accept() itself has failed since. started, which init() waits    *)
(* for, is set by another thread and read before that thread gives up the  *)
(* lock. Nothing is said of an init() that fails: its last look may come   *)
(* too early, with the port open a moment later.                           *)
(***************************************************************************)
InitTellsTheTruth ==
  adapter = "up" => serverSocket = "open" /\ ~poolDown /\ (Serving \/ AcceptFailed)

Elements(s) == {s[i] : i \in DOMAIN s}
Distinct(s) == \A i, j \in DOMAIN s : s[i] = s[j] => i = j

InHand(c) == clientSocket = c

(***************************************************************************)
(* The socket of every client that was accepted has one owner, which is to *)
(* close it: the acceptor, from accept() to execute(), or the client's     *)
(* worker, which is in the queue of the pool once as long as no thread has *)
(* taken it. No more workers run than the pool has threads. A socket that  *)
(* nobody owns would stay open, and a client would wait for it for ever.   *)
(***************************************************************************)
OneOwner ==
  /\ \A c \in Clients : conn[c] = "accepted" <=> InHand(c) \/ worker[c] # "none"
  /\ \A c \in Clients : ~(InHand(c) /\ worker[c] # "none")
  /\ \A c \in Clients : worker[c] = "queued" <=> c \in Elements(tasks)
  /\ Distinct(tasks)
  /\ IsFiniteSet(Running) /\ Cardinality(Running) <= PoolSize

KeptBusy == Cardinality(Running) = PoolSize
KeptWaiting == acceptor = "construct"

(***************************************************************************)
(* A client that has left does not keep its socket, whether it was ever    *)
(* heard of or not, unless all threads of the pool are busy for ever.      *)
(***************************************************************************)
LeaverReleased ==
  \A c \in Clients :
    c \in left /\ conn[c] = "accepted" ~> worker[c] = "closed" \/ []KeptBusy

(***************************************************************************)
(* What a client has sent is processed, unless its connection ends, the    *)
(* acceptor has failed, all threads are busy for ever, or another client   *)
(* that stays silent keeps the acceptor for ever.                          *)
(***************************************************************************)
Served ==
  \A c \in Clients : \A n \in 1 .. MaxEvents :
    sent[c] > n ~> \/ handled[c] >= n \/ worker[c] = "closed" \/ conn[c] = "refused"
                   \/ acceptor = "thrown" \/ []KeptBusy \/ []KeptWaiting

(***************************************************************************)
(* After destroy() the acceptor ends, unless a silent client keeps it.     *)
(***************************************************************************)
AcceptorLeaves == stopped ~> acceptor \in {"ended", "thrown"} \/ []KeptWaiting
=============================================================================
