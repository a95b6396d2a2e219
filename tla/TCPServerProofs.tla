---------------------------- MODULE TCPServerProofs ----------------------------
(***************************************************************************)
(* What holds of TCPServer for any number of clients, threads of the pool  *)
(* and events.                                                             *)
(***************************************************************************)
EXTENDS TCPServer, SequenceTheorems, FiniteSetTheorems, TLAPS

-----------------------------------------------------------------------------
(* The queue of the pool, as a sequence without duplicates *)

LEMMA Appended ==
  ASSUME NEW S, NEW s \in Seq(S), NEW e \in S \ Elements(s), Distinct(s)
  PROVE  Elements(Append(s, e)) = Elements(s) \cup {e} /\ Distinct(Append(s, e))
<1>1. /\ Len(s) \in Nat /\ DOMAIN s = 1 .. Len(s)
      /\ DOMAIN Append(s, e) = 1 .. Len(s) + 1
      /\ \A i \in 1 .. Len(s) : Append(s, e)[i] = s[i]
      /\ Append(s, e)[Len(s) + 1] = e
  BY AppendProperties, LenProperties
<1>2. 1 .. Len(s) + 1 = (1 .. Len(s)) \cup {Len(s) + 1}
  BY <1>1
<1>3. QED BY <1>1, <1>2 DEF Elements, Distinct

LEMMA HeadTaken ==
  ASSUME NEW S, NEW s \in Seq(S), s # <<>>, Distinct(s)
  PROVE  /\ Head(s) \in S /\ Head(s) \in Elements(s) /\ Tail(s) \in Seq(S)
         /\ Elements(Tail(s)) = Elements(s) \ {Head(s)}
         /\ Distinct(Tail(s))
<1>1. Len(s) \in Nat \ {0} /\ DOMAIN s = 1 .. Len(s)
  BY EmptySeq, LenProperties
<1>2. /\ Head(s) = s[1] /\ Head(s) \in S /\ Tail(s) \in Seq(S)
      /\ DOMAIN Tail(s) = 1 .. Len(s) - 1
      /\ \A i \in 1 .. Len(s) - 1 : Tail(s)[i] = s[i + 1]
  BY <1>1, HeadTailProperties, LenProperties
<1>3. 1 \in DOMAIN s
  BY <1>1
<1>4. Elements(Tail(s)) = Elements(s) \ {Head(s)}
  <2>1. ASSUME NEW i \in DOMAIN Tail(s) PROVE Tail(s)[i] \in Elements(s) \ {s[1]}
    <3>1. i + 1 \in DOMAIN s /\ i + 1 # 1 /\ Tail(s)[i] = s[i + 1]
      BY <1>1, <1>2
    <3>2. QED BY <1>3, <3>1 DEF Elements, Distinct
  <2>2. ASSUME NEW i \in DOMAIN s, s[i] # s[1] PROVE s[i] \in Elements(Tail(s))
    <3>1. i - 1 \in 1 .. Len(s) - 1 /\ (i - 1) + 1 = i
      BY <1>1, <2>2
    <3>2. QED BY <1>2, <3>1 DEF Elements
  <2>3. QED BY <1>2, <2>1, <2>2 DEF Elements
<1>5. Distinct(Tail(s))
  <2> SUFFICES ASSUME NEW i \in DOMAIN Tail(s), NEW j \in DOMAIN Tail(s), Tail(s)[i] = Tail(s)[j]
               PROVE  i = j
    BY DEF Distinct
  <2>1. i + 1 \in DOMAIN s /\ j + 1 \in DOMAIN s /\ s[i + 1] = s[j + 1]
    BY <1>1, <1>2
  <2>2. i + 1 = j + 1
    BY <2>1 DEF Distinct
  <2>3. QED BY <1>1, <1>2, <2>2
<1>6. QED BY <1>2, <1>3, <1>4, <1>5 DEF Elements

-----------------------------------------------------------------------------
(***************************************************************************)
(* The port is open once the acceptor has passed openServerSocket, and is  *)
(* closed by destroy() alone, which sets stopped with it. started implies  *)
(* a port and an acceptor in its loop only because the acceptor writes it  *)
(* after opening one, and leaves the loop and the pool only when stopped   *)
(* or thrown out of accept().                                              *)
(***************************************************************************)
PortInv ==
  /\ adapter = "new" => acceptor = "none"
  /\ acceptor \in {"check", "accept", "catch", "construct", "execute"} => serverSocket # "none"
  /\ started => serverSocket # "none" /\ acceptor \notin {"none", "open"}
  /\ acceptor = "ended" \/ poolDown => stopped
  /\ ~stopped => serverSocket # "closed"
  /\ stopped => adapter = "destroyed"
  /\ adapter = "up" => started

HandInv == clientSocket \in Clients <=> acceptor \in {"construct", "execute"}

TCPInv == TypeOK /\ PortInv /\ HandInv /\ OneOwner

LEMMA TCPInit == Init => TCPInv
<1> SUFFICES ASSUME Init PROVE TCPInv
  OBVIOUS
<1>1. <<>> \in Seq(Clients) /\ Elements(<<>>) = {} /\ Distinct(<<>>)
  BY EmptySeq DEF Elements, Distinct
<1>2. Running = {}
  BY DEF Init, Running
<1>3. IsFiniteSet(Running) /\ Cardinality(Running) <= PoolSize
  BY <1>2, FS_EmptySet, PoolAssumption
<1>4. 0 \in 0 .. MaxEvents /\ 0 \in 0 .. 1 + MaxEvents
  BY PoolAssumption
<1>5. TypeOK
  BY <1>1, <1>4 DEF Init, TypeOK
<1>6. OneOwner
  BY <1>1, <1>3, ClientAssumption DEF Init, OneOwner, InHand
<1>7. QED BY <1>5, <1>6, ClientAssumption DEF Init, TCPInv, PortInv, HandInv

\* Whoever leaves the clients, their sockets and their workers alone leaves their owners alone.
LEMMA OwnersKept ==
  ASSUME OneOwner, HandInv, UNCHANGED <<clientSocket, tasks, worker, conn>>
  PROVE  OneOwner'
BY DEF OneOwner, InHand, Running

\* The steps of the adapter, and of the acceptor without a client, keep the invariant.
LEMMA ServerStep ==
  ASSUME TCPInv,
         init \/ OpenServerSocket \/ CheckStopped \/ AcceptFromClosed \/ CatchIOException \/ AcceptFails
  PROVE  TCPInv'
<1>1. UNCHANGED <<clientSocket, tasks, worker, opened, handled, conn, sent, left>>
  BY DEF init, CallInit, IsStarted, CouldNotStart, OpenServerSocket, CheckStopped,
    AcceptFromClosed, CatchIOException, AcceptFails, acceptorVars, workerVars, clientVars
<1>2. /\ adapter' \in {"new", "waiting", "up", "failed", "destroyed"}
      /\ started' \in BOOLEAN /\ seen' \in BOOLEAN /\ stopped' \in BOOLEAN /\ poolDown' \in BOOLEAN
      /\ serverSocket' \in {"none", "open", "closed"}
      /\ acceptor' \in {"none", "open", "check", "accept", "catch", "construct", "execute",
                        "ended", "thrown"}
      /\ acceptor' \in {"construct", "execute"} <=> acceptor \in {"construct", "execute"}
      /\ PortInv'
  <2> USE DEF TCPInv, TypeOK, PortInv, HandInv, serverVars, acceptorVars
  <2>1. CASE init
    BY <2>1 DEF init, CallInit, IsStarted, CouldNotStart
  <2>2. CASE OpenServerSocket
    BY <2>2 DEF OpenServerSocket
  <2>3. CASE CheckStopped
    BY <2>3 DEF CheckStopped
  <2>4. CASE AcceptFromClosed \/ CatchIOException \/ AcceptFails
    BY <2>4 DEF AcceptFromClosed, CatchIOException, AcceptFails
  <2>5. QED BY <2>1, <2>2, <2>3, <2>4
<1>3. TypeOK'
  BY <1>1, <1>2 DEF TCPInv, TypeOK
<1>4. HandInv' /\ OneOwner'
  BY <1>1, <1>2, OwnersKept DEF TCPInv, HandInv
<1>5. QED BY <1>2, <1>3, <1>4 DEF TCPInv

\* destroy() refuses those who wait and were not accepted.
LEMMA DestroyStep == TCPInv /\ Destroy => TCPInv'
<1> SUFFICES ASSUME TCPInv, Destroy PROVE TCPInv'
  OBVIOUS
<1>1. \A c \in Clients : conn'[c] = "accepted" <=> conn[c] = "accepted"
  BY DEF TCPInv, TypeOK, Destroy, Refuse
<1>2. TypeOK'
  BY DEF TCPInv, TypeOK, Destroy, Refuse, acceptorVars, workerVars, clientVars
<1>3. PortInv'
  BY DEF TCPInv, PortInv, Destroy, acceptorVars
<1>4. HandInv' /\ OneOwner'
  BY <1>1 DEF TCPInv, HandInv, OneOwner, InHand, Running, Destroy, acceptorVars, workerVars
<1>5. QED BY <1>2, <1>3, <1>4 DEF TCPInv

\* A client that is accepted was nobody's, and is now the acceptor's.
LEMMA AcceptStep == TCPInv /\ Accept => TCPInv'
<1> SUFFICES ASSUME TCPInv, Accept PROVE TCPInv'
  OBVIOUS
<1>1. PICK c \in Clients : /\ conn[c] = "backlog"
                           /\ conn' = [conn EXCEPT ![c] = "accepted"]
                           /\ clientSocket' = c
  BY DEF Accept
<1>2. /\ acceptor = "accept" /\ serverSocket = "open" /\ acceptor' = "construct"
      /\ UNCHANGED <<adapter, serverVars, tasks, workerVars, clientVars>>
  BY DEF Accept
<1>3. TypeOK'
  BY <1>1, <1>2 DEF TCPInv, TypeOK, serverVars, workerVars, clientVars
<1>4. PortInv' /\ HandInv'
  BY <1>1, <1>2 DEF TCPInv, PortInv, HandInv, serverVars
<1>5. \A d \in Clients : clientSocket # d
  BY <1>2 DEF TCPInv, HandInv
<1>6. \A d \in Clients : conn'[d] = "accepted" <=> d = c \/ conn[d] = "accepted"
  BY <1>1 DEF TCPInv, TypeOK
<1>7. OneOwner'
  BY <1>1, <1>2, <1>5, <1>6 DEF TCPInv, OneOwner, InHand, Running, workerVars
<1>8. QED BY <1>3, <1>4, <1>7 DEF TCPInv

\* The constructor of a worker neither keeps nor loses the client.
LEMMA ConstructStep == TCPInv /\ ConstructWorker => TCPInv'
<1> SUFFICES ASSUME TCPInv, ConstructWorker PROVE TCPInv'
  OBVIOUS
<1>1. clientSocket \in Clients
  BY DEF TCPInv, HandInv, ConstructWorker
<1>2. /\ opened' \in [Clients -> BOOLEAN] /\ acceptor = "construct" /\ acceptor' = "execute"
      /\ UNCHANGED <<adapter, serverVars, clientSocket, tasks, worker, handled, conn, clientVars>>
  BY <1>1 DEF TCPInv, TypeOK, ConstructWorker
<1>3. TypeOK' /\ PortInv' /\ HandInv'
  BY <1>2 DEF TCPInv, TypeOK, PortInv, HandInv, serverVars, clientVars
<1>4. OneOwner'
  BY <1>2, OwnersKept DEF TCPInv
<1>5. QED BY <1>3, <1>4 DEF TCPInv

\* The acceptor's client becomes the last of the queue.
LEMMA ExecuteStep == TCPInv /\ Execute => TCPInv'
<1> SUFFICES ASSUME TCPInv, Execute PROVE TCPInv'
  OBVIOUS
<1> DEFINE c == clientSocket
<1>1. /\ acceptor = "execute" /\ acceptor' = "check" /\ c \in Clients
      /\ tasks' = Append(tasks, c)
      /\ worker' = [worker EXCEPT ![c] = "queued"]
      /\ clientSocket' = NoClient
      /\ UNCHANGED <<adapter, serverVars, opened, handled, conn, clientVars>>
  BY DEF TCPInv, HandInv, Execute
<1>2. worker[c] = "none" /\ c \notin Elements(tasks)
  BY <1>1 DEF TCPInv, OneOwner, InHand
<1>3. tasks' \in Seq(Clients) /\ Elements(tasks') = Elements(tasks) \cup {c} /\ Distinct(tasks')
  BY <1>1, <1>2, Appended, AppendProperties DEF TCPInv, TypeOK, OneOwner
<1>4. TypeOK'
  BY <1>1, <1>3 DEF TCPInv, TypeOK, serverVars, clientVars
<1>5. PortInv' /\ HandInv'
  BY <1>1, ClientAssumption DEF TCPInv, PortInv, HandInv, serverVars
<1>6. \A d \in Clients : worker'[d] = IF d = c THEN "queued" ELSE worker[d]
  BY <1>1 DEF TCPInv, TypeOK
<1>7. Running' = Running
  BY <1>2, <1>6 DEF Running
<1>8. OneOwner'
  BY <1>1, <1>2, <1>3, <1>6, <1>7, ClientAssumption DEF TCPInv, OneOwner, InHand
<1>9. QED BY <1>4, <1>5, <1>8 DEF TCPInv

\* A free thread of the pool takes the first of the queue.
LEMMA StartStep == TCPInv /\ StartWorker => TCPInv'
<1> SUFFICES ASSUME TCPInv, StartWorker PROVE TCPInv'
  OBVIOUS
<1> DEFINE c == Head(tasks)
<1>1. /\ tasks # <<>> /\ Cardinality(Running) < PoolSize /\ tasks' = Tail(tasks)
      /\ worker' = [worker EXCEPT ![c] = "running"]
      /\ UNCHANGED <<adapter, serverVars, acceptorVars, opened, handled, conn, clientVars>>
  BY DEF StartWorker
<1>2. /\ c \in Clients /\ c \in Elements(tasks) /\ tasks' \in Seq(Clients)
      /\ Elements(tasks') = Elements(tasks) \ {c} /\ Distinct(tasks')
  BY <1>1, HeadTaken DEF TCPInv, TypeOK, OneOwner
<1>3. worker[c] = "queued"
  BY <1>2 DEF TCPInv, OneOwner
<1>4. TypeOK'
  BY <1>1, <1>2 DEF TCPInv, TypeOK, serverVars, acceptorVars, clientVars
<1>5. PortInv' /\ HandInv'
  BY <1>1 DEF TCPInv, PortInv, HandInv, serverVars, acceptorVars
<1>6. \A d \in Clients : worker'[d] = IF d = c THEN "running" ELSE worker[d]
  BY <1>1 DEF TCPInv, TypeOK
<1>7. Running' = Running \cup {c} /\ c \notin Running
  BY <1>2, <1>3, <1>6 DEF Running
<1>8. IsFiniteSet(Running') /\ Cardinality(Running') = Cardinality(Running) + 1
  BY <1>7, FS_AddElement DEF TCPInv, OneOwner
<1>9. Cardinality(Running') <= PoolSize
  <2>1. Cardinality(Running) \in Nat
    BY FS_CardinalityType DEF TCPInv, OneOwner
  <2>2. QED BY <1>1, <1>8, <2>1, PoolAssumption
<1>10. OneOwner'
  BY <1>1, <1>2, <1>3, <1>6, <1>8, <1>9 DEF TCPInv, OneOwner, InHand, acceptorVars
<1>11. QED BY <1>4, <1>5, <1>10 DEF TCPInv

\* A worker that runs may close; its client stays its own.
LEMMA WorkerStep ==
  ASSUME TCPInv, NEW c \in Clients, ProcessEvent(c) \/ CloseConnection(c)
  PROVE  TCPInv'
<1>1. /\ worker[c] = "running"
      /\ worker' = worker \/ worker' = [worker EXCEPT ![c] = "closed"]
      /\ UNCHANGED <<adapter, serverVars, acceptorVars, tasks, opened, conn, clientVars>>
  BY DEF ProcessEvent, CloseConnection
<1>2. handled' \in [Clients -> 0 .. MaxEvents]
  <2>1. CASE ProcessEvent(c)
    <3>1. handled[c] + 1 \in 0 .. MaxEvents
      BY <2>1, PoolAssumption DEF ProcessEvent, TCPInv, TypeOK
    <3>2. QED BY <2>1, <3>1 DEF ProcessEvent, TCPInv, TypeOK
  <2>2. QED BY <2>1 DEF CloseConnection, TCPInv, TypeOK
<1>3. TypeOK'
  <2>1. worker' \in [Clients -> {"none", "queued", "running", "closed"}]
    BY <1>1 DEF TCPInv, TypeOK
  <2>2. QED BY <1>1, <1>2, <2>1 DEF TCPInv, TypeOK, serverVars, acceptorVars, clientVars
<1>4. PortInv' /\ HandInv'
  BY <1>1 DEF TCPInv, PortInv, HandInv, serverVars, acceptorVars
<1>5. \A d \in Clients : /\ worker'[d] = "queued" <=> worker[d] = "queued"
                         /\ worker'[d] = "none" <=> worker[d] = "none"
                         /\ worker'[d] = "running" => worker[d] = "running"
  BY <1>1 DEF TCPInv, TypeOK
<1>6. Running' \subseteq Running
  BY <1>5 DEF Running
<1>7. IsFiniteSet(Running') /\ Cardinality(Running') <= PoolSize
  <2>1. /\ IsFiniteSet(Running') /\ Cardinality(Running') <= Cardinality(Running)
        /\ Cardinality(Running) \in Nat /\ Cardinality(Running') \in Nat
    BY <1>6, FS_Subset, FS_CardinalityType DEF TCPInv, OneOwner
  <2>2. QED BY <2>1, PoolAssumption DEF TCPInv, OneOwner
<1>8. OneOwner'
  BY <1>1, <1>5, <1>7 DEF TCPInv, OneOwner, InHand, acceptorVars
<1>9. QED BY <1>3, <1>4, <1>8 DEF TCPInv

\* The clients have no part in who owns their sockets.
LEMMA ClientStep ==
  ASSUME TCPInv, NEW c \in Clients, Connect(c) \/ Send(c) \/ Leave(c)
  PROVE  TCPInv'
<1>1. UNCHANGED <<adapter, serverVars, acceptorVars, tasks, workerVars>>
  BY DEF Connect, Send, Leave
<1>2. /\ conn' \in [Clients -> {"none", "backlog", "accepted", "refused"}]
      /\ \A d \in Clients : conn'[d] = "accepted" <=> conn[d] = "accepted"
  BY DEF Connect, Send, Leave, TCPInv, TypeOK
<1>3. left' \subseteq Clients
  BY DEF Connect, Send, Leave, TCPInv, TypeOK, clientVars
<1>4. sent' \in [Clients -> 0 .. 1 + MaxEvents]
  <2>1. CASE Send(c)
    <3>1. sent[c] + 1 \in 0 .. 1 + MaxEvents
      BY <2>1, PoolAssumption DEF Send, TCPInv, TypeOK
    <3>2. QED BY <2>1, <3>1 DEF Send, TCPInv, TypeOK
  <2>2. QED BY <2>1 DEF Connect, Leave, TCPInv, TypeOK, clientVars
<1>5. TypeOK'
  BY <1>1, <1>2, <1>3, <1>4 DEF TCPInv, TypeOK, serverVars, acceptorVars, workerVars
<1>6. PortInv' /\ HandInv'
  BY <1>1 DEF TCPInv, PortInv, HandInv, serverVars, acceptorVars
<1>7. OneOwner'
  BY <1>1, <1>2 DEF TCPInv, OneOwner, InHand, Running, acceptorVars, workerVars
<1>8. QED BY <1>5, <1>6, <1>7 DEF TCPInv

LEMMA TCPInvariant == Spec => []TCPInv
<1>1. TCPInv /\ [Next]_vars => TCPInv'
  <2> SUFFICES ASSUME TCPInv, [Next]_vars PROVE TCPInv'
    OBVIOUS
  <2>1. CASE UNCHANGED vars
    BY <2>1, OwnersKept DEF vars, serverVars, acceptorVars, workerVars, clientVars, TCPInv,
      TypeOK, PortInv, HandInv
  <2>2. CASE Next
    BY <2>2, ServerStep, DestroyStep, AcceptStep, ConstructStep, ExecuteStep, StartStep,
      WorkerStep, ClientStep DEF Next, run
  <2>3. QED BY <2>1, <2>2
<1>2. QED BY <1>1, TCPInit, PTL DEF Spec

-----------------------------------------------------------------------------
(***************************************************************************)
(* Every variable keeps its type: no worker handles more events than its   *)
(* client has sent after the header.                                       *)
(***************************************************************************)
THEOREM TypeCorrect == Spec => []TypeOK
<1>1. TCPInv => TypeOK
  BY DEF TCPInv
<1>2. QED BY <1>1, TCPInvariant, PTL

(***************************************************************************)
(* From the return of init() to the call of destroy() the port is open,    *)
(* the pool is not shut down, and the acceptor has not ended: it is in its *)
(* loop, or accept() has thrown. An init() that fails says nothing of the  *)
(* port.                                                                   *)
(***************************************************************************)
THEOREM InitReliable == Spec => []InitTellsTheTruth
<1>1. TCPInv => InitTellsTheTruth
  BY DEF TCPInv, TypeOK, PortInv, InitTellsTheTruth, Serving, AcceptFailed
<1>2. QED BY <1>1, TCPInvariant, PTL

(***************************************************************************)
(* The socket of a client that was accepted always has one owner: the      *)
(* acceptor, the queue of the pool or the worker; none is dropped, given   *)
(* to two workers or queued twice, and no more run than the pool allows.   *)
(***************************************************************************)
THEOREM SocketsOwned == Spec => []OneOwner
<1>1. TCPInv => OneOwner
  BY DEF TCPInv
<1>2. QED BY <1>1, TCPInvariant, PTL
================================================================================
