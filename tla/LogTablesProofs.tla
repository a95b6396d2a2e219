--------------------------- MODULE LogTablesProofs ---------------------------
(***************************************************************************)
(* Proofs about LogTables, for any logs, hosts, batches, writers and       *)
(* operators: a log whose call succeeded is in exactly one row, of a host  *)
(* that is there; nothing due is left; forms are added whole.              *)
(***************************************************************************)
EXTENDS LogTables, SequenceTheorems, TLAPS

(***************************************************************************)
(* The types the argument needs: of the tables, of a writer's transaction  *)
(* and of the calls of save_unprocessed.                                   *)
(***************************************************************************)
RowTypes ==
  /\ logs \in [Logs -> Nat]
  /\ unprocessed \subseteq Logs
  /\ outcome \in [Batches -> {"none", "saved", "failed"}]
  /\ writer \in [Writers -> {"idle", "save", "select", "insert", "rollback"}]
  /\ batch \in [Writers -> Batches \cup {NoBatch}]
  /\ rest \in [Writers -> SUBSET Logs]
  /\ logData \in [Writers -> Logs \cup {NoLog}]
  /\ newLogs \in [Writers -> SUBSET Logs]
  /\ newUnprocessed \in [Writers -> SUBSET Logs]
  /\ operator \in [Operators -> {"idle", "add", "truncate", "fill", "move", "delete",
                                 "commit", "rollback"}]
  /\ temp \in [Operators -> SUBSET Logs]

\* A log is in one table exactly if its batch is saved, and in no other case.
OneRow ==
  \A b \in Batches : \A log \in b :
    /\ outcome[b] = "saved" => \/ logs[log] = 1 /\ log \notin unprocessed
                               \/ logs[log] = 0 /\ log \in unprocessed
    /\ outcome[b] # "saved" => logs[log] = 0 /\ log \notin unprocessed

\* What a writer has inserted and what it has still to insert make up its batch.
BatchSplit(w) ==
  /\ writer[w] = "idle" => newLogs[w] = {} /\ newUnprocessed[w] = {}
  /\ writer[w] # "idle" =>
       /\ batch[w] \in Batches
       /\ outcome[batch[w]] = "none"
       /\ rest[w] \subseteq batch[w]
       /\ newLogs[w] \cup newUnprocessed[w] = batch[w] \ rest[w]
       /\ newLogs[w] \cap newUnprocessed[w] = {}
       /\ writer[w] \in {"select", "insert"} => logData[w] \in rest[w]

BatchesSplit == \A w \in Writers : BatchSplit(w)

\* A batch is in one writer's hands at most, and in nobody's before it is received.
BatchesOwned ==
  /\ incoming \subseteq Batches
  /\ \A b \in incoming : outcome[b] = "none"
  /\ \A w \in Writers : writer[w] # "idle" => batch[w] \notin incoming
  /\ \A w1, w2 \in Writers :
       w1 # w2 /\ writer[w1] # "idle" /\ writer[w2] # "idle" => batch[w1] # batch[w2]

\* The rows a mover has copied are still there, and once it has deleted them it is alone.
RowsHeld ==
  /\ \A o \in Operators : operator[o] = "fill" => temp[o] = {}
  /\ \A o \in Movers : temp[o] \subseteq unprocessed
  /\ \A o \in Movers : operator[o] = "commit" /\ temp[o] # {} => Movers = {o}

RowInv == RowTypes /\ OneRow /\ BatchesSplit /\ BatchesOwned /\ RowsHeld

-----------------------------------------------------------------------------
\* Every action of a writer leaves what the movers rely on alone, or adds to unprocessed.
LEMMA MoversKept ==
  ASSUME RowsHeld, UNCHANGED <<operator, temp>>, unprocessed \subseteq unprocessed'
  PROVE  RowsHeld'
BY DEF RowsHeld, Movers

\* RowInv holds initially: the tables are empty and nobody has begun.
LEMMA RowInit == Init => RowInv
BY BatchAssumption DEF Init, RowInv, RowTypes, OneRow, BatchesSplit, BatchSplit, BatchesOwned,
  RowsHeld, Movers

\* The actions that change neither a table nor where a writer or a mover is.
LEMMA RowStutter ==
  ASSUME RowInv,
         UNCHANGED <<logs, unprocessed, incoming, outcome, writer, batch, rest, logData,
                     newLogs, newUnprocessed, operator, temp>>
  PROVE  RowInv'
BY DEF RowInv, RowTypes, OneRow, BatchesSplit, BatchSplit, BatchesOwned, RowsHeld, Movers

\* The actions of a writer that change its transaction and no table.
LEMMA RowWriter ==
  ASSUME RowInv, NEW w \in Writers,
         ReceiveBatch(w) \/ HandToFeed(w) \/ SelectHost(w) \/ InsertLog(w)
           \/ InsertUnprocessed(w) \/ SaveFails(w)
  PROVE  RowInv'
<1>1. UNCHANGED <<logs, unprocessed, outcome, operator, temp>>
  BY DEF ReceiveBatch, HandToFeed, SelectHost, InsertLog, InsertUnprocessed, SaveFails,
    tables, operatorVars, moveVars
<1>2. RowsHeld'
  BY <1>1, MoversKept DEF RowInv
<1>3. OneRow'
  BY <1>1 DEF OneRow, RowInv
<1>4. CASE ReceiveBatch(w)
  <2>1. PICK b \in incoming :
          /\ incoming' = incoming \ {b}
          /\ batch' = [batch EXCEPT ![w] = b]
          /\ rest' = [rest EXCEPT ![w] = b]
    BY <1>4 DEF ReceiveBatch
  <2>2. /\ writer[w] = "idle"
        /\ writer' = [writer EXCEPT ![w] = "save"]
        /\ UNCHANGED <<logData, newLogs, newUnprocessed>>
    BY <1>4 DEF ReceiveBatch, newVars
  <2>3. b \in Batches /\ b \subseteq Logs /\ outcome[b] = "none"
    BY BatchAssumption DEF BatchesOwned, RowInv
  <2>4. RowTypes'
    BY <1>1, <2>1, <2>2, <2>3 DEF RowTypes, RowInv
  <2>5. BatchesOwned'
    BY <1>1, <2>1, <2>2, <2>3 DEF BatchesOwned, RowTypes, RowInv
  <2>6. BatchesSplit'
    BY <1>1, <2>1, <2>2, <2>3 DEF BatchesSplit, BatchSplit, RowTypes, RowInv
  <2>7. QED BY <1>2, <1>3, <2>4, <2>5, <2>6 DEF RowInv
<1>5. CASE HandToFeed(w)
  <2>1. PICK log \in rest[w] :
          \/ writer' = [writer EXCEPT ![w] = "rollback"] /\ UNCHANGED logData
          \/ /\ writer' = [writer EXCEPT ![w] = "select"]
             /\ logData' = [logData EXCEPT ![w] = log]
    BY <1>5 DEF HandToFeed
  <2>2. writer[w] = "save" /\ UNCHANGED <<incoming, batch, rest, newLogs, newUnprocessed>>
    BY <1>5 DEF HandToFeed, newVars
  <2>3. RowTypes'
    BY <1>1, <2>1, <2>2 DEF RowTypes, RowInv
  <2>4. BatchesOwned'
    BY <1>1, <2>1, <2>2 DEF BatchesOwned, RowTypes, RowInv
  <2>5. BatchesSplit'
    BY <1>1, <2>1, <2>2 DEF BatchesSplit, BatchSplit, RowTypes, RowInv
  <2>6. QED BY <1>2, <1>3, <2>3, <2>4, <2>5 DEF RowInv
<1>6. CASE SelectHost(w) \/ SaveFails(w)
  <2>1. /\ writer[w] \in {"select", "insert"}
        /\ \/ writer' = [writer EXCEPT ![w] = "insert"]
           \/ writer' = [writer EXCEPT ![w] = "rollback"]
        /\ UNCHANGED <<incoming, batch, rest, logData, newLogs, newUnprocessed>>
    BY <1>6 DEF SelectHost, SaveFails, newVars
  <2>2. RowTypes'
    BY <1>1, <2>1 DEF RowTypes, RowInv
  <2>3. BatchesOwned'
    BY <1>1, <2>1 DEF BatchesOwned, RowTypes, RowInv
  <2>4. BatchesSplit'
    BY <1>1, <2>1 DEF BatchesSplit, BatchSplit, RowTypes, RowInv
  <2>5. QED BY <1>2, <1>3, <2>2, <2>3, <2>4 DEF RowInv
<1>7. CASE InsertLog(w) \/ InsertUnprocessed(w)
  <2>1. CASE UNCHANGED <<rest, logData, newLogs, newUnprocessed>>
    <3>1. /\ writer[w] = "insert"
          /\ writer' = [writer EXCEPT ![w] = "rollback"]
          /\ UNCHANGED <<incoming, batch>>
      BY <1>7, <2>1 DEF InsertLog, InsertUnprocessed, SavedOne, RowInv, RowTypes,
        BatchesSplit, BatchSplit
    <3>2. RowTypes'
      BY <1>1, <2>1, <3>1 DEF RowTypes, RowInv
    <3>3. BatchesOwned'
      BY <1>1, <2>1, <3>1 DEF BatchesOwned, RowTypes, RowInv
    <3>4. BatchesSplit'
      BY <1>1, <2>1, <3>1 DEF BatchesSplit, BatchSplit, RowTypes, RowInv
    <3>5. QED BY <1>2, <1>3, <3>2, <3>3, <3>4 DEF RowInv
  <2>2. CASE SavedOne(w)
    <3>1. /\ writer[w] = "insert"
          /\ \/ /\ newLogs' = [newLogs EXCEPT ![w] = @ \cup {logData[w]}]
                /\ UNCHANGED newUnprocessed
             \/ /\ newUnprocessed' = [newUnprocessed EXCEPT ![w] = @ \cup {logData[w]}]
                /\ UNCHANGED newLogs
          /\ UNCHANGED <<incoming, batch>>
      BY <1>7, <2>2 DEF InsertLog, InsertUnprocessed, SavedOne, RowInv, RowTypes
    <3>2. /\ writer' = [writer EXCEPT ![w] = "save"]
          /\ rest' = [rest EXCEPT ![w] = @ \ {logData[w]}]
          /\ logData' = [logData EXCEPT ![w] = NoLog]
      BY <2>2 DEF SavedOne
    <3>3. logData[w] \in rest[w] /\ rest[w] \subseteq batch[w] /\ logData[w] \in Logs
      BY <3>1 DEF BatchesSplit, BatchSplit, RowTypes, RowInv
    <3>4. RowTypes'
      BY <1>1, <3>1, <3>2, <3>3 DEF RowTypes, RowInv
    <3>5. BatchesOwned'
      BY <1>1, <3>1, <3>2 DEF BatchesOwned, RowTypes, RowInv
    <3>6. BatchesSplit'
      <4> SUFFICES ASSUME NEW v \in Writers PROVE BatchSplit(v)'
        BY DEF BatchesSplit
      <4>1. BatchSplit(v) /\ BatchSplit(w)
        BY DEF BatchesSplit, RowInv
      <4>2. CASE v = w
        BY <1>1, <3>1, <3>2, <3>3, <4>1, <4>2 DEF BatchSplit, RowTypes, RowInv
      <4>3. CASE v # w
        BY <1>1, <3>1, <3>2, <4>1, <4>3 DEF BatchSplit, RowTypes, RowInv
      <4>4. QED BY <4>2, <4>3
    <3>7. QED BY <1>2, <1>3, <3>4, <3>5, <3>6 DEF RowInv
  <2>3. QED BY <1>7, <2>1, <2>2 DEF InsertLog, InsertUnprocessed
<1>8. QED BY <1>4, <1>5, <1>6, <1>7

\* A writer that leaves its batch no longer owns it, and its rows are gone.
LEMMA RowLeave ==
  ASSUME RowInv, NEW w \in Writers, LeaveBatch(w), UNCHANGED <<incoming, operator, temp>>,
         writer[w] # "idle",
         logs' \in [Logs -> Nat], unprocessed' \subseteq Logs,
         NEW end \in {"saved", "failed"}, outcome' = [outcome EXCEPT ![batch[w]] = end]
  PROVE  RowTypes' /\ BatchesOwned' /\ BatchesSplit'
<1>1. batch[w] \in Batches
  BY DEF RowInv, BatchesSplit, BatchSplit
<1>2. /\ writer' = [writer EXCEPT ![w] = "idle"]
      /\ batch' = [batch EXCEPT ![w] = NoBatch]
      /\ rest' = [rest EXCEPT ![w] = {}]
      /\ logData' = [logData EXCEPT ![w] = NoLog]
      /\ newLogs' = [newLogs EXCEPT ![w] = {}]
      /\ newUnprocessed' = [newUnprocessed EXCEPT ![w] = {}]
  BY DEF LeaveBatch
<1>3. RowTypes'
  BY <1>1, <1>2 DEF RowTypes, RowInv
<1>4. BatchesOwned'
  BY <1>1, <1>2 DEF BatchesOwned, RowTypes, RowInv
<1>5. BatchesSplit'
  <2> SUFFICES ASSUME NEW v \in Writers PROVE BatchSplit(v)'
    BY DEF BatchesSplit
  <2>1. BatchSplit(v)
    BY DEF BatchesSplit, RowInv
  <2>2. v # w /\ writer[v] # "idle" => batch[v] # batch[w]
    BY DEF BatchesOwned, RowInv
  <2>3. QED BY <1>1, <1>2, <2>1, <2>2 DEF BatchSplit, RowTypes, RowInv
<1>6. QED BY <1>3, <1>4, <1>5

\* Committing a batch puts each of its logs into one table, and no other log.
LEMMA RowCommit ==
  ASSUME RowInv, NEW w \in Writers, CommitBatch(w)
  PROVE  RowInv'
<1>1. /\ writer[w] = "save" /\ rest[w] = {}
      /\ logs' = WithRows(newLogs[w])
      /\ unprocessed' = unprocessed \cup newUnprocessed[w]
      /\ outcome' = [outcome EXCEPT ![batch[w]] = "saved"]
      /\ LeaveBatch(w)
      /\ UNCHANGED <<incoming, operator, temp>>
  BY DEF CommitBatch, operatorVars, moveVars
<1>2. /\ batch[w] \in Batches /\ outcome[batch[w]] = "none"
      /\ newLogs[w] \cup newUnprocessed[w] = batch[w]
      /\ newLogs[w] \cap newUnprocessed[w] = {}
  BY <1>1 DEF RowInv, BatchesSplit, BatchSplit
<1>3. logs' \in [Logs -> Nat] /\ unprocessed' \subseteq Logs
  BY <1>1 DEF WithRows, RowInv, RowTypes
<1>4. RowTypes' /\ BatchesOwned' /\ BatchesSplit'
  BY <1>1, <1>3, RowLeave
<1>5. RowsHeld'
  BY <1>1, MoversKept DEF RowInv
<1>6. OneRow'
  <2> SUFFICES ASSUME NEW b \in Batches, NEW log \in b
               PROVE  /\ outcome'[b] = "saved" => \/ logs'[log] = 1 /\ log \notin unprocessed'
                                                  \/ logs'[log] = 0 /\ log \in unprocessed'
                      /\ outcome'[b] # "saved" => logs'[log] = 0 /\ log \notin unprocessed'
    BY DEF OneRow
  <2>1. log \in Logs
    BY BatchAssumption
  <2>2. /\ outcome[b] = "saved" => \/ logs[log] = 1 /\ log \notin unprocessed
                                   \/ logs[log] = 0 /\ log \in unprocessed
        /\ outcome[b] # "saved" => logs[log] = 0 /\ log \notin unprocessed
    BY DEF OneRow, RowInv
  <2>3. logs'[log] = IF log \in newLogs[w] THEN logs[log] + 1 ELSE logs[log]
    BY <1>1, <2>1 DEF WithRows
  <2>4. CASE b = batch[w]
    <3>1. outcome'[b] = "saved"
      BY <1>1, <1>2, <2>4 DEF RowInv, RowTypes
    <3>2. logs[log] = 0 /\ log \notin unprocessed
      BY <1>2, <2>2, <2>4
    <3>3. QED BY <1>1, <1>2, <2>3, <2>4, <3>1, <3>2
  <2>5. CASE b # batch[w]
    <3>1. outcome'[b] = outcome[b]
      BY <1>1, <2>5 DEF RowInv, RowTypes
    <3>2. log \notin newLogs[w] /\ log \notin newUnprocessed[w]
      BY <1>2, <2>5, BatchAssumption
    <3>3. QED BY <1>1, <2>2, <2>3, <3>1, <3>2
  <2>6. QED BY <2>4, <2>5
<1>7. QED BY <1>4, <1>5, <1>6 DEF RowInv

\* Rolling a batch back leaves the tables as they were.
LEMMA RowRollBack ==
  ASSUME RowInv, NEW w \in Writers, RollBackBatch(w)
  PROVE  RowInv'
<1>1. /\ writer[w] = "rollback"
      /\ outcome' = [outcome EXCEPT ![batch[w]] = "failed"]
      /\ LeaveBatch(w)
      /\ UNCHANGED <<logs, unprocessed, incoming, operator, temp>>
  BY DEF RollBackBatch, tables, operatorVars, moveVars
<1>2. batch[w] \in Batches /\ outcome[batch[w]] = "none"
  BY <1>1 DEF RowInv, BatchesSplit, BatchSplit
<1>3. RowTypes' /\ BatchesOwned' /\ BatchesSplit'
  BY <1>1, RowLeave DEF RowInv, RowTypes
<1>4. RowsHeld'
  BY <1>1, MoversKept DEF RowInv
<1>5. OneRow'
  BY <1>1, <1>2 DEF OneRow, RowInv, RowTypes
<1>6. QED BY <1>3, <1>4, <1>5 DEF RowInv

-----------------------------------------------------------------------------
\* What a step of an operator has to keep, when no writer moves.
LEMMA RowOperator ==
  ASSUME RowInv, UNCHANGED <<incoming, outcome, writer, batch, rest, logData,
                             newLogs, newUnprocessed>>,
         RowTypes', OneRow', RowsHeld'
  PROVE  RowInv'
BY DEF RowInv, BatchesSplit, BatchSplit, BatchesOwned

\* The steps of an operator that neither hold rows nor begin to.
LEMMA RowOutside ==
  ASSUME RowInv, NEW o \in Operators,
         \/ CallSaveHosts(o) \/ InsertHost(o) \/ CommitHosts(o)
         \/ CallSaveUnprocessed(o) \/ CallFails(o) \/ RollBackCall(o)
  PROVE  RowInv'
<1>1. UNCHANGED <<logs, unprocessed, incoming, outcome, writer, batch, rest, logData,
                  newLogs, newUnprocessed, temp>>
  BY DEF CallSaveHosts, InsertHost, CommitHosts, CallSaveUnprocessed, CallFails, RollBackCall,
    tables, writerVars, newVars, moveVars, addVars
<1>2. \E place \in {"idle", "add", "truncate", "rollback"} :
        operator' = [operator EXCEPT ![o] = place] \/ UNCHANGED operator
  BY DEF CallSaveHosts, InsertHost, CommitHosts, CallSaveUnprocessed, CallFails, RollBackCall
<1>3. PICK place \in {"idle", "add", "truncate", "rollback"} :
        operator' = [operator EXCEPT ![o] = place] \/ UNCHANGED operator
  BY <1>2
<1>4. RowTypes'
  BY <1>1, <1>3 DEF RowTypes, RowInv
<1>5. OneRow'
  BY <1>1 DEF OneRow, RowInv
<1>6. RowsHeld'
  BY <1>1, <1>3 DEF RowsHeld, Movers, RowTypes, RowInv
<1>7. QED BY <1>1, <1>4, <1>5, <1>6, RowOperator

\* The steps of save_unprocessed before the commit.
LEMMA RowMove ==
  ASSUME RowInv, NEW o \in Operators,
         TruncateTemp(o) \/ FillTemp(o) \/ MoveLogs(o) \/ DeleteMoved(o)
  PROVE  RowInv'
<1>1. UNCHANGED <<logs, unprocessed, incoming, outcome, writer, batch, rest, logData,
                  newLogs, newUnprocessed>>
  BY DEF TruncateTemp, FillTemp, MoveLogs, DeleteMoved, tables, writerVars, newVars
<1>2. OneRow'
  BY <1>1 DEF OneRow, RowInv
<1>3. CASE TruncateTemp(o)
  <2>1. /\ operator[o] = "truncate"
        /\ operator' = [operator EXCEPT ![o] = "fill"]
        /\ temp' = [temp EXCEPT ![o] = {}]
    BY <1>3 DEF TruncateTemp
  <2>2. RowTypes'
    BY <1>1, <2>1 DEF RowTypes, RowInv
  <2>3. RowsHeld'
    BY <1>1, <2>1 DEF RowsHeld, Movers, RowTypes, RowInv
  <2>4. QED BY <1>1, <1>2, <2>2, <2>3, RowOperator
<1>4. CASE FillTemp(o)
  <2>1. /\ operator[o] = "fill"
        /\ ~MeetsUncommitted(o)
        /\ operator' = [operator EXCEPT ![o] = "move"]
        /\ temp' = [temp EXCEPT ![o] = @ \cup OfKnownHosts]
    BY <1>4 DEF FillTemp
  <2>2. OfKnownHosts \subseteq unprocessed
    BY DEF OfKnownHosts
  <2>3. \A o2 \in Operators : operator[o2] = "commit" => temp[o2] = {}
    BY <2>1 DEF MeetsUncommitted, LockedByOthers, Movers
  <2>4. temp'[o] = OfKnownHosts
    BY <2>1 DEF RowsHeld, RowTypes, RowInv
  <2>5. RowTypes'
    BY <1>1, <2>1, <2>2 DEF RowTypes, RowInv
  <2>6. RowsHeld'
    BY <1>1, <2>1, <2>2, <2>3, <2>4 DEF RowsHeld, Movers, RowTypes, RowInv
  <2>7. QED BY <1>1, <1>2, <2>5, <2>6, RowOperator
<1>5. CASE MoveLogs(o)
  <2>1. /\ operator[o] = "move"
        /\ \/ operator' = [operator EXCEPT ![o] = "delete"]
           \/ operator' = [operator EXCEPT ![o] = "rollback"]
        /\ UNCHANGED temp
    BY <1>5 DEF MoveLogs, moveVars
  <2>2. RowTypes'
    BY <1>1, <2>1 DEF RowTypes, RowInv
  <2>3. RowsHeld'
    BY <1>1, <2>1 DEF RowsHeld, Movers, RowTypes, RowInv
  <2>4. QED BY <1>1, <1>2, <2>2, <2>3, RowOperator
<1>6. CASE DeleteMoved(o)
  <2>1. /\ operator[o] = "delete"
        /\ operator' = [operator EXCEPT ![o] = "commit"]
        /\ UNCHANGED temp
        /\ temp[o] # {} => Movers \subseteq {o}
    BY <1>6 DEF DeleteMoved, RowsLocked, LockedByOthers, moveVars
  <2>2. RowTypes'
    BY <1>1, <2>1 DEF RowTypes, RowInv
  <2>3. Movers' = Movers
    BY <2>1 DEF Movers, RowTypes, RowInv
  <2>4. RowsHeld'
    BY <1>1, <2>1, <2>3 DEF RowsHeld, Movers, RowTypes, RowInv
  <2>5. QED BY <1>1, <1>2, <2>2, <2>4, RowOperator
<1>7. QED BY <1>3, <1>4, <1>5, <1>6

(***************************************************************************)
(* The rows a mover commits are moved from one table to the other: no      *)
(* other mover is left that could have copied them.                        *)
(***************************************************************************)
LEMMA RowCommitMove ==
  ASSUME RowInv, NEW o \in Operators, CommitMove(o)
  PROVE  RowInv'
<1>1. /\ operator[o] = "commit"
      /\ logs' = WithRows(temp[o])
      /\ unprocessed' = unprocessed \ temp[o]
      /\ operator' = [operator EXCEPT ![o] = "idle"]
      /\ UNCHANGED <<incoming, outcome, writer, batch, rest, logData, newLogs,
                     newUnprocessed, temp>>
  BY DEF CommitMove, writerVars, newVars
<1>2. /\ temp[o] \subseteq unprocessed
      /\ temp[o] # {} => Movers = {o}
  BY <1>1 DEF RowsHeld, Movers, RowInv
<1>3. RowTypes'
  BY <1>1 DEF WithRows, RowTypes, RowInv
<1>4. RowsHeld'
  <2>1. Movers' = Movers \ {o}
    BY <1>1 DEF Movers, RowTypes, RowInv
  <2>2. CASE temp[o] = {}
    BY <1>1, <2>1, <2>2 DEF RowsHeld, Movers, RowTypes, RowInv
  <2>3. CASE temp[o] # {}
    BY <1>1, <1>2, <2>1, <2>3 DEF RowsHeld, RowTypes, RowInv
  <2>4. QED BY <2>2, <2>3
<1>5. OneRow'
  <2> SUFFICES ASSUME NEW b \in Batches, NEW log \in b
               PROVE  /\ outcome'[b] = "saved" => \/ logs'[log] = 1 /\ log \notin unprocessed'
                                                  \/ logs'[log] = 0 /\ log \in unprocessed'
                      /\ outcome'[b] # "saved" => logs'[log] = 0 /\ log \notin unprocessed'
    BY DEF OneRow
  <2>1. log \in Logs
    BY BatchAssumption
  <2>2. /\ outcome[b] = "saved" => \/ logs[log] = 1 /\ log \notin unprocessed
                                   \/ logs[log] = 0 /\ log \in unprocessed
        /\ outcome[b] # "saved" => logs[log] = 0 /\ log \notin unprocessed
    BY DEF OneRow, RowInv
  <2>3. logs'[log] = IF log \in temp[o] THEN logs[log] + 1 ELSE logs[log]
    BY <1>1, <2>1 DEF WithRows
  <2>4. QED BY <1>1, <1>2, <2>2, <2>3
<1>6. QED BY <1>1, <1>3, <1>4, <1>5, RowOperator

-----------------------------------------------------------------------------
LEMMA RowStep == RowInv /\ [Next]_vars => RowInv'
<1> SUFFICES ASSUME RowInv, [Next]_vars PROVE RowInv'
  OBVIOUS
<1>1. CASE UNCHANGED vars
  BY <1>1, RowStutter DEF vars, tables, writerVars, newVars, operatorVars, moveVars
<1>2. ASSUME NEW w \in Writers, ReceiveBatch(w) \/ saveLogs(w) \/ SaveFails(w)
      PROVE  RowInv'
  BY <1>2, RowWriter, RowCommit, RowRollBack DEF saveLogs, saveLog
<1>3. ASSUME NEW o \in Operators,
             \/ CallSaveHosts(o) \/ saveHosts(o)
             \/ CallSaveUnprocessed(o) \/ save_unprocessed(o)
             \/ CallFails(o) \/ RollBackCall(o)
      PROVE  RowInv'
  BY <1>3, RowOutside, RowMove, RowCommitMove DEF saveHosts, save_unprocessed
<1>4. QED BY <1>1, <1>2, <1>3 DEF Next

LEMMA RowInvariant == Spec => []RowInv
BY RowInit, RowStep, PTL DEF Spec

(***************************************************************************)
(* A log whose call succeeded is in exactly one row of the two tables, and *)
(* one whose call failed or still runs in none: save_log, saveLogs and     *)
(* save_unprocessed neither lose nor double a log.                         *)
(***************************************************************************)
THEOREM EachLogOnce == Spec => []KeptOnce
<1>1. RowInv => KeptOnce
  <2> SUFFICES ASSUME RowInv, NEW b \in Batches, NEW log \in b
               PROVE  Rows(log) = IF outcome[b] = "saved" THEN 1 ELSE 0
    BY DEF KeptOnce
  <2>1. QED BY DEF RowInv, OneRow, Rows
<1>2. QED BY <1>1, RowInvariant, PTL
-----------------------------------------------------------------------------
(***************************************************************************)
(* Nothing is left behind. What a call of save_unprocessed found is of     *)
(* known hosts, which are never removed, and saved; so it never comes back *)
(* into unprocessed, and what is still there is copied when temp is filled.*)
(***************************************************************************)
Saved(log) == \E b \in Batches : log \in b /\ outcome[b] = "saved"

Claimed(o) ==
  operator[o] \in {"truncate", "fill", "move", "delete", "commit"} =>
    \A log \in due[o] :
      /\ HostOf[log] \in hosts
      /\ Saved(log)
      /\ operator[o] \in {"move", "delete", "commit"} /\ log \in unprocessed => log \in temp[o]

DueInv ==
  /\ due \in [Operators -> SUBSET Logs]
  /\ \A log \in unprocessed : Saved(log)
  /\ \A o \in Operators : Claimed(o)

\* DueInv holds initially: no call has begun.
LEMMA DueInit == Init => DueInv
BY DEF Init, DueInv, Claimed

\* A step that takes nothing away from hosts or from the saved batches, and brings no saved
\* log back to unprocessed, leaves an operator's claim alone.
LEMMA ClaimKept ==
  ASSUME NEW o \in Operators, Claimed(o), hosts \subseteq hosts',
         \A log : Saved(log) => Saved(log)',
         \A log : Saved(log) /\ log \in unprocessed' => log \in unprocessed,
         operator'[o] = operator[o], due'[o] = due[o], temp'[o] = temp[o]
  PROVE  Claimed(o)'
BY DEF Claimed

\* The steps of a writer: only a commit adds to unprocessed, and only unsaved logs.
LEMMA DueWriter ==
  ASSUME DueInv, RowInv, NEW w \in Writers, ReceiveBatch(w) \/ saveLogs(w) \/ SaveFails(w)
  PROVE  DueInv'
<1>1. UNCHANGED <<hosts, operator, due, temp>>
  BY DEF ReceiveBatch, saveLogs, saveLog, HandToFeed, SelectHost, InsertLog, InsertUnprocessed,
    CommitBatch, RollBackBatch, SaveFails, tables, operatorVars, moveVars
<1>2. /\ \A log : Saved(log) => Saved(log)'
      /\ \A log : Saved(log) /\ log \in unprocessed' => log \in unprocessed
      /\ \A log \in unprocessed' : Saved(log)'
  <2>1. CASE CommitBatch(w)
    <3>1. /\ writer[w] = "save" /\ rest[w] = {}
          /\ unprocessed' = unprocessed \cup newUnprocessed[w]
          /\ outcome' = [outcome EXCEPT ![batch[w]] = "saved"]
      BY <2>1 DEF CommitBatch
    <3>2. /\ batch[w] \in Batches /\ outcome[batch[w]] = "none"
          /\ newUnprocessed[w] \subseteq batch[w]
      BY <3>1 DEF RowInv, BatchesSplit, BatchSplit
    <3>3. \A b \in Batches : outcome'[b] = IF b = batch[w] THEN "saved" ELSE outcome[b]
      BY <3>1, <3>2 DEF RowInv, RowTypes
    <3>4. \A log : Saved(log) => Saved(log)'
      BY <3>3 DEF Saved
    <3>5. \A log : Saved(log) => log \notin newUnprocessed[w]
      BY <3>2, BatchAssumption DEF Saved
    <3>6. \A log \in newUnprocessed[w] : Saved(log)'
      BY <3>2, <3>3 DEF Saved
    <3>7. QED BY <3>1, <3>4, <3>5, <3>6 DEF DueInv
  <2>2. CASE RollBackBatch(w)
    <3>1. /\ writer[w] = "rollback"
          /\ outcome' = [outcome EXCEPT ![batch[w]] = "failed"]
          /\ UNCHANGED unprocessed
      BY <2>2 DEF RollBackBatch, tables
    <3>2. batch[w] \in Batches /\ outcome[batch[w]] = "none"
      BY <3>1 DEF RowInv, BatchesSplit, BatchSplit
    <3>3. \A b \in Batches : outcome[b] = "saved" => outcome'[b] = "saved"
      BY <3>1, <3>2 DEF RowInv, RowTypes
    <3>4. QED BY <3>1, <3>3 DEF Saved, DueInv
  <2>3. CASE UNCHANGED <<unprocessed, outcome>>
    BY <2>3 DEF Saved, DueInv
  <2>4. QED BY <2>1, <2>2, <2>3 DEF ReceiveBatch, saveLogs, saveLog, HandToFeed, SelectHost,
              InsertLog, InsertUnprocessed, SaveFails, tables
<1>3. \A o \in Operators : Claimed(o)'
  BY <1>1, <1>2, ClaimKept DEF DueInv
<1>4. QED BY <1>1, <1>2, <1>3 DEF DueInv

\* The steps of an operator: none changes a batch or adds to unprocessed.
LEMMA DueOperator ==
  ASSUME DueInv, RowInv, NEW o \in Operators,
         \/ CallSaveHosts(o) \/ saveHosts(o)
         \/ CallSaveUnprocessed(o) \/ save_unprocessed(o)
         \/ CallFails(o) \/ RollBackCall(o)
  PROVE  DueInv'
<1> USE DEF CallSaveHosts, saveHosts, InsertHost, CommitHosts, CallSaveUnprocessed,
      save_unprocessed, TruncateTemp, FillTemp, MoveLogs, DeleteMoved, CommitMove, CallFails,
      RollBackCall, tables, writerVars, addVars, moveVars
<1>1. UNCHANGED outcome /\ hosts \subseteq hosts' /\ unprocessed' \subseteq unprocessed
  OBVIOUS
<1>2. \A log : Saved(log) <=> Saved(log)'
  BY <1>1 DEF Saved
<1>3. \A log \in unprocessed' : Saved(log)'
  BY <1>1, <1>2 DEF DueInv
<1>4. due' \in [Operators -> SUBSET Logs]
  <2>1. \/ UNCHANGED due
        \/ due' = [due EXCEPT ![o] = OfKnownHosts]
        \/ due' = [due EXCEPT ![o] = {}]
    OBVIOUS
  <2>2. due \in [Operators -> SUBSET Logs] /\ OfKnownHosts \in SUBSET Logs
    BY DEF OfKnownHosts, DueInv, RowInv, RowTypes
  <2>3. QED
    <3> HIDE DEF CallSaveHosts, saveHosts, CallSaveUnprocessed, save_unprocessed, CallFails,
          RollBackCall
    <3> QED BY <2>1, <2>2
<1>5. ASSUME NEW v \in Operators, v # o PROVE Claimed(v)'
  <2>1. operator'[v] = operator[v] /\ due'[v] = due[v] /\ temp'[v] = temp[v]
    BY <1>5 DEF DueInv, RowInv, RowTypes
  <2>2. QED BY <1>1, <1>2, <2>1, ClaimKept DEF DueInv
<1>6. Claimed(o)'
  <2>1. Claimed(o)
    BY DEF DueInv
  <2>2. CASE CallSaveUnprocessed(o)
    <3>1. operator'[o] = "truncate" /\ due'[o] = OfKnownHosts
      BY <2>2 DEF DueInv, RowInv, RowTypes
    <3>2. QED BY <1>1, <1>2, <3>1 DEF Claimed, OfKnownHosts, DueInv
  <2>3. CASE TruncateTemp(o)
    <3>1. operator[o] = "truncate" /\ operator'[o] = "fill" /\ due'[o] = due[o]
      BY <2>3 DEF RowInv, RowTypes
    <3>2. QED BY <1>1, <1>2, <2>1, <3>1 DEF Claimed
  <2>4. CASE FillTemp(o)
    <3>1. /\ operator[o] = "fill" /\ operator'[o] = "move" /\ due'[o] = due[o]
          /\ OfKnownHosts \subseteq temp'[o] /\ UNCHANGED unprocessed
      BY <2>4 DEF RowInv, RowTypes
    <3>2. QED BY <1>1, <1>2, <2>1, <3>1 DEF Claimed, OfKnownHosts
  <2>5. CASE MoveLogs(o) \/ DeleteMoved(o)
    <3>1. /\ operator[o] \in {"move", "delete"}
          /\ operator'[o] \in {"delete", "commit", "rollback"}
          /\ due'[o] = due[o] /\ temp'[o] = temp[o]
      BY <2>5 DEF RowInv, RowTypes
    <3>2. QED BY <1>1, <1>2, <2>1, <3>1 DEF Claimed
  <2>6. CASE CallSaveHosts(o) \/ saveHosts(o) \/ CommitMove(o) \/ CallFails(o) \/ RollBackCall(o)
    <3>1. operator'[o] \in {"idle", "add", "rollback"}
      BY <2>6 DEF RowInv, RowTypes
    <3>2. QED BY <3>1 DEF Claimed
  <2>7. QED BY <2>2, <2>3, <2>4, <2>5, <2>6
<1>7. QED BY <1>3, <1>4, <1>5, <1>6 DEF DueInv

LEMMA DueInvariant == Spec => [](RowInv /\ DueInv)
<1>1. RowInv /\ DueInv /\ [Next]_vars => DueInv'
  <2> SUFFICES ASSUME RowInv, DueInv, [Next]_vars PROVE DueInv'
    OBVIOUS
  <2>1. CASE UNCHANGED vars
    BY <2>1 DEF vars, tables, writerVars, operatorVars, moveVars, DueInv, Claimed, Saved
  <2>2. CASE Next
    BY <2>2, DueWriter, DueOperator DEF Next
  <2>3. QED BY <2>1, <2>2
<1>2. QED BY <1>1, DueInit, RowInvariant, PTL DEF Spec

(***************************************************************************)
(* When save_unprocessed commits, no log that had to be moved when it was  *)
(* called is left in unprocessed, whatever the other operators did.        *)
(***************************************************************************)
THEOREM NothingLeft == Spec => AllMoved
<1>1. ASSUME RowInv, DueInv, [Next]_vars, NEW o \in Operators,
             operator[o] = "commit", operator'[o] = "idle"
      PROVE  due[o] \cap unprocessed' = {}
  <2>1. Claimed(o)
    BY <1>1 DEF DueInv
  <2>2. due[o] \cap unprocessed \subseteq temp[o]
    <3>1. operator[o] = "commit"
      BY <1>1
    <3>2. QED BY ONLY <2>1, <3>1 DEF Claimed
  <2>3. CommitMove(o)
    <3>1. ASSUME NEW w \in Writers, ReceiveBatch(w) \/ saveLogs(w) \/ SaveFails(w)
          PROVE  UNCHANGED operator
      BY <3>1 DEF ReceiveBatch, saveLogs, saveLog, HandToFeed, SelectHost, InsertLog,
        InsertUnprocessed, CommitBatch, RollBackBatch, SaveFails, operatorVars
    <3>2. ASSUME NEW v \in Operators, v # o,
                 \/ CallSaveHosts(v) \/ saveHosts(v)
                 \/ CallSaveUnprocessed(v) \/ save_unprocessed(v)
                 \/ CallFails(v) \/ RollBackCall(v)
          PROVE  operator'[o] = operator[o]
      <4>1. PICK place : operator' = [operator EXCEPT ![v] = place] \/ UNCHANGED operator
        BY <3>2 DEF CallSaveHosts, saveHosts, InsertHost, CommitHosts, CallSaveUnprocessed,
          save_unprocessed, TruncateTemp, FillTemp, MoveLogs, DeleteMoved, CommitMove, CallFails,
          RollBackCall
      <4>2. operator \in [Operators -> {"idle", "add", "truncate", "fill", "move", "delete",
                                        "commit", "rollback"}]
        BY <1>1 DEF RowInv, RowTypes
      <4>3. v # o
        BY <3>2
      <4>4. QED BY <4>1, <4>2, <4>3
    <3>3. ASSUME \/ CallSaveHosts(o) \/ saveHosts(o) \/ CallSaveUnprocessed(o)
                 \/ TruncateTemp(o) \/ FillTemp(o) \/ MoveLogs(o) \/ DeleteMoved(o)
                 \/ CallFails(o) \/ RollBackCall(o)
          PROVE  FALSE
      BY <1>1, <3>3 DEF CallSaveHosts, saveHosts, InsertHost, CommitHosts, CallSaveUnprocessed,
        TruncateTemp, FillTemp, MoveLogs, DeleteMoved, CallFails, RollBackCall
    <3>4. CASE UNCHANGED vars
      BY <1>1, <3>4 DEF vars, operatorVars
    <3>5. QED BY <1>1, <3>1, <3>2, <3>3, <3>4 DEF Next, save_unprocessed
  <2>4. unprocessed' = unprocessed \ temp[o]
    BY <2>3 DEF CommitMove
  <2>5. QED BY <2>2, <2>4
<1>2. RowInv /\ DueInv /\ [Next]_vars =>
        [\A o \in Operators :
           operator[o] = "commit" /\ operator'[o] = "idle"
             => due[o] \cap unprocessed' = {}]_vars
  BY <1>1
<1>3. QED BY <1>2, DueInvariant, PTL DEF Spec, AllMoved

-----------------------------------------------------------------------------
(***************************************************************************)
(* The forms. While a form is being added, the hosts that are inserted and *)
(* those still to insert are those of one list. No host that is inserted   *)
(* is in the table or is being inserted by another form: InnoDB makes a    *)
(* second row with the same key wait for the end of the first.             *)
(***************************************************************************)
Names(list) == {list[i] : i \in DOMAIN list}

FormTypes ==
  /\ hosts \subseteq Hosts
  /\ operator \in [Operators -> {"idle", "add", "truncate", "fill", "move", "delete",
                                 "commit", "rollback"}]
  /\ toAdd \in [Operators -> Seq(Hosts)]
  /\ newHosts \in [Operators -> SUBSET Hosts]

FormInHand(o) ==
  /\ operator[o] \notin {"add", "rollback"} => newHosts[o] = {}
  /\ operator[o] = "add" =>
       \E list \in HostLists : newHosts[o] \cup Names(toAdd[o]) = Names(list)
  /\ newHosts[o] \cap hosts = {}

FormInv ==
  /\ FormTypes
  /\ \A o \in Operators : FormInHand(o)
  /\ \A o1, o2 \in Operators : o1 # o2 => newHosts[o1] \cap newHosts[o2] = {}

LEMMA NamesSplit ==
  ASSUME NEW list \in Seq(Hosts), list # <<>>
  PROVE  /\ Names(list) = {Head(list)} \cup Names(Tail(list))
         /\ Head(list) \in Hosts /\ Tail(list) \in Seq(Hosts)
<1>1. /\ Head(list) \in Hosts /\ Tail(list) \in Seq(Hosts)
      /\ Len(Tail(list)) = Len(list) - 1
      /\ \A i \in 1 .. Len(Tail(list)) : Tail(list)[i] = list[i + 1]
  BY HeadTailProperties
<1>2. Len(list) \in Nat \ {0} /\ Head(list) = list[1]
  BY EmptySeq, LenProperties
<1>3. DOMAIN list = 1 .. Len(list) /\ DOMAIN Tail(list) = 1 .. Len(Tail(list))
  BY <1>1, LenProperties
<1>4. ASSUME NEW i \in 1 .. Len(list) PROVE list[i] = Head(list) \/ list[i] \in Names(Tail(list))
  <2>1. CASE i = 1
    BY <1>2, <2>1
  <2>2. CASE i # 1
    <3>1. i - 1 \in 1 .. Len(Tail(list)) /\ Tail(list)[i - 1] = list[i]
      BY <1>1, <1>2, <2>2
    <3> QED  BY <1>3, <3>1 DEF Names
  <2> QED  BY <2>1, <2>2
<1>5. Head(list) \in Names(list)
  BY <1>2, <1>3 DEF Names
<1>6. ASSUME NEW i \in 1 .. Len(Tail(list)) PROVE Tail(list)[i] \in Names(list)
  <2>1. i + 1 \in 1 .. Len(list)
    BY <1>1, <1>2
  <2> QED  BY <1>1, <1>3, <2>1 DEF Names
<1> QED  BY <1>1, <1>3, <1>4, <1>5, <1>6 DEF Names

\* FormInv holds initially: no form has been submitted.
LEMMA FormInit == Init => FormInv
BY DEF Init, FormInv, FormTypes, FormInHand

\* A form that is not touched stays as it is when no host of it is added.
LEMMA FormKept ==
  ASSUME NEW o \in Operators, FormInHand(o),
         operator'[o] = operator[o], toAdd'[o] = toAdd[o], newHosts'[o] = newHosts[o],
         newHosts[o] \cap hosts' = {}
  PROVE  FormInHand(o)'
BY DEF FormInHand

LEMMA FormCall ==
  ASSUME FormInv, NEW o \in Operators, CallSaveHosts(o)
  PROVE  FormInv'
<1>1. PICK list \in HostLists : toAdd' = [toAdd EXCEPT ![o] = list]
  BY DEF CallSaveHosts
<1>2. /\ operator[o] = "idle"
      /\ operator' = [operator EXCEPT ![o] = "add"]
      /\ UNCHANGED <<hosts, newHosts>>
  BY DEF CallSaveHosts, tables
<1>3. list \in Seq(Hosts)
  BY ListAssumption
<1>4. FormTypes'
  BY <1>1, <1>2, <1>3 DEF FormInv, FormTypes
<1>5. /\ operator'[o] = "add" /\ toAdd'[o] = list /\ newHosts'[o] = newHosts[o]
      /\ newHosts[o] = {}
  BY <1>1, <1>2 DEF FormInv, FormTypes, FormInHand
<1>6. FormInHand(o)'
  BY <1>2, <1>5 DEF FormInHand
<1>7. ASSUME NEW v \in Operators, v # o PROVE FormInHand(v)'
  BY <1>1, <1>2, <1>7, FormKept DEF FormInv, FormTypes, FormInHand
<1> QED  BY <1>2, <1>4, <1>6, <1>7 DEF FormInv

LEMMA FormInsert ==
  ASSUME FormInv, NEW o \in Operators, InsertHost(o)
  PROVE  FormInv'
<1> DEFINE host == Head(toAdd[o])
<1>1. /\ operator[o] = "add" /\ toAdd[o] # <<>> /\ UNCHANGED hosts
      /\ \A v \in Operators \ {o} : host \notin newHosts[v]
  BY DEF InsertHost, KeyTaken, tables
<1>2. toAdd[o] \in Seq(Hosts)
  BY DEF FormInv, FormTypes
<1>3. /\ Names(toAdd[o]) = {host} \cup Names(Tail(toAdd[o]))
      /\ host \in Hosts /\ Tail(toAdd[o]) \in Seq(Hosts)
  BY <1>1, <1>2, NamesSplit
<1> HIDE DEF host
<1>4. CASE /\ operator' = [operator EXCEPT ![o] = "rollback"]
           /\ UNCHANGED <<toAdd, newHosts>>
  BY <1>1, <1>4 DEF FormInv, FormTypes, FormInHand
<1>5. CASE /\ host \notin hosts
           /\ newHosts' = [newHosts EXCEPT ![o] = @ \cup {host}]
           /\ toAdd' = [toAdd EXCEPT ![o] = Tail(@)]
           /\ UNCHANGED operator
  <2>1. FormTypes'
    BY <1>1, <1>3, <1>5 DEF FormInv, FormTypes
  <2>2. /\ newHosts'[o] = newHosts[o] \cup {host} /\ toAdd'[o] = Tail(toAdd[o])
        /\ \A v \in Operators \ {o} : newHosts'[v] = newHosts[v] /\ toAdd'[v] = toAdd[v]
    BY <1>5 DEF FormInv, FormTypes
  <2>3. FormInHand(o)'
    <3>1. PICK list \in HostLists : newHosts[o] \cup Names(toAdd[o]) = Names(list)
      BY <1>1 DEF FormInv, FormInHand
    <3>2. newHosts'[o] \cup Names(toAdd'[o]) = Names(list)
      BY <1>3, <2>2, <3>1
    <3>3. newHosts[o] \cap hosts = {}
      BY DEF FormInv, FormInHand
    <3> QED  BY <1>1, <1>5, <2>2, <3>2, <3>3 DEF FormInHand
  <2>4. ASSUME NEW v \in Operators, v # o PROVE FormInHand(v)'
    BY <1>1, <1>5, <2>2, <2>4, FormKept DEF FormInv, FormInHand
  <2>5. ASSUME NEW o1 \in Operators, NEW o2 \in Operators, o1 # o2
        PROVE  newHosts'[o1] \cap newHosts'[o2] = {}
    <3>1. newHosts[o1] \cap newHosts[o2] = {}
      BY <2>5 DEF FormInv
    <3> QED  BY <1>1, <2>2, <2>5, <3>1
  <2> QED  BY <2>1, <2>3, <2>4, <2>5 DEF FormInv
<1> QED  BY <1>4, <1>5 DEF InsertHost, addVars, host

LEMMA FormCommit ==
  ASSUME FormInv, NEW o \in Operators, CommitHosts(o)
  PROVE  FormInv'
<1>1. /\ operator[o] = "add" /\ hosts' = hosts \cup newHosts[o]
      /\ newHosts' = [newHosts EXCEPT ![o] = {}]
      /\ operator' = [operator EXCEPT ![o] = "idle"]
      /\ UNCHANGED toAdd
  BY DEF CommitHosts
<1>2. FormTypes'
  BY <1>1 DEF FormInv, FormTypes
<1>3. /\ newHosts'[o] = {} /\ operator'[o] = "idle"
      /\ \A v \in Operators \ {o} : newHosts'[v] = newHosts[v] /\ operator'[v] = operator[v]
  BY <1>1 DEF FormInv, FormTypes
<1>4. FormInHand(o)'
  BY <1>3 DEF FormInHand
<1>5. ASSUME NEW v \in Operators, v # o PROVE FormInHand(v)'
  BY <1>1, <1>3, <1>5, FormKept DEF FormInv, FormInHand
<1>6. \A o1, o2 \in Operators : o1 # o2 => newHosts'[o1] \cap newHosts'[o2] = {}
  BY <1>3 DEF FormInv
<1> QED  BY <1>2, <1>4, <1>5, <1>6 DEF FormInv

LEMMA FormRollBack ==
  ASSUME FormInv, NEW o \in Operators, RollBackCall(o)
  PROVE  FormInv'
<1>1. /\ newHosts' = [newHosts EXCEPT ![o] = {}]
      /\ toAdd' = [toAdd EXCEPT ![o] = <<>>]
      /\ operator' = [operator EXCEPT ![o] = "idle"]
      /\ UNCHANGED hosts
  BY DEF RollBackCall, tables
<1>2. FormTypes'
  BY <1>1 DEF FormInv, FormTypes
<1>3. /\ newHosts'[o] = {} /\ operator'[o] = "idle"
      /\ \A v \in Operators \ {o} : /\ newHosts'[v] = newHosts[v] /\ toAdd'[v] = toAdd[v]
                                    /\ operator'[v] = operator[v]
  BY <1>1 DEF FormInv, FormTypes
<1>4. FormInHand(o)'
  BY <1>3 DEF FormInHand
<1>5. ASSUME NEW v \in Operators, v # o PROVE FormInHand(v)'
  BY <1>1, <1>3, <1>5, FormKept DEF FormInv, FormInHand
<1>6. \A o1, o2 \in Operators : o1 # o2 => newHosts'[o1] \cap newHosts'[o2] = {}
  BY <1>3 DEF FormInv
<1> QED  BY <1>2, <1>4, <1>5, <1>6 DEF FormInv

\* The other steps of an operator leave its form, or end it.
LEMMA FormOther ==
  ASSUME FormInv, NEW o \in Operators,
         CallSaveUnprocessed(o) \/ save_unprocessed(o) \/ CallFails(o)
  PROVE  FormInv'
<1>1. UNCHANGED <<hosts, toAdd, newHosts>>
  BY DEF CallSaveUnprocessed, save_unprocessed, TruncateTemp, FillTemp, MoveLogs, DeleteMoved,
    CommitMove, CallFails, tables, addVars
<1>2. \E place \in {"idle", "truncate", "fill", "move", "delete", "commit", "rollback"} :
        /\ operator' = [operator EXCEPT ![o] = place]
        /\ operator[o] \in {"add", "rollback"} => place = "rollback"
  BY DEF CallSaveUnprocessed, save_unprocessed, TruncateTemp, FillTemp, MoveLogs, DeleteMoved,
    CommitMove, CallFails
<1>3. PICK place \in {"idle", "truncate", "fill", "move", "delete", "commit", "rollback"} :
        /\ operator' = [operator EXCEPT ![o] = place]
        /\ operator[o] \in {"add", "rollback"} => place = "rollback"
  BY <1>2
<1>4. FormTypes'
  BY <1>1, <1>3 DEF FormInv, FormTypes
<1>5. ASSUME NEW v \in Operators PROVE FormInHand(v)'
  BY <1>1, <1>3 DEF FormInv, FormTypes, FormInHand
<1> QED  BY <1>1, <1>4, <1>5 DEF FormInv

LEMMA WriterLeavesForms ==
  ASSUME NEW w \in Writers, ReceiveBatch(w) \/ saveLogs(w) \/ SaveFails(w)
  PROVE  UNCHANGED <<hosts, operator, toAdd, newHosts>>
BY DEF ReceiveBatch, saveLogs, saveLog, HandToFeed, SelectHost, InsertLog, InsertUnprocessed,
  CommitBatch, RollBackBatch, SaveFails, tables, operatorVars, addVars

LEMMA FormStep == FormInv /\ [Next]_vars => FormInv'
<1> SUFFICES ASSUME FormInv, [Next]_vars PROVE FormInv'
  OBVIOUS
<1>1. CASE UNCHANGED <<hosts, operator, toAdd, newHosts>>
  BY <1>1 DEF FormInv, FormTypes, FormInHand
<1>2. CASE UNCHANGED vars
  BY <1>1, <1>2 DEF vars, tables, operatorVars, addVars
<1>3. CASE \E w \in Writers : ReceiveBatch(w) \/ saveLogs(w) \/ SaveFails(w)
  BY <1>1, <1>3, WriterLeavesForms
<1>4. CASE \E o \in Operators :
             \/ CallSaveHosts(o) \/ saveHosts(o)
             \/ CallSaveUnprocessed(o) \/ save_unprocessed(o)
             \/ CallFails(o) \/ RollBackCall(o)
  BY <1>4, FormCall, FormInsert, FormCommit, FormRollBack, FormOther DEF saveHosts
<1> QED  BY <1>2, <1>3, <1>4 DEF Next

LEMMA FormInvariant == Spec => []FormInv
BY FormInit, FormStep, PTL DEF Spec

(***************************************************************************)
(* The hosts of a form are added together or not at all: saveHosts is one  *)
(* transaction, and the unique key on the hostname makes a form fail that  *)
(* names a host which is known or comes to be.                             *)
(***************************************************************************)
THEOREM FormsWhole == Spec => FormsAddedWhole
<1>1. ASSUME FormInv, [Next]_vars, hosts' # hosts
      PROVE  \E list \in HostLists : hosts' \ hosts = {list[i] : i \in DOMAIN list}
  <2>1. PICK o \in Operators : CommitHosts(o)
    <3>1. ASSUME NEW o \in Operators,
                 \/ CallSaveHosts(o) \/ InsertHost(o)
                 \/ CallSaveUnprocessed(o) \/ save_unprocessed(o)
                 \/ CallFails(o) \/ RollBackCall(o)
          PROVE  UNCHANGED hosts
      BY <3>1 DEF CallSaveHosts, InsertHost, CallSaveUnprocessed, save_unprocessed, TruncateTemp,
        FillTemp, MoveLogs, DeleteMoved, CommitMove, CallFails, RollBackCall, tables
    <3>2. hosts' # hosts /\ ~UNCHANGED vars
      BY <1>1 DEF vars, tables
    <3> QED  BY <1>1, <3>1, <3>2, WriterLeavesForms DEF Next, saveHosts
  <2>2. operator[o] = "add" /\ toAdd[o] = <<>> /\ hosts' = hosts \cup newHosts[o]
    BY <2>1 DEF CommitHosts
  <2>3. FormInHand(o)
    BY <1>1 DEF FormInv
  <2>4. Names(toAdd[o]) = {}
    BY <2>2 DEF Names
  <2>5. PICK list \in HostLists : newHosts[o] = Names(list)
    BY <2>2, <2>3, <2>4 DEF FormInHand
  <2>6. hosts' \ hosts = newHosts[o]
    BY <2>2, <2>3 DEF FormInHand
  <2> QED  BY <2>5, <2>6 DEF Names
<1>2. FormInv /\ [Next]_vars =>
        [hosts' # hosts =>
           \E list \in HostLists : hosts' \ hosts = {list[i] : i \in DOMAIN list}]_vars
  BY <1>1
<1> QED  BY <1>2, FormInvariant, PTL DEF Spec, FormsAddedWhole

-----------------------------------------------------------------------------
(***************************************************************************)
(* The hosts of the rows. A host is looked up among those that are         *)
(* committed, and none is ever removed; so it is still there when the row  *)
(* is inserted, committed or moved.                                        *)
(***************************************************************************)
OfKnown(set) == \A log \in set : HostOf[log] \in hosts

HostInv ==
  /\ hostKnown \in [Writers -> BOOLEAN]
  /\ LogsHaveHosts
  /\ \A w \in Writers :
       /\ OfKnown(newLogs[w])
       /\ writer[w] = "insert" /\ hostKnown[w] => HostOf[logData[w]] \in hosts
  /\ \A o \in Movers : OfKnown(temp[o])

LEMMA HostInit == Init => HostInv
BY DEF Init, HostInv, LogsHaveHosts, OfKnown, Movers

\* What rows are added to is of known hosts if the rows are.
LEMMA AddedHaveHosts ==
  ASSUME RowTypes, LogsHaveHosts, NEW added, OfKnown(added),
         hosts \subseteq hosts', logs' = WithRows(added)
  PROVE  LogsHaveHosts'
BY DEF RowTypes, LogsHaveHosts, OfKnown, WithRows

LEMMA HostWriter ==
  ASSUME RowInv, HostInv, NEW w \in Writers, ReceiveBatch(w) \/ saveLogs(w) \/ SaveFails(w)
  PROVE  HostInv'
<1>1. UNCHANGED <<hosts, operator, temp>>
  BY DEF ReceiveBatch, saveLogs, saveLog, HandToFeed, SelectHost, InsertLog, InsertUnprocessed,
    CommitBatch, RollBackBatch, SaveFails, tables, operatorVars, moveVars
<1>2. \A o \in Movers' : OfKnown(temp[o])'
  BY <1>1 DEF HostInv, Movers, OfKnown
<1>3. CASE SelectHost(w)
  <2>1. /\ hostKnown' = [hostKnown EXCEPT ![w] = HostOf[logData[w]] \in hosts]
        /\ writer' = [writer EXCEPT ![w] = "insert"]
        /\ UNCHANGED <<logs, logData, newLogs>>
    BY <1>3 DEF SelectHost, tables, newVars
  <2>2. /\ hostKnown'[w] <=> HostOf[logData[w]] \in hosts
        /\ hostKnown' \in [Writers -> BOOLEAN]
        /\ \A v \in Writers \ {w} : (hostKnown'[v] <=> hostKnown[v]) /\ writer'[v] = writer[v]
    <3>1. hostKnown \in [Writers -> BOOLEAN] /\ (HostOf[logData[w]] \in hosts) \in BOOLEAN
      BY DEF HostInv
    <3>2. writer' = [writer EXCEPT ![w] = "insert"]
      BY <2>1
    <3>3. \A v \in Writers \ {w} : writer'[v] = writer[v]
      BY <3>2 DEF RowInv, RowTypes
    <3>4. hostKnown' = [hostKnown EXCEPT ![w] = HostOf[logData[w]] \in hosts]
      BY <2>1
    <3> QED  BY <3>1, <3>3, <3>4, Zenon
  <2>3. \A v \in Writers :
          writer'[v] = "insert" /\ hostKnown'[v] => HostOf[logData'[v]] \in hosts'
    BY <1>1, <2>1, <2>2 DEF HostInv
  <2>4. LogsHaveHosts' /\ \A v \in Writers : OfKnown(newLogs[v])'
    BY <1>1, <2>1 DEF HostInv, LogsHaveHosts, OfKnown
  <2> QED  BY <1>2, <2>2, <2>3, <2>4 DEF HostInv
<1>4. CASE InsertLog(w)
  <2>1. /\ writer[w] = "insert" /\ hostKnown[w]
        /\ \E place \in {"save", "rollback"} : writer' = [writer EXCEPT ![w] = place]
        /\ \/ UNCHANGED newLogs
           \/ newLogs' = [newLogs EXCEPT ![w] = @ \cup {logData[w]}]
        /\ UNCHANGED <<logs, hostKnown>>
        /\ \A v \in Writers \ {w} : logData'[v] = logData[v]
    BY <1>4 DEF InsertLog, SavedOne, tables, RowInv, RowTypes
  <2>2. HostOf[logData[w]] \in hosts
    BY <2>1 DEF HostInv
  <2>3. \A v \in Writers : OfKnown(newLogs[v])'
    BY <1>1, <2>1, <2>2 DEF HostInv, OfKnown, RowInv, RowTypes
  <2>4. \A v \in Writers :
          writer'[v] = "insert" /\ hostKnown'[v] => HostOf[logData'[v]] \in hosts'
    BY <1>1, <2>1 DEF HostInv, RowInv, RowTypes
  <2>5. LogsHaveHosts' /\ hostKnown' \in [Writers -> BOOLEAN]
    BY <1>1, <2>1 DEF HostInv, LogsHaveHosts
  <2> QED  BY <1>2, <2>3, <2>4, <2>5 DEF HostInv
<1>5. CASE CommitBatch(w)
  <2>1. /\ logs' = WithRows(newLogs[w]) /\ UNCHANGED hostKnown
        /\ writer' = [writer EXCEPT ![w] = "idle"]
        /\ logData' = [logData EXCEPT ![w] = NoLog]
        /\ newLogs' = [newLogs EXCEPT ![w] = {}]
    BY <1>5 DEF CommitBatch, LeaveBatch
  <2>2. LogsHaveHosts'
    BY <1>1, <2>1, AddedHaveHosts DEF HostInv, RowInv
  <2> QED  BY <1>1, <1>2, <2>1, <2>2 DEF HostInv, OfKnown, RowInv, RowTypes
<1>6. CASE ReceiveBatch(w) \/ HandToFeed(w) \/ InsertUnprocessed(w) \/ RollBackBatch(w) \/ SaveFails(w)
  <2>1. /\ UNCHANGED <<logs, hostKnown>>
        /\ \E place \in {"idle", "save", "select", "rollback"} :
             writer' = [writer EXCEPT ![w] = place]
        /\ newLogs' = newLogs \/ newLogs' = [newLogs EXCEPT ![w] = {}]
        /\ \A v \in Writers \ {w} : logData'[v] = logData[v]
    BY <1>6 DEF ReceiveBatch, HandToFeed, InsertUnprocessed, RollBackBatch, SaveFails, SavedOne,
      LeaveBatch, tables, newVars, RowInv, RowTypes
  <2> QED  BY <1>1, <1>2, <2>1 DEF HostInv, LogsHaveHosts, OfKnown, RowInv, RowTypes
<1> QED  BY <1>3, <1>4, <1>5, <1>6 DEF saveLogs, saveLog

LEMMA HostOperator ==
  ASSUME RowInv, HostInv, NEW o \in Operators,
         \/ CallSaveHosts(o) \/ saveHosts(o)
         \/ CallSaveUnprocessed(o) \/ save_unprocessed(o)
         \/ CallFails(o) \/ RollBackCall(o)
  PROVE  HostInv'
<1>1. hosts \subseteq hosts'
  BY DEF CallSaveHosts, saveHosts, InsertHost, CommitHosts, CallSaveUnprocessed,
    save_unprocessed, TruncateTemp, FillTemp, MoveLogs, DeleteMoved, CommitMove, CallFails,
    RollBackCall, tables
<1>2. UNCHANGED <<writer, logData, hostKnown, newLogs>>
  BY DEF CallSaveHosts, saveHosts, InsertHost, CommitHosts, CallSaveUnprocessed,
    save_unprocessed, TruncateTemp, FillTemp, MoveLogs, DeleteMoved, CommitMove, CallFails,
    RollBackCall, writerVars, newVars
<1>3. \A w \in Writers :
        /\ OfKnown(newLogs[w])'
        /\ writer'[w] = "insert" /\ hostKnown'[w] => HostOf[logData'[w]] \in hosts'
  BY <1>1, <1>2 DEF HostInv, OfKnown
<1>4. CASE CommitMove(o)
  <2>1. /\ operator[o] = "commit" /\ logs' = WithRows(temp[o])
        /\ operator' = [operator EXCEPT ![o] = "idle"] /\ UNCHANGED temp
    BY <1>4 DEF CommitMove
  <2>2. OfKnown(temp[o])
    BY <2>1 DEF HostInv, Movers
  <2>3. LogsHaveHosts'
    BY <1>1, <2>1, <2>2, AddedHaveHosts DEF HostInv, RowInv
  <2>4. \A v \in Movers' : OfKnown(temp[v])'
    BY <1>1, <2>1 DEF HostInv, Movers, OfKnown, RowInv, RowTypes
  <2> QED  BY <1>2, <1>3, <2>3, <2>4 DEF HostInv
<1>5. CASE FillTemp(o)
  <2>1. /\ operator[o] = "fill" /\ UNCHANGED <<hosts, logs>>
        /\ operator' = [operator EXCEPT ![o] = "move"]
        /\ temp' = [temp EXCEPT ![o] = @ \cup OfKnownHosts]
    BY <1>5 DEF FillTemp, tables
  <2>2. temp'[o] = OfKnownHosts
    BY <2>1 DEF RowInv, RowTypes, RowsHeld
  <2>3. \A v \in Movers' : OfKnown(temp[v])'
    BY <2>1, <2>2 DEF HostInv, Movers, OfKnown, OfKnownHosts, RowInv, RowTypes
  <2>4. LogsHaveHosts'
    BY <2>1 DEF HostInv, LogsHaveHosts
  <2> QED  BY <1>2, <1>3, <2>3, <2>4 DEF HostInv
<1>6. CASE ~(CommitMove(o) \/ FillTemp(o))
  <2>1. UNCHANGED logs
    BY <1>6 DEF CallSaveHosts, saveHosts, InsertHost, CommitHosts, CallSaveUnprocessed,
      save_unprocessed, TruncateTemp, MoveLogs, DeleteMoved, CallFails, RollBackCall, tables
  <2>2. /\ Movers' \subseteq Movers
        /\ \A v \in Movers' : temp'[v] = temp[v]
    BY <1>6 DEF CallSaveHosts, saveHosts, InsertHost, CommitHosts, CallSaveUnprocessed,
      save_unprocessed, TruncateTemp, MoveLogs, DeleteMoved, CallFails, RollBackCall, moveVars,
      Movers, RowInv, RowTypes
  <2>3. LogsHaveHosts' /\ \A v \in Movers' : OfKnown(temp[v])'
    BY <1>1, <2>1, <2>2 DEF HostInv, LogsHaveHosts, OfKnown
  <2> QED  BY <1>2, <1>3, <2>3 DEF HostInv
<1> QED  BY <1>4, <1>5, <1>6

LEMMA HostInvariant == Spec => [](RowInv /\ HostInv)
<1>1. RowInv /\ HostInv /\ [Next]_vars => HostInv'
  <2> SUFFICES ASSUME RowInv, HostInv, [Next]_vars PROVE HostInv'
    OBVIOUS
  <2>1. CASE UNCHANGED vars
    BY <2>1 DEF vars, tables, writerVars, newVars, operatorVars, moveVars, HostInv,
      LogsHaveHosts, OfKnown, Movers
  <2>2. CASE Next
    BY <2>2, HostWriter, HostOperator DEF Next
  <2> QED  BY <2>1, <2>2
<1> QED  BY <1>1, HostInit, RowInvariant, PTL DEF Spec

(***************************************************************************)
(* Every row of logs is of a host that is there, without a foreign key:    *)
(* save_log and save_unprocessed look hosts up among the committed ones.   *)
(***************************************************************************)
THEOREM HostsKept == Spec => []LogsHaveHosts
<1>1. HostInv => LogsHaveHosts
  BY DEF HostInv
<1> QED  BY <1>1, HostInvariant, PTL

-----------------------------------------------------------------------------
\* What is left of the types, with the rest of a writer's state.
FeedTypes == shown \subseteq Logs /\ hostKnown \in [Writers -> BOOLEAN]

LEMMA FeedStep == RowInv /\ FeedTypes /\ [Next]_vars => FeedTypes'
<1> SUFFICES ASSUME RowInv, FeedTypes, [Next]_vars PROVE FeedTypes'
  OBVIOUS
<1>1. CASE UNCHANGED <<shown, hostKnown>>
  BY <1>1 DEF FeedTypes
<1>2. ASSUME NEW w \in Writers, HandToFeed(w) PROVE FeedTypes'
  <2>1. rest[w] \subseteq Logs
    BY DEF RowInv, RowTypes
  <2>2. UNCHANGED hostKnown /\ \E log \in rest[w] : shown' = shown \/ shown' = shown \cup {log}
    BY <1>2 DEF HandToFeed
  <2> QED  BY <2>1, <2>2 DEF FeedTypes
<1>3. ASSUME NEW w \in Writers, SelectHost(w) PROVE FeedTypes'
  BY <1>3 DEF SelectHost, FeedTypes
<1>4. ASSUME NEW w \in Writers,
             \/ ReceiveBatch(w) \/ InsertLog(w) \/ InsertUnprocessed(w)
             \/ CommitBatch(w) \/ RollBackBatch(w) \/ SaveFails(w)
      PROVE  UNCHANGED <<shown, hostKnown>>
  BY <1>4 DEF ReceiveBatch, InsertLog, InsertUnprocessed, CommitBatch, RollBackBatch, SaveFails
<1>5. ASSUME NEW o \in Operators,
             \/ CallSaveHosts(o) \/ saveHosts(o)
             \/ CallSaveUnprocessed(o) \/ save_unprocessed(o)
             \/ CallFails(o) \/ RollBackCall(o)
      PROVE  UNCHANGED <<shown, hostKnown>>
  BY <1>5 DEF CallSaveHosts, saveHosts, InsertHost, CommitHosts, CallSaveUnprocessed,
    save_unprocessed, TruncateTemp, FillTemp, MoveLogs, DeleteMoved, CommitMove, CallFails,
    RollBackCall, writerVars
<1>6. CASE UNCHANGED vars
  BY <1>1, <1>6 DEF vars, writerVars
<1> QED  BY <1>1, <1>2, <1>3, <1>4, <1>5, <1>6 DEF Next, saveLogs, saveLog

(***************************************************************************)
(* Every variable keeps its type: a transaction that has ended holds no    *)
(* rows, and what is copied, due or shown are logs.                        *)
(***************************************************************************)
THEOREM TypeCorrect == Spec => []TypeOK
<1>1. Init => FeedTypes
  BY DEF Init, FeedTypes
<1>2. RowInv /\ DueInv /\ FormInv /\ FeedTypes => TypeOK
  BY DEF RowInv, RowTypes, BatchesSplit, BatchSplit, BatchesOwned, DueInv, FormInv, FormTypes,
    FeedTypes, TypeOK
<1> QED  BY <1>1, <1>2, FeedStep, DueInvariant, FormInvariant, PTL DEF Spec
=============================================================================
