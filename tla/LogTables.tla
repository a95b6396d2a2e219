------------------------------ MODULE LogTables ------------------------------
(***************************************************************************)
(* The tables of hosts, logs and unprocessed logs, and the transactions    *)
(* that change them:                                                       *)
(*   - a writer saves a batch of logs in one transaction: a single log     *)
(*     from an adapter or the messages of one JSON request;                *)
(*   - an operator adds hosts with the form of AddHostsPage, or moves the  *)
(*     logs of hosts that have become known with the warnings link.        *)
(*                                                                         *)
(* What a transaction has written is kept beside the tables until it       *)
(* commits. The one around SimpleLogCollector's methods asks for no        *)
(* isolation level, so it has InnoDB's REPEATABLE READ whatever ILogDao    *)
(* declares, and INSERT ... SELECT locks the rows it reads. That of a JSON *)
(* request is READ COMMITTED, and that of a single log has one select: in  *)
(* both a select of hosts sees all that is committed. Not every wait for a *)
(* lock is modelled: a mover's gap locks on hosts, which only delay        *)
(* InsertHost, are left out. Messages are never changed, so the truncation *)
(* of long ones is left to a specification of its own.                     *)
(***************************************************************************)
EXTENDS Naturals, Sequences

CONSTANTS
  Logs,
  Hosts,
  NoHost,         \* the null of a log that names no host
  HostOf,         \* the host each log names
  Unpartitioned,  \* the logs of a month the table logs has no partition for
  Batches,        \* sets of logs that are saved by one call
  HostLists,      \* what the form is submitted with
  Writers, Operators,
  NoLog, NoBatch

ASSUME HostAssumption == HostOf \in [Logs -> Hosts \cup {NoHost}] /\ NoHost \notin Hosts
ASSUME BatchAssumption ==
  /\ Batches \subseteq SUBSET Logs
  /\ NoBatch \notin Batches
  /\ \A b1, b2 \in Batches : b1 # b2 => b1 \cap b2 = {}
ASSUME NoLogAssumption == NoLog \notin Logs
ASSUME ListAssumption == HostLists \subseteq Seq(Hosts)
ASSUME ActorAssumption == Writers \cap Operators = {}

VARIABLES
  hosts, logs, unprocessed,  \* the tables, as committed; logs counts the rows of a log
  incoming,        \* batches not received yet
  outcome,         \* how the call that saved each batch ended
  shown,           \* logs given to the online feed
  writer,          \* where each writer is
  batch, rest,     \* the logs it saves, and those it still has to
  logData,         \* the log in hand
  hostKnown,       \* v_host_id is not null
  newLogs, newUnprocessed,  \* rows it has written and not committed
  operator,        \* where each operator's call is
  toAdd, newHosts, \* hosts still to insert, hosts inserted and not committed
  temp,            \* temp_logs_to_process of the operator's connection
  due              \* history: what the call found to be moved when it began

tables       == <<hosts, logs, unprocessed>>
newVars      == <<newLogs, newUnprocessed>>
writerVars   == <<incoming, outcome, shown, writer, batch, rest, logData, hostKnown, newVars>>
addVars      == <<toAdd, newHosts>>
moveVars     == <<temp, due>>
operatorVars == <<operator, addVars, moveVars>>
vars == <<tables, writerVars, operatorVars>>

Init ==
  /\ hosts = {}
  /\ logs = [log \in Logs |-> 0]
  /\ unprocessed = {}
  /\ incoming = Batches
  /\ outcome = [b \in Batches |-> "none"]
  /\ shown = {}
  /\ writer = [w \in Writers |-> "idle"]
  /\ batch = [w \in Writers |-> NoBatch]
  /\ rest = [w \in Writers |-> {}]
  /\ logData = [w \in Writers |-> NoLog]
  /\ hostKnown = [w \in Writers |-> FALSE]
  /\ newLogs = [w \in Writers |-> {}]
  /\ newUnprocessed = [w \in Writers |-> {}]
  /\ operator = [o \in Operators |-> "idle"]
  /\ toAdd = [o \in Operators |-> <<>>]
  /\ newHosts = [o \in Operators |-> {}]
  /\ temp = [o \in Operators |-> {}]
  /\ due = [o \in Operators |-> {}]

-----------------------------------------------------------------------------
(* Locks *)

\* In REPEATABLE READ the rows a mover has read stay locked until it commits.
Movers == {o \in Operators : operator[o] \in {"move", "delete", "commit"}}

\* Mutant: READ COMMITTED, as ILogDao declares, reads without locks.
LockedByOthers_Not(o) == {}

LockedByOthers(o) == Movers \ {o}

-----------------------------------------------------------------------------
(* Saving logs *)

\* A call of saveLogs, or of saveLog outside of one: the transaction begins.
ReceiveBatch(w) ==
  /\ writer[w] = "idle"
  /\ \E b \in incoming :
       /\ incoming' = incoming \ {b}
       /\ batch' = [batch EXCEPT ![w] = b]
       /\ rest' = [rest EXCEPT ![w] = b]
  /\ writer' = [writer EXCEPT ![w] = "save"]
  /\ UNCHANGED <<tables, outcome, shown, logData, hostKnown, newVars, operatorVars>>

\* A log without a host is refused; any other goes to the feed before the database.
HandToFeed(w) ==
  /\ writer[w] = "save"
  /\ \E log \in rest[w] :
       IF HostOf[log] = NoHost
       THEN /\ writer' = [writer EXCEPT ![w] = "rollback"]
            /\ UNCHANGED <<shown, logData>>
       ELSE /\ writer' = [writer EXCEPT ![w] = "select"]
            /\ logData' = [logData EXCEPT ![w] = log]
            /\ shown' = shown \cup {log}
  /\ UNCHANGED <<tables, incoming, outcome, batch, rest, hostKnown, newVars, operatorVars>>

\* Mutant: READ UNCOMMITTED, where the select sees hosts that may be rolled back.
SelectHost_Uncommitted(w) ==
  /\ writer[w] = "select"
  /\ hostKnown' = [hostKnown EXCEPT
       ![w] = HostOf[logData[w]] \in hosts \cup UNION {newHosts[o] : o \in Operators}]
  /\ writer' = [writer EXCEPT ![w] = "insert"]
  /\ UNCHANGED <<tables, incoming, outcome, shown, batch, rest, logData, newVars,
                 operatorVars>>

\* A plain select: it sees what is committed, and locks nothing.
SelectHost(w) ==
  /\ writer[w] = "select"
  /\ hostKnown' = [hostKnown EXCEPT ![w] = HostOf[logData[w]] \in hosts]
  /\ writer' = [writer EXCEPT ![w] = "insert"]
  /\ UNCHANGED <<tables, incoming, outcome, shown, batch, rest, logData, newVars,
                 operatorVars>>

SavedOne(w) ==
  /\ writer' = [writer EXCEPT ![w] = "save"]
  /\ rest' = [rest EXCEPT ![w] = @ \ {logData[w]}]
  /\ logData' = [logData EXCEPT ![w] = NoLog]

\* Without a partition for its month the statement fails, and the call with it.
InsertLog(w) ==
  /\ writer[w] = "insert"
  /\ hostKnown[w]
  /\ IF logData[w] \in Unpartitioned
     THEN writer' = [writer EXCEPT ![w] = "rollback"] /\ UNCHANGED <<rest, logData, newLogs>>
     ELSE /\ newLogs' = [newLogs EXCEPT ![w] = @ \cup {logData[w]}]
          /\ SavedOne(w)
  /\ UNCHANGED <<tables, incoming, outcome, shown, batch, hostKnown, newUnprocessed,
                 operatorVars>>

\* unprocessed_logs is not partitioned. The row waits for the gap locks of movers.
InsertUnprocessed(w) ==
  /\ writer[w] = "insert"
  /\ ~hostKnown[w]
  /\ LockedByOthers(w) = {}
  /\ newUnprocessed' = [newUnprocessed EXCEPT ![w] = @ \cup {logData[w]}]
  /\ SavedOne(w)
  /\ UNCHANGED <<tables, incoming, outcome, shown, batch, hostKnown, newLogs, operatorVars>>

\* The writer is back in its loop, with no transaction.
LeaveBatch(w) ==
  /\ writer' = [writer EXCEPT ![w] = "idle"]
  /\ batch' = [batch EXCEPT ![w] = NoBatch]
  /\ rest' = [rest EXCEPT ![w] = {}]
  /\ logData' = [logData EXCEPT ![w] = NoLog]
  /\ newLogs' = [newLogs EXCEPT ![w] = {}]
  /\ newUnprocessed' = [newUnprocessed EXCEPT ![w] = {}]

WithRows(added) == [log \in Logs |-> IF log \in added THEN logs[log] + 1 ELSE logs[log]]

CommitBatch(w) ==
  /\ writer[w] = "save"
  /\ rest[w] = {}
  /\ logs' = WithRows(newLogs[w])
  /\ unprocessed' = unprocessed \cup newUnprocessed[w]
  /\ outcome' = [outcome EXCEPT ![batch[w]] = "saved"]
  /\ LeaveBatch(w)
  /\ UNCHANGED <<hosts, incoming, shown, hostKnown, operatorVars>>

\* A deadlock, a lock wait timeout, a lost connection.
SaveFails(w) ==
  /\ writer[w] \in {"select", "insert"}
  /\ writer' = [writer EXCEPT ![w] = "rollback"]
  /\ UNCHANGED <<tables, incoming, outcome, shown, batch, rest, logData, hostKnown, newVars,
                 operatorVars>>

\* The exception rolls the whole batch back, but not the feed.
RollBackBatch(w) ==
  /\ writer[w] = "rollback"
  /\ outcome' = [outcome EXCEPT ![batch[w]] = "failed"]
  /\ LeaveBatch(w)
  /\ UNCHANGED <<tables, incoming, shown, hostKnown, operatorVars>>

-----------------------------------------------------------------------------
(* Adding hosts: saveHosts, one transaction for the whole form *)

CallSaveHosts(o) ==
  /\ operator[o] = "idle"
  /\ \E list \in HostLists : toAdd' = [toAdd EXCEPT ![o] = list]
  /\ operator' = [operator EXCEPT ![o] = "add"]
  /\ UNCHANGED <<tables, writerVars, newHosts, moveVars>>

\* The hostname is in a row another transaction has inserted and not committed.
KeyTaken(o) ==
  /\ operator[o] = "add" /\ toAdd[o] # <<>>
  /\ \E o2 \in Operators \ {o} : Head(toAdd[o]) \in newHosts[o2]

\* Mutant: the hosts that exist already are passed over.
InsertHost_IfAbsent(o) ==
  /\ operator[o] = "add" /\ toAdd[o] # <<>>
  /\ ~KeyTaken(o)
  /\ newHosts' = [newHosts EXCEPT ![o] = @ \cup ({Head(toAdd[o])} \ hosts)]
  /\ toAdd' = [toAdd EXCEPT ![o] = Tail(@)]
  /\ UNCHANGED <<tables, writerVars, operator, moveVars>>

\* hostname is unique: a second row with the same one fails, and the form with it.
InsertHost(o) ==
  /\ operator[o] = "add" /\ toAdd[o] # <<>>
  /\ ~KeyTaken(o)
  /\ IF Head(toAdd[o]) \in hosts \cup newHosts[o]
     THEN operator' = [operator EXCEPT ![o] = "rollback"] /\ UNCHANGED addVars
     ELSE /\ newHosts' = [newHosts EXCEPT ![o] = @ \cup {Head(toAdd[o])}]
          /\ toAdd' = [toAdd EXCEPT ![o] = Tail(@)]
          /\ UNCHANGED operator
  /\ UNCHANGED <<tables, writerVars, moveVars>>

CommitHosts(o) ==
  /\ operator[o] = "add" /\ toAdd[o] = <<>>
  /\ hosts' = hosts \cup newHosts[o]
  /\ newHosts' = [newHosts EXCEPT ![o] = {}]
  /\ operator' = [operator EXCEPT ![o] = "idle"]
  /\ UNCHANGED <<logs, unprocessed, writerVars, toAdd, moveVars>>

-----------------------------------------------------------------------------
(* Moving the logs of known hosts: save_unprocessed *)

OfKnownHosts == {log \in unprocessed : HostOf[log] \in hosts}

\* The link may be one of a page that was rendered long ago.
CallSaveUnprocessed(o) ==
  /\ operator[o] = "idle"
  /\ due' = [due EXCEPT ![o] = OfKnownHosts]
  /\ operator' = [operator EXCEPT ![o] = "truncate"]
  /\ UNCHANGED <<tables, writerVars, addVars, temp>>

\* The temporary table is not transactional and belongs to a pooled connection.
TruncateTemp(o) ==
  /\ operator[o] = "truncate"
  /\ temp' = [temp EXCEPT ![o] = {}]
  /\ operator' = [operator EXCEPT ![o] = "fill"]
  /\ UNCHANGED <<tables, writerVars, addVars, due>>

\* A locking read waits for the uncommitted rows that it meets.
MeetsUncommitted(o) ==
  \/ \E w \in Writers : newUnprocessed[w] # {}
  \/ \E o2 \in LockedByOthers(o) : operator[o2] = "commit" /\ temp[o2] # {}
  \/ \E o2 \in Operators : \E log \in unprocessed : HostOf[log] \in newHosts[o2]

FillTemp(o) ==
  /\ operator[o] = "fill"
  /\ ~MeetsUncommitted(o)
  /\ temp' = [temp EXCEPT ![o] = @ \cup OfKnownHosts]
  /\ operator' = [operator EXCEPT ![o] = "move"]
  /\ UNCHANGED <<tables, writerVars, addVars, due>>

\* The rows of temp are inserted into logs; one without a partition fails them all.
MoveLogs(o) ==
  /\ operator[o] = "move"
  /\ operator' = [operator EXCEPT ![o] = IF temp[o] \cap Unpartitioned = {}
                                         THEN "delete" ELSE "rollback"]
  /\ UNCHANGED <<tables, writerVars, addVars, moveVars>>

RowsLocked(o) == operator[o] = "delete" /\ temp[o] # {} /\ LockedByOthers(o) # {}

DeleteMoved(o) ==
  /\ operator[o] = "delete"
  /\ ~RowsLocked(o)
  /\ operator' = [operator EXCEPT ![o] = "commit"]
  /\ UNCHANGED <<tables, writerVars, addVars, moveVars>>

\* Mutant: the rows are not deleted.
CommitMove_Keeps(o) ==
  /\ operator[o] = "commit"
  /\ logs' = WithRows(temp[o])
  /\ due' = [due EXCEPT ![o] = {}]
  /\ operator' = [operator EXCEPT ![o] = "idle"]
  /\ UNCHANGED <<hosts, unprocessed, writerVars, addVars, temp>>

CommitMove(o) ==
  /\ operator[o] = "commit"
  /\ logs' = WithRows(temp[o])
  /\ unprocessed' = unprocessed \ temp[o]
  /\ due' = [due EXCEPT ![o] = {}]
  /\ operator' = [operator EXCEPT ![o] = "idle"]
  /\ UNCHANGED <<hosts, writerVars, addVars, temp>>

-----------------------------------------------------------------------------
(* Failures of an operator's call *)

CallFails(o) ==
  /\ operator[o] \in {"add", "fill", "move", "delete"}
  /\ operator' = [operator EXCEPT ![o] = "rollback"]
  /\ UNCHANGED <<tables, writerVars, addVars, moveVars>>

RollBackCall(o) ==
  /\ operator[o] = "rollback"
  /\ newHosts' = [newHosts EXCEPT ![o] = {}]
  /\ toAdd' = [toAdd EXCEPT ![o] = <<>>]
  /\ due' = [due EXCEPT ![o] = {}]
  /\ operator' = [operator EXCEPT ![o] = "idle"]
  /\ UNCHANGED <<tables, writerVars, temp>>

(***************************************************************************)
(* A transaction that waits for a lock is not left waiting: InnoDB breaks  *)
(* a deadlock by rolling one of its transactions back, and a wait that is  *)
(* too long ends by innodb_lock_wait_timeout.                              *)
(***************************************************************************)
Waits(o) ==
  \/ KeyTaken(o)
  \/ operator[o] = "fill" /\ MeetsUncommitted(o)
  \/ RowsLocked(o)

WaitEnds(o) == Waits(o) /\ CallFails(o)

WriterWaitEnds(w) ==
  writer[w] = "insert" /\ ~hostKnown[w] /\ LockedByOthers(w) # {} /\ SaveFails(w)

-----------------------------------------------------------------------------
saveLog(w) == HandToFeed(w) \/ SelectHost(w) \/ InsertLog(w) \/ InsertUnprocessed(w)

saveLogs(w) == saveLog(w) \/ CommitBatch(w) \/ RollBackBatch(w)

saveHosts(o) == InsertHost(o) \/ CommitHosts(o)

save_unprocessed(o) ==
  TruncateTemp(o) \/ FillTemp(o) \/ MoveLogs(o) \/ DeleteMoved(o) \/ CommitMove(o)

Next ==
  \/ \E w \in Writers : ReceiveBatch(w) \/ saveLogs(w) \/ SaveFails(w)
  \/ \E o \in Operators :
       \/ CallSaveHosts(o) \/ saveHosts(o)
       \/ CallSaveUnprocessed(o) \/ save_unprocessed(o)
       \/ CallFails(o) \/ RollBackCall(o)

(***************************************************************************)
(* The database executes a statement that waits for nothing, and ends the  *)
(* wait of one that does. No fairness for calls and for failures.          *)
(***************************************************************************)
Fairness ==
  /\ \A w \in Writers : WF_vars(saveLogs(w) \/ WriterWaitEnds(w))
  /\ \A o \in Operators :
       WF_vars(saveHosts(o) \/ save_unprocessed(o) \/ RollBackCall(o) \/ WaitEnds(o))

Spec == Init /\ [][Next]_vars

FairSpec == Spec /\ Fairness

(***************************************************************************)
(* Operators who go on clicking the warnings link, on a database that does *)
(* not fail for ever: a statement that can be executed again and again is  *)
(* executed in the end.                                                    *)
(***************************************************************************)
PersistentSpec ==
  /\ FairSpec
  /\ \A o \in Operators :
       /\ SF_vars(CallSaveUnprocessed(o)) /\ SF_vars(FillTemp(o))
       /\ SF_vars(MoveLogs(o)) /\ SF_vars(DeleteMoved(o)) /\ SF_vars(CommitMove(o))

-----------------------------------------------------------------------------
(* Properties *)

TypeOK ==
  /\ hosts \subseteq Hosts
  /\ logs \in [Logs -> Nat]
  /\ unprocessed \subseteq Logs
  /\ incoming \subseteq Batches
  /\ outcome \in [Batches -> {"none", "saved", "failed"}]
  /\ shown \subseteq Logs
  /\ writer \in [Writers -> {"idle", "save", "select", "insert", "rollback"}]
  /\ batch \in [Writers -> Batches \cup {NoBatch}]
  /\ rest \in [Writers -> SUBSET Logs]
  /\ logData \in [Writers -> Logs \cup {NoLog}]
  /\ hostKnown \in [Writers -> BOOLEAN]
  /\ newLogs \in [Writers -> SUBSET Logs]
  /\ newUnprocessed \in [Writers -> SUBSET Logs]
  /\ \A w \in Writers : writer[w] = "idle" => newLogs[w] = {} /\ newUnprocessed[w] = {}
  /\ operator \in [Operators -> {"idle", "add", "truncate", "fill", "move", "delete",
                                 "commit", "rollback"}]
  /\ toAdd \in [Operators -> Seq(Hosts)]
  /\ newHosts \in [Operators -> SUBSET Hosts]
  /\ temp \in [Operators -> SUBSET Logs]
  /\ due \in [Operators -> SUBSET Logs]

(***************************************************************************)
(* A log whose call succeeded is in one row of one of the two tables,      *)
(* however many operators move logs at the same time and whatever fails;   *)
(* one whose call failed or still runs is in none.                         *)
(***************************************************************************)
Rows(log) == logs[log] + (IF log \in unprocessed THEN 1 ELSE 0)

KeptOnce ==
  \A b \in Batches : \A log \in b : Rows(log) = IF outcome[b] = "saved" THEN 1 ELSE 0

(***************************************************************************)
(* A row of logs is of a host that is there. The table has no foreign key, *)
(* which a partitioned one cannot have: it is for the procedures to look   *)
(* the host up in a row that stays, also while forms that add it are being *)
(* rolled back. Searches join the two and would not find the log.          *)
(***************************************************************************)
LogsHaveHosts == \A log \in Logs : logs[log] > 0 => HostOf[log] \in hosts

(***************************************************************************)
(* When save_unprocessed commits, nothing is left of what had to be moved  *)
(* when it was called, also if two operators call it at once.              *)
(***************************************************************************)
AllMoved ==
  [][\A o \in Operators :
       operator[o] = "commit" /\ operator'[o] = "idle"
         => due[o] \cap unprocessed' = {}]_vars

(***************************************************************************)
(* The hosts of a form are added together or not at all: one that names a  *)
(* host which is known, or is being added by another form, adds none.      *)
(***************************************************************************)
FormsAddedWhole ==
  [][hosts' # hosts =>
       \E list \in HostLists : hosts' \ hosts = {list[i] : i \in DOMAIN list}]_vars

(***************************************************************************)
(* Not so in the code: a log whose host is known does not stay unprocessed *)
(* when save_unprocessed is called again and again.                        *)
(***************************************************************************)
KnownHostsProcessed ==
  \A log \in Logs : log \in OfKnownHosts ~> log \notin unprocessed
=============================================================================
