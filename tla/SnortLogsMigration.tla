-------------------------- MODULE SnortLogsMigration --------------------------
(***************************************************************************)
(* The migration R04 of the table snort_logs into a partitioned copy,      *)
(* while writers go on inserting. The script records what is inserted with *)
(* a trigger, copies the table in windows of ids, catches up with what was *)
(* recorded and renames the two tables. It commits with each statement, so *)
(* it stops in the middle when one fails; then the operator repairs        *)
(* Flyway's metadata and the script begins again, among what was left.     *)
(*                                                                         *)
(* A statement that changes a table's definition waits for the inserts in  *)
(* progress, and an INSERT ... SELECT for those it meets; no code updates  *)
(* or deletes a row. The statements after the rename concern other tables. *)
(***************************************************************************)
EXTENDS Integers

CONSTANTS
  MaxCopied,  \* i_max_id, which the ids do not reach while the script runs
  CopyCount,  \* i_copy_count
  OldCount,   \* how many rows there are when the migration begins
  LastId,     \* bounds the ids that are given to new rows
  Writers,
  Missing     \* stands for a table that does not exist

ASSUME CopyAssumption ==
  /\ CopyCount \in Nat \ {0}
  /\ MaxCopied \in Nat /\ LastId \in Nat
  /\ LastId < MaxCopied
  /\ OldCount \in 0 .. LastId

ASSUME MissingAssumption == Missing \notin [1 .. LastId -> Nat]

VARIABLES
  snortLogs,     \* snort_logs: the rows of each id
  snortLogsNew,  \* snort_logs_new
  snortLogsOld,  \* snort_logs_500_old
  identifiers,   \* tmp_mi_snort_logs_identifiers
  trigger,       \* trg_snort_logs_ai exists
  statement,     \* the statement of the script to be executed
  currentId,     \* v_current_id
  nextId,        \* auto_increment of snort_logs
  inserting,     \* the id each writer inserts, or 0
  older,         \* history: the rows there were when recording began
  caught         \* history: the rows there were when the script caught up

tables  == <<snortLogs, snortLogsNew, snortLogsOld, identifiers, trigger>>
script  == <<statement, currentId>>
writing == <<nextId, inserting>>
history == <<older, caught>>
vars    == <<tables, script, writing, history>>

Ids == 1 .. LastId
Empty == [id \in Ids |-> 0]
IdsOf(table) == IF table = Missing THEN {} ELSE {id \in Ids : table[id] > 0}
WithRows(table, ids) == [id \in Ids |-> IF id \in ids THEN table[id] + 1 ELSE table[id]]

Init ==
  /\ snortLogs = WithRows(Empty, 1 .. OldCount)
  /\ snortLogsNew = Missing
  /\ snortLogsOld = Missing
  /\ identifiers = Missing
  /\ trigger = FALSE
  /\ statement = "drop new"
  /\ currentId = 1
  /\ nextId = OldCount + 1
  /\ inserting = [w \in Writers |-> 0]
  /\ older = {}
  /\ caught = {}

-----------------------------------------------------------------------------
(* save_snort_log, as the release before left it: it is replaced after the script *)

\* The insert takes the next id; before its row is in, it may wait for the copy.
BeginInsert(w) ==
  /\ inserting[w] = 0
  /\ nextId <= LastId
  /\ inserting' = [inserting EXCEPT ![w] = nextId]
  /\ nextId' = nextId + 1
  /\ UNCHANGED <<tables, script, history>>

\* It fills the columns of the old table; the new one has no hash and demands a partition key.
Renamed == snortLogsOld # Missing

Insert(w) ==
  /\ inserting[w] # 0
  /\ ~Renamed
  /\ IF trigger THEN /\ identifiers # Missing
                     /\ identifiers' = identifiers \cup {inserting[w]}
                ELSE UNCHANGED identifiers
  /\ snortLogs' = WithRows(snortLogs, {inserting[w]})
  /\ inserting' = [inserting EXCEPT ![w] = 0]
  /\ UNCHANGED <<snortLogsNew, snortLogsOld, trigger, script, nextId, history>>

\* By the new table, or by the trigger that finds its own table missing.
InsertRefused(w) ==
  /\ inserting[w] # 0
  /\ Renamed \/ (trigger /\ identifiers = Missing)
  /\ inserting' = [inserting EXCEPT ![w] = 0]
  /\ UNCHANGED <<tables, script, nextId, history>>

-----------------------------------------------------------------------------
(* The script, statement by statement *)

NoInserts == \A w \in Writers : inserting[w] = 0

Go(from, to) == statement = from /\ statement' = to

DropNew ==
  /\ Go("drop new", "create new")
  /\ snortLogsNew' = Missing
  /\ UNCHANGED <<snortLogs, snortLogsOld, identifiers, trigger, currentId, writing, history>>

CreateNew ==
  /\ Go("create new", "drop identifiers")
  /\ snortLogsNew' = Empty
  /\ UNCHANGED <<snortLogs, snortLogsOld, identifiers, trigger, currentId, writing, history>>

DropIdentifiers ==
  /\ \/ Go("drop identifiers", "create identifiers")
     \/ Go("drop identifiers again", "rename")
  /\ trigger => NoInserts
  /\ identifiers' = Missing
  /\ UNCHANGED <<snortLogs, snortLogsNew, snortLogsOld, trigger, currentId, writing, history>>

CreateIdentifiers ==
  /\ Go("create identifiers", "drop trigger")
  /\ identifiers' = {}
  /\ older' = IdsOf(snortLogs)
  /\ UNCHANGED <<snortLogs, snortLogsNew, snortLogsOld, trigger, currentId, writing, caught>>

DropTrigger ==
  /\ \/ Go("drop trigger", "create trigger")
     \/ Go("drop trigger again", "drop identifiers again")
  /\ NoInserts
  /\ trigger' = FALSE
  /\ UNCHANGED <<snortLogs, snortLogsNew, snortLogsOld, identifiers, currentId, writing, history>>

\* Mutant: only updates are recorded.
CreateTrigger_Updates ==
  /\ Go("create trigger", "copy")
  /\ NoInserts
  /\ currentId' = 1
  /\ UNCHANGED <<tables, writing, history>>

CreateTrigger ==
  /\ Go("create trigger", "copy")
  /\ NoInserts
  /\ trigger' = TRUE
  /\ currentId' = 1
  /\ UNCHANGED <<snortLogs, snortLogsNew, snortLogsOld, identifiers, writing, history>>

WithCopies(table, ids) == [id \in Ids |-> IF id \in ids THEN table[id] + snortLogs[id] ELSE table[id]]

\* Mutant: the end of a window is in it.
Window_Closed == {id \in IdsOf(snortLogs) : currentId <= id /\ id <= currentId + CopyCount}

Window == {id \in IdsOf(snortLogs) : currentId <= id /\ id < currentId + CopyCount}

CopyNext ==
  /\ statement = "copy" /\ currentId < MaxCopied
  /\ snortLogsNew' = WithCopies(snortLogsNew, Window)
  /\ currentId' = currentId + CopyCount
  /\ UNCHANGED <<snortLogs, snortLogsOld, identifiers, trigger, statement, writing, history>>

LeaveCopy ==
  /\ currentId >= MaxCopied
  /\ Go("copy", "catch up")
  /\ UNCHANGED <<tables, currentId, writing, history>>

\* No key of the new table is unique, so that no key is ever duplicate.
CatchUp ==
  /\ Go("catch up", "drop trigger again")
  /\ snortLogsNew' = WithRows(snortLogsNew, identifiers \cap IdsOf(snortLogs))
  /\ caught' = IdsOf(snortLogs)
  /\ UNCHANGED <<snortLogs, snortLogsOld, identifiers, trigger, currentId, writing, older>>

\* Mutant: the table that was renamed before makes room.
Rename_Overwrites ==
  /\ NoInserts
  /\ Go("rename", "done")
  /\ snortLogsOld' = snortLogs
  /\ snortLogs' = snortLogsNew
  /\ snortLogsNew' = Missing
  /\ UNCHANGED <<identifiers, trigger, currentId, writing, history>>

\* It is refused if the script got here before: the name of the old table is taken.
Rename ==
  /\ NoInserts
  /\ snortLogsOld = Missing
  /\ Go("rename", "done")
  /\ snortLogsOld' = snortLogs
  /\ snortLogs' = snortLogsNew
  /\ snortLogsNew' = Missing
  /\ UNCHANGED <<identifiers, trigger, currentId, writing, history>>

\* A statement is refused, by a row of a month without a partition for one, or the connection
\* is lost; so also in what comes after the rename.
Fail ==
  /\ statement # "failed"
  /\ statement' = "failed"
  /\ UNCHANGED <<tables, currentId, writing, history>>

\* SrvlogDbMigrator's commands repair and migrate.
RepairAndMigrate ==
  /\ Go("failed", "drop new")
  /\ UNCHANGED <<tables, currentId, writing, history>>

mi_copy_table_data == CopyNext \/ LeaveCopy

Script ==
  \/ DropNew \/ CreateNew \/ DropIdentifiers \/ CreateIdentifiers
  \/ DropTrigger \/ CreateTrigger \/ mi_copy_table_data \/ CatchUp \/ Rename

Next ==
  \/ Script \/ Fail \/ RepairAndMigrate
  \/ \E w \in Writers : BeginInsert(w) \/ Insert(w) \/ InsertRefused(w)

Spec == Init /\ [][Next]_vars

-----------------------------------------------------------------------------
(* Properties *)

Table == [Ids -> Nat]

TypeOK ==
  /\ snortLogs \in Table
  /\ snortLogsNew \in Table \cup {Missing}
  /\ snortLogsOld \in Table \cup {Missing}
  /\ identifiers \in (SUBSET Ids) \cup {Missing}
  /\ trigger \in BOOLEAN
  /\ statement \in {"drop new", "create new", "drop identifiers", "create identifiers",
                    "drop trigger", "create trigger", "copy", "catch up", "drop trigger again",
                    "drop identifiers again", "rename", "done", "failed"}
  /\ currentId \in 1 .. MaxCopied + CopyCount
  /\ nextId \in 1 .. LastId + 1
  /\ inserting \in [Writers -> 0 .. LastId]
  /\ older \subseteq Ids /\ caught \subseteq Ids

(***************************************************************************)
(* The table that is renamed to snort_logs has every row that was there    *)
(* when the script caught up, inserted before, during or after the copy of *)
(* its window, and no row that never was in the old table.                 *)
(***************************************************************************)
CaughtUp ==
  statement = "done" =>
    caught \subseteq IdsOf(snortLogs) /\ IdsOf(snortLogs) \subseteq IdsOf(snortLogsOld)

(***************************************************************************)
(* What was there before the recording began is in it exactly once, also   *)
(* after passes that failed.                                               *)
(***************************************************************************)
OlderOnce == statement = "done" => \A id \in older : snortLogs[id] = 1

(***************************************************************************)
(* Wherever the script fails and begins again, the tables that are kept    *)
(* have all the rows they ever had between them.                           *)
(***************************************************************************)
KeptRows == IdsOf(snortLogs) \cup IdsOf(snortLogsOld)

NothingLost == [][KeptRows \subseteq KeptRows']_vars
=============================================================================
