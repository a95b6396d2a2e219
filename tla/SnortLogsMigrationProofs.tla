----------------------- MODULE SnortLogsMigrationProofs -----------------------
(***************************************************************************)
(* Proofs about SnortLogsMigration, for any number of rows and of writers, *)
(* windows of any size, and passes that fail and begin again anywhere.     *)
(***************************************************************************)
EXTENDS SnortLogsMigration, TLAPS

\* From the creation of the new table on, and until it is renamed.
BeforeCopy == {"drop identifiers", "create identifiers", "drop trigger", "create trigger"}
AfterCopy  == {"drop trigger again", "drop identifiers again", "rename"}
Filling    == BeforeCopy \cup {"copy", "catch up"} \cup AfterCopy

\* While the table of identifiers is there and can be written to.
Recording == {"drop trigger", "create trigger", "copy", "catch up"}

MigTypes ==
  /\ snortLogs \in Table
  /\ currentId \in Int
  /\ nextId \in Nat \ {0}
  /\ inserting \in [Writers -> Int]

\* A row comes in once, under an id that no other row has.
Numbered ==
  /\ \A id \in IdsOf(snortLogs) : id < nextId
  /\ ~Renamed => \A id \in Ids : snortLogs[id] \in {0, 1}
  /\ \A w \in Writers : inserting[w] # 0 =>
       /\ inserting[w] \in Ids
       /\ inserting[w] < nextId
       /\ inserting[w] \notin IdsOf(snortLogs)
       /\ \A v \in Writers \ {w} : inserting[v] # inserting[w]

Once(table) == ~Renamed => \A id \in older : table[id] = 1

\* What each statement has to find.
NewTable ==
  /\ statement \in Filling => snortLogsNew \in Table /\ IdsOf(snortLogsNew) \subseteq IdsOf(snortLogs)
  /\ statement \in BeforeCopy => snortLogsNew = Empty

Recorded ==
  statement \in Recording =>
    /\ identifiers \subseteq Ids
    /\ older \subseteq IdsOf(snortLogs)
    /\ older \cap identifiers = {}

Copied ==
  statement = "copy" =>
    /\ trigger
    /\ \A id \in IdsOf(snortLogs) : id < currentId => id \in IdsOf(snortLogsNew) \cup identifiers
    /\ ~Renamed => \A id \in older : snortLogsNew[id] = IF id < currentId THEN 1 ELSE 0

AllCopied ==
  statement = "catch up" =>
    /\ trigger
    /\ IdsOf(snortLogs) \subseteq IdsOf(snortLogsNew) \cup identifiers
    /\ Once(snortLogsNew)

Complete ==
  statement \in AfterCopy => /\ older \subseteq Ids
                             /\ caught \subseteq IdsOf(snortLogsNew)
                             /\ Once(snortLogsNew)

Done ==
  statement = "done" => Renamed /\ CaughtUp /\ OlderOnce

Phases == NewTable /\ Recorded /\ Copied /\ AllCopied /\ Complete /\ Done

MigInv == MigTypes /\ Numbered /\ Phases

-----------------------------------------------------------------------------
LEMMA IdsOfTable ==
  ASSUME NEW table \in Table
  PROVE  table # Missing /\ IdsOf(table) = {id \in Ids : table[id] > 0}
BY MissingAssumption DEF Table, Ids, IdsOf

LEMMA IdsOfWithRows ==
  ASSUME NEW table \in Table, NEW ids \in SUBSET Ids
  PROVE  /\ WithRows(table, ids) \in Table
         /\ IdsOf(WithRows(table, ids)) = IdsOf(table) \cup ids
<1>1. WithRows(table, ids) \in Table
  BY DEF WithRows, Table
<1>2. \A id \in Ids : WithRows(table, ids)[id] > 0 <=> (table[id] > 0 \/ id \in ids)
  BY DEF WithRows, Table
<1>3. QED BY <1>1, <1>2, IdsOfTable

LEMMA IdsOfWithCopies ==
  ASSUME NEW table \in Table, snortLogs \in Table, NEW ids \in SUBSET IdsOf(snortLogs)
  PROVE  /\ WithCopies(table, ids) \in Table
         /\ IdsOf(WithCopies(table, ids)) = IdsOf(table) \cup ids
<1>1. WithCopies(table, ids) \in Table
  BY DEF WithCopies, Table
<1>2. \A id \in Ids : WithCopies(table, ids)[id] > 0 <=> (table[id] > 0 \/ id \in ids)
  BY IdsOfTable DEF WithCopies, Table
<1>3. ids \subseteq Ids
  BY IdsOfTable
<1>4. QED BY <1>1, <1>2, <1>3, IdsOfTable

LEMMA MigInit == Init => MigInv
<1> SUFFICES ASSUME Init PROVE MigInv
  OBVIOUS
<1>1. Empty \in Table /\ IdsOf(Empty) = {}
  BY IdsOfTable DEF Empty, Table
<1>2. 1 .. OldCount \subseteq Ids /\ OldCount \in Nat
  BY CopyAssumption DEF Ids
<1>3. snortLogs \in Table /\ IdsOf(snortLogs) = 1 .. OldCount
  BY <1>1, <1>2, IdsOfWithRows DEF Init
<1>4. \A id \in Ids : snortLogs[id] \in {0, 1}
  <2>1. \A id \in Ids : Empty[id] = 0
    BY DEF Empty
  <2>2. \A id \in Ids : snortLogs[id] = IF id \in 1 .. OldCount THEN Empty[id] + 1 ELSE Empty[id]
    BY DEF Init, WithRows
  <2>3. QED BY <2>1, <2>2
<1>5. nextId = OldCount + 1 /\ inserting = [w \in Writers |-> 0] /\ currentId = 1
  BY DEF Init
<1>6. MigTypes
  BY <1>2, <1>3, <1>5 DEF MigTypes
<1>7. Numbered
  BY <1>2, <1>3, <1>4, <1>5 DEF Numbered
<1>8. Phases
  BY DEF Init, Phases, NewTable, Recorded, Copied, AllCopied, Complete, Done,
         Filling, BeforeCopy, AfterCopy, Recording
<1>9. QED BY <1>6, <1>7, <1>8 DEF MigInv

-----------------------------------------------------------------------------
(* The writers *)

LEMMA MigBeginInsert ==
  ASSUME MigInv, NEW w \in Writers, BeginInsert(w)
  PROVE  MigInv'
<1>1. /\ nextId \in Ids /\ inserting' = [inserting EXCEPT ![w] = nextId] /\ nextId' = nextId + 1
      /\ UNCHANGED <<snortLogs, snortLogsNew, snortLogsOld, identifiers, trigger, statement,
                     currentId, older, caught>>
  BY CopyAssumption DEF BeginInsert, tables, script, history, MigInv, MigTypes, Ids
<1>2. MigTypes'
  BY <1>1 DEF MigInv, MigTypes, Ids
<1>3. Numbered'
  <2>1. nextId \notin IdsOf(snortLogs)
    BY <1>1 DEF MigInv, Numbered, Ids
  <2>2. \A id \in IdsOf(snortLogs)' : id < nextId'
    BY <1>1, IdsOfTable DEF MigInv, Numbered, MigTypes, Ids, IdsOf
  <2>3. (~Renamed => \A id \in Ids : snortLogs[id] \in {0, 1})'
    BY <1>1 DEF MigInv, Numbered, Renamed
  <2>4. ASSUME NEW v \in Writers, inserting'[v] # 0
        PROVE  /\ inserting'[v] \in Ids /\ inserting'[v] < nextId'
               /\ inserting'[v] \notin IdsOf(snortLogs)
               /\ \A u \in Writers \ {v} : inserting'[u] # inserting'[v]
    BY <1>1, <2>1, <2>4 DEF MigInv, MigTypes, Numbered, Ids
  <2>5. IdsOf(snortLogs)' = IdsOf(snortLogs)
    BY <1>1 DEF IdsOf
  <2>6. QED BY <2>2, <2>3, <2>4, <2>5 DEF Numbered
<1>4. Phases'
  BY <1>1 DEF MigInv, Phases, NewTable, Recorded, Copied, AllCopied, Complete, Done, Renamed,
              CaughtUp, OlderOnce, Once, IdsOf
<1>5. QED BY <1>2, <1>3, <1>4 DEF MigInv

LEMMA MigInsertRefused ==
  ASSUME MigInv, NEW w \in Writers, InsertRefused(w)
  PROVE  MigInv'
<1>1. /\ inserting' = [inserting EXCEPT ![w] = 0]
      /\ UNCHANGED <<snortLogs, snortLogsNew, snortLogsOld, identifiers, trigger, statement,
                     currentId, nextId, older, caught>>
  BY DEF InsertRefused, tables, script, history
<1>2. MigTypes' /\ Numbered'
  BY <1>1 DEF MigInv, MigTypes, Numbered, Renamed, IdsOf
<1>3. Phases'
  BY <1>1 DEF MigInv, Phases, NewTable, Recorded, Copied, AllCopied, Complete, Done, Renamed,
              CaughtUp, OlderOnce, Once, IdsOf
<1>4. QED BY <1>2, <1>3 DEF MigInv

LEMMA MigInsert ==
  ASSUME MigInv, NEW w \in Writers, Insert(w)
  PROVE  MigInv'
<1>1. /\ inserting' = [inserting EXCEPT ![w] = 0]
      /\ snortLogs' = WithRows(snortLogs, {inserting[w]})
      /\ ~Renamed /\ ~Renamed'
      /\ UNCHANGED <<snortLogsNew, snortLogsOld, trigger, statement, currentId, nextId, older, caught>>
  BY DEF Insert, script, history, Renamed
<1>2. PICK id \in Ids : id = inserting[w] /\ id < nextId /\ id \notin IdsOf(snortLogs)
                       /\ \A v \in Writers \ {w} : inserting[v] # id
  BY DEF Insert, MigInv, Numbered
<1>3. snortLogs' \in Table /\ IdsOf(snortLogs') = IdsOf(snortLogs) \cup {id}
  BY <1>1, <1>2, IdsOfWithRows DEF MigInv, MigTypes
<1>4. IdsOf(snortLogs)' = IdsOf(snortLogs')
  BY DEF IdsOf
<1>5. MigTypes'
  BY <1>1, <1>3 DEF MigInv, MigTypes
<1>6. Numbered'
  <2>1. \A r \in Ids : snortLogs'[r] \in {0, 1}
    <3>1. snortLogs[id] = 0
      BY <1>1, <1>2, IdsOfTable DEF MigInv, MigTypes, Numbered
    <3>2. \A r \in Ids : snortLogs'[r] = IF r \in {id} THEN snortLogs[r] + 1 ELSE snortLogs[r]
      BY <1>1, <1>2 DEF WithRows
    <3>3. \A r \in Ids : snortLogs[r] \in {0, 1}
      BY <1>1 DEF MigInv, Numbered
    <3>4. QED BY <3>1, <3>2, <3>3
  <2>2. \A r \in IdsOf(snortLogs') : r < nextId'
    BY <1>1, <1>2, <1>3 DEF MigInv, Numbered
  <2>3. ASSUME NEW v \in Writers, inserting'[v] # 0
        PROVE  /\ inserting'[v] \in Ids /\ inserting'[v] < nextId'
               /\ inserting'[v] \notin IdsOf(snortLogs')
               /\ \A u \in Writers \ {v} : inserting'[u] # inserting'[v]
    BY <1>1, <1>2, <1>3, <2>3 DEF MigInv, MigTypes, Numbered
  <2>4. QED BY <1>4, <2>1, <2>2, <2>3 DEF Numbered
<1>7. trigger => identifiers' = identifiers \cup {id}
  BY <1>2 DEF Insert
<1>8. identifiers' = identifiers \/ identifiers' = identifiers \cup {id}
  BY <1>2 DEF Insert
<1>9. IdsOf(snortLogsNew)' = IdsOf(snortLogsNew)
  BY <1>1 DEF IdsOf
<1>10. NewTable'
  BY <1>1, <1>3, <1>4, <1>9 DEF MigInv, Phases, NewTable
<1>11. Recorded'
  BY <1>1, <1>2, <1>3, <1>4, <1>8 DEF MigInv, Phases, Recorded
<1>12. Copied'
  BY <1>1, <1>3, <1>4, <1>7, <1>9 DEF MigInv, Phases, Copied
<1>13. AllCopied'
  BY <1>1, <1>3, <1>4, <1>7, <1>9 DEF MigInv, Phases, AllCopied, Once
<1>14. Complete' /\ Done'
  BY <1>1, <1>9 DEF MigInv, Phases, Complete, Done, Once
<1>15. QED BY <1>5, <1>6, <1>10, <1>11, <1>12, <1>13, <1>14 DEF MigInv, Phases

-----------------------------------------------------------------------------
(* The script *)

\* A statement that leaves the rows and their ids alone.
LEMMA NumberedKept ==
  ASSUME MigInv, UNCHANGED <<snortLogs, snortLogsOld, writing>>, currentId' \in Int
  PROVE  MigTypes' /\ Numbered'
BY DEF MigInv, MigTypes, Numbered, Renamed, IdsOf, writing

\* It fails, or is begun again.
LEMMA MigRestart ==
  ASSUME MigInv, Fail \/ RepairAndMigrate
  PROVE  MigInv'
<1>1. statement' \in {"failed", "drop new"}
  BY DEF Fail, RepairAndMigrate, Go
<1>2. UNCHANGED <<snortLogs, snortLogsOld, writing, currentId>>
  BY DEF Fail, RepairAndMigrate, tables
<1>3. Phases'
  BY <1>1 DEF Phases, NewTable, Recorded, Copied, AllCopied, Complete, Done,
         Filling, BeforeCopy, AfterCopy, Recording
<1>4. QED BY <1>2, <1>3, NumberedKept DEF MigInv, MigTypes

\* The tables and the trigger are set up.
LEMMA MigSetUp ==
  ASSUME MigInv, DropNew \/ CreateNew \/ CreateIdentifiers \/ CreateTrigger
  PROVE  MigInv'
<1>1. UNCHANGED <<snortLogs, snortLogsOld, writing>>
  BY DEF DropNew, CreateNew, CreateIdentifiers, CreateTrigger, writing
<1>2. currentId' \in Int
  <2>1. currentId' = currentId \/ currentId' = 1
    BY DEF DropNew, CreateNew, CreateIdentifiers, CreateTrigger
  <2>2. QED BY <2>1 DEF MigInv, MigTypes
<1>3. MigTypes' /\ Numbered'
  BY <1>1, <1>2, NumberedKept
<1>4. IdsOf(snortLogs)' = IdsOf(snortLogs) /\ IdsOf(snortLogs) \subseteq Ids
  BY <1>1, IdsOfTable DEF IdsOf, MigInv, MigTypes
<1>5. Empty \in Table /\ IdsOf(Empty) = {} /\ \A id \in Ids : Empty[id] = 0
  BY IdsOfTable DEF Empty, Table
<1> USE DEF Phases, NewTable, Recorded, Copied, AllCopied, Complete, Done,
            Filling, BeforeCopy, AfterCopy, Recording
<1>6. CASE DropNew
  <2>1. statement' = "create new"
    BY <1>6 DEF DropNew, Go
  <2>2. Phases'
    BY <2>1
  <2>3. QED BY <1>3, <2>2 DEF MigInv
<1>7. CASE CreateNew
  <2>1. statement' = "drop identifiers" /\ snortLogsNew' = Empty
    BY <1>7 DEF CreateNew, Go
  <2>2. IdsOf(snortLogsNew)' = {}
    BY <1>5, <2>1 DEF IdsOf
  <2>3. Phases'
    BY <1>5, <2>1, <2>2
  <2>4. QED BY <1>3, <2>3 DEF MigInv
<1>8. CASE CreateIdentifiers
  <2>1. /\ statement = "create identifiers" /\ statement' = "drop trigger"
        /\ identifiers' = {} /\ older' = IdsOf(snortLogs) /\ UNCHANGED snortLogsNew
    BY <1>8 DEF CreateIdentifiers, Go
  <2>2. snortLogsNew = Empty /\ IdsOf(snortLogsNew)' = {}
    BY <1>5, <2>1 DEF IdsOf, MigInv
  <2>3. Phases'
    BY <1>4, <1>5, <2>1, <2>2
  <2>4. QED BY <1>3, <2>3 DEF MigInv
<1>9. CASE CreateTrigger
  <2>1. /\ statement = "create trigger" /\ statement' = "copy" /\ trigger' = TRUE /\ currentId' = 1
        /\ UNCHANGED <<snortLogsNew, identifiers, older>>
    BY <1>9 DEF CreateTrigger, Go, history
  <2>2. snortLogsNew = Empty /\ IdsOf(snortLogsNew)' = {}
    BY <1>5, <2>1 DEF IdsOf, MigInv
  <2>3. NewTable' /\ AllCopied' /\ Complete' /\ Done'
    BY <1>4, <1>5, <2>1, <2>2
  <2>4. Recorded'
    BY <1>4, <2>1 DEF MigInv
  <2>5. older \subseteq Ids
    BY <1>4, <2>1 DEF MigInv
  <2>6. \A id \in Ids : ~(id < 1)
    BY CopyAssumption DEF Ids
  <2>7. \A id \in older' : snortLogsNew'[id] = 0 /\ ~(id < currentId')
    BY <1>5, <2>1, <2>2, <2>5, <2>6 DEF MigInv
  <2>8. \A id \in IdsOf(snortLogs)' : ~(id < currentId')
    BY <1>4, <2>1, <2>6
  <2>9. Copied'
    BY <2>1, <2>7, <2>8
  <2>10. QED BY <1>3, <2>3, <2>4, <2>9 DEF MigInv
<1>10. QED BY <1>6, <1>7, <1>8, <1>9

\* What recorded the new rows goes, before the copy or after it.
LEMMA MigDrop ==
  ASSUME MigInv, DropIdentifiers \/ DropTrigger
  PROVE  MigInv'
<1>1. UNCHANGED <<snortLogs, snortLogsNew, snortLogsOld, writing, currentId, older, caught>>
  BY DEF DropIdentifiers, DropTrigger, writing, history
<1>2. MigTypes' /\ Numbered'
  BY <1>1, NumberedKept DEF MigInv, MigTypes
<1>3. IdsOf(snortLogs)' = IdsOf(snortLogs) /\ IdsOf(snortLogsNew)' = IdsOf(snortLogsNew)
  BY <1>1 DEF IdsOf
<1> USE DEF Phases, NewTable, Recorded, Copied, AllCopied, Complete, Done,
            Filling, BeforeCopy, AfterCopy, Recording
<1>4. CASE DropIdentifiers
  <2>1. \/ statement = "drop identifiers" /\ statement' = "create identifiers"
        \/ statement = "drop identifiers again" /\ statement' = "rename"
    BY <1>4 DEF DropIdentifiers, Go
  <2>2. Phases'
    BY <1>1, <1>3, <2>1 DEF MigInv, Once, Renamed
  <2>3. QED BY <1>2, <2>2 DEF MigInv
<1>5. CASE DropTrigger
  <2>1. /\ \/ statement = "drop trigger" /\ statement' = "create trigger"
           \/ statement = "drop trigger again" /\ statement' = "drop identifiers again"
        /\ UNCHANGED identifiers
    BY <1>5 DEF DropTrigger, Go
  <2>2. Phases'
    BY <1>1, <1>3, <2>1 DEF MigInv, Once, Renamed
  <2>3. QED BY <1>2, <2>2 DEF MigInv
<1>6. QED BY <1>4, <1>5

\* A window is copied, with the rows that have come into it.
LEMMA MigCopyNext ==
  ASSUME MigInv, CopyNext
  PROVE  MigInv'
<1>1. /\ statement = "copy" /\ statement' = "copy"
      /\ snortLogsNew' = WithCopies(snortLogsNew, Window)
      /\ currentId' = currentId + CopyCount
      /\ UNCHANGED <<snortLogs, snortLogsOld, identifiers, trigger, writing, older, caught>>
  BY DEF CopyNext, history
<1>2. MigTypes' /\ Numbered'
  BY <1>1, NumberedKept, CopyAssumption DEF MigInv, MigTypes
<1>3. /\ snortLogs \in Table /\ snortLogsNew \in Table /\ currentId \in Int /\ CopyCount \in Nat
      /\ IdsOf(snortLogsNew) \subseteq IdsOf(snortLogs)
  BY <1>1, CopyAssumption DEF MigInv, MigTypes, Phases, NewTable, Filling
<1>4. Window \subseteq IdsOf(snortLogs) /\ IdsOf(snortLogs) \subseteq Ids
  BY <1>3, IdsOfTable DEF Window
<1>5. snortLogsNew' \in Table /\ IdsOf(snortLogsNew') = IdsOf(snortLogsNew) \cup Window
  BY <1>1, <1>3, <1>4, IdsOfWithCopies
<1>6. IdsOf(snortLogs)' = IdsOf(snortLogs) /\ IdsOf(snortLogsNew)' = IdsOf(snortLogsNew')
  BY <1>1 DEF IdsOf
<1>7. NewTable' /\ Recorded'
  BY <1>1, <1>3, <1>4, <1>5, <1>6 DEF MigInv, Phases, NewTable, Recorded, BeforeCopy
<1>8. ASSUME NEW id \in IdsOf(snortLogs), id < currentId'
      PROVE  id \in IdsOf(snortLogsNew') \cup identifiers
  <2>1. id \in Int
    BY <1>4, CopyAssumption DEF Ids
  <2>2. id < currentId \/ id \in Window
    BY <1>1, <1>3, <1>8, <2>1 DEF Window
  <2>3. QED BY <1>1, <1>5, <2>2 DEF MigInv, Phases, Copied
<1>9. ASSUME ~Renamed, NEW id \in older
      PROVE  snortLogsNew'[id] = IF id < currentId' THEN 1 ELSE 0
  <2>1. id \in IdsOf(snortLogs)
    BY <1>1, <1>9 DEF MigInv, Phases, Recorded, Recording
  <2>2. id \in Ids /\ id \in Int
    BY <1>4, <2>1, CopyAssumption DEF Ids
  <2>3. snortLogs[id] = 1
    BY <1>3, <1>9, <2>1, <2>2, IdsOfTable DEF MigInv, Numbered
  <2>4. snortLogsNew[id] = IF id < currentId THEN 1 ELSE 0
    BY <1>1, <1>9 DEF MigInv, Phases, Copied
  <2>5. snortLogsNew'[id] = IF id \in Window THEN snortLogsNew[id] + 1 ELSE snortLogsNew[id]
    BY <1>1, <2>2, <2>3 DEF WithCopies
  <2>6. id \in Window <=> currentId <= id /\ id < currentId'
    BY <1>1, <2>1 DEF Window
  <2>7. CASE id < currentId
    <3>1. id < currentId' /\ id \notin Window
      BY <1>1, <1>3, <2>2, <2>6, <2>7
    <3>2. QED BY <2>4, <2>5, <2>7, <3>1
  <2>8. CASE ~(id < currentId)
    <3>1. id \in Window <=> id < currentId'
      BY <1>3, <2>2, <2>6, <2>8
    <3>2. QED BY <2>4, <2>5, <2>8, <3>1
  <2>9. QED BY <2>7, <2>8
<1>10. Copied'
  BY <1>1, <1>6, <1>8, <1>9 DEF MigInv, Phases, Copied, Renamed
<1>11. AllCopied' /\ Complete' /\ Done'
  BY <1>1 DEF AllCopied, Complete, Done, AfterCopy
<1>12. QED BY <1>2, <1>7, <1>10, <1>11 DEF MigInv, Phases

\* The windows have gone past every id.
LEMMA MigLeaveCopy ==
  ASSUME MigInv, LeaveCopy
  PROVE  MigInv'
<1>1. /\ statement = "copy" /\ statement' = "catch up" /\ currentId >= MaxCopied
      /\ UNCHANGED <<snortLogs, snortLogsNew, snortLogsOld, identifiers, trigger, writing,
                     currentId, older, caught>>
  BY DEF LeaveCopy, Go, tables, history
<1>2. MigTypes' /\ Numbered'
  BY <1>1, NumberedKept DEF MigInv, MigTypes
<1>3. \A id \in Ids : id < currentId
  <2>1. PICK reached \in Int : reached = currentId
    BY DEF MigInv, MigTypes
  <2>2. reached >= MaxCopied
    BY <1>1, <2>1
  <2>3. \A id \in 1 .. LastId : id < reached
    BY <2>1, <2>2, CopyAssumption
  <2>4. QED BY <2>1, <2>3 DEF Ids
<1>4. IdsOf(snortLogs) \subseteq Ids /\ older \subseteq IdsOf(snortLogs)
  BY <1>1, IdsOfTable DEF MigInv, MigTypes, Phases, Recorded, Recording
<1>5. IdsOf(snortLogs)' = IdsOf(snortLogs) /\ IdsOf(snortLogsNew)' = IdsOf(snortLogsNew)
  BY <1>1 DEF IdsOf
<1>6. NewTable' /\ Recorded' /\ Copied' /\ Complete' /\ Done'
  BY <1>1, <1>5 DEF MigInv, Phases, NewTable, Recorded, Copied, Complete, Done,
                    Filling, BeforeCopy, AfterCopy, Recording
<1>7. AllCopied'
  BY <1>1, <1>3, <1>4, <1>5 DEF MigInv, Phases, Copied, AllCopied, Once, Renamed
<1>8. QED BY <1>2, <1>6, <1>7 DEF MigInv, Phases

LEMMA MigCatchUp ==
  ASSUME MigInv, CatchUp
  PROVE  MigInv'
<1>1. /\ statement = "catch up" /\ statement' = "drop trigger again"
      /\ snortLogsNew' = WithRows(snortLogsNew, identifiers \cap IdsOf(snortLogs))
      /\ caught' = IdsOf(snortLogs)
      /\ UNCHANGED <<snortLogs, snortLogsOld, writing, currentId, older>>
  BY DEF CatchUp, Go
<1>2. MigTypes' /\ Numbered'
  BY <1>1, NumberedKept DEF MigInv, MigTypes
<1>3. /\ snortLogsNew \in Table /\ IdsOf(snortLogsNew) \subseteq IdsOf(snortLogs)
      /\ identifiers \subseteq Ids /\ older \subseteq IdsOf(snortLogs) /\ older \cap identifiers = {}
      /\ IdsOf(snortLogs) \subseteq IdsOf(snortLogsNew) \cup identifiers
      /\ Once(snortLogsNew)
  BY <1>1 DEF MigInv, Phases, NewTable, Recorded, AllCopied, Filling, Recording
<1>4. IdsOf(snortLogs) \subseteq Ids
  BY IdsOfTable DEF MigInv, MigTypes
<1>5. /\ snortLogsNew' \in Table
      /\ IdsOf(snortLogsNew') = IdsOf(snortLogsNew) \cup (identifiers \cap IdsOf(snortLogs))
  BY <1>1, <1>3, IdsOfWithRows
<1>6. IdsOf(snortLogs)' = IdsOf(snortLogs) /\ IdsOf(snortLogsNew)' = IdsOf(snortLogsNew')
  BY <1>1 DEF IdsOf
<1>7. \A id \in older : snortLogsNew'[id] = snortLogsNew[id]
  BY <1>1, <1>3, <1>4 DEF WithRows
<1>8. Complete'
  BY <1>1, <1>3, <1>4, <1>5, <1>6, <1>7 DEF Complete, Once, Renamed
<1>9. NewTable' /\ Recorded' /\ Copied' /\ AllCopied' /\ Done'
  BY <1>1, <1>3, <1>5, <1>6 DEF NewTable, Recorded, Copied, AllCopied, Done,
                               Filling, BeforeCopy, AfterCopy, Recording
<1>10. QED BY <1>2, <1>8, <1>9 DEF MigInv, Phases

LEMMA MigRename ==
  ASSUME MigInv, Rename
  PROVE  MigInv'
<1>1. /\ statement = "rename" /\ statement' = "done" /\ ~Renamed
      /\ snortLogsOld' = snortLogs /\ snortLogs' = snortLogsNew
      /\ UNCHANGED <<writing, currentId, older, caught>>
  BY DEF Rename, Go, Renamed, history
<1>2. /\ snortLogs \in Table /\ snortLogsNew \in Table
      /\ IdsOf(snortLogsNew) \subseteq IdsOf(snortLogs)
      /\ caught \subseteq IdsOf(snortLogsNew) /\ Once(snortLogsNew)
  BY <1>1 DEF MigInv, MigTypes, Phases, NewTable, Complete, Filling, AfterCopy
<1>3. Renamed'
  BY <1>1, <1>2, IdsOfTable DEF Renamed
<1>4. IdsOf(snortLogs)' = IdsOf(snortLogsNew) /\ IdsOf(snortLogsOld)' = IdsOf(snortLogs)
  BY <1>1 DEF IdsOf
<1>5. MigTypes'
  BY <1>1, <1>2 DEF MigInv, MigTypes, writing
<1>6. Numbered'
  BY <1>1, <1>2, <1>3, <1>4 DEF MigInv, Numbered, writing
<1>7. CaughtUp' /\ OlderOnce'
  BY <1>1, <1>2, <1>4 DEF CaughtUp, OlderOnce, Once
<1>8. Phases'
  BY <1>1, <1>3, <1>7 DEF Phases, NewTable, Recorded, Copied, AllCopied, Complete, Done,
                          Filling, BeforeCopy, AfterCopy, Recording
<1>9. QED BY <1>5, <1>6, <1>8 DEF MigInv

-----------------------------------------------------------------------------
LEMMA MigStep ==
  ASSUME MigInv, [Next]_vars
  PROVE  MigInv'
<1>1. CASE UNCHANGED vars
  <2>1. UNCHANGED <<snortLogs, snortLogsNew, snortLogsOld, identifiers, trigger, statement,
                    currentId, nextId, inserting, older, caught>>
    BY <1>1 DEF vars, tables, script, writing, history
  <2>2. MigTypes' /\ Numbered'
    BY <2>1 DEF MigInv, MigTypes, Numbered, Renamed, IdsOf
  <2>3. Phases'
    BY <2>1 DEF MigInv, Phases, NewTable, Recorded, Copied, AllCopied, Complete, Done, Renamed,
                CaughtUp, OlderOnce, Once, IdsOf
  <2>4. QED BY <2>2, <2>3 DEF MigInv
<1>2. CASE Next
  <2>1. CASE \E w \in Writers : BeginInsert(w) \/ Insert(w) \/ InsertRefused(w)
    BY <2>1, MigBeginInsert, MigInsert, MigInsertRefused
  <2>2. CASE Fail \/ RepairAndMigrate
    BY <2>2, MigRestart
  <2>3. CASE Script
    BY <2>3, MigSetUp, MigDrop, MigCopyNext, MigLeaveCopy, MigCatchUp, MigRename
       DEF Script, mi_copy_table_data
  <2>4. QED BY <1>2, <2>1, <2>2, <2>3 DEF Next
<1>3. QED BY <1>1, <1>2

-----------------------------------------------------------------------------
\* The tables of the script.
LEMMA MigTypedScript ==
  ASSUME MigInv, TypeOK, Script
  PROVE  TypeOK'
<1>1. Empty \in Table
  BY DEF Empty, Table
<1>2. CASE DropNew \/ CreateNew \/ DropIdentifiers \/ DropTrigger \/ CreateTrigger \/ LeaveCopy
  <2>1. CASE DropNew \/ CreateNew \/ DropIdentifiers
    BY <1>1, <2>1 DEF DropNew, CreateNew, DropIdentifiers, Go, TypeOK, writing, history
  <2>2. CASE DropTrigger
    BY <2>2 DEF DropTrigger, Go, TypeOK, writing, history
  <2>3. CASE CreateTrigger
    <3>1. 1 \in 1 .. MaxCopied + CopyCount
      BY CopyAssumption
    <3>2. QED BY <2>3, <3>1 DEF CreateTrigger, Go, TypeOK, writing, history
  <2>4. CASE LeaveCopy
    BY <2>4 DEF LeaveCopy, Go, TypeOK, tables, writing, history
  <2>5. QED BY <1>2, <2>1, <2>2, <2>3, <2>4
<1>3. CASE CreateIdentifiers
  BY <1>3 DEF CreateIdentifiers, Go, IdsOf, TypeOK, writing
<1>4. CASE CopyNext
  <2>1. /\ statement = "copy" /\ currentId < MaxCopied
        /\ snortLogsNew' = WithCopies(snortLogsNew, Window) /\ currentId' = currentId + CopyCount
        /\ UNCHANGED <<snortLogs, snortLogsOld, identifiers, trigger, statement, nextId,
                       inserting, older, caught>>
    BY <1>4 DEF CopyNext, writing, history
  <2>2. snortLogs \in Table /\ snortLogsNew \in Table
    BY <2>1 DEF MigInv, MigTypes, Phases, NewTable, Filling
  <2>3. Window \in SUBSET IdsOf(snortLogs)
    BY DEF Window
  <2>4. snortLogsNew' \in Table
    BY <2>1, <2>2, <2>3, IdsOfWithCopies
  <2>5. currentId' \in 1 .. MaxCopied + CopyCount
    BY <2>1, CopyAssumption DEF TypeOK
  <2>6. QED BY <2>1, <2>4, <2>5 DEF TypeOK
<1>5. CASE CatchUp
  <2>1. /\ statement = "catch up" /\ statement' = "drop trigger again"
        /\ snortLogsNew' = WithRows(snortLogsNew, identifiers \cap IdsOf(snortLogs))
        /\ caught' = IdsOf(snortLogs)
        /\ UNCHANGED <<snortLogs, snortLogsOld, identifiers, trigger, currentId, nextId,
                       inserting, older>>
    BY <1>5 DEF CatchUp, Go, writing
  <2>2. snortLogsNew \in Table
    BY <2>1 DEF MigInv, Phases, NewTable, Filling
  <2>3. IdsOf(snortLogs) \subseteq Ids
    BY DEF IdsOf
  <2>4. snortLogsNew' \in Table
    BY <2>1, <2>2, <2>3, IdsOfWithRows
  <2>5. QED BY <2>1, <2>3, <2>4 DEF TypeOK
<1>6. CASE Rename
  <2>1. /\ statement = "rename" /\ statement' = "done"
        /\ snortLogsOld' = snortLogs /\ snortLogs' = snortLogsNew /\ snortLogsNew' = Missing
        /\ UNCHANGED <<identifiers, trigger, currentId, nextId, inserting, older, caught>>
    BY <1>6 DEF Rename, Go, writing, history
  <2>2. snortLogsNew \in Table
    BY <2>1 DEF MigInv, Phases, NewTable, Filling, AfterCopy
  <2>3. QED BY <2>1, <2>2 DEF TypeOK
<1>7. QED BY <1>2, <1>3, <1>4, <1>5, <1>6 DEF Script, mi_copy_table_data

\* The writers.
LEMMA MigTypedInsert ==
  ASSUME MigInv, TypeOK, NEW w \in Writers,
         BeginInsert(w) \/ Insert(w) \/ InsertRefused(w)
  PROVE  TypeOK'
<1>1. CASE BeginInsert(w)
  <2>1. /\ nextId \in 1 .. LastId + 1 /\ nextId <= LastId /\ nextId' = nextId + 1
        /\ inserting' = [inserting EXCEPT ![w] = nextId]
    BY <1>1 DEF BeginInsert, TypeOK
  <2>2. nextId' \in 1 .. LastId + 1 /\ nextId \in 0 .. LastId
    BY <2>1, CopyAssumption
  <2>3. inserting' \in [Writers -> 0 .. LastId]
    BY <2>1, <2>2 DEF TypeOK
  <2>4. QED BY <1>1, <2>2, <2>3 DEF BeginInsert, TypeOK, tables, script, history
<1>2. CASE Insert(w)
  <2>1. /\ inserting[w] \in Ids /\ snortLogs' = WithRows(snortLogs, {inserting[w]})
        /\ inserting' = [inserting EXCEPT ![w] = 0]
        /\ UNCHANGED <<snortLogsNew, snortLogsOld, trigger, statement, currentId, nextId,
                       older, caught>>
    BY <1>2 DEF Insert, script, history, MigInv, Numbered
  <2>2. snortLogs' \in Table
    BY <2>1, IdsOfWithRows DEF TypeOK
  <2>3. identifiers' \in (SUBSET Ids) \cup {Missing}
    BY <1>2, <2>1 DEF Insert, TypeOK
  <2>4. 0 \in 0 .. LastId
    BY CopyAssumption
  <2>5. QED BY <2>1, <2>2, <2>3, <2>4 DEF TypeOK
<1>3. CASE InsertRefused(w)
  <2>1. 0 \in 0 .. LastId
    BY CopyAssumption
  <2>2. QED BY <1>3, <2>1 DEF InsertRefused, TypeOK, tables, script, history
<1>4. QED BY <1>1, <1>2, <1>3

(***************************************************************************)
(* Each table is there or not and has its ids only, the ids that are given *)
(* stay in their bounds, and the copy ends at most one window behind the   *)
(* largest id.                                                             *)
(***************************************************************************)
THEOREM TypeCorrect == Spec => []TypeOK
<1>1. Init => TypeOK
  <2> SUFFICES ASSUME Init PROVE TypeOK
    OBVIOUS
  <2>1. Empty \in Table
    BY DEF Empty, Table
  <2>2. OldCount \in Nat /\ 1 .. OldCount \subseteq Ids /\ OldCount + 1 \in 1 .. LastId + 1
    BY CopyAssumption DEF Ids
  <2>3. snortLogs \in Table
    BY <2>1, <2>2, IdsOfWithRows DEF Init
  <2>4. 1 \in 1 .. MaxCopied + CopyCount /\ 0 \in 0 .. LastId
    BY CopyAssumption
  <2>5. QED BY <2>2, <2>3, <2>4 DEF Init, TypeOK
<1>2. ASSUME MigInv, TypeOK, [Next]_vars PROVE TypeOK'
  <2>1. CASE UNCHANGED vars
    BY <1>2, <2>1 DEF vars, tables, script, writing, history, TypeOK
  <2>2. CASE Script
    BY <1>2, <2>2, MigTypedScript
  <2>3. CASE \E w \in Writers : BeginInsert(w) \/ Insert(w) \/ InsertRefused(w)
    BY <1>2, <2>3, MigTypedInsert
  <2>4. CASE Fail \/ RepairAndMigrate
    BY <1>2, <2>4 DEF Fail, RepairAndMigrate, Go, TypeOK, tables, writing, history
  <2>5. QED BY <1>2, <2>1, <2>2, <2>3, <2>4 DEF Next
<1>3. QED BY <1>1, <1>2, MigInit, MigStep, PTL DEF Spec

(***************************************************************************)
(* The table that takes the place of snort_logs has every row that was     *)
(* there at the catch-up and none that the old table has not.              *)
(***************************************************************************)
THEOREM TakesOverAll == Spec => []CaughtUp
<1>1. MigInv => CaughtUp
  BY DEF MigInv, Phases, Done, CaughtUp
<1>2. QED BY <1>1, MigInit, MigStep, PTL DEF Spec

(***************************************************************************)
(* The rows that are older than the recording are in it once, however      *)
(* often the script was begun, and wherever it failed.                     *)
(***************************************************************************)
THEOREM OldRowsOnce == Spec => []OlderOnce
<1>1. MigInv => OlderOnce
  BY DEF MigInv, Phases, Done, OlderOnce
<1>2. QED BY <1>1, MigInit, MigStep, PTL DEF Spec

(***************************************************************************)
(* No row that was ever in snort_logs leaves both snort_logs and the table *)
(* that keeps the old rows.                                                *)
(***************************************************************************)
THEOREM RowsAreKept == Spec => NothingLost
<1>1. ASSUME MigInv, [Next]_vars PROVE [KeptRows \subseteq KeptRows']_vars
  <2> SUFFICES KeptRows \subseteq KeptRows'
    OBVIOUS
  <2>1. CASE UNCHANGED <<snortLogs, snortLogsOld>>
    BY <2>1 DEF KeptRows, IdsOf
  <2>2. ASSUME NEW w \in Writers, Insert(w) PROVE KeptRows \subseteq KeptRows'
    <3>1. /\ snortLogs' = WithRows(snortLogs, {inserting[w]}) /\ snortLogsOld' = snortLogsOld
          /\ inserting[w] \in Ids
      BY <2>2, <1>1 DEF Insert, MigInv, Numbered
    <3>2. IdsOf(snortLogs) \subseteq IdsOf(snortLogs')
      BY <1>1, <3>1, IdsOfWithRows DEF MigInv, MigTypes
    <3>3. KeptRows' = IdsOf(snortLogs') \cup IdsOf(snortLogsOld)
      BY <3>1 DEF KeptRows, IdsOf
    <3>4. QED BY <3>2, <3>3 DEF KeptRows
  <2>3. CASE Rename
    <3>1. IdsOf(snortLogsOld) = {} /\ snortLogsOld' = snortLogs
      BY <2>3 DEF Rename, IdsOf
    <3>2. IdsOf(snortLogs) \subseteq KeptRows'
      BY <3>1 DEF KeptRows, IdsOf
    <3>3. QED BY <3>1, <3>2 DEF KeptRows
  <2>4. QED
    BY <1>1, <2>1, <2>2, <2>3
       DEF Next, Script, mi_copy_table_data, DropNew, CreateNew, DropIdentifiers, CreateIdentifiers,
           DropTrigger, CreateTrigger, CopyNext, LeaveCopy, CatchUp, Fail, RepairAndMigrate,
           BeginInsert, InsertRefused, vars, tables
<1>2. QED BY <1>1, MigInit, MigStep, PTL DEF Spec, NothingLost
=============================================================================
