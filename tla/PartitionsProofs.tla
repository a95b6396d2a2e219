-------------------------- MODULE PartitionsProofs --------------------------
(***************************************************************************)
(* Proofs about Partitions, for any periods, any number of overlapping     *)
(* runs, dates in any order and any retention.                             *)
(***************************************************************************)
EXTENDS Partitions, TLAPS

PartTypes ==
  /\ parts \subseteq Int
  /\ rows \subseteq Int
  /\ latest \in Int
  /\ checked \subseteq Int
  /\ place \in [Runs -> {"idle", "count", "alter", "open", "fetch"}]
  /\ dataDate \in [Runs -> Int]
  /\ DOMAIN found = Runs
  /\ expired \in [Runs -> SUBSET Int]

\* A run's date is not later than the latest one, and it drops only what has expired.
OfRun(r) ==
  /\ place[r] # "idle" => dataDate[r] <= latest
  /\ place[r] # "fetch" => expired[r] = {}
  /\ \A p \in expired[r] : p < dataDate[r] - MaxCount

\* The run has seen, or made, the partition that its date needs.
Provided(r) == place[r] \in {"open", "fetch"} \/ (place[r] = "alter" /\ found[r])

\* A date that is provided for is accepted, and by days has its own partition or has expired.
Keeps(date) ==
  /\ \E p \in parts : date <= p
  /\ kind = "D" => date \in parts \/ date < latest - MaxCount

PartInv ==
  /\ PartTypes
  /\ \A r \in Runs : OfRun(r)
  /\ \A r \in Runs : Provided(r) => Keeps(dataDate[r])
  /\ \A date \in checked : Keeps(date)

-----------------------------------------------------------------------------
LEMMA PartInit == Init => PartInv
<1> SUFFICES ASSUME Init PROVE PartInv
  OBVIOUS
<1>1. PartTypes
  BY InitialAssumption DEF Init, PartTypes, NoDate
<1>2. \A r \in Runs : OfRun(r) /\ ~Provided(r)
  BY DEF Init, OfRun, Provided
<1>3. checked = {}
  BY DEF Init
<1>4. QED BY <1>1, <1>2, <1>3 DEF PartInv

\* What has been provided for stays so if no partition goes that is needed, and time goes on.
LEMMA KeepsKept ==
  ASSUME NEW date \in Int, Keeps(date), PartTypes, latest' \in Int, latest <= latest',
         parts \subseteq parts', UNCHANGED kind
  PROVE  Keeps(date)'
<1>1. \E p \in parts' : date <= p
  BY DEF Keeps
<1>2. latest \in Int /\ MaxCount \in Int
  BY MaxCountAssumption DEF PartTypes
<1>3. ASSUME date < latest - MaxCount PROVE date < latest' - MaxCount
  <2>1. PICK old \in Int : old = latest
    BY <1>2
  <2>2. PICK new \in Int : new = latest'
    OBVIOUS
  <2>3. old <= new /\ date < old - MaxCount
    BY <1>3, <2>1, <2>2
  <2>4. date < new - MaxCount
    BY <1>2, <2>3
  <2>5. QED BY <2>2, <2>4
<1>4. QED BY <1>1, <1>3 DEF Keeps

\* A run drops a partition: a later one is left, and the one that goes has expired.
LEMMA KeepsDropped ==
  ASSUME NEW date \in Int, Keeps(date), PartTypes,
         NEW r \in Runs, OfRun(r), place[r] = "fetch", Keeps(dataDate[r]),
         NEW p \in expired[r], parts' = parts \ {p}, UNCHANGED <<kind, latest>>
  PROVE  Keeps(date)'
<1>1. p < dataDate[r] - MaxCount /\ dataDate[r] <= latest /\ p \in Int /\ dataDate[r] \in Int
  BY DEF OfRun, PartTypes
<1>2. PICK q \in parts : dataDate[r] <= q
  BY DEF Keeps
<1>3. q \in Int /\ latest \in Int /\ q # p /\ p < latest - MaxCount
  BY <1>1, <1>2, MaxCountAssumption DEF PartTypes
<1>4. \E s \in parts' : date <= s
  <2>1. PICK s \in parts : date <= s
    BY DEF Keeps
  <2>2. CASE s = p
    BY <1>1, <1>2, <1>3, <2>1, <2>2, MaxCountAssumption
  <2>3. CASE s # p
    BY <2>1, <2>3
  <2>4. QED BY <2>2, <2>3
<1>5. kind = "D" => date \in parts' \/ date < latest' - MaxCount
  BY <1>1, <1>3 DEF Keeps
<1>6. QED BY <1>4, <1>5 DEF Keeps

-----------------------------------------------------------------------------
\* A log is inserted: no partition and no run changes.
LEMMA PartInsert ==
  ASSUME PartInv, NEW date \in LogDates, Insert(date)
  PROVE  PartInv'
BY PeriodsAssumption DEF PartInv, PartTypes, OfRun, Provided, Keeps, Insert, runVars, history

\* A run begins: the latest date may grow.
LEMMA PartCall ==
  ASSUME PartInv, NEW r \in Runs, Call(r)
  PROVE  PartInv'
<1>1. PICK date \in Periods :
        /\ dataDate' = [dataDate EXCEPT ![r] = date]
        /\ latest' = IF date > latest THEN date ELSE latest
  BY DEF Call
<1>2. /\ place[r] = "idle"
      /\ place' = [place EXCEPT ![r] = "count"]
      /\ UNCHANGED <<kind, parts, rows, found, expired, checked>>
  BY DEF Call, tableVars
<1>3. date \in Int /\ latest' \in Int /\ latest <= latest' /\ date <= latest'
  BY <1>1, PeriodsAssumption DEF PartInv, PartTypes
<1>4. PartTypes'
  BY <1>1, <1>2, <1>3 DEF PartInv, PartTypes
<1>5. \A v \in Runs : v # r => dataDate'[v] = dataDate[v] /\ place'[v] = place[v]
  BY <1>1, <1>2 DEF PartInv, PartTypes
<1>6. place'[r] = "count" /\ dataDate'[r] = date
  BY <1>1, <1>2 DEF PartInv, PartTypes
<1>7. ASSUME NEW d \in Int, Keeps(d) PROVE Keeps(d)'
  BY <1>2, <1>3, <1>7, KeepsKept DEF PartInv
<1>8. \A d \in checked' : Keeps(d)'
  BY <1>2, <1>7 DEF PartInv, PartTypes
<1>9. ASSUME NEW v \in Runs PROVE OfRun(v)' /\ (Provided(v)' => Keeps(dataDate[v])')
  <2>1. CASE v = r
    <3>1. expired[r] = {}
      BY <1>2 DEF PartInv, OfRun
    <3>2. QED BY <1>2, <1>3, <1>6, <2>1, <3>1 DEF OfRun, Provided
  <2>2. CASE v # r
    BY <1>2, <1>3, <1>5, <1>7, <2>2 DEF OfRun, Provided, PartInv, PartTypes
  <2>3. QED BY <2>1, <2>2
<1>10. QED BY <1>4, <1>8, <1>9 DEF PartInv

\* A step of a run that changes only where it is, or what it has counted.
LEMMA PartMove ==
  ASSUME PartInv, NEW r \in Runs,
         CountPartitions(r) \/ NothingToAdd(r) \/ OpenCursor(r) \/ CloseCursor(r) \/ Abort(r)
  PROVE  PartInv'
<1>1. UNCHANGED <<kind, parts, rows, latest>>
  BY DEF CountPartitions, NothingToAdd, OpenCursor, CloseCursor, Abort, LeaveRun, tableVars, history
<1>2. \A d : Keeps(d) => Keeps(d)'
  BY <1>1 DEF Keeps
<1>3. OfRun(r) /\ (Provided(r) => Keeps(dataDate[r]))
  BY DEF PartInv
<1>4. ASSUME NEW v \in Runs, v # r
      PROVE  /\ place'[v] = place[v] /\ dataDate'[v] = dataDate[v]
             /\ found'[v] = found[v] /\ expired'[v] = expired[v]
  BY <1>4 DEF CountPartitions, NothingToAdd, OpenCursor, CloseCursor, Abort, LeaveRun, PartInv, PartTypes
<1>5. \A v \in Runs : v # r => OfRun(v)' /\ (Provided(v)' => Keeps(dataDate[v])')
  BY <1>1, <1>2, <1>4 DEF OfRun, Provided, PartInv
<1>6. CASE CountPartitions(r)
  <2>1. /\ place[r] = "count" /\ place' = [place EXCEPT ![r] = "alter"]
        /\ found' = [found EXCEPT ![r] = AlreadyThere(dataDate[r])]
        /\ UNCHANGED <<dataDate, expired, checked>>
    BY <1>6 DEF CountPartitions, history
  <2>2. /\ place'[r] = "alter"
        /\ found'[r] = AlreadyThere(dataDate[r])
    BY <2>1 DEF PartInv, PartTypes
  <2>3. PartTypes'
    BY <1>1, <2>1 DEF PartInv, PartTypes
  <2>4. AlreadyThere(dataDate[r]) => Keeps(dataDate[r])
    BY DEF AlreadyThere, Keeps, PartInv, PartTypes
  <2>5. OfRun(r)' /\ (Provided(r)' => Keeps(dataDate[r])')
    BY <1>1, <1>2, <1>3, <2>1, <2>2, <2>4 DEF OfRun, Provided
  <2>6. QED BY <1>2, <1>5, <2>1, <2>3, <2>5 DEF PartInv
<1>7. CASE NothingToAdd(r)
  <2>1. /\ place[r] = "alter" /\ found[r] /\ place' = [place EXCEPT ![r] = "open"]
        /\ UNCHANGED <<dataDate, found, expired, checked>>
    BY <1>7 DEF NothingToAdd, history
  <2>2. PartTypes' /\ place'[r] = "open"
    BY <1>1, <2>1 DEF PartInv, PartTypes
  <2>3. OfRun(r)' /\ (Provided(r)' => Keeps(dataDate[r])')
    BY <1>1, <1>2, <1>3, <2>1, <2>2 DEF OfRun, Provided
  <2>4. QED BY <1>2, <1>5, <2>1, <2>2, <2>3 DEF PartInv
<1>8. CASE OpenCursor(r)
  <2>1. /\ place[r] = "open" /\ place' = [place EXCEPT ![r] = "fetch"]
        /\ expired' = [expired EXCEPT ![r] = Expired(dataDate[r])]
        /\ UNCHANGED <<dataDate, found, checked>>
    BY <1>8 DEF OpenCursor, history
  <2>2. Expired(dataDate[r]) \subseteq Int
    BY DEF Expired, PartInv, PartTypes
  <2>3. PartTypes' /\ place'[r] = "fetch" /\ expired'[r] = Expired(dataDate[r])
    BY <1>1, <2>1, <2>2 DEF PartInv, PartTypes
  <2>4. OfRun(r)' /\ (Provided(r)' => Keeps(dataDate[r])')
    BY <1>1, <1>2, <1>3, <2>1, <2>3 DEF OfRun, Provided, Expired
  <2>5. QED BY <1>2, <1>5, <2>1, <2>3, <2>4 DEF PartInv
<1>9. CASE CloseCursor(r) \/ Abort(r)
  <2>1. LeaveRun(r) /\ place[r] # "idle"
    BY <1>9 DEF CloseCursor, Abort
  <2>2. /\ place' = [place EXCEPT ![r] = "idle"]
        /\ dataDate' = [dataDate EXCEPT ![r] = NoDate]
        /\ found' = [found EXCEPT ![r] = FALSE]
        /\ expired' = [expired EXCEPT ![r] = {}]
    BY <2>1 DEF LeaveRun
  <2>3. checked' = checked \/ (checked' = checked \cup {dataDate[r]} /\ Provided(r))
    BY <1>9 DEF CloseCursor, Abort, Provided, history
  <2>4. checked' \subseteq Int
    <3>1. checked \subseteq Int /\ dataDate[r] \in Int
      BY DEF PartInv, PartTypes
    <3>2. QED BY <2>3, <3>1
  <2>5. PartTypes' /\ place'[r] = "idle" /\ expired'[r] = {}
    BY <1>1, <2>2, <2>4 DEF PartInv, PartTypes, NoDate
  <2>6. \A d \in checked' : Keeps(d)'
    BY <1>2, <1>3, <2>3 DEF PartInv
  <2>7. OfRun(r)' /\ ~Provided(r)'
    BY <2>5 DEF OfRun, Provided
  <2>8. QED BY <1>5, <2>5, <2>6, <2>7 DEF PartInv
<1>10. QED BY <1>6, <1>7, <1>8, <1>9

\* A partition is created, by itself or by splitting a later one.
LEMMA PartAdd ==
  ASSUME PartInv, NEW r \in Runs, AddPartition(r) \/ ReorganizePartition(r)
  PROVE  PartInv'
<1>1. /\ parts' = parts \cup {dataDate[r]}
      /\ place[r] = "alter" /\ place' = [place EXCEPT ![r] = "open"]
      /\ UNCHANGED <<kind, rows, dataDate, found, expired, latest, checked>>
  BY DEF AddPartition, ReorganizePartition, history
<1>2. PartTypes' /\ dataDate[r] \in Int
  BY <1>1 DEF PartInv, PartTypes
<1>3. \A d \in Int : Keeps(d) => Keeps(d)'
  BY <1>1, <1>2, KeepsKept DEF PartInv, PartTypes
<1>4. Keeps(dataDate[r])'
  BY <1>1, <1>2 DEF Keeps
<1>5. ASSUME NEW v \in Runs PROVE OfRun(v)' /\ (Provided(v)' => Keeps(dataDate[v])')
  <2>1. OfRun(v) /\ (Provided(v) => Keeps(dataDate[v]))
    BY DEF PartInv
  <2>2. dataDate[v] \in Int /\ place'[v] = IF v = r THEN "open" ELSE place[v]
    BY <1>1 DEF PartInv, PartTypes
  <2>3. OfRun(v)'
    BY <1>1, <2>1, <2>2 DEF OfRun
  <2>4. Provided(v)' => Keeps(dataDate[v])'
    BY <1>1, <1>3, <1>4, <2>1, <2>2 DEF Provided
  <2>5. QED BY <2>3, <2>4
<1>6. \A d \in checked' : Keeps(d)'
  BY <1>1, <1>3 DEF PartInv, PartTypes
<1>7. QED BY <1>2, <1>5, <1>6 DEF PartInv

\* A partition is dropped.
LEMMA PartDrop ==
  ASSUME PartInv, NEW r \in Runs, DropPartition(r)
  PROVE  PartInv'
<1>1. PICK p \in expired[r] :
        /\ parts' = parts \ {p}
        /\ rows' = {date \in rows : ~Holds(p, date)}
        /\ expired' = [expired EXCEPT ![r] = @ \ {p}]
  BY DEF DropPartition
<1>2. place[r] = "fetch" /\ UNCHANGED <<kind, place, dataDate, found, latest, checked>>
  BY DEF DropPartition, history
<1>3. PartTypes'
  BY <1>1, <1>2 DEF PartInv, PartTypes
<1>4. OfRun(r) /\ Keeps(dataDate[r])
  BY <1>2 DEF PartInv, Provided
<1>5. \A d \in Int : Keeps(d) => Keeps(d)'
  BY <1>1, <1>2, <1>4, KeepsDropped DEF PartInv
<1>6. ASSUME NEW v \in Runs PROVE OfRun(v)' /\ (Provided(v)' => Keeps(dataDate[v])')
  <2>1. OfRun(v) /\ (Provided(v) => Keeps(dataDate[v]))
    BY DEF PartInv
  <2>2. dataDate[v] \in Int /\ expired'[v] \subseteq expired[v]
    BY <1>1 DEF PartInv, PartTypes
  <2>3. OfRun(v)'
    BY <1>2, <2>1, <2>2 DEF OfRun
  <2>4. Provided(v)' => Keeps(dataDate[v])'
    BY <1>2, <1>5, <2>1, <2>2 DEF Provided
  <2>5. QED BY <2>3, <2>4
<1>7. \A d \in checked' : Keeps(d)'
  BY <1>2, <1>5 DEF PartInv, PartTypes
<1>8. QED BY <1>3, <1>6, <1>7 DEF PartInv

LEMMA PartInvariant == Spec => []PartInv
<1>1. PartInv /\ [Next]_vars => PartInv'
  <2> SUFFICES ASSUME PartInv, [Next]_vars PROVE PartInv'
    OBVIOUS
  <2>1. CASE UNCHANGED vars
    BY <2>1 DEF vars, tableVars, runVars, history, PartInv, PartTypes, OfRun, Provided, Keeps
  <2>2. CASE Next
    BY <2>2, PartInsert, PartCall, PartMove, PartAdd, PartDrop DEF Next, check_partitions
  <2>3. QED BY <2>1, <2>2
<1>2. QED BY <1>1, PartInit, PTL DEF Spec

-----------------------------------------------------------------------------
\* A run that is going on has a date of its own.
Typed == TypeOK /\ \A r \in Runs : place[r] # "idle" => dataDate[r] \in Periods

LEMMA TypedInit == Init => Typed
BY InitialAssumption DEF Init, Typed, TypeOK, NoDate

\* A run adds, splits or drops partitions.
LEMMA TypedAlter ==
  ASSUME Typed, NEW r \in Runs,
         AddPartition(r) \/ ReorganizePartition(r) \/ DropPartition(r)
  PROVE  Typed'
<1>1. CASE AddPartition(r) \/ ReorganizePartition(r)
  <2>1. /\ place[r] = "alter" /\ parts' = parts \cup {dataDate[r]}
        /\ place' = [place EXCEPT ![r] = "open"]
        /\ UNCHANGED <<kind, rows, dataDate, found, future, expired, latest, checked>>
    BY <1>1 DEF AddPartition, ReorganizePartition, history
  <2>2. dataDate[r] \in Periods
    BY <2>1 DEF Typed
  <2>3. QED BY <2>1, <2>2 DEF Typed, TypeOK
<1>2. CASE DropPartition(r)
  <2>1. PICK p \in expired[r] :
          /\ CanDrop(p) /\ parts' = parts \ {p}
          /\ rows' = {date \in rows : ~Holds(p, date)}
          /\ expired' = [expired EXCEPT ![r] = @ \ {p}]
    BY <1>2 DEF DropPartition
  <2>2. UNCHANGED <<kind, place, dataDate, found, future, latest, checked>>
    BY <1>2 DEF DropPartition, history
  <2>3. parts' # {} /\ parts' \subseteq Initial \cup Periods /\ rows' \subseteq LogDates
    BY <2>1 DEF CanDrop, Typed, TypeOK
  <2>4. expired' \in [Runs -> SUBSET (Initial \cup Periods)]
    BY <2>1 DEF Typed, TypeOK
  <2>5. QED BY <2>2, <2>3, <2>4 DEF Typed, TypeOK
<1>3. QED BY <1>1, <1>2

\* A run looks for partitions or for those that have expired, or goes on.
LEMMA TypedLook ==
  ASSUME Typed, NEW r \in Runs,
         CountPartitions(r) \/ NothingToAdd(r) \/ OpenCursor(r)
  PROVE  Typed'
<1>1. CASE CountPartitions(r)
  <2>1. /\ place[r] = "count" /\ place' = [place EXCEPT ![r] = "alter"]
        /\ UNCHANGED <<kind, parts, rows, dataDate, expired, latest, checked>>
    BY <1>1 DEF CountPartitions, tableVars, history
  <2>2. found' = [found EXCEPT ![r] = AlreadyThere(dataDate[r])]
    BY <1>1 DEF CountPartitions
  <2>3. AlreadyThere(dataDate[r]) \in BOOLEAN
    <3>1. (\E p \in parts : p >= dataDate[r]) \in BOOLEAN
      OBVIOUS
    <3>2. (dataDate[r] \in parts) \in BOOLEAN
      OBVIOUS
    <3>3. CASE kind = "M"
      BY <3>1, <3>3, Zenon DEF AlreadyThere
    <3>4. CASE kind # "M"
      BY <3>2, <3>4, Zenon DEF AlreadyThere
    <3>5. QED BY <3>3, <3>4
  <2>4. found' \in [Runs -> BOOLEAN]
    <3>1. PICK there \in BOOLEAN : there = AlreadyThere(dataDate[r])
      BY <2>3, Zenon
    <3>2. found' = [found EXCEPT ![r] = there] /\ found \in [Runs -> BOOLEAN]
      BY <2>2, <3>1, Zenon DEF Typed, TypeOK
    <3>3. QED BY <3>2, Zenon
  <2>5. PICK set \in SUBSET parts : future' = [future EXCEPT ![r] = set]
    BY <1>1 DEF CountPartitions, FuturePartition
  <2>6. set \in SUBSET (Initial \cup Periods)
    BY <2>5 DEF Typed, TypeOK
  <2>7. future' \in [Runs -> SUBSET (Initial \cup Periods)]
    BY <2>5, <2>6 DEF Typed, TypeOK
  <2>8. QED BY <2>1, <2>4, <2>7 DEF Typed, TypeOK
<1>2. CASE NothingToAdd(r)
  BY <1>2 DEF NothingToAdd, tableVars, history, Typed, TypeOK
<1>3. CASE OpenCursor(r)
  <2>1. /\ place[r] = "open" /\ place' = [place EXCEPT ![r] = "fetch"]
        /\ expired' = [expired EXCEPT ![r] = Expired(dataDate[r])]
        /\ UNCHANGED <<kind, parts, rows, dataDate, found, future, latest, checked>>
    BY <1>3 DEF OpenCursor, tableVars, history
  <2>2. Expired(dataDate[r]) \in SUBSET (Initial \cup Periods)
    BY DEF Expired, Typed, TypeOK
  <2>3. QED BY <2>1, <2>2 DEF Typed, TypeOK
<1>4. QED BY <1>1, <1>2, <1>3

\* A run begins or ends.
LEMMA TypedCall ==
  ASSUME Typed, NEW r \in Runs, Call(r) \/ CloseCursor(r) \/ Abort(r)
  PROVE  Typed'
<1>1. CASE Call(r)
  <2>1. PICK date \in Periods :
          /\ dataDate' = [dataDate EXCEPT ![r] = date]
          /\ latest' = IF date > latest THEN date ELSE latest
    BY <1>1 DEF Call
  <2>2. /\ place' = [place EXCEPT ![r] = "count"]
        /\ UNCHANGED <<kind, parts, rows, found, future, expired, checked>>
    BY <1>1 DEF Call, tableVars
  <2>3. latest' \in Periods \cup {NoDate}
    BY <2>1 DEF Typed, TypeOK
  <2>4. QED BY <2>1, <2>2, <2>3 DEF Typed, TypeOK
<1>2. CASE CloseCursor(r) \/ Abort(r)
  <2>1. checked' \subseteq Periods /\ latest' = latest
    BY <1>2 DEF CloseCursor, Abort, history, Typed, TypeOK
  <2>2. /\ place' = [place EXCEPT ![r] = "idle"]
        /\ dataDate' = [dataDate EXCEPT ![r] = NoDate]
        /\ found' = [found EXCEPT ![r] = FALSE]
        /\ future' = [future EXCEPT ![r] = {}]
        /\ expired' = [expired EXCEPT ![r] = {}]
        /\ UNCHANGED <<kind, parts, rows>>
    BY <1>2 DEF CloseCursor, Abort, LeaveRun, tableVars
  <2>3. QED BY <2>1, <2>2 DEF Typed, TypeOK
<1>3. QED BY <1>1, <1>2

(***************************************************************************)
(* The partitions are those the table began with and those of the runs'    *)
(* dates, one of them is always left, and every other variable keeps its   *)
(* type.                                                                   *)
(***************************************************************************)
THEOREM TypeCorrect == Spec => []TypeOK
<1>1. Typed /\ [Next]_vars => Typed'
  <2> SUFFICES ASSUME Typed, [Next]_vars PROVE Typed'
    OBVIOUS
  <2>1. CASE UNCHANGED vars
    BY <2>1 DEF vars, tableVars, runVars, history, Typed, TypeOK
  <2>2. ASSUME NEW date \in LogDates, Insert(date) PROVE Typed'
    BY <2>2 DEF Insert, runVars, history, Typed, TypeOK
  <2>3. CASE Next
    BY <2>2, <2>3, TypedAlter, TypedLook, TypedCall DEF Next, check_partitions
  <2>4. QED BY <2>1, <2>3
<1>2. Typed => TypeOK
  BY DEF Typed
<1>3. QED BY <1>1, <1>2, TypedInit, PTL DEF Spec

-----------------------------------------------------------------------------
(***************************************************************************)
(* Every date up to the latest that a finished run was called with has a   *)
(* partition: check_monthly_partitions and check_daily_partitions never    *)
(* drop the one that is needed, overlapping or aborted.                    *)
(***************************************************************************)
THEOREM ChecksProvide == Spec => []CheckedDatesAccepted
<1>1. PartInv => CheckedDatesAccepted
  BY DEF PartInv, Keeps, CheckedDatesAccepted, Accepts
<1>2. QED BY <1>1, PartInvariant, PTL

(***************************************************************************)
(* By days, a checked date has a partition of its own until it expires.    *)
(***************************************************************************)
THEOREM DaysKeepTheirOwn == Spec => []OwnPartition
<1>1. PartInv => OwnPartition
  BY DEF PartInv, Keeps, OwnPartition
<1>2. QED BY <1>1, PartInvariant, PTL

(***************************************************************************)
(* A log leaves the table only with a partition that has expired for some  *)
(* run, and the log is no younger than the partition it lies in.           *)
(***************************************************************************)
THEOREM OnlyTheOldGo == Spec => OnlyExpiredDropped
<1>1. ASSUME PartInv, [Next]_vars, NEW date \in rows \ rows'
      PROVE  date < latest - MaxCount
  <2>1. PICK r \in Runs : DropPartition(r)
    BY <1>1 DEF vars, Next, Insert, Call, check_partitions, CountPartitions, AddPartition,
      ReorganizePartition, NothingToAdd, OpenCursor, CloseCursor, Abort, LeaveRun, tableVars
  <2>2. PICK p \in expired[r] : rows' = {d \in rows : ~Holds(p, d)}
    BY <2>1 DEF DropPartition
  <2>3. date <= p
    BY <1>1, <2>2 DEF Holds
  <2>4. place[r] = "fetch"
    BY <2>1 DEF DropPartition
  <2>5. p < dataDate[r] - MaxCount /\ dataDate[r] <= latest
    BY <1>1, <2>4 DEF PartInv, OfRun
  <2>6. p \in Int /\ date \in Int /\ dataDate[r] \in Int /\ latest \in Int
    BY <1>1 DEF PartInv, PartTypes
  <2>7. QED BY <2>3, <2>5, <2>6, MaxCountAssumption
<1>2. PartInv /\ [Next]_vars => [\A date \in rows \ rows' : date < latest - MaxCount]_vars
  BY <1>1
<1>3. QED BY <1>2, PartInvariant, PTL DEF Spec, OnlyExpiredDropped
=============================================================================
