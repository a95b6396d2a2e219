----------------------------- MODULE Partitions -----------------------------
(***************************************************************************)
(* The partitions of a table of logs, by month or by day, and the          *)
(* procedures check_monthly_partitions and check_daily_partitions that add *)
(* the partition of a date and drop the expired ones. The event scheduler  *)
(* starts a run every day or every four hours, whether or not the one      *)
(* before has ended, and the migrations call the procedures too.           *)
(*                                                                         *)
(* A date is represented by the month, or the day, it lies in, numbered    *)
(* one after the other: YYYYMM with the carry of December is the successor *)
(* here, and a partition by the period it is named after: its values are   *)
(* less than the successor. A run's date comes from the server's clock,    *)
(* which may have stood still, or been put right, since the run before.    *)
(***************************************************************************)
EXTENDS Integers

CONSTANTS
  Periods,   \* the months or days in which runs take place
  LogDates,  \* those the logs are dated in
  Initial,   \* the periods the table is created with a partition for
  MaxCount,  \* i_max_partitions_count
  Runs       \* sessions that call the procedure

ASSUME PeriodsAssumption == Periods \subseteq Nat \ {0} /\ LogDates \subseteq Int
ASSUME InitialAssumption == Initial \subseteq Int /\ Initial # {}
ASSUME MaxCountAssumption == MaxCount \in Nat

VARIABLES
  kind,      \* "M" or "D"; never changes
  parts,     \* the partitions
  rows,      \* the dates of the logs in the table
  place,     \* where each run is
  dataDate,  \* its i_data_date
  found,     \* v_av_partitions_count is not 0
  future,    \* v_future_partition, if there is one
  expired,   \* what its cursor has still to fetch
  latest,    \* history: the latest date of a run
  checked    \* history: the dates of the runs that ended well

tableVars == <<parts, rows>>
runVars   == <<place, dataDate, found, future, expired>>
history   == <<latest, checked>>
vars      == <<kind, tableVars, runVars, history>>

NoDate == 0

Init ==
  /\ kind \in {"M", "D"}
  /\ parts = Initial
  /\ rows = {}
  /\ place = [r \in Runs |-> "idle"]
  /\ dataDate = [r \in Runs |-> NoDate]
  /\ found = [r \in Runs |-> FALSE]
  /\ future = [r \in Runs |-> {}]
  /\ expired = [r \in Runs |-> {}]
  /\ latest = NoDate
  /\ checked = {}

-----------------------------------------------------------------------------
(* What the database does with a range-partitioned table *)

Accepts(date) == \E p \in parts : date <= p

\* A row lies in the first partition that accepts its date.
Holds(p, date) == date <= p /\ \A q \in parts : date <= q => p <= q

CanAdd(p) == \A q \in parts : q < p

\* The new partition has to begin where the one that is split begins, and to end before it.
CanReorganize(p, new) ==
  /\ p \in parts
  /\ new < p
  /\ \A q \in parts \ {p} : ~(new <= q /\ q < p)

CanDrop(p) == p \in parts /\ parts # {p}

Insert(date) ==
  /\ Accepts(date)
  /\ rows' = rows \cup {date}
  /\ UNCHANGED <<kind, parts, runVars, history>>

-----------------------------------------------------------------------------
(* The procedures *)

Call(r) ==
  /\ place[r] = "idle"
  /\ \E date \in Periods :
       /\ dataDate' = [dataDate EXCEPT ![r] = date]
       /\ latest' = IF date > latest THEN date ELSE latest
  /\ place' = [place EXCEPT ![r] = "count"]
  /\ UNCHANGED <<kind, tableVars, found, future, expired, checked>>

\* Mutant: one period too early.
AlreadyThere_Early(date) ==
  IF kind = "M" THEN \E p \in parts : p >= date - 1 ELSE date \in parts

\* By months one of a later month will do, by days only the one of the date itself.
AlreadyThere(date) ==
  IF kind = "M" THEN \E p \in parts : p >= date
                ELSE date \in parts

\* The first partition of a later date, if any.
FuturePartition(date) == {p \in parts : p > date /\ \A q \in parts : q > date => p <= q}

CountPartitions(r) ==
  /\ place[r] = "count"
  /\ found' = [found EXCEPT ![r] = AlreadyThere(dataDate[r])]
  /\ future' = [future EXCEPT ![r] =
                  IF kind = "D" THEN FuturePartition(dataDate[r]) ELSE {}]
  /\ place' = [place EXCEPT ![r] = "alter"]
  /\ UNCHANGED <<kind, tableVars, dataDate, expired, history>>

AddPartition(r) ==
  /\ place[r] = "alter" /\ ~found[r] /\ future[r] = {}
  /\ CanAdd(dataDate[r])
  /\ parts' = parts \cup {dataDate[r]}
  /\ place' = [place EXCEPT ![r] = "open"]
  /\ UNCHANGED <<kind, rows, dataDate, found, future, expired, history>>

\* Mutant: the later partition is taken to hold the date, as it does by months.
ReorganizePartition_Not(r) ==
  /\ place[r] = "alter" /\ ~found[r] /\ future[r] # {}
  /\ place' = [place EXCEPT ![r] = "open"]
  /\ UNCHANGED <<kind, tableVars, dataDate, found, future, expired, history>>

ReorganizePartition(r) ==
  /\ place[r] = "alter" /\ ~found[r] /\ future[r] # {}
  /\ \A p \in future[r] : CanReorganize(p, dataDate[r])
  /\ parts' = parts \cup {dataDate[r]}
  /\ place' = [place EXCEPT ![r] = "open"]
  /\ UNCHANGED <<kind, rows, dataDate, found, future, expired, history>>

NothingToAdd(r) ==
  /\ place[r] = "alter" /\ found[r]
  /\ place' = [place EXCEPT ![r] = "open"]
  /\ UNCHANGED <<kind, tableVars, dataDate, found, future, expired, history>>

\* Mutant: one period too many.
Expired_TooMany(date) == {p \in parts : p <= date - MaxCount}

Expired(date) == {p \in parts : p < date - MaxCount}

OpenCursor(r) ==
  /\ place[r] = "open"
  /\ expired' = [expired EXCEPT ![r] = Expired(dataDate[r])]
  /\ place' = [place EXCEPT ![r] = "fetch"]
  /\ UNCHANGED <<kind, tableVars, dataDate, found, future, history>>

\* What is dropped is the partition that has the name now, with all that lies in it now.
DropPartition(r) ==
  /\ place[r] = "fetch"
  /\ \E p \in expired[r] :
       /\ CanDrop(p)
       /\ parts' = parts \ {p}
       /\ rows' = {date \in rows : ~Holds(p, date)}
       /\ expired' = [expired EXCEPT ![r] = @ \ {p}]
  /\ UNCHANGED <<kind, place, dataDate, found, future, history>>

LeaveRun(r) ==
  /\ place' = [place EXCEPT ![r] = "idle"]
  /\ dataDate' = [dataDate EXCEPT ![r] = NoDate]
  /\ found' = [found EXCEPT ![r] = FALSE]
  /\ future' = [future EXCEPT ![r] = {}]
  /\ expired' = [expired EXCEPT ![r] = {}]
  /\ UNCHANGED <<kind, tableVars>>

CloseCursor(r) ==
  /\ place[r] = "fetch" /\ expired[r] = {}
  /\ checked' = checked \cup {dataDate[r]}
  /\ LeaveRun(r)
  /\ UNCHANGED latest

\* A refused ALTER TABLE, a lost connection or a restart: the statements done stay done.
Abort(r) ==
  /\ place[r] # "idle"
  /\ LeaveRun(r)
  /\ UNCHANGED history

check_partitions(r) ==
  \/ CountPartitions(r)
  \/ AddPartition(r) \/ ReorganizePartition(r) \/ NothingToAdd(r)
  \/ OpenCursor(r) \/ DropPartition(r) \/ CloseCursor(r)

Next ==
  \/ \E date \in LogDates : Insert(date)
  \/ \E r \in Runs : Call(r) \/ check_partitions(r) \/ Abort(r)

Spec == Init /\ [][Next]_vars

-----------------------------------------------------------------------------
(* Properties *)

TypeOK ==
  /\ kind \in {"M", "D"}
  /\ parts \subseteq Initial \cup Periods /\ parts # {}
  /\ rows \subseteq LogDates
  /\ place \in [Runs -> {"idle", "count", "alter", "open", "fetch"}]
  /\ dataDate \in [Runs -> Periods \cup {NoDate}]
  /\ found \in [Runs -> BOOLEAN]
  /\ future \in [Runs -> SUBSET (Initial \cup Periods)]
  /\ expired \in [Runs -> SUBSET (Initial \cup Periods)]
  /\ latest \in Periods \cup {NoDate} /\ checked \subseteq Periods

(***************************************************************************)
(* A table goes on accepting the logs of every date up to the latest one   *)
(* it was checked for, whatever runs at the same time, in whatever order   *)
(* of dates, and whichever run is aborted.                                 *)
(***************************************************************************)
CheckedDatesAccepted == \A date \in checked : Accepts(date)

(***************************************************************************)
(* No log is dropped before its time: one that goes is older than MaxCount *)
(* periods before the date of some run, also when it lay in a partition of *)
(* a later period than its own.                                            *)
(***************************************************************************)
OnlyExpiredDropped ==
  [][\A date \in rows \ rows' : date < latest - MaxCount]_vars

(***************************************************************************)
(* By days, a checked date keeps a partition of its own until it expires,  *)
(* also if later partitions had been created before it.                    *)
(***************************************************************************)
OwnPartition ==
  kind = "D" =>
    \A date \in checked :
      date \in parts \/ date < latest - MaxCount
=============================================================================
