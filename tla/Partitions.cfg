SPECIFICATION Spec
CONSTANTS
  Periods = {1, 2, 3, 4}
  LogDates = {1, 3}
  Initial = {1}
  MaxCount = 1
  Runs = {r1, r2}
INVARIANTS
  CheckedDatesAccepted
  OwnPartition
PROPERTY OnlyExpiredDropped
