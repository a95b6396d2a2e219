SPECIFICATION Spec
CONSTANTS
  Heights = {2, 3}
  MaxRows = 5
  MaxEvents = 4
  Limited = TRUE
INVARIANTS
  TerminalShown
  FollowsLogs
PROPERTIES
  SelectionUndisturbed
CHECK_DEADLOCK FALSE
