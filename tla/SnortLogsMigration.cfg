SPECIFICATION Spec
CONSTANTS
  MaxCopied = 6
  CopyCount = 2
  OldCount = 3
  LastId = 5
  Writers = {w1, w2}
  Missing = Missing
INVARIANTS
  CaughtUp
  OlderOnce
PROPERTY NothingLost
