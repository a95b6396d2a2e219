SPECIFICATION FairPageSpec
CONSTANTS
  Hosts = {h1, h2}
  Programs = {p1}
  MaxTerminals = 4
INVARIANTS
  LiveSocketAsksForSelection
  NoOlderLogs
PROPERTY PageSettles
CHECK_DEADLOCK FALSE
