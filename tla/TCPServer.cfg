SPECIFICATION FairSpec
CONSTANTS
  Clients = {c1, c2}
  NoClient = NoClient
  PoolSize = 1
  MaxEvents = 2
INVARIANTS
  OneOwner
  InitTellsTheTruth
PROPERTIES
  LeaverReleased
  Served
  AcceptorLeaves
CHECK_DEADLOCK FALSE
