SPECIFICATION FairSpec
CONSTANTS
  Payloads = {d1, d2}
  NoPayload = NoPayload
  QueueCapacity = 2
  MaxDatagrams = 4
INVARIANTS
  HandledInOrder
  AtMostOneAfterStop
PROPERTIES
  AcceptedIsHandled
  StopReturns
  AcceptorLeaves
CHECK_DEADLOCK FALSE
