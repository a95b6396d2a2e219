SPECIFICATION Spec
CONSTANTS
  h1 = h1  h2 = h2  a1 = a1  a2 = a2  farB = farB  far = far  nobodys = nobodys
  Hosts = {h1, h2}
  Logs = {a1, a2, farB, nobodys}
  HostOf <- HostOfLog
  NoHost = NoHost
  Unpartitioned = {farB}
  Batches <- Calls
  HostLists <- Forms
  Writers = {w1, w2}
  Operators = {o1, o2}
  NoLog = NoLog
  NoBatch = NoBatch
INVARIANTS
  KeptOnce
  LogsHaveHosts
PROPERTIES
  AllMoved
  FormsAddedWhole
SYMMETRY Symmetry
CHECK_DEADLOCK FALSE
