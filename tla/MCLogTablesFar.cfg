SPECIFICATION PersistentSpec
CONSTANTS
  h1 = h1  h2 = h2  a1 = a1  a2 = a2  farB = farB  far = far  nobodys = nobodys
  Hosts = {h1, h2}
  Logs = {a1, far}
  HostOf <- HostOfLog
  NoHost = NoHost
  Unpartitioned = {far}
  Batches <- WithFarLog
  HostLists <- Forms
  Writers = {w1}
  Operators = {o1}
  NoLog = NoLog
  NoBatch = NoBatch
PROPERTY KnownHostsProcessed
CHECK_DEADLOCK FALSE
