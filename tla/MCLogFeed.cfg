SPECIFICATION Spec
CONSTANTS
  h1 = h1  h2 = h2  p1 = p1  p2 = p2
  a1 = a1  a2 = a2  a3 = a3  c1 = c1  null = null
  Hosts = {h1, h2}
  Programs = {p1, p2}
  Logs = {a1, c1}
  StreamOf <- StreamOfLog
  NoLog = NoLog
  NoStream = NoStream
  NoStorage = NoStorage
  NoSession = NoSession
  Capacity = 1
  Sessions = {s1, s2}
  Threads = {t1}
  ClientRequests <- Followers
  MaxRequests = 1
INVARIANTS
  LiveOnlyAfterSnapshot
  NoSubscriberStarved
PROPERTY RemovedForGood
SYMMETRY Symmetry
CHECK_DEADLOCK FALSE
