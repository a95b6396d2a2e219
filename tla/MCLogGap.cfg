SPECIFICATION Spec
CONSTANTS
  h1 = h1  h2 = h2  p1 = p1  p2 = p2
  a1 = a1  a2 = a2  a3 = a3  c1 = c1  null = null
  Hosts = {h1, h2}
  Programs = {p1, p2}
  Logs = {a1, null}
  StreamOf <- StreamOfLog
  NoLog = NoLog
  NoStream = NoStream
  NoStorage = NoStorage
  NoSession = NoSession
  Capacity = 1
  Sessions = {s1}
  Threads = {t1}
  ClientRequests <- OneHost
  MaxRequests = 1
INVARIANT NothingMissed
CHECK_DEADLOCK FALSE
