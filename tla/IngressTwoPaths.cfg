SPECIFICATION Spec
CONSTANTS
  c1 = c1
  c2 = c2
  a1 = a1
  e1 = e1
  t1 = t1
  t2 = t2
  w1 = w1
  None = None
  Torn = Torn
  Messages <- AllMessages
  Chats <- ChatSet
  Echoes <- EchoSet
  Histories <- HistorySet
  Deployments <- Together
  Threads = {t1}
  Workers = {w1}
  PageSize = 3
  MaxCalls <- CallBound
  MaxRestarts = 0
  MaxSeconds = 1
INVARIANT
  NotReExecuted
CHECK_DEADLOCK FALSE
