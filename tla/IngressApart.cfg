SPECIFICATION Spec
CONSTANTS
  c1 = c1
  c2 = c2
  a1 = a1
  e1 = e1
  t1 = t1
  t2 = t2
  w1 = w1
  None = None
  Torn = Torn
  Messages <- AllMessages
  Chats <- ChatSet
  Echoes <- EchoSet
  Histories <- HistorySet
  Deployments <- Separate
  Threads = {t1, t2}
  Workers = {w1}
  PageSize = 3
  MaxCalls <- CallBound
  MaxRestarts = 2
  MaxSeconds = 2
INVARIANTS
  IngressTypeOK
  HandledInOrder
  WatermarkCovers
  NoFalseDuplicate
  TaskTruthful
PROPERTIES
  EventuallyHandled
  EventuallyClosed
CHECK_DEADLOCK FALSE
