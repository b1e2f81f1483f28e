SPECIFICATION Spec
CONSTANTS
  d1 = d1
  d2 = d2
  Crews <- OneOrTwo
  Faults <- FaultPoints
  MaxExec = 2
  MaxVersion = 2
  MaxCrashes = 1
INVARIANTS
  DispatchTypeOK
  RunsOnlyApproved
  RunsItsHandoff
  HonestFiles
  FilesInStep
PROPERTY
  EventuallyRecorded
CHECK_DEADLOCK FALSE
