SPECIFICATION Spec
CONSTANTS
    bv = bv
    bx = bx
    Brief <- MCBrief
    Valid <- MCValid
    Approval <- MCApproval
    OwnerAction <- MCAction
    Decision = {"approved"}
    NoFile = NoFile
    MaxDay = 0
    MaxHandoffs = 2
    MaxProcs = 1
    MaxCalls = 2
INVARIANT StopsOnMismatch
CHECK_DEADLOCK FALSE
