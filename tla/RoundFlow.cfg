SPECIFICATION Spec
CONSTANTS
    bv = bv
    bx = bx
    Brief <- MCBrief
    Valid <- MCValid
    Approval <- MCApproval
    OwnerAction <- MCAction
    Decision = {"approved"}
    NoFile = NoFile
    MaxDay = 1
    MaxHandoffs = 2
    MaxProcs = 2
    MaxCalls = 2
INVARIANT RoundTypeOK
INVARIANT ApprovedRuns
INVARIANT ReviewReadyIsCurrent
INVARIANT PrepAfterEnd
INVARIANT ClosedRoundTrue
PROPERTY HandoffIdsFresh
CHECK_DEADLOCK FALSE
