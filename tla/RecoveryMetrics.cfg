SPECIFICATION RecSpec
CONSTANTS
    NoEvent = NoEvent
    Failure <- MCFailure
    Policy <- MCPolicy
    OtherEvent <- MCOther
    ToolEvent <- MCTool
    Event <- MCEvent
    WellFormed <- MCWellFormed
    IdOf <- MCIdOf
    KeyOf <- MCIdOf
    Caller = {em, rp}
    Emitter = {em}
    Replayer = {rp}
    MaxFaults = 2
    MaxLines = 5
    MaxRecords = 1
    MaxReplay = 2
INVARIANT RecTypeOK
INVARIANT IndexBacked
INVARIANT AnswersTrue
INVARIANT ReplayedIsLogged
INVARIANT AbandonedForCause
INVARIANT CountedOnce
INVARIANT NotAllMissing
PROPERTY SettledStaysSettled
