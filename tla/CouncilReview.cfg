SPECIFICATION Spec
CONSTANTS
    plan = plan
    handoff = handoff
    ask = ask
    apply = apply
    NoArtifact = NoArtifact
    NoFile = NoFile
    NoSuggestion = NoSuggestion
    Blocked = Blocked
    NoJob = NoJob
    Thread = {ask, apply}
    Applier = {apply}
    Budget <- MCBudget
    Artifact = {plan, handoff}
    Handoff = {handoff}
    Linked = {handoff}
    Aliased = {}
    Start <- MCStart
    Message <- MCMessage
    CliRequest <- MCCliRequest
INVARIANT CouncilTypeOK
INVARIANT FilesCoherent
INVARIANT VerdictFromOwner
INVARIANT AppliedReceiptBacked
PROPERTY ImplementsLifecycle
CHECK_DEADLOCK FALSE
