SPECIFICATION Spec
CONSTANTS
    plan = plan
    handoff = handoff
    ask = ask
    apply = apply
    NoArtifact = NoArtifact
    NoFile = NoFile
    NoSuggestion = NoSuggestion
    Blocked = Blocked
    NoJob = NoJob
    Thread = {ask, apply}
    Applier = {ask, apply}
    Budget <- MCBudget
    Artifact = {plan, handoff}
    Handoff = {handoff}
    Linked = {}
    Aliased = {}
    Start <- MCReady
    Message <- MCVerdict
    CliRequest = {}
PROPERTY RejectionIsFinal
CHECK_DEADLOCK FALSE
