SPECIFICATION Spec
CONSTANTS
    a1 = a1
    a2 = a2
    p1 = p1
    p2 = p2
    p3 = p3
    px = px
    dft = dft
    own = own
    Actor = {a1}
    Publish = {p1}
    Scope <- MCScope
    Default = dft
    Operates <- MCOperates
    KindOf <- MCKindOf
    Version <- MCVersion
    NoVersion = NoVersion
    InitialVersion = "v0"
    Registered <- MCRegistered
    ScopeOf <- MCScopeOf
    TargetOf <- MCTargetOf
    GateMayBlock = {}
    MaxCrashes = 1
INVARIANT HalfCommitReported
