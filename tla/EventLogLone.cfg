SPECIFICATION Spec
CONSTANTS
    e1 = e1
    e2 = e2
    e3 = e3
    e4 = e4
    bad = bad
    NoEvent = NoEvent
    Event <- MCEvent
    WellFormed <- MCWellFormed
    IdOf <- MCIdOf
    KeyOf <- MCKeyOf
    Caller = {w1}
    MaxFaults = 2
    MaxLines = 4
INVARIANT OneCopyPerFault
PROPERTY ImplementsLedger
