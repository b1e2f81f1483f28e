SPECIFICATION DegSpec
CONSTANTS
    e1 = e1
    bad = bad
    NoEvent = NoEvent
    Event <- MCEvent
    WellFormed <- MCWellFormed
    IdOf <- MCIdOf
    KeyOf <- MCKeyOf
    Caller = {em, rp}
    Emitter = {em}
    Replayer = {rp}
    MaxFaults = 0
    MaxLines = 2
    MaxRecords = 2
    MaxReplay = 2
INVARIANT RecordsKept
