SPECIFICATION Spec
CONSTANTS
    Procs = {p1, p2}
    MaxAttempt = 2
    Values = {v1, v2}
    MaxFaults = 1
    NoValue = NoValue
INVARIANT
    LookupNeverRefused
CHECK_DEADLOCK FALSE
