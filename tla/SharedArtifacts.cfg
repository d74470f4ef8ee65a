SPECIFICATION Spec
CONSTANTS
    Procs = {p1, p2}
    MaxAttempt = 3
    Values = {v1, v2}
    MaxFaults = 2
    NoValue = NoValue
SYMMETRY Symmetry
INVARIANTS
    ReceiptsGrounded
    OneAnswer
    ComputedIsListed
CHECK_DEADLOCK FALSE
