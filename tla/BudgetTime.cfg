\* Active time: three overlapping owners, a call each.
CONSTANTS
    Owners = {o1, o2, o3}
    MaxTurns = 2
    MaxTokens = 3
    MaxQueries = 1
    MaxPackages = 1
    Timeout = 2
    ActiveTiming = TRUE
    Caps = {1}
    Reports = {}
    Replays = {FALSE}
    MaxCalls = 1
    MaxClock = 3
    MaxDirect = 0
SYMMETRY Symmetry
SPECIFICATION BudgetSpec
CHECK_DEADLOCK FALSE
INVARIANTS LedgerValid
PROPERTY AppendOnly
