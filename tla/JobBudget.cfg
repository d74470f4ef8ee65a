\* Spending: three owners with a call each, in a wall-clock budget whose ceilings
\* two calls reach.
CONSTANTS
    Owners = {o1, o2, o3}
    MaxTurns = 2
    MaxTokens = 4
    MaxQueries = 1
    MaxPackages = 1
    Timeout = 1
    ActiveTiming = FALSE
    Caps = {2}
    Reports = {1, 3}
    Replays = {TRUE, FALSE}
    MaxCalls = 1
    MaxClock = 1
    MaxDirect = 1
SYMMETRY Symmetry
SPECIFICATION BudgetSpec
CHECK_DEADLOCK FALSE
INVARIANTS BudgetTypeOK LaunchBound ExhaustedIsActual
PROPERTY AppendOnly
