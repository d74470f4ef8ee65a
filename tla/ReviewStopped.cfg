\* First-error safety: the failure of one cell, or an operator, stops the other
\* at any point of its call; the provider may report an overrun.
CONSTANTS
    Cells = {c1, c2}
    Packages = {c1, c2}
    PackageOf <- MCOwnPackage
    Owners <- MCOwners
    Settings <- MCStopped
    Cap = 2
    MaxRuns = 1
    MaxTurns = 3
    MaxTokens = 5
    MaxQueries = 2
    MaxPackages = 4
    Timeout = 1
    ActiveTiming = TRUE
    Caps = {2}
    Reports = {1, 3}
    Replays = {FALSE}
    MaxCalls = 2
    MaxClock = 1
    MaxDirect = 2
SYMMETRY Symmetry
SPECIFICATION Spec
CHECK_DEADLOCK FALSE
INVARIANTS TypeOK SpendCovered EndedIsClosed
