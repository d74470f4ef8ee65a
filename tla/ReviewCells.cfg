\* Two packages of one cell each compete for the budget, in three settings.
CONSTANTS
    Cells = {c1, c2}
    Packages = {c1, c2}
    PackageOf <- MCOwnPackage
    Owners <- MCOwners
    Settings <- MCSettings
    Cap = 2
    MaxRuns = 2
    MaxTurns = 3
    MaxTokens = 5
    MaxQueries = 2
    MaxPackages = 4
    Timeout = 1
    ActiveTiming = TRUE
    Caps = {2}
    Reports = {2}
    Replays = {FALSE}
    MaxCalls = 2
    MaxClock = 1
    MaxDirect = 2
SYMMETRY Symmetry
SPECIFICATION Spec
CHECK_DEADLOCK FALSE
INVARIANTS SpendCovered LaunchBound LedgerValid
PROPERTY NotPaidAgain
