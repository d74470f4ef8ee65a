\* Two packages compete for one team slot; a cell retries, and
\* the clock reaches the timeout.
CONSTANTS
    Cells = {c1, c2}
    Packages = {c1, c2}
    PackageOf <- MCOwnPackage
    Owners <- MCOwners
    Settings <- MCTimed
    Cap = 2
    MaxRuns = 1
    MaxTurns = 3
    MaxTokens = 6
    MaxQueries = 2
    MaxPackages = 2
    Timeout = 1
    ActiveTiming = TRUE
    Caps = {2}
    Reports = {1}
    Replays = {FALSE}
    MaxCalls = 2
    MaxClock = 1
    MaxDirect = 2
SPECIFICATION FairSpec
CHECK_DEADLOCK FALSE
PROPERTIES TeamsEnd ReservationsSettle
