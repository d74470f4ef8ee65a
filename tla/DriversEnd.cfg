SPECIFICATION FairSpec
CONSTANTS
    N = 3
    Deps <- MCDeps
    Propagating = {1, 2, 3}
    Live = {}
    TargetFree = {}
    Metadata = {}
    Split = 0
    Graphs = {g1}
    Dispatches = {d1}
    Launches = {l1}
    Container = {}
    Forces = {2}
    Qualities = {"clean"}
    Changes = {}
    MaxAttempt = 3
    MaxTarget = 1
    MaxRelease = 0
    MaxRepair = 0
    Faults = FALSE
    Free = Free
PROPERTY
    DriversEnd
CHECK_DEADLOCK FALSE
