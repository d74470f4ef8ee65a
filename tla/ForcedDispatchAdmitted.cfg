SPECIFICATION Spec
CONSTANTS
    N = 3
    Deps <- MCDeps
    Propagating = {1, 2, 3}
    Live = {}
    TargetFree = {}
    Metadata = {}
    Split = 0
    Graphs = {g1}
    Dispatches = {d1}
    Launches = {}
    Container = {}
    Forces = {0, 2}
    Qualities = {"clean"}
    Changes = {}
    MaxAttempt = 2
    MaxTarget = 1
    MaxRelease = 0
    MaxRepair = 0
    Faults = FALSE
    Free = Free
INVARIANT
    ForcedDispatchAdmitted
CHECK_DEADLOCK FALSE
