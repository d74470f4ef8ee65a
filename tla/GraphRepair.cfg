SPECIFICATION Spec
CONSTANTS
    N = 2
    Deps <- MCPairDeps
    Propagating = {2}
    Live = {1}
    TargetFree = {1}
    Metadata = {1}
    Split = 1
    Graphs = {g1}
    Dispatches = {d1}
    Launches = {l1}
    Container = {l1}
    Forces = {0}
    Qualities = {"clean"}
    Changes = {{2}}
    MaxAttempt = 2
    MaxTarget = 1
    MaxRelease = 1
    MaxRepair = 1
    Faults = TRUE
    Free = Free
INVARIANTS
    RepairHonoured
    WorkersCurrent
CHECK_DEADLOCK FALSE
