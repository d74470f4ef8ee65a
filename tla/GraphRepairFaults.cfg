SPECIFICATION Spec
CONSTANTS
    N = 2
    Deps <- MCPairDeps
    Propagating = {1, 2}
    Live = {}
    TargetFree = {}
    Metadata = {}
    Split = 0
    Graphs = {g1, g2}
    Dispatches = {}
    Launches = {l1}
    Container = {l1}
    Forces = {0, 2}
    Qualities = {"clean"}
    Changes = {{1}, {2}}
    MaxAttempt = 2
    MaxTarget = 1
    MaxRelease = 1
    MaxRepair = 1
    Faults = TRUE
    Free = Free
INVARIANTS
    RepairHonoured
    WorkersCurrent
CHECK_DEADLOCK FALSE
SYMMETRY Symmetry
