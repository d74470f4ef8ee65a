SPECIFICATION Spec
CONSTANTS
    N = 3
    Deps <- MCDeps
    Propagating = {1, 3}
    Live = {}
    TargetFree = {}
    Metadata = {}
    Split = 0
    Graphs = {g1, g2}
    Dispatches = {d1}
    Launches = {}
    Container = {}
    Forces = {0, 2}
    Qualities = {"clean"}
    Changes = {}
    MaxAttempt = 2
    MaxTarget = 2
    MaxRelease = 0
    MaxRepair = 0
    Faults = TRUE
    Free = Free
INVARIANTS
    CompletedConsistent
    OneTarget
    ForcedFresh
CHECK_DEADLOCK FALSE
SYMMETRY Symmetry
