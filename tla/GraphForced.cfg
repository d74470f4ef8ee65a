SPECIFICATION Spec
CONSTANTS
    N = 4
    Deps <- MCGateDeps
    Propagating = {2, 4}
    Live = {1}
    TargetFree = {1}
    Metadata = {1}
    Split = 1
    Graphs = {g1, g2}
    Dispatches = {d1}
    Launches = {}
    Container = {}
    Forces = {0, 1, 3}
    Qualities = {"clean", "retry"}
    Changes = {}
    MaxAttempt = 2
    MaxTarget = 1
    MaxRelease = 0
    MaxRepair = 0
    Faults = FALSE
    Free = Free
INVARIANT
    TypeOK
    ForcedFresh
CHECK_DEADLOCK FALSE
SYMMETRY Symmetry
