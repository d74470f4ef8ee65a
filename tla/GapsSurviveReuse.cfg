SPECIFICATION Spec
CONSTANTS
    N = 3
    Deps <- MCDeps
    Propagating = {1, 2, 3}
    Live = {}
    TargetFree = {}
    Metadata = {}
    Split = 0
    Graphs = {g1, g2}
    Dispatches = {}
    Launches = {l1}
    Container = {}
    Forces = {0}
    Qualities = {"clean", "gaps"}
    Changes = {}
    MaxAttempt = 2
    MaxTarget = 1
    MaxRelease = 0
    MaxRepair = 0
    Faults = FALSE
    Free = Free
INVARIANT
    GapsSurviveReuse
CHECK_DEADLOCK FALSE
