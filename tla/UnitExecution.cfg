SPECIFICATION Spec
CONSTANTS
    Workers = {w1, w2}
    Units <- MCUnits
    StepNames <- MCSteps
    Deps <- MCDeps
    StepOf <- MCStepOf
    MaxRuns = 2
    Gaps <- MCGaps
    Settings <- MCSettings
    NoWorker = NoWorker
SYMMETRY Symmetry
INVARIANTS
    StepAgrees
    StepEventsOnce
    ReuseClosed
    PublishedConsistent
CHECK_DEADLOCK FALSE
