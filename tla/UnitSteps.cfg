SPECIFICATION FairSpec
CONSTANTS
    Workers = {w1, w2}
    Units <- MCUnits
    StepNames <- MCSteps
    Deps <- MCDeps
    StepOf <- MCStepOf
    MaxRuns = 2
    Gaps <- MCAnyGaps
    Settings <- MCBuild
    NoWorker = NoWorker
INVARIANTS
    TypeOK
    StepAgrees
    ReuseClosed
    PublishedConsistent
PROPERTY
    StepsDecided
CHECK_DEADLOCK FALSE
