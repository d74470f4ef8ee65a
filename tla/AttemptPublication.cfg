SPECIFICATION Spec
CONSTANTS
  Workers = {w1, w2}
  NoWorker = none
  Units = {u1}
  MaxAttempt = 2
  HasIndex = TRUE
  Faults = TRUE
SYMMETRY Symmetry
CHECK_DEADLOCK FALSE
INVARIANT PointersFollowCommit MarkerIsLast FailureRecordedOnce
PROPERTY FailedIsFinal OutcomeSpec
