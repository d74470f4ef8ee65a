SPECIFICATION Spec
CONSTANTS
  Workers = {w1}
  NoWorker = none
  Units = {u1}
  MaxAttempt = 2
  HasIndex = TRUE
  Faults = FALSE
CHECK_DEADLOCK FALSE
INVARIANT FailedNeverLatest
