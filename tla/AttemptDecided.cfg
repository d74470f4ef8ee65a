SPECIFICATION FairSpec
CONSTANTS
  Workers = {w1, w2}
  NoWorker = none
  Units = {u1}
  MaxAttempt = 1
  HasIndex = FALSE
  Faults = FALSE
CHECK_DEADLOCK FALSE
INVARIANT TypeOK
PROPERTY FinalizationDecides
