SPECIFICATION Spec
CONSTANTS
  Clients = {c1, c2}
  Launchers = {c1, c2}
  Controller = controller
  None = none
  Strangers = TRUE
  MaxFaults = 1
SYMMETRY Symmetry
CHECK_DEADLOCK FALSE
INVARIANT TypeOK
PROPERTY NoGrantAfterStop

