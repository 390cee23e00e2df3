SPECIFICATION Spec
CONSTANTS
  N = 3
  MaxFail = 2
  FailRestartUnsafe = FALSE
  MaxDown = 3
  MaxOutage = 3
  MaxSwitch = 0
  MaxDeny = 1
  MaxError = 1
  MaxEvent = 3
INVARIANTS TypeOK
PROPERTIES FailedMissed PromotesMissed
CHECK_DEADLOCK FALSE
