SPECIFICATION FairSpec
CONSTANTS
  N = 3
  MaxFail = 2
  FailRestartUnsafe = FALSE
  MaxDown = 1
  MaxOutage = 2
  MaxSwitch = 1
  MaxDeny = 1
  MaxError = 1
  MaxEvent = 2
 
PROPERTIES Heals Replaced
CHECK_DEADLOCK FALSE
