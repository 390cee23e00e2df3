SPECIFICATION Spec
CONSTANTS
  Servers = {s1, s2, s3}
  NoServer = NoServer
  Loop = Loop
  Api = {}
  FailLimit = 1
  MaxTrx = 2
  MaxCall = 1
  MaxFalse = 1
  MaxCrash = 2
  MaxError = 0
INVARIANTS OneWriter NothingReceivedIsLost CrashPositionExecuted
SYMMETRY Symmetry
CHECK_DEADLOCK FALSE
