SPECIFICATION SerialSpec
CONSTANTS
  Servers = {s1, s2, s3}
  NoServer = NoServer
  Loop = Loop
  Api = {a1}
  FailLimit = 1
  MaxTrx = 1
  MaxCall = 2
  MaxFalse = 0
  MaxCrash = 1
  MaxError = 1
INVARIANTS TypeOK NeverReplicatesFromItself
SYMMETRY Symmetry
CHECK_DEADLOCK FALSE
