SPECIFICATION Spec
CONSTANTS
  Servers = {s1, s2, s3}
  NoServer = NoServer
  Loop = Loop
  Api = {a1}
  FailLimit = 1
  MaxTrx = 0
  MaxCall = 1
  MaxFalse = 1
  MaxCrash = 0
  MaxError = 0
INVARIANTS OnlyOneFailover
SYMMETRY Symmetry
CHECK_DEADLOCK FALSE
