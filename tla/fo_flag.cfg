SPECIFICATION FairSpec
CONSTANTS
  Servers = {s1, s2}
  NoServer = NoServer
  Loop = Loop
  Api = {a1}
  FailLimit = 1
  MaxTrx = 1
  MaxCall = 2
  MaxFalse = 0
  MaxCrash = 1
  MaxError = 1
PROPERTIES MonitoringResumes
CHECK_DEADLOCK FALSE
