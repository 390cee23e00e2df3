SPECIFICATION FairSpec
CONSTANTS
  Managers = {m1, m2}
  Hosts = {h1, h2}
  NoMaster = NoMaster
  PeerList <- MCPeerList
  ElectionTries = 3
  Slots = {1}
  MaxLink = 0
  MaxView = 0
  MaxLoss = 0
  MaxError = 1
  MaxCrash = 2
  MaxRestart = 1
PROPERTIES HeartbeatReturns StaleElectionCleared
