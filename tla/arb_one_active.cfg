SPECIFICATION Spec
CONSTANTS
  Managers = {m1, m2}
  Hosts = {h1, h2}
  NoMaster = NoMaster
  PeerList <- MCPeerList
  ElectionTries = 3
  Slots = {1}
  MaxLink = 1
  MaxView = 0
  MaxLoss = 0
  MaxError = 0
  MaxCrash = 0
  MaxRestart = 0
INVARIANTS OneActive
