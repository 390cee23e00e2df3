SPECIFICATION Spec
CONSTANTS
  Managers = {m1, m2}
  Hosts = {h1, h2}
  NoMaster = NoMaster
  PeerList <- MCPeerList
  ElectionTries = 3
  Slots = {1}
  MaxLink = 1
  MaxView = 1
  MaxLoss = 1
  MaxError = 0
  MaxCrash = 0
  MaxRestart = 0
INVARIANTS TypeOK AtMostOneElected  LosesOnlyToAnother ActiveIsRegistered
PROPERTIES ArbiterSpec
SYMMETRY Symmetry
