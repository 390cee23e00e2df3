SPECIFICATION Spec
CONSTANTS
  Servers = {s1, s2, s3}
  NoServer = NoServer
  FirstMaster = s1
  BackupBinlog = TRUE
  Flashback = TRUE
  ForceRestore = FALSE
  Autoseed = TRUE
  MaxWrite = 1
  MaxCrash = 2
  MaxError = 0
PROPERTIES SlaveBehind
SYMMETRY Symmetry
CHECK_DEADLOCK FALSE
