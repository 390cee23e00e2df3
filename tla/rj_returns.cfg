SPECIFICATION FairSpec
CONSTANTS
  Servers = {s1, s2, s3}
  NoServer = NoServer
  FirstMaster = s1
  BackupBinlog = TRUE
  Flashback = TRUE
  ForceRestore = FALSE
  Autoseed = TRUE
  MaxWrite = 2
  MaxCrash = 2
  MaxError = 1
INVARIANTS TypeOK FlashbackSaved
PROPERTIES InPlace ReplicaClosed Rejoins
CHECK_DEADLOCK FALSE
