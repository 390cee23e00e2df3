SPECIFICATION FairSpec
CONSTANTS
  Tasks = {"reseedxtrabackup", "reseedmysqldump", "direct"}
  Callers = {c1, c2}
  Senders = {w1}
  Scripts = {s1}
  MaxLoop = 1
  Prompt = TRUE
  MaxCall = 2
  MaxFault = 1
INVARIANTS TypeOK RestoreFlagged
PROPERTIES ErrorReleases HaltedCancelled
