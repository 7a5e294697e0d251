CONSTANTS
  r1 = r1
  r2 = r2
  r3 = r3
  Old = Old
  None = None
  Runs <- OneRun
  Kind = "directory"
  KeepBackup = FALSE
  MaxFaults = 2
SPECIFICATION CommitSpec
INVARIANT ContentConserved
