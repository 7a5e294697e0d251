CONSTANTS
  r1 = r1
  r2 = r2
  r3 = r3
  Old = Old
  None = None
  Runs <- MCRuns
  Kind = "directory"
  KeepBackup = TRUE
  MaxFaults = 2
SPECIFICATION CommitSpec
SYMMETRY Symmetry
INVARIANTS ContentConserved TargetPresent
