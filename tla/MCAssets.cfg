CONSTANTS
  i1 = i1
  i2 = i2
  assets = assets
  spec = spec
  scratch = scratch
  tidas = tidas
  fresh = fresh
  doc = doc
  extra = extra
  pinRecord = pinRecord
  NoId = NoId
  Importers <- MCTwo
  Dirs <- MCDirs
  SpecDir = spec
  Scratch = scratch
  Root = Root
  Parent <- MCParent
  Order <- MCOrder
  Home <- MCHome
  InitialDirs <- MCSomeDirs
  InitialFiles <- MCSomeFiles
  Absent = Absent
  Old = Old
  NoLock = NoLock
  NoFile = NoFile
  Schemas = {"a", "x"}
  Pinned = {"a"}
  SpecVersions = {"0.2.2", "0.2.3"}
  Candidate <- MCCandidate
  Commits = {"c1", "c2"}
  RulesAt <- MCRulesAt
  Initial <- MCInitial
  Drafts <- MCDrafts
  MaxEdits = 2
  MaxFaults = 2
  MaxDeaths = 1
  PathOrder <- MCPaths
  Area <- MCArea
  ReviewedFiles <- MCReviewed
  ImportPath = "source-import.yaml"
  BaselinePath = "reviewed-baseline.json"
  Renamed <- MCRenamed
  Touched = {"schemas/a", "schema.lock.json"}
  Metadata = 2
  MaxMembers = 12
  MaxBytes = 12
  MaxCandidateEdits = 4
  None = None
  Refused = Refused
SPECIFICATION AssetsSpec
INVARIANTS WindowNeedsLock SettledIsCommitted CommittedNeverVanishes OwnedOnce ChecksBindTheBuild FreshLocksPass DriftNeedsEveryRecord
PROPERTY LockComesFree
