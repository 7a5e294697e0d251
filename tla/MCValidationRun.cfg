CONSTANTS
  flow1 = flow1
  flow2 = flow2
  process = process
  Docs = {flow1, flow2, process}
  Flows = {flow1, flow2}
  Order <- MCOrder
  Sorted <- MCSorted
  Contents = {"a", "b", "broken"}
  Broken = "broken"
  Flawed = {"b"}
  Gone = Gone
  Nothing = Nothing
  MaxEdits = 3
SPECIFICATION Spec
INVARIANTS EventsFitManifest OneStateIsJudged StreamIsComplete
