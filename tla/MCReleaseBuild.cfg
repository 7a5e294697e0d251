CONSTANTS
  unit = unit
  result = result
  flow = flow
  stray = stray
  gone = gone
  Docs = {unit, result, flow, stray}
  Indexed = {unit, result, flow}
  Keys = {unit, result, flow, gone}
  Contents = {"a", "b", "bad"}
  Valid = {"a", "b"}
  Refs <- MCRefs
  Profiles = 2
  Roots <- MCRoots
  Accepted <- MCAccepted
  Paired = TRUE
  Nothing = Nothing
  MaxEdits = 2
SPECIFICATION Spec
INVARIANTS ClosureFitsIndex PublishedIsGated
PROPERTY BuildEnds
