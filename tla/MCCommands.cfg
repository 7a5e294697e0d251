CONSTANTS
  d1 = d1
  d2 = d2
  Nothing = Nothing
  Datasets <- MCDatasets
  Versions <- MCVersions
  Packages <- MCPackages
  Categories = 2
  Rows <- MCRows
  Capacity = 1
  Budget = 2
SPECIFICATION MCSpec
INVARIANTS WinnersSurvive FieldReferencesResolve ExitIsEarned PublishedIsComplete
PROPERTY ExportReturns
