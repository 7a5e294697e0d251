CONSTANTS
  Datasets = 2
  MaxData = 2
  Envelopes = {"e"}
  NoEnvelope = "none"
  Capacity = 2
  MaxRuns = 3
  MaxEdits = 1
SPECIFICATION Spec
INVARIANTS CleanRoundTrip FragmentsFitTheirData EnvelopesAreMerged
PROPERTY RunEnds
