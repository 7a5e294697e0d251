CONSTANTS
  Datasets = 1
  MaxData = 1
  Envelopes = {"e"}
  NoEnvelope = "none"
  Capacity = 2
  MaxRuns = 3
  MaxEdits = 1
SPECIFICATION Spec
INVARIANT RoundTrip
