CONSTANT
  None = None
SPECIFICATION Spec
INVARIANTS CancellationIsReported
