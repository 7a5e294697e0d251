--------------------------- MODULE MCStagedCommit ---------------------------
(* StagedCommit with three runs publishing to one target.                  *)
EXTENDS StagedCommit, TLC

CONSTANTS r1, r2, r3

MCRuns == {r1, r2, r3}
OneRun == {r1}
Symmetry == Permutations(MCRuns)
=============================================================================
