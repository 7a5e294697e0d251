------------------------- MODULE ProjectionRecovery -------------------------
(***************************************************************************)
(* The recovery contract of crates/tidas-conversion/src/projection.rs.     *)
(* project_tidas_to_eilcd walks a document and adapts it fragment by       *)
(* fragment to what eILCD can hold.  Before each adaptation                *)
(* RecoveryBuilder::record saves the fragment, so that                     *)
(* restore_tidas_projection can put back everything that was changed, and  *)
(* checks that the result has the semantic hash of the source.             *)
(*                                                                         *)
(* A document maps the nodes of a tree, JSON pointers, to their values,    *)
(* absence being one.  The adaptation rules are not told apart: a rule     *)
(* records a node and changes anything at or below it, in any order, of    *)
(* which the order of the code's walk is one.                              *)
(***************************************************************************)
CONSTANTS
  Nodes,    \* the JSON pointers
  Subtree,  \* the pointers at or below a pointer: is_same_or_ancestor
  Values    \* what can be at a pointer

ASSUME TreeAssumption ==
  /\ Subtree \in [Nodes -> SUBSET Nodes]
  /\ \A n \in Nodes : n \in Subtree[n]
  /\ \A m, n \in Nodes : n \in Subtree[m] => Subtree[n] \subseteq Subtree[m]
  /\ \A l, m, n \in Nodes :
       n \in Subtree[l] /\ n \in Subtree[m] => l \in Subtree[m] \/ m \in Subtree[l]

Trees == [Nodes -> Values]

VARIABLES
  source,    \* the TIDAS document
  projected, \* its projection so far, and after Restore what came back
  recorded,  \* the paths of RecoveryBuilder.restorations
  original,  \* the fragment saved for each of them
  phase      \* adapt, restored, or mismatch

recoveryVars == <<source, projected, recorded, original, phase>>

RecoveryInit ==
  /\ source \in Trees
  /\ projected = source
  /\ recorded = {}
  /\ original = [r \in {} |-> source]
  /\ phase = "adapt"

\* An entry is the node itself or above it.
IsCovered(n) == \E r \in recorded : n \in Subtree[r]

\* Mutant: a fragment is saved as it is, without undoing what was adapted
\* below it before.
ReconstructedAsIs(n) == [m \in Subtree[n] |-> projected[m]]

\* What record saves of the fragment at n: its present form, with the entries
\* below it put back.
Reconstructed(n) ==
  [m \in Subtree[n] |->
     IF \E r \in recorded \cap Subtree[n] : m \in Subtree[r]
     THEN original[CHOOSE r \in recorded \cap Subtree[n] : m \in Subtree[r]][m]
     ELSE projected[m]]

\* RecoveryBuilder::record: nothing if an entry covers the node, or else a
\* new entry that replaces those below it.
Record(n) ==
  IF IsCovered(n)
  THEN UNCHANGED <<recorded, original>>
  ELSE LET entries == (recorded \ Subtree[n]) \cup {n}
       IN /\ recorded' = entries
          /\ original' = [r \in entries |-> IF r = n THEN Reconstructed(n) ELSE original[r]]

\* A rule applies at n: the key is removed, renamed, truncated, merged or
\* replaced.
Adapt(n, change) ==
  /\ phase = "adapt"
  /\ Record(n)
  /\ projected' = [m \in Nodes |-> IF m \in Subtree[n] THEN change[m] ELSE projected[m]]
  /\ UNCHANGED <<source, phase>>

\* What the entries make of a document: set_pointer for each of them.
Recovered ==
  [m \in Nodes |->
     IF IsCovered(m) THEN original[CHOOSE r \in recorded : m \in Subtree[r]][m]
                     ELSE projected[m]]

\* restore_tidas_projection.
Restore ==
  /\ phase = "adapt"
  /\ projected' = Recovered
  /\ phase' = IF Recovered = source THEN "restored" ELSE "mismatch"
  /\ UNCHANGED <<source, recorded, original>>

Done == phase # "adapt" /\ UNCHANGED recoveryVars

RecoveryNext == \/ \E n \in Nodes : \E change \in [Subtree[n] -> Values] : Adapt(n, change)
        \/ Restore
        \/ Done

RecoverySpec == RecoveryInit /\ [][RecoveryNext]_recoveryVars
-----------------------------------------------------------------------------
(* Properties *)

\* No entry is below another, so the order in which restore_tidas_projection
\* applies them does not matter; the rest is well formed.
RecoveryTypeOK ==
  /\ source \in Trees
  /\ projected \in Trees
  /\ recorded \subseteq Nodes
  /\ DOMAIN original = recorded
  /\ \A r \in recorded : original[r] \in [Subtree[r] -> Values]
  /\ phase \in {"adapt", "restored", "mismatch"}
  /\ \A r, s \in recorded : r \in Subtree[s] => r = s

\* However the adaptations overlap, and at every point of the walk, the
\* entries restore the source: a projection that nobody edited is never
\* refused (projection.rs 118-150; README.md 112-114).
RecoverySuffices == Recovered = source /\ phase # "mismatch"
=============================================================================
