------------------------------ MODULE MCCommands ------------------------------
(***************************************************************************)
(* The commands: the report of every one of them, and the two halves of    *)
(* `tidas export`.  In every behaviour one part moves and the others stay  *)
(* in an initial state:                                                    *)
(*  - "report": CommandReport with all requests;                           *)
(*  - "export": ExportRun with a common query of one row and two           *)
(*    categories of two rows and one, through a channel of one record;     *)
(*  - "versions": VersionNormalization with two datasets in up to three    *)
(*    versions, the files of a package holding the same one reference of   *)
(*    any form.                                                            *)
(***************************************************************************)
EXTENDS ExportRun, VersionNormalization, TLC

CONSTANTS d1, d2, Nothing

MCDatasets == {d1, d2}
MCVersions == {1, 2, 3}
\* References are looked at one by one: the same one is in every file.
MCPackages ==
  UNION {{[p \in present |-> {r}] : present \in SUBSET Ids \ {{}}} : r \in SourceRefs}
MCRows == (0 :> 1) @@ (1 :> 2) @@ (2 :> 1)

VARIABLES
  part,
  request, phase, token, done, found, published, failure, report, exit  \* of CommandReport

reportVars == <<request, phase, token, done, found, published, failure, report, exit>>

R == INSTANCE CommandReport WITH None <- Nothing

IdleReport == R!Init /\ request = R!Help
IdleExport == ExportInit /\ format = "tidas"
IdleVersions ==
  Init /\ files = [p \in {<<d1, 1>>} |-> {CHOOSE r \in SourceRefs : TRUE}]

MCInit ==
  \/ part = "report" /\ R!Init /\ IdleExport /\ IdleVersions
  \/ part = "export" /\ ExportInit /\ IdleReport /\ IdleVersions
  \/ part = "versions" /\ Init /\ IdleReport /\ IdleExport

MCNext ==
  /\ UNCHANGED part
  /\ \/ part = "report" /\ R!Next /\ UNCHANGED <<exportVars, vars>>
     \/ part = "export" /\ ExportNext /\ UNCHANGED <<reportVars, vars>>
     \/ part = "versions" /\ Next /\ UNCHANGED <<reportVars, exportVars>>

\* The tasks of an export are those of ExportSpec.
MCSpec ==
  /\ MCInit /\ [][MCNext]_<<part, reportVars, exportVars, vars>>
  /\ WF_exportVars(part = "export" /\ Producer)
  /\ WF_exportVars(part = "export" /\ Main)

\* The property of CommandReport, there with its reasons.
ExitIsEarned == R!ExitIsEarned

\* ExportRun's BothReturn, of the behaviours in which it moves.
ExportReturns == (part = "export") => BothReturn
=============================================================================
