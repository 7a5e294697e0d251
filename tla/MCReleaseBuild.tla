--------------------------- MODULE MCReleaseBuild ---------------------------
(* ReleaseBuild for the paired profiles: a unit process and a result that   *)
(* name each other in some of their contents, a flow, a file the index does *)
(* not list, and a reference to what no index entry is.                     *)
EXTENDS ReleaseBuild, TLC

CONSTANTS unit, result, flow, stray, gone

MCRefs == [d \in Docs |-> [c \in Contents |->
  CASE d = unit -> IF c = "a" THEN {flow} ELSE {flow, result}
    [] d = result -> IF c = "a" THEN {unit} ELSE {gone}
    [] d = flow -> IF c = "a" THEN {} ELSE {unit}
    [] OTHER -> {flow}]]
MCRoots == <<{unit}, {result}>>
MCAccepted == <<Contents, Contents>>
=============================================================================
