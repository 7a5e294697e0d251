--------------------------- MODULE MCValidationRun ---------------------------
(* ValidationRun with two flows and a process, which the manifest names     *)
(* between them.                                                            *)
EXTENDS ValidationRun

CONSTANTS flow1, flow2, process

MCOrder == <<flow1, process, flow2>>
MCNames == <<flow1, flow2, process>>
MCSorted ==
  [S \in SUBSET {flow1, flow2, process} |-> SelectSeq(MCNames, LAMBDA d : d \in S)]
=============================================================================
