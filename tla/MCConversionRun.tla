-------------------------- MODULE MCConversionRun ---------------------------
(* Two datasets through a queue of two jobs, three conversions, one edit.   *)
EXTENDS ConversionRun
=============================================================================
