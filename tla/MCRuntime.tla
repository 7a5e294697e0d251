------------------------------ MODULE MCRuntime ------------------------------
(***************************************************************************)
(* The two parts of tidas-runtime, one of which moves in a behaviour:      *)
(*  - MemoryBudget with three reservations, a limit of 4 bytes and 3-bit   *)
(*    counters: sizes that fit, that exceed the limit, and that overflow;  *)
(*  - BoundedQueue with two senders and one receiver on a channel of two   *)
(*    messages and a budget smaller than what the senders offer together.  *)
(***************************************************************************)
EXTENDS MemoryBudget, BoundedQueue

VARIABLE part  \* "budget" or "queue"

RuntimeInit ==
  /\ part \in {"budget", "queue"}
  /\ Init
  /\ QueueInit

RuntimeNext ==
  /\ UNCHANGED part
  /\ \/ part = "budget" /\ Next /\ UNCHANGED queueVars
     \/ part = "queue" /\ QueueNext /\ UNCHANGED vars

\* The queue's threads are those of QueueSpec: in a call they run.
RuntimeSpec ==
  /\ RuntimeInit /\ [][RuntimeNext]_<<part, vars, queueVars>>
  /\ \A t \in Threads : WF_queueVars(Work(t))
=============================================================================
