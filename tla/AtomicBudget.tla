---------------------------- MODULE AtomicBudget ----------------------------
(***************************************************************************)
(* What a memory budget promises to its callers: every reservation is      *)
(* answered at one instant, granted exactly when the bytes already         *)
(* reserved leave room for it and refused exactly when they do not.        *)
(* Nothing here says how concurrent callers reach that instant; module     *)
(* MemoryBudget does, from tidas-runtime.                                  *)
(***************************************************************************)
EXTENDS Naturals, FiniteSets

CONSTANTS
  Holders,  \* one per reservation in progress or alive
  Limit,    \* the budget, in bytes
  Sizes     \* the sizes callers ask for

VARIABLES
  reserved, \* bytes held by each holder, 0 when it holds nothing
  holding,  \* the holders with a live reservation
  refused   \* <<h, b>>: h's request of b bytes was refused and has not returned yet

absVars == <<reserved, holding, refused>>

\* One element per reserved byte, so that its cardinality is the total.
ReservedBytes == UNION {{h} \X (1 .. reserved[h]) : h \in holding}

Total == Cardinality(ReservedBytes)

Init ==
  /\ reserved = [h \in Holders |-> 0]
  /\ holding = {}
  /\ refused = {}

Answered(h) == h \in holding \/ \E b \in Sizes : <<h, b>> \in refused

Grant(h, b) ==
  /\ ~Answered(h)
  /\ Total + b <= Limit
  /\ reserved' = [reserved EXCEPT ![h] = b]
  /\ holding' = holding \cup {h}
  /\ UNCHANGED refused

Refuse(h, b) ==
  /\ ~Answered(h)
  /\ Total + b > Limit
  /\ refused' = refused \cup {<<h, b>>}
  /\ UNCHANGED <<reserved, holding>>

Return(h, b) ==
  /\ <<h, b>> \in refused
  /\ refused' = refused \ {<<h, b>>}
  /\ UNCHANGED <<reserved, holding>>

Release(h) ==
  /\ h \in holding
  /\ holding' = holding \ {h}
  /\ reserved' = [reserved EXCEPT ![h] = 0]
  /\ UNCHANGED refused

Next == \E h \in Holders : \/ \E b \in Sizes : Grant(h, b) \/ Refuse(h, b) \/ Return(h, b)
                           \/ Release(h)

Spec == Init /\ [][Next]_absVars
=============================================================================
