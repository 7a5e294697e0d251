---------------------------- MODULE MemoryBudget ----------------------------
(***************************************************************************)
(* MemoryBudget of crates/tidas-runtime/src/lib.rs: a shared pair of       *)
(* atomic counters, `used` and `peak`, on which any number of threads      *)
(* reserve bytes with a compare-and-exchange loop and release them by      *)
(* dropping the reservation.  Each action is one atomic access.            *)
(***************************************************************************)
EXTENDS Integers, FiniteSets

CONSTANTS
  Holders,  \* one per reservation: a call of reserve and what it returns
  Limit,    \* BudgetState.limit
  Sizes,    \* the byte counts callers reserve
  MaxU64    \* the largest u64, small in a model

ASSUME BudgetAssumption ==
  /\ MaxU64 \in Nat
  /\ Limit \in 0 .. MaxU64
  /\ Sizes \subseteq 0 .. MaxU64

VARIABLES
  used,      \* AtomicU64 used
  peak,      \* AtomicU64 peak
  pc,        \* where each holder is: idle, loop, peak (fetch_max pending), held
  seen,      \* the local `used` of reserve
  bytes,     \* the argument of reserve, then MemoryReservation.bytes
  highWater  \* history: the largest value `used` ever had

vars == <<used, peak, pc, seen, bytes, highWater>>

Maximum(a, b) == IF a >= b THEN a ELSE b

\* u64 subtraction as fetch_sub does it: modulo 2^64.
WrappingSub(a, b) == (a - b) % (MaxU64 + 1)

\* Mutant: the last byte of the budget is never granted.
FitsStrictly(current, b) == current + b <= MaxU64 /\ current + b < Limit

\* checked_add succeeds and the sum is within the limit.
Fits(current, b) == current + b <= MaxU64 /\ current + b <= Limit

Init ==
  /\ used = 0
  /\ peak = 0
  /\ pc = [h \in Holders |-> "idle"]
  /\ seen = [h \in Holders |-> 0]
  /\ bytes = [h \in Holders |-> 0]
  /\ highWater = 0

\* reserve(b) starts: the load before the loop.
Load(h, b) ==
  /\ pc[h] = "idle"
  /\ pc' = [pc EXCEPT ![h] = "loop"]
  /\ seen' = [seen EXCEPT ![h] = used]
  /\ bytes' = [bytes EXCEPT ![h] = b]
  /\ UNCHANGED <<used, peak, highWater>>

\* checked_add overflows or the sum exceeds the limit: BudgetExceeded.
Exceeded(h) ==
  /\ pc[h] = "loop"
  /\ ~Fits(seen[h], bytes[h])
  /\ pc' = [pc EXCEPT ![h] = "idle"]
  /\ bytes' = [bytes EXCEPT ![h] = 0]
  /\ seen' = [seen EXCEPT ![h] = 0]
  /\ UNCHANGED <<used, peak, highWater>>

\* Mutant: a plain store, `used` may have moved since it was read.
BlindStore(h) ==
  /\ pc[h] = "loop"
  /\ Fits(seen[h], bytes[h])
  /\ used' = seen[h] + bytes[h]
  /\ highWater' = Maximum(highWater, used')
  /\ pc' = [pc EXCEPT ![h] = "peak"]
  /\ UNCHANGED <<peak, seen, bytes>>

\* compare_exchange_weak succeeds.
CasSucceeds(h) ==
  /\ pc[h] = "loop"
  /\ Fits(seen[h], bytes[h])
  /\ used = seen[h]
  /\ used' = seen[h] + bytes[h]
  /\ highWater' = Maximum(highWater, used')
  /\ pc' = [pc EXCEPT ![h] = "peak"]
  /\ UNCHANGED <<peak, seen, bytes>>

\* compare_exchange_weak fails, another thread having moved `used` or
\* spuriously, and returns the actual value.
CasFails(h) ==
  /\ pc[h] = "loop"
  /\ Fits(seen[h], bytes[h])
  /\ seen' = [seen EXCEPT ![h] = used]
  /\ UNCHANGED <<used, peak, pc, bytes, highWater>>

\* Mutant: the peak is stored, not maximised.
StorePeak(h) ==
  /\ pc[h] = "peak"
  /\ peak' = seen[h] + bytes[h]
  /\ pc' = [pc EXCEPT ![h] = "held"]
  /\ seen' = [seen EXCEPT ![h] = 0]
  /\ UNCHANGED <<used, bytes, highWater>>

\* peak.fetch_max(requested), a second atomic access; reserve returns.
FetchMax(h) ==
  /\ pc[h] = "peak"
  /\ peak' = Maximum(peak, seen[h] + bytes[h])
  /\ pc' = [pc EXCEPT ![h] = "held"]
  /\ seen' = [seen EXCEPT ![h] = 0]
  /\ UNCHANGED <<used, bytes, highWater>>

\* Drop for MemoryReservation.
DropReservation(h) ==
  /\ pc[h] = "held"
  /\ used' = WrappingSub(used, bytes[h])
  /\ highWater' = Maximum(highWater, used')
  /\ pc' = [pc EXCEPT ![h] = "idle"]
  /\ bytes' = [bytes EXCEPT ![h] = 0]
  /\ UNCHANGED <<peak, seen>>

Next == \E h \in Holders : \/ \E b \in Sizes : Load(h, b)
                           \/ Exceeded(h)
                           \/ CasSucceeds(h)
                           \/ CasFails(h)
                           \/ FetchMax(h)
                           \/ DropReservation(h)

Spec == Init /\ [][Next]_vars
-----------------------------------------------------------------------------
(* Properties *)

\* Every counter of the budget stays in the range of the code's types.
TypeOK ==
  /\ used \in 0 .. MaxU64
  /\ peak \in 0 .. MaxU64
  /\ highWater \in 0 .. MaxU64
  /\ pc \in [Holders -> {"idle", "loop", "peak", "held"}]
  /\ seen \in [Holders -> 0 .. MaxU64]
  /\ bytes \in [Holders -> 0 .. MaxU64]

\* The holders whose compare-and-exchange has taken bytes from the budget.
Owners == {h \in Holders : pc[h] \in {"peak", "held"}}

\* One element per byte taken.
TakenBytes == UNION {{h} \X (1 .. bytes[h]) : h \in Owners}

\* `used` is exactly the bytes of the reservations alive, whatever the
\* interleaving of the compare-and-exchange loops (lib.rs 69-102) with the
\* drops (126-130): nothing leaks, fetch_sub never wraps, and the sum never
\* exceeds the limit.
Accounting ==
  /\ used = Cardinality(TakenBytes)
  /\ used <= Limit

\* Although fetch_max is a second access after the exchange (lib.rs 92-93),
\* no high point is lost: when no reserve is between the two, `peak` is the
\* largest value `used` ever had, and at every moment the missing high point
\* is one that a reserve is still carrying.
PeakIsHighWater ==
  /\ peak <= highWater
  /\ \/ peak = highWater
     \/ \E h \in Holders : pc[h] = "peak" /\ seen[h] + bytes[h] = highWater

\* The budget implements AtomicBudget: a reservation is granted at the
\* successful exchange, and a refusal is justified by the bytes really
\* reserved at the load or the failed exchange that read them (lib.rs 70-99).
Refusing(h) == pc[h] = "loop" /\ ~Fits(seen[h], bytes[h])

Abstract == INSTANCE AtomicBudget WITH
  reserved <- [h \in Holders |-> IF h \in Owners THEN bytes[h] ELSE 0],
  holding <- Owners,
  refused <- {<<h, bytes[h]>> : h \in {g \in Holders : Refusing(g)}}

\* Every call of reserve answers as if the budget were one atomic step
\* (lib.rs 69-102 and 126-130): refinement of AtomicBudget.
ImplementsAtomicBudget == Abstract!Spec
=============================================================================
