---------------------------- MODULE RuntimeProofs ----------------------------
(***************************************************************************)
(* Proofs about the two parts of tidas-runtime: MemoryBudget, for any      *)
(* number of threads and any limit, and BoundedQueue, for any number of    *)
(* senders and receivers, any capacity and any budget.                     *)
(***************************************************************************)
EXTENDS MemoryBudget, BoundedQueue, FiniteSetTheorems, SequenceTheorems, TLAPS

\* The inductive invariant: the accounting needs the taken bytes to be a
\* finite set, the peak needs every pending fetch_max to be below the
\* high-water mark.
BudgetInv ==
  /\ TypeOK
  /\ IsFiniteSet(TakenBytes)
  /\ Accounting
  /\ used <= highWater
  /\ highWater <= Limit
  /\ \A h \in Holders : pc[h] = "peak" => seen[h] + bytes[h] <= highWater
  /\ PeakIsHighWater
  /\ \A h \in Holders : pc[h] = "loop" => bytes[h] \in Sizes

\* A holder's bytes are a finite set of as many elements as it has bytes.
LEMMA BlockCardinality ==
  ASSUME NEW h, NEW n \in Nat
  PROVE  /\ IsFiniteSet({h} \X (1 .. n))
         /\ Cardinality({h} \X (1 .. n)) = n
<1>1. IsFiniteSet({h}) /\ Cardinality({h}) = 1
  BY FS_Singleton
<1>2. IsFiniteSet(1 .. n) /\ Cardinality(1 .. n) = n
  BY FS_Interval
<1>3. /\ IsFiniteSet({h} \X (1 .. n))
      /\ Cardinality({h} \X (1 .. n)) = Cardinality({h}) * Cardinality(1 .. n)
  BY <1>1, <1>2, FS_Product
<1> QED BY <1>1, <1>2, <1>3

\* Adding a block disjoint from a finite set adds its size.
LEMMA AddBlock ==
  ASSUME NEW S, IsFiniteSet(S), NEW h, NEW n \in Nat,
         \A x \in S : x[1] # h
  PROVE  /\ IsFiniteSet(S \cup ({h} \X (1 .. n)))
         /\ Cardinality(S \cup ({h} \X (1 .. n))) = Cardinality(S) + n
<1> DEFINE B == {h} \X (1 .. n)
<1>1. IsFiniteSet(B) /\ Cardinality(B) = n
  BY BlockCardinality
<1>2. S \cap B = {}
  OBVIOUS
<1>3. Cardinality(S \cap B) = 0
  BY <1>2, FS_EmptySet
<1>4. /\ IsFiniteSet(S \cup B)
      /\ Cardinality(S \cup B) = Cardinality(S) + Cardinality(B) - Cardinality(S \cap B)
  BY <1>1, FS_Union
<1>5. Cardinality(S) \in Nat
  BY FS_CardinalityType
<1> QED BY <1>1, <1>3, <1>4, <1>5

\* Removing a block contained in a finite set removes its size.
LEMMA RemoveBlock ==
  ASSUME NEW S, IsFiniteSet(S), NEW h, NEW n \in Nat,
         {h} \X (1 .. n) \subseteq S
  PROVE  /\ IsFiniteSet(S \ ({h} \X (1 .. n)))
         /\ Cardinality(S \ ({h} \X (1 .. n))) = Cardinality(S) - n
         /\ n <= Cardinality(S)
<1> DEFINE B == {h} \X (1 .. n)
<1>1. IsFiniteSet(B) /\ Cardinality(B) = n
  BY BlockCardinality
<1>2. S \cap B = B
  OBVIOUS
<1>3. /\ IsFiniteSet(S \ B)
      /\ Cardinality(S \ B) = Cardinality(S) - Cardinality(S \cap B)
  BY FS_Difference
<1>4. Cardinality(B) <= Cardinality(S)
  BY FS_Subset
<1> QED BY <1>1, <1>2, <1>3, <1>4

\* What is taken is unchanged by a step that changes no owner and none of
\* the owners' bytes.
LEMMA TakenUnchanged ==
  ASSUME Owners' = Owners, \A h \in Owners : bytes'[h] = bytes[h]
  PROVE  TakenBytes' = TakenBytes
BY DEF TakenBytes

LEMMA InitInv == Init => BudgetInv
<1> SUFFICES ASSUME Init PROVE BudgetInv
  OBVIOUS
<1>1. TakenBytes = {}
  BY DEF Init, TakenBytes, Owners
<1>2. IsFiniteSet(TakenBytes) /\ Cardinality(TakenBytes) = 0
  BY <1>1, FS_EmptySet
<1> QED
  BY <1>2, BudgetAssumption
  DEF Init, BudgetInv, TypeOK, Accounting, PeakIsHighWater

LEMMA NextInv == BudgetInv /\ [Next]_vars => BudgetInv'
<1> SUFFICES ASSUME BudgetInv, [Next]_vars PROVE BudgetInv'
  OBVIOUS
<1> USE BudgetAssumption
<1>1. ASSUME NEW h \in Holders, NEW b \in Sizes, Load(h, b)
      PROVE  BudgetInv'
  <2>1. TypeOK'
    BY <1>1 DEF Load, BudgetInv, TypeOK
  <2>2. TakenBytes' = TakenBytes
    <3>1. Owners' = Owners
      BY <1>1 DEF Load, Owners, BudgetInv, TypeOK
    <3>2. \A o \in Owners : bytes'[o] = bytes[o]
      BY <1>1 DEF Load, Owners, BudgetInv, TypeOK
    <3> QED BY <3>1, <3>2, TakenUnchanged
  <2>3. PeakIsHighWater' /\ \A o \in Holders : pc'[o] = "peak" =>
            seen'[o] + bytes'[o] <= highWater'
    BY <1>1 DEF Load, BudgetInv, TypeOK, PeakIsHighWater
  <2>s. \A o \in Holders : pc'[o] = "loop" => bytes'[o] \in Sizes
    BY <1>1 DEF Load, BudgetInv, TypeOK
  <2> QED
    BY <2>s, <1>1, <2>1, <2>2, <2>3 DEF Load, BudgetInv, Accounting
<1>2. ASSUME NEW h \in Holders, Exceeded(h)
      PROVE  BudgetInv'
  <2>1. TypeOK'
    BY <1>2 DEF Exceeded, BudgetInv, TypeOK
  <2>2. TakenBytes' = TakenBytes
    <3>1. Owners' = Owners
      BY <1>2 DEF Exceeded, Owners, BudgetInv, TypeOK
    <3>2. \A o \in Owners : bytes'[o] = bytes[o]
      BY <1>2 DEF Exceeded, Owners, BudgetInv, TypeOK
    <3> QED BY <3>1, <3>2, TakenUnchanged
  <2>3. PeakIsHighWater' /\ \A o \in Holders : pc'[o] = "peak" =>
            seen'[o] + bytes'[o] <= highWater'
    BY <1>2 DEF Exceeded, BudgetInv, TypeOK, PeakIsHighWater
  <2>s. \A o \in Holders : pc'[o] = "loop" => bytes'[o] \in Sizes
    BY <1>2 DEF Exceeded, BudgetInv, TypeOK
  <2> QED
    BY <2>s, <1>2, <2>1, <2>2, <2>3 DEF Exceeded, BudgetInv, Accounting
<1>3. ASSUME NEW h \in Holders, CasSucceeds(h)
      PROVE  BudgetInv'
  <2>1. TypeOK'
    BY <1>3 DEF CasSucceeds, Fits, Maximum, BudgetInv, TypeOK
  <2>2. TakenBytes' = TakenBytes \cup ({h} \X (1 .. bytes[h]))
    <3>1. Owners' = Owners \cup {h} /\ bytes' = bytes
      BY <1>3 DEF CasSucceeds, Owners, BudgetInv, TypeOK
    <3> QED BY <3>1 DEF TakenBytes
  <2>3. \A x \in TakenBytes : x[1] # h
    BY <1>3 DEF CasSucceeds, TakenBytes, Owners
  <2>4. bytes[h] \in Nat
    BY DEF BudgetInv, TypeOK
  <2>5. /\ IsFiniteSet(TakenBytes')
        /\ Cardinality(TakenBytes') = Cardinality(TakenBytes) + bytes[h]
    BY <2>2, <2>3, <2>4, AddBlock DEF BudgetInv
  <2>6. used' = used + bytes[h] /\ used' <= Limit
    BY <1>3 DEF CasSucceeds, Fits, BudgetInv, TypeOK
  <2>7. used' \in Nat /\ highWater \in Nat /\ highWater' \in Nat /\ used' <= highWater' /\ highWater <= highWater'
        /\ highWater' <= Limit
    BY <1>3, <2>6 DEF CasSucceeds, Maximum, BudgetInv, TypeOK
  <2>8. \A o \in Holders : pc'[o] = "peak" => seen'[o] + bytes'[o] <= highWater'
    <3> SUFFICES ASSUME NEW o \in Holders, pc'[o] = "peak"
                 PROVE  seen'[o] + bytes'[o] <= highWater'
      OBVIOUS
    <3>1. CASE o = h
      BY <1>3, <2>7, <3>1 DEF CasSucceeds, BudgetInv, TypeOK
    <3>2. CASE o # h
      BY <1>3, <2>7, <3>2 DEF CasSucceeds, BudgetInv, TypeOK
    <3> QED BY <3>1, <3>2
  <2>9. PeakIsHighWater'
    <3>1. peak' <= highWater'
      BY <1>3, <2>7 DEF CasSucceeds, BudgetInv, TypeOK, PeakIsHighWater
    <3>2. CASE highWater' = highWater
      BY <1>3, <3>1, <3>2 DEF CasSucceeds, BudgetInv, TypeOK, PeakIsHighWater
    <3>3. CASE highWater' # highWater
      <4>1. pc'[h] = "peak" /\ seen'[h] + bytes'[h] = highWater'
        BY <1>3, <3>3 DEF CasSucceeds, Maximum, BudgetInv, TypeOK
      <4> QED BY <3>1, <4>1 DEF PeakIsHighWater
    <3> QED BY <3>2, <3>3
  <2>s. \A o \in Holders : pc'[o] = "loop" => bytes'[o] \in Sizes
    BY <1>3 DEF CasSucceeds, BudgetInv, TypeOK
  <2> QED
    BY <2>s, <2>1, <2>5, <2>6, <2>7, <2>8, <2>9 DEF BudgetInv, Accounting
<1>4. ASSUME NEW h \in Holders, CasFails(h)
      PROVE  BudgetInv'
  <2>1. TypeOK'
    BY <1>4 DEF CasFails, BudgetInv, TypeOK
  <2>2. TakenBytes' = TakenBytes
    <3>1. Owners' = Owners /\ bytes' = bytes
      BY <1>4 DEF CasFails, Owners
    <3> QED BY <3>1, TakenUnchanged
  <2>3. PeakIsHighWater' /\ \A o \in Holders : pc'[o] = "peak" =>
            seen'[o] + bytes'[o] <= highWater'
    BY <1>4 DEF CasFails, BudgetInv, TypeOK, PeakIsHighWater
  <2>s. \A o \in Holders : pc'[o] = "loop" => bytes'[o] \in Sizes
    BY <1>4 DEF CasFails, BudgetInv, TypeOK
  <2> QED
    BY <2>s, <1>4, <2>1, <2>2, <2>3 DEF CasFails, BudgetInv, Accounting
<1>5. ASSUME NEW h \in Holders, FetchMax(h)
      PROVE  BudgetInv'
  <2>1. seen[h] + bytes[h] \in Nat /\ seen[h] + bytes[h] <= highWater
        /\ highWater \in 0 .. MaxU64 /\ peak \in 0 .. MaxU64 /\ peak <= highWater
    BY <1>5 DEF FetchMax, BudgetInv, TypeOK, PeakIsHighWater
  <2>2. peak' \in 0 .. MaxU64 /\ peak' <= highWater /\ peak <= peak'
        /\ seen[h] + bytes[h] <= peak'
    BY <1>5, <2>1 DEF FetchMax, Maximum
  <2>3. TypeOK'
    BY <1>5, <2>2 DEF FetchMax, BudgetInv, TypeOK
  <2>4. TakenBytes' = TakenBytes
    <3>1. Owners' = Owners /\ bytes' = bytes
      BY <1>5 DEF FetchMax, Owners, BudgetInv, TypeOK
    <3> QED BY <3>1, TakenUnchanged
  <2>5. \A o \in Holders : pc'[o] = "peak" => seen'[o] + bytes'[o] <= highWater'
    BY <1>5 DEF FetchMax, BudgetInv, TypeOK
  <2>6. PeakIsHighWater'
    <3>1. CASE peak = highWater
      BY <1>5, <2>1, <2>2, <3>1 DEF FetchMax, PeakIsHighWater
    <3>2. ASSUME NEW o \in Holders, pc[o] = "peak", seen[o] + bytes[o] = highWater
          PROVE  PeakIsHighWater'
      <4>1. CASE o = h
        BY <1>5, <2>1, <2>2, <3>2, <4>1 DEF FetchMax, PeakIsHighWater
      <4>2. CASE o # h
        BY <1>5, <2>2, <3>2, <4>2 DEF FetchMax, PeakIsHighWater, BudgetInv, TypeOK
      <4> QED BY <4>1, <4>2
    <3> QED BY <3>1, <3>2 DEF BudgetInv, PeakIsHighWater
  <2>s. \A o \in Holders : pc'[o] = "loop" => bytes'[o] \in Sizes
    BY <1>5 DEF FetchMax, BudgetInv, TypeOK
  <2> QED
    BY <2>s, <1>5, <2>3, <2>4, <2>5, <2>6 DEF FetchMax, BudgetInv, Accounting
<1>6. ASSUME NEW h \in Holders, DropReservation(h)
      PROVE  BudgetInv'
  <2>1. /\ h \in Owners
        /\ {h} \X (1 .. bytes[h]) \subseteq TakenBytes
        /\ bytes[h] \in Nat
    BY <1>6 DEF DropReservation, Owners, TakenBytes, BudgetInv, TypeOK
  <2>2. TakenBytes' = TakenBytes \ ({h} \X (1 .. bytes[h]))
    <3>1. Owners' = Owners \ {h} /\ \A o \in Owners' : bytes'[o] = bytes[o]
      BY <1>6 DEF DropReservation, Owners, BudgetInv, TypeOK
    <3> QED BY <2>1, <3>1 DEF TakenBytes
  <2>3. /\ IsFiniteSet(TakenBytes')
        /\ Cardinality(TakenBytes') = used - bytes[h]
        /\ bytes[h] <= used
    BY <2>1, <2>2, RemoveBlock DEF BudgetInv, Accounting
  <2>4. used' = used - bytes[h]
    <3>1. used - bytes[h] \in 0 .. MaxU64
      BY <2>1, <2>3 DEF BudgetInv, TypeOK
    <3>2. \A n \in 0 .. MaxU64 : n % (MaxU64 + 1) = n
      OBVIOUS
    <3> QED BY <1>6, <3>1, <3>2 DEF DropReservation, WrappingSub
  <2>5. used' \in 0 .. MaxU64 /\ used' <= highWater /\ highWater' = highWater /\ used' <= Limit
    BY <1>6, <2>1, <2>3, <2>4
    DEF DropReservation, Maximum, BudgetInv, TypeOK, Accounting
  <2>6. TypeOK'
    BY <1>6, <2>5 DEF DropReservation, BudgetInv, TypeOK
  <2>7. PeakIsHighWater' /\ \A o \in Holders : pc'[o] = "peak" =>
            seen'[o] + bytes'[o] <= highWater'
    BY <1>6, <2>5 DEF DropReservation, BudgetInv, TypeOK, PeakIsHighWater
  <2>s. \A o \in Holders : pc'[o] = "loop" => bytes'[o] \in Sizes
    BY <1>6 DEF DropReservation, BudgetInv, TypeOK
  <2> QED
    BY <2>s, <2>3, <2>4, <2>5, <2>6, <2>7 DEF BudgetInv, Accounting
<1>7. CASE UNCHANGED vars
  BY <1>7 DEF vars, BudgetInv, TypeOK, Accounting, TakenBytes, Owners, PeakIsHighWater
<1> QED
  BY <1>1, <1>2, <1>3, <1>4, <1>5, <1>6, <1>7 DEF Next

\* The inductive invariant holds of every behaviour.
LEMMA Invariance == Spec => []BudgetInv
BY InitInv, NextInv, PTL DEF Spec

\* The counters of the budget keep their types (lib.rs 50-55).
THEOREM TypeCorrect == Spec => []TypeOK
<1>1. BudgetInv => TypeOK
  BY DEF BudgetInv
<1> QED BY <1>1, Invariance, PTL

\* `used` is exactly the bytes of the live reservations and never exceeds the
\* limit, for any number of threads and any sizes (lib.rs 69-102, 126-130).
THEOREM AccountingHolds == Spec => []Accounting
<1>1. BudgetInv => Accounting
  BY DEF BudgetInv
<1> QED BY <1>1, Invariance, PTL

\* The reported peak loses no high point of `used` although it is updated by a
\* separate access (lib.rs 92-93).
THEOREM PeakHolds == Spec => []PeakIsHighWater
<1>1. BudgetInv => PeakIsHighWater
  BY DEF BudgetInv
<1> QED BY <1>1, Invariance, PTL

\* The abstract total is the concrete set of taken bytes.
LEMMA SameBytes == Abstract!ReservedBytes = TakenBytes
BY DEF Abstract!ReservedBytes, TakenBytes, Owners

LEMMA InitRefines == Init => Abstract!Init
BY DEF Init, Abstract!Init, Owners, Refusing

LEMMA StepRefines ==
  BudgetInv /\ [Next]_vars => [Abstract!Next]_(Abstract!absVars)
<1> SUFFICES ASSUME BudgetInv, [Next]_vars
             PROVE  [Abstract!Next]_(Abstract!absVars)
  OBVIOUS
<1> DEFINE owned == [h \in Holders |-> IF h \in Owners THEN bytes[h] ELSE 0]
           refusing == {h \in Holders : Refusing(h)}
           refused == {<<h, bytes[h]>> : h \in refusing}
<1> USE BudgetAssumption
<1>t. Abstract!Total = used /\ used \in Nat
  <2>1. Abstract!Total = Cardinality(TakenBytes)
    <3>1. Abstract!Total = Cardinality(Abstract!ReservedBytes)
      BY Zenon DEF Abstract!Total, Abstract!Cardinality, Cardinality, Abstract!IsFiniteSet, IsFiniteSet
    <3> QED BY <3>1, SameBytes
  <2> QED BY <2>1 DEF BudgetInv, Accounting, TypeOK
<1>1. ASSUME NEW h \in Holders, NEW b \in Sizes, Load(h, b)
      PROVE  [Abstract!Next]_(Abstract!absVars)
  <2>1. Owners' = Owners /\ h \notin Owners /\ \A n \in Sizes : <<h, n>> \notin refused
    BY <1>1 DEF Load, Owners, Refusing, BudgetInv, TypeOK
  <2>2. owned' = owned
    BY <1>1, <2>1 DEF Load, Owners, BudgetInv, TypeOK
  <2>3. CASE Fits(used, b)
    <3>1. refused' = refused
      BY <1>1, <2>3 DEF Load, Refusing, BudgetInv, TypeOK
    <3> QED BY <2>1, <2>2, <3>1 DEF Abstract!absVars
  <2>4. CASE ~Fits(used, b)
    <3>1. refused' = refused \cup {<<h, b>>}
      BY <1>1, <2>4 DEF Load, Refusing, BudgetInv, TypeOK
    <3>2. Abstract!Total + b > Limit
      BY <1>t, <2>4 DEF Fits
    <3>3. Abstract!Refuse(h, b)
      BY <2>1, <2>2, <3>1, <3>2 DEF Abstract!Refuse, Abstract!Answered
    <3> QED BY <3>3 DEF Abstract!Next
  <2> QED BY <2>3, <2>4
<1>2. ASSUME NEW h \in Holders, Exceeded(h)
      PROVE  [Abstract!Next]_(Abstract!absVars)
  <2>b. PICK b \in Sizes : b = bytes[h]
    BY <1>2 DEF Exceeded, BudgetInv
  <2>1. Owners' = Owners /\ <<h, b>> \in refused /\ h \notin Owners
    BY <1>2, <2>b DEF Exceeded, Owners, Refusing, BudgetInv, TypeOK
  <2>2. owned' = owned
    BY <1>2, <2>1 DEF Exceeded, Owners, BudgetInv, TypeOK
  <2>3. refused' = refused \ {<<h, b>>}
    BY <1>2, <2>b DEF Exceeded, Refusing, BudgetInv, TypeOK
  <2>4. Abstract!Return(h, b)
    BY <2>1, <2>2, <2>3 DEF Abstract!Return
  <2> QED BY <2>4 DEF Abstract!Next
<1>3. ASSUME NEW h \in Holders, CasSucceeds(h)
      PROVE  [Abstract!Next]_(Abstract!absVars)
  <2>1. Owners' = Owners \cup {h} /\ h \notin Owners /\ \A n \in Sizes : <<h, n>> \notin refused
    BY <1>3 DEF CasSucceeds, Owners, Refusing, BudgetInv, TypeOK
  <2>2. owned' = [owned EXCEPT ![h] = bytes[h]]
    BY <1>3, <2>1 DEF CasSucceeds, BudgetInv, TypeOK
  <2>3. refused' = refused
    BY <1>3 DEF CasSucceeds, Refusing, BudgetInv, TypeOK
  <2>4. bytes[h] \in Sizes /\ Abstract!Total + bytes[h] <= Limit
    BY <1>3, <1>t DEF CasSucceeds, Fits, BudgetInv
  <2>5. PICK b \in Sizes : b = bytes[h]
    BY <2>4
  <2>6. Abstract!Grant(h, b)
    BY <2>1, <2>2, <2>3, <2>4, <2>5 DEF Abstract!Grant, Abstract!Answered
  <2> QED BY <2>6 DEF Abstract!Next
<1>4. ASSUME NEW h \in Holders, CasFails(h)
      PROVE  [Abstract!Next]_(Abstract!absVars)
  <2>1. Owners' = Owners /\ h \notin Owners /\ \A n \in Sizes : <<h, n>> \notin refused
    BY <1>4 DEF CasFails, Owners, Refusing
  <2>2. owned' = owned
    BY <1>4, <2>1 DEF CasFails
  <2>3. CASE Fits(used, bytes[h])
    <3>1. refused' = refused
      BY <1>4, <2>3 DEF CasFails, Refusing, BudgetInv, TypeOK
    <3> QED BY <2>1, <2>2, <3>1 DEF Abstract!absVars
  <2>4. CASE ~Fits(used, bytes[h])
    <3>b. PICK b \in Sizes : b = bytes[h]
      BY <1>4 DEF CasFails, BudgetInv
    <3>1. refused' = refused \cup {<<h, b>>}
      BY <1>4, <2>4, <3>b DEF CasFails, Refusing, BudgetInv, TypeOK
    <3>2. Abstract!Total + b > Limit
      BY <1>t, <1>4, <2>4, <3>b DEF Fits, CasFails, BudgetInv, TypeOK
    <3>3. Abstract!Refuse(h, b)
      BY <2>1, <2>2, <3>1, <3>2 DEF Abstract!Refuse, Abstract!Answered
    <3> QED BY <3>2, <3>3 DEF Abstract!Next
  <2> QED BY <2>3, <2>4
<1>5. ASSUME NEW h \in Holders, FetchMax(h)
      PROVE  [Abstract!Next]_(Abstract!absVars)
  <2>1. Owners' = Owners /\ owned' = owned
    BY <1>5 DEF FetchMax, Owners, BudgetInv, TypeOK
  <2>2. refused' = refused
    BY <1>5 DEF FetchMax, Refusing, BudgetInv, TypeOK
  <2> QED BY <2>1, <2>2 DEF Abstract!absVars
<1>6. ASSUME NEW h \in Holders, DropReservation(h)
      PROVE  [Abstract!Next]_(Abstract!absVars)
  <2>1. Owners' = Owners \ {h} /\ h \in Owners
    BY <1>6 DEF DropReservation, Owners, BudgetInv, TypeOK
  <2>2. owned' = [owned EXCEPT ![h] = 0]
    BY <1>6, <2>1 DEF DropReservation, BudgetInv, TypeOK
  <2>3. refused' = refused
    BY <1>6 DEF DropReservation, Refusing, BudgetInv, TypeOK
  <2>4. Abstract!Release(h)
    BY <2>1, <2>2, <2>3 DEF Abstract!Release
  <2> QED BY <2>4 DEF Abstract!Next
<1>7. CASE UNCHANGED vars
  BY <1>7 DEF vars, Abstract!absVars, Owners, Refusing
<1> QED
  BY <1>1, <1>2, <1>3, <1>4, <1>5, <1>6, <1>7 DEF Next

\* The compare-and-exchange loop implements the atomic budget: each grant and
\* each refusal is correct at one instant of the call (lib.rs 69-102).
THEOREM Refinement == Spec => ImplementsAtomicBudget
BY InitRefines, StepRefines, Invariance, PTL
DEF Spec, ImplementsAtomicBudget, Abstract!Spec

-----------------------------------------------------------------------------
(* The bounded queue. *)

Ids == Senders \X Nat
Messages == [id : Ids, bytes : Nat]

QueueTypeOK ==
  /\ queue \in Seq(Messages)
  /\ reserved \in Nat
  /\ cancelled \in BOOLEAN
  /\ at \in [Threads -> {"idle", "poll", "wait", "hold", "gone"}]
  /\ cargo \in [Threads -> Messages \cup {NoMessage}]
  /\ sends \in [Senders -> Nat]
  /\ outcome \in [Threads -> {"none", "ok", "cancelled", "budget_exceeded", "disconnected"}]
  /\ accepted \in Seq(Ids)
  /\ delivered \in Seq(Ids)

IdsOf(q) == [i \in 1 .. Len(q) |-> q[i].id]

\* Who has a message in hand: a sender inside send, a receiver until it drops it.
Carries(t) ==
  \/ t \in Senders /\ at[t] \in {"poll", "wait"}
  \/ t \in Receivers /\ at[t] = "hold"

InHand == \A t \in Threads : IF Carries(t) THEN cargo[t] \in Messages ELSE cargo[t] = NoMessage

BytesCounted ==
  /\ IsFiniteSet(QueuedBytes(queue)) /\ IsFiniteSet(HeldBytes(cargo))
  /\ reserved = Cardinality(QueuedBytes(queue)) + Cardinality(HeldBytes(cargo))

\* What was accepted was delivered or is in the channel, in that order, until
\* the last receiver leaves; who hears "disconnected" missed nothing, and
\* nothing comes any more.
InOrder ==
  /\ Connected(Receivers) => accepted = delivered \o IdsOf(queue)
  /\ ~Connected(Receivers) => queue = <<>>
  /\ delivered = SubSeq(accepted, 1, Len(delivered))
  /\ (\E r \in Receivers : outcome[r] = "disconnected") =>
       queue = <<>> /\ delivered = accepted /\ ~Connected(Senders)

QueueInv == QueueTypeOK /\ InHand /\ BytesCounted /\ InOrder

\* The bytes of a channel are those of its messages, at either end.
LEMMA QueuedAppend ==
  ASSUME NEW q \in Seq(Messages), NEW m \in Messages, IsFiniteSet(QueuedBytes(q))
  PROVE  /\ IsFiniteSet(QueuedBytes(Append(q, m)))
         /\ Cardinality(QueuedBytes(Append(q, m))) = Cardinality(QueuedBytes(q)) + m.bytes
<1>1. /\ Len(q) \in Nat /\ m.bytes \in Nat
      /\ Len(Append(q, m)) = Len(q) + 1
      /\ \A i \in 1 .. Len(q) : Append(q, m)[i] = q[i]
      /\ Append(q, m)[Len(q) + 1] = m
  BY AppendProperties DEF Messages
<1>2. QueuedBytes(Append(q, m)) = QueuedBytes(q) \cup ({Len(q) + 1} \X (1 .. m.bytes))
  <2>1. 1 .. Len(q) + 1 = (1 .. Len(q)) \cup {Len(q) + 1}
    BY <1>1
  <2> QED BY <1>1, <2>1 DEF QueuedBytes
<1>3. \A x \in QueuedBytes(q) : x[1] # Len(q) + 1
  BY <1>1 DEF QueuedBytes
<1>4. /\ IsFiniteSet(QueuedBytes(q) \cup ({Len(q) + 1} \X (1 .. m.bytes)))
      /\ Cardinality(QueuedBytes(q) \cup ({Len(q) + 1} \X (1 .. m.bytes))) =
           Cardinality(QueuedBytes(q)) + m.bytes
  BY <1>1, <1>3, AddBlock
<1> QED BY <1>2, <1>4

LEMMA QueuedTail ==
  ASSUME NEW q \in Seq(Messages), q # <<>>, IsFiniteSet(QueuedBytes(q))
  PROVE  /\ IsFiniteSet(QueuedBytes(Tail(q)))
         /\ Cardinality(QueuedBytes(q)) = Cardinality(QueuedBytes(Tail(q))) + Head(q).bytes
<1> DEFINE Front == {1} \X (1 .. q[1].bytes)
           Rest == QueuedBytes(q) \ Front
           T == QueuedBytes(Tail(q))
           f == [x \in Rest |-> <<x[1] - 1, x[2]>>]
<1>1. /\ Len(q) \in Nat \ {0} /\ Len(Tail(q)) = Len(q) - 1
      /\ \A i \in 1 .. Len(q) - 1 : Tail(q)[i] = q[i + 1]
      /\ Head(q) = q[1] /\ \A i \in 1 .. Len(q) : q[i] \in Messages
  BY HeadTailProperties
<1>2. \A i \in 1 .. Len(q) : q[i].bytes \in Nat
  BY <1>1 DEF Messages
<1>3. Rest = {x \in (2 .. Len(q)) \X Nat : x[2] \in 1 .. q[x[1]].bytes}
  BY <1>1, <1>2 DEF QueuedBytes
<1>4. T = {x \in (1 .. Len(q) - 1) \X Nat : x[2] \in 1 .. q[x[1] + 1].bytes}
  BY <1>1, <1>2 DEF QueuedBytes
<1> HIDE DEF Rest, T
<1>5. f \in Bijection(Rest, T)
  <2>1. \A x \in Rest : f[x] \in T
    BY <1>1, <1>3, <1>4
  <2>2. \A x, y \in Rest : f[x] = f[y] => x = y
    BY <1>1, <1>3
  <2>3. \A y \in T : \E x \in Rest : f[x] = y
    <3> SUFFICES ASSUME NEW y \in T PROVE \E x \in Rest : f[x] = y
      OBVIOUS
    <3>1. y[1] + 1 \in 2 .. Len(q) /\ y[2] \in 1 .. q[y[1] + 1].bytes /\ y = <<y[1], y[2]>> /\ y[2] \in Nat
      BY <1>1, <1>2, <1>4
    <3>2. <<y[1] + 1, y[2]>> \in Rest
      BY <1>1, <1>3, <3>1
    <3>3. f[<<y[1] + 1, y[2]>>] = y
      BY <1>1, <1>4, <3>1, <3>2
    <3> QED BY <3>2, <3>3
  <2>4. f \in [Rest -> T]
    BY <2>1
  <2> HIDE DEF f
  <2> QED BY <2>2, <2>3, <2>4 DEF Bijection, Injection, IsInjective, Surjection
<1>6. /\ IsFiniteSet(Rest)
      /\ Cardinality(Rest) = Cardinality(QueuedBytes(q)) - q[1].bytes
      /\ q[1].bytes <= Cardinality(QueuedBytes(q))
  <2>1. Front \subseteq QueuedBytes(q) /\ q[1].bytes \in Nat
    BY <1>1, <1>2 DEF QueuedBytes
  <2> QED BY <2>1, RemoveBlock DEF Rest
<1>7. IsFiniteSet(T) /\ Cardinality(T) = Cardinality(Rest)
  BY <1>5, <1>6, FS_Bijection DEF ExistsBijection
<1>8. Cardinality(QueuedBytes(q)) \in Nat /\ q[1].bytes \in Nat
  BY <1>1, <1>2, FS_CardinalityType
<1> QED BY <1>1, <1>6, <1>7, <1>8 DEF T

\* Taking a message in hand, and letting go of it.
LEMMA TakeInHand ==
  ASSUME NEW c \in [Threads -> Messages \cup {NoMessage}], NEW t \in Threads, NEW m \in Messages,
         c[t] = NoMessage, IsFiniteSet(HeldBytes(c))
  PROVE  /\ IsFiniteSet(HeldBytes([c EXCEPT ![t] = m]))
         /\ Cardinality(HeldBytes([c EXCEPT ![t] = m])) = Cardinality(HeldBytes(c)) + m.bytes
<1>1. m.bytes \in Nat /\ c[t].bytes = 0
  BY DEF Messages, NoMessage
<1>2. HeldBytes([c EXCEPT ![t] = m]) = HeldBytes(c) \cup ({t} \X (1 .. m.bytes))
  BY <1>1 DEF HeldBytes
<1>3. \A x \in HeldBytes(c) : x[1] # t
  BY <1>1 DEF HeldBytes
<1>4. /\ IsFiniteSet(HeldBytes(c) \cup ({t} \X (1 .. m.bytes)))
      /\ Cardinality(HeldBytes(c) \cup ({t} \X (1 .. m.bytes))) = Cardinality(HeldBytes(c)) + m.bytes
  BY <1>1, <1>3, AddBlock
<1> QED BY <1>2, <1>4

LEMMA LetGo ==
  ASSUME NEW c \in [Threads -> Messages \cup {NoMessage}], NEW t \in Threads, IsFiniteSet(HeldBytes(c))
  PROVE  /\ IsFiniteSet(HeldBytes([c EXCEPT ![t] = NoMessage]))
         /\ Cardinality(HeldBytes(c)) =
              Cardinality(HeldBytes([c EXCEPT ![t] = NoMessage])) + c[t].bytes
         /\ c[t].bytes \in Nat
<1>1. c[t].bytes \in Nat /\ NoMessage.bytes = 0
  BY DEF Messages, NoMessage
<1>2. HeldBytes([c EXCEPT ![t] = NoMessage]) = HeldBytes(c) \ ({t} \X (1 .. c[t].bytes))
  BY <1>1 DEF HeldBytes
<1>3. {t} \X (1 .. c[t].bytes) \subseteq HeldBytes(c)
  BY DEF HeldBytes
<1>4. Cardinality(HeldBytes(c)) \in Nat
  BY FS_CardinalityType
<1>5. /\ IsFiniteSet(HeldBytes(c) \ ({t} \X (1 .. c[t].bytes)))
      /\ Cardinality(HeldBytes(c) \ ({t} \X (1 .. c[t].bytes))) = Cardinality(HeldBytes(c)) - c[t].bytes
  BY <1>1, <1>3, RemoveBlock
<1>6. /\ IsFiniteSet(HeldBytes([c EXCEPT ![t] = NoMessage]))
      /\ Cardinality(HeldBytes([c EXCEPT ![t] = NoMessage])) = Cardinality(HeldBytes(c)) - c[t].bytes
  BY <1>2, <1>5, Zenon
<1>7. c[t].bytes \in Nat
  BY <1>1
<1> QED BY <1>4, <1>6, <1>7

LEMMA InitQueue == QueueInit => QueueInv
<1> SUFFICES ASSUME QueueInit PROVE QueueInv
  OBVIOUS
<1>1. QueueTypeOK
  <2>1. queue \in Seq(Messages) /\ accepted \in Seq(Ids) /\ delivered \in Seq(Ids)
    BY EmptySeq DEF QueueInit
  <2>2. cargo \in [Threads -> Messages \cup {NoMessage}]
    BY DEF QueueInit
  <2> QED BY <2>1, <2>2 DEF QueueInit, QueueTypeOK
<1>01. InHand
  BY DEF QueueInit, InHand, Carries
<1>2. QueuedBytes(queue) = {} /\ HeldBytes(cargo) = {}
  <2>1. QueuedBytes(queue) = {}
    BY DEF QueueInit, QueuedBytes
  <2>2. \A t \in Threads : cargo[t].bytes = 0
    BY DEF QueueInit, NoMessage
  <2> QED BY <2>1, <2>2 DEF HeldBytes
<1>3. BytesCounted
  <2>1. IsFiniteSet({}) /\ Cardinality({}) = 0
    BY FS_EmptySet
  <2>2. IsFiniteSet(QueuedBytes(queue)) /\ Cardinality(QueuedBytes(queue)) = 0
    BY <1>2, <2>1
  <2>3. IsFiniteSet(HeldBytes(cargo)) /\ Cardinality(HeldBytes(cargo)) = 0
    BY <1>2, <2>1
  <2> QED BY <2>2, <2>3 DEF QueueInit, BytesCounted
<1>4. InOrder
  <2>1. queue = <<>> /\ accepted = <<>> /\ delivered = <<>>
    BY DEF QueueInit
  <2>2. IdsOf(queue) = <<>>
    BY <2>1 DEF IdsOf
  <2>3. \A r \in Receivers : outcome[r] # "disconnected"
    BY DEF QueueInit, Threads
  <2>4. delivered = SubSeq(accepted, 1, Len(delivered))
    BY <2>1
  <2>5. accepted = delivered \o IdsOf(queue)
    BY <2>1, <2>2
  <2> QED BY <2>1, <2>3, <2>4, <2>5 DEF InOrder
<1> QED BY <1>1, <1>01, <1>3, <1>4 DEF QueueInv

\* The steps, as they change what is counted: nothing, or one message that is
\* taken in hand, let go of, put into the channel, taken out of it, or lost
\* with the last receiver.
Unmoved ==
  UNCHANGED <<queue, reserved, cargo, accepted, delivered>>

Reserving(s, m) ==
  /\ s \in Senders /\ m \in Messages /\ ~Carries(s)
  /\ reserved' = reserved + m.bytes /\ cargo' = [cargo EXCEPT ![s] = m]
  /\ UNCHANGED <<queue, accepted, delivered>>

Releasing(t) ==
  /\ t \in Threads /\ Carries(t)
  /\ reserved' = reserved - cargo[t].bytes /\ cargo' = [cargo EXCEPT ![t] = NoMessage]
  /\ UNCHANGED <<queue, accepted, delivered>>

Accepting(s) ==
  /\ s \in Senders /\ Carries(s) /\ Connected(Receivers)
  /\ queue' = Append(queue, cargo[s]) /\ accepted' = Append(accepted, cargo[s].id)
  /\ cargo' = [cargo EXCEPT ![s] = NoMessage]
  /\ UNCHANGED <<reserved, delivered>>

Delivering(r) ==
  /\ r \in Receivers /\ ~Carries(r) /\ queue # <<>>
  /\ queue' = Tail(queue) /\ delivered' = Append(delivered, Head(queue).id)
  /\ cargo' = [cargo EXCEPT ![r] = Head(queue)]
  /\ UNCHANGED <<reserved, accepted>>

Discarding ==
  /\ ~Connected(Receivers)'
  /\ queue' = <<>> /\ reserved' = reserved - Cardinality(QueuedBytes(queue))
  /\ UNCHANGED <<cargo, accepted, delivered>>

Moves ==
  \/ Unmoved
  \/ \E s \in Senders, m \in Messages : Reserving(s, m)
  \/ \E t \in Threads : Releasing(t)
  \/ \E s \in Senders : Accepting(s)
  \/ \E r \in Receivers : Delivering(r)
  \/ Discarding

\* A thread with empty hands that drops what it has drops nothing.
LEMMA NothingInHand ==
  ASSUME QueueTypeOK, InHand, NEW t \in Threads, ~Carries(t)
  PROVE  [cargo EXCEPT ![t] = NoMessage] = cargo
  BY DEF QueueTypeOK, InHand

LEMMA EveryMove ==
  ASSUME QueueTypeOK, InHand, [QueueNext]_queueVars
  PROVE  Moves
<1> USE DEF Threads
<1>1. ASSUME NEW s \in Senders, NEW b \in Estimates, Send(s, b) PROVE Moves
  <2>1. s \in Threads /\ s \notin Receivers /\ ~Carries(s)
    BY <1>1, QueueAssumption DEF Send, Carries
  <2>2. CASE cargo' = [cargo EXCEPT ![s] = NoMessage] /\ UNCHANGED reserved
    BY <1>1, <2>1, <2>2, NothingInHand DEF Send, Moves, Unmoved
  <2>3. CASE /\ cargo' = [cargo EXCEPT ![s] = [id |-> <<s, sends[s]>>, bytes |-> b]]
             /\ reserved' = reserved + b
    <3>1. [id |-> <<s, sends[s]>>, bytes |-> b] \in Messages
      BY QueueAssumption DEF Messages, Ids, QueueTypeOK
    <3>2. Reserving(s, [id |-> <<s, sends[s]>>, bytes |-> b])
      BY <1>1, <2>1, <2>3, <3>1 DEF Send, Reserving
    <3> QED BY <3>1, <3>2 DEF Moves
  <2> QED BY <1>1, <2>2, <2>3 DEF Send, Returns
<1>2. ASSUME NEW t \in Threads, SendPoll(t) PROVE Moves
  <2>1. t \in Senders /\ Carries(t)
    BY <1>2 DEF SendPoll, Carries
  <2>2. Unmoved \/ Releasing(t)
    BY <1>2, <2>1 DEF SendPoll, Returns, Unmoved, Releasing
  <2> QED BY <2>2 DEF Moves
<1>3. ASSUME NEW t \in Threads, SendWait(t) PROVE Moves
  <2>1. t \in Senders /\ Carries(t)
    BY <1>3 DEF SendWait, Carries
  <2>2. Unmoved \/ Releasing(t) \/ Accepting(t)
    BY <1>3, <2>1 DEF SendWait, Returns, Unmoved, Releasing, Accepting
  <2> QED BY <2>1, <2>2 DEF Moves
<1>4. ASSUME NEW t \in Threads, Recv(t) \/ RecvPoll(t) PROVE Moves
  <2>1. ~Carries(t)
    BY <1>4, QueueAssumption DEF Recv, RecvPoll, Carries
  <2>2. Unmoved
    BY <1>4, <2>1, NothingInHand DEF Recv, RecvPoll, Returns, Unmoved
  <2> QED BY <2>2 DEF Moves
<1>5. ASSUME NEW t \in Threads, RecvWait(t) PROVE Moves
  <2>1. t \in Receivers /\ ~Carries(t)
    BY <1>5, QueueAssumption DEF RecvWait, Carries
  <2>2. Unmoved \/ Delivering(t)
    BY <1>5, <2>1, NothingInHand DEF RecvWait, Returns, Unmoved, Delivering
  <2> QED BY <2>1, <2>2 DEF Moves
<1>6. ASSUME NEW t \in Threads, Unwrap(t) PROVE Moves
  <2>1. CASE Carries(t)
    <3>1. Releasing(t)
      BY <1>6, <2>1 DEF Unwrap, Releasing
    <3> QED BY <3>1 DEF Moves
  <2>2. CASE ~Carries(t)
    <3>1. cargo' = cargo /\ cargo[t].bytes = 0
      BY <1>6, <2>2, NothingInHand DEF Unwrap, InHand, NoMessage
    <3>2. reserved' = reserved
      BY <1>6, <3>1 DEF Unwrap, QueueTypeOK
    <3> QED BY <1>6, <3>1, <3>2 DEF Unwrap, Moves, Unmoved
  <2> QED BY <2>1, <2>2
<1>7. ASSUME NEW t \in Threads, DropHandle(t) PROVE Moves
  <2>1. CASE t \in Receivers /\ \A r \in Receivers \ {t} : at[r] = "gone"
    <3>1. \A r \in Receivers : at'[r] = "gone"
      BY <1>7, <2>1 DEF DropHandle, QueueTypeOK
    <3> QED BY <1>7, <2>1, <3>1 DEF DropHandle, Moves, Discarding, Connected
  <2>2. CASE ~(t \in Receivers /\ \A r \in Receivers \ {t} : at[r] = "gone")
    BY <1>7, <2>2 DEF DropHandle, Moves, Unmoved
  <2> QED BY <2>1, <2>2
<1>8. CASE Cancel \/ UNCHANGED queueVars
  BY <1>8 DEF Cancel, queueVars, Moves, Unmoved
<1> QED BY <1>1, <1>2, <1>3, <1>4, <1>5, <1>6, <1>7, <1>8 DEF QueueNext, Work

LEMMA NextCounted ==
  ASSUME QueueTypeOK, InHand, BytesCounted, Moves
  PROVE  BytesCounted' /\ reserved' \in Nat
<1>0. /\ cargo \in [Threads -> Messages \cup {NoMessage}] /\ queue \in Seq(Messages)
      /\ IsFiniteSet(QueuedBytes(queue)) /\ IsFiniteSet(HeldBytes(cargo))
      /\ reserved = Cardinality(QueuedBytes(queue)) + Cardinality(HeldBytes(cargo))
      /\ Cardinality(QueuedBytes(queue)) \in Nat /\ Cardinality(HeldBytes(cargo)) \in Nat
  BY FS_CardinalityType DEF QueueTypeOK, BytesCounted
<1>1. CASE Unmoved
  BY <1>0, <1>1 DEF Unmoved, BytesCounted
<1>2. ASSUME NEW s \in Senders, NEW m \in Messages, Reserving(s, m) PROVE BytesCounted'
  <2>1. s \in Threads /\ cargo[s] = NoMessage
    BY <1>2 DEF Reserving, InHand, Threads
  <2>2. /\ IsFiniteSet(HeldBytes(cargo'))
        /\ Cardinality(HeldBytes(cargo')) = Cardinality(HeldBytes(cargo)) + m.bytes
    BY <1>0, <1>2, <2>1, TakeInHand DEF Reserving
  <2>3. m.bytes \in Nat /\ queue' = queue /\ reserved' = reserved + m.bytes
    BY <1>2 DEF Messages, Reserving
  <2> QED BY <1>0, <2>2, <2>3 DEF BytesCounted
<1>3. ASSUME NEW t \in Threads, Releasing(t) PROVE BytesCounted'
  <2>1. /\ IsFiniteSet(HeldBytes(cargo'))
        /\ Cardinality(HeldBytes(cargo)) = Cardinality(HeldBytes(cargo')) + cargo[t].bytes
        /\ cargo[t].bytes \in Nat
    BY <1>0, <1>3, LetGo DEF Releasing
  <2>2. Cardinality(HeldBytes(cargo')) \in Nat /\ Cardinality(QueuedBytes(queue)) \in Nat
    BY <1>0, <2>1, FS_CardinalityType DEF BytesCounted
  <2>3. queue' = queue /\ reserved' = reserved - cargo[t].bytes
    BY <1>3 DEF Releasing
  <2>4. reserved = Cardinality(QueuedBytes(queue)) + Cardinality(HeldBytes(cargo))
    BY <1>0 DEF BytesCounted
  <2> DEFINE q == Cardinality(QueuedBytes(queue))
             h == Cardinality(HeldBytes(cargo'))
             b == cargo[t].bytes
  <2>5. reserved = q + (h + b) /\ reserved' = reserved - b /\ q \in Nat /\ h \in Nat /\ b \in Nat
    BY <2>1, <2>2, <2>3, <2>4
  <2> HIDE DEF q, h, b
  <2>6. reserved' = q + h
    BY <2>5
  <2> QED BY <1>0, <2>1, <2>3, <2>6 DEF BytesCounted, q, h
<1>4. ASSUME NEW s \in Senders, Accepting(s) PROVE BytesCounted'
  <2>1. s \in Threads /\ cargo[s] \in Messages
    BY <1>4 DEF Accepting, InHand, Threads
  <2>2. /\ IsFiniteSet(HeldBytes(cargo'))
        /\ Cardinality(HeldBytes(cargo)) = Cardinality(HeldBytes(cargo')) + cargo[s].bytes
        /\ cargo[s].bytes \in Nat
    BY <1>0, <1>4, <2>1, LetGo DEF Accepting
  <2>3. /\ IsFiniteSet(QueuedBytes(queue'))
        /\ Cardinality(QueuedBytes(queue')) = Cardinality(QueuedBytes(queue)) + cargo[s].bytes
    BY <1>0, <1>4, <2>1, QueuedAppend DEF Accepting
  <2>4. Cardinality(HeldBytes(cargo')) \in Nat
    BY <2>2, FS_CardinalityType
  <2> QED BY <1>0, <1>4, <2>2, <2>3, <2>4 DEF BytesCounted, Accepting
<1>5. ASSUME NEW r \in Receivers, Delivering(r) PROVE BytesCounted'
  <2>1. r \in Threads /\ cargo[r] = NoMessage /\ Head(queue) \in Messages
    BY <1>0, <1>5 DEF Delivering, InHand, Threads
  <2>2. /\ IsFiniteSet(HeldBytes(cargo'))
        /\ Cardinality(HeldBytes(cargo')) = Cardinality(HeldBytes(cargo)) + Head(queue).bytes
    BY <1>0, <1>5, <2>1, TakeInHand DEF Delivering
  <2>3. /\ IsFiniteSet(QueuedBytes(queue'))
        /\ Cardinality(QueuedBytes(queue)) = Cardinality(QueuedBytes(queue')) + Head(queue).bytes
    BY <1>0, <1>5, QueuedTail DEF Delivering
  <2>4. Cardinality(QueuedBytes(queue')) \in Nat /\ Head(queue).bytes \in Nat
    BY <2>1, <2>3, FS_CardinalityType DEF Messages
  <2> QED BY <1>0, <1>5, <2>2, <2>3, <2>4 DEF BytesCounted, Delivering
<1>6. CASE Discarding
  <2>1. QueuedBytes(<<>>) = {}
    BY DEF QueuedBytes
  <2>2. IsFiniteSet(QueuedBytes(<<>>)) /\ Cardinality(QueuedBytes(<<>>)) = 0
    BY <2>1, FS_EmptySet
  <2>3. reserved' = Cardinality(HeldBytes(cargo))
    BY <1>0, <1>6 DEF Discarding
  <2> QED BY <1>0, <1>6, <2>2, <2>3 DEF Discarding, BytesCounted
<1>7. BytesCounted'
  BY <1>1, <1>2, <1>3, <1>4, <1>5, <1>6 DEF Moves
<1>8. reserved' \in Nat
  <2>1. Cardinality(QueuedBytes(queue')) \in Nat /\ Cardinality(HeldBytes(cargo')) \in Nat
    BY <1>7, FS_CardinalityType DEF BytesCounted
  <2> QED BY <1>7, <2>1 DEF BytesCounted
<1> QED BY <1>7, <1>8

\* One thread moves and has in hand what its new place says.
LEMMA OneMoves ==
  ASSUME QueueTypeOK, InHand, NEW t \in Threads,
         NEW place \in {"idle", "poll", "wait", "hold", "gone"},
         NEW m \in Messages \cup {NoMessage},
         at' = [at EXCEPT ![t] = place], cargo' = [cargo EXCEPT ![t] = m],
         IF \/ t \in Senders /\ place \in {"poll", "wait"}
            \/ t \in Receivers /\ place = "hold"
         THEN m \in Messages ELSE m = NoMessage
  PROVE  /\ at' \in [Threads -> {"idle", "poll", "wait", "hold", "gone"}]
         /\ cargo' \in [Threads -> Messages \cup {NoMessage}]
         /\ InHand'
<1>1. /\ at' \in [Threads -> {"idle", "poll", "wait", "hold", "gone"}]
      /\ cargo' \in [Threads -> Messages \cup {NoMessage}]
  BY DEF QueueTypeOK
<1>2. at'[t] = place /\ cargo'[t] = m
  BY DEF QueueTypeOK
<1>3. \A u \in Threads \ {t} : at'[u] = at[u] /\ cargo'[u] = cargo[u]
  BY DEF QueueTypeOK
<1>4. ASSUME NEW u \in Threads
      PROVE  IF Carries(u)' THEN cargo'[u] \in Messages ELSE cargo'[u] = NoMessage
  <2>1. CASE u = t
    BY <1>2, <2>1 DEF Carries
  <2>2. CASE u # t
    BY <1>3, <2>2 DEF Carries, InHand
  <2> QED BY <2>1, <2>2
<1> QED BY <1>1, <1>4 DEF InHand

\* The same when the thread keeps what it had.
LEMMA OneSteps ==
  ASSUME QueueTypeOK, InHand, NEW t \in Threads,
         NEW place \in {"idle", "poll", "wait", "hold", "gone"},
         at' = [at EXCEPT ![t] = place], cargo' = cargo,
         Carries(t) <=> (\/ t \in Senders /\ place \in {"poll", "wait"}
                         \/ t \in Receivers /\ place = "hold")
  PROVE  /\ at' \in [Threads -> {"idle", "poll", "wait", "hold", "gone"}]
         /\ cargo' \in [Threads -> Messages \cup {NoMessage}]
         /\ InHand'
<1>1. cargo[t] \in Messages \cup {NoMessage} /\ cargo' = [cargo EXCEPT ![t] = cargo[t]]
  BY DEF QueueTypeOK
<1>2. IF Carries(t) THEN cargo[t] \in Messages ELSE cargo[t] = NoMessage
  BY DEF InHand
<1> QED BY <1>1, <1>2, OneMoves

LEMMA NextInHand ==
  ASSUME QueueTypeOK, InHand, [QueueNext]_queueVars
  PROVE  /\ at' \in [Threads -> {"idle", "poll", "wait", "hold", "gone"}]
         /\ cargo' \in [Threads -> Messages \cup {NoMessage}]
         /\ InHand'
<1> DEFINE Goal == /\ at' \in [Threads -> {"idle", "poll", "wait", "hold", "gone"}]
                   /\ cargo' \in [Threads -> Messages \cup {NoMessage}]
                   /\ InHand'
<1> SUFFICES Goal
  OBVIOUS
<1>0. \A t \in Threads : t \in Senders <=> t \notin Receivers
  BY QueueAssumption DEF Threads
<1>1. ASSUME NEW s \in Senders, NEW b \in Estimates, Send(s, b) PROVE Goal
  <2>1. s \in Threads /\ s \notin Receivers
    BY <1>0 DEF Threads
  <2>2. CASE /\ at' = [at EXCEPT ![s] = "idle"] /\ cargo' = [cargo EXCEPT ![s] = NoMessage]
    BY <2>1, <2>2, OneMoves
  <2>3. CASE /\ cargo' = [cargo EXCEPT ![s] = [id |-> <<s, sends[s]>>, bytes |-> b]]
             /\ at' = [at EXCEPT ![s] = "poll"]
    <3>1. [id |-> <<s, sends[s]>>, bytes |-> b] \in Messages
      BY QueueAssumption DEF Messages, Ids, QueueTypeOK
    <3> QED BY <2>1, <2>3, <3>1, OneMoves
  <2> QED BY <1>1, <2>2, <2>3 DEF Send, Returns
<1>2. ASSUME NEW t \in Threads, SendPoll(t) \/ SendWait(t) PROVE Goal
  <2>1. t \in Senders /\ t \notin Receivers /\ Carries(t)
    BY <1>0, <1>2 DEF SendPoll, SendWait, Carries
  <2>2. CASE at' = [at EXCEPT ![t] = "idle"] /\ cargo' = [cargo EXCEPT ![t] = NoMessage]
    BY <2>1, <2>2, OneMoves
  <2>3. CASE at' = [at EXCEPT ![t] = "wait"] /\ cargo' = cargo
    BY <2>1, <2>3, OneSteps
  <2>4. CASE at' = [at EXCEPT ![t] = "poll"] /\ cargo' = cargo
    BY <2>1, <2>4, OneSteps
  <2> QED BY <1>2, <2>2, <2>3, <2>4 DEF SendPoll, SendWait, Returns
<1>3. ASSUME NEW t \in Threads, Recv(t) \/ RecvPoll(t) \/ RecvWait(t) PROVE Goal
  <2>1. t \in Receivers /\ t \notin Senders /\ ~Carries(t)
    BY <1>0, <1>3 DEF Recv, RecvPoll, RecvWait, Carries
  <2>2. CASE at' = [at EXCEPT ![t] = "idle"] /\ cargo' = [cargo EXCEPT ![t] = NoMessage]
    BY <2>1, <2>2, OneMoves
  <2>3. CASE at' = [at EXCEPT ![t] = "wait"] /\ cargo' = cargo
    BY <2>1, <2>3, OneSteps
  <2>4. CASE at' = [at EXCEPT ![t] = "poll"] /\ cargo' = cargo
    BY <2>1, <2>4, OneSteps
  <2>5. CASE /\ at' = [at EXCEPT ![t] = "hold"] /\ queue # <<>>
             /\ cargo' = [cargo EXCEPT ![t] = Head(queue)]
    <3>1. Head(queue) \in Messages
      BY <2>5 DEF QueueTypeOK
    <3> QED BY <2>1, <2>5, <3>1, OneMoves
  <2> QED BY <1>3, <2>2, <2>3, <2>4, <2>5 DEF Recv, RecvPoll, RecvWait, Returns
<1>4. ASSUME NEW t \in Threads, Unwrap(t) PROVE Goal
  BY <1>4, OneMoves DEF Unwrap
<1>5. ASSUME NEW t \in Threads, DropHandle(t) PROVE Goal
  <2>1. ~Carries(t) /\ cargo' = cargo /\ at' = [at EXCEPT ![t] = "gone"]
    BY <1>5 DEF DropHandle, Carries
  <2> QED BY <2>1, OneSteps
<1>6. CASE Cancel \/ UNCHANGED queueVars
  <2>1. at' = at /\ cargo' = cargo
    BY <1>6 DEF Cancel, queueVars
  <2> QED BY <2>1 DEF QueueTypeOK, InHand, Carries
<1> HIDE DEF Goal
<1> QED BY <1>1, <1>2, <1>3, <1>4, <1>5, <1>6 DEF QueueNext, Work, Threads

LEMMA NextQueueType ==
  ASSUME QueueTypeOK, InHand, BytesCounted, [QueueNext]_queueVars
  PROVE  QueueTypeOK'
<1>1. Moves
  BY EveryMove
<1>2. reserved' \in Nat
  BY <1>1, NextCounted
<1>3. queue' \in Seq(Messages) /\ accepted' \in Seq(Ids) /\ delivered' \in Seq(Ids)
  <2>1. ASSUME NEW s \in Senders, Accepting(s)
        PROVE  queue' \in Seq(Messages) /\ accepted' \in Seq(Ids) /\ delivered' \in Seq(Ids)
    <3>1. cargo[s] \in Messages /\ cargo[s].id \in Ids
      BY <2>1 DEF Accepting, InHand, Threads, Messages
    <3> QED BY <2>1, <3>1 DEF Accepting, QueueTypeOK
  <2>2. ASSUME NEW r \in Receivers, Delivering(r)
        PROVE  queue' \in Seq(Messages) /\ accepted' \in Seq(Ids) /\ delivered' \in Seq(Ids)
    <3>1. Head(queue) \in Messages /\ Tail(queue) \in Seq(Messages)
      BY <2>2 DEF Delivering, QueueTypeOK
    <3>2. Head(queue).id \in Ids
      BY <3>1 DEF Messages
    <3> QED BY <2>2, <3>1, <3>2 DEF Delivering, QueueTypeOK
  <2>3. CASE Discarding
    BY <2>3, EmptySeq DEF Discarding, QueueTypeOK
  <2> QED BY <1>1, <2>1, <2>2, <2>3 DEF Moves, Unmoved, Reserving, Releasing, QueueTypeOK
<1>4. at' \in [Threads -> {"idle", "poll", "wait", "hold", "gone"}]
      /\ cargo' \in [Threads -> Messages \cup {NoMessage}]
  BY NextInHand
<1>5. sends' \in [Senders -> Nat] /\ cancelled' \in BOOLEAN
  <2>1. sends' = sends \/ \E s \in Senders : sends' = [sends EXCEPT ![s] = @ + 1]
    BY DEF QueueNext, Work, Send, SendPoll, SendWait, Recv, RecvPoll, RecvWait, Unwrap,
       DropHandle, Cancel, queueVars
  <2>2. cancelled' = cancelled \/ cancelled' = TRUE
    BY DEF QueueNext, Work, Send, SendPoll, SendWait, Recv, RecvPoll, RecvWait, Unwrap,
       DropHandle, Cancel, queueVars
  <2>3. sends' \in [Senders -> Nat]
    BY <2>1 DEF QueueTypeOK
  <2> QED BY <2>2, <2>3 DEF QueueTypeOK
<1>6. outcome' \in [Threads -> {"none", "ok", "cancelled", "budget_exceeded", "disconnected"}]
  BY DEF QueueTypeOK, QueueNext, Work, Send, SendPoll, SendWait, Recv, RecvPoll, RecvWait, Unwrap,
     DropHandle, Cancel, queueVars, Returns, Threads
<1> QED BY <1>2, <1>3, <1>4, <1>5, <1>6 DEF QueueTypeOK

\* Who dropped its handle never has one again, and a channel is empty once the
\* last receiver has dropped its own.
LEMMA GoneForGood ==
  ASSUME QueueTypeOK, [QueueNext]_queueVars
  PROVE  /\ \A t \in Threads : at[t] = "gone" => at'[t] = "gone"
         /\ Connected(Receivers) /\ ~Connected(Receivers)' => queue' = <<>>
<1> USE DEF QueueTypeOK
<1>1. \/ at' = at
      \/ \E t \in Threads, place \in {"idle", "poll", "wait", "hold"} :
           at[t] # "gone" /\ at' = [at EXCEPT ![t] = place]
      \/ \E t \in Threads : DropHandle(t)
  BY DEF QueueNext, Work, Send, SendPoll, SendWait, Recv, RecvPoll, RecvWait, Unwrap, Cancel,
     Returns, queueVars, Threads
<1>2. CASE at' = at
  BY <1>2 DEF Connected
<1>3. ASSUME NEW t \in Threads, NEW place \in {"idle", "poll", "wait", "hold"},
             at[t] # "gone", at' = [at EXCEPT ![t] = place]
      PROVE  /\ \A u \in Threads : at[u] = "gone" => at'[u] = "gone"
             /\ \A u \in Threads : at[u] # "gone" => at'[u] # "gone"
  BY <1>3
<1>4. ASSUME NEW t \in Threads, DropHandle(t)
      PROVE  /\ \A u \in Threads : at[u] = "gone" => at'[u] = "gone"
             /\ Connected(Receivers) /\ ~Connected(Receivers)' => queue' = <<>>
  <2>1. at[t] = "idle" /\ at' = [at EXCEPT ![t] = "gone"]
    BY <1>4 DEF DropHandle
  <2>2. ASSUME Connected(Receivers), ~Connected(Receivers)' PROVE queue' = <<>>
    <3>1. \A r \in Receivers : at'[r] = "gone"
      BY <2>2 DEF Connected
    <3>2. \A r \in Receivers \ {t} : at[r] = "gone"
      BY <2>1, <3>1 DEF Threads
    <3>3. t \in Receivers
      BY <2>2, <3>2 DEF Connected
    <3> QED BY <1>4, <3>2, <3>3 DEF DropHandle
  <2> QED BY <2>1, <2>2
<1> QED BY <1>1, <1>2, <1>3, <1>4 DEF Connected, Threads

\* The ids of a channel, at either end.
LEMMA IdsType ==
  ASSUME NEW q \in Seq(Messages)
  PROVE  /\ IdsOf(q) \in Seq(Ids) /\ Len(IdsOf(q)) = Len(q)
         /\ \A i \in 1 .. Len(q) : IdsOf(q)[i] = q[i].id /\ q[i].id \in Ids
<1>1. Len(q) \in Nat /\ \A i \in 1 .. Len(q) : q[i] \in Messages
  OBVIOUS
<1>2. \A i \in 1 .. Len(q) : q[i].id \in Ids
  BY <1>1 DEF Messages
<1> QED BY <1>1, <1>2 DEF IdsOf

LEMMA IdsAppend ==
  ASSUME NEW q \in Seq(Messages), NEW m \in Messages
  PROVE  IdsOf(Append(q, m)) = Append(IdsOf(q), m.id)
<1>1. m.id \in Ids
  BY DEF Messages
<1>2. /\ Append(q, m) \in Seq(Messages) /\ Len(Append(q, m)) = Len(q) + 1
      /\ \A i \in 1 .. Len(q) : Append(q, m)[i] = q[i]
      /\ Append(q, m)[Len(q) + 1] = m /\ Len(q) \in Nat
  BY AppendProperties
<1>3. /\ Append(IdsOf(q), m.id) \in Seq(Ids) /\ Len(Append(IdsOf(q), m.id)) = Len(q) + 1
      /\ \A i \in 1 .. Len(q) : Append(IdsOf(q), m.id)[i] = q[i].id
      /\ Append(IdsOf(q), m.id)[Len(q) + 1] = m.id
  BY <1>1, IdsType, AppendProperties
<1>4. /\ IdsOf(Append(q, m)) \in Seq(Ids) /\ Len(IdsOf(Append(q, m))) = Len(q) + 1
      /\ \A i \in 1 .. Len(q) + 1 : IdsOf(Append(q, m))[i] = Append(q, m)[i].id
  BY <1>2, IdsType
<1>5. ASSUME NEW i \in 1 .. Len(q) + 1 PROVE IdsOf(Append(q, m))[i] = Append(IdsOf(q), m.id)[i]
  <2>1. i = Len(q) + 1 \/ i \in 1 .. Len(q)
    BY <1>2
  <2> QED BY <1>2, <1>3, <1>4, <2>1
<1> QED BY <1>3, <1>4, <1>5, SeqEqual

LEMMA IdsHeadTail ==
  ASSUME NEW q \in Seq(Messages), q # <<>>
  PROVE  IdsOf(q) # <<>> /\ Head(IdsOf(q)) = Head(q).id /\ Tail(IdsOf(q)) = IdsOf(Tail(q))
<1>1. /\ Len(q) \in Nat \ {0} /\ Tail(q) \in Seq(Messages) /\ Len(Tail(q)) = Len(q) - 1
      /\ \A i \in 1 .. Len(q) - 1 : Tail(q)[i] = q[i + 1]
      /\ Head(q) = q[1]
  BY HeadTailProperties
<1>2. IdsOf(q) \in Seq(Ids) /\ IdsOf(q) # <<>>
  BY <1>1, IdsType
<1>3. /\ Tail(IdsOf(q)) \in Seq(Ids) /\ Len(Tail(IdsOf(q))) = Len(q) - 1
      /\ \A i \in 1 .. Len(q) - 1 : Tail(IdsOf(q))[i] = IdsOf(q)[i + 1]
      /\ Head(IdsOf(q)) = IdsOf(q)[1]
  BY <1>1, <1>2, IdsType, HeadTailProperties
<1>4. /\ IdsOf(Tail(q)) \in Seq(Ids) /\ Len(IdsOf(Tail(q))) = Len(q) - 1
      /\ \A i \in 1 .. Len(q) - 1 : IdsOf(Tail(q))[i] = Tail(q)[i].id
  BY <1>1, IdsType
<1>5. \A i \in 1 .. Len(q) : IdsOf(q)[i] = q[i].id
  BY IdsType
<1>6. ASSUME NEW i \in 1 .. Len(q) - 1 PROVE Tail(IdsOf(q))[i] = IdsOf(Tail(q))[i]
  <2>1. i + 1 \in 1 .. Len(q)
    BY <1>1
  <2> QED BY <1>1, <1>3, <1>4, <1>5, <2>1
<1>7. Tail(IdsOf(q)) = IdsOf(Tail(q))
  BY <1>3, <1>4, <1>6, SeqEqual
<1> QED BY <1>1, <1>2, <1>3, <1>5, <1>7

\* What moves from the front of one sequence to the end of another leaves
\* their concatenation alone, and the first is a prefix of it.
LEMMA MoveHead ==
  ASSUME NEW S, NEW s \in Seq(S), NEW t \in Seq(S), t # <<>>
  PROVE  Append(s, Head(t)) \o Tail(t) = s \o t
<1>1. Head(t) \in S /\ Tail(t) \in Seq(S) /\ <<Head(t)>> \in Seq(S)
  OBVIOUS
<1>2. Append(s, Head(t)) = s \o <<Head(t)>>
  BY <1>1, AppendIsConcat
<1>3. <<Head(t)>> \o Tail(t) = t
  <2>1. /\ Len(t) \in Nat \ {0} /\ Len(Tail(t)) = Len(t) - 1
        /\ \A i \in 1 .. Len(Tail(t)) : Tail(t)[i] = t[i + 1]
        /\ Head(t) = t[1]
    BY HeadTailProperties
  <2>2. <<Head(t)>> \o Tail(t) \in Seq(S) /\ Len(<<Head(t)>> \o Tail(t)) = Len(t)
    BY <1>1, <2>1, ConcatProperties
  <2>3. ASSUME NEW i \in 1 .. Len(t) PROVE (<<Head(t)>> \o Tail(t))[i] = t[i]
    BY <1>1, <2>1, <2>3
  <2> QED BY <2>2, <2>3, SeqEqual
<1>4. (s \o <<Head(t)>>) \o Tail(t) = s \o (<<Head(t)>> \o Tail(t))
  BY <1>1, ConcatAssociative
<1> QED BY <1>2, <1>3, <1>4

LEMMA FrontOfConcat ==
  ASSUME NEW S, NEW s \in Seq(S), NEW t \in Seq(S)
  PROVE  s = SubSeq(s \o t, 1, Len(s))
<1>1. /\ Len(s) \in Nat /\ Len(t) \in Nat /\ s \o t \in Seq(S) /\ Len(s \o t) = Len(s) + Len(t)
      /\ \A i \in 1 .. Len(s) : (s \o t)[i] = s[i]
  BY ConcatProperties
<1>2. /\ SubSeq(s \o t, 1, Len(s)) \in Seq(S) /\ Len(SubSeq(s \o t, 1, Len(s))) = Len(s)
      /\ \A i \in 1 .. Len(s) : SubSeq(s \o t, 1, Len(s))[i] = (s \o t)[i]
  BY <1>1
<1> QED BY <1>1, <1>2, SeqEqual

\* While a receiver is there, what was accepted was delivered or is queued.
LEMMA NextAccepted ==
  ASSUME QueueTypeOK, InHand, InOrder, Moves, Connected(Receivers), Connected(Receivers)'
  PROVE  accepted' = delivered' \o IdsOf(queue')
<1>0. /\ accepted = delivered \o IdsOf(queue)
      /\ queue \in Seq(Messages) /\ delivered \in Seq(Ids) /\ IdsOf(queue) \in Seq(Ids)
  BY IdsType DEF InOrder, QueueTypeOK
<1>1. ASSUME NEW s \in Senders, Accepting(s) PROVE accepted' = delivered' \o IdsOf(queue')
  <2>1. cargo[s] \in Messages
    BY <1>1 DEF Accepting, InHand, Threads
  <2>2. cargo[s].id \in Ids
    BY <2>1 DEF Messages
  <2>3. IdsOf(queue') = Append(IdsOf(queue), cargo[s].id)
    BY <1>0, <1>1, <2>1, IdsAppend DEF Accepting
  <2>4. Append(delivered \o IdsOf(queue), cargo[s].id) = delivered \o Append(IdsOf(queue), cargo[s].id)
    <3> DEFINE d == delivered  q == IdsOf(queue)  e == cargo[s].id
    <3>1. d \in Seq(Ids) /\ q \in Seq(Ids) /\ e \in Ids
      BY <1>0, <2>2
    <3> HIDE DEF d, q, e
    <3>2. <<e>> \in Seq(Ids) /\ d \o q \in Seq(Ids)
      BY <3>1
    <3>3. Append(d \o q, e) = (d \o q) \o <<e>> /\ Append(q, e) = q \o <<e>>
      BY <3>1, <3>2, AppendIsConcat
    <3>4. (d \o q) \o <<e>> = d \o (q \o <<e>>)
      BY <3>1, <3>2, ConcatAssociative
    <3> QED BY <3>3, <3>4 DEF d, q, e
  <2> QED BY <1>0, <1>1, <2>3, <2>4 DEF Accepting
<1>2. ASSUME NEW r \in Receivers, Delivering(r) PROVE accepted' = delivered' \o IdsOf(queue')
  <2>1. /\ IdsOf(queue) # <<>> /\ Head(IdsOf(queue)) = Head(queue).id
        /\ Tail(IdsOf(queue)) = IdsOf(Tail(queue))
    BY <1>0, <1>2, IdsHeadTail DEF Delivering
  <2>2. Append(delivered, Head(IdsOf(queue))) \o Tail(IdsOf(queue)) = delivered \o IdsOf(queue)
    BY <1>0, <2>1, MoveHead
  <2> QED BY <1>0, <1>2, <2>1, <2>2 DEF Delivering
<1>3. CASE Unmoved \/ (\E s \in Senders, m \in Messages : Reserving(s, m))
                   \/ (\E t \in Threads : Releasing(t))
  BY <1>0, <1>3 DEF Unmoved, Reserving, Releasing
<1> QED BY <1>1, <1>2, <1>3 DEF Moves, Discarding

LEMMA NextInOrder ==
  ASSUME QueueInv, QueueTypeOK', [QueueNext]_queueVars
  PROVE  InOrder'
<1>0. /\ QueueTypeOK /\ InHand /\ InOrder /\ Moves
      /\ queue \in Seq(Messages) /\ delivered \in Seq(Ids)
      /\ queue' \in Seq(Messages) /\ delivered' \in Seq(Ids) /\ accepted \in Seq(Ids)
  BY EveryMove DEF QueueInv, QueueTypeOK
<1>1. /\ Connected(Receivers)' => Connected(Receivers)
      /\ Connected(Senders)' => Connected(Senders)
      /\ \A t \in Threads : at[t] = "gone" => at'[t] = "gone"
      /\ Connected(Receivers) /\ ~Connected(Receivers)' => queue' = <<>>
  BY <1>0, GoneForGood DEF Connected, Threads
<1>2. Connected(Receivers)' => accepted' = delivered' \o IdsOf(queue')
  BY <1>0, <1>1, NextAccepted
<1>3. ~Connected(Receivers)' => queue' = <<>>
  <2>1. CASE Connected(Receivers)
    BY <1>1, <2>1
  <2>2. CASE ~Connected(Receivers)
    <3>1. queue = <<>>
      BY <1>0, <2>2 DEF InOrder
    <3> QED BY <1>0, <2>2, <3>1 DEF Moves, Unmoved, Reserving, Releasing, Accepting, Delivering, Discarding
  <2> QED BY <2>1, <2>2
<1>4. delivered' = SubSeq(accepted', 1, Len(delivered'))
  <2>1. CASE Connected(Receivers)'
    <3>1. IdsOf(queue') \in Seq(Ids)
      BY <1>0, IdsType
    <3>2. delivered' = SubSeq(delivered' \o IdsOf(queue'), 1, Len(delivered'))
      BY <1>0, <3>1, FrontOfConcat
    <3> QED BY <1>2, <2>1, <3>2
  <2>2. CASE ~Connected(Receivers)'
    <3>1. delivered' = delivered /\ accepted' = accepted
      <4>1. CASE ~Connected(Receivers)
        <5>1. queue = <<>>
          BY <1>0, <4>1 DEF InOrder
        <5> QED BY <1>0, <4>1, <5>1 DEF Moves, Unmoved, Reserving, Releasing, Accepting, Delivering, Discarding
      <4>2. CASE Connected(Receivers)
        <5>1. PICK r \in Receivers : at[r] # "gone" /\ at'[r] = "gone"
          BY <2>2, <4>2 DEF Connected
        <5>2. \E t \in Threads : DropHandle(t)
          BY <1>0, <5>1 DEF QueueTypeOK, QueueNext, Work, Send, SendPoll, SendWait, Recv, RecvPoll,
             RecvWait, Unwrap, Cancel, Returns, queueVars, Threads
        <5> QED BY <5>2 DEF DropHandle
      <4> QED BY <4>1, <4>2
    <3> QED BY <1>0, <3>1 DEF InOrder
  <2> QED BY <2>1, <2>2
<1>5. ASSUME NEW r \in Receivers, outcome'[r] = "disconnected"
      PROVE  queue' = <<>> /\ delivered' = accepted' /\ ~Connected(Senders)'
  <2>1. CASE \E q \in Receivers : outcome[q] = "disconnected"
    <3>1. queue = <<>> /\ delivered = accepted /\ ~Connected(Senders)
      BY <1>0, <2>1 DEF InOrder
    <3>2. \A s \in Senders : ~Carries(s)
      BY <3>1, QueueAssumption DEF Connected, Carries
    <3> QED BY <1>0, <1>1, <3>1, <3>2 DEF Moves, Unmoved, Reserving, Releasing, Accepting, Delivering, Discarding
  <2>2. CASE ~(\E q \in Receivers : outcome[q] = "disconnected")
    <3>1. r \in Threads /\ r \notin Senders /\ outcome[r] # "disconnected"
      BY <2>2, QueueAssumption DEF Threads
    <3>2. PICK t \in Threads : SendWait(t) \/ RecvWait(t)
      BY <1>0, <1>5, <3>1 DEF QueueTypeOK, QueueNext, Work, Send, SendPoll, Recv, RecvPoll, Unwrap,
         DropHandle, Cancel, Returns, queueVars, Threads
    <3>3. t = r /\ RecvWait(r)
      BY <1>0, <1>5, <3>1, <3>2 DEF QueueTypeOK, SendWait, RecvWait, Returns
    <3>4. /\ queue = <<>> /\ ~Connected(Senders) /\ at[r] = "wait"
          /\ UNCHANGED <<queue, delivered, accepted>>
      BY <1>0, <1>5, <3>1, <3>3 DEF QueueTypeOK, RecvWait, Returns
    <3>5. accepted = delivered \o IdsOf(queue)
      BY <1>0, <3>4 DEF InOrder, Connected
    <3>6. IdsOf(queue) = <<>>
      BY <3>4 DEF IdsOf
    <3>7. accepted = delivered
      BY <1>0, <3>5, <3>6, ConcatEmptySeq
    <3> QED BY <1>1, <3>4, <3>7
  <2> QED BY <2>1, <2>2
<1> QED BY <1>2, <1>3, <1>4, <1>5 DEF InOrder

LEMMA NextQueue == QueueInv /\ [QueueNext]_queueVars => QueueInv'
<1> SUFFICES ASSUME QueueInv, [QueueNext]_queueVars PROVE QueueInv'
  OBVIOUS
<1>1. QueueTypeOK' /\ InHand'
  BY NextQueueType, NextInHand DEF QueueInv
<1>2. BytesCounted'
  BY EveryMove, NextCounted DEF QueueInv
<1>3. InOrder'
  BY <1>1, NextInOrder
<1> QED BY <1>1, <1>2, <1>3 DEF QueueInv

\* For any threads, capacity, budget and sizes: what is reserved is exactly the
\* bytes of the messages in the channel and in hand, receivers get what was
\* accepted in its order, and a receiver is told of the disconnection only
\* when it missed nothing.
THEOREM QueueTheorem == QueueSpec => []NothingIsLost
<1>1. QueueInv => NothingIsLost
  BY DEF QueueInv, BytesCounted, InOrder, NothingIsLost
<1> QED BY <1>1, InitQueue, NextQueue, PTL DEF QueueSpec
=============================================================================
