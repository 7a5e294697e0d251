-------------------------- MODULE ValidationProofs --------------------------
(***************************************************************************)
(* Proofs about ValidationRun, for every set of documents and contents,    *)
(* every manifest and any number of edits; and about ProcessSemantics, for *)
(* every process.                                                          *)
(***************************************************************************)
EXTENDS ValidationRun, ProcessSemantics, SequenceTheorems, ListTheorems

-----------------------------------------------------------------------------
\* Walking down a sequence loses one element at a time.
LEMMA TailRange ==
  ASSUME NEW S, NEW s \in Seq(S), s # <<>>
  PROVE  /\ Head(s) \in S
         /\ Tail(s) \in Seq(S)
         /\ RangeOf(s) \subseteq {Head(s)} \cup RangeOf(Tail(s))
<1>1. Len(s) \in Nat \ {0} /\ Len(Tail(s)) = Len(s) - 1
  OBVIOUS
<1>2. ASSUME NEW i \in 1 .. Len(s), i # 1 PROVE s[i] \in RangeOf(Tail(s))
  <2>1. i - 1 \in 1 .. Len(Tail(s)) /\ Tail(s)[i - 1] = s[i]
    BY <1>1, <1>2
  <2> QED BY <2>1 DEF RangeOf
<1> QED BY <1>1, <1>2 DEF RangeOf

-----------------------------------------------------------------------------
LEMMA VerdictType ==
  ASSUME TypeOK, NEW d \in Docs, Present(d)
  PROVE  Verdict(d) \in Verdicts /\ Verdict(d) # Nothing /\ Verdict(d).issues \in Nat
<1>1. IssueCount(d) \in {0, 1} /\ Unresolved(d) \in {0, 1}
  BY DEF IssueCount, Unresolved
<1>2. IssueCount(d) + Unresolved(d) \in Nat
  BY <1>1
<1>3. Told(d) \in Files
  BY DEF Told, Files, TypeOK
<1>4. file[d] \in Contents
  BY DEF TypeOK, Files, Present
<1>5. Verdict(d) \in Verdicts
  BY <1>2, <1>3, <1>4 DEF Verdict, Verdicts
<1>6. Nothing \notin Verdicts
  BY DocumentAssumption DEF Verdicts, Files
<1> QED BY <1>5, <1>6 DEF Verdicts

LEMMA InitType == Init => TypeOK
  BY DocumentAssumption DEF Init, TypeOK, Files, Phases

LEMMA FailType == TypeOK /\ Fail => TypeOK'
  BY DEF Fail, TypeOK, Phases, world

LEMMA NextType == TypeOK /\ [Next]_vars => TypeOK'
<1> SUFFICES ASSUME TypeOK, [Next]_vars PROVE TypeOK'
  OBVIOUS
<1> USE DEF world, work
<1>1. CASE Fail
  BY <1>1, FailType
<1>2. CASE Load
  BY <1>1, <1>2, TailRange DEF Load, GoTo, TypeOK
<1>3. CASE Loaded
  BY <1>3, DocumentAssumption DEF Loaded, GoTo, TypeOK, Phases
<1>4. CASE HashFlow
  BY <1>1, <1>4, TailRange DEF HashFlow, GoTo, TypeOK, Phases
<1>5. CASE IndexFlow
  <2>1. CASE ~Present(Head(todo))
    BY <1>1, <1>5, <2>1 DEF IndexFlow
  <2>2. CASE Present(Head(todo))
    <3>1. todo # <<>> /\ Head(todo) \in Docs /\ Tail(todo) \in Seq(Docs)
      BY <1>5, TailRange DEF IndexFlow, TypeOK
    <3>2. index' \in Files
      BY <1>5, <2>2, <3>1 DEF IndexFlow, TypeOK, Files
    <3> QED BY <1>5, <2>2, <3>1, <3>2 DEF IndexFlow, GoTo, TypeOK, Phases
  <2> QED BY <2>1, <2>2
<1>6. CASE RehashFlow
  <2>1. todo # <<>>
    BY <1>6 DEF RehashFlow, TypeOK
  <2> QED BY <1>1, <1>6, <2>1, TailRange DEF RehashFlow, GoTo, TypeOK, Phases
<1>7. CASE FlowsIndexed
  BY <1>7, DocumentAssumption DEF FlowsIndexed, GoTo, TypeOK, Phases
<1>8. CASE List
  BY <1>8, DocumentAssumption DEF List, TypeOK, Phases
<1>9. CASE NextCategory
  BY <1>9 DEF NextCategory, TypeOK, Phases
<1>10. CASE ToVerify
  BY <1>10, DocumentAssumption DEF ToVerify, GoTo, TypeOK, Phases
<1>11. CASE HashDocument
  BY <1>1, <1>11 DEF HashDocument, GoTo, TypeOK, Phases
<1>12. CASE ReadDocument
  <2>1. todo # <<>> /\ Head(todo) \in Docs
    BY <1>12 DEF ReadDocument, TypeOK
  <2>2. CASE Present(Head(todo)) /\ file[Head(todo)] # Broken
    <3>1. /\ Verdict(Head(todo)) \in Verdicts
          /\ Verdict(Head(todo)) # Nothing
          /\ Verdict(Head(todo)).issues \in Nat
      BY <2>1, <2>2, VerdictType
    <3> QED BY <1>12, <2>1, <2>2, <3>1 DEF ReadDocument, GoTo, TypeOK, Phases
  <2> QED BY <1>1, <1>12, <2>2 DEF ReadDocument
<1>13. CASE KeepDocument
  <2>1. todo # <<>> /\ held \in Verdicts
    BY <1>13 DEF KeepDocument, TypeOK
  <2>2. Append(spool, held) \in Seq(Verdicts) /\ Tail(todo) \in Seq(Docs)
    BY <2>1, TailRange DEF TypeOK
  <2> QED BY <1>1, <1>13, <2>1, <2>2 DEF KeepDocument, GoTo, TypeOK, Phases
<1>14. CASE ValidateFile
  <2>1. todo # <<>> /\ Head(todo) \in Docs /\ Tail(todo) \in Seq(Docs)
    BY <1>14, TailRange DEF ValidateFile, TypeOK
  <2>2. CASE Present(Head(todo))
    <3>1. Verdict(Head(todo)) \in Verdicts /\ Verdict(Head(todo)).issues \in Nat
      BY <2>1, <2>2, VerdictType
    <3>2. Append(spool, Verdict(Head(todo))) \in Seq(Verdicts)
      BY <3>1 DEF TypeOK
    <3>3. count + Verdict(Head(todo)).issues \in Nat
      BY <3>1 DEF TypeOK
    <3> QED BY <1>14, <2>1, <2>2, <3>1, <3>2, <3>3 DEF ValidateFile, GoTo, TypeOK, Phases
  <2> QED BY <1>1, <1>14, <2>2 DEF ValidateFile
<1>15. CASE Verify
  BY <1>1, <1>15, TailRange DEF Verify, GoTo, TypeOK, Phases
<1>16. CASE Publish
  BY <1>16 DEF Publish, GoTo, TypeOK, Phases
<1>17. CASE Stop
  BY <1>1, <1>17 DEF Stop
<1>18. ASSUME NEW d \in Docs, Edit(d) PROVE TypeOK'
  BY <1>18 DEF Edit, TypeOK, Files, place
<1>19. CASE UNCHANGED vars
  BY <1>19 DEF vars, place, TypeOK
<1> QED
  BY <1>2, <1>3, <1>4, <1>5, <1>6, <1>7, <1>8, <1>9, <1>10, <1>11, <1>12, <1>13, <1>14,
     <1>15, <1>16, <1>17, <1>18, <1>19 DEF Next, Validate, Done

\* Every variable keeps its type: no loop of a batch is in the middle of a
\* document when none is left, and a document is only kept after it was read.
THEOREM TypeCorrect == Spec => []TypeOK
  BY InitType, NextType, PTL DEF Spec

-----------------------------------------------------------------------------
\* The inductive invariant of a batch.  A document that was just hashed and is
\* no longer what the manifest says was edited once; ...
HashedBeforeReading ==
  phase \in {"read_flow", "read"} =>
    (file[Head(todo)] # manifest[Head(todo)] => edits[Head(todo)] >= 1)

\* ... what was read in between had one edit before it and one more before the
\* next hash agreed ...
Wrong(c, d) == c # manifest[d]

ReadOnce(c, d) ==
  Wrong(c, d) => edits[d] >= 1 /\ (~Wrong(file[d], d) => edits[d] >= 2)

\* ... and a third before the file is what was read again.
ReadAndHashed(c, d) ==
  Wrong(c, d) => edits[d] >= 2 /\ (Wrong(file[d], d) => edits[d] >= 3)

IndexInv ==
  \A f \in Flows : index[f] # Gone =>
    IF phase = "rehash_flow" /\ f = Head(todo)
    THEN ReadOnce(index[f], f)
    ELSE ReadAndHashed(index[f], f)

\* Every flow of the manifest is in the index or still to come.
IndexComplete ==
  /\ phase = "rehash_flow" => index[Head(todo)] # Gone
  /\ \A f \in Flows \cap InManifest :
       \/ index[f] # Gone
       \/ phase = "load"
       \/ phase \in {"hash_flow", "read_flow", "rehash_flow"} /\ f \in RangeOf(todo)

\* A flow that is through the last comparison was edited three times if its
\* evidence is not the manifest's.
VerifyInv ==
  phase = "verify" =>
    \A f \in Flows : index[f] # Gone /\ Wrong(index[f], f) /\ f \notin RangeOf(todo) => edits[f] >= 3

ToldByIndex(v) ==
  IsProcess(v.doc) =>
    \A f \in Flows : v.told[f] = IF index[f] = Broken THEN Gone ELSE index[f]

\* What is in the spools was told by the index as it is now.
SpoolInv ==
  /\ phase \in {"load", "hash_flow", "read_flow", "rehash_flow"} => spool = <<>>
  /\ phase = "rehash" =>
       /\ held.doc = Head(todo)
       /\ ReadOnce(held.seen, held.doc)
       /\ ToldByIndex(held)
  /\ \A i \in 1 .. Len(spool) :
       /\ Wrong(spool[i].seen, spool[i].doc) => edits[spool[i].doc] >= 2
       /\ ToldByIndex(spool[i])

BatchInv ==
  mode = "batch" /\ phase \notin {"done", "failed"} =>
    HashedBeforeReading /\ IndexInv /\ IndexComplete /\ VerifyInv /\ SpoolInv

ManifestInv ==
  /\ TypeOK
  /\ BatchInv
  /\ Published => phase = "done"
  /\ EventsFitManifest

LEMMA InitManifest == Init => ManifestInv
<1> SUFFICES ASSUME Init PROVE ManifestInv
  OBVIOUS
<1>1. TypeOK
  BY InitType
<1>2. ~Published
  BY DEF Init, Published
<1>3. CASE mode = "batch"
  <2>1. IndexInv /\ HashedBeforeReading /\ IndexComplete /\ VerifyInv
    BY <1>3, DocumentAssumption DEF Init, IndexInv, HashedBeforeReading, IndexComplete, VerifyInv
  <2>2. SpoolInv
    BY <1>3 DEF Init, SpoolInv
  <2> QED BY <1>1, <1>2, <2>1, <2>2 DEF ManifestInv, BatchInv, EventsFitManifest
<1>4. CASE mode = "package"
  BY <1>1, <1>2, <1>4 DEF ManifestInv, BatchInv, EventsFitManifest
<1> QED BY <1>3, <1>4 DEF Init

\* A run that stops shows nothing.
LEMMA FailManifest == ManifestInv /\ Stop => ManifestInv'
<1> SUFFICES ASSUME ManifestInv, Stop PROVE ManifestInv'
  OBVIOUS
<1>1. TypeOK'
  BY NextType DEF ManifestInv, Next, Validate
<1>2. ~Published'
  BY DEF ManifestInv, Stop, Fail, Published
<1>3. phase' = "failed"
  BY DEF Stop, Fail
<1> QED BY <1>1, <1>2, <1>3 DEF ManifestInv, BatchInv, EventsFitManifest

\* The steps of a batch while nothing is published: what they do to the parts.
LEMMA BatchStep ==
  ASSUME ManifestInv, Next, mode = "batch", phase \notin {"done", "failed"},
         phase' \notin {"done", "failed"}
  PROVE  BatchInv'
<1>0. /\ TypeOK /\ TypeOK'
      /\ HashedBeforeReading /\ IndexInv /\ IndexComplete /\ VerifyInv /\ SpoolInv
  BY NextType DEF ManifestInv, BatchInv
<1> USE DEF world, work
<1>1. CASE Load
  <2>1. /\ phase = "load" /\ phase' = "load" /\ spool = <<>> /\ spool' = <<>> /\ index' = index
        /\ UNCHANGED <<file, edits, manifest, mode>>
    BY <1>0, <1>1 DEF Load, Fail, GoTo, SpoolInv
  <2>2. IndexInv' 
    BY <1>0, <2>1 DEF IndexInv, ReadOnce, ReadAndHashed, Wrong
  <2>3. HashedBeforeReading' /\ IndexComplete' /\ VerifyInv' /\ SpoolInv'
    BY <2>1 DEF HashedBeforeReading, IndexComplete, VerifyInv, SpoolInv
  <2> QED BY <2>2, <2>3 DEF BatchInv
<1>2. CASE Loaded
  <2>1. /\ phase = "load" /\ phase' = "hash_flow" /\ spool = <<>> /\ spool' = <<>> /\ index' = index
        /\ todo' = Order
        /\ UNCHANGED <<file, edits, manifest, mode>>
    BY <1>0, <1>2 DEF Loaded, GoTo, SpoolInv
  <2>2. IndexInv' 
    BY <1>0, <2>1 DEF IndexInv, ReadOnce, ReadAndHashed, Wrong
  <2>3. IndexComplete'
    BY <2>1 DEF IndexComplete, InManifest
  <2>4. HashedBeforeReading' /\ VerifyInv' /\ SpoolInv'
    BY <2>1 DEF HashedBeforeReading, VerifyInv, SpoolInv
  <2> QED BY <2>2, <2>3, <2>4 DEF BatchInv
<1>3. CASE HashFlow
  <2>1. /\ phase = "hash_flow" /\ phase' \in {"hash_flow", "read_flow"}
        /\ spool = <<>> /\ spool' = <<>> /\ index' = index
        /\ todo # <<>> /\ todo' \in {todo, Tail(todo)}
        /\ UNCHANGED <<file, edits, manifest, mode>>
    BY <1>0, <1>3 DEF HashFlow, Fail, GoTo, SpoolInv
  <2>2. IndexInv'
    BY <1>0, <2>1 DEF IndexInv, ReadOnce, ReadAndHashed, Wrong
  <2>3. IndexComplete'
    <3>1. todo' = todo \/ (IsProcess(Head(todo)) /\ todo' = Tail(todo))
      BY <1>3, <2>1 DEF HashFlow, Fail, GoTo
    <3>2. ASSUME NEW f \in Flows \cap InManifest, index[f] = Gone
          PROVE  f \in RangeOf(todo')
      <4>1. f \in RangeOf(todo)
        BY <1>0, <2>1, <3>2 DEF IndexComplete
      <4> QED BY <1>0, <2>1, <3>1, <3>2, <4>1, TailRange DEF TypeOK, IsProcess
    <3> QED BY <2>1, <3>2 DEF IndexComplete, InManifest
  <2>4. HashedBeforeReading'
    <3>1. CASE phase' = "read_flow"
      BY <1>3, <2>1, <3>1 DEF HashFlow, Fail, GoTo, HashedBeforeReading, Asserted
    <3> QED BY <2>1, <3>1 DEF HashedBeforeReading
  <2>5. VerifyInv' /\ SpoolInv'
    BY <2>1 DEF VerifyInv, SpoolInv
  <2> QED BY <2>2, <2>3, <2>4, <2>5 DEF BatchInv
<1>4. CASE IndexFlow
  <2>1. /\ phase = "read_flow" /\ phase' = "rehash_flow" /\ todo' = todo /\ todo # <<>>
        /\ spool = <<>> /\ spool' = <<>>
        /\ index' = [index EXCEPT ![Head(todo)] = file[Head(todo)]]
        /\ file[Head(todo)] # Gone
        /\ UNCHANGED <<file, edits, manifest, mode>>
    BY <1>0, <1>4 DEF IndexFlow, Fail, GoTo, SpoolInv, Present
  <2>2. Head(todo) \in Docs
    BY <1>0, <2>1 DEF TypeOK
  <2>3. \A f \in Docs : index'[f] = IF f = Head(todo) THEN file[f] ELSE index[f]
    BY <1>0, <2>1, <2>2 DEF TypeOK, Files
  <2>4. IndexInv'
    <3>1. ASSUME NEW f \in Flows, index'[f] # Gone
          PROVE  IF f = Head(todo) THEN ReadOnce(index[f], f)' ELSE ReadAndHashed(index[f], f)'
      <4>1. f \in Docs
        BY DocumentAssumption
      <4>2. CASE f = Head(todo)
        BY <1>0, <2>1, <2>3, <4>1, <4>2 DEF HashedBeforeReading, ReadOnce, Wrong
      <4>3. CASE f # Head(todo)
        BY <1>0, <2>1, <2>3, <3>1, <4>1, <4>3 DEF IndexInv, ReadAndHashed, Wrong
      <4> QED BY <4>2, <4>3
    <3> QED BY <2>1, <3>1 DEF IndexInv
  <2>5. IndexComplete'
    <3>1. index'[Head(todo)] # Gone
      BY <2>1, <2>2, <2>3
    <3>2. \A f \in Flows \cap InManifest : index'[f] # Gone \/ f \in RangeOf(todo)
      BY <1>0, <2>1, <2>3, DocumentAssumption DEF IndexComplete
    <3> QED BY <2>1, <3>1, <3>2 DEF IndexComplete, InManifest
  <2>6. HashedBeforeReading' /\ VerifyInv' /\ SpoolInv'
    BY <2>1 DEF HashedBeforeReading, VerifyInv, SpoolInv
  <2> QED BY <2>4, <2>5, <2>6 DEF BatchInv
<1>5. CASE RehashFlow
  <2>1. /\ phase = "rehash_flow" /\ phase' = "hash_flow" /\ todo' = Tail(todo) /\ todo # <<>>
        /\ spool = <<>> /\ spool' = <<>> /\ index' = index
        /\ file[Head(todo)] = manifest[Head(todo)]
        /\ UNCHANGED <<file, edits, manifest, mode>>
    BY <1>0, <1>5 DEF RehashFlow, Fail, GoTo, SpoolInv, Asserted, TypeOK
  <2>2. IndexInv'
    BY <1>0, <2>1 DEF IndexInv, ReadOnce, ReadAndHashed, Wrong
  <2>3. IndexComplete'
    <3>1. RangeOf(todo) \subseteq {Head(todo)} \cup RangeOf(Tail(todo))
      BY <1>0, <2>1, TailRange DEF TypeOK
    <3> QED BY <1>0, <2>1, <3>1 DEF IndexComplete, InManifest
  <2>4. HashedBeforeReading' /\ VerifyInv' /\ SpoolInv'
    BY <2>1 DEF HashedBeforeReading, VerifyInv, SpoolInv
  <2> QED BY <2>2, <2>3, <2>4 DEF BatchInv
<1>6. CASE FlowsIndexed
  <2>1. /\ phase = "hash_flow" /\ phase' = "hash" /\ todo = <<>> /\ index' = index
        /\ spool = <<>> /\ spool' = <<>>
        /\ UNCHANGED <<file, edits, manifest, mode>>
    BY <1>0, <1>6 DEF FlowsIndexed, GoTo, SpoolInv
  <2>2. IndexInv'
    BY <1>0, <2>1 DEF IndexInv, ReadOnce, ReadAndHashed, Wrong
  <2>3. IndexComplete'
    <3>1. RangeOf(todo) = {}
      BY <2>1 DEF RangeOf
    <3> QED BY <1>0, <2>1, <3>1 DEF IndexComplete, InManifest
  <2>4. HashedBeforeReading' /\ VerifyInv' /\ SpoolInv'
    BY <2>1 DEF HashedBeforeReading, VerifyInv, SpoolInv
  <2> QED BY <2>2, <2>3, <2>4 DEF BatchInv
<1>7. CASE ToVerify
  <2>1. /\ phase = "hash" /\ phase' = "verify" /\ todo' = Sorted[{d \in Docs : index[d] # Gone}]
        /\ index' = index /\ spool' = spool
        /\ UNCHANGED <<file, edits, manifest, mode>>
    BY <1>0, <1>7 DEF ToVerify, GoTo
  <2>2. IndexInv'
    BY <1>0, <2>1 DEF IndexInv, ReadOnce, ReadAndHashed, Wrong
  <2>3. IndexComplete' /\ HashedBeforeReading'
    BY <1>0, <2>1 DEF IndexComplete, HashedBeforeReading, InManifest
  <2>4. VerifyInv'
    <3>1. RangeOf(todo') = {d \in Docs : index[d] # Gone}
      BY <2>1, DocumentAssumption
    <3> QED BY <2>1, <3>1, DocumentAssumption DEF VerifyInv
  <2>5. SpoolInv'
    BY <1>0, <2>1 DEF SpoolInv, ToldByIndex, Wrong
  <2> QED BY <2>2, <2>3, <2>4, <2>5 DEF BatchInv
<1>8. CASE HashDocument
  <2>1. /\ phase = "hash" /\ phase' = "read" /\ todo' = todo
        /\ index' = index /\ spool' = spool
        /\ file[Head(todo)] = manifest[Head(todo)]
        /\ UNCHANGED <<file, edits, manifest, mode>>
    BY <1>0, <1>8 DEF HashDocument, Fail, GoTo, Asserted
  <2>2. IndexInv'
    BY <1>0, <2>1 DEF IndexInv, ReadOnce, ReadAndHashed, Wrong
  <2>3. IndexComplete' /\ HashedBeforeReading' /\ VerifyInv'
    BY <1>0, <2>1 DEF IndexComplete, HashedBeforeReading, InManifest, VerifyInv
  <2>4. SpoolInv'
    BY <1>0, <2>1 DEF SpoolInv, ToldByIndex, Wrong
  <2> QED BY <2>2, <2>3, <2>4 DEF BatchInv
<1>9. CASE ReadDocument
  <2>1. /\ phase = "read" /\ phase' = "rehash" /\ todo' = todo /\ todo # <<>>
        /\ index' = index /\ spool' = spool
        /\ held' = Verdict(Head(todo)) /\ file[Head(todo)] # Broken
        /\ UNCHANGED <<file, edits, manifest, mode>>
    BY <1>0, <1>9 DEF ReadDocument, Fail, GoTo, TypeOK
  <2>2. IndexInv'
    BY <1>0, <2>1 DEF IndexInv, ReadOnce, ReadAndHashed, Wrong
  <2>3. IndexComplete' /\ HashedBeforeReading' /\ VerifyInv'
    BY <1>0, <2>1 DEF IndexComplete, HashedBeforeReading, InManifest, VerifyInv
  <2>4. SpoolInv'
    <3>1. held'.doc = Head(todo) /\ held'.seen = file[Head(todo)] /\ held'.told = Told(Head(todo))
      BY <2>1 DEF Verdict
    <3>2. ReadOnce(held.seen, held.doc)'
      BY <1>0, <2>1, <3>1 DEF ReadOnce, Wrong, HashedBeforeReading
    <3>3. ToldByIndex(held)'
      BY <2>1, <3>1, DocumentAssumption DEF ToldByIndex, Told, IsProcess
    <3>4. \A i \in 1 .. Len(spool) :
            /\ Wrong(spool[i].seen, spool[i].doc)' => edits[spool[i].doc] >= 2
            /\ ToldByIndex(spool[i])'
      BY <1>0, <2>1 DEF SpoolInv, ToldByIndex, Wrong
    <3> QED BY <2>1, <3>1, <3>2, <3>3, <3>4 DEF SpoolInv
  <2> QED BY <2>2, <2>3, <2>4 DEF BatchInv
<1>10. CASE KeepDocument
  <2>1. /\ phase = "rehash" /\ phase' = "hash" /\ todo # <<>>
        /\ index' = index /\ spool' = Append(spool, held)
        /\ file[Head(todo)] = manifest[Head(todo)]
        /\ UNCHANGED <<file, edits, manifest, mode>>
    BY <1>0, <1>10 DEF KeepDocument, Fail, GoTo, TypeOK, Asserted
  <2>2. IndexInv'
    BY <1>0, <2>1 DEF IndexInv, ReadOnce, ReadAndHashed, Wrong
  <2>3. IndexComplete' /\ HashedBeforeReading' /\ VerifyInv'
    BY <1>0, <2>1 DEF IndexComplete, HashedBeforeReading, InManifest, VerifyInv
  <2>4. SpoolInv'
    <3>1. spool \in Seq(Verdicts) /\ held \in Verdicts
      BY <1>0, <2>1 DEF TypeOK
    <3>2. ASSUME NEW i \in 1 .. Len(spool')
          PROVE  /\ Wrong(spool[i].seen, spool[i].doc)' => edits[spool'[i].doc] >= 2
                 /\ ToldByIndex(spool[i])'
      <4>1. CASE i = Len(spool) + 1
        <5>1. spool'[i] = held
          BY <2>1, <3>1, <4>1
        <5>2. Wrong(held.seen, held.doc) => edits[held.doc] >= 2
          BY <1>0, <2>1 DEF SpoolInv, ReadOnce, Wrong
        <5> QED BY <1>0, <2>1, <5>1, <5>2 DEF SpoolInv, ToldByIndex, Wrong
      <4>2. CASE i # Len(spool) + 1
        <5>1. i \in 1 .. Len(spool) /\ spool'[i] = spool[i]
          BY <2>1, <3>1, <3>2, <4>2
        <5> QED BY <1>0, <2>1, <5>1 DEF SpoolInv, ToldByIndex, Wrong
      <4> QED BY <4>1, <4>2
    <3> QED BY <2>1, <3>2 DEF SpoolInv
  <2> QED BY <2>2, <2>3, <2>4 DEF BatchInv
<1>11. CASE Verify
  <2>1. /\ phase = "verify" /\ phase' = "verify" /\ todo # <<>> /\ todo' = Tail(todo)
        /\ index' = index /\ spool' = spool
        /\ file[Head(todo)] = index[Head(todo)]
        /\ UNCHANGED <<file, edits, manifest, mode>>
    BY <1>0, <1>11 DEF Verify, Fail, GoTo
  <2>2. IndexInv'
    BY <1>0, <2>1 DEF IndexInv, ReadOnce, ReadAndHashed, Wrong
  <2>3. IndexComplete' /\ HashedBeforeReading'
    BY <1>0, <2>1 DEF IndexComplete, HashedBeforeReading, InManifest
  <2>4. VerifyInv'
    <3>1. RangeOf(todo) \subseteq {Head(todo)} \cup RangeOf(Tail(todo))
      BY <1>0, <2>1, TailRange DEF TypeOK
    <3>2. \A f \in Flows : f = Head(todo) /\ index[f] # Gone /\ Wrong(index[f], f) => edits[f] >= 3
      BY <1>0, <2>1 DEF IndexInv, ReadAndHashed, Wrong
    <3> QED BY <1>0, <2>1, <3>1, <3>2 DEF VerifyInv, Wrong
  <2>5. SpoolInv'
    BY <1>0, <2>1 DEF SpoolInv, ToldByIndex, Wrong
  <2> QED BY <2>2, <2>3, <2>4, <2>5 DEF BatchInv
<1>12. ASSUME NEW d \in Docs, Edit(d) PROVE BatchInv'
  <2>1. /\ file' = [file EXCEPT ![d] = file'[d]]
        /\ edits' = [edits EXCEPT ![d] = @ + 1]
        /\ UNCHANGED <<manifest, phase, todo, index, held, spool>>
    BY <1>12, <1>0 DEF Edit, place, TypeOK, Files
  <2>2. /\ \A e \in Docs : e # d => file'[e] = file[e] /\ edits'[e] = edits[e]
        /\ edits'[d] = edits[d] + 1
        /\ \A e \in Docs : edits[e] \in Nat /\ edits'[e] \in Nat /\ edits'[e] >= edits[e]
    BY <1>0, <2>1 DEF TypeOK, Files
  <2>3. HashedBeforeReading'
    <3>1. phase \in {"read_flow", "read"} => Head(todo) \in Docs
      BY <1>0 DEF TypeOK
    <3> QED BY <1>0, <2>1, <2>2, <3>1 DEF HashedBeforeReading
  <2>4. \A e \in Docs, c \in Contents \cup {Gone} :
          /\ ReadOnce(c, e) => ReadOnce(c, e)'
          /\ ReadAndHashed(c, e) => ReadAndHashed(c, e)'
    BY <2>1, <2>2 DEF ReadOnce, ReadAndHashed, Wrong
  <2>5. IndexInv'
    BY <1>0, <2>1, <2>4, DocumentAssumption DEF IndexInv, TypeOK, Files
  <2>6. IndexComplete'
    BY <1>0, <2>1 DEF IndexComplete, InManifest
  <2>7. VerifyInv'
    BY <1>0, <2>1, <2>2, DocumentAssumption DEF VerifyInv, Wrong
  <2>8. SpoolInv'
    <3>1. phase = "rehash" => held.doc \in Docs /\ held.seen \in Contents
      BY <1>0 DEF TypeOK, Verdicts
    <3>2. ASSUME phase = "rehash" PROVE ReadOnce(held.seen, held.doc)'
      <4>1. ReadOnce(held.seen, held.doc)
        BY <1>0, <3>2 DEF SpoolInv
      <4>2. held' = held
        BY <2>1
      <4> QED BY <2>1, <2>2, <3>1, <3>2, <4>1, <4>2 DEF ReadOnce, Wrong
    <3>3. \A i \in 1 .. Len(spool) : spool[i].doc \in Docs
      <4>1. spool \in Seq(Verdicts)
        BY <1>0 DEF TypeOK
      <4>2. \A i \in 1 .. Len(spool) : spool[i] \in Verdicts
        BY <4>1
      <4> QED BY <4>2 DEF Verdicts
    <3>4. \A i \in 1 .. Len(spool) : Wrong(spool[i].seen, spool[i].doc) => edits'[spool[i].doc] >= 2
      BY <1>0, <2>2, <3>3 DEF SpoolInv
    <3> QED BY <1>0, <2>1, <3>2, <3>4 DEF SpoolInv, ToldByIndex, Wrong
  <2> QED BY <2>3, <2>5, <2>6, <2>7, <2>8 DEF BatchInv
<1>13. ~List /\ ~NextCategory /\ ~ValidateFile /\ ~Publish /\ ~Stop /\ ~Done
  BY <1>0 DEF List, NextCategory, ValidateFile, Publish, Stop, Done, Fail, GoTo, TypeOK, vars, place
<1> QED
  BY <1>1, <1>2, <1>3, <1>4, <1>5, <1>6, <1>7, <1>8, <1>9, <1>10, <1>11, <1>12, <1>13
  DEF Next, Validate

\* Publication: every flow of the manifest is in the index and went through
\* the last comparison.
LEMMA PublishManifest ==
  ASSUME ManifestInv, Publish
  PROVE  EventsFitManifest'
<1> SUFFICES ASSUME mode = "batch" PROVE EventsFitManifest'
  BY DEF Publish, EventsFitManifest
<1>1. /\ TypeOK /\ IndexComplete /\ VerifyInv /\ SpoolInv
      /\ phase = "verify" /\ todo = <<>>
      /\ events' = [verdicts |-> spool, count |-> count]
      /\ UNCHANGED <<edits, manifest, mode>>
  BY DEF ManifestInv, BatchInv, Publish, GoTo, world
<1>2. RangeOf(todo) = {}
  BY <1>1 DEF RangeOf
<1>3. ASSUME NEW f \in Flows \cap InManifest, edits[f] < 3
      PROVE  index[f] # Gone /\ index[f] = manifest[f]
  <2>1. index[f] # Gone
    BY <1>1 DEF IndexComplete
  <2>2. Wrong(index[f], f) => edits[f] >= 3
    BY <1>1, <1>2, <2>1 DEF VerifyInv
  <2>3. edits[f] \in Nat
    BY <1>1, DocumentAssumption DEF TypeOK
  <2> QED BY <1>3, <2>1, <2>2, <2>3 DEF Wrong
<1>4. ASSUME NEW i \in 1 .. Len(spool), IsProcess(spool[i].doc),
             NEW f \in Flows \cap InManifest, spool[i].told[f] # Expected(f)
      PROVE  edits[f] >= 3
  <2>1. edits[f] \in Nat
    BY <1>1, DocumentAssumption DEF TypeOK
  <2>2. spool[i].told[f] = IF index[f] = Broken THEN Gone ELSE index[f]
    BY <1>1, <1>4 DEF SpoolInv, ToldByIndex
  <2> QED BY <1>3, <1>4, <2>1, <2>2 DEF Expected
<1>5. \A i \in 1 .. Len(spool) : spool[i].seen # manifest[spool[i].doc] => edits[spool[i].doc] >= 2
  BY <1>1 DEF SpoolInv, Wrong
<1> QED BY <1>1, <1>4, <1>5 DEF EventsFitManifest, Expected

LEMMA NextManifest == ManifestInv /\ [Next]_vars => ManifestInv'
<1> SUFFICES ASSUME ManifestInv, [Next]_vars PROVE ManifestInv'
  OBVIOUS
<1>1. TypeOK'
  BY NextType DEF ManifestInv
<1>2. CASE UNCHANGED vars
  <2> USE DEF vars, world, place, work
  <2>1. BatchInv'
    BY <1>2 DEF ManifestInv, BatchInv, HashedBeforeReading, IndexInv, ReadOnce, ReadAndHashed,
       Wrong, IndexComplete, InManifest, VerifyInv, SpoolInv, ToldByIndex
  <2>2. (Published => phase = "done")' /\ EventsFitManifest'
    BY <1>2 DEF ManifestInv, Published, EventsFitManifest, Expected
  <2> QED BY <1>1, <2>1, <2>2 DEF ManifestInv
<1>3. CASE Publish
  BY <1>1, <1>3, PublishManifest DEF ManifestInv, BatchInv, Publish, GoTo
<1>4. CASE Stop
  BY <1>4, FailManifest
<1>5. CASE Next /\ ~Publish /\ ~Stop /\ phase \notin {"done", "failed"}
  <2>1. ~Published /\ mode' = mode /\ events' = events
    BY <1>5 DEF ManifestInv, Next, Validate, Done, Load, Loaded, HashFlow, IndexFlow, RehashFlow,
       FlowsIndexed, List, NextCategory, ToVerify, HashDocument, ReadDocument, KeepDocument,
       ValidateFile, Verify, Edit, Fail, GoTo, world, work
  <2>2. BatchInv'
    BY <1>5, <2>1, BatchStep DEF BatchInv
  <2> QED BY <1>1, <2>1, <2>2 DEF ManifestInv, Published, EventsFitManifest
<1>6. CASE Next /\ phase \in {"done", "failed"}
  BY <1>2, <1>6 DEF Next, Validate, Done, Load, Loaded, HashFlow, IndexFlow, RehashFlow,
     FlowsIndexed, List, NextCategory, ToVerify, HashDocument, ReadDocument, KeepDocument,
     ValidateFile, Verify, Publish, Stop, Edit
<1> QED BY <1>2, <1>3, <1>4, <1>5, <1>6

\* The issues a batch publishes under the manifest's hash were found in that
\* content and by that evidence, unless the document was edited and edited
\* back (two edits), and for the evidence once more (three).
THEOREM ManifestTheorem == Spec => []EventsFitManifest
<1>1. ManifestInv => EventsFitManifest
  BY DEF ManifestInv
<1> QED BY <1>1, InitManifest, NextManifest, PTL DEF Spec

-----------------------------------------------------------------------------
\* What is streamed.  In a batch the spool and what is left make up the
\* manifest; in a package run they make up what was listed of the flows and
\* then of the processes, in which only a file that was missing is missing.
BatchStream ==
  /\ category = "index"
  /\ phase \in {"load", "hash_flow", "read_flow", "rehash_flow"} =>
       spool = <<>> /\ RangeOf(todo) \subseteq InManifest
  /\ phase \in {"hash", "read", "rehash"} => DocsOf(spool) \o todo = Order
  /\ phase = "rehash" => held.doc = Head(todo)
  /\ phase = "verify" => DocsOf(spool) = Order

Listed(S, K) == S \subseteq K /\ \A d \in K : Gone \notin had[d] => d \in S

Processes == Docs \ Flows

PackageStream ==
  /\ phase = "read_flow" => category = "index"
  /\ phase = "read" => category # "index"
  /\ phase = "verify" => category = "processes"
  /\ phase = "list" => todo = <<>>
  /\ category = "index" \/ (category = "flows" /\ phase = "list") => spool = <<>>
  /\ category = "flows" /\ phase = "read" =>
       \E S \in SUBSET Flows : Listed(S, Flows) /\ DocsOf(spool) \o todo = Sorted[S]
  /\ category = "processes" /\ phase = "list" =>
       \E S \in SUBSET Flows : Listed(S, Flows) /\ DocsOf(spool) = Sorted[S]
  /\ category = "processes" /\ phase = "read" =>
       \E S \in SUBSET Flows, T \in SUBSET Processes :
         /\ Listed(S, Flows) /\ Listed(T, Processes)
         /\ DocsOf(spool) \o todo = Sorted[S] \o Sorted[T]
  /\ phase = "verify" =>
       \E S \in SUBSET Flows, T \in SUBSET Processes :
         /\ Listed(S, Flows) /\ Listed(T, Processes)
         /\ DocsOf(spool) = Sorted[S] \o Sorted[T]

HeldIssues == IF held = Nothing THEN 0 ELSE held.issues

\* The count is ahead of the spool by the issues of the document in hand.
CountInv ==
  /\ held # Nothing => phase = "rehash"
  /\ IsFiniteSet(IssuesOf(spool))
  /\ count = Cardinality(IssuesOf(spool)) + HeldIssues

Running == phase \notin {"done", "failed"}

StreamInv ==
  /\ TypeOK
  /\ Published => phase = "done"
  /\ \A d \in Docs : file[d] \in had[d]
  /\ Running => CountInv
  /\ Running /\ mode = "batch" => BatchStream
  /\ Running /\ mode = "package" => PackageStream
  /\ StreamIsComplete

-----------------------------------------------------------------------------
\* Which state is judged.  A document that no edit restored has had one more
\* content than it had edits ...
Unrestored(d) == Cardinality(had[d]) = edits[d] + 1

\* ... so once its content is no longer y it never is again: whoever saw x
\* where it should have been y will not find y.
Parted(d, x, y) == Unrestored(d) /\ x # y => file[d] # y

Indexed(d) == index[d] # Gone

HistoryInv ==
  \A d \in Docs :
    /\ IsFiniteSet(had[d])
    /\ Cardinality(had[d]) <= edits[d] + 1
    /\ Indexed(d) => index[d] \in had[d]

BatchState ==
  /\ phase = "load" => \A d \in InManifest : d \in RangeOf(todo) \/ manifest[d] \in had[d]
  /\ phase # "load" => \A d \in InManifest :
       manifest[d] \in had[d] /\ Parted(d, began[d], manifest[d])
  /\ \A d \in Docs : Indexed(d) => d \in InManifest
  /\ \A d \in Docs : Indexed(d) /\ ~(phase = "rehash_flow" /\ d = Head(todo)) =>
       Parted(d, manifest[d], index[d])
  /\ \A i \in 1 .. Len(spool) :
       Unrestored(spool[i].doc) => began[spool[i].doc] = manifest[spool[i].doc]

PackageState ==
  category # "index" => \A d \in Docs : Indexed(d) => Parted(d, began[d], index[d])

SeenInv ==
  /\ phase = "rehash" /\ Indexed(held.doc) => Parted(held.doc, held.seen, index[held.doc])
  /\ \A i \in 1 .. Len(spool) : Indexed(spool[i].doc) =>
       Parted(spool[i].doc, spool[i].seen, index[spool[i].doc])

\* A flow that is through the last comparison was what it is now all along.
SettledInv ==
  phase = "verify" =>
    \A d \in Docs : Indexed(d) /\ Unrestored(d) /\ d \notin RangeOf(todo) =>
      /\ index[d] = IF mode = "batch" THEN manifest[d] ELSE began[d]
      /\ \A i \in 1 .. Len(spool) : spool[i].doc = d => spool[i].seen = index[d]

StateInv ==
  /\ StreamInv
  /\ HistoryInv
  /\ Running /\ mode = "batch" => BatchState
  /\ Running /\ mode = "package" => PackageState
  /\ Running => SeenInv /\ SettledInv
  /\ OneStateIsJudged

-----------------------------------------------------------------------------
\* Lemmas about sequences of documents and of verdicts.
LEMMA RangeConcat ==
  ASSUME NEW S, NEW s \in Seq(S), NEW t \in Seq(S)
  PROVE  RangeOf(s \o t) = RangeOf(s) \cup RangeOf(t)
<1>1. /\ s \o t \in Seq(S) /\ Len(s) \in Nat /\ Len(t) \in Nat
      /\ Len(s \o t) = Len(s) + Len(t)
      /\ \A i \in 1 .. Len(s) + Len(t) :
           (s \o t)[i] = IF i <= Len(s) THEN s[i] ELSE t[i - Len(s)]
  BY ConcatProperties
<1>2. ASSUME NEW i \in 1 .. Len(s) + Len(t) PROVE (s \o t)[i] \in RangeOf(s) \cup RangeOf(t)
  <2>1. CASE i <= Len(s)
    BY <1>1, <2>1 DEF RangeOf
  <2>2. CASE i > Len(s)
    <3>1. i - Len(s) \in 1 .. Len(t)
      BY <1>1, <2>2
    <3> QED BY <1>1, <2>2, <3>1 DEF RangeOf
  <2> QED BY <1>1, <2>1, <2>2
<1>3. ASSUME NEW i \in 1 .. Len(s) PROVE s[i] \in RangeOf(s \o t)
  <2>1. i \in 1 .. Len(s \o t) /\ (s \o t)[i] = s[i]
    BY <1>1
  <2> QED BY <2>1 DEF RangeOf
<1>4. ASSUME NEW i \in 1 .. Len(t) PROVE t[i] \in RangeOf(s \o t)
  <2>1. Len(s) + i \in 1 .. Len(s \o t) /\ (s \o t)[Len(s) + i] = t[i]
    BY <1>1
  <2> QED BY <2>1 DEF RangeOf
<1> QED BY <1>1, <1>2, <1>3, <1>4 DEF RangeOf

LEMMA DocsConcat ==
  ASSUME NEW s \in Seq(Docs), NEW t \in Seq(Docs)
  PROVE  RangeOf(s \o t) = RangeOf(s) \cup RangeOf(t)
  BY RangeConcat

\* What moves from the front of one sequence to the end of another leaves
\* their concatenation alone.
LEMMA MoveHead ==
  ASSUME NEW S, NEW s \in Seq(S), NEW t \in Seq(S), t # <<>>
  PROVE  /\ Append(s, Head(t)) \o Tail(t) = s \o t
         /\ Append(s, Head(t)) \in Seq(S)
<1>1. Head(t) \in S /\ Tail(t) \in Seq(S) /\ <<Head(t)>> \in Seq(S)
  OBVIOUS
<1>2. Append(s, Head(t)) = s \o <<Head(t)>>
  BY <1>1, AppendIsConcat
<1>3. <<Head(t)>> \o Tail(t) = t
  <2>1. /\ Len(t) \in Nat \ {0} /\ Len(Tail(t)) = Len(t) - 1
        /\ \A i \in 1 .. Len(Tail(t)) : Tail(t)[i] = t[i + 1]
        /\ Head(t) = t[1]
    BY HeadTailProperties
  <2>2. <<Head(t)>> \o Tail(t) \in Seq(S) /\ Len(<<Head(t)>> \o Tail(t)) = Len(t)
    BY <1>1, <2>1, ConcatProperties
  <2>3. ASSUME NEW i \in 1 .. Len(t) PROVE (<<Head(t)>> \o Tail(t))[i] = t[i]
    BY <1>1, <2>1, <2>3
  <2> QED BY <2>2, <2>3, SeqEqual
<1>4. (s \o <<Head(t)>>) \o Tail(t) = s \o (<<Head(t)>> \o Tail(t))
  BY <1>1, ConcatAssociative
<1> QED BY <1>1, <1>2, <1>3, <1>4, AppendProperties

LEMMA DocsType ==
  ASSUME NEW s \in Seq(Verdicts)
  PROVE  /\ DocsOf(s) \in Seq(Docs) /\ Len(DocsOf(s)) = Len(s)
         /\ \A i \in 1 .. Len(s) : DocsOf(s)[i] = s[i].doc /\ s[i].doc \in Docs
<1>1. Len(s) \in Nat /\ \A i \in 1 .. Len(s) : s[i] \in Verdicts
  OBVIOUS
<1>2. \A i \in 1 .. Len(s) : s[i].doc \in Docs
  BY <1>1 DEF Verdicts
<1> QED BY <1>1, <1>2 DEF DocsOf

LEMMA DocsAppend ==
  ASSUME NEW s \in Seq(Verdicts), NEW v \in Verdicts
  PROVE  /\ DocsOf(s) \in Seq(Docs) /\ Len(DocsOf(s)) = Len(s)
         /\ DocsOf(Append(s, v)) = Append(DocsOf(s), v.doc)
<1>2. v.doc \in Docs
  BY DEF Verdicts
<1>3. /\ Append(s, v) \in Seq(Verdicts) /\ Len(Append(s, v)) = Len(s) + 1
      /\ \A i \in 1 .. Len(s) : Append(s, v)[i] = s[i]
      /\ Append(s, v)[Len(s) + 1] = v
  BY AppendProperties
<1>4. /\ Append(DocsOf(s), v.doc) \in Seq(Docs)
      /\ Len(Append(DocsOf(s), v.doc)) = Len(s) + 1
      /\ \A i \in 1 .. Len(s) : Append(DocsOf(s), v.doc)[i] = s[i].doc
      /\ Append(DocsOf(s), v.doc)[Len(s) + 1] = v.doc
  BY <1>2, DocsType, AppendProperties
<1>5. /\ DocsOf(Append(s, v)) \in Seq(Docs)
      /\ Len(DocsOf(Append(s, v))) = Len(s) + 1
      /\ \A i \in 1 .. Len(s) + 1 : DocsOf(Append(s, v))[i] = Append(s, v)[i].doc
  BY <1>3, DocsType
<1>6. ASSUME NEW i \in 1 .. (Len(s) + 1)
      PROVE  DocsOf(Append(s, v))[i] = Append(DocsOf(s), v.doc)[i]
  <2>1. CASE i = Len(s) + 1
    BY <1>3, <1>4, <1>5, <2>1
  <2>2. CASE i \in 1 .. Len(s)
    BY <1>3, <1>4, <1>5, <2>2
  <2>3. i = Len(s) + 1 \/ i \in 1 .. Len(s)
    <3>1. Len(s) \in Nat
      OBVIOUS
    <3> QED BY <3>1
  <2> QED BY <2>1, <2>2, <2>3
<1> QED BY <1>4, <1>5, <1>6, DocsType, SeqEqual

LEMMA CountTo ==
  ASSUME NEW n \in Nat
  PROVE  IsFiniteSet(1 .. n) /\ Cardinality(1 .. n) = n
  BY FS_Interval

LEMMA IssuesAppend ==
  ASSUME NEW s \in Seq(Verdicts), NEW v \in Verdicts, IsFiniteSet(IssuesOf(s))
  PROVE  /\ IsFiniteSet(IssuesOf(Append(s, v)))
         /\ Cardinality(IssuesOf(Append(s, v))) = Cardinality(IssuesOf(s)) + v.issues
<1> DEFINE B == {Len(s) + 1} \X (1 .. v.issues)
<1>1. /\ Len(s) \in Nat /\ v.issues \in Nat
      /\ Len(Append(s, v)) = Len(s) + 1
      /\ \A i \in 1 .. Len(s) : Append(s, v)[i] = s[i]
      /\ Append(s, v)[Len(s) + 1] = v
  BY AppendProperties DEF Verdicts
<1>2. IssuesOf(Append(s, v)) = IssuesOf(s) \cup B
  <2>1. 1 .. Len(s) + 1 = (1 .. Len(s)) \cup {Len(s) + 1}
    BY <1>1
  <2> QED BY <1>1, <2>1 DEF IssuesOf
<1>3. IssuesOf(s) \cap B = {}
  BY <1>1 DEF IssuesOf
<1>4. IsFiniteSet(B) /\ Cardinality(B) = v.issues
  <2>1. IsFiniteSet({Len(s) + 1}) /\ Cardinality({Len(s) + 1}) = 1
    BY FS_Singleton
  <2>2. IsFiniteSet(1 .. v.issues) /\ Cardinality(1 .. v.issues) = v.issues
    BY <1>1, CountTo
  <2>3. IsFiniteSet(B) /\ Cardinality(B) = Cardinality({Len(s) + 1}) * Cardinality(1 .. v.issues)
    BY <2>1, <2>2, FS_Product
  <2> QED BY <1>1, <2>1, <2>2, <2>3
<1>5. /\ IsFiniteSet(IssuesOf(s) \cup B)
      /\ Cardinality(IssuesOf(s) \cup B) =
           Cardinality(IssuesOf(s)) + Cardinality(B) - Cardinality(IssuesOf(s) \cap B)
  BY <1>4, FS_Union
<1>6. Cardinality(IssuesOf(s)) \in Nat /\ Cardinality(IssuesOf(s) \cap B) = 0
  BY <1>3, FS_EmptySet, FS_CardinalityType
<1> QED BY <1>1, <1>2, <1>4, <1>5, <1>6

LEMMA NoVerdicts ==
  /\ DocsOf(<<>>) = <<>> /\ RangeOf(<<>>) = {}
  /\ IsFiniteSet(IssuesOf(<<>>)) /\ Cardinality(IssuesOf(<<>>)) = 0
<1>1. IssuesOf(<<>>) = {}
  BY DEF IssuesOf
<1> QED BY <1>1, FS_EmptySet DEF DocsOf, RangeOf

-----------------------------------------------------------------------------
LEMMA InitStream == Init => StreamInv
<1> SUFFICES ASSUME Init PROVE StreamInv
  OBVIOUS
<1>1. TypeOK /\ ~Published
  BY InitType DEF Init, Published
<1>2. \A d \in Docs : file[d] \in had[d]
  BY DEF Init
<1>3. CountInv
  BY NoVerdicts DEF Init, CountInv, HeldIssues
<1>4. mode = "batch" => BatchStream
  BY DEF Init, BatchStream, InManifest
<1>5. mode = "package" => PackageStream
  BY DEF Init, PackageStream
<1> QED BY <1>1, <1>2, <1>3, <1>4, <1>5 DEF StreamInv, StreamIsComplete

\* The count, step by step.
LEMMA NextCount ==
  ASSUME StreamInv, [Next]_vars, Running, Running'
  PROVE  CountInv'
<1>1. TypeOK /\ CountInv
  BY DEF StreamInv
<1> USE DEF world, work, Running
<1>2. CASE ReadDocument
  <2> DEFINE d == Head(todo)
  <2>1. /\ todo # <<>> /\ d \in Docs /\ Present(d)
        /\ held' = Verdict(d) /\ count' = count + Verdict(d).issues /\ spool' = spool
        /\ phase = "read" /\ phase' = "rehash"
    BY <1>1, <1>2 DEF ReadDocument, Fail, GoTo, TypeOK
  <2>2. Verdict(d) # Nothing /\ Verdict(d).issues \in Nat
    BY <1>1, <2>1, VerdictType
  <2>3. held = Nothing
    BY <1>1, <2>1 DEF CountInv
  <2>4. Cardinality(IssuesOf(spool)) \in Nat
    BY <1>1, FS_CardinalityType DEF CountInv
  <2> QED BY <1>1, <2>1, <2>2, <2>3, <2>4 DEF CountInv, HeldIssues
<1>3. CASE KeepDocument
  <2>1. /\ held \in Verdicts /\ held # Nothing /\ spool \in Seq(Verdicts)
        /\ held' = Nothing /\ count' = count /\ spool' = Append(spool, held)
    BY <1>1, <1>3 DEF KeepDocument, Fail, TypeOK
  <2>2. held.issues \in Nat
    BY <2>1 DEF Verdicts
  <2>3. /\ IsFiniteSet(IssuesOf(spool'))
        /\ Cardinality(IssuesOf(spool')) = Cardinality(IssuesOf(spool)) + held.issues
    BY <1>1, <2>1, IssuesAppend DEF CountInv
  <2> QED BY <1>1, <2>1, <2>2, <2>3 DEF CountInv, HeldIssues
<1>4. CASE ValidateFile
  <2> DEFINE d == Head(todo)
  <2>1. /\ todo # <<>> /\ d \in Docs /\ Present(d)
        /\ held' = held /\ count' = count + Verdict(d).issues
        /\ spool' = Append(spool, Verdict(d)) /\ spool \in Seq(Verdicts)
        /\ phase = "read"
    BY <1>1, <1>4 DEF ValidateFile, Fail, GoTo, TypeOK
  <2>2. Verdict(d) \in Verdicts /\ Verdict(d).issues \in Nat
    BY <1>1, <2>1, VerdictType
  <2>3. held = Nothing
    BY <1>1, <2>1 DEF CountInv
  <2>4. Cardinality(IssuesOf(spool)) \in Nat
    BY <1>1, FS_CardinalityType DEF CountInv
  <2>5. /\ IsFiniteSet(IssuesOf(spool'))
        /\ Cardinality(IssuesOf(spool')) = Cardinality(IssuesOf(spool)) + Verdict(d).issues
    BY <1>1, <2>1, <2>2, IssuesAppend DEF CountInv
  <2> QED BY <1>1, <2>1, <2>2, <2>3, <2>4, <2>5 DEF CountInv, HeldIssues
<1>5. CASE \E d \in Docs : Edit(d)
  BY <1>1, <1>5 DEF Edit, place, CountInv, HeldIssues
<1>6. CASE UNCHANGED vars
  BY <1>1, <1>6 DEF vars, place, CountInv, HeldIssues
<1>7. CASE Next /\ ~ReadDocument /\ ~KeepDocument /\ ~ValidateFile /\ ~(\E d \in Docs : Edit(d))
  <2>1. UNCHANGED <<held, spool, count>>
    BY <1>7 DEF Next, Validate, Done, Stop, Load, Loaded, HashFlow, IndexFlow, RehashFlow,
       FlowsIndexed, List, NextCategory, ToVerify, HashDocument, Verify, Publish, Fail, GoTo,
       vars, place
  <2>2. phase # "rehash"
    BY <1>7 DEF Next, Validate, Done, Stop, Load, Loaded, HashFlow, IndexFlow, RehashFlow,
       FlowsIndexed, List, NextCategory, ToVerify, HashDocument, Verify, Publish, Fail, GoTo,
       vars, place
  <2> QED BY <1>1, <2>1, <2>2 DEF CountInv, HeldIssues
<1> QED BY <1>2, <1>3, <1>4, <1>5, <1>6, <1>7

LEMMA TailIsPart ==
  ASSUME NEW S, NEW s \in Seq(S), s # <<>>
  PROVE  RangeOf(Tail(s)) \subseteq RangeOf(s)
<1>1. Len(s) \in Nat \ {0} /\ Len(Tail(s)) = Len(s) - 1
  OBVIOUS
<1>2. ASSUME NEW i \in 1 .. Len(Tail(s)) PROVE Tail(s)[i] \in RangeOf(s)
  <2>1. i + 1 \in 1 .. Len(s) /\ Tail(s)[i] = s[i + 1]
    BY <1>1, <1>2
  <2> QED BY <2>1 DEF RangeOf
<1> QED BY <1>2 DEF RangeOf

LEMMA NextBatchStream ==
  ASSUME StreamInv, [Next]_vars, Running, Running', mode = "batch"
  PROVE  mode' = "batch" /\ BatchStream'
<1>0. TypeOK /\ BatchStream /\ CountInv
  BY DEF StreamInv
<1>01. todo \in Seq(Docs) /\ spool \in Seq(Verdicts) /\ Order \in Seq(Docs)
  BY <1>0, DocumentAssumption DEF TypeOK
<1> USE DEF world, work, Running
<1>1. CASE Load \/ Loaded \/ HashFlow \/ IndexFlow \/ RehashFlow
  <2>1. /\ phase \in {"load", "hash_flow", "read_flow", "rehash_flow"}
        /\ phase' \in {"load", "hash_flow", "read_flow", "rehash_flow"}
        /\ category' = category /\ spool' = spool /\ mode' = mode
    BY <1>1 DEF Load, Loaded, HashFlow, IndexFlow, RehashFlow, Fail, GoTo
  <2>2. todo' = todo \/ (todo # <<>> /\ todo' = Tail(todo)) \/ todo' = Order
    BY <1>0, <1>1 DEF Load, Loaded, HashFlow, IndexFlow, RehashFlow, Fail, GoTo, TypeOK
  <2>3. RangeOf(todo') \subseteq InManifest
    <3>1. RangeOf(todo) \subseteq InManifest
      BY <1>0, <2>1 DEF BatchStream
    <3>2. CASE todo' = Order
      BY <3>2 DEF InManifest
    <3>3. CASE todo # <<>> /\ todo' = Tail(todo)
      BY <1>01, <3>1, <3>3, TailIsPart
    <3> QED BY <2>2, <3>1, <3>2, <3>3
  <2> QED BY <1>0, <2>1, <2>3 DEF BatchStream, InManifest
<1>2. CASE FlowsIndexed
  <2>1. /\ phase' = "hash" /\ todo' = Order /\ phase = "hash_flow"
        /\ category' = category /\ spool' = spool /\ mode' = mode
    BY <1>2 DEF FlowsIndexed, GoTo
  <2>2. DocsOf(spool') \o todo' = Order
    BY <1>0, <1>01, <2>1, NoVerdicts, ConcatEmptySeq DEF BatchStream
  <2> QED BY <1>0, <2>1, <2>2 DEF BatchStream
<1>3. CASE ToVerify
  <2>1. /\ phase = "hash" /\ phase' = "verify" /\ todo = <<>>
        /\ category' = category /\ spool' = spool /\ mode' = mode
    BY <1>3 DEF ToVerify, GoTo
  <2>2. DocsOf(spool) \in Seq(Docs)
    BY <1>01, DocsType
  <2>3. DocsOf(spool') = Order
    BY <1>0, <2>1, <2>2, ConcatEmptySeq DEF BatchStream
  <2> QED BY <1>0, <2>1, <2>3 DEF BatchStream
<1>4. CASE HashDocument
  BY <1>0, <1>4 DEF HashDocument, Fail, GoTo, BatchStream
<1>5. CASE ReadDocument
  BY <1>0, <1>5 DEF ReadDocument, Fail, GoTo, BatchStream, Verdict
<1>6. CASE KeepDocument
  <2>1. /\ phase = "rehash" /\ phase' = "hash" /\ todo # <<>> /\ todo' = Tail(todo)
        /\ category' = category /\ spool' = Append(spool, held) /\ mode' = mode
        /\ held \in Verdicts /\ held.doc = Head(todo)
    BY <1>0, <1>6 DEF KeepDocument, Fail, GoTo, TypeOK, BatchStream
  <2>2. DocsOf(spool) \in Seq(Docs) /\ DocsOf(spool') = Append(DocsOf(spool), Head(todo))
    BY <1>01, <2>1, DocsAppend
  <2>3. DocsOf(spool') \o todo' = DocsOf(spool) \o todo
    BY <1>01, <2>1, <2>2, MoveHead
  <2> QED BY <1>0, <2>1, <2>3 DEF BatchStream
<1>7. CASE Verify
  BY <1>0, <1>7 DEF Verify, Fail, GoTo, BatchStream
<1>8. CASE \E d \in Docs : Edit(d)
  BY <1>0, <1>8 DEF Edit, place, BatchStream, InManifest
<1>9. CASE UNCHANGED vars
  BY <1>0, <1>9 DEF vars, place, BatchStream, InManifest
<1>10. ~List /\ ~NextCategory /\ ~ValidateFile /\ ~Publish /\ ~Stop /\ ~Done
  BY <1>0 DEF List, NextCategory, ValidateFile, Publish, Stop, Done, Fail, GoTo, TypeOK
<1> QED
  BY <1>1, <1>2, <1>3, <1>4, <1>5, <1>6, <1>7, <1>8, <1>9, <1>10 DEF Next, Validate

\* What the next category adds to what is streamed, what is read of it leaves.
LEMMA NextPackageStream ==
  ASSUME StreamInv, [Next]_vars, Running, Running', mode = "package"
  PROVE  mode' = "package" /\ PackageStream'
<1>0. TypeOK /\ PackageStream /\ CountInv /\ \A d \in Docs : file[d] \in had[d]
  BY DEF StreamInv
<1>01. /\ todo \in Seq(Docs) /\ spool \in Seq(Verdicts) /\ DocsOf(spool) \in Seq(Docs)
       /\ \A S \in SUBSET Docs : Sorted[S] \in Seq(Docs)
       /\ Flows \in SUBSET Docs /\ Processes \in SUBSET Docs
  BY <1>0, DocsType, DocumentAssumption DEF TypeOK, Processes
<1> USE DEF world, work, Running
<1>1. CASE IndexFlow
  <2>1. /\ phase = "read_flow" /\ phase' = "read_flow" /\ mode' = mode
        /\ category' = category /\ spool' = spool
    BY <1>1 DEF IndexFlow, Fail, GoTo
  <2> QED BY <1>0, <2>1 DEF PackageStream
<1>2. CASE List
  <2>0. PICK Found : Found = {d \in Docs : Present(d) /\ (category = "processes") = IsProcess(d)}
    OBVIOUS
  <2>1. /\ phase = "list" /\ todo = <<>> /\ todo' = Sorted[Found]
        /\ phase' = (IF category = "index" THEN "read_flow" ELSE "read")
        /\ UNCHANGED <<file, had, mode, category, spool>>
    BY <1>0, <1>2, <2>0 DEF List, PackageStream
  <2>2. CASE category = "index"
    BY <1>0, <2>1, <2>2 DEF PackageStream
  <2>3. CASE category = "flows"
    <3>1. Found \in SUBSET Flows
      BY <2>0, <2>3 DEF IsProcess
    <3>2. Listed(Found, Flows)
      BY <1>0, <1>01, <2>0, <2>3, <3>1 DEF Listed, Present, IsProcess
    <3>3. DocsOf(spool') \o todo' = Sorted[Found]
      <4>1. spool = <<>> /\ Sorted[Found] \in Seq(Docs)
        BY <1>0, <1>01, <2>1, <2>3, <3>1 DEF PackageStream
      <4> QED BY <2>1, <4>1, NoVerdicts, ConcatEmptySeq
    <3>4. \E S \in SUBSET Flows : Listed(S, Flows)' /\ DocsOf(spool') \o todo' = Sorted[S]
      <4>1. Listed(Found, Flows)'
        BY <2>1, <3>2 DEF Listed
      <4> QED BY <3>1, <3>3, <4>1
    <3> QED BY <2>1, <2>3, <3>4 DEF PackageStream
  <2>4. CASE category = "processes"
    <3>1. Found \in SUBSET Processes
      BY <2>0, <2>4 DEF IsProcess, Processes
    <3>2. Listed(Found, Processes)
      BY <1>0, <1>01, <2>0, <2>4, <3>1 DEF Listed, Present, IsProcess, Processes
    <3>3. PICK S \in SUBSET Flows : Listed(S, Flows) /\ DocsOf(spool) = Sorted[S]
      BY <1>0, <2>1, <2>4 DEF PackageStream
    <3>4. Listed(S, Flows)' /\ Listed(Found, Processes)'
      BY <2>1, <3>2, <3>3 DEF Listed
    <3>5. DocsOf(spool') \o todo' = Sorted[S] \o Sorted[Found]
      BY <2>1, <3>3
    <3> QED BY <2>1, <2>4, <3>1, <3>4, <3>5 DEF PackageStream, Processes
  <2> QED BY <1>0, <2>2, <2>3, <2>4 DEF TypeOK
<1>3. CASE NextCategory
  <2>1. /\ phase \in {"read_flow", "read"} /\ todo = <<>> /\ category # "processes"
        /\ category' = (IF category = "index" THEN "flows" ELSE "processes")
        /\ phase' = "list" /\ todo' = <<>>
        /\ UNCHANGED <<had, mode, spool>>
    BY <1>3 DEF NextCategory
  <2>2. CASE category = "index"
    BY <1>0, <2>1, <2>2 DEF PackageStream
  <2>3. CASE category = "flows"
    <3>1. phase = "read"
      BY <1>0, <2>1, <2>3 DEF PackageStream
    <3>2. PICK S \in SUBSET Flows : Listed(S, Flows) /\ DocsOf(spool) \o todo = Sorted[S]
      BY <1>0, <2>3, <3>1 DEF PackageStream
    <3>3. DocsOf(spool) = Sorted[S]
      BY <1>01, <2>1, <3>2, ConcatEmptySeq
    <3>4. Listed(S, Flows)'
      BY <2>1, <3>2 DEF Listed
    <3> QED BY <2>1, <2>3, <3>3, <3>4 DEF PackageStream
  <2> QED BY <1>0, <2>1, <2>2, <2>3 DEF TypeOK
<1>4. CASE ToVerify
  <2>1. /\ phase = "read" /\ category = "processes" /\ todo = <<>> /\ phase' = "verify"
        /\ UNCHANGED <<had, mode, category, spool>>
    BY <1>4 DEF ToVerify, GoTo
  <2>2. PICK S \in SUBSET Flows, T \in SUBSET Processes :
          /\ Listed(S, Flows) /\ Listed(T, Processes)
          /\ DocsOf(spool) \o todo = Sorted[S] \o Sorted[T]
    BY <1>0, <2>1 DEF PackageStream
  <2>3. DocsOf(spool') = Sorted[S] \o Sorted[T]
    <3>1. DocsOf(spool) \o todo = DocsOf(spool)
      BY <1>01, <2>1, ConcatEmptySeq
    <3> QED BY <2>1, <2>2, <3>1
  <2>4. Listed(S, Flows)' /\ Listed(T, Processes)'
    BY <2>1, <2>2 DEF Listed
  <2> QED BY <2>1, <2>3, <2>4 DEF PackageStream, Processes
<1>5. CASE ValidateFile
  <2> DEFINE d == Head(todo)
  <2>1. /\ phase = "read" /\ phase' = "read" /\ todo # <<>> /\ todo' = Tail(todo)
        /\ spool' = Append(spool, Verdict(d)) /\ Present(d) /\ d \in Docs
        /\ UNCHANGED <<had, mode, category>>
    BY <1>0, <1>5 DEF ValidateFile, Fail, GoTo, TypeOK
  <2>2. Verdict(d) \in Verdicts /\ Verdict(d).doc = d
    BY <1>0, <2>1, VerdictType DEF Verdict
  <2>3. DocsOf(spool') = Append(DocsOf(spool), d)
    BY <1>01, <2>1, <2>2, DocsAppend
  <2>4. DocsOf(spool') \o todo' = DocsOf(spool) \o todo
    BY <1>01, <2>1, <2>3, MoveHead
  <2> QED BY <1>0, <2>1, <2>4 DEF PackageStream, Listed, Processes
<1>6. CASE Verify
  <2>1. /\ phase = "verify" /\ phase' = "verify" /\ UNCHANGED <<had, mode, category, spool>>
    BY <1>6 DEF Verify, Fail, GoTo
  <2> QED BY <1>0, <2>1 DEF PackageStream, Listed, Processes
<1>7. CASE \E d \in Docs : Edit(d)
  <2>1. UNCHANGED <<mode, phase, category, todo, spool>>
    BY <1>7 DEF Edit, place
  <2>2. \A d \in Docs : had[d] \subseteq had'[d]
    BY <1>0, <1>7 DEF Edit, TypeOK
  <2>3. \A K \in {Flows, Processes} : \A S : Listed(S, K) => Listed(S, K)'
    BY <1>01, <2>2 DEF Listed, Processes
  <2> QED BY <1>0, <2>1, <2>3 DEF PackageStream, Processes
<1>8. CASE UNCHANGED vars
  BY <1>0, <1>8 DEF vars, place, PackageStream, Listed, Processes
<1>9. /\ ~Load /\ ~Loaded /\ ~HashFlow /\ ~RehashFlow /\ ~FlowsIndexed /\ ~HashDocument
      /\ ~ReadDocument /\ ~KeepDocument /\ ~Publish /\ ~Stop /\ ~Done
  BY <1>0 DEF Load, Loaded, HashFlow, RehashFlow, FlowsIndexed, HashDocument, ReadDocument,
     KeepDocument, Publish, Stop, Done, Fail, GoTo, TypeOK
<1> QED
  BY <1>1, <1>2, <1>3, <1>4, <1>5, <1>6, <1>7, <1>8, <1>9 DEF Next, Validate

\* Publication: the spool is all that was listed, and the count its issues.
LEMMA PublishStream ==
  ASSUME StreamInv, Publish
  PROVE  StreamIsComplete'
<1>1. /\ TypeOK /\ phase = "verify" /\ CountInv
      /\ mode = "batch" => BatchStream
      /\ mode = "package" => PackageStream
      /\ mode \in {"batch", "package"}
  BY DEF StreamInv, Publish, Running, TypeOK
<1>2. /\ events' = [verdicts |-> spool, count |-> count]
      /\ mode' = mode /\ had' = had
  BY DEF Publish, world
<1>3. events'.count = Cardinality(IssuesOf(events'.verdicts))
  <2>1. held = Nothing
    BY <1>1 DEF CountInv
  <2>2. Cardinality(IssuesOf(spool)) \in Nat
    BY <1>1, FS_CardinalityType DEF CountInv
  <2> QED BY <1>1, <1>2, <2>1, <2>2 DEF CountInv, HeldIssues
<1>4. mode = "batch" => DocsOf(spool) = Order
  BY <1>1 DEF BatchStream
<1>5. ASSUME mode = "package"
      PROVE  LET docs == DocsOf(spool) IN
             /\ docs = Sorted[RangeOf(docs) \cap Flows] \o Sorted[RangeOf(docs) \ Flows]
             /\ \A d \in Docs : Gone \notin had[d] => d \in RangeOf(docs)
  <2>1. PICK S \in SUBSET Flows, T \in SUBSET Processes :
          /\ Listed(S, Flows) /\ Listed(T, Processes)
          /\ DocsOf(spool) = Sorted[S] \o Sorted[T]
    BY <1>1, <1>5 DEF PackageStream
  <2>2. S \in SUBSET Docs /\ T \in SUBSET Docs
    BY DocumentAssumption DEF Processes
  <2>3. /\ Sorted[S] \in Seq(Docs) /\ Sorted[T] \in Seq(Docs)
        /\ RangeOf(Sorted[S]) = S /\ RangeOf(Sorted[T]) = T
    BY <2>2, DocumentAssumption
  <2>4. RangeOf(DocsOf(spool)) = S \cup T
    BY <2>1, <2>3, RangeConcat
  <2>5. (S \cup T) \cap Flows = S /\ (S \cup T) \ Flows = T
    BY DEF Processes
  <2>6. \A d \in Docs : Gone \notin had[d] => d \in S \cup T
    BY <2>1 DEF Listed, Processes
  <2> QED BY <2>1, <2>4, <2>5, <2>6
<1> QED BY <1>2, <1>3, <1>4, <1>5 DEF StreamIsComplete

LEMMA NextStream == StreamInv /\ [Next]_vars => StreamInv'
<1> SUFFICES ASSUME StreamInv, [Next]_vars PROVE StreamInv'
  OBVIOUS
<1>1. TypeOK /\ TypeOK'
  BY NextType DEF StreamInv
<1>2. \A d \in Docs : file'[d] \in had'[d]
  <2>1. CASE \E d \in Docs : Edit(d)
    <3>1. PICK d \in Docs : Edit(d)
      BY <2>1
    <3>2. PICK c \in Contents \cup {Gone} :
            /\ file' = [file EXCEPT ![d] = c]
            /\ had' = [had EXCEPT ![d] = @ \cup {c}]
      BY <3>1 DEF Edit
    <3> QED BY <1>1, <3>2 DEF StreamInv, TypeOK, Files
  <2>2. CASE ~(\E d \in Docs : Edit(d))
    <3>1. UNCHANGED <<file, had>>
      BY <2>2 DEF Next, Validate, Done, Stop, Load, Loaded, HashFlow, IndexFlow, RehashFlow,
         FlowsIndexed, List, NextCategory, ToVerify, HashDocument, ReadDocument, KeepDocument,
         ValidateFile, Verify, Publish, Fail, world, vars
    <3> QED BY <3>1 DEF StreamInv
  <2> QED BY <2>1, <2>2
<1>3. Running' =>
        CountInv' /\ (mode' = "batch" => BatchStream') /\ (mode' = "package" => PackageStream')
  <2> SUFFICES ASSUME Running' PROVE CountInv' /\ (mode' = "batch" => BatchStream')
                                                /\ (mode' = "package" => PackageStream')
    OBVIOUS
  <2>1. Running
    BY DEF Running, Next, Validate, Done, Stop, Load, Loaded, HashFlow, IndexFlow, RehashFlow,
       FlowsIndexed, List, NextCategory, ToVerify, HashDocument, ReadDocument, KeepDocument,
       ValidateFile, Verify, Publish, Edit, vars, place
  <2>2. CASE mode = "batch"
    BY <2>1, <2>2, NextCount, NextBatchStream
  <2>3. CASE mode = "package"
    BY <2>1, <2>3, NextCount, NextPackageStream
  <2> QED BY <1>1, <2>2, <2>3 DEF TypeOK
<1>4. (Published' => phase' = "done") /\ StreamIsComplete'
  <2>1. CASE Publish
    BY <2>1, PublishStream DEF Publish, GoTo
  <2>2. CASE ~Publish /\ Published
    <3>1. phase = "done"
      BY <2>2 DEF StreamInv
    <3>2. UNCHANGED vars
      BY <2>2, <3>1 DEF Next, Validate, Done, Stop, Load, Loaded, HashFlow, IndexFlow, RehashFlow,
         FlowsIndexed, List, NextCategory, ToVerify, HashDocument, ReadDocument, KeepDocument,
         ValidateFile, Verify, Edit
    <3> QED BY <2>2, <3>1, <3>2 DEF StreamInv, StreamIsComplete, Published, vars, world, place
  <2>3. CASE ~Publish /\ ~Published
    <3>1. events' = events
      BY <2>3 DEF Next, Validate, Done, Stop, Load, Loaded, HashFlow, IndexFlow, RehashFlow,
         FlowsIndexed, List, NextCategory, ToVerify, HashDocument, ReadDocument, KeepDocument,
         ValidateFile, Verify, Edit, Fail, world, work, vars
    <3> QED BY <2>3, <3>1 DEF Published, StreamIsComplete
  <2> QED BY <2>1, <2>2, <2>3
<1> QED BY <1>1, <1>2, <1>3, <1>4 DEF StreamInv

\* What is published is whole, for any package, manifest and edits: a batch
\* reports the documents of the manifest in its order, a package run every
\* file that was never missing, and the count is that of the issues.
THEOREM StreamTheorem == Spec => []StreamIsComplete
<1>1. StreamInv => StreamIsComplete
  BY DEF StreamInv
<1> QED BY <1>1, InitStream, NextStream, PTL DEF Spec

-----------------------------------------------------------------------------
\* An edit: a document that is still unrestored was so before, and holds
\* nothing it ever had; whoever was parted stays so.
LEMMA EditParts ==
  ASSUME TypeOK, HistoryInv, NEW e \in Docs, Edit(e), NEW d \in Docs
  PROVE  /\ IsFiniteSet(had'[d]) /\ Cardinality(had'[d]) <= edits'[d] + 1
         /\ had[d] \subseteq had'[d]
         /\ Unrestored(d)' => Unrestored(d)
         /\ \A x, y : y \in had[d] /\ Parted(d, x, y) /\ Unrestored(d)' /\ x # y => file'[d] # y
<1>1. PICK c \in Contents \cup {Gone} :
        /\ file' = [file EXCEPT ![e] = c]
        /\ had' = [had EXCEPT ![e] = @ \cup {c}]
        /\ edits' = [edits EXCEPT ![e] = @ + 1]
  BY DEF Edit
<1>2. /\ IsFiniteSet(had[d]) /\ Cardinality(had[d]) <= edits[d] + 1
      /\ edits[d] \in Nat /\ Cardinality(had[d]) \in Nat
  BY FS_CardinalityType DEF HistoryInv, TypeOK
<1>3. CASE d # e
  <2>1. file'[d] = file[d] /\ had'[d] = had[d] /\ edits'[d] = edits[d]
    BY <1>1, <1>3 DEF TypeOK, Files
  <2> QED BY <1>2, <2>1 DEF Unrestored, Parted
<1>4. CASE d = e
  <2>1. file'[d] = c /\ had'[d] = had[d] \cup {c} /\ edits'[d] = edits[d] + 1
    BY <1>1, <1>4 DEF TypeOK, Files
  <2>2. /\ IsFiniteSet(had[d] \cup {c})
        /\ Cardinality(had[d] \cup {c}) =
             IF c \in had[d] THEN Cardinality(had[d]) ELSE Cardinality(had[d]) + 1
    BY <1>2, FS_AddElement
  <2>3. Cardinality(had'[d]) = IF c \in had[d] THEN Cardinality(had[d]) ELSE Cardinality(had[d]) + 1
    BY <2>1, <2>2
  <2>4. Unrestored(d)' => Unrestored(d) /\ c \notin had[d]
    BY <1>2, <2>1, <2>3 DEF Unrestored
  <2>5. \A y : y \in had[d] /\ Unrestored(d)' => file'[d] # y
    BY <2>1, <2>4
  <2> QED BY <1>2, <2>1, <2>2, <2>3, <2>4, <2>5
<1> QED BY <1>3, <1>4

\* Every step that is not an edit leaves the files and their history alone.
LEMMA StillWorld ==
  ASSUME [Next]_vars, ~(\E d \in Docs : Edit(d))
  PROVE  UNCHANGED <<file, edits, had>>
  BY DEF Next, Validate, Done, Stop, Load, Loaded, HashFlow, IndexFlow, RehashFlow,
     FlowsIndexed, List, NextCategory, ToVerify, HashDocument, ReadDocument, KeepDocument,
     ValidateFile, Verify, Publish, Fail, world, vars

LEMMA InitState == Init => StateInv
<1> SUFFICES ASSUME Init PROVE StateInv
  OBVIOUS
<1>1. StreamInv
  BY InitStream
<1>2. \A d \in Docs : ~Indexed(d)
  BY DEF Init, Indexed
<1>3. ASSUME NEW d \in Docs PROVE IsFiniteSet(had[d]) /\ Cardinality(had[d]) <= edits[d] + 1
  <2>1. had[d] = {file[d]} /\ edits[d] = 0
    BY DEF Init
  <2>2. IsFiniteSet({file[d]}) /\ Cardinality({file[d]}) = 1
    BY FS_Singleton
  <2> QED BY <2>1, <2>2
<1>4. HistoryInv
  BY <1>2, <1>3 DEF HistoryInv
<1>5. mode = "batch" => BatchState
  BY <1>2 DEF Init, BatchState, InManifest
<1>6. mode = "package" => PackageState
  BY <1>2 DEF PackageState
<1>7. SeenInv /\ SettledInv
  BY DEF Init, SeenInv, SettledInv
<1>8. ~Published
  BY DEF Init, Published
<1> QED BY <1>1, <1>4, <1>5, <1>6, <1>7, <1>8 DEF StateInv, OneStateIsJudged

LEMMA NextHistory ==
  ASSUME StateInv, [Next]_vars
  PROVE  HistoryInv'
<1>0. TypeOK /\ HistoryInv /\ \A d \in Docs : file[d] \in had[d]
  BY DEF StateInv, StreamInv
<1>1. CASE \E e \in Docs : Edit(e)
  <2>1. PICK e \in Docs : Edit(e)
    BY <1>1
  <2>2. index' = index
    BY <2>1 DEF Edit, work
  <2>3. ASSUME NEW d \in Docs
        PROVE  /\ IsFiniteSet(had'[d]) /\ Cardinality(had'[d]) <= edits'[d] + 1
               /\ had[d] \subseteq had'[d]
    BY <1>0, <2>1, EditParts
  <2> QED BY <1>0, <2>2, <2>3 DEF HistoryInv, Indexed
<1>2. CASE IndexFlow /\ ~(\E e \in Docs : Edit(e))
  <2>1. UNCHANGED <<file, edits, had>>
    BY <1>2, StillWorld
  <2>2. index' = index \/ index' = [index EXCEPT ![Head(todo)] = file[Head(todo)]]
    BY <1>2 DEF IndexFlow, Fail
  <2>3. \A d \in Docs : index'[d] = index[d] \/ index'[d] = file[d]
    BY <1>0, <2>2 DEF TypeOK, Files
  <2> QED BY <1>0, <2>1, <2>3 DEF HistoryInv, Indexed
<1>3. CASE ~IndexFlow /\ ~(\E e \in Docs : Edit(e))
  <2>1. UNCHANGED <<file, edits, had>>
    BY <1>3, StillWorld
  <2>2. index' = index
    BY <1>3 DEF Next, Validate, Done, Stop, Load, Loaded, HashFlow, RehashFlow,
       FlowsIndexed, List, NextCategory, ToVerify, HashDocument, ReadDocument, KeepDocument,
       ValidateFile, Verify, Publish, Fail, work, vars
  <2> QED BY <1>0, <2>1, <2>2 DEF HistoryInv, Indexed
<1> QED BY <1>1, <1>2, <1>3

\* What was seen against what the index holds.
LEMMA NextSeen ==
  ASSUME StateInv, [Next]_vars, Running, Running'
  PROVE  SeenInv' /\ SettledInv'
<1>0. /\ StreamInv /\ TypeOK /\ HistoryInv /\ CountInv /\ SeenInv /\ SettledInv
      /\ mode = "batch" => BatchState /\ BatchStream
      /\ mode = "package" => PackageState /\ PackageStream
      /\ mode \in {"batch", "package"}
      /\ todo \in Seq(Docs) /\ spool \in Seq(Verdicts)
  BY DEF StateInv, StreamInv, TypeOK
<1>01. \A i \in 1 .. Len(spool) : spool[i].doc \in Docs
  BY <1>0, DocsType
<1> USE DEF world, work, Running
<1>1. CASE \E e \in Docs : Edit(e)
  <2>1. PICK e \in Docs : Edit(e)
    BY <1>1
  <2>2. UNCHANGED <<mode, manifest, phase, todo, began, index, held, spool>>
    BY <2>1 DEF Edit, place
  <2>3. \A d \in Docs :
          /\ Unrestored(d)' => Unrestored(d)
          /\ \A x, y : y \in had[d] /\ Parted(d, x, y) /\ Unrestored(d)' /\ x # y => file'[d] # y
    BY <1>0, <2>1, EditParts
  <2>4. \A d \in Docs : \A x : Indexed(d) /\ Parted(d, x, index[d]) =>
          (Unrestored(d)' /\ x # index[d] => file'[d] # index[d])
    BY <1>0, <2>3 DEF HistoryInv
  <2>5. SeenInv'
    <3>1. ASSUME phase = "rehash", Indexed(held.doc)
          PROVE  Parted(held.doc, held.seen, index[held.doc])'
      <4>1. held.doc \in Docs /\ held' = held
        BY <1>0, <2>2, <3>1 DEF TypeOK, Verdicts
      <4>2. Parted(held.doc, held.seen, index[held.doc])
        BY <1>0, <3>1 DEF SeenInv
      <4> QED BY <2>2, <2>4, <3>1, <4>1, <4>2 DEF Parted, Unrestored
    <3>2. ASSUME NEW i \in 1 .. Len(spool), Indexed(spool[i].doc)
          PROVE  Parted(spool[i].doc, spool[i].seen, index[spool[i].doc])'
      <4>1. Parted(spool[i].doc, spool[i].seen, index[spool[i].doc])
        BY <1>0, <3>2 DEF SeenInv
      <4> QED BY <1>01, <2>2, <2>4, <3>2, <4>1 DEF Parted, Unrestored
    <3> QED BY <2>2, <3>1, <3>2 DEF SeenInv, Indexed
  <2>6. SettledInv'
    BY <1>0, <2>2, <2>3 DEF SettledInv, Indexed
  <2> QED BY <2>5, <2>6
<1>2. CASE ~(\E e \in Docs : Edit(e))
  <2>0. UNCHANGED <<file, edits, had>>
    BY <1>2, StillWorld
  <2>1. CASE IndexFlow
    <3>1. phase = "read_flow" /\ phase' \in {"read_flow", "rehash_flow"} /\ spool' = spool
      BY <2>1 DEF IndexFlow, Fail, GoTo
    <3>2. spool = <<>>
      BY <1>0, <3>1 DEF BatchStream, PackageStream
    <3> QED BY <3>1, <3>2 DEF SeenInv, SettledInv
  <2>2. CASE ToVerify
    <3>1. /\ phase' = "verify" /\ todo' = Sorted[{d \in Docs : index[d] # Gone}]
          /\ UNCHANGED <<index, held, spool>>
      BY <2>2 DEF ToVerify, GoTo
    <3>2. RangeOf(todo') = {d \in Docs : index[d] # Gone}
      BY <3>1, DocumentAssumption
    <3>3. SettledInv'
      BY <3>1, <3>2 DEF SettledInv, Indexed
    <3> QED BY <1>0, <2>0, <3>1, <3>3 DEF SeenInv, Parted, Unrestored, Indexed
  <2>3. CASE ReadDocument
    <3>1. /\ phase' = "rehash" /\ held' = Verdict(Head(todo))
          /\ UNCHANGED <<index, spool>>
      BY <2>3 DEF ReadDocument, Fail, GoTo
    <3>2. held'.doc = Head(todo) /\ held'.seen = file[Head(todo)]
      BY <3>1 DEF Verdict
    <3> QED BY <1>0, <2>0, <3>1, <3>2 DEF SeenInv, SettledInv, Parted, Unrestored, Indexed
  <2>4. CASE KeepDocument
    <3>1. /\ phase = "rehash" /\ phase' = "hash" /\ spool' = Append(spool, held)
          /\ index' = index /\ held \in Verdicts
      BY <1>0, <2>4 DEF KeepDocument, Fail, GoTo, TypeOK
    <3>2. ASSUME NEW i \in 1 .. Len(spool'), Indexed(spool[i].doc)'
          PROVE  Parted(spool[i].doc, spool[i].seen, index[spool[i].doc])'
      <4>1. spool'[i] = held \/ (i \in 1 .. Len(spool) /\ spool'[i] = spool[i])
        BY <1>0, <3>1, <3>2
      <4> QED BY <1>0, <2>0, <3>1, <3>2, <4>1 DEF SeenInv, Parted, Unrestored, Indexed
    <3> QED BY <3>1, <3>2 DEF SeenInv, SettledInv
  <2>5. CASE ValidateFile
    <3> DEFINE v == Verdict(Head(todo))
    <3>1. /\ phase = "read" /\ phase' = "read" /\ spool' = Append(spool, v)
          /\ index' = index /\ Present(Head(todo)) /\ Head(todo) \in Docs
      BY <1>0, <2>5 DEF ValidateFile, Fail, GoTo, TypeOK
    <3>2. v \in Verdicts /\ v.doc = Head(todo) /\ v.seen = file[Head(todo)]
      BY <1>0, <3>1, VerdictType DEF Verdict
    <3>3. ASSUME NEW i \in 1 .. Len(spool'), Indexed(spool[i].doc)'
          PROVE  Parted(spool[i].doc, spool[i].seen, index[spool[i].doc])'
      <4>1. spool'[i] = v \/ (i \in 1 .. Len(spool) /\ spool'[i] = spool[i])
        BY <1>0, <3>1, <3>2, <3>3
      <4> HIDE DEF v
      <4> QED BY <1>0, <2>0, <3>1, <3>2, <3>3, <4>1 DEF SeenInv, Parted, Unrestored, Indexed
    <3> QED BY <3>1, <3>3 DEF SeenInv, SettledInv
  <2>6. CASE Verify
    <3>1. /\ phase = "verify" /\ phase' = "verify" /\ todo # <<>> /\ todo' = Tail(todo)
          /\ file[Head(todo)] = index[Head(todo)]
          /\ UNCHANGED <<mode, manifest, began, index, held, spool>>
      BY <2>6 DEF Verify, Fail, GoTo
    <3>2. RangeOf(todo) \subseteq {Head(todo)} \cup RangeOf(todo')
      BY <1>0, <3>1, TailRange
    <3>3. ASSUME NEW d \in Docs, Indexed(d), Unrestored(d), d \notin RangeOf(todo')
          PROVE  /\ index[d] = IF mode = "batch" THEN manifest[d] ELSE began[d]
                 /\ \A i \in 1 .. Len(spool) : spool[i].doc = d => spool[i].seen = index[d]
      <4>1. CASE d \notin RangeOf(todo)
        BY <1>0, <3>1, <3>3, <4>1 DEF SettledInv
      <4>2. CASE d = Head(todo)
        <5>1. Parted(d, IF mode = "batch" THEN manifest[d] ELSE began[d], index[d])
          BY <1>0, <3>1, <3>3 DEF BatchState, PackageState, PackageStream
        <5>2. \A i \in 1 .. Len(spool) : spool[i].doc = d => Parted(d, spool[i].seen, index[d])
          BY <1>0, <3>3 DEF SeenInv
        <5> QED BY <3>1, <3>3, <4>2, <5>1, <5>2 DEF Parted
      <4> QED BY <3>2, <3>3, <4>1, <4>2
    <3>4. SettledInv'
      BY <2>0, <3>1, <3>3 DEF SettledInv, Indexed, Unrestored
    <3> QED BY <1>0, <2>0, <3>1, <3>4 DEF SeenInv, Parted, Unrestored, Indexed
  <2>7. CASE UNCHANGED vars
    BY <1>0, <2>7 DEF vars, place, SeenInv, SettledInv, Parted, Unrestored, Indexed
  <2>8. CASE /\ Next /\ ~IndexFlow /\ ~ToVerify /\ ~ReadDocument /\ ~KeepDocument /\ ~ValidateFile
             /\ ~Verify
    <3>1. UNCHANGED <<index, held, spool>> /\ phase' \notin {"rehash", "verify"}
      BY <1>2, <2>8 DEF Next, Validate, Done, Stop, Load, Loaded, HashFlow, RehashFlow,
         FlowsIndexed, List, NextCategory, HashDocument, Publish, Fail, GoTo, vars, place
    <3> QED BY <1>0, <2>0, <3>1 DEF SeenInv, SettledInv, Parted, Unrestored, Indexed
  <2> QED BY <2>1, <2>2, <2>3, <2>4, <2>5, <2>6, <2>7, <2>8
<1> QED BY <1>1, <1>2

\* The manifest against the files, in a batch.
LEMMA NextBatchState ==
  ASSUME StateInv, [Next]_vars, Running, Running', mode = "batch"
  PROVE  BatchState'
<1>0. /\ TypeOK /\ TypeOK' /\ HistoryInv /\ BatchState /\ BatchStream /\ CountInv
      /\ \A d \in Docs : file[d] \in had[d]
      /\ todo \in Seq(Docs) /\ spool \in Seq(Verdicts)
  BY NextType DEF StateInv, StreamInv, TypeOK
<1>01. /\ \A i \in 1 .. Len(spool) : spool[i].doc \in Docs
       /\ InManifest \subseteq Docs
  BY <1>0, DocsType, DocumentAssumption DEF InManifest, RangeOf
<1>02. manifest' = manifest
  BY DEF Next, Validate, Done, Stop, Load, Loaded, HashFlow, IndexFlow, RehashFlow,
     FlowsIndexed, List, NextCategory, ToVerify, HashDocument, ReadDocument, KeepDocument,
     ValidateFile, Verify, Publish, Edit, Fail, vars
<1> USE DEF world, work, Running
<1>1. CASE \E e \in Docs : Edit(e)
  <2>1. PICK e \in Docs : Edit(e)
    BY <1>1
  <2>2. UNCHANGED <<manifest, phase, todo, began, index, spool>>
    BY <2>1 DEF Edit, place
  <2>3. \A d \in Docs :
          /\ had[d] \subseteq had'[d]
          /\ Unrestored(d)' => Unrestored(d)
          /\ \A x, y : y \in had[d] /\ Parted(d, x, y) /\ Unrestored(d)' /\ x # y => file'[d] # y
    BY <1>0, <2>1, EditParts
  <2>4. ASSUME phase # "load", NEW d \in InManifest
        PROVE  manifest[d] \in had'[d] /\ Parted(d, began[d], manifest[d])'
    <3>1. manifest[d] \in had[d] /\ Parted(d, began[d], manifest[d])
      BY <1>0, <2>4 DEF BatchState
    <3> QED BY <1>01, <2>2, <2>3, <3>1 DEF Parted
  <2>5. ASSUME NEW d \in Docs, Indexed(d), ~(phase = "rehash_flow" /\ d = Head(todo))
        PROVE  Parted(d, manifest[d], index[d])'
    <3>1. index[d] \in had[d] /\ Parted(d, manifest[d], index[d])
      BY <1>0, <2>5 DEF BatchState, HistoryInv
    <3> QED BY <2>2, <2>3, <3>1 DEF Parted
  <2>6. phase = "load" => \A d \in InManifest : d \in RangeOf(todo) \/ manifest[d] \in had'[d]
    BY <1>0, <1>01, <2>3 DEF BatchState
  <2>7. \A i \in 1 .. Len(spool) :
          Unrestored(spool[i].doc)' => began[spool[i].doc] = manifest[spool[i].doc]
    <3>1. \A i \in 1 .. Len(spool) : Unrestored(spool[i].doc)' => Unrestored(spool[i].doc)
      BY <1>01, <2>2, <2>3 DEF Unrestored
    <3> QED BY <1>0, <3>1 DEF BatchState
  <2> QED BY <1>0, <2>2, <2>4, <2>5, <2>6, <2>7 DEF BatchState, InManifest, Indexed
<1>2. CASE ~(\E e \in Docs : Edit(e))
  <2>0. UNCHANGED <<file, edits, had>>
    BY <1>2, StillWorld
  <2> USE DEF Parted, Unrestored, Indexed
  <2>1. CASE Load
    <3>1. /\ phase = "load" /\ phase' = "load" /\ todo # <<>> /\ todo' = Tail(todo)
          /\ file[Head(todo)] = manifest[Head(todo)] /\ Head(todo) \in Docs
          /\ UNCHANGED <<began, index, spool>>
      BY <1>0, <2>1 DEF Load, Fail, GoTo, Asserted
    <3>2. RangeOf(todo) \subseteq {Head(todo)} \cup RangeOf(todo')
      BY <1>0, <3>1, TailRange
    <3>3. \A d \in InManifest : d \in RangeOf(todo') \/ manifest[d] \in had[d]
      BY <1>0, <3>1, <3>2 DEF BatchState
    <3> QED BY <1>0, <1>02, <2>0, <3>1, <3>3 DEF BatchState, InManifest
  <2>2. CASE Loaded
    <3>1. /\ phase = "load" /\ phase' = "hash_flow" /\ todo = <<>> /\ began' = file
          /\ UNCHANGED <<index, spool>> /\ spool = <<>>
      BY <1>0, <2>2 DEF Loaded, GoTo, BatchStream
    <3>2. \A d \in InManifest : manifest[d] \in had[d]
      <4>1. RangeOf(todo) = {}
        BY <3>1 DEF RangeOf
      <4> QED BY <1>0, <3>1, <4>1 DEF BatchState
    <3>3. spool' = <<>>
      BY <3>1
    <3> QED BY <1>0, <1>02, <2>0, <3>1, <3>2, <3>3 DEF BatchState, InManifest
  <2>3. CASE IndexFlow
    <3> DEFINE h == Head(todo)
    <3>1. /\ phase = "read_flow" /\ phase' = "rehash_flow" /\ todo # <<>> /\ todo' = todo
          /\ index' = [index EXCEPT ![h] = file[h]] /\ h \in Docs
          /\ UNCHANGED <<began, spool>>
      BY <1>0, <2>3 DEF IndexFlow, Fail, GoTo
    <3>2. h \in InManifest
      <4>1. Len(todo) \in Nat \ {0} /\ h = todo[1]
        BY <1>0, <3>1
      <4>2. h \in RangeOf(todo)
        BY <4>1 DEF RangeOf
      <4> QED BY <1>0, <3>1, <4>2 DEF BatchStream
    <3>3. \A d \in Docs : d # h => index'[d] = index[d]
      BY <1>0, <3>1 DEF TypeOK, Files
    <3> HIDE DEF h
    <3>4. h' = h
      BY <3>1 DEF h
    <3>5. \A d \in Docs : Indexed(d)' => d \in InManifest
      BY <1>0, <3>2, <3>3 DEF BatchState
    <3>6. \A d \in Docs : d # h /\ Indexed(d)' => Parted(d, manifest[d], index'[d])
      BY <1>0, <3>1, <3>3 DEF BatchState
    <3> QED BY <1>0, <1>02, <2>0, <3>1, <3>4, <3>5, <3>6 DEF BatchState, InManifest, h
  <2>4. CASE RehashFlow
    <3>1. /\ phase = "rehash_flow" /\ phase' = "hash_flow"
          /\ file[Head(todo)] = manifest[Head(todo)]
          /\ UNCHANGED <<began, index, spool>>
      BY <2>4 DEF RehashFlow, Fail, GoTo, Asserted
    <3> QED BY <1>0, <1>02, <2>0, <3>1 DEF BatchState, InManifest
  <2>5. CASE KeepDocument
    <3>1. /\ phase = "rehash" /\ phase' = "hash" /\ spool' = Append(spool, held)
          /\ file[Head(todo)] = manifest[Head(todo)] /\ held.doc = Head(todo)
          /\ todo # <<>> /\ held \in Verdicts
          /\ UNCHANGED <<began, index>>
      BY <1>0, <2>5 DEF KeepDocument, Fail, GoTo, Asserted, BatchStream, TypeOK
    <3>2. Head(todo) \in InManifest
      <4>1. Len(todo) \in Nat \ {0} /\ Head(todo) = todo[1]
        BY <1>0, <3>1
      <4>2. Head(todo) \in RangeOf(todo)
        BY <4>1 DEF RangeOf
      <4>3. RangeOf(todo) \subseteq InManifest
        <5>1. DocsOf(spool) \o todo = Order /\ DocsOf(spool) \in Seq(Docs)
          BY <1>0, <3>1, DocsType DEF BatchStream
        <5>3. todo \in Seq(Docs)
          BY <1>0 DEF TypeOK
        <5>2. RangeOf(DocsOf(spool) \o todo) = RangeOf(DocsOf(spool)) \cup RangeOf(todo)
          BY <5>1, <5>3, DocsConcat, Zenon
        <5> QED BY <5>1, <5>2 DEF InManifest
      <4> QED BY <4>2, <4>3
    <3>3. Unrestored(held.doc) => began[held.doc] = manifest[held.doc]
      BY <1>0, <3>1, <3>2 DEF BatchState
    <3>4. ASSUME NEW i \in 1 .. Len(spool')
          PROVE  Unrestored(spool'[i].doc) => began[spool'[i].doc] = manifest[spool'[i].doc]
      <4>1. spool'[i] = held \/ (i \in 1 .. Len(spool) /\ spool'[i] = spool[i])
        BY <1>0, <3>1, <3>4
      <4> QED BY <1>0, <3>3, <4>1 DEF BatchState
    <3> QED BY <1>0, <1>02, <2>0, <3>1, <3>4 DEF BatchState, InManifest
  <2>6. CASE HashFlow \/ FlowsIndexed \/ ToVerify \/ HashDocument \/ ReadDocument \/ Verify
    <3>1. /\ phase \notin {"load", "rehash_flow"} /\ phase' \notin {"load", "rehash_flow"}
          /\ UNCHANGED <<began, index, spool>>
      BY <2>6 DEF HashFlow, FlowsIndexed, ToVerify, HashDocument, ReadDocument, Verify, Fail, GoTo
    <3> QED BY <1>0, <1>02, <2>0, <3>1 DEF BatchState, InManifest
  <2>7. CASE UNCHANGED vars
    BY <1>0, <2>7 DEF vars, place, BatchState, InManifest
  <2>8. ~List /\ ~NextCategory /\ ~ValidateFile /\ ~Publish /\ ~Stop /\ ~Done
    BY <1>0 DEF List, NextCategory, ValidateFile, Publish, Stop, Done, Fail, GoTo, TypeOK
  <2> QED BY <1>2, <2>1, <2>2, <2>3, <2>4, <2>5, <2>6, <2>7, <2>8 DEF Next, Validate
<1> QED BY <1>1, <1>2

\* The files at the end of the indexing against the index, in a package run.
LEMMA NextPackageState ==
  ASSUME StateInv, [Next]_vars, Running, Running', mode = "package"
  PROVE  PackageState'
<1>0. TypeOK /\ TypeOK' /\ HistoryInv /\ PackageState /\ PackageStream
  BY NextType DEF StateInv, StreamInv
<1> USE DEF world, work, Running
<1>1. CASE \E e \in Docs : Edit(e)
  <2>1. PICK e \in Docs : Edit(e)
    BY <1>1
  <2>2. UNCHANGED <<category, began, index>>
    BY <2>1 DEF Edit, place
  <2>3. \A d \in Docs : \A x, y :
          y \in had[d] /\ Parted(d, x, y) /\ Unrestored(d)' /\ x # y => file'[d] # y
    BY <1>0, <2>1, EditParts
  <2>4. ASSUME category # "index", NEW d \in Docs, Indexed(d)
        PROVE  Parted(d, began[d], index[d])'
    <3>1. index[d] \in had[d] /\ Parted(d, began[d], index[d])
      BY <1>0, <2>4 DEF PackageState, HistoryInv
    <3> QED BY <2>2, <2>3, <3>1 DEF Parted
  <2> QED BY <2>2, <2>4 DEF PackageState, Indexed
<1>2. CASE ~(\E e \in Docs : Edit(e))
  <2>0. UNCHANGED <<file, edits, had>>
    BY <1>2, StillWorld
  <2> USE DEF Parted, Unrestored, Indexed
  <2>1. CASE NextCategory
    <3>1. /\ began' = (IF category = "index" THEN file ELSE began) /\ index' = index
      BY <2>1 DEF NextCategory
    <3> QED BY <1>0, <2>0, <3>1 DEF PackageState
  <2>2. CASE IndexFlow
    <3>1. category = "index" /\ category' = category
      BY <1>0, <2>2 DEF IndexFlow, Fail, GoTo, PackageStream, TypeOK
    <3> QED BY <3>1 DEF PackageState
  <2>3. CASE List \/ ToVerify \/ ValidateFile \/ Verify \/ UNCHANGED vars
    <3>1. UNCHANGED <<category, began, index>>
      BY <2>3 DEF List, ToVerify, ValidateFile, Verify, Fail, GoTo, vars, place
    <3> QED BY <1>0, <2>0, <3>1 DEF PackageState
  <2>4. /\ ~Load /\ ~Loaded /\ ~HashFlow /\ ~RehashFlow /\ ~FlowsIndexed /\ ~HashDocument
        /\ ~ReadDocument /\ ~KeepDocument /\ ~Publish /\ ~Stop /\ ~Done
    BY <1>0 DEF Load, Loaded, HashFlow, RehashFlow, FlowsIndexed, HashDocument, ReadDocument,
       KeepDocument, Publish, Stop, Done, Fail, GoTo, TypeOK
  <2> QED BY <1>2, <2>1, <2>2, <2>3, <2>4 DEF Next, Validate
<1> QED BY <1>1, <1>2

\* Publication: every flow of the index is settled, every document of the
\* manifest is in the spool.
LEMMA PublishState ==
  ASSUME StateInv, Publish
  PROVE  OneStateIsJudged'
<1> SUFFICES ASSUME NeverRestored PROVE OneStateIsJudged'
  BY DEF Publish, OneStateIsJudged, NeverRestored, world
<1>1. /\ phase = "verify" /\ todo = <<>> /\ spool \in Seq(Verdicts)
      /\ mode \in {"batch", "package"} /\ SettledInv
      /\ mode = "batch" => BatchState /\ BatchStream
      /\ events' = [verdicts |-> spool, count |-> count]
      /\ UNCHANGED <<mode, manifest, began, index>>
  BY DEF StateInv, StreamInv, TypeOK, Publish, Running, world, work
<1>2. RangeOf(todo) = {} /\ \A d \in Docs : Unrestored(d)
  BY <1>1 DEF RangeOf, NeverRestored, Unrestored
<1>3. ASSUME NEW d \in Docs, Indexed(d)
      PROVE  /\ index[d] = IF mode = "batch" THEN manifest[d] ELSE began[d]
             /\ \A i \in 1 .. Len(spool) : spool[i].doc = d => spool[i].seen = index[d]
  BY <1>1, <1>2, <1>3 DEF SettledInv
<1>4. ASSUME mode = "batch", NEW d \in InManifest PROVE began[d] = manifest[d]
  <2>1. DocsOf(spool) = Order
    BY <1>1, <1>4 DEF BatchStream
  <2>2. PICK i \in 1 .. Len(Order) : Order[i] = d
    BY <1>4 DEF InManifest, RangeOf
  <2>3. i \in 1 .. Len(spool) /\ spool[i].doc = d /\ d \in Docs
    BY <1>1, <2>1, <2>2, DocsType
  <2> QED BY <1>1, <1>2, <1>4, <2>3 DEF BatchState
<1>5. ASSUME NEW f \in Flows, Indexed(f) PROVE began[f] = index[f]
  <2>1. f \in Docs
    BY DocumentAssumption
  <2>2. CASE mode = "batch"
    <3>1. f \in InManifest
      BY <1>1, <1>5, <2>1, <2>2 DEF BatchState
    <3> QED BY <1>3, <1>4, <1>5, <2>1, <2>2, <3>1
  <2>3. CASE mode = "package"
    BY <1>3, <1>5, <2>1, <2>3
  <2> QED BY <1>1, <2>2, <2>3
<1>6. ASSUME NEW i \in 1 .. Len(spool), Indexed(spool[i].doc)
      PROVE  spool[i].seen = index[spool[i].doc]
  BY <1>1, <1>3, <1>6, DocsType
<1> QED BY <1>1, <1>4, <1>5, <1>6 DEF OneStateIsJudged, InManifest, Indexed

LEMMA NextState == StateInv /\ [Next]_vars => StateInv'
<1> SUFFICES ASSUME StateInv, [Next]_vars PROVE StateInv'
  OBVIOUS
<1>1. StreamInv' /\ HistoryInv' /\ mode \in {"batch", "package"} /\ mode' = mode
  BY NextStream, NextHistory DEF StateInv, StreamInv, TypeOK, Next, Validate, Done, Stop, Load,
     Loaded, HashFlow, IndexFlow, RehashFlow, FlowsIndexed, List, NextCategory, ToVerify,
     HashDocument, ReadDocument, KeepDocument, ValidateFile, Verify, Publish, Edit, Fail, vars
<1>2. Running' =>
        /\ SeenInv' /\ SettledInv'
        /\ mode' = "batch" => BatchState'
        /\ mode' = "package" => PackageState'
  <2> SUFFICES ASSUME Running'
               PROVE  /\ SeenInv' /\ SettledInv'
                      /\ mode' = "batch" => BatchState'
                      /\ mode' = "package" => PackageState'
    OBVIOUS
  <2>1. Running
    BY DEF Running, Next, Validate, Done, Stop, Load, Loaded, HashFlow, IndexFlow, RehashFlow,
       FlowsIndexed, List, NextCategory, ToVerify, HashDocument, ReadDocument, KeepDocument,
       ValidateFile, Verify, Publish, Edit, vars, place
  <2> QED BY <1>1, <2>1, NextSeen, NextBatchState, NextPackageState
<1>3. OneStateIsJudged'
  <2>1. CASE Publish
    BY <2>1, PublishState
  <2>2. CASE ~Publish /\ Published
    <3>1. phase = "done"
      BY <2>2 DEF StateInv, StreamInv
    <3>2. UNCHANGED vars
      BY <2>2, <3>1 DEF Next, Validate, Done, Stop, Load, Loaded, HashFlow, IndexFlow, RehashFlow,
         FlowsIndexed, List, NextCategory, ToVerify, HashDocument, ReadDocument, KeepDocument,
         ValidateFile, Verify, Edit
    <3> QED BY <3>2 DEF StateInv, OneStateIsJudged, NeverRestored, Published, InManifest, vars, world, work
  <2>3. CASE ~Publish /\ ~Published
    <3>1. events' = events
      BY <2>3 DEF Next, Validate, Done, Stop, Load, Loaded, HashFlow, IndexFlow, RehashFlow,
         FlowsIndexed, List, NextCategory, ToVerify, HashDocument, ReadDocument, KeepDocument,
         ValidateFile, Verify, Edit, Fail, world, work, vars
    <3> QED BY <2>3, <3>1 DEF Published, OneStateIsJudged
  <2> QED BY <2>1, <2>2, <2>3
<1> QED BY <1>1, <1>2, <1>3 DEF StateInv

\* A run that completes judged one state of the package, whatever it is and
\* however often it is edited, as long as no document came back to a content
\* it had before.
THEOREM OneStateTheorem == Spec => []OneStateIsJudged
<1>1. StateInv => OneStateIsJudged
  BY DEF StateInv
<1> QED BY <1>1, InitState, NextState, PTL DEF Spec
-----------------------------------------------------------------------------
(* The analysis of a process *)

LEMMA IdsListed ==
  ASSUME NEW p \in Analyzed
  PROVE  /\ Len(ReferenceIds(p)) \in Nat
         /\ DOMAIN ReferenceIds(p) = 1 .. Len(ReferenceIds(p))
         /\ Len(ReferenceIds(p)) <= IF p.type = "Reference flow(s)" THEN Len(p.references) ELSE 0
         /\ (\A j, k \in 1 .. Len(p.references) :
               p.references[j] # NoId /\ p.references[j] = p.references[k] => j = k)
            => \A j, k \in 1 .. Len(ReferenceIds(p)) :
                 ReferenceIds(p)[j] = ReferenceIds(p)[k] => j = k
<1> DEFINE q == p.references
           N == Len(q)
           Body(ids, x) == IF x # NoId THEN Append(ids, x) ELSE ids
           Runs(f, k) == f = [n \in 0 .. k |-> IF n = 0 THEN <<>> ELSE Body(f[n - 1], q[n])]
           ids == CHOOSE f : Runs(f, N)
           Distinct == \A j, k \in 1 .. N : q[j] # NoId /\ q[j] = q[k] => j = k
           Kept(r, n) == /\ IsList(r) /\ Len(r) <= n
                         /\ \A j \in 1 .. Len(r) : \E i \in 1 .. n : q[i] # NoId /\ r[j] = q[i]
                         /\ Distinct => \A j, k \in 1 .. Len(r) : r[j] = r[k] => j = k
<1>1. N \in Nat
  BY AnalyzedAssumption
<1>2. CASE p.type # "Reference flow(s)"
  <2>1. ReferenceIds(p) = <<>>
    BY <1>2 DEF ReferenceIds
  <2>2. Len(ReferenceIds(p)) = 0 /\ DOMAIN ReferenceIds(p) = 1 .. 0
    <3>1. Len(<<>>) = 0 /\ DOMAIN <<>> = 1 .. 0
      OBVIOUS
    <3> QED BY <2>1, <3>1
  <2>3. \A j, k \in 1 .. Len(ReferenceIds(p)) : j = k
    BY <2>2
  <2>4. (IF p.type = "Reference flow(s)" THEN Len(p.references) ELSE 0) = 0
    BY <1>2
  <2>5. Len(ReferenceIds(p)) \in Nat /\ Len(ReferenceIds(p)) <= 0
    BY <2>2
  <2> HIDE DEF ReferenceIds
  <2>6. DOMAIN ReferenceIds(p) = 1 .. Len(ReferenceIds(p))
    BY <2>2
  <2> QED BY <2>3, <2>4, <2>5, <2>6
<1>3. CASE p.type = "Reference flow(s)"
  <2>1. ReferenceIds(p) = ids[N]
    BY <1>3 DEF ReferenceIds, Selected, ForEach
  <2> HIDE DEF q, N, Body, Runs, ids, Kept
  <2>2. Runs(ids, N)
    <3> DEFINE S == {k \in 0 .. N : \E f : Runs(f, k)}
    <3>1. 0 \in S
      <4>1. Runs([n \in 0 .. 0 |-> <<>>], 0)
        BY DEF Runs
      <4> QED BY <4>1, <1>1
    <3>2. ASSUME NEW k \in 1 .. N, k - 1 \in S PROVE k \in S
      <4>1. PICK f : Runs(f, k - 1)
        BY <3>2
      <4> DEFINE h == [n \in 0 .. k |-> IF n = 0 THEN <<>> ELSE Body(f[n - 1], q[n])]
      <4>2. \A n \in 0 .. k - 1 : h[n] = f[n]
        BY <4>1, <1>1 DEF Runs
      <4> HIDE DEF h
      <4>3. \A n \in 0 .. k : n # 0 => h[n - 1] = f[n - 1]
        BY <4>2, <1>1
      <4>4. Runs(h, k)
        BY <4>3 DEF Runs, h
      <4> QED BY <4>4
    <3> HIDE DEF S
    <3>3. \A k \in 0 .. N : k \in S
      BY <3>1, <3>2, <1>1, Induction
    <3> QED BY <3>3, <1>1 DEF S, ids
  <2>3. ids[0] = <<>> /\ \A k \in 1 .. N : ids[k] = Body(ids[k - 1], q[k])
    BY <1>1, <2>2 DEF Runs
  <2> DEFINE S == {k \in 0 .. N : Kept(ids[k], k)}
  <2>4. 0 \in S
    <3>1. IsList(<<>>) /\ Len(<<>>) = 0
      BY DEF IsList
    <3> QED BY <1>1, <2>3, <3>1 DEF Kept
  <2>5. ASSUME NEW k \in 1 .. N, k - 1 \in S PROVE k \in S
    <3> DEFINE r == ids[k - 1]
    <3>1. Kept(r, k - 1) /\ ids[k] = Body(r, q[k]) /\ k \in 0 .. N /\ k - 1 \in Nat
      BY <1>1, <2>3, <2>5
    <3>2. CASE q[k] = NoId
      <4> HIDE DEF r
      <4>1. ids[k] = r
        BY <3>1, <3>2 DEF Body
      <4>2. /\ IsList(r) /\ Len(r) <= k - 1
            /\ \A j \in 1 .. Len(r) : \E i \in 1 .. k - 1 : q[i] # NoId /\ r[j] = q[i]
            /\ Distinct => \A i, j \in 1 .. Len(r) : r[i] = r[j] => i = j
        BY <3>1 DEF Kept
      <4>3. Len(r) \in Nat
        BY <4>2, ListLength
      <4>4. Len(r) <= k /\ \A i \in 1 .. k - 1 : i \in 1 .. k
        BY <3>1, <4>2, <4>3
      <4> HIDE DEF Distinct
      <4>5. Kept(r, k)
        BY <4>2, <4>4 DEF Kept
      <4> QED BY <3>1, <4>1, <4>5
    <3>3. CASE q[k] # NoId
      <4> DEFINE t == Append(r, q[k])
      <4> HIDE DEF r
      <4>1. /\ IsList(t) /\ Len(r) \in Nat /\ Len(t) = Len(r) + 1
            /\ \A i \in 1 .. Len(r) : t[i] = r[i]
            /\ t[Len(r) + 1] = q[k]
        BY <3>1, ListAppended DEF Kept
      <4> HIDE DEF t
      <4>2. \A j \in 1 .. Len(t) : \E i \in 1 .. k : q[i] # NoId /\ t[j] = q[i]
        <5> SUFFICES ASSUME NEW j \in 1 .. Len(t)
                     PROVE  \E i \in 1 .. k : q[i] # NoId /\ t[j] = q[i]
          OBVIOUS
        <5>1. CASE j = Len(r) + 1
          BY <5>1, <4>1, <3>3, <1>1
        <5>2. CASE j # Len(r) + 1
          <6>1. j \in 1 .. Len(r)
            BY <5>2, <4>1
          <6>2. PICK i \in 1 .. k - 1 : q[i] # NoId /\ r[j] = q[i]
            BY <6>1, <3>1 DEF Kept
          <6> QED BY <6>1, <6>2, <4>1, <1>1
        <5> QED BY <5>1, <5>2
      <4>3. ASSUME Distinct, NEW i \in 1 .. Len(t), NEW j \in 1 .. Len(t), t[i] = t[j]
            PROVE  i = j
        <5>1. ASSUME NEW m \in 1 .. Len(r) PROVE r[m] # q[k]
          <6>1. PICK n \in 1 .. k - 1 : q[n] # NoId /\ r[m] = q[n]
            BY <3>1, <5>1 DEF Kept
          <6>2. n \in 1 .. N /\ k \in 1 .. N /\ n # k
            BY <1>1, <3>1
          <6> QED BY <6>1, <6>2, <4>3
        <5>2. \A m \in 1 .. Len(t) : m = Len(r) + 1 \/ m \in 1 .. Len(r)
          BY <4>1
        <5>3. \A m, n \in 1 .. Len(r) : r[m] = r[n] => m = n
          BY <3>1, <4>3 DEF Kept
        <5> QED BY <4>1, <4>3, <5>1, <5>2, <5>3
      <4>4. Len(t) <= k
        BY <3>1, <4>1 DEF Kept
      <4>5. ids[k] = t
        BY <3>1, <3>3 DEF Body, t, r
      <4> QED BY <3>1, <4>1, <4>2, <4>3, <4>4, <4>5 DEF Kept
    <3> QED BY <3>2, <3>3
  <2> HIDE DEF S
  <2>6. \A k \in 0 .. N : k \in S
    BY <1>1, <2>4, <2>5, Induction
  <2>7. Kept(ReferenceIds(p), N)
    BY <1>1, <2>1, <2>6 DEF S
  <2>8. Len(ReferenceIds(p)) \in Nat /\ DOMAIN ReferenceIds(p) = 1 .. Len(ReferenceIds(p))
    BY <2>7, ListLength DEF Kept
  <2>9. Len(ReferenceIds(p)) <= Len(p.references)
    BY <2>7 DEF Kept, N, q
  <2>10. (\A j, k \in 1 .. Len(p.references) :
            p.references[j] # NoId /\ p.references[j] = p.references[k] => j = k)
         => \A j, k \in 1 .. Len(ReferenceIds(p)) :
              ReferenceIds(p)[j] = ReferenceIds(p)[k] => j = k
    BY <2>7 DEF Kept, N, q
  <2> QED BY <1>3, <2>8, <2>9, <2>10
<1> QED BY <1>2, <1>3

LEMMA PartsListed ==
  ASSUME NEW p \in Analyzed, NEW i \in Exchanges(p)
  PROVE  LET it == Interpretation(p, i) IN
         /\ Len(it.parts) \in Nat /\ DOMAIN it.parts = 1 .. Len(it.parts)
         /\ Len(it.parts) <= Len(ReferenceIds(p))
         /\ it.mode # "invalid" => Len(it.parts) = Len(ReferenceIds(p))
         /\ it.mode = "legacy-output-share" => SharesAccepted(p)
<1> DEFINE ids == ReferenceIds(p)
<1>1. Len(ids) \in Nat /\ DOMAIN ids = 1 .. Len(ids)
  BY IdsListed
<1> HIDE DEF ids
<1>2. ASSUME NEW part, part = [k \in DOMAIN ids |-> part[k]]
      PROVE  Len(part) = Len(ids) /\ DOMAIN part = 1 .. Len(ids)
  BY <1>1, <1>2, ListMade
<1> DEFINE e == p.exchanges[i]
           Vectored(it) == /\ Len(it.parts) \in Nat /\ DOMAIN it.parts = 1 .. Len(it.parts)
                           /\ Len(it.parts) <= Len(ids)
                           /\ it.mode # "invalid" => Len(it.parts) = Len(ids)
                           /\ it.mode = "legacy-output-share" => SharesAccepted(p)
<1>3. ASSUME NEW way, NEW part, part = [k \in DOMAIN ids |-> part[k]],
             way = "legacy-output-share" => SharesAccepted(p)
      PROVE  Vectored([mode |-> way, parts |-> part])
  <2>1. Len(part) = Len(ids) /\ DOMAIN part = 1 .. Len(ids)
    BY <1>2, <1>3
  <2> QED BY <1>1, <1>3, <2>1
<1>4. Vectored([mode |-> "invalid", parts |-> <<>>])
  <2>1. Len(<<>>) = 0 /\ DOMAIN <<>> = 1 .. 0
    OBVIOUS
  <2> QED BY <1>1, <2>1
<1> HIDE DEF Vectored
<1>5. ASSUME NEW way, way \in {"undeclared", "legacy-scalar-empty", "legacy-targetless-full"}
      PROVE  Vectored([mode |-> way, parts |-> Everything(p)])
  <2>1. way # "legacy-output-share"
    BY <1>5
  <2>2. Everything(p) = [k \in DOMAIN ids |-> Everything(p)[k]]
    BY DEF Everything, ids
  <2> QED BY <1>3, <2>1, <2>2
<1>6. i \in Legacy(p) => Shape(e) = "targetless"
  BY DEF Legacy
<1>7. Vectored(Interpretation(p, i))
  <2> DEFINE plain == Shape(e) \in {"undeclared", "legacy-scalar-empty"}
             vectors == Shape(e) = "vector" /\ Bad(VectorChecks(p, i)) = {}
             full == i \in Legacy(p) /\ LegacyCode(p, i) = ""
  <2>1. CASE SharesAccepted(p)
    <3> DEFINE share == [k \in DOMAIN ids |-> SharePart(p, ids[k])]
    <3>1. share = [k \in DOMAIN ids |-> share[k]]
      OBVIOUS
    <3>2. Interpretation(p, i) = [mode |-> "legacy-output-share", parts |-> share]
      BY <2>1 DEF Interpretation, ids
    <3> HIDE DEF share
    <3> QED BY <1>3, <2>1, <3>1, <3>2
  <2>2. CASE ~SharesAccepted(p) /\ plain
    <3>1. Interpretation(p, i) = [mode |-> Shape(e), parts |-> Everything(p)]
      BY <2>2, <1>6 DEF Interpretation
    <3> QED BY <1>5, <2>2, <3>1
  <2>3. CASE ~SharesAccepted(p) /\ vectors
    <3> DEFINE vector == [k \in DOMAIN ids |-> VectorPart(e, ids[k])]
    <3>1. vector = [k \in DOMAIN ids |-> vector[k]]
      OBVIOUS
    <3>2. Interpretation(p, i) = [mode |-> "explicit-vector", parts |-> vector]
      BY <2>3, <1>6 DEF Interpretation, ids
    <3> HIDE DEF vector
    <3> QED BY <1>3, <3>1, <3>2
  <2>4. CASE ~SharesAccepted(p) /\ full
    <3>1. Interpretation(p, i) = [mode |-> "legacy-targetless-full", parts |-> Everything(p)]
      BY <2>4, <1>6 DEF Interpretation
    <3> QED BY <1>5, <3>1
  <2>5. CASE ~SharesAccepted(p) /\ ~plain /\ ~vectors /\ ~full
    <3>1. Interpretation(p, i) = [mode |-> "invalid", parts |-> <<>>]
      BY <2>5 DEF Interpretation
    <3> QED BY <1>4, <3>1
  <2> HIDE DEF plain, vectors, full
  <2> QED BY <2>1, <2>2, <2>3, <2>4, <2>5
<1> QED BY <1>7 DEF Vectored, ids

\* The memory foreseen is enough for the analysis.
LEMMA BudgetIsEnough ==
  ASSUME NEW p \in Analyzed
  PROVE  CellsOf(p, AnalysisOf(p)) <= ProjectionCells(p)
<1> DEFINE a == AnalysisOf(p)
           N == Len(p.exchanges)
           R == IF p.type = "Reference flow(s)" THEN Len(p.references) ELSE 0
           declared == {i \in Exchanges(p) : IsLegacyDeclaration(p.exchanges[i])}
           shares == {i \in Exchanges(p) : a.interpretations[i].mode = "legacy-output-share"}
           lengths == [i \in Exchanges(p) |-> Len(a.interpretations[i].parts)]
<1>1. N \in Nat /\ R \in Nat /\ Exchanges(p) = 1 .. N
  BY AnalyzedAssumption DEF Exchanges
<1>2. \A i \in Exchanges(p) : a.interpretations[i] = Interpretation(p, i)
  BY DEF AnalysisOf
<1> HIDE DEF N, a
<1>3. Len(lengths) = N /\ \A i \in 1 .. N : lengths[i] \in 0 .. R
  <2>1. Len(lengths) = N
    BY <1>1, ListMade
  <2>2. ASSUME NEW i \in 1 .. N PROVE lengths[i] \in 0 .. R
    <3>1. /\ Len(Interpretation(p, i).parts) \in Nat
          /\ Len(Interpretation(p, i).parts) <= Len(ReferenceIds(p))
      BY <1>1, PartsListed
    <3>2. Len(ReferenceIds(p)) \in Nat /\ Len(ReferenceIds(p)) <= R
      BY IdsListed
    <3> HIDE DEF R
    <3> QED BY <3>1, <3>2, <1>1, <1>2
  <2> QED BY <2>1, <2>2
<1> HIDE DEF R, lengths
<1>4. SumOf(lengths) \in 0 .. N * R
  BY <1>1, <1>3, SumBounded
<1>5. Legacy(p) \subseteq declared
  <2> SUFFICES ASSUME NEW i \in Exchanges(p), i \in Legacy(p)
               PROVE  IsLegacyDeclaration(p.exchanges[i])
    BY DEF declared, Legacy
  <2> DEFINE e == p.exchanges[i]
  <2>1. Shape(e) = "targetless" /\ Len(e.rows) = 1
    BY DEF Legacy
  <2>2. e.form \in {"absent", "none", "object", "array"} /\ DOMAIN e.rows = 1 .. 1
    BY <2>1, AnalyzedAssumption DEF Exchanges
  <2> HIDE DEF e
  <2>3. /\ e.form # "absent" /\ e.form # "none"
        /\ ~\E k \in DOMAIN e.rows : e.rows[k].empty
        /\ Targeted(e) = {}
    BY <2>1 DEF Shape
  <2>4. 1 \in DOMAIN e.rows
    BY <2>2
  <2>5. ~e.rows[1].empty /\ e.rows[1].target = NoTarget
    BY <2>3, <2>4 DEF Targeted
  <2> QED BY <2>1, <2>2, <2>3, <2>5 DEF IsLegacyDeclaration, e
<1>6. /\ IsFiniteSet(declared) /\ IsFiniteSet(Legacy(p)) /\ IsFiniteSet(shares)
      /\ Cardinality(Legacy(p)) <= Cardinality(declared)
      /\ Cardinality(shares) <= N
      /\ Cardinality(Legacy(p)) \in Nat /\ Cardinality(declared) \in Nat /\ Cardinality(shares) \in Nat
  <2>1. IsFiniteSet(1 .. N) /\ Cardinality(1 .. N) = N
    BY <1>1, FS_Interval
  <2>2. declared \subseteq 1 .. N /\ shares \subseteq 1 .. N
    BY <1>1
  <2> HIDE DEF declared, shares
  <2>3. IsFiniteSet(declared) /\ IsFiniteSet(shares) /\ Cardinality(shares) <= N
    BY <2>1, <2>2, FS_Subset
  <2>4. IsFiniteSet(Legacy(p)) /\ Cardinality(Legacy(p)) <= Cardinality(declared)
    BY <1>5, <2>3, FS_Subset
  <2> QED BY <2>3, <2>4, FS_CardinalityType
<1> DEFINE foreseen == IF \E i \in declared : p.exchanges[i].direction = "Output"
                       THEN N * Cardinality(declared) ELSE 0
<1>7. Cardinality(shares) * Cardinality(Legacy(p)) <= foreseen /\ foreseen \in Nat
  <2>1. CASE shares = {}
    <3>1. Cardinality(shares) = 0
      BY <2>1, FS_EmptySet
    <3>2. foreseen \in Nat
      <4> HIDE DEF declared
      <4> QED BY <1>1, <1>6
    <3> HIDE DEF foreseen, shares
    <3> QED BY <3>1, <3>2, <1>6
  <2>2. CASE shares # {}
    <3>1. SharesAccepted(p)
      BY <2>2, <1>2, PartsListed
    <3>2. \E i \in declared : p.exchanges[i].direction = "Output"
      BY <3>1, <1>5 DEF SharesAccepted, OutputShares
    <3>3. foreseen = N * Cardinality(declared)
      BY <3>2
    <3> HIDE DEF foreseen, shares, declared
    <3> DEFINE c == Cardinality(shares)
               l == Cardinality(Legacy(p))
               d == Cardinality(declared)
    <3>4. c \in Nat /\ l \in Nat /\ d \in Nat /\ c <= N /\ l <= d
      BY <1>6
    <3> HIDE DEF c, l, d
    <3>5. c * l <= N * l
      BY <1>1, <3>4
    <3>6. N * l <= N * d
      BY <1>1, <3>4
    <3>7. c * l \in Nat /\ N * l \in Nat /\ N * d \in Nat
      BY <1>1, <3>4
    <3> QED BY <3>3, <3>5, <3>6, <3>7 DEF c, l, d
  <2> QED BY <2>1, <2>2
<1>8. CellsOf(p, a) = SumOf(lengths) + Cardinality(shares) * Cardinality(Legacy(p))
  BY DEF CellsOf, lengths
<1>9. ProjectionCells(p) = N * R + foreseen
  BY DEF ProjectionCells, N, R
<1> HIDE DEF shares, foreseen
<1>10. N * R \in Nat
  BY <1>1
<1>11. Cardinality(shares) * Cardinality(Legacy(p)) \in Nat
  BY <1>6
<1> QED BY <1>4, <1>7, <1>8, <1>9, <1>10, <1>11 DEF a

\* What a walk without a refusal has seen.
LEMMA ValidChecks ==
  ASSUME NEW p \in Analyzed, Bad(AllChecks(p)) = {}
  PROVE  /\ \A c \in AllChecks(p) : c.code \in PassingCodes
         /\ \A i \in Exchanges(p) : \A c \in ExchangeChecks(p, i) : c.code \in PassingCodes
         /\ \A i \in Legacy(p) : LegacyCode(p, i) \in PassingCodes
         /\ Bad(LegacyChecks(p)) = {}
         /\ \A j, k \in 1 .. Len(ReferenceIds(p)) :
              ReferenceIds(p)[j] = ReferenceIds(p)[k] => j = k
<1>1. \A c \in AllChecks(p) : c.code \in PassingCodes
  BY DEF Bad
<1>2. \A i \in Exchanges(p) : \A c \in ExchangeChecks(p, i) : c.code \in PassingCodes
  <2> SUFFICES ASSUME NEW i \in Exchanges(p), NEW c \in ExchangeChecks(p, i) PROVE c \in AllChecks(p)
    BY <1>1
  <2> QED BY DEF AllChecks
<1>3. LegacyChecks(p) \subseteq AllChecks(p) /\ ReferenceChecks(p) \subseteq AllChecks(p)
  BY DEF AllChecks
<1>4. \A i \in Legacy(p) : LegacyCode(p, i) \in PassingCodes
  <2> SUFFICES ASSUME NEW i \in Legacy(p) PROVE LegacyCode(p, i) \in PassingCodes
    OBVIOUS
  <2>1. Check("allocation-legacy", <<i>>, LegacyCode(p, i)) \in LegacyChecks(p)
    BY DEF LegacyChecks
  <2>2. Check("allocation-legacy", <<i>>, LegacyCode(p, i)).code = LegacyCode(p, i)
    BY DEF Check
  <2> QED BY <1>1, <1>3, <2>1, <2>2
<1>5. Bad(LegacyChecks(p)) = {}
  BY <1>1, <1>3 DEF Bad
<1>6. \A j, k \in 1 .. Len(ReferenceIds(p)) :
        ReferenceIds(p)[j] = ReferenceIds(p)[k] => j = k
  <2>1. CASE p.type # "Reference flow(s)"
    <3>1. Len(ReferenceIds(p)) <= 0 /\ Len(ReferenceIds(p)) \in Nat
      BY <2>1, IdsListed
    <3> QED BY <3>1
  <2>2. CASE p.type = "Reference flow(s)"
    <3> DEFINE q == p.references
    <3>1. Len(q) \in Nat /\ DOMAIN q = 1 .. Len(q)
      BY AnalyzedAssumption
    <3>2. ASSUME NEW k \in DOMAIN q PROVE NamingCode(p, q, k) \in PassingCodes
      <4>1. q # <<>>
        <5>1. DOMAIN <<>> = {}
          OBVIOUS
        <5> HIDE DEF q
        <5> QED BY <3>2, <5>1
      <4>2. Check("quantitative-reference", <<k>>, NamingCode(p, q, k)) \in ReferenceChecks(p)
        <5>1. ReferenceChecks(p) = {Check("quantitative-reference", <<m>>, NamingCode(p, q, m)) : m \in DOMAIN q}
          BY <2>2, <4>1 DEF ReferenceChecks, BasisTypes
        <5> QED BY <3>2, <5>1
      <4>3. Check("quantitative-reference", <<k>>, NamingCode(p, q, k)).code = NamingCode(p, q, k)
        BY DEF Check
      <4> QED BY <1>1, <1>3, <4>2, <4>3
    <3>3. \A k \in DOMAIN q : q[k] # NoId /\ ~Seen(q, k)
      BY <3>2 DEF NamingCode, PassingCodes
    <3>4. ASSUME NEW j \in 1 .. Len(q), NEW k \in 1 .. Len(q), q[j] = q[k] PROVE j = k
      <4> HIDE DEF q
      <4>1. j < k \/ k < j \/ j = k
        BY <3>1
      <4>2. CASE j < k
        <5>1. j \in 1 .. (k - 1)
          BY <3>1, <4>2
        <5> QED BY <3>1, <3>3, <3>4, <5>1 DEF Seen
      <4>3. CASE k < j
        <5>1. k \in 1 .. (j - 1)
          BY <3>1, <4>3
        <5> QED BY <3>1, <3>3, <3>4, <5>1 DEF Seen
      <4> QED BY <4>1, <4>2, <4>3
    <3> QED BY <3>4, IdsListed DEF q
  <2> QED BY <2>1, <2>2
<1> QED BY <1>1, <1>2, <1>4, <1>5, <1>6

\* The rows of a vector that is not refused name an exchange each, another
\* for each row, and are a whole together.
LEMMA VectorIsWhole ==
  ASSUME NEW p \in Analyzed, NEW i \in Exchanges(p),
         \A c \in VectorChecks(p, i) : c.code \in PassingCodes
  PROVE  LET e == p.exchanges[i] IN
         /\ \A k \in DOMAIN e.rows : Amount(e.rows[k].fraction) \in 0 .. Whole
         /\ \A j, k \in DOMAIN e.rows : e.rows[j].target = e.rows[k].target => j = k
         /\ Total(e) <= Whole + Tolerance
<1> DEFINE e == p.exchanges[i]
           ids == Targets(e)
           N == Len(e.rows)
<1>1. /\ N \in Nat /\ DOMAIN e.rows = 1 .. N
      /\ \A k \in DOMAIN e.rows : e.rows[k].fraction.amount \in 0 .. NoAmount
  BY AnalyzedAssumption DEF Exchanges
<1>2. TargetChecks(p, i) \subseteq VectorChecks(p, i)
  BY DEF VectorChecks
<1>3. ASSUME NEW k \in DOMAIN e.rows PROVE NamingCode(p, ids, k) \in PassingCodes
  <2> DEFINE c == Check("allocation-target", <<i, k>>, NamingCode(p, ids, k))
  <2>1. c \in TargetChecks(p, i)
    BY <1>3 DEF TargetChecks
  <2>2. c.code = NamingCode(p, ids, k)
    BY DEF Check
  <2> QED BY <1>2, <2>1, <2>2
<1>4. \A k \in DOMAIN e.rows : ids[k] = e.rows[k].target
  BY DEF Targets
<1>5. \A k \in DOMAIN e.rows : ~Seen(ids, k)
  BY <1>3 DEF NamingCode, PassingCodes
<1>6. ASSUME NEW k \in DOMAIN e.rows PROVE Amount(e.rows[k].fraction) # NoAmount
  <2> DEFINE c == Check("allocation-fraction", <<i, k>>,
                    IF Amount(e.rows[k].fraction) = NoAmount THEN "fraction_invalid" ELSE "")
  <2>1. c \in TargetChecks(p, i)
    BY <1>6 DEF TargetChecks
  <2>2. c.code \in PassingCodes
    BY <1>2, <2>1
  <2>3. c.code = IF Amount(e.rows[k].fraction) = NoAmount THEN "fraction_invalid" ELSE ""
    BY DEF Check
  <2> HIDE DEF c
  <2> QED BY <2>2, <2>3 DEF PassingCodes
<1>7. \A k \in DOMAIN e.rows : Amount(e.rows[k].fraction) \in 0 .. Whole
  <2> SUFFICES ASSUME NEW k \in DOMAIN e.rows PROVE Amount(e.rows[k].fraction) \in 0 .. Whole
    OBVIOUS
  <2> DEFINE f == e.rows[k].fraction
  <2>1. f.amount \in 0 .. NoAmount /\ Amount(f) # NoAmount
    BY <1>1, <1>6
  <2> HIDE DEF f
  <2>2. Amount(f) = f.amount
    BY <2>1 DEF Amount
  <2>3. f.amount \in 0 .. Whole
    <3>1. Whole \in Nat
      BY DEF Whole
    <3> QED BY <2>1, <2>2, <3>1 DEF NoAmount
  <2> QED BY <2>2, <2>3 DEF f
<1>8. Total(e) <= Whole + Tolerance
  <2> DEFINE c == Check("allocation-vector", <<i>>, IF IsWhole(Total(e)) THEN "" ELSE "sum_invalid")
  <2>1. c \in VectorChecks(p, i)
    BY <1>6 DEF VectorChecks
  <2>2. c.code \in PassingCodes
    BY <2>1
  <2>3. c.code = IF IsWhole(Total(e)) THEN "" ELSE "sum_invalid"
    BY DEF Check
  <2> HIDE DEF c
  <2>4. IsWhole(Total(e))
    BY <2>2, <2>3 DEF PassingCodes
  <2> QED BY <2>4 DEF IsWhole, Whole, Tolerance
<1> HIDE DEF e, ids
<1>9. ASSUME NEW j \in DOMAIN e.rows, NEW k \in DOMAIN e.rows, ids[j] = ids[k] PROVE j = k
  <2>1. j < k \/ k < j \/ j = k
    BY <1>1
  <2>2. CASE j < k
    <3>1. j \in 1 .. (k - 1)
      BY <1>1, <2>2
    <3> QED BY <1>5, <1>9, <3>1 DEF Seen
  <2>3. CASE k < j
    <3>1. k \in 1 .. (j - 1)
      BY <1>1, <2>3
    <3> QED BY <1>5, <1>9, <3>1 DEF Seen
  <2> QED BY <2>1, <2>2, <2>3
<1>10. \A j, k \in DOMAIN e.rows : e.rows[j].target = e.rows[k].target => j = k
  BY <1>4, <1>9
<1> QED BY <1>7, <1>8, <1>10 DEF e

\* Every part of q that is not zero is one of r, at a place of its own.
ChargedTo(q, spot, r) ==
  /\ Len(r) \in Nat /\ \A k \in 1 .. Len(r) : r[k] \in Nat
  /\ Len(q) \in Nat
  /\ \A k \in 1 .. Len(q) : q[k] # 0 => spot[k] \in 1 .. Len(r) /\ q[k] = r[spot[k]]
  /\ \A k, l \in 1 .. Len(q) : q[k] # 0 /\ q[l] # 0 /\ spot[k] = spot[l] => k = l

\* Parts that come from places of their own are together no more than a whole
\* if all are.
LEMMA ChargedOnce ==
  ASSUME NEW r, NEW q, NEW spot, ChargedTo(q, spot, r), SumOf(r) <= Whole + Tolerance
  PROVE  SumOf(q) <= Whole + Tolerance
<1>0. /\ Len(r) \in Nat /\ \A k \in 1 .. Len(r) : r[k] \in Nat
      /\ Len(q) \in Nat
      /\ \A k \in 1 .. Len(q) : q[k] # 0 => spot[k] \in 1 .. Len(r) /\ q[k] = r[spot[k]]
      /\ \A k, l \in 1 .. Len(q) : q[k] # 0 /\ q[l] # 0 /\ spot[k] = spot[l] => k = l
  BY DEF ChargedTo
<1>1. IsNumbers(q) /\ IsNumbers(r)
  <2>1. ASSUME NEW k \in 1 .. Len(q) PROVE q[k] \in Nat
    <3>1. CASE q[k] = 0
      BY <3>1
    <3>2. CASE q[k] # 0
      BY <3>2, <1>0
    <3> QED BY <3>1, <3>2
  <2> QED BY <1>0, <2>1 DEF IsNumbers
<1>2. \A k \in 1 .. Len(q) : q[k] # 0 => q[k] <= r[spot[k]]
  <2> TAKE k \in 1 .. Len(q)
  <2> HAVE q[k] # 0
  <2>1. q[k] \in Nat /\ q[k] = r[spot[k]]
    BY <1>0, <1>1 DEF IsNumbers
  <2> QED BY <2>1
<1>3. SumOf(q) <= SumOf(r)
  BY <1>0, <1>1, <1>2, SumInjected
<1>4. SumOf(q) \in Nat /\ SumOf(r) \in Nat /\ Whole + Tolerance \in Nat
  BY <1>1, SumType DEF Whole, Tolerance
<1> QED BY <1>3, <1>4

\* The shares that outputs declare are charged once to the references they
\* belong to.
LEMMA SharesChargedOnce ==
  ASSUME NEW p \in Analyzed, Bad(AllChecks(p)) = {}, SharesAccepted(p), NEW q,
         q = [k \in DOMAIN ReferenceIds(p) |->
                IF ReferenceIds(p)[k] \in {p.exchanges[j].id : j \in Legacy(p)}
                THEN SharePart(p, ReferenceIds(p)[k]) ELSE 0]
  PROVE  SumOf(q) <= Whole + Tolerance
<1> DEFINE ids == ReferenceIds(p)
           M == Len(ids)
           N == Len(p.exchanges)
           owners(id) == {j \in Legacy(p) : p.exchanges[j].id = id}
           spot == [k \in 1 .. M |-> Min(owners(ids[k]))]
           r == Shares(p)
<1>1. /\ M \in Nat /\ DOMAIN ids = 1 .. M
      /\ \A j, k \in 1 .. M : ids[j] = ids[k] => j = k
  BY IdsListed, ValidChecks
<1>2. N \in Nat /\ Exchanges(p) = 1 .. N
  BY AnalyzedAssumption DEF Exchanges
<1>3. Len(r) = N /\ \A i \in 1 .. N : r[i] = IF i \in Legacy(p) THEN Share(p, i) ELSE 0
  <2>1. DOMAIN r = 1 .. N /\ r = [i \in DOMAIN r |-> r[i]]
    BY <1>2 DEF Shares
  <2> QED BY <1>2, <2>1, ListMade DEF Shares
<1>4. ASSUME NEW i \in Legacy(p) PROVE Share(p, i) \in Nat /\ i \in 1 .. N
  <2>1. i \in 1 .. N /\ Len(p.exchanges[i].rows) = 1
    BY <1>2 DEF Legacy
  <2>2. 1 \in DOMAIN p.exchanges[i].rows
    BY <2>1, <1>2, AnalyzedAssumption
  <2>3. p.exchanges[i].rows[1].fraction.amount \in 0 .. NoAmount
    BY <2>1, <2>2, <1>2, AnalyzedAssumption DEF Exchanges
  <2> QED BY <2>1, <2>3 DEF Share, LegacyAmount
<1>5. \A i \in 1 .. N : r[i] \in Nat
  BY <1>3, <1>4
<1>6. SumOf(r) <= Whole + Tolerance
  <2>1. OutputShares(p)
    BY DEF SharesAccepted
  <2>2. PICK i \in Legacy(p) : TRUE
    BY <2>1 DEF OutputShares
  <2>3. LegacyCode(p, i) \in PassingCodes
    BY ValidChecks
  <2>4. IsWhole(SumOf(r))
    BY <2>1, <2>3 DEF LegacyCode, PassingCodes
  <2> QED BY <2>4 DEF IsWhole, Whole, Tolerance
<1>7. Len(q) = M /\ \A k \in 1 .. M :
        q[k] = IF ids[k] \in {p.exchanges[j].id : j \in Legacy(p)} THEN SharePart(p, ids[k]) ELSE 0
  <2>1. DOMAIN q = 1 .. M /\ q = [k \in DOMAIN q |-> q[k]]
    BY <1>1
  <2> QED BY <1>1, <2>1, ListMade
<1> HIDE DEF r, ids, M, N
<1>8. ASSUME NEW k \in 1 .. M, q[k] # 0
      PROVE  spot[k] \in owners(ids[k]) /\ q[k] = Share(p, spot[k])
  <2>1. ids[k] \in {p.exchanges[j].id : j \in Legacy(p)} /\ q[k] = SharePart(p, ids[k])
    BY <1>7, <1>8
  <2>2. PICK j \in Legacy(p) : ids[k] = p.exchanges[j].id
    BY <2>1
  <2>3. j \in owners(ids[k])
    BY <2>2
  <2>4. owners(ids[k]) # {}
    BY <2>3
  <2>5. owners(ids[k]) \subseteq Nat
    BY <1>4
  <2>6. spot[k] \in owners(ids[k])
    <3> DEFINE S == owners(ids[k])
    <3> HIDE DEF S
    <3>1. S # {} /\ S \subseteq Nat
      BY <2>4, <2>5 DEF S
    <3>2. \E m \in S : \A n \in S : m <= n
      BY <3>1, Least
    <3>3. Min(S) \in S
      BY <3>2 DEF Min
    <3> QED BY <3>3 DEF S
  <2>7. SharePart(p, ids[k]) = Share(p, Min(owners(ids[k])))
    BY <2>4 DEF SharePart
  <2> QED BY <2>1, <2>6, <2>7
<1> HIDE DEF spot
<1>9. \A k \in 1 .. M : q[k] # 0 => spot[k] \in 1 .. N /\ q[k] = r[spot[k]]
  BY <1>3, <1>4, <1>8
<1>10. \A k, l \in 1 .. M : q[k] # 0 /\ q[l] # 0 /\ spot[k] = spot[l] => k = l
  <2> SUFFICES ASSUME NEW k \in 1 .. M, NEW l \in 1 .. M, q[k] # 0, q[l] # 0, spot[k] = spot[l]
               PROVE  k = l
    OBVIOUS
  <2>1. ids[k] = p.exchanges[spot[k]].id /\ ids[l] = p.exchanges[spot[l]].id
    BY <1>8
  <2> QED BY <1>1, <2>1
<1>11. ChargedTo(q, spot, r)
  BY <1>1, <1>2, <1>3, <1>5, <1>7, <1>9, <1>10 DEF ChargedTo
<1> QED BY <1>6, <1>11, ChargedOnce

\* The parts of a vector are charged once to the references its rows name.
LEMMA VectorChargedOnce ==
  ASSUME NEW p \in Analyzed, Bad(AllChecks(p)) = {}, NEW i \in Exchanges(p),
         \A c \in VectorChecks(p, i) : c.code \in PassingCodes, NEW q,
         q = [k \in DOMAIN ReferenceIds(p) |->
                IF ReferenceIds(p)[k] \in
                     {p.exchanges[i].rows[j].target : j \in DOMAIN p.exchanges[i].rows}
                THEN VectorPart(p.exchanges[i], ReferenceIds(p)[k]) ELSE 0]
  PROVE  SumOf(q) <= Whole + Tolerance
<1> DEFINE ids == ReferenceIds(p)
           e == p.exchanges[i]
           M == Len(ids)
           N == Len(e.rows)
           naming(id) == {j \in DOMAIN e.rows : e.rows[j].target = id}
           spot == [k \in 1 .. M |-> Max(naming(ids[k]))]
           r == [k \in DOMAIN e.rows |-> Amount(e.rows[k].fraction)]
<1>1. /\ M \in Nat /\ DOMAIN ids = 1 .. M
      /\ \A j, k \in 1 .. M : ids[j] = ids[k] => j = k
  BY IdsListed, ValidChecks
<1>2. N \in Nat /\ DOMAIN e.rows = 1 .. N
  BY AnalyzedAssumption DEF Exchanges
<1>3. /\ \A k \in 1 .. N : Amount(e.rows[k].fraction) \in 0 .. Whole
      /\ \A j, k \in 1 .. N : e.rows[j].target = e.rows[k].target => j = k
      /\ SumOf(r) <= Whole + Tolerance
  BY <1>2, VectorIsWhole DEF Total
<1>4. Len(r) = N /\ \A k \in 1 .. N : r[k] = Amount(e.rows[k].fraction)
  <2>1. DOMAIN r = 1 .. N /\ r = [k \in DOMAIN r |-> r[k]]
    BY <1>2
  <2> QED BY <1>2, <2>1, ListMade
<1>5. \A k \in 1 .. N : r[k] \in Nat
  <2>1. Whole \in Nat
    BY DEF Whole
  <2> HIDE DEF r
  <2> QED BY <1>3, <1>4, <2>1
<1>6. Len(q) = M /\ \A k \in 1 .. M :
        q[k] = IF ids[k] \in {e.rows[j].target : j \in DOMAIN e.rows} THEN VectorPart(e, ids[k]) ELSE 0
  <2>1. DOMAIN q = 1 .. M /\ q = [k \in DOMAIN q |-> q[k]]
    BY <1>1
  <2> QED BY <1>1, <2>1, ListMade
<1> HIDE DEF r, ids, M, N, e
<1>7. ASSUME NEW k \in 1 .. M, q[k] # 0
      PROVE  spot[k] \in naming(ids[k]) /\ q[k] = r[spot[k]]
  <2>1. ids[k] \in {e.rows[j].target : j \in DOMAIN e.rows} /\ q[k] = VectorPart(e, ids[k])
    BY <1>6, <1>7
  <2>2. PICK j \in DOMAIN e.rows : ids[k] = e.rows[j].target
    BY <2>1
  <2>3. naming(ids[k]) = {j}
    BY <1>2, <1>3, <2>2
  <2>4. Max({j}) = j
    BY <1>2 DEF Max
  <2>5. spot[k] = j
    BY <2>3, <2>4
  <2>6. VectorPart(e, ids[k]) = Amount(e.rows[Max(naming(ids[k]))].fraction)
    <3>1. naming(ids[k]) # {}
      BY <2>3
    <3> QED BY <3>1 DEF VectorPart
  <2>7. j \in naming(ids[k])
    BY <2>3
  <2> QED BY <1>2, <1>4, <2>1, <2>3, <2>4, <2>5, <2>6, <2>7
<1> HIDE DEF spot
<1>8. \A k \in 1 .. M : q[k] # 0 => spot[k] \in 1 .. N /\ q[k] = r[spot[k]]
  BY <1>2, <1>7
<1>9. \A k, l \in 1 .. M : q[k] # 0 /\ q[l] # 0 /\ spot[k] = spot[l] => k = l
  <2> SUFFICES ASSUME NEW k \in 1 .. M, NEW l \in 1 .. M, q[k] # 0, q[l] # 0, spot[k] = spot[l]
               PROVE  k = l
    OBVIOUS
  <2>1. ids[k] = e.rows[spot[k]].target /\ ids[l] = e.rows[spot[l]].target
    BY <1>7
  <2> QED BY <1>1, <2>1
<1>10. ChargedTo(q, spot, r)
  BY <1>1, <1>2, <1>4, <1>5, <1>6, <1>8, <1>9 DEF ChargedTo
<1> QED BY <1>3, <1>10, ChargedOnce

\* An exchange of a process that is not refused, by the branch it takes.
LEMMA ValidInterpretation ==
  ASSUME NEW p \in Analyzed, Bad(AllChecks(p)) = {}, NEW i \in Exchanges(p)
  PROVE  LET it == Interpretation(p, i)
             vector == [k \in DOMAIN ReferenceIds(p) |->
                          VectorPart(p.exchanges[i], ReferenceIds(p)[k])]
             share == [k \in DOMAIN ReferenceIds(p) |-> SharePart(p, ReferenceIds(p)[k])]
         IN \/ /\ SharesAccepted(p)
               /\ it = [mode |-> "legacy-output-share", parts |-> share]
            \/ /\ \A c \in VectorChecks(p, i) : c.code \in PassingCodes
               /\ it = [mode |-> "explicit-vector", parts |-> vector]
            \/ it.mode \in {"undeclared", "legacy-scalar-empty", "legacy-targetless-full"}
<1> DEFINE e == p.exchanges[i]
           vector == [k \in DOMAIN ReferenceIds(p) |->
                        VectorPart(p.exchanges[i], ReferenceIds(p)[k])]
           share == [k \in DOMAIN ReferenceIds(p) |-> SharePart(p, ReferenceIds(p)[k])]
<1>1. \A c \in ExchangeChecks(p, i) : c.code \in PassingCodes
  BY ValidChecks
<1>2. i \in Legacy(p) => Shape(e) = "targetless"
  BY DEF Legacy
<1>3. CASE SharesAccepted(p)
  <2>1. Interpretation(p, i) = [mode |-> "legacy-output-share", parts |-> share]
    BY <1>3 DEF Interpretation
  <2> QED BY <1>3, <2>1
<1>4. CASE ~SharesAccepted(p) /\ Shape(e) \in {"undeclared", "legacy-scalar-empty"}
  <2>1. Interpretation(p, i) = [mode |-> Shape(e), parts |-> Everything(p)]
    BY <1>2, <1>4 DEF Interpretation
  <2> QED BY <1>4, <2>1
<1>5. Shape(e) # "malformed"
  <2> SUFFICES ASSUME Shape(e) = "malformed" PROVE FALSE
    OBVIOUS
  <2>1. ExchangeChecks(p, i) = {Check("allocation-vector", <<i>>, "vector_malformed")}
    BY DEF ExchangeChecks
  <2> QED BY <1>1, <2>1 DEF Check, PassingCodes
<1>6. Shape(e) # "mixed"
  <2> SUFFICES ASSUME Shape(e) = "mixed" PROVE FALSE
    OBVIOUS
  <2>1. ExchangeChecks(p, i) = {Check("allocation-vector", <<i>>, "mixed_modes")}
    BY DEF ExchangeChecks
  <2> QED BY <1>1, <2>1 DEF Check, PassingCodes
<1>7. CASE ~SharesAccepted(p) /\ Shape(e) = "vector"
  <2>1. ExchangeChecks(p, i) = VectorChecks(p, i)
    BY <1>7 DEF ExchangeChecks
  <2>2. Bad(VectorChecks(p, i)) = {}
    BY <1>1, <2>1 DEF Bad
  <2>3. Interpretation(p, i) = [mode |-> "explicit-vector", parts |-> vector]
    BY <1>2, <1>7, <2>2 DEF Interpretation
  <2> QED BY <1>1, <2>1, <2>3
<1>8. CASE ~SharesAccepted(p) /\ Shape(e) = "targetless"
  <2>1. i \in Legacy(p)
    <3> SUFFICES ASSUME i \notin Legacy(p) PROVE FALSE
      OBVIOUS
    <3>1. \/ Check("allocation-vector", <<i>>, "targetless_malformed") \in ExchangeChecks(p, i)
          \/ Check("allocation-fraction", <<i, 1>>, "fraction_invalid") \in ExchangeChecks(p, i)
      BY <1>8 DEF ExchangeChecks
    <3>2. /\ Check("allocation-vector", <<i>>, "targetless_malformed").code = "targetless_malformed"
          /\ Check("allocation-fraction", <<i, 1>>, "fraction_invalid").code = "fraction_invalid"
      BY DEF Check
    <3> QED BY <1>1, <3>1, <3>2 DEF PassingCodes
  <2>2. LegacyCode(p, i) \in PassingCodes
    BY <2>1, ValidChecks
  <2>3. LegacyCode(p, i) # "not-applicable"
    BY DEF LegacyCode
  <2>4. LegacyCode(p, i) = ""
    BY <2>2, <2>3 DEF PassingCodes
  <2>5. Interpretation(p, i) = [mode |-> "legacy-targetless-full", parts |-> Everything(p)]
    BY <1>8, <2>1, <2>4 DEF Interpretation
  <2> QED BY <2>5
<1>9. Shape(e) \in {"undeclared", "legacy-scalar-empty", "malformed", "targetless", "vector", "mixed"}
  BY DEF Shape
<1> QED BY <1>3, <1>4, <1>5, <1>6, <1>7, <1>8, <1>9

\* What ValidIsUsable says of an exchange.
LEMMA UsableExchange ==
  ASSUME NEW p \in Analyzed, Bad(AllChecks(p)) = {}, NEW i \in Exchanges(p)
  PROVE  LET it == Interpretation(p, i)
             e == p.exchanges[i]
             named == IF it.mode = "explicit-vector" THEN {e.rows[k].target : k \in DOMAIN e.rows}
                      ELSE IF it.mode = "legacy-output-share"
                           THEN {p.exchanges[j].id : j \in Legacy(p)}
                      ELSE {}
             charged == [k \in DOMAIN it.parts |->
                           IF ReferenceIds(p)[k] \in named THEN it.parts[k] ELSE 0]
         IN /\ it.mode # "invalid"
            /\ Len(it.parts) = Len(ReferenceIds(p))
            /\ SumOf(charged) <= Whole + Tolerance
<1> DEFINE it == Interpretation(p, i)
           e == p.exchanges[i]
           ids == ReferenceIds(p)
           vector == [k \in DOMAIN ids |-> VectorPart(e, ids[k])]
           share == [k \in DOMAIN ids |-> SharePart(p, ids[k])]
           named == IF it.mode = "explicit-vector" THEN {e.rows[k].target : k \in DOMAIN e.rows}
                    ELSE IF it.mode = "legacy-output-share"
                         THEN {p.exchanges[j].id : j \in Legacy(p)}
                    ELSE {}
           charged == [k \in DOMAIN it.parts |-> IF ids[k] \in named THEN it.parts[k] ELSE 0]
<1>1. \/ /\ SharesAccepted(p)
         /\ it = [mode |-> "legacy-output-share", parts |-> share]
      \/ /\ \A c \in VectorChecks(p, i) : c.code \in PassingCodes
         /\ it = [mode |-> "explicit-vector", parts |-> vector]
      \/ it.mode \in {"undeclared", "legacy-scalar-empty", "legacy-targetless-full"}
  BY ValidInterpretation
<1>2. /\ Len(it.parts) \in Nat /\ DOMAIN it.parts = 1 .. Len(it.parts)
      /\ it.mode # "invalid" => Len(it.parts) = Len(ids)
  BY PartsListed
<1>3. Whole + Tolerance \in Nat
  BY DEF Whole, Tolerance
<1> HIDE DEF it, ids
<1>4. it.mode # "invalid"
  <2> HIDE DEF share, vector
  <2> QED BY <1>1
<1>5. SumOf(charged) <= Whole + Tolerance
  <2>1. CASE SharesAccepted(p) /\ it = [mode |-> "legacy-output-share", parts |-> share]
    <3> DEFINE q == [k \in DOMAIN ids |-> IF ids[k] \in {p.exchanges[j].id : j \in Legacy(p)}
                                          THEN SharePart(p, ids[k]) ELSE 0]
    <3>1. SumOf(q) <= Whole + Tolerance
      BY <2>1, SharesChargedOnce DEF ids
    <3>2. named = {p.exchanges[j].id : j \in Legacy(p)} /\ it.parts = share /\ DOMAIN share = DOMAIN ids
      BY <2>1
    <3>3. charged = q
      BY <3>2
    <3> HIDE DEF q, charged
    <3> QED BY <3>1, <3>3
  <2>2. CASE /\ \A c \in VectorChecks(p, i) : c.code \in PassingCodes
             /\ it = [mode |-> "explicit-vector", parts |-> vector]
    <3> DEFINE q == [k \in DOMAIN ids |-> IF ids[k] \in {e.rows[j].target : j \in DOMAIN e.rows}
                                          THEN VectorPart(e, ids[k]) ELSE 0]
    <3>1. SumOf(q) <= Whole + Tolerance
      BY <2>2, VectorChargedOnce DEF ids
    <3>2. named = {e.rows[k].target : k \in DOMAIN e.rows} /\ it.parts = vector /\ DOMAIN vector = DOMAIN ids
      BY <2>2
    <3>3. charged = q
      BY <3>2
    <3> HIDE DEF q, charged
    <3> QED BY <3>1, <3>3
  <2>3. CASE it.mode \in {"undeclared", "legacy-scalar-empty", "legacy-targetless-full"}
    <3>1. named = {}
      BY <2>3
    <3>2. Len(charged) = Len(it.parts) /\ \A k \in 1 .. Len(charged) : charged[k] = 0
      <4> HIDE DEF named
      <4>1. DOMAIN charged = 1 .. Len(it.parts) /\ charged = [k \in DOMAIN charged |-> charged[k]]
        BY <1>2
      <4>2. Len(charged) = Len(it.parts)
        BY <1>2, <4>1, ListMade
      <4> QED BY <1>2, <3>1, <4>2
    <3> HIDE DEF charged
    <3>3. Len(charged) \in Nat /\ \A k \in 1 .. Len(charged) : charged[k] \in 0 .. 0
      BY <1>2, <3>2
    <3>4. SumOf(charged) \in 0 .. Len(charged) * 0
      BY <3>3, SumBounded
    <3>5. SumOf(charged) <= Whole + Tolerance
      BY <1>3, <3>3, <3>4
    <3> QED BY <3>5
  <2> QED BY <1>1, <2>1, <2>2, <2>3
<1> HIDE DEF charged, named
<1>6. /\ it.mode # "invalid" /\ Len(it.parts) = Len(ids)
      /\ SumOf(charged) <= Whole + Tolerance
  BY <1>2, <1>4, <1>5
<1> QED BY <1>6 DEF it, ids, charged, named, e

\* The inductive invariant: what was returned is the analysis of the process.
ProcessInv ==
  /\ process \in Analyzed
  /\ analysis # NoAnalysis => analysis = AnalysisOf(process)

LEMMA ProcessInvariant == ProcessSpec => []ProcessInv
<1>1. ProcessInit => ProcessInv
  BY DEF ProcessInit, ProcessInv
<1>2. ProcessInv /\ [ProcessNext]_processVars => ProcessInv'
  <2> SUFFICES ASSUME ProcessInv, [ProcessNext]_processVars PROVE ProcessInv'
    OBVIOUS
  <2>1. CASE Analyze
    BY <2>1 DEF ProcessInv, Analyze
  <2>2. CASE UNCHANGED processVars
    <3>1. process' = process /\ analysis' = analysis
      BY <2>2 DEF processVars
    <3> QED BY <3>1 DEF ProcessInv
  <2> QED BY <2>1, <2>2 DEF ProcessNext
<1> QED BY <1>1, <1>2, PTL DEF ProcessSpec

\* The memory reserved from the first walk of a process is enough for what the
\* second walk builds, whatever the process: BudgetCoversAnalysis.
THEOREM BudgetTheorem == ProcessSpec => []BudgetCoversAnalysis
<1>1. ProcessInv => BudgetCoversAnalysis
  <2> SUFFICES ASSUME ProcessInv, analysis # NoAnalysis
               PROVE  CellsOf(process, analysis) <= ProjectionCells(process)
    BY DEF BudgetCoversAnalysis
  <2>1. process \in Analyzed /\ analysis = AnalysisOf(process)
    BY DEF ProcessInv
  <2> QED BY <2>1, BudgetIsEnough
<1> QED BY <1>1, ProcessInvariant, PTL

\* An analysis called valid is complete, interprets every exchange with a part
\* for every reference, and charges none more than once: ValidIsUsable.
THEOREM UsableTheorem == ProcessSpec => []ValidIsUsable
<1>1. ProcessInv => ValidIsUsable
  <2> SUFFICES ASSUME ProcessInv, analysis # NoAnalysis, analysis.valid
               PROVE  ValidIsUsable
    BY DEF ValidIsUsable
  <2>1. process \in Analyzed /\ analysis = AnalysisOf(process)
    BY DEF ProcessInv
  <2>2. Bad(AllChecks(process)) = {}
    BY <2>1 DEF AnalysisOf
  <2>3. analysis.complete
    <3>1. \A c \in AllChecks(process) : c.code \in PassingCodes
      BY <2>1, <2>2, ValidChecks
    <3>2. \A c \in AllChecks(process) : c.code \notin UnresolvedCodes
      BY <3>1 DEF PassingCodes, UnresolvedCodes
    <3> QED BY <2>1, <3>2 DEF AnalysisOf
  <2>4. \A i \in Exchanges(process) : analysis.interpretations[i] = Interpretation(process, i)
    BY <2>1 DEF AnalysisOf
  <2>5. \A i \in Exchanges(process) :
          LET it == analysis.interpretations[i]
              e == process.exchanges[i]
              named == IF it.mode = "explicit-vector" THEN {e.rows[k].target : k \in DOMAIN e.rows}
                       ELSE IF it.mode = "legacy-output-share"
                            THEN {process.exchanges[j].id : j \in Legacy(process)}
                       ELSE {}
              charged == [k \in DOMAIN it.parts |->
                            IF ReferenceIds(process)[k] \in named THEN it.parts[k] ELSE 0]
          IN /\ it.mode # "invalid"
             /\ Len(it.parts) = Len(ReferenceIds(process))
             /\ SumOf(charged) <= Whole + Tolerance
    <3> SUFFICES ASSUME NEW i \in Exchanges(process)
                 PROVE  LET it == analysis.interpretations[i]
                            e == process.exchanges[i]
                            named == IF it.mode = "explicit-vector" THEN {e.rows[k].target : k \in DOMAIN e.rows}
                                     ELSE IF it.mode = "legacy-output-share"
                                          THEN {process.exchanges[j].id : j \in Legacy(process)}
                                     ELSE {}
                            charged == [k \in DOMAIN it.parts |->
                                          IF ReferenceIds(process)[k] \in named THEN it.parts[k] ELSE 0]
                        IN /\ it.mode # "invalid"
                           /\ Len(it.parts) = Len(ReferenceIds(process))
                           /\ SumOf(charged) <= Whole + Tolerance
      OBVIOUS
    <3>1. analysis.interpretations[i] = Interpretation(process, i)
      BY <2>4
    <3> QED BY <2>1, <2>2, <3>1, UsableExchange
  <2> QED BY <2>3, <2>5 DEF ValidIsUsable
<1> QED BY <1>1, ProcessInvariant, PTL
=============================================================================
