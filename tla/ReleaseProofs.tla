--------------------------- MODULE ReleaseProofs ---------------------------
(***************************************************************************)
(* Proofs about ReleaseBuild, for any files, references, profiles, roots   *)
(* and number of edits; and about StagedCommit, the publication of what    *)
(* was built, for any number of concurrent runs and of I/O errors.         *)
(***************************************************************************)
EXTENDS ReleaseBuild, StagedCommit, TLAPS

-----------------------------------------------------------------------------
\* Writing one entry of a table of a row for every profile.
LEMMA EntryWritten ==
  ASSUME NEW P, NEW D, NEW C, NEW table \in [P -> [D -> C]],
         NEW p \in P, NEW d \in D, NEW c \in C
  PROVE  LET new == [table EXCEPT ![p][d] = c] IN
         /\ new \in [P -> [D -> C]]
         /\ new[p][d] = c
         /\ \A q \in P, e \in D : q # p \/ e # d => new[q][e] = table[q][e]
<1> DEFINE new == [table EXCEPT ![p][d] = c]
           row == [table[p] EXCEPT ![d] = c]
<1>1. new = [table EXCEPT ![p] = row]
  OBVIOUS
<1>2. row \in [D -> C] /\ row[d] = c /\ \A e \in D : e # d => row[e] = table[p][e]
  OBVIOUS
<1> HIDE DEF row
<1>3. new \in [P -> [D -> C]] /\ new[p] = row /\ \A q \in P : q # p => new[q] = table[q]
  BY <1>1, <1>2
<1> QED BY <1>2, <1>3

\* A step that only visits a file.
Kept == UNCHANGED <<source, phase, profile, closure, staged, release>>

\* The cases of a step.
LEMMA NextCases ==
  ASSUME [Next]_vars
  PROVE  \/ Fail /\ ~Ended
         \/ UNCHANGED vars
         \/ \E d \in Docs : Edit(d)
         \/ \E d \in Docs : Visit("validate", d) /\ Kept
         \/ \E d \in Docs : Visit("index", d) /\ file[d] = index[d] /\ Kept
         \/ \E d \in Docs : Walk(d) /\ ~Refused(d)
         \/ \E d \in Docs : Bind(d) /\ file[d] = index[d]
         \/ \E d \in Docs : Convert(d)
         \/ \E d \in Docs : Compare(d) /\ file[d] = ilcd[d]
         \/ \E d \in Docs : Pack(d)
         \/ Validated \/ (StartClosure /\ Roots[1] # {}) \/ Closed
         \/ NextProfile /\ profile < Profiles /\ Roots[profile + 1] # {}
         \/ NextProfile /\ ~(profile < Profiles) /\ (Paired => selected[1] \subseteq selected[Profiles])
         \/ Converted /\ (\A d \in Docs : ilcd[d] \in Valid)
         \/ Compared \/ NextPackage \/ Publish
<1>1. ASSUME NEW d \in Docs
      PROVE  /\ Validate(d) => (Fail /\ ~Ended) \/ (Visit("validate", d) /\ Kept)
             /\ LoadEntry(d) => (Fail /\ ~Ended) \/ (Visit("index", d) /\ file[d] = index[d] /\ Kept)
             /\ Walk(d) => (Fail /\ ~Ended) \/ ~Refused(d)
             /\ Bind(d) => (Fail /\ ~Ended) \/ file[d] = index[d]
             /\ Compare(d) => (Fail /\ ~Ended) \/ file[d] = ilcd[d]
  BY DEF Validate, LoadEntry, Walk, Bind, Compare, Kept, Ended
<1>2. StartClosure => (Fail /\ ~Ended) \/ Roots[1] # {}
  BY DEF StartClosure, Ended
<1>3. NextProfile => \/ Fail /\ ~Ended
                     \/ profile < Profiles /\ Roots[profile + 1] # {}
                     \/ ~(profile < Profiles) /\ (Paired => selected[1] \subseteq selected[Profiles])
  BY DEF NextProfile, Ended
<1>4. Converted => (Fail /\ ~Ended) \/ (\A d \in Docs : ilcd[d] \in Valid)
  BY DEF Converted, Ended
<1>5. Stop => Fail /\ ~Ended
  BY DEF Stop
<1>6. Done => UNCHANGED vars
  BY DEF Done
<1> QED BY <1>1, <1>2, <1>3, <1>4, <1>5, <1>6 DEF Next, Build

\* The profiles still to be resolved have selected nothing.
Fresh ==
  /\ phase \in {"validate", "index"} => profile = 1
  /\ \A p \in 1 .. Profiles :
       phase \in {"validate", "index"} \/ (phase \in {"close", "bind"} /\ p > profile)
         => selected[p] = {}

LEMMA InitType == Init => TypeOK /\ Fresh
  BY ReleaseAssumption DEF Init, TypeOK, Fresh, NoContent, Phases

LEMMA NextFresh == TypeOK /\ Fresh /\ [Next]_vars => Fresh'
<1> SUFFICES ASSUME TypeOK, Fresh, [Next]_vars PROVE Fresh'
  OBVIOUS
<1> USE DEF source, closure, staged, Phases
<1>1. CASE Fail
  BY <1>1 DEF Fail, Fresh
<1>2. CASE UNCHANGED vars
  BY <1>2 DEF vars, Fresh
<1>3. ASSUME NEW d \in Docs, Edit(d) PROVE Fresh'
  BY <1>3 DEF Edit, Fresh
<1>4. ASSUME NEW d \in Docs, Walk(d), ~Refused(d) PROVE Fresh'
  <2>1. profile \in 1 .. Profiles
    BY DEF TypeOK
  <2>2. \A p \in 1 .. Profiles : p # profile => selected'[p] = selected[p]
    BY <1>4 DEF Walk, TypeOK
  <2> QED BY <1>4, <2>1, <2>2 DEF Walk, Fresh
<1>5. ASSUME NEW d \in Docs, \/ \E gate : Visit(gate, d) /\ Kept
                             \/ Bind(d) /\ file[d] = index[d]
                             \/ Convert(d) \/ Pack(d)
                             \/ Compare(d) /\ file[d] = ilcd[d]
      PROVE  Fresh'
  BY <1>5 DEF Kept, Visit, Bind, Convert, Compare, Pack, Fresh
<1>6. CASE Validated \/ (StartClosure /\ Roots[1] # {}) \/ Closed
  BY <1>6 DEF Validated, StartClosure, Closed, Pass, Fresh, TypeOK
<1>7. CASE NextProfile /\ profile < Profiles /\ Roots[profile + 1] # {}
  BY <1>7, ReleaseAssumption DEF NextProfile, Fresh, TypeOK
<1>8. CASE NextProfile /\ ~(profile < Profiles) /\ (Paired => selected[1] \subseteq selected[Profiles])
  BY <1>8 DEF NextProfile, Fresh
<1>9. CASE Converted /\ (\A d \in Docs : ilcd[d] \in Valid)
  BY <1>9 DEF Converted, Pass, Fresh
<1>10. CASE Compared \/ NextPackage \/ Publish
  BY <1>10 DEF Compared, NextPackage, Publish, Pass, Fresh
<1> QED
  BY <1>1, <1>2, <1>3, <1>4, <1>5, <1>6, <1>7, <1>8, <1>9, <1>10, NextCases

LEMMA NextType == TypeOK /\ Fresh /\ [Next]_vars => TypeOK'
<1> SUFFICES ASSUME TypeOK, Fresh, [Next]_vars PROVE TypeOK'
  OBVIOUS
<1> USE ReleaseAssumption DEF source, closure, staged, Phases
<1>1. CASE Fail
  BY <1>1 DEF Fail, TypeOK
<1>2. CASE UNCHANGED vars
  BY <1>2 DEF vars, TypeOK
<1>3. ASSUME NEW d \in Docs, Edit(d) PROVE TypeOK'
  BY <1>3 DEF Edit, TypeOK
<1>4. ASSUME NEW d \in Docs, NEW gate, Visit(gate, d), Kept PROVE TypeOK'
  BY <1>4 DEF Visit, Kept, TypeOK
<1>5. ASSUME NEW d \in Docs, Walk(d), ~Refused(d) PROVE TypeOK'
  <2>1. d \in Indexed /\ References(d) \subseteq Indexed
    BY <1>5 DEF Walk, Refused, TypeOK
  <2>2. selected' \in [1 .. Profiles -> SUBSET Indexed]
    BY <1>5, <2>1 DEF Walk, TypeOK
  <2>3. walked' \in [1 .. Profiles -> [Docs -> Contents \cup {Nothing}]]
    <3>1. walked' = [walked EXCEPT ![profile][d] = file[d]] /\ file[d] \in Contents \cup {Nothing}
      BY <1>5 DEF Walk, TypeOK
    <3> QED BY <3>1, EntryWritten DEF TypeOK
  <2>4. /\ pending' = (pending \cup (References(d) \ selected[profile])) \ {d}
        /\ selected'[profile] = selected[profile] \cup {d}
        /\ profile' = profile /\ pending \cap selected[profile] = {}
    BY <1>5 DEF Walk, TypeOK
  <2>5. pending' \subseteq Indexed
    BY <2>1, <2>4 DEF TypeOK
  <2>6. pending' \cap selected'[profile'] = {}
    BY <2>4
  <2> QED BY <1>5, <2>2, <2>3, <2>5, <2>6 DEF Walk, TypeOK
<1>6. ASSUME NEW d \in Docs, Bind(d), file[d] = index[d] PROVE TypeOK'
  BY <1>6 DEF Bind, Visit, TypeOK
<1>7. ASSUME NEW d \in Docs, Convert(d) PROVE TypeOK'
  BY <1>7 DEF Convert, Visit, TypeOK
<1>8. ASSUME NEW d \in Docs, Compare(d), file[d] = ilcd[d] PROVE TypeOK'
  BY <1>8 DEF Compare, Visit, TypeOK
<1>9. ASSUME NEW d \in Docs, Pack(d) PROVE TypeOK'
  BY <1>9 DEF Pack, Visit, TypeOK
<1>10. CASE Validated
  BY <1>10 DEF Validated, Pass, TypeOK
<1>11. CASE StartClosure /\ Roots[1] # {}
  BY <1>11 DEF StartClosure, Fresh, TypeOK
<1>12. CASE Closed
  BY <1>12 DEF Closed, TypeOK
<1>13. CASE NextProfile /\ profile < Profiles /\ Roots[profile + 1] # {}
  BY <1>13 DEF NextProfile, Fresh, TypeOK
<1>14. CASE NextProfile /\ ~(profile < Profiles) /\ (Paired => selected[1] \subseteq selected[Profiles])
  BY <1>14 DEF NextProfile, TypeOK
<1>15. CASE Converted /\ (\A d \in Docs : ilcd[d] \in Valid)
  BY <1>15 DEF Converted, Pass, TypeOK
<1>16. CASE Compared
  BY <1>16 DEF Compared, Pass, TypeOK
<1>17. CASE NextPackage
  BY <1>17 DEF NextPackage, TypeOK
<1>18. CASE Publish
  BY <1>18 DEF Publish, Pass, TypeOK
<1> QED
  BY <1>1, <1>2, <1>3, <1>4, <1>5, <1>6, <1>7, <1>8, <1>9, <1>10, <1>11, <1>12, <1>13, <1>14,
     <1>15, <1>16, <1>17, <1>18, NextCases

\* Every variable keeps its type, and the worklist of a closure never holds
\* what was selected already, whatever circles the references form.
THEOREM TypeCorrect == Spec => []TypeOK
  BY InitType, NextFresh, NextType, PTL DEF Spec

-----------------------------------------------------------------------------
\* The profiles whose closure was begun, and what is still to be visited of one.
Started == IF phase \in {"close", "bind"} THEN 1 .. profile ELSE Admitted

Frontier(p) == IF phase = "close" /\ p = profile THEN pending ELSE {}

\* What a closure has visited and has still to visit is between its roots and
\* every closed set that holds them.
ClosureInv(p) ==
  /\ \A d \in Docs : walked[p][d] = Nothing <=> d \notin selected[p]
  /\ p \in Started =>
       /\ Roots[p] \subseteq selected[p] \cup Frontier(p)
       /\ \A d \in selected[p] : Refs[d][walked[p][d]] \subseteq selected[p] \cup Frontier(p)
       /\ \A S \in SUBSET Indexed : Roots[p] \subseteq S /\ IsClosed(S, walked[p])
            => selected[p] \cup Frontier(p) \subseteq S

\* The loop over the index has compared the file.
Loaded(d) == Started # {} \/ (phase = "index" /\ d \notin todo)

\* The closure of the profile has compared the file.
Checked(p, d) == p \in Admitted \/ (phase = "bind" /\ p = profile /\ d \notin todo)

\* A file that is not as indexed any more was edited, one whose references
\* were read from another content too, and once more if it is as indexed now.
EditInv ==
  /\ \A d \in Indexed : Loaded(d) /\ file[d] # index[d] => edits[d] >= 1
  /\ \A p \in 1 .. Profiles, d \in Indexed : walked[p][d] \notin {Nothing, index[d]} =>
       /\ edits[d] >= 1
       /\ file[d] = index[d] \/ Checked(p, d) => edits[d] >= 2

ResolveInv == TypeOK /\ Fresh /\ EditInv /\ \A p \in 1 .. Profiles : ClosureInv(p)

\* A step that leaves the closures and the place of the build alone.
LEMMA SameClosure ==
  ASSUME UNCHANGED <<phase, profile, pending, selected, walked>>,
         NEW p \in 1 .. Profiles, ClosureInv(p)
  PROVE  ClosureInv(p)'
  BY DEF ClosureInv, Started, Admitted, Frontier, IsClosed

\* A closure that is begun has its roots to visit.
LEMMA BeginClosure ==
  ASSUME TypeOK, Fresh, NEW q \in 1 .. Profiles, selected[q] = {},
         phase' = "close", profile' = q, pending' = Roots[q],
         UNCHANGED <<selected, walked>>,
         \A p \in 1 .. Profiles : ClosureInv(p) /\ (p < q => p \in Started /\ Frontier(p) = {})
  PROVE  \A p \in 1 .. Profiles : ClosureInv(p)'
<1> TAKE p \in 1 .. Profiles
<1>1. CASE p = q
  BY <1>1 DEF ClosureInv, Frontier, IsClosed
<1>2. CASE p < q
  <2>1. Frontier(p)' = {} /\ Frontier(p) = {} /\ p \in Started
    BY <1>2 DEF Frontier
  <2> QED BY <2>1 DEF ClosureInv, IsClosed
<1>3. CASE p > q
  <2>1. p \notin Started'
    BY <1>3 DEF Started
  <2> QED BY <2>1 DEF ClosureInv
<1> QED BY <1>1, <1>2, <1>3

\* One step of the worklist.
LEMMA WalkClosure ==
  ASSUME ResolveInv, NEW d \in Docs, Walk(d), ~Refused(d)
  PROVE  \A p \in 1 .. Profiles : ClosureInv(p)'
<1> TAKE p \in 1 .. Profiles
<1>1. /\ phase = "close" /\ d \in pending
      /\ pending' = (pending \cup (References(d) \ selected[profile])) \ {d}
      /\ selected' = [selected EXCEPT ![profile] = @ \cup {d}]
      /\ walked' = [walked EXCEPT ![profile][d] = file[d]]
      /\ phase' = phase /\ profile' = profile /\ profile \in 1 .. Profiles
  BY DEF Walk, ResolveInv, TypeOK
<1>2. file[d] \in Contents /\ file[d] # Nothing /\ ClosureInv(p) /\ Refs[d][file[d]] = References(d)
  BY ReleaseAssumption DEF ResolveInv, TypeOK, References
<1>3. /\ walked'[profile][d] = file[d]
      /\ \A q \in 1 .. Profiles, e \in Docs : q # profile \/ e # d => walked'[q][e] = walked[q][e]
  <2>1. walked \in [1 .. Profiles -> [Docs -> Contents \cup {Nothing}]]
    BY DEF ResolveInv, TypeOK
  <2>2. file[d] \in Contents \cup {Nothing}
    BY <1>2
  <2> QED BY <1>1, <2>1, <2>2, EntryWritten
<1>4. /\ selected'[profile] = selected[profile] \cup {d}
      /\ \A q \in 1 .. Profiles : q # profile => selected'[q] = selected[q]
  BY <1>1 DEF ResolveInv, TypeOK
<1>5. d \in Indexed /\ d \notin selected[profile] /\ selected[p] \subseteq Docs
  BY <1>1, ReleaseAssumption DEF ResolveInv, TypeOK
<1>6. CASE p # profile
  <2>1. Frontier(p) = {} /\ Frontier(p)' = {} /\ (p \in Started <=> (p \in Started)')
    BY <1>1, <1>6 DEF Frontier, Started
  <2>2. \A S \in SUBSET Indexed : IsClosed(S, walked'[p]) <=> IsClosed(S, walked[p])
    BY <1>3, <1>6, ReleaseAssumption DEF IsClosed
  <2> QED BY <1>2, <1>3, <1>4, <1>5, <1>6, <2>1, <2>2 DEF ClosureInv
<1>7. CASE p = profile
  <2>1. /\ Frontier(p) = pending /\ Frontier(p)' = pending' /\ p \in Started
    BY <1>1, <1>7 DEF Frontier, Started, ResolveInv, TypeOK
  <2>2. selected'[p] \cup pending' = (selected[p] \cup pending) \cup References(d)
    BY <1>1, <1>4, <1>7
  <2>3. \A e \in Docs : walked'[p][e] = Nothing <=> e \notin selected'[p]
    BY <1>2, <1>3, <1>4, <1>7 DEF ClosureInv
  <2>4. \A e \in selected'[p] : Refs[e][walked'[p][e]] \subseteq selected'[p] \cup pending'
    BY <1>2, <1>3, <1>4, <1>5, <1>7, <2>1, <2>2 DEF ClosureInv
  <2>5. ASSUME NEW S \in SUBSET Indexed, Roots[p] \subseteq S, IsClosed(S, walked'[p])
        PROVE  selected'[p] \cup pending' \subseteq S
    <3>1. IsClosed(S, walked[p])
      <4>1. walked[p][d] = Nothing
        BY <1>2, <1>5, <1>7 DEF ClosureInv
      <4> QED BY <1>3, <1>7, <2>5, <4>1, ReleaseAssumption DEF IsClosed
    <3>2. selected[p] \cup pending \subseteq S
      BY <1>2, <2>1, <2>5, <3>1 DEF ClosureInv
    <3>3. References(d) \subseteq S
      BY <1>1, <1>2, <1>3, <1>7, <2>5, <3>2 DEF IsClosed
    <3> QED BY <2>2, <3>2, <3>3
  <2>6. Roots[p] \subseteq selected'[p] \cup pending'
    BY <1>2, <2>1, <2>2 DEF ClosureInv
  <2> QED BY <2>1, <2>3, <2>4, <2>5, <2>6 DEF ClosureInv
<1> QED BY <1>6, <1>7

LEMMA NextClosure == ResolveInv /\ [Next]_vars => \A p \in 1 .. Profiles : ClosureInv(p)'
<1> SUFFICES ASSUME ResolveInv, [Next]_vars PROVE \A p \in 1 .. Profiles : ClosureInv(p)'
  OBVIOUS
<1> USE DEF source, closure, staged
<1>a. TypeOK /\ Fresh /\ \A p \in 1 .. Profiles : ClosureInv(p)
  BY DEF ResolveInv
<1>1. CASE Fail
  BY <1>1, <1>a DEF Fail, ClosureInv, Started, Admitted
<1>2. CASE UNCHANGED vars
  BY <1>2, <1>a, SameClosure DEF vars
<1>3. ASSUME NEW d \in Docs, Walk(d), ~Refused(d) PROVE \A p \in 1 .. Profiles : ClosureInv(p)'
  BY <1>3, WalkClosure
<1>4. ASSUME NEW d \in Docs, \/ \E gate : Visit(gate, d) /\ Kept
                             \/ Bind(d) /\ file[d] = index[d]
                             \/ Edit(d) \/ Convert(d) \/ Pack(d)
                             \/ Compare(d) /\ file[d] = ilcd[d]
      PROVE  \A p \in 1 .. Profiles : ClosureInv(p)'
  BY <1>4, <1>a, SameClosure DEF Kept, Visit, Bind, Edit, Convert, Compare, Pack
<1>5. CASE Validated
  BY <1>5, <1>a DEF Validated, Pass, ClosureInv, Started, Admitted
<1>6. CASE StartClosure /\ Roots[1] # {}
  BY <1>6, <1>a, ReleaseAssumption, BeginClosure DEF StartClosure, Fresh
<1>7. CASE Closed
  <2> TAKE p \in 1 .. Profiles
  <2>1. Frontier(p) = {} /\ Frontier(p)' = {} /\ Started' = Started
    BY <1>7 DEF Closed, Frontier, Started
  <2> QED BY <1>7, <1>a, <2>1 DEF Closed, ClosureInv, IsClosed
<1>8. CASE NextProfile /\ profile < Profiles /\ Roots[profile + 1] # {}
  <2>1. profile + 1 \in 1 .. Profiles /\ selected[profile + 1] = {}
    BY <1>8, <1>a, ReleaseAssumption DEF TypeOK, NextProfile, Fresh
  <2>2. \A p \in 1 .. Profiles : p < profile + 1 => p \in Started /\ Frontier(p) = {}
    BY <1>8, <1>a DEF TypeOK, NextProfile, Started, Frontier
  <2>3. /\ phase' = "close" /\ profile' = profile + 1 /\ pending' = Roots[profile + 1]
        /\ UNCHANGED <<selected, walked>>
    BY <1>8 DEF NextProfile
  <2> QED BY <1>a, <2>1, <2>2, <2>3, BeginClosure
<1>9. CASE NextProfile /\ ~(profile < Profiles) /\ (Paired => selected[1] \subseteq selected[Profiles])
  <2> TAKE p \in 1 .. Profiles
  <2>0. profile = Profiles
    BY <1>9, <1>a, ReleaseAssumption DEF TypeOK
  <2>1. Frontier(p) = {} /\ Frontier(p)' = {} /\ Started = 1 .. Profiles /\ Started' = 1 .. Profiles
    BY <1>9, <2>0 DEF NextProfile, Frontier, Started, Admitted
  <2> QED BY <1>9, <1>a, <2>1 DEF NextProfile, ClosureInv, IsClosed
<1>10. CASE (Converted /\ (\A d \in Docs : ilcd[d] \in Valid)) \/ Compared \/ NextPackage \/ Publish
  <2> TAKE p \in 1 .. Profiles
  <2>1. Frontier(p) = {} /\ Frontier(p)' = {} /\ Started = 1 .. Profiles /\ Started' = 1 .. Profiles
    BY <1>10 DEF Converted, Compared, NextPackage, Publish, Pass, Frontier, Started, Admitted
  <2>2. UNCHANGED <<selected, walked>>
    BY <1>10 DEF Converted, Compared, NextPackage, Publish, Pass
  <2> QED BY <1>a, <2>1, <2>2 DEF ClosureInv, IsClosed
<1> QED
  BY <1>1, <1>2, <1>3, <1>4, <1>5, <1>6, <1>7, <1>8, <1>9, <1>10, NextCases

LEMMA NextEdit == ResolveInv /\ [Next]_vars => EditInv'
<1> SUFFICES ASSUME ResolveInv, [Next]_vars PROVE EditInv'
  OBVIOUS
<1> USE DEF source, closure, staged
<1>a. TypeOK /\ EditInv /\ \A p \in 1 .. Profiles : ClosureInv(p)
  BY DEF ResolveInv
<1>b. 1 \in 1 .. Profiles /\ profile \in 1 .. Profiles /\ Indexed \subseteq Docs
  BY <1>a, ReleaseAssumption DEF TypeOK
<1>1. CASE Fail
  BY <1>1, <1>a DEF Fail, EditInv, Started, Admitted, Loaded, Checked
<1>2. CASE UNCHANGED vars
  BY <1>2, <1>a DEF vars, EditInv, Started, Admitted, Loaded, Checked
<1>3. ASSUME NEW d \in Docs, Edit(d) PROVE EditInv'
  <2>1. /\ edits' = [edits EXCEPT ![d] = @ + 1]
        /\ \A e \in Docs : e # d => file'[e] = file[e]
        /\ UNCHANGED <<index, walked, phase, todo, profile>>
    BY <1>3, <1>a DEF Edit, TypeOK
  <2>2. edits'[d] = edits[d] + 1 /\ (\A e \in Docs : e # d => edits'[e] = edits[e])
        /\ edits \in [Docs -> Nat]
    BY <2>1, <1>a DEF TypeOK
  <2> QED BY <1>a, <1>b, <2>1, <2>2 DEF EditInv, Started, Admitted, Loaded, Checked
<1>4. ASSUME NEW d \in Docs, Visit("validate", d), Kept PROVE EditInv'
  BY <1>4, <1>a DEF Visit, Kept, EditInv, Started, Admitted, Loaded, Checked
<1>5. ASSUME NEW d \in Docs, Visit("index", d), file[d] = index[d], Kept PROVE EditInv'
  BY <1>5, <1>a DEF Visit, Kept, EditInv, Started, Admitted, Loaded, Checked
<1>6. ASSUME NEW d \in Docs, Walk(d), ~Refused(d) PROVE EditInv'
  <2>0. /\ phase = "close" /\ d \in pending
        /\ walked' = [walked EXCEPT ![profile][d] = file[d]]
        /\ UNCHANGED <<file, edits, index, phase, todo, profile>>
    BY <1>6 DEF Walk
  <2>1. d \in Indexed /\ profile \notin Admitted /\ Started # {}
    <3>1. Admitted = 1 .. (profile - 1) /\ Started = 1 .. profile /\ d \in Indexed
      BY <2>0, <1>a DEF TypeOK, Started, Admitted
    <3>2. profile \in 1 .. profile /\ profile \notin 1 .. (profile - 1)
      BY <1>b, ReleaseAssumption
    <3> QED BY <3>1, <3>2
  <2>2. /\ walked'[profile][d] = file[d]
        /\ \A q \in 1 .. Profiles, e \in Docs : q # profile \/ e # d => walked'[q][e] = walked[q][e]
    <3>1. /\ walked' = [walked EXCEPT ![profile][d] = file[d]]
          /\ file[d] \in Contents \cup {Nothing}
          /\ walked \in [1 .. Profiles -> [Docs -> Contents \cup {Nothing}]]
      BY <1>a, <2>0 DEF TypeOK
    <3> QED BY <1>b, <3>1, EntryWritten
  <2>3. file[d] # index[d] => edits[d] >= 1
    BY <1>a, <2>1 DEF EditInv, Loaded
  <2>4. Admitted' = Admitted /\ Started' = Started
    BY <2>0 DEF Admitted, Started
  <2> QED BY <1>a, <1>b, <2>0, <2>1, <2>2, <2>3, <2>4 DEF EditInv, Loaded, Checked
<1>7. ASSUME NEW d \in Docs, Bind(d), file[d] = index[d] PROVE EditInv'
  BY <1>7, <1>a, <1>b DEF Bind, Visit, EditInv, Started, Admitted, Loaded, Checked
<1>8. ASSUME NEW d \in Docs, Convert(d) \/ Pack(d) \/ (Compare(d) /\ file[d] = ilcd[d]) PROVE EditInv'
  BY <1>8, <1>a DEF Convert, Compare, Pack, Visit, EditInv, Started, Admitted, Loaded, Checked
<1>9. CASE Validated
  BY <1>9, <1>a DEF Validated, Pass, EditInv, Started, Admitted, Loaded, Checked
<1>10. CASE StartClosure /\ Roots[1] # {}
  <2>1. /\ phase = "index" /\ todo = {} /\ phase' = "close" /\ profile = 1
        /\ UNCHANGED <<file, edits, index, walked, profile>>
    BY <1>10 DEF StartClosure, ResolveInv, Fresh
  <2>2. Admitted' = {}
    BY <2>1 DEF Admitted
  <2> QED BY <1>a, <2>1, <2>2 DEF EditInv, Loaded, Checked
<1>11. CASE Closed
  <2>1. \A d \in Docs : d \notin todo' => walked[profile][d] = Nothing
    BY <1>11, <1>a, <1>b DEF Closed, ClosureInv
  <2>2. Admitted' = Admitted /\ Started' = Started /\ Started # {}
    BY <1>11, <1>b DEF Closed, Admitted, Started
  <2> QED BY <1>11, <1>a, <1>b, <2>1, <2>2 DEF Closed, EditInv, Loaded, Checked
<1>12. CASE NextProfile /\ ~Fail
  <2>1. /\ phase = "bind" /\ todo = {} /\ UNCHANGED <<file, edits, index, walked>>
        /\ \/ phase' = "close" /\ profile' = profile + 1
           \/ phase' = "convert" /\ profile = Profiles
    BY <1>12, <1>b, ReleaseAssumption DEF NextProfile
  <2>2. Started # {} /\ \A p \in Admitted' : p \in Admitted \/ p = profile
    <3>1. Admitted = 1 .. (profile - 1) /\ Started = 1 .. profile
      BY <2>1 DEF Started, Admitted
    <3>2. profile \in Nat \ {0} /\ profile \in 1 .. profile
      BY <1>b
    <3>3. Admitted' = 1 .. profile
      <4>1. CASE phase' = "close" /\ profile' = profile + 1
        <5>1. Admitted' = 1 .. ((profile + 1) - 1)
          BY <4>1 DEF Admitted
        <5> QED BY <5>1, <3>2
      <4>2. CASE phase' = "convert" /\ profile = Profiles
        BY <4>2 DEF Admitted
      <4> QED BY <2>1, <4>1, <4>2
    <3> QED BY <3>1, <3>2, <3>3
  <2> QED BY <1>a, <1>b, <2>1, <2>2 DEF EditInv, Loaded, Checked
<1>13. CASE (Converted /\ (\A d \in Docs : ilcd[d] \in Valid)) \/ Compared \/ NextPackage \/ Publish
  <2>1. /\ Admitted' = Admitted /\ Started # {} /\ phase' # "bind"
        /\ UNCHANGED <<file, edits, index, walked>>
    BY <1>13, <1>b DEF Converted, Compared, NextPackage, Publish, Pass, Admitted, Started
  <2> QED BY <1>a, <2>1 DEF EditInv, Loaded, Checked
<1> QED
  BY <1>1, <1>2, <1>3, <1>4, <1>5, <1>6, <1>7, <1>8, <1>9, <1>10, <1>11, <1>12, <1>13, NextCases

LEMMA InitResolve == Init => ResolveInv
<1> SUFFICES ASSUME Init PROVE ResolveInv
  OBVIOUS
<1>1. \A p \in 1 .. Profiles : ClosureInv(p)
  BY DEF Init, ClosureInv, Started, Admitted, NoContent
<1>2. EditInv
  BY ReleaseAssumption DEF Init, EditInv, Started, Admitted, Loaded, NoContent
<1> QED BY <1>1, <1>2, InitType DEF ResolveInv

LEMMA ResolveInvariance == Spec => []ResolveInv
<1>1. ResolveInv /\ [Next]_vars => ResolveInv'
  BY NextType, NextFresh, NextEdit, NextClosure DEF ResolveInv
<1> QED BY <1>1, InitResolve, PTL DEF Spec

\* The closure of a profile, once its hashes are compared, is the smallest set
\* with its roots that is closed under the references read, and they were read
\* from the indexed contents but for files edited twice.
THEOREM ClosureTheorem == Spec => []ClosureFitsIndex
<1>1. ResolveInv => ClosureFitsIndex
  <2> SUFFICES ASSUME ResolveInv, NEW p \in Admitted
               PROVE  /\ Roots[p] \subseteq selected[p]
                      /\ \A d \in selected[p] : walked[p][d] # Nothing
                      /\ IsClosed(selected[p], walked[p])
                      /\ \A S \in SUBSET Indexed :
                           Roots[p] \subseteq S /\ IsClosed(S, walked[p]) => selected[p] \subseteq S
                      /\ \A d \in selected[p] : walked[p][d] # index[d] => edits[d] >= 2
    BY DEF ClosureFitsIndex
  <2>1. p \in 1 .. Profiles /\ p \in Started /\ Frontier(p) = {}
    <3>1. profile \in 1 .. Profiles /\ Profiles \in Nat
      BY ReleaseAssumption DEF ResolveInv, TypeOK
    <3> QED BY <3>1 DEF Admitted, Started, Frontier
  <2>2. ClosureInv(p) /\ EditInv /\ selected[p] \subseteq Indexed /\ Indexed \subseteq Docs
    BY <2>1, ReleaseAssumption DEF ResolveInv, TypeOK
  <2> QED BY <2>1, <2>2 DEF ClosureInv, EditInv, Checked, IsClosed
<1> QED BY <1>1, ResolveInvariance, PTL

-----------------------------------------------------------------------------
\* The file has passed the closure, or the round trip.
IsBound(d) ==
  \/ \E p \in Admitted : d \in selected[p]
  \/ phase = "bind" /\ d \in selected[profile] \ todo

IsCompared(d) == phase \in {"pack", "done"} \/ (phase = "compare" /\ d \notin todo)

\* The file and what was made of it so far have one content.
Fits(d, c) ==
  /\ file[d] = c
  /\ ilcd[d] \in {Nothing, c}
  /\ \A p \in 1 .. Profiles : zip[p][d] \in {Nothing, c}

\* What has passed a gate fits it for as long as it is not edited.
BoundInv ==
  \A d \in Docs : bound[d] <= edits[d] /\ (IsBound(d) /\ edits[d] = bound[d] => Fits(d, index[d]))

ComparedInv ==
  \A d \in Docs : compared[d] <= edits[d] /\ (IsCompared(d) /\ edits[d] = compared[d] => Fits(d, ilcd[d]))

\* How far the staging directory is.
StagingInv ==
  /\ phase \in {"validate", "index", "close", "bind"} => ilcd = NoContent
  /\ phase \notin {"pack", "done", "failed"} => zip = [p \in 1 .. Profiles |-> NoContent]
  /\ phase \in {"compare", "pack", "done"} => \A d \in Docs : ilcd[d] \in Valid
  /\ phase = "pack" => \A p \in 1 .. Profiles : \A d \in selected[p] :
       p < profile \/ (p = profile /\ d \notin todo) => zip[p][d] # Nothing
  /\ phase \in {"convert", "compare", "pack", "done"} /\ Paired => selected[1] \subseteq selected[Profiles]
  /\ phase # "done" => release = Nothing

GateInv == TypeOK /\ Fresh /\ BoundInv /\ ComparedInv /\ StagingInv

LEMMA NextBound == GateInv /\ [Next]_vars => BoundInv'
<1> SUFFICES ASSUME GateInv, [Next]_vars PROVE BoundInv'
  OBVIOUS
<1> USE DEF source, closure, staged
<1>a. TypeOK /\ BoundInv /\ StagingInv
  BY DEF GateInv
<1>b. profile \in Nat /\ profile \in 1 .. Profiles /\ Profiles \in Nat
  BY <1>a, ReleaseAssumption DEF TypeOK
<1>c. ASSUME UNCHANGED <<file, edits, index, bound, ilcd, zip>>, \A d \in Docs : IsBound(d)' => IsBound(d)
      PROVE  BoundInv'
  BY <1>a, <1>c DEF BoundInv, Fits
<1>1. CASE Fail
  BY <1>1, <1>c DEF Fail, IsBound, Admitted
<1>2. CASE UNCHANGED vars
  BY <1>2, <1>c DEF vars, IsBound, Admitted
<1>3. ASSUME NEW d \in Docs, Edit(d) PROVE BoundInv'
  <2>1. /\ edits' = [edits EXCEPT ![d] = @ + 1] /\ edits \in [Docs -> Nat] /\ bound \in [Docs -> Nat]
        /\ \A e \in Docs : e # d => file'[e] = file[e]
        /\ UNCHANGED <<index, bound, ilcd, zip>>
    BY <1>3, <1>a DEF Edit, TypeOK
  <2>2. \A e \in Docs : IsBound(e)' <=> IsBound(e)
    BY <1>3 DEF Edit, IsBound, Admitted
  <2>3. bound'[d] <= edits'[d] /\ edits'[d] # bound'[d]
    BY <1>a, <2>1 DEF BoundInv
  <2>4. ASSUME NEW e \in Docs, e # d
        PROVE  bound'[e] <= edits'[e] /\ (IsBound(e)' /\ edits'[e] = bound'[e] => Fits(e, index[e])')
    BY <1>a, <2>1, <2>2, <2>4 DEF BoundInv, Fits
  <2> QED BY <2>3, <2>4 DEF BoundInv
<1>4. ASSUME NEW d \in Docs, \/ \E gate : gate \in {"validate", "index"} /\ Visit(gate, d) /\ Kept
                             \/ Compare(d) /\ file[d] = ilcd[d]
      PROVE  BoundInv'
  BY <1>4, <1>c DEF Kept, Visit, Compare, IsBound, Admitted
<1>5. ASSUME NEW d \in Docs, Walk(d), ~Refused(d) PROVE BoundInv'
  <2>1. phase = "close" /\ UNCHANGED <<file, edits, index, bound, ilcd, zip, phase, profile>>
    BY <1>5 DEF Walk
  <2>2. \A p \in Admitted : selected'[p] = selected[p]
    BY <1>5, <1>a, <1>b, <2>1 DEF Walk, Admitted, TypeOK
  <2> QED BY <1>c, <2>1, <2>2 DEF IsBound, Admitted
<1>6. ASSUME NEW d \in Docs, Bind(d), file[d] = index[d] PROVE BoundInv'
  <2>1. /\ phase = "bind" /\ todo' = todo \ {d} /\ bound' = [bound EXCEPT ![d] = edits[d]]
        /\ UNCHANGED <<file, edits, index, ilcd, zip, phase, profile, selected>>
    BY <1>6 DEF Bind, Visit
  <2>2. Fits(d, index[d])'
    BY <1>6, <1>a, <2>1 DEF Fits, StagingInv, NoContent
  <2>3. bound'[d] = edits'[d] /\ edits'[d] \in Nat /\ \A e \in Docs : e # d => bound'[e] = bound[e]
    BY <1>a, <2>1 DEF TypeOK
  <2>4. \A e \in Docs : e # d => (IsBound(e)' <=> IsBound(e))
    BY <2>1 DEF IsBound, Admitted
  <2>5. ASSUME NEW e \in Docs, e # d
        PROVE  bound'[e] <= edits'[e] /\ (IsBound(e)' /\ edits'[e] = bound'[e] => Fits(e, index[e])')
    BY <1>a, <2>1, <2>3, <2>4, <2>5 DEF BoundInv, Fits
  <2> QED BY <2>2, <2>3, <2>5 DEF BoundInv
<1>7. ASSUME NEW d \in Docs, Convert(d) PROVE BoundInv'
  <2>1. /\ ilcd' = [ilcd EXCEPT ![d] = file[d]] /\ ilcd \in [Docs -> Contents \cup {Nothing}]
        /\ UNCHANGED <<file, edits, index, bound, zip>>
    BY <1>7, <1>a DEF Convert, TypeOK
  <2>2. \A e \in Docs : IsBound(e)' <=> IsBound(e)
    BY <1>7 DEF Convert, Visit, IsBound, Admitted
  <2> QED BY <1>a, <2>1, <2>2 DEF BoundInv, Fits
<1>8. ASSUME NEW d \in Docs, Pack(d) PROVE BoundInv'
  <2>1. /\ zip' = [zip EXCEPT ![profile][d] = file[d]]
        /\ file[d] \in Contents \cup {Nothing}
        /\ zip \in [1 .. Profiles -> [Docs -> Contents \cup {Nothing}]]
        /\ UNCHANGED <<file, edits, index, bound, ilcd>>
    BY <1>8, <1>a DEF Pack, TypeOK
  <2>2. \A q \in 1 .. Profiles, e \in Docs : zip'[q][e] \in {zip[q][e], file[e]}
    BY <1>b, <2>1, EntryWritten
  <2>3. \A e \in Docs : IsBound(e)' <=> IsBound(e)
    BY <1>8 DEF Pack, Visit, IsBound, Admitted
  <2> QED BY <1>a, <2>1, <2>2, <2>3 DEF BoundInv, Fits
<1>9. CASE Validated \/ (StartClosure /\ Roots[1] # {})
  <2>1. Admitted' = {}
    <3>1. CASE Validated
      BY <3>1 DEF Validated, Pass, Admitted
    <3>2. CASE StartClosure /\ Roots[1] # {}
      BY <3>2 DEF StartClosure, Admitted, GateInv, Fresh
    <3> QED BY <1>9, <3>1, <3>2
  <2> QED BY <1>9, <1>c, <2>1 DEF Validated, StartClosure, Pass, IsBound
<1>10. CASE Closed
  BY <1>10, <1>c DEF Closed, IsBound, Admitted
<1>11. CASE NextProfile /\ profile < Profiles /\ Roots[profile + 1] # {}
  <2>1. \A p \in Admitted' : p \in Admitted \/ p = profile
    BY <1>11, <1>b DEF NextProfile, Admitted
  <2> QED BY <1>11, <1>c, <2>1 DEF NextProfile, IsBound
<1>12. CASE NextProfile /\ ~(profile < Profiles) /\ (Paired => selected[1] \subseteq selected[Profiles])
  <2>1. \A p \in Admitted' : p \in Admitted \/ p = profile
    BY <1>12, <1>b DEF NextProfile, Admitted
  <2> QED BY <1>12, <1>c, <2>1 DEF NextProfile, IsBound
<1>13. CASE (Converted /\ (\A d \in Docs : ilcd[d] \in Valid)) \/ Compared \/ NextPackage \/ Publish
  BY <1>13, <1>c DEF Converted, Compared, NextPackage, Publish, Pass, IsBound, Admitted
<1> QED
  BY <1>1, <1>2, <1>3, <1>4, <1>5, <1>6, <1>7, <1>8, <1>9, <1>10, <1>11, <1>12, <1>13, NextCases

LEMMA NextCompared == GateInv /\ [Next]_vars => ComparedInv'
<1> SUFFICES ASSUME GateInv, [Next]_vars PROVE ComparedInv'
  OBVIOUS
<1> USE DEF source, closure, staged
<1>a. TypeOK /\ ComparedInv /\ StagingInv
  BY DEF GateInv
<1>b. profile \in 1 .. Profiles
  BY <1>a DEF TypeOK
<1>c. ASSUME UNCHANGED <<file, edits, compared, ilcd, zip>>, \A d \in Docs : IsCompared(d)' => IsCompared(d)
      PROVE  ComparedInv'
  BY <1>a, <1>c DEF ComparedInv, Fits
<1>1. CASE Fail
  BY <1>1, <1>c DEF Fail, IsCompared
<1>2. CASE UNCHANGED vars
  BY <1>2, <1>c DEF vars, IsCompared
<1>3. ASSUME NEW d \in Docs, Edit(d) PROVE ComparedInv'
  <2>1. /\ edits' = [edits EXCEPT ![d] = @ + 1] /\ edits \in [Docs -> Nat] /\ compared \in [Docs -> Nat]
        /\ \A e \in Docs : e # d => file'[e] = file[e]
        /\ UNCHANGED <<compared, ilcd, zip>>
    BY <1>3, <1>a DEF Edit, TypeOK
  <2>2. \A e \in Docs : IsCompared(e)' <=> IsCompared(e)
    BY <1>3 DEF Edit, IsCompared
  <2>3. compared'[d] <= edits'[d] /\ edits'[d] # compared'[d]
    BY <1>a, <2>1 DEF ComparedInv
  <2>4. ASSUME NEW e \in Docs, e # d
        PROVE  compared'[e] <= edits'[e] /\ (IsCompared(e)' /\ edits'[e] = compared'[e] => Fits(e, ilcd[e])')
    BY <1>a, <2>1, <2>2, <2>4 DEF ComparedInv, Fits
  <2> QED BY <2>3, <2>4 DEF ComparedInv
<1>4. ASSUME NEW d \in Docs, \/ \E gate : gate \in {"validate", "index"} /\ Visit(gate, d) /\ Kept
                             \/ Walk(d) /\ ~Refused(d)
                             \/ Bind(d) /\ file[d] = index[d]
      PROVE  ComparedInv'
  BY <1>4, <1>c DEF Kept, Visit, Walk, Bind, IsCompared
<1>5. ASSUME NEW d \in Docs, Convert(d) PROVE ComparedInv'
  <2>1. phase' = "convert" /\ UNCHANGED <<edits, compared>>
    BY <1>5 DEF Convert, Visit
  <2> QED BY <1>a, <2>1 DEF ComparedInv, IsCompared
<1>6. ASSUME NEW d \in Docs, Compare(d), file[d] = ilcd[d] PROVE ComparedInv'
  <2>1. /\ phase = "compare" /\ todo' = todo \ {d} /\ compared' = [compared EXCEPT ![d] = edits[d]]
        /\ UNCHANGED <<file, edits, ilcd, zip, phase>>
    BY <1>6 DEF Compare, Visit
  <2>2. Fits(d, ilcd[d])'
    BY <1>6, <1>a, <2>1 DEF Fits, StagingInv, NoContent
  <2>3. compared'[d] = edits'[d] /\ edits'[d] \in Nat /\ \A e \in Docs : e # d => compared'[e] = compared[e]
    BY <1>a, <2>1 DEF TypeOK
  <2>4. ASSUME NEW e \in Docs, e # d
        PROVE  compared'[e] <= edits'[e] /\ (IsCompared(e)' /\ edits'[e] = compared'[e] => Fits(e, ilcd[e])')
    BY <1>a, <2>1, <2>3, <2>4 DEF ComparedInv, Fits, IsCompared
  <2> QED BY <2>2, <2>3, <2>4 DEF ComparedInv
<1>7. ASSUME NEW d \in Docs, Pack(d) PROVE ComparedInv'
  <2>1. /\ zip' = [zip EXCEPT ![profile][d] = file[d]]
        /\ file[d] \in Contents \cup {Nothing}
        /\ zip \in [1 .. Profiles -> [Docs -> Contents \cup {Nothing}]]
        /\ UNCHANGED <<file, edits, compared, ilcd>>
    BY <1>7, <1>a DEF Pack, TypeOK
  <2>2. \A q \in 1 .. Profiles, e \in Docs : zip'[q][e] \in {zip[q][e], file[e]}
    BY <1>b, <2>1, EntryWritten
  <2>3. \A e \in Docs : IsCompared(e)' <=> IsCompared(e)
    BY <1>7 DEF Pack, Visit, IsCompared
  <2> QED BY <1>a, <2>1, <2>2, <2>3 DEF ComparedInv, Fits
<1>8. CASE Validated \/ (StartClosure /\ Roots[1] # {}) \/ Closed \/ (NextProfile /\ ~Fail)
  <2>1. phase' \in {"index", "close", "bind", "convert"} /\ UNCHANGED <<edits, compared>>
    BY <1>8 DEF Validated, StartClosure, Closed, NextProfile, Pass, Fail
  <2> QED BY <1>a, <2>1 DEF ComparedInv, IsCompared
<1>9. CASE Converted /\ (\A d \in Docs : ilcd[d] \in Valid)
  <2>1. phase' = "compare" /\ todo' = Docs /\ UNCHANGED <<edits, compared>>
    BY <1>9 DEF Converted, Pass
  <2> QED BY <1>a, <2>1 DEF ComparedInv, IsCompared
<1>10. CASE Compared \/ NextPackage \/ Publish
  BY <1>10, <1>c DEF Compared, NextPackage, Publish, Pass, IsCompared
<1> QED
  BY <1>1, <1>2, <1>3, <1>4, <1>5, <1>6, <1>7, <1>8, <1>9, <1>10, NextCases

LEMMA NextStaging == GateInv /\ [Next]_vars => StagingInv'
<1> SUFFICES ASSUME GateInv, [Next]_vars PROVE StagingInv'
  OBVIOUS
<1> USE DEF source, closure, staged
<1>a. TypeOK /\ StagingInv
  BY DEF GateInv
<1>b. profile \in Nat /\ profile \in 1 .. Profiles /\ Profiles \in Nat
  BY <1>a, ReleaseAssumption DEF TypeOK
<1>1. CASE Fail /\ ~Ended
  BY <1>1, <1>a DEF Fail, Ended, StagingInv
<1>2. CASE UNCHANGED vars
  BY <1>2, <1>a DEF vars, StagingInv
<1>3. ASSUME NEW d \in Docs, Edit(d) PROVE StagingInv'
  BY <1>3, <1>a DEF Edit, StagingInv
<1>4. ASSUME NEW d \in Docs, \/ \E gate : gate \in {"validate", "index"} /\ Visit(gate, d) /\ Kept
                             \/ Bind(d) /\ file[d] = index[d]
                             \/ Walk(d) /\ ~Refused(d)
                             \/ Compare(d) /\ file[d] = ilcd[d]
      PROVE  StagingInv'
  BY <1>4, <1>a DEF Visit, Kept, Bind, Walk, Compare, StagingInv
<1>5. ASSUME NEW d \in Docs, Convert(d) PROVE StagingInv'
  BY <1>5, <1>a DEF Convert, Visit, StagingInv
<1>6. ASSUME NEW d \in Docs, Pack(d) PROVE StagingInv'
  <2>1. /\ phase = "pack" /\ todo' = todo \ {d}
        /\ zip' = [zip EXCEPT ![profile][d] = file[d]]
        /\ file[d] \in Contents \cup {Nothing} /\ file[d] # Nothing
        /\ zip \in [1 .. Profiles -> [Docs -> Contents \cup {Nothing}]]
        /\ UNCHANGED <<phase, profile, selected, ilcd, release>>
    BY <1>6, <1>a, ReleaseAssumption DEF Pack, Visit, TypeOK
  <2>2. /\ zip'[profile][d] # Nothing
        /\ \A q \in 1 .. Profiles, e \in Docs : q # profile \/ e # d => zip'[q][e] = zip[q][e]
    BY <1>b, <2>1, EntryWritten
  <2>3. \A p \in 1 .. Profiles : selected[p] \subseteq Docs
    BY <1>a, ReleaseAssumption DEF TypeOK
  <2>4. ASSUME NEW p \in 1 .. Profiles, NEW e \in selected[p], p < profile \/ (p = profile /\ e \notin todo')
        PROVE  zip'[p][e] # Nothing
    BY <1>a, <1>b, <2>1, <2>2, <2>3, <2>4 DEF StagingInv
  <2> QED BY <1>a, <2>1, <2>4 DEF StagingInv
<1>7. CASE Validated \/ (StartClosure /\ Roots[1] # {}) \/ Closed
  BY <1>7, <1>a DEF Validated, StartClosure, Closed, Pass, StagingInv
<1>8. CASE NextProfile /\ profile < Profiles /\ Roots[profile + 1] # {}
  BY <1>8, <1>a DEF NextProfile, StagingInv
<1>9. CASE NextProfile /\ ~(profile < Profiles) /\ (Paired => selected[1] \subseteq selected[Profiles])
  BY <1>9, <1>a DEF NextProfile, StagingInv
<1>10. CASE Converted /\ (\A d \in Docs : ilcd[d] \in Valid)
  BY <1>10, <1>a DEF Converted, Pass, StagingInv
<1>11. CASE Compared
  BY <1>11, <1>a, <1>b DEF Compared, Pass, StagingInv
<1>12. CASE NextPackage
  BY <1>12, <1>a, <1>b DEF NextPackage, StagingInv
<1>13. CASE Publish
  BY <1>13, <1>a DEF Publish, Pass, StagingInv
<1> QED
  BY <1>1, <1>2, <1>3, <1>4, <1>5, <1>6, <1>7, <1>8, <1>9, <1>10, <1>11, <1>12, <1>13, NextCases

\* What is about to be published has passed every gate.
LEMMA PublishGated == GateInv /\ Publish => PublishedIsGated'
<1> SUFFICES ASSUME GateInv, Publish PROVE PublishedIsGated'
  OBVIOUS
<1>1. /\ phase = "pack" /\ todo = {} /\ profile = Profiles
      /\ release' = [p \in 1 .. Profiles |->
           [d \in selected[p] |-> [tidas |-> zip[p][d], ilcd |-> ilcd[d]]]]
      /\ UNCHANGED <<file, edits, index, selected, bound, ilcd, compared>>
  BY DEF Publish, Pass, source, closure, staged
<1>2. TypeOK /\ BoundInv /\ ComparedInv /\ StagingInv
  BY DEF GateInv
<1>3. ASSUME NEW p \in 1 .. Profiles, NEW d \in selected[p]
      PROVE  /\ ilcd[d] \in Valid
             /\ zip[p][d] # ilcd[d] => edits[d] > compared[d]
             /\ edits[d] = bound[d] => zip[p][d] = index[d] /\ ilcd[d] = index[d]
  <2>1. d \in Docs /\ edits[d] \in Nat /\ compared[d] \in Nat
    BY <1>2, ReleaseAssumption DEF TypeOK
  <2>2. IsCompared(d) /\ IsBound(d)
    BY <1>1 DEF IsCompared, IsBound, Admitted
  <2>3. ilcd[d] \in Valid /\ ilcd[d] # Nothing
    BY <1>1, <1>2, <2>1, ReleaseAssumption DEF StagingInv
  <2>4. zip[p][d] # Nothing
    <3>1. p < profile \/ (p = profile /\ d \notin todo)
      BY <1>1, ReleaseAssumption
    <3> QED BY <1>1, <1>2, <3>1 DEF StagingInv
  <2>5. zip[p][d] # ilcd[d] => edits[d] > compared[d]
    BY <1>2, <2>1, <2>2, <2>4 DEF ComparedInv, Fits
  <2>6. edits[d] = bound[d] => zip[p][d] = index[d] /\ ilcd[d] = index[d]
    BY <1>2, <2>1, <2>2, <2>3, <2>4 DEF BoundInv, Fits
  <2> QED BY <2>3, <2>5, <2>6
<1>4. Paired => selected[1] \subseteq selected[Profiles]
  BY <1>1, <1>2 DEF StagingInv
<1>5. 1 \in 1 .. Profiles /\ Profiles \in 1 .. Profiles
  BY ReleaseAssumption
<1>6. /\ DOMAIN release' = 1 .. Profiles
      /\ \A p \in 1 .. Profiles : DOMAIN release'[p] = selected[p]
      /\ \A p \in 1 .. Profiles : \A d \in selected[p] :
           release'[p][d].tidas = zip[p][d] /\ release'[p][d].ilcd = ilcd[d]
  BY <1>1
<1> QED BY <1>1, <1>3, <1>4, <1>5, <1>6 DEF PublishedIsGated

LEMMA NextGated == GateInv /\ PublishedIsGated /\ [Next]_vars => PublishedIsGated'
<1> SUFFICES ASSUME GateInv, PublishedIsGated, [Next]_vars PROVE PublishedIsGated'
  OBVIOUS
<1>1. CASE Publish
  BY <1>1, PublishGated
<1>2. CASE UNCHANGED vars
  BY <1>2 DEF vars, source, closure, staged, PublishedIsGated
<1>3. CASE phase # "done" /\ release' = release
  BY <1>3 DEF GateInv, StagingInv, PublishedIsGated
<1>4. Publish \/ UNCHANGED vars \/ (phase # "done" /\ release' = release)
  BY NextCases DEF Fail, Ended, Edit, Visit, Kept, Walk, Bind, Convert, Compare, Pack, Validated,
     StartClosure, Closed, NextProfile, Converted, Compared, NextPackage, Pass
<1> QED BY <1>1, <1>2, <1>3, <1>4

\* What is published has passed every gate with the content it has, but for
\* files edited after the gate, for any files, profiles and number of edits.
THEOREM GatesTheorem == Spec => []PublishedIsGated
<1>1. Init => GateInv /\ PublishedIsGated
  <2> SUFFICES ASSUME Init PROVE BoundInv /\ ComparedInv /\ StagingInv /\ PublishedIsGated
    BY InitType DEF GateInv
  <2>1. StagingInv /\ PublishedIsGated
    BY DEF Init, StagingInv, PublishedIsGated
  <2>2. BoundInv
    BY DEF Init, BoundInv, IsBound, Admitted
  <2>3. ComparedInv
    BY DEF Init, ComparedInv, IsCompared
  <2> QED BY <2>1, <2>2, <2>3
<1>2. GateInv /\ PublishedIsGated /\ [Next]_vars => (GateInv /\ PublishedIsGated)'
  BY NextType, NextFresh, NextBound, NextCompared, NextStaging, NextGated DEF GateInv
<1> QED BY <1>1, <1>2, PTL DEF Spec
-----------------------------------------------------------------------------
(* Staged publication *)

\* A run holds a backup only between moving the target aside and the end of
\* its commit, or for ever if it died there; and there it does hold one.
BackupInv ==
  \A r \in Runs : /\ pc[r] \in {"install", "restore"} => backup[r] # None
                  /\ backup[r] # None => pc[r] \in {"install", "restore", "crashed"}

\* While the target is missing, some run has not finished replacing it.
WindowInv ==
  \/ target # None
  \/ published = {}
  \/ \E r \in Runs : pc[r] \in {"install", "restore", "crashed", "rollback_failed"}

LEMMA CommitInvariance == CommitSpec => [](CommitTypeOK /\ BackupInv)
<1> USE CommitAssumption DEF Outputs, Running
<1>1. CommitInit => CommitTypeOK
  BY DEF CommitInit, CommitTypeOK
<1>2. BackupInv /\ CommitTypeOK /\ [CommitNext]_commitVars => CommitTypeOK'
  <2> SUFFICES ASSUME BackupInv, CommitTypeOK, [CommitNext]_commitVars PROVE CommitTypeOK'
    OBVIOUS
  <2>1. ASSUME NEW r \in Runs, Abandon(r) PROVE CommitTypeOK'
    BY <2>1 DEF Abandon, Ends, CommitTypeOK
  <2>2. ASSUME NEW r \in Runs, Commit(r) PROVE CommitTypeOK'
    BY <2>2 DEF Commit, CommitTypeOK
  <2>3. ASSUME NEW r \in Runs, InstallFresh(r) PROVE CommitTypeOK'
    BY <2>3 DEF InstallFresh, RenameToTarget, RenameFails, IoError, Ends, CommitTypeOK
  <2>4. ASSUME NEW r \in Runs, MoveAside(r) PROVE CommitTypeOK'
    BY <2>4 DEF MoveAside, IoError, Ends, CommitTypeOK
  <2>5. ASSUME NEW r \in Runs, Install(r) PROVE CommitTypeOK'
    BY <2>5 DEF Install, RenameFails, IoError, Ends, CommitTypeOK
  <2>6. ASSUME NEW r \in Runs, Restore(r) PROVE CommitTypeOK'
    BY <2>6 DEF Restore, RenameToTarget, RenameFails, IoError, Ends, CommitTypeOK, BackupInv
  <2>7. ASSUME NEW r \in Runs, Crash(r) PROVE CommitTypeOK'
    BY <2>7 DEF Crash, Ends, CommitTypeOK
  <2>8. CASE UNCHANGED commitVars
    BY <2>8 DEF commitVars, CommitTypeOK
  <2> QED BY <2>1, <2>2, <2>3, <2>4, <2>5, <2>6, <2>7, <2>8 DEF CommitNext
<1>3. CommitInit => BackupInv
  BY DEF CommitInit, BackupInv
<1>4. CommitTypeOK /\ BackupInv /\ [CommitNext]_commitVars => BackupInv'
  <2> SUFFICES ASSUME CommitTypeOK, BackupInv, [CommitNext]_commitVars PROVE BackupInv'
    OBVIOUS
  <2> USE DEF CommitTypeOK, BackupInv
  <2>1. ASSUME NEW r \in Runs, Abandon(r) PROVE BackupInv'
    BY <2>1 DEF Abandon, Ends
  <2>2. ASSUME NEW r \in Runs, Commit(r) PROVE BackupInv'
    BY <2>2 DEF Commit
  <2>3. ASSUME NEW r \in Runs, InstallFresh(r) PROVE BackupInv'
    BY <2>3 DEF InstallFresh, Ends
  <2>4. ASSUME NEW r \in Runs, MoveAside(r) PROVE BackupInv'
    BY <2>4 DEF MoveAside, Ends
  <2>5. ASSUME NEW r \in Runs, Install(r) PROVE BackupInv'
    BY <2>5 DEF Install, Ends
  <2>6. ASSUME NEW r \in Runs, Restore(r) PROVE BackupInv'
    BY <2>6 DEF Restore, Ends
  <2>7. ASSUME NEW r \in Runs, Crash(r) PROVE BackupInv'
    BY <2>7 DEF Crash, Ends
  <2>8. CASE UNCHANGED commitVars
    BY <2>8 DEF commitVars
  <2> QED BY <2>1, <2>2, <2>3, <2>4, <2>5, <2>6, <2>7, <2>8 DEF CommitNext
<1>5. CommitTypeOK /\ BackupInv /\ [CommitNext]_commitVars => CommitTypeOK' /\ BackupInv'
  BY <1>2, <1>4
<1>6. CommitInit => CommitTypeOK /\ BackupInv
  BY <1>1, <1>3
<1> QED BY <1>5, <1>6, PTL DEF CommitSpec

\* The paths keep their types, for every kind of output and either policy.
THEOREM CommitTypeCorrect == CommitSpec => []CommitTypeOK
BY CommitInvariance, PTL

\* Every run that opens the window between the two renames closes it, however
\* the other runs interleave (StagedDirectory::commit and publish_atomically).
THEOREM WindowCloses == CommitSpec => []TargetPresent
<1> USE CommitAssumption DEF Outputs, Running
<1>1. CommitInit => WindowInv
  BY DEF CommitInit, WindowInv
<1>2. CommitTypeOK /\ BackupInv /\ WindowInv /\ [CommitNext]_commitVars => WindowInv'
  <2> SUFFICES ASSUME CommitTypeOK, BackupInv, WindowInv, [CommitNext]_commitVars PROVE WindowInv'
    OBVIOUS
  <2> USE DEF CommitTypeOK, WindowInv
  <2>1. ASSUME NEW r \in Runs, Abandon(r) PROVE WindowInv'
    BY <2>1 DEF Abandon, Ends
  <2>2. ASSUME NEW r \in Runs, Commit(r) PROVE WindowInv'
    BY <2>2 DEF Commit
  <2>3. ASSUME NEW r \in Runs, InstallFresh(r) PROVE WindowInv'
    BY <2>3 DEF InstallFresh, RenameToTarget, RenameFails, Ends
  <2>4. ASSUME NEW r \in Runs, MoveAside(r) PROVE WindowInv'
    BY <2>4 DEF MoveAside, Ends
  <2>5. ASSUME NEW r \in Runs, Install(r) PROVE WindowInv'
    BY <2>5 DEF Install, RenameFails, Ends
  <2>6. ASSUME NEW r \in Runs, Restore(r) PROVE WindowInv'
    BY <2>6 DEF Restore, RenameToTarget, RenameFails, Ends, BackupInv
  <2>7. ASSUME NEW r \in Runs, Crash(r) PROVE WindowInv'
    BY <2>7 DEF Crash, Ends
  <2>8. CASE UNCHANGED commitVars
    BY <2>8 DEF commitVars
  <2> QED BY <2>1, <2>2, <2>3, <2>4, <2>5, <2>6, <2>7, <2>8 DEF CommitNext
<1>3. WindowInv => TargetPresent
  BY DEF WindowInv, TargetPresent, AllOver
<1> QED BY <1>1, <1>2, <1>3, CommitInvariance, PTL DEF CommitSpec

\* With the backup kept on a failed rollback, as tidas-release does, no run
\* deletes a published directory it has not replaced: for any number of
\* concurrent runs, I/O errors and crashes.
THEOREM ReleaseConservesOutputs ==
  ASSUME KeepBackup, Kind = "directory"
  PROVE  CommitSpec => []ContentConserved
<1> USE CommitAssumption DEF Outputs, Running
<1>1. CommitInit => ContentConserved
  BY DEF CommitInit, ContentConserved, OnDisk
<1>2. CommitTypeOK /\ CommitTypeOK' /\ BackupInv /\ ContentConserved /\ [CommitNext]_commitVars => ContentConserved'
  <2> SUFFICES ASSUME CommitTypeOK, CommitTypeOK', BackupInv, ContentConserved, [CommitNext]_commitVars,
                      NEW c \in published'
               PROVE  OnDisk(c)' \/ \E r \in Runs : <<c, r>> \in destroyed' /\ pc'[r] = "done"
    BY DEF ContentConserved
  <2> DEFINE Replaced == \E q \in Runs : <<c, q>> \in destroyed /\ pc[q] = "done"
             StillThere == OnDisk(c)' \/ \E q \in Runs : <<c, q>> \in destroyed' /\ pc'[q] = "done"
  <2>0. c # None /\ (c \in published => OnDisk(c) \/ Replaced)
    BY DEF ContentConserved, CommitTypeOK
  <2>a. ASSUME NEW r \in Runs, pc[r] # "done", Replaced,
               destroyed \subseteq destroyed', NEW how, pc' = [pc EXCEPT ![r] = how]
        PROVE  StillThere
    BY <2>a DEF CommitTypeOK
  <2>1. ASSUME NEW r \in Runs, Abandon(r) PROVE StillThere
    BY <2>0, <2>1 DEF Abandon, Ends, OnDisk, CommitTypeOK
  <2>2. ASSUME NEW r \in Runs, Commit(r) PROVE StillThere
    BY <2>0, <2>2 DEF Commit, OnDisk, CommitTypeOK
  <2>3. ASSUME NEW r \in Runs, InstallFresh(r) PROVE StillThere
    <3>1. destroyed \subseteq destroyed'
      BY <2>3 DEF InstallFresh, RenameToTarget
    <3>2. CASE Replaced
      BY <2>3, <2>a, <3>1, <3>2 DEF InstallFresh, Ends
    <3>3. CASE ~Replaced
      <4>1. CASE RenameToTarget(r, r)
        BY <2>0, <2>3, <3>3, <4>1 DEF InstallFresh, RenameToTarget, Accepts, OnDisk
      <4>2. CASE RenameFails
        BY <2>0, <2>3, <3>3, <4>2 DEF InstallFresh, RenameFails, OnDisk
      <4> QED BY <2>3, <4>1, <4>2 DEF InstallFresh
    <3> QED BY <3>2, <3>3
  <2>4. ASSUME NEW r \in Runs, MoveAside(r) PROVE StillThere
    <3>1. CASE Replaced
      BY <2>4, <2>a, <3>1 DEF MoveAside, Ends
    <3>2. CASE ~Replaced
      <4>1. backup[r] = None
        BY <2>4 DEF MoveAside, BackupInv, CommitTypeOK
      <4>2. OnDisk(c)
        BY <2>0, <2>4, <3>2 DEF MoveAside
      <4>3. CASE c = target
        BY <2>0, <2>4, <4>3 DEF MoveAside, OnDisk, CommitTypeOK
      <4>4. CASE c \in kept
        BY <2>4, <4>4 DEF MoveAside, OnDisk
      <4>5. ASSUME NEW q \in Runs, backup[q] = c PROVE StillThere
        BY <2>0, <2>4, <4>1, <4>5 DEF MoveAside, OnDisk, CommitTypeOK
      <4> QED BY <4>2, <4>3, <4>4, <4>5 DEF OnDisk
    <3> QED BY <3>1, <3>2
  <2>5. ASSUME NEW r \in Runs, Install(r) PROVE StillThere
    <3>1. destroyed \subseteq destroyed'
      BY <2>5 DEF Install
    <3>2. CASE Replaced
      BY <2>5, <2>a, <3>1, <3>2 DEF Install, Ends
    <3>3. CASE ~Replaced /\ RenameFails /\ UNCHANGED <<backup, destroyed>>
      BY <2>0, <2>5, <3>3 DEF Install, RenameFails, OnDisk
    <3>4. CASE /\ ~Replaced
               /\ target = None
               /\ target' = r
               /\ published' = published \cup {r}
               /\ destroyed' = destroyed \cup {<<d, r>> : d \in {target, backup[r]} \ {None}}
               /\ backup' = [backup EXCEPT ![r] = None]
               /\ pc'[r] = "done"
      <4>1. CASE c = r
        BY <3>4, <4>1 DEF OnDisk
      <4>2. CASE c = backup[r]
        <5>1. <<c, r>> \in destroyed'
          BY <2>0, <3>4, <4>2
        <5> QED BY <3>4, <5>1
      <4>3. CASE c # r /\ c # backup[r]
        BY <2>0, <2>5, <3>4, <4>3 DEF Install, OnDisk, CommitTypeOK
      <4> QED BY <4>1, <4>2, <4>3
    <3> QED BY <2>5, <3>2, <3>3, <3>4 DEF Install, Accepts, Ends, CommitTypeOK
  <2>6. ASSUME NEW r \in Runs, Restore(r) PROVE StillThere
    <3>1. destroyed \subseteq destroyed'
      BY <2>6 DEF Restore, RenameToTarget
    <3>2. CASE Replaced
      BY <2>6, <2>a, <3>1, <3>2 DEF Restore, Ends
    <3>3. CASE ~Replaced /\ c = backup[r]
      BY <2>6, <3>3 DEF Restore, RenameToTarget, OnDisk
    <3>4. CASE ~Replaced /\ c # backup[r]
      <4>1. c \in published /\ c # None
        BY <2>0, <2>6, <3>4 DEF Restore, RenameToTarget, RenameFails
      <4>2. kept \subseteq kept' /\ (target = None \/ target' = target)
        BY <2>6 DEF Restore, RenameToTarget, RenameFails, Accepts
      <4>3. \A q \in Runs : backup[q] = c => backup'[q] = c
        BY <2>6, <3>4 DEF Restore, CommitTypeOK
      <4> QED BY <2>0, <3>4, <4>1, <4>2, <4>3 DEF OnDisk
    <3> QED BY <3>2, <3>3, <3>4
  <2>7. ASSUME NEW r \in Runs, Crash(r) PROVE StillThere
    BY <2>0, <2>7 DEF Crash, Ends, OnDisk, CommitTypeOK
  <2>8. CASE UNCHANGED commitVars
    BY <2>0, <2>8 DEF commitVars, OnDisk
  <2> QED BY <2>1, <2>2, <2>3, <2>4, <2>5, <2>6, <2>7, <2>8 DEF CommitNext
<1> QED BY <1>1, <1>2, CommitInvariance, PTL DEF CommitSpec
=============================================================================
