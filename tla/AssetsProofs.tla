---------------------------- MODULE AssetsProofs ----------------------------
(***************************************************************************)
(* Proofs about SpecImport, for any set of importers, any tree, any        *)
(* destinations, any number of failing calls and of deaths; and about      *)
(* PublicCopy, for any schemas, candidates, rules and drafts and any       *)
(* number of edits; and about SpecCandidate, for any package and any       *)
(* number of edits of it.                                                  *)
(***************************************************************************)
EXTENDS SpecImport, PublicCopy, SpecCandidate, ListTheorems

NoRestoreFailed == \A x \in faults : x[2] # "restore"

\* The types the argument needs.
Shape ==
  /\ file \in [Files -> Contents]
  /\ committed \in [Files -> Contents]
  /\ lock \in Importers \cup {NoLock}
  /\ pc \in [Importers -> Places]
  /\ snap \in [Importers -> [Files -> Contents]]
  /\ published \in [Importers -> 0 .. Len(Order)]
  /\ restored \in [Importers -> 0 .. Len(Order)]
  /\ outcome \in [Importers -> {"none", "refused", "failed", "imported"}]

\* The destinations with an index in (a, b] hold importer i's bytes, the
\* others the committed ones.
Replaced(i, a, b) ==
  \A k \in 1 .. Len(Order) :
    file[Order[k]] = IF a < k /\ k <= b THEN i ELSE committed[Order[k]]

Fresh == {"start", "mkdir_lock", "lock", "mkdir_scratch", "stage", "prepare"}
Publishing == {"next", "mkdir_home", "rename", "rmdir_early"}
Unpublished == {"mkdir_scratch", "stage", "prepare", "cleanup", "rmdir", "unlock"}

\* What the holder of the lock has done to the tree, given its place.
Progress(i) ==
  /\ pc[i] \in Unpublished => file = committed
  /\ pc[i] \in Publishing => snap[i] = committed /\ Replaced(i, 0, published[i])
  /\ pc[i] = "restore" => snap[i] = committed /\ Replaced(i, restored[i], published[i])

\* Nothing is counted before it is done.
Counters ==
  \A i \in Importers :
    /\ pc[i] \in Fresh => published[i] = 0
    /\ pc[i] \in Fresh \cup Publishing => restored[i] = 0

\* While prior state is held for a rollback it has every committed destination.
SnapshotsKeep ==
  \A i \in Importers : pc[i] \in Publishing \cup {"restore"} =>
    \A f \in Files : committed[f] # Absent => snap[i][f] # Absent

\* A destination is renamed only while there is one left.
RenameBound ==
  \A i \in Importers :
    pc[i] \in {"mkdir_home", "rename"} => published[i] < Len(Order)

ImportInv ==
  /\ Shape
  /\ RenameBound
  /\ Counters
  /\ WindowNeedsLock
  /\ CommittedNeverVanishes
  /\ SnapshotsKeep
  /\ SettledIsCommitted
  /\ NoRestoreFailed => \A i \in Importers : Progress(i)

\* The destinations are indexed without repetition.
LEMMA OrderFacts ==
  /\ Len(Order) \in Nat
  /\ \A k \in 1 .. Len(Order) : Order[k] \in Files
  /\ \A k, l \in 1 .. Len(Order) : Order[k] = Order[l] => k = l
<1>1. Order \in Seq(Files) /\ Len(Order) \in Nat /\ DOMAIN Order = 1 .. Len(Order)
  BY ImportAssumption
<1> QED BY <1>1, ImportAssumption DEF IsInjective

\* While i is in the window nobody else is.
LEMMA OthersOutside ==
  ASSUME WindowNeedsLock, NEW i \in Importers, pc[i] \in Window,
         NEW j \in Importers, j # i
  PROVE  pc[j] \notin Window
BY DEF WindowNeedsLock

LEMMA InitInv == Init => ImportInv
<1> SUFFICES ASSUME Init PROVE ImportInv
  OBVIOUS
<1> USE ImportAssumption
<1>1. \A f \in Files : InitialFile(f) \in Contents
  BY DEF InitialFile, Contents
<1>2. Len(Order) \in Nat
  BY OrderFacts
<1>3. Shape
  BY <1>1, <1>2 DEF Init, Shape, Places
<1> QED
  BY <1>3 DEF Init, ImportInv, RenameBound, Counters, WindowNeedsLock, CommittedNeverVanishes,
     SnapshotsKeep, SettledIsCommitted, Progress, Unpublished, Publishing, Window

LEMMA NextInv == ImportInv /\ [Next]_vars => ImportInv'
<1> SUFFICES ASSUME ImportInv, [Next]_vars PROVE ImportInv'
  OBVIOUS
<1>a. NoLock \notin Importers /\ Absent \notin Importers
  BY ImportAssumption
<1> USE <1>a, OrderFacts DEF ImportInv
<1>1. ASSUME NEW i \in Importers, Start(i) PROVE ImportInv'
  <2>1. Shape'
    BY <1>1 DEF Start, Goes, Ends, NoFault, Faulty, Shape, Places, Window, Contents
  <2>2. WindowNeedsLock'
    BY <1>1 DEF Start, Goes, Ends, NoFault, Faulty, Shape, WindowNeedsLock, Window
  <2>3. Counters'
    BY <1>1 DEF Start, Goes, Ends, NoFault, Faulty, Shape, Counters, Fresh, Publishing
  <2>7. RenameBound'
    BY <1>1 DEF Start, Goes, Ends, NoFault, Faulty, Shape, RenameBound
  <2>4. CommittedNeverVanishes' /\ SnapshotsKeep'
    <3>1. CommittedNeverVanishes'
      BY <1>1 DEF Start, Goes, Ends, NoFault, Faulty, Shape, CommittedNeverVanishes, WindowNeedsLock, Window, Publishing
    <3>2. SnapshotsKeep'
      BY <1>1 DEF Start, Goes, Ends, NoFault, Faulty, Shape, SnapshotsKeep, WindowNeedsLock, Window, Publishing
    <3> QED BY <3>1, <3>2
  <2>5. NoRestoreFailed' => \A j \in Importers : Progress(j)'
    BY <1>1 DEF Start, Goes, Ends, NoFault, Faulty, Shape, NoRestoreFailed, Progress, Replaced, Unpublished, Publishing, WindowNeedsLock, Window, Counters, Fresh
  <2>6. SettledIsCommitted'
    BY <1>1 DEF Start, Goes, Ends, NoFault, Faulty, Shape, NoRestoreFailed, SettledIsCommitted, Settled, Progress, Unpublished, WindowNeedsLock, Window
  <2> QED BY <2>1, <2>2, <2>3, <2>4, <2>5, <2>6, <2>7
<1>2. ASSUME NEW i \in Importers, MakeDir(i) PROVE ImportInv'
  <2>1. Shape'
    BY <1>2 DEF MakeDir, Goes, Ends, NoFault, Faulty, Making, AfterMkdir, AfterMkdirFails, Records, Shape, Places, Window, Contents
  <2>2. WindowNeedsLock'
    BY <1>2 DEF MakeDir, Goes, Ends, NoFault, Faulty, Making, AfterMkdir, AfterMkdirFails, Records, Shape, WindowNeedsLock, Window
  <2>3. Counters'
    BY <1>2 DEF MakeDir, Goes, Ends, NoFault, Faulty, Making, AfterMkdir, AfterMkdirFails, Records, Shape, Counters, Fresh, Publishing
  <2>7. RenameBound'
    BY <1>2 DEF MakeDir, Goes, Ends, NoFault, Faulty, Making, AfterMkdir, AfterMkdirFails, Records, Shape, RenameBound
  <2>4. CommittedNeverVanishes' /\ SnapshotsKeep'
    <3>1. CommittedNeverVanishes'
      <4>1. file' = file /\ committed' = committed
        BY <1>2 DEF MakeDir
      <4> QED BY <4>1 DEF CommittedNeverVanishes
    <3>2. SnapshotsKeep'
      <4>1. snap' = snap /\ committed' = committed
        BY <1>2 DEF MakeDir
      <4>2. \A j \in Importers : pc'[j] \in Publishing \cup {"restore"} => pc[j] \in Publishing \cup {"restore"}
        BY <1>2 DEF MakeDir, Goes, Making, AfterMkdir, AfterMkdirFails, Shape, Publishing
      <4> QED BY <4>1, <4>2 DEF SnapshotsKeep
    <3> QED BY <3>1, <3>2
  <2>5. NoRestoreFailed' => \A j \in Importers : Progress(j)'
    BY <1>2 DEF MakeDir, Goes, Ends, NoFault, Faulty, Making, AfterMkdir, AfterMkdirFails, Records, Shape, NoRestoreFailed, Progress, Replaced, Unpublished, Publishing, WindowNeedsLock, Window, Counters, Fresh
  <2>6. SettledIsCommitted'
    BY <1>2 DEF MakeDir, Goes, Ends, NoFault, Faulty, Making, AfterMkdir, AfterMkdirFails, Records, Shape, NoRestoreFailed, SettledIsCommitted, Settled, Progress, Unpublished, WindowNeedsLock, Window
  <2> QED BY <2>1, <2>2, <2>3, <2>4, <2>5, <2>6, <2>7
<1>3. ASSUME NEW i \in Importers, Acquire(i) PROVE ImportInv'
  <2>1. Shape'
    BY <1>3 DEF Acquire, Goes, Ends, NoFault, Faulty, Shape, Places, Window, Contents
  <2>2. WindowNeedsLock'
    BY <1>3 DEF Acquire, Goes, Ends, NoFault, Faulty, Shape, WindowNeedsLock, Window
  <2>3. Counters'
    BY <1>3 DEF Acquire, Goes, Ends, NoFault, Faulty, Shape, Counters, Fresh, Publishing
  <2>7. RenameBound'
    BY <1>3 DEF Acquire, Goes, Ends, NoFault, Faulty, Shape, RenameBound
  <2>4. CommittedNeverVanishes' /\ SnapshotsKeep'
    <3>1. CommittedNeverVanishes'
      BY <1>3 DEF Acquire, Goes, Ends, NoFault, Faulty, Shape, CommittedNeverVanishes, WindowNeedsLock, Window, Publishing
    <3>2. SnapshotsKeep'
      BY <1>3 DEF Acquire, Goes, Ends, NoFault, Faulty, Shape, SnapshotsKeep, WindowNeedsLock, Window, Publishing
    <3> QED BY <3>1, <3>2
  <2>5. NoRestoreFailed' => \A j \in Importers : Progress(j)'
    <3> SUFFICES ASSUME NoRestoreFailed', NEW j \in Importers PROVE Progress(j)'
      OBVIOUS
    <3>1. NoRestoreFailed
      BY <1>3 DEF Acquire, NoFault, Faulty, NoRestoreFailed
    <3>2. CASE lock = NoLock /\ lock' = i
      <4>1. \A l \in Importers : pc[l] \notin Window /\ lock # l
        BY <3>2 DEF WindowNeedsLock
      <4>2. file = committed
        BY <3>1, <4>1 DEF SettledIsCommitted, Settled, NoRestoreFailed
      <4>3. pc'[j] = IF j = i THEN "mkdir_scratch" ELSE pc[j]
        BY <1>3, <3>2 DEF Acquire, Goes, Shape
      <4> QED BY <1>3, <4>1, <4>2, <4>3 DEF Acquire, Progress, Unpublished, Publishing, Window
    <3>3. CASE lock' = lock /\ pc' = [pc EXCEPT ![i] = "rmdir_lock"]
      BY <1>3, <3>1, <3>3 DEF Acquire, Shape, Progress, Replaced, Unpublished, Publishing
    <3> QED BY <1>3, <3>2, <3>3 DEF Acquire, Goes
  <2>6. SettledIsCommitted'
    BY <1>3 DEF Acquire, Goes, Ends, NoFault, Faulty, Shape, NoRestoreFailed, SettledIsCommitted, Settled, Progress, Unpublished, WindowNeedsLock, Window
  <2> QED BY <2>1, <2>2, <2>3, <2>4, <2>5, <2>6, <2>7
<1>4. ASSUME NEW i \in Importers, Stage(i) PROVE ImportInv'
  <2>1. Shape'
    BY <1>4 DEF Stage, Goes, Ends, NoFault, Faulty, Shape, Places, Window, Contents
  <2>2. WindowNeedsLock'
    BY <1>4 DEF Stage, Goes, Ends, NoFault, Faulty, Shape, WindowNeedsLock, Window
  <2>3. Counters'
    BY <1>4 DEF Stage, Goes, Ends, NoFault, Faulty, Shape, Counters, Fresh, Publishing
  <2>7. RenameBound'
    BY <1>4 DEF Stage, Goes, Ends, NoFault, Faulty, Shape, RenameBound
  <2>4. CommittedNeverVanishes' /\ SnapshotsKeep'
    <3>1. CommittedNeverVanishes'
      BY <1>4 DEF Stage, Goes, Ends, NoFault, Faulty, Shape, CommittedNeverVanishes, WindowNeedsLock, Window, Publishing
    <3>2. SnapshotsKeep'
      BY <1>4 DEF Stage, Goes, Ends, NoFault, Faulty, Shape, SnapshotsKeep, WindowNeedsLock, Window, Publishing
    <3> QED BY <3>1, <3>2
  <2>5. NoRestoreFailed' => \A j \in Importers : Progress(j)'
    BY <1>4 DEF Stage, Goes, Ends, NoFault, Faulty, Shape, NoRestoreFailed, Progress, Replaced, Unpublished, Publishing, WindowNeedsLock, Window, Counters, Fresh
  <2>6. SettledIsCommitted'
    BY <1>4 DEF Stage, Goes, Ends, NoFault, Faulty, Shape, NoRestoreFailed, SettledIsCommitted, Settled, Progress, Unpublished, WindowNeedsLock, Window
  <2> QED BY <2>1, <2>2, <2>3, <2>4, <2>5, <2>6, <2>7
<1>5. ASSUME NEW i \in Importers, Prepare(i) PROVE ImportInv'
  <2>1. Shape'
    <3>1. /\ UNCHANGED <<file, committed, lock, published, restored>>
          /\ snap' = snap \/ snap' = [snap EXCEPT ![i] = file]
      BY <1>5 DEF Prepare
    <3>2. /\ pc' = [pc EXCEPT ![i] = "next"] \/ pc' = [pc EXCEPT ![i] = "cleanup"]
          /\ outcome' = outcome \/ outcome' = [outcome EXCEPT ![i] = "failed"]
      BY <1>5 DEF Prepare, Goes, Ends
    <3>3. snap' \in [Importers -> [Files -> Contents]]
      BY <3>1 DEF Shape
    <3>4. pc' \in [Importers -> Places]
      BY <3>2 DEF Shape, Places, Window
    <3>5. outcome' \in [Importers -> {"none", "refused", "failed", "imported"}]
      BY <3>2 DEF Shape
    <3> QED BY <3>1, <3>3, <3>4, <3>5 DEF Shape
  <2>2. WindowNeedsLock'
    BY <1>5 DEF Prepare, Goes, Ends, NoFault, Faulty, Shape, WindowNeedsLock, Window
  <2>3. Counters'
    BY <1>5 DEF Prepare, Goes, Ends, NoFault, Faulty, Shape, Counters, Fresh, Publishing
  <2>7. RenameBound'
    BY <1>5 DEF Prepare, Goes, Ends, NoFault, Faulty, Shape, RenameBound
  <2>4. CommittedNeverVanishes' /\ SnapshotsKeep'
    <3>1. CommittedNeverVanishes'
      BY <1>5 DEF Prepare, CommittedNeverVanishes
    <3>2. ASSUME NEW j \in Importers, pc'[j] \in Publishing \cup {"restore"}
          PROVE  snap'[j] = file /\ committed' = committed
      <4>1. j = i
        BY <1>5, <3>2, OthersOutside DEF Prepare, Goes, Shape, Publishing, Window
      <4> QED BY <1>5, <3>2, <4>1 DEF Prepare, Goes, Shape, Publishing
    <3> QED BY <3>1, <3>2 DEF SnapshotsKeep, CommittedNeverVanishes
  <2>5. NoRestoreFailed' => \A j \in Importers : Progress(j)'
    <3> SUFFICES ASSUME NoRestoreFailed', NEW j \in Importers PROVE Progress(j)'
      OBVIOUS
    <3>0. NoRestoreFailed
      BY <1>5 DEF Prepare, NoFault, Faulty, NoRestoreFailed
    <3>1. CASE j # i
      <4>1. pc[i] \in Window /\ pc[j] \notin Window /\ pc'[j] = pc[j]
        BY <1>5, <3>1, OthersOutside DEF Prepare, Goes, Shape, Window
      <4> QED BY <4>1 DEF Progress, Unpublished, Publishing, Window
    <3>2. CASE j = i
      <4>1. file = committed /\ published[i] = 0 /\ UNCHANGED <<file, committed, published>>
        BY <1>5, <3>0 DEF Prepare, Progress, Unpublished, Counters, Fresh
      <4>2. \/ pc'[i] = "next" /\ snap'[i] = file
            \/ pc'[i] = "cleanup"
        BY <1>5 DEF Prepare, Goes, Shape
      <4>3. Replaced(i, 0, 0)'
        BY <4>1 DEF Replaced
      <4> QED BY <3>2, <4>1, <4>2, <4>3 DEF Progress, Unpublished, Publishing
    <3> QED BY <3>1, <3>2
  <2>6. SettledIsCommitted'
    BY <1>5 DEF Prepare, Goes, Ends, NoFault, Faulty, Shape, NoRestoreFailed, SettledIsCommitted, Settled, Progress, Unpublished, WindowNeedsLock, Window
  <2> QED BY <2>1, <2>2, <2>3, <2>4, <2>5, <2>6, <2>7
<1>6. ASSUME NEW i \in Importers, NextFile(i) PROVE ImportInv'
  <2>1. Shape'
    BY <1>6 DEF NextFile, Goes, Ends, NoFault, Faulty, Shape, Places, Window, Contents
  <2>2. WindowNeedsLock'
    BY <1>6 DEF NextFile, Goes, Ends, NoFault, Faulty, Shape, WindowNeedsLock, Window
  <2>3. Counters'
    BY <1>6 DEF NextFile, Goes, Ends, NoFault, Faulty, Shape, Counters, Fresh, Publishing
  <2>7. RenameBound'
    BY <1>6 DEF NextFile, Goes, Ends, NoFault, Faulty, Shape, RenameBound
  <2>4. CommittedNeverVanishes' /\ SnapshotsKeep'
    <3>1. CASE published[i] < Len(Order)
      <4>1. UNCHANGED <<file, committed, snap>>
            /\ pc[i] = "next" /\ pc' = [pc EXCEPT ![i] = "mkdir_home"]
        BY <1>6, <3>1 DEF NextFile, Goes
      <4>2. CommittedNeverVanishes'
        BY <4>1 DEF CommittedNeverVanishes
      <4>3. \A j \in Importers : pc'[j] \in Publishing \cup {"restore"}
              => pc[j] \in Publishing \cup {"restore"}
        BY <4>1 DEF Publishing, Shape
      <4> QED BY <4>1, <4>2, <4>3 DEF SnapshotsKeep
    <3>2. CASE ~(published[i] < Len(Order))
      <4>1. CommittedNeverVanishes'
        BY <1>6, <3>2 DEF NextFile, CommittedNeverVanishes
      <4>2. \A j \in Importers : pc'[j] \notin Publishing \cup {"restore"}
        <5> TAKE j \in Importers
        <5>1. CASE j = i
          BY <1>6, <3>2, <5>1 DEF NextFile, Goes, Shape, Publishing
        <5>2. CASE j # i
          <6>1. pc[i] \in Window /\ pc'[j] = pc[j]
            BY <1>6, <3>2, <5>2 DEF NextFile, Goes, Shape, Window
          <6>2. pc[j] \notin Window
            BY <5>2, <6>1, OthersOutside
          <6> QED BY <6>1, <6>2 DEF Publishing, Window
        <5> QED BY <5>1, <5>2
      <4> QED BY <4>1, <4>2 DEF SnapshotsKeep
    <3> QED BY <3>1, <3>2
  <2>5. NoRestoreFailed' => \A j \in Importers : Progress(j)'
    <3> SUFFICES ASSUME NoRestoreFailed', NEW j \in Importers PROVE Progress(j)'
      OBVIOUS
    <3>0. NoRestoreFailed
      BY <1>6 DEF NextFile, NoFault, Faulty, NoRestoreFailed
    <3>1. CASE j # i
      <4>1. pc[i] \in Window /\ pc[j] \notin Window /\ pc'[j] = pc[j]
        BY <1>6, <3>1, OthersOutside DEF NextFile, Goes, Shape, Window
      <4> QED BY <4>1 DEF Progress, Unpublished, Publishing, Window
    <3>2. CASE j = i /\ published[i] < Len(Order)
      BY <1>6, <3>0, <3>2 DEF NextFile, Goes, Shape, Progress, Replaced, Unpublished, Publishing
    <3>3. CASE j = i /\ ~(published[i] < Len(Order))
      <4>1. pc'[j] = "cleanup" /\ file' = committed'
        BY <1>6, <3>3 DEF NextFile, Goes, Shape
      <4> QED BY <4>1 DEF Progress, Publishing
    <3> QED BY <3>1, <3>2, <3>3
  <2>6. SettledIsCommitted'
    BY <1>6 DEF NextFile, Goes, Ends, NoFault, Faulty, Shape, NoRestoreFailed, SettledIsCommitted, Settled, Progress, Unpublished, WindowNeedsLock, Window
  <2> QED BY <2>1, <2>2, <2>3, <2>4, <2>5, <2>6, <2>7
<1>7. ASSUME NEW i \in Importers, Rename(i) PROVE ImportInv'
  <2>1. Shape'
    <3>1. i \in Contents
      BY DEF Contents
    <3>2. published[i] < Len(Order)
      BY <1>7 DEF Rename, RenameBound
    <3>3. published[i] + 1 \in 1 .. Len(Order) /\ published[i] + 1 \in 0 .. Len(Order)
      BY <3>2 DEF Shape
    <3>4. file' \in [Files -> Contents]
      BY <1>7, <3>1, <3>3 DEF Rename, Shape
    <3>5. published' \in [Importers -> 0 .. Len(Order)]
      BY <1>7, <3>3 DEF Rename, Shape
    <3>6. pc' \in [Importers -> Places] /\ outcome' \in [Importers -> {"none", "refused", "failed", "imported"}]
      BY <1>7 DEF Rename, Goes, Ends, Shape, Places, Window
    <3> QED BY <1>7, <3>4, <3>5, <3>6 DEF Rename, Shape
  <2>2. WindowNeedsLock'
    BY <1>7 DEF Rename, Goes, Ends, NoFault, Faulty, Shape, WindowNeedsLock, Window
  <2>3. Counters'
    BY <1>7 DEF Rename, Goes, Ends, NoFault, Faulty, Shape, Counters, Fresh, Publishing
  <2>7. RenameBound'
    BY <1>7 DEF Rename, Goes, Ends, NoFault, Faulty, Shape, RenameBound
  <2>4. CommittedNeverVanishes' /\ SnapshotsKeep'
    <3>1. CommittedNeverVanishes'
      BY <1>7 DEF Rename, Goes, Ends, NoFault, Faulty, Shape, CommittedNeverVanishes, WindowNeedsLock, Window, Publishing
    <3>2. SnapshotsKeep'
      BY <1>7 DEF Rename, Goes, Ends, NoFault, Faulty, Shape, SnapshotsKeep, WindowNeedsLock, Window, Publishing
    <3> QED BY <3>1, <3>2
  <2>5. NoRestoreFailed' => \A j \in Importers : Progress(j)'
    <3> SUFFICES ASSUME NoRestoreFailed', NEW j \in Importers PROVE Progress(j)'
      OBVIOUS
    <3>0. NoRestoreFailed
      BY <1>7 DEF Rename, NoFault, Faulty, NoRestoreFailed
    <3>1. CASE j # i
      <4>1. pc[i] \in Window /\ pc[j] \notin Window /\ pc'[j] = pc[j]
        BY <1>7, <3>1, OthersOutside DEF Rename, Goes, Shape, Window
      <4> QED BY <4>1 DEF Progress, Unpublished, Publishing, Window
    <3>3. CASE j = i /\ file' = [file EXCEPT ![Order[published[i] + 1]] = i]
                     /\ published' = [published EXCEPT ![i] = @ + 1] /\ Goes(i, "next")
      <4>1. pc'[i] = "next" /\ published'[i] = published[i] + 1 /\ snap'[i] = committed'
            /\ Replaced(i, 0, published[i])
        BY <1>7, <3>0, <3>3 DEF Rename, Goes, Shape, Progress, Publishing
      <4>2. ASSUME NEW k \in 1 .. Len(Order)
            PROVE  file'[Order[k]] = IF 0 < k /\ k <= published[i] + 1 THEN i ELSE committed[Order[k]]
        <5>1. published[i] \in Nat /\ published[i] + 1 \in 1 .. Len(Order)
          BY <1>7 DEF Rename, RenameBound, Shape
        <5>2. CASE k = published[i] + 1
          BY <3>3, <5>1, <5>2 DEF Shape
        <5>3. CASE k # published[i] + 1
          <6>1. Order[k] # Order[published[i] + 1] /\ Order[k] \in Files
            BY <5>1, <5>3
          <6>2. file'[Order[k]] = file[Order[k]]
            BY <3>3, <6>1 DEF Shape
          <6> QED BY <4>1, <5>1, <5>3, <6>2 DEF Replaced
        <5> QED BY <5>2, <5>3
      <4>3. committed' = committed
        BY <1>7 DEF Rename
      <4> QED BY <3>3, <4>1, <4>2, <4>3 DEF Progress, Replaced, Unpublished, Publishing
    <3>2. CASE j = i /\ UNCHANGED file
      <4>1. restored[i] = 0 /\ snap[i] = committed /\ Replaced(i, 0, published[i])
        BY <1>7, <3>0 DEF Rename, Counters, Progress, Publishing
      <4>2. UNCHANGED <<snap, committed, restored>> /\ pc'[i] \in {"next", "restore"}
        BY <1>7 DEF Rename, Goes, Shape
      <4>3. CASE published'[i] = published[i]
        BY <3>2, <4>1, <4>2, <4>3 DEF Progress, Replaced, Unpublished, Publishing
      <4>4. CASE file' = [file EXCEPT ![Order[published[i] + 1]] = i]
                 /\ published' = [published EXCEPT ![i] = @ + 1] /\ Goes(i, "next")
        BY <3>2, <3>3, <4>4
      <4> QED BY <1>7, <4>3, <4>4 DEF Rename
    <3> QED BY <1>7, <3>1, <3>2, <3>3 DEF Rename
  <2>6. SettledIsCommitted'
    BY <1>7 DEF Rename, Goes, Ends, NoFault, Faulty, Shape, NoRestoreFailed, SettledIsCommitted, Settled, Progress, Unpublished, WindowNeedsLock, Window
  <2> QED BY <2>1, <2>2, <2>3, <2>4, <2>5, <2>6, <2>7
<1>8. ASSUME NEW i \in Importers, Restore(i) PROVE ImportInv'
  <2>1. Shape'
    <3>0. restored[i] < published[i] => restored[i] + 1 \in 0 .. Len(Order)
      BY DEF Shape
    <3>1. snap[i] \in [Files -> Contents]
      BY DEF Shape
    <3>2. CASE UNCHANGED file
      <4>1. restored' \in [Importers -> 0 .. Len(Order)]
        BY <1>8, <3>0 DEF Restore, Shape
      <4>2. pc' \in [Importers -> Places]
        BY <1>8 DEF Restore, Goes, Shape, Places, Window
      <4> QED BY <1>8, <3>2, <4>1, <4>2 DEF Restore, Shape
    <3>3. CASE file' = [file EXCEPT ![Order[restored[i] + 1]] = snap[i][Order[restored[i] + 1]]]
               /\ restored[i] < published[i]
      <4>1. restored[i] + 1 \in 1 .. Len(Order) /\ restored[i] + 1 \in 0 .. Len(Order)
        BY <3>3 DEF Shape
      <4>2. Order[restored[i] + 1] \in Files
        BY <4>1
      <4>3. file' \in [Files -> Contents]
        BY <3>1, <3>3, <4>2 DEF Shape
      <4>4. restored' \in [Importers -> 0 .. Len(Order)]
        BY <1>8, <3>0 DEF Restore, Shape
      <4>5. pc' \in [Importers -> Places]
        BY <1>8 DEF Restore, Goes, Shape, Places, Window
      <4> QED BY <1>8, <4>3, <4>4, <4>5 DEF Restore, Shape
    <3> QED BY <1>8, <3>2, <3>3 DEF Restore
  <2>2. WindowNeedsLock'
    BY <1>8 DEF Restore, Goes, Ends, NoFault, Faulty, Shape, WindowNeedsLock, Window
  <2>3. Counters'
    BY <1>8 DEF Restore, Goes, Ends, NoFault, Faulty, Shape, Counters, Fresh, Publishing
  <2>7. RenameBound'
    BY <1>8 DEF Restore, Goes, Ends, NoFault, Faulty, Shape, RenameBound
  <2>4. CommittedNeverVanishes' /\ SnapshotsKeep'
    <3>1. CommittedNeverVanishes'
      <4>1. committed' = committed /\ pc[i] = "restore"
        BY <1>8 DEF Restore
      <4>2. file' = file \/ \E g : file' = [file EXCEPT ![g] = snap[i][g]]
        BY <1>8 DEF Restore
      <4>3. \A g \in Files : committed[g] # Absent => snap[i][g] # Absent /\ file[g] # Absent
        BY <4>1 DEF SnapshotsKeep, CommittedNeverVanishes
      <4>4. file \in [Files -> Contents]
        BY DEF Shape
      <4> QED BY <4>1, <4>2, <4>3, <4>4 DEF CommittedNeverVanishes
    <3>2. SnapshotsKeep'
      BY <1>8 DEF Restore, Goes, Ends, NoFault, Faulty, Shape, SnapshotsKeep, WindowNeedsLock, Window, Publishing
    <3> QED BY <3>1, <3>2
  <2>5. NoRestoreFailed' => \A j \in Importers : Progress(j)'
    <3> SUFFICES ASSUME NoRestoreFailed', NEW j \in Importers PROVE Progress(j)'
      OBVIOUS
    <3>0. NoRestoreFailed
      BY <1>8 DEF Restore, NoFault, Faulty, NoRestoreFailed
    <3>1. CASE j # i
      <4>1. pc[i] \in Window /\ pc[j] \notin Window /\ pc'[j] = pc[j]
        BY <1>8, <3>1, OthersOutside DEF Restore, Goes, Shape, Window
      <4> QED BY <4>1 DEF Progress, Unpublished, Publishing, Window
    <3>2. CASE j = i /\ UNCHANGED file /\ restored[i] = published[i] /\ Goes(i, "cleanup")
      <4>1. Replaced(i, restored[i], published[i]) /\ pc'[i] = "cleanup"
        BY <1>8, <3>0, <3>2 DEF Restore, Goes, Shape, Progress
      <4>2. \A f \in Files : file[f] = committed[f]
        <5>1. ASSUME NEW f \in Files PROVE file[f] = committed[f]
          <6>1. PICK k \in 1 .. Len(Order) : f = Order[k]
            BY DEF Files, Range
          <6>2. restored[i] \in Nat /\ ~(restored[i] < k /\ k <= published[i])
            BY <3>2, <6>1 DEF Shape
          <6> QED BY <4>1, <6>1, <6>2 DEF Replaced
        <5> QED BY <5>1
      <4>3. file = committed
        BY <4>2 DEF Shape
      <4> QED BY <1>8, <3>2, <4>1, <4>3 DEF Restore, Progress, Publishing
    <3>3. CASE j = i /\ restored[i] < published[i] /\ UNCHANGED <<pc, faults>>
                     /\ file' = [file EXCEPT ![Order[restored[i] + 1]] = snap[i][Order[restored[i] + 1]]]
                     /\ restored' = [restored EXCEPT ![i] = @ + 1]
      <4>1. snap[i] = committed /\ Replaced(i, restored[i], published[i])
            /\ pc'[i] = "restore" /\ restored'[i] = restored[i] + 1
        BY <1>8, <3>0, <3>3 DEF Restore, Shape, Progress
      <4>2. ASSUME NEW k \in 1 .. Len(Order)
            PROVE  file'[Order[k]] = IF restored[i] + 1 < k /\ k <= published[i]
                                     THEN i ELSE committed[Order[k]]
        <5>1. /\ restored[i] \in Nat /\ published[i] \in Nat
              /\ restored[i] + 1 \in 1 .. Len(Order)
          BY <3>3 DEF Shape
        <5>2. CASE k = restored[i] + 1
          BY <3>3, <4>1, <5>1, <5>2 DEF Shape
        <5>3. CASE k # restored[i] + 1
          <6>1. Order[k] # Order[restored[i] + 1] /\ Order[k] \in Files
            BY <5>1, <5>3
          <6>2. file'[Order[k]] = file[Order[k]]
            BY <3>3, <6>1 DEF Shape
          <6> QED BY <4>1, <5>1, <5>3, <6>2 DEF Replaced
        <5> QED BY <5>2, <5>3
      <4>3. published' = published /\ snap' = snap /\ committed' = committed
        BY <1>8 DEF Restore
      <4> QED BY <3>3, <4>1, <4>2, <4>3 DEF Progress, Replaced, Unpublished, Publishing
    <3>4. CASE j = i /\ Faulty(i)
      <4>1. <<i, "restore">> \in faults'
        BY <1>8, <3>4 DEF Restore, Faulty
      <4>2. <<i, "restore">>[2] = "restore"
        OBVIOUS
      <4> QED BY <4>1, <4>2 DEF NoRestoreFailed
    <3> QED BY <1>8, <3>1, <3>2, <3>3, <3>4 DEF Restore, NoFault
  <2>6. SettledIsCommitted'
    BY <1>8 DEF Restore, Goes, Ends, NoFault, Faulty, Shape, NoRestoreFailed, SettledIsCommitted, Settled, Progress, Unpublished, WindowNeedsLock, Window
  <2> QED BY <2>1, <2>2, <2>3, <2>4, <2>5, <2>6, <2>7
<1>9. ASSUME NEW i \in Importers, Cleanup(i) PROVE ImportInv'
  <2>1. Shape'
    BY <1>9 DEF Cleanup, Goes, Ends, NoFault, Faulty, Shape, Places, Window, Contents
  <2>2. WindowNeedsLock'
    BY <1>9 DEF Cleanup, Goes, Ends, NoFault, Faulty, Shape, WindowNeedsLock, Window
  <2>3. Counters'
    BY <1>9 DEF Cleanup, Goes, Ends, NoFault, Faulty, Shape, Counters, Fresh, Publishing
  <2>7. RenameBound'
    BY <1>9 DEF Cleanup, Goes, Ends, NoFault, Faulty, Shape, RenameBound
  <2>4. CommittedNeverVanishes' /\ SnapshotsKeep'
    <3>1. CommittedNeverVanishes'
      BY <1>9 DEF Cleanup, Goes, Ends, NoFault, Faulty, Shape, CommittedNeverVanishes, WindowNeedsLock, Window, Publishing
    <3>2. SnapshotsKeep'
      BY <1>9 DEF Cleanup, Goes, Ends, NoFault, Faulty, Shape, SnapshotsKeep, WindowNeedsLock, Window, Publishing
    <3> QED BY <3>1, <3>2
  <2>5. NoRestoreFailed' => \A j \in Importers : Progress(j)'
    BY <1>9 DEF Cleanup, Goes, Ends, NoFault, Faulty, Shape, NoRestoreFailed, Progress, Replaced, Unpublished, Publishing, WindowNeedsLock, Window, Counters, Fresh
  <2>6. SettledIsCommitted'
    BY <1>9 DEF Cleanup, Goes, Ends, NoFault, Faulty, Shape, NoRestoreFailed, SettledIsCommitted, Settled, Progress, Unpublished, WindowNeedsLock, Window
  <2> QED BY <2>1, <2>2, <2>3, <2>4, <2>5, <2>6, <2>7
<1>10. ASSUME NEW i \in Importers, RemoveDirs(i) PROVE ImportInv'
  <2>1. Shape'
    BY <1>10 DEF RemoveDirs, Goes, Ends, NoFault, Faulty, RemovesDir, Shape, Places, Window, Contents
  <2>2. WindowNeedsLock'
    BY <1>10 DEF RemoveDirs, Goes, Ends, NoFault, Faulty, RemovesDir, Shape, WindowNeedsLock, Window
  <2>3. Counters'
    BY <1>10 DEF RemoveDirs, Goes, Ends, NoFault, Faulty, RemovesDir, Shape, Counters, Fresh, Publishing
  <2>7. RenameBound'
    BY <1>10 DEF RemoveDirs, Goes, Ends, NoFault, Faulty, RemovesDir, Shape, RenameBound
  <2>4. CommittedNeverVanishes' /\ SnapshotsKeep'
    <3>1. CommittedNeverVanishes'
      BY <1>10 DEF RemoveDirs, Goes, Ends, NoFault, Faulty, RemovesDir, Shape, CommittedNeverVanishes, WindowNeedsLock, Window, Publishing
    <3>2. SnapshotsKeep'
      BY <1>10 DEF RemoveDirs, Goes, Ends, NoFault, Faulty, RemovesDir, Shape, SnapshotsKeep, WindowNeedsLock, Window, Publishing
    <3> QED BY <3>1, <3>2
  <2>5. NoRestoreFailed' => \A j \in Importers : Progress(j)'
    <3> SUFFICES ASSUME NoRestoreFailed', NEW j \in Importers PROVE Progress(j)'
      OBVIOUS
    <3>0. NoRestoreFailed
      BY <1>10 DEF RemoveDirs, NoFault, Faulty, NoRestoreFailed
    <3>1. CASE j # i
      <4>1. pc[i] \in Window /\ pc[j] \notin Window /\ pc'[j] = pc[j]
        BY <1>10, <3>1, OthersOutside DEF RemoveDirs, Goes, Shape, Window
      <4> QED BY <4>1 DEF Progress, Unpublished, Publishing, Window
    <3>2. CASE j = i
      <4>1. CASE pc[i] = "rmdir"
        BY <1>10, <3>0, <3>2, <4>1 DEF RemoveDirs, Goes, Shape, Progress, Unpublished, Publishing
      <4>2. CASE pc[i] = "rmdir_early"
        <5>1. restored[i] = 0 /\ snap[i] = committed /\ Replaced(i, 0, published[i])
          BY <3>0, <4>2 DEF Progress, Counters, Publishing
        <5>2. UNCHANGED <<file, committed, snap, published, restored>>
              /\ pc'[i] \in {"rmdir_early", "restore"}
          BY <1>10, <4>2 DEF RemoveDirs, Goes, Shape
        <5> QED BY <3>2, <5>1, <5>2 DEF Progress, Replaced, Unpublished, Publishing
      <4> QED BY <1>10, <4>1, <4>2 DEF RemoveDirs
    <3> QED BY <3>1, <3>2
  <2>6. SettledIsCommitted'
    BY <1>10 DEF RemoveDirs, Goes, Ends, NoFault, Faulty, RemovesDir, Shape, NoRestoreFailed, SettledIsCommitted, Settled, Progress, Unpublished, WindowNeedsLock, Window
  <2> QED BY <2>1, <2>2, <2>3, <2>4, <2>5, <2>6, <2>7
<1>11. ASSUME NEW i \in Importers, Unlock(i) PROVE ImportInv'
  <2>1. Shape'
    BY <1>11 DEF Unlock, Goes, Ends, NoFault, Faulty, Shape, Places, Window, Contents
  <2>2. WindowNeedsLock'
    BY <1>11 DEF Unlock, Goes, Ends, NoFault, Faulty, Shape, WindowNeedsLock, Window
  <2>3. Counters'
    BY <1>11 DEF Unlock, Goes, Ends, NoFault, Faulty, Shape, Counters, Fresh, Publishing
  <2>7. RenameBound'
    BY <1>11 DEF Unlock, Goes, Ends, NoFault, Faulty, Shape, RenameBound
  <2>4. CommittedNeverVanishes' /\ SnapshotsKeep'
    <3>1. CommittedNeverVanishes'
      BY <1>11 DEF Unlock, Goes, Ends, NoFault, Faulty, Shape, CommittedNeverVanishes, WindowNeedsLock, Window, Publishing
    <3>2. SnapshotsKeep'
      BY <1>11 DEF Unlock, Goes, Ends, NoFault, Faulty, Shape, SnapshotsKeep, WindowNeedsLock, Window, Publishing
    <3> QED BY <3>1, <3>2
  <2>5. NoRestoreFailed' => \A j \in Importers : Progress(j)'
    BY <1>11 DEF Unlock, Goes, Ends, NoFault, Faulty, Shape, NoRestoreFailed, Progress, Replaced, Unpublished, Publishing, WindowNeedsLock, Window, Counters, Fresh
  <2>6. SettledIsCommitted'
    BY <1>11 DEF Unlock, Goes, Ends, NoFault, Faulty, Shape, NoRestoreFailed, SettledIsCommitted, Settled, Progress, Unpublished, WindowNeedsLock, Window
  <2> QED BY <2>1, <2>2, <2>3, <2>4, <2>5, <2>6, <2>7
<1>12. ASSUME NEW i \in Importers, RemoveLockDirs(i) PROVE ImportInv'
  <2>1. Shape'
    BY <1>12 DEF RemoveLockDirs, Goes, Ends, NoFault, Faulty, RemovesDir, Shape, Places, Window, Contents
  <2>2. WindowNeedsLock'
    BY <1>12 DEF RemoveLockDirs, Goes, Ends, NoFault, Faulty, RemovesDir, Shape, WindowNeedsLock, Window
  <2>3. Counters'
    BY <1>12 DEF RemoveLockDirs, Goes, Ends, NoFault, Faulty, RemovesDir, Shape, Counters, Fresh, Publishing
  <2>7. RenameBound'
    BY <1>12 DEF RemoveLockDirs, Goes, Ends, NoFault, Faulty, RemovesDir, Shape, RenameBound
  <2>4. CommittedNeverVanishes' /\ SnapshotsKeep'
    <3>1. CommittedNeverVanishes'
      BY <1>12 DEF RemoveLockDirs, Goes, Ends, NoFault, Faulty, RemovesDir, Shape, CommittedNeverVanishes, WindowNeedsLock, Window, Publishing
    <3>2. SnapshotsKeep'
      BY <1>12 DEF RemoveLockDirs, Goes, Ends, NoFault, Faulty, RemovesDir, Shape, SnapshotsKeep, WindowNeedsLock, Window, Publishing
    <3> QED BY <3>1, <3>2
  <2>5. NoRestoreFailed' => \A j \in Importers : Progress(j)'
    BY <1>12 DEF RemoveLockDirs, Goes, Ends, NoFault, Faulty, RemovesDir, Shape, NoRestoreFailed, Progress, Replaced, Unpublished, Publishing, WindowNeedsLock, Window, Counters, Fresh
  <2>6. SettledIsCommitted'
    BY <1>12 DEF RemoveLockDirs, Goes, Ends, NoFault, Faulty, RemovesDir, Shape, NoRestoreFailed, SettledIsCommitted, Settled, Progress, Unpublished, WindowNeedsLock, Window
  <2> QED BY <2>1, <2>2, <2>3, <2>4, <2>5, <2>6, <2>7
<1>13. ASSUME NEW i \in Importers, Die(i) PROVE ImportInv'
  <2>1. Shape'
    BY <1>13 DEF Die, Goes, Ends, NoFault, Faulty, Shape, Places, Window, Contents
  <2>2. WindowNeedsLock'
    BY <1>13 DEF Die, Goes, Ends, NoFault, Faulty, Shape, WindowNeedsLock, Window
  <2>3. Counters'
    BY <1>13 DEF Die, Goes, Ends, NoFault, Faulty, Shape, Counters, Fresh, Publishing
  <2>7. RenameBound'
    BY <1>13 DEF Die, Goes, Ends, NoFault, Faulty, Shape, RenameBound
  <2>4. CommittedNeverVanishes' /\ SnapshotsKeep'
    <3>1. CommittedNeverVanishes'
      BY <1>13 DEF Die, Goes, Ends, NoFault, Faulty, Shape, CommittedNeverVanishes, WindowNeedsLock, Window, Publishing
    <3>2. SnapshotsKeep'
      BY <1>13 DEF Die, Goes, Ends, NoFault, Faulty, Shape, SnapshotsKeep, WindowNeedsLock, Window, Publishing
    <3> QED BY <3>1, <3>2
  <2>5. NoRestoreFailed' => \A j \in Importers : Progress(j)'
    BY <1>13 DEF Die, Goes, Ends, NoFault, Faulty, Shape, NoRestoreFailed, Progress, Replaced, Unpublished, Publishing, WindowNeedsLock, Window, Counters, Fresh
  <2>6. SettledIsCommitted'
    BY <1>13 DEF Die, Goes, Ends, NoFault, Faulty, Shape, NoRestoreFailed, SettledIsCommitted, Settled, Progress, Unpublished, WindowNeedsLock, Window
  <2> QED BY <2>1, <2>2, <2>3, <2>4, <2>5, <2>6, <2>7
<1>14. CASE UNCHANGED vars
  BY <1>14 DEF vars, Shape, RenameBound, Counters, WindowNeedsLock, CommittedNeverVanishes, SnapshotsKeep,
     SettledIsCommitted, Settled, NoRestoreFailed, Progress, Replaced
<1> QED
  BY <1>1, <1>2, <1>3, <1>4, <1>5, <1>6, <1>7, <1>8, <1>9, <1>10, <1>11, <1>12, <1>13, <1>14 DEF Next, Step

LEMMA Invariance == Spec => []ImportInv
BY InitInv, NextInv, PTL DEF Spec

\* Importers are serialized: whoever captures, replaces or restores the tree
\* holds the lock (spec_import.rs 723-736), for any number of importers.
THEOREM MutualExclusion == Spec => []WindowNeedsLock
<1>1. ImportInv => WindowNeedsLock
  BY DEF ImportInv
<1> QED BY <1>1, Invariance, PTL

\* A failed import restores exactly what the last successful one left, and
\* undoes no success (spec_import.rs 5-8, 31-35).
THEOREM FailuresRestore == Spec => []SettledIsCommitted
<1>1. ImportInv => SettledIsCommitted
  BY DEF ImportInv
<1> QED BY <1>1, Invariance, PTL

\* No file of the committed specification is ever missing, whichever calls
\* fail and whenever a process dies (spec_import.rs 17-19).
THEOREM NothingVanishes == Spec => []CommittedNeverVanishes
<1>1. ImportInv => CommittedNeverVanishes
  BY DEF ImportInv
<1> QED BY <1>1, Invariance, PTL
-----------------------------------------------------------------------------
(* Directories *)

\* What importer i has recorded.
Recorded(i) == owned[i] \cup lockOwned[i]

OwnedInv ==
  /\ DOMAIN owned = Importers /\ DOMAIN lockOwned = Importers
  /\ OwnedOnce
  /\ \A i \in Importers : Recorded(i) \cap InitialDirs = {}

\* A directory that was not there is recorded by the importer that made it.
LEMMA DirectoryMade ==
  ASSUME OwnedInv, NEW i \in Importers, NEW d, d \notin dirs, dirs' = dirs \cup {d},
         \/ lockOwned' = [lockOwned EXCEPT ![i] = @ \cup {d}] /\ UNCHANGED owned
         \/ owned' = [owned EXCEPT ![i] = @ \cup {d}] /\ UNCHANGED lockOwned
  PROVE  OwnedInv'
<1>1. DOMAIN owned' = Importers /\ DOMAIN lockOwned' = Importers
  BY DEF OwnedInv
<1>2. \A j \in Importers : Recorded(j) \subseteq dirs /\ d \notin Recorded(j)
  BY DEF OwnedInv, OwnedOnce, Recorded
<1>3. Recorded(i)' = Recorded(i) \cup {d} /\ owned'[i] \cap lockOwned'[i] = {}
  BY <1>2 DEF OwnedInv, OwnedOnce, Recorded
<1>4. \A j \in Importers : j # i => owned'[j] = owned[j] /\ lockOwned'[j] = lockOwned[j]
  BY DEF OwnedInv
<1>5. d \notin InitialDirs /\ InitialDirs \subseteq dirs
  BY DEF OwnedInv, OwnedOnce
<1>6. ASSUME NEW j \in Importers
      PROVE  /\ Recorded(j)' \subseteq dirs' /\ Recorded(j)' \cap InitialDirs = {}
             /\ owned'[j] \cap lockOwned'[j] = {}
  <2>1. CASE j = i
    BY <2>1, <1>2, <1>3, <1>5 DEF OwnedInv
  <2>2. CASE j # i
    BY <2>2, <1>2, <1>4 DEF OwnedInv, OwnedOnce, Recorded
  <2> QED BY <2>1, <2>2
<1>7. ASSUME NEW j \in Importers, NEW k \in Importers, j # k
      PROVE  Recorded(j)' \cap Recorded(k)' = {}
  <2>1. Recorded(j) \cap Recorded(k) = {}
    BY <1>7 DEF OwnedInv, OwnedOnce, Recorded
  <2>2. \A l \in Importers : l # i => Recorded(l)' = Recorded(l)
    BY <1>4 DEF Recorded
  <2> QED BY <1>2, <1>3, <1>7, <2>1, <2>2
<1> QED BY <1>1, <1>5, <1>6, <1>7 DEF OwnedInv, OwnedOnce, Recorded

\* A directory that an importer recorded is removed, or is still there, and
\* forgotten.
LEMMA DirectoryForgotten ==
  ASSUME OwnedInv, NEW i \in Importers, NEW d \in Recorded(i), dirs \ {d} \subseteq dirs',
         \/ d \in lockOwned[i] /\ lockOwned' = [lockOwned EXCEPT ![i] = @ \ {d}] /\ UNCHANGED owned
         \/ d \in owned[i] /\ owned' = [owned EXCEPT ![i] = @ \ {d}] /\ UNCHANGED lockOwned
  PROVE  OwnedInv'
<1>1. DOMAIN owned' = Importers /\ DOMAIN lockOwned' = Importers
  BY DEF OwnedInv
<1>2. \A j \in Importers : owned'[j] \subseteq owned[j] /\ lockOwned'[j] \subseteq lockOwned[j]
  BY DEF OwnedInv
<1>3. d \notin Recorded(i)'
  BY DEF OwnedInv, OwnedOnce, Recorded
<1>4. \A j \in Importers : j # i => d \notin Recorded(j)
  BY DEF OwnedInv, OwnedOnce, Recorded
<1>5. InitialDirs \subseteq dirs'
  BY DEF OwnedInv, OwnedOnce
<1>6. \A j \in Importers : Recorded(j)' \subseteq Recorded(j) /\ d \notin Recorded(j)'
  BY <1>2, <1>3, <1>4 DEF Recorded
<1>7. \A j \in Importers : Recorded(j)' \subseteq dirs'
  BY <1>6 DEF OwnedInv, OwnedOnce, Recorded
<1>8. \A j, k \in Importers : j # k => Recorded(j)' \cap Recorded(k)' = {}
  BY <1>6 DEF OwnedInv, OwnedOnce, Recorded
<1>9. \A j \in Importers : owned'[j] \cap lockOwned'[j] = {} /\ Recorded(j)' \cap InitialDirs = {}
  BY <1>2, <1>6 DEF OwnedInv, OwnedOnce
<1> QED BY <1>1, <1>5, <1>7, <1>8, <1>9 DEF OwnedInv, OwnedOnce, Recorded

LEMMA OwnedInit == Init => OwnedInv
BY DEF Init, OwnedInv, OwnedOnce, Recorded

LEMMA OwnedNext == OwnedInv /\ [Next]_vars => OwnedInv'
<1> SUFFICES ASSUME OwnedInv, [Next]_vars PROVE OwnedInv'
  OBVIOUS
<1>1. CASE UNCHANGED <<dirs, owned, lockOwned>>
  BY <1>1 DEF OwnedInv, OwnedOnce, Recorded
<1>2. ASSUME NEW i \in Importers, MakeDir(i) PROVE OwnedInv'
  <2>1. CASE /\ Head(todo[i]) \notin dirs
             /\ dirs' = dirs \cup {Head(todo[i])}
             /\ Records(i, Head(todo[i]))
    BY <2>1, DirectoryMade DEF Records
  <2> QED BY <1>1, <1>2, <2>1 DEF MakeDir
<1>3. ASSUME NEW i \in Importers, RemoveDirs(i) PROVE OwnedInv'
  <2>1. CASE \E d \in Deepest(owned[i]) :
               /\ (RemovesDir(d) /\ NoFault) \/ (UNCHANGED dirs /\ Faulty(i))
               /\ owned' = [owned EXCEPT ![i] = @ \ {d}]
    <3>1. PICK d \in owned[i] : /\ RemovesDir(d) \/ UNCHANGED dirs
                                /\ owned' = [owned EXCEPT ![i] = @ \ {d}]
      BY <2>1 DEF Deepest
    <3>2. d \in Recorded(i) /\ dirs \ {d} \subseteq dirs'
      BY <3>1 DEF Recorded, RemovesDir
    <3>3. UNCHANGED lockOwned
      BY <1>3 DEF RemoveDirs
    <3> QED BY <3>1, <3>2, <3>3, DirectoryForgotten
  <2> QED BY <1>1, <1>3, <2>1 DEF RemoveDirs
<1>4. ASSUME NEW i \in Importers, RemoveLockDirs(i) PROVE OwnedInv'
  <2>1. CASE \E d \in Deepest(lockOwned[i]) :
               /\ (RemovesDir(d) /\ NoFault) \/ (UNCHANGED dirs /\ Faulty(i))
               /\ lockOwned' = [lockOwned EXCEPT ![i] = @ \ {d}]
    <3>1. PICK d \in lockOwned[i] : /\ RemovesDir(d) \/ UNCHANGED dirs
                                    /\ lockOwned' = [lockOwned EXCEPT ![i] = @ \ {d}]
      BY <2>1 DEF Deepest
    <3>2. d \in Recorded(i) /\ dirs \ {d} \subseteq dirs'
      BY <3>1 DEF Recorded, RemovesDir
    <3>3. UNCHANGED owned
      BY <1>4 DEF RemoveLockDirs
    <3> QED BY <3>1, <3>2, <3>3, DirectoryForgotten
  <2> QED BY <1>1, <1>4, <2>1 DEF RemoveLockDirs
<1>5. ASSUME NEW i \in Importers, Step(i) \/ Die(i), ~MakeDir(i), ~RemoveDirs(i), ~RemoveLockDirs(i)
      PROVE  UNCHANGED <<dirs, owned, lockOwned>>
  BY <1>5 DEF Step, Start, Acquire, Stage, Prepare, NextFile, Rename, Restore, Cleanup, Unlock, Die
<1> QED BY <1>1, <1>2, <1>3, <1>4, <1>5 DEF Next, vars, Step

\* An importer removes only directories it made itself, and no two importers
\* think of one as theirs (spec_import.rs 37-42, 804-810), for any tree and any
\* number of importers that race to make it.
THEOREM DirectoriesHaveOneOwner == Spec => []OwnedOnce
<1>1. OwnedInv => OwnedOnce
  BY DEF OwnedInv
<1> QED BY <1>1, OwnedInit, OwnedNext, PTL DEF Spec
-----------------------------------------------------------------------------
(* The locks *)

\* While the asset lock has still to be written, the schema lock fits; and
\* what a regeneration left passes the check.
CopyInv ==
  /\ DOMAIN repo = Paths
  /\ specPin \in SpecVersions
  /\ tool = "asset lock" => SchemaLockCheck(repo)
  /\ locked # <<>> => LockCheck(locked)

\* The locks and the schemas are different files.
LEMMA LocksAreNoSchemas ==
  /\ Lock \in Executable /\ AssetLockPath \in Paths \ Executable /\ Executable \subseteq Paths
  /\ \A l \in Languages, n \in Schemas :
       Schema(l, n) \in Executable /\ Schema(l, n) # Lock /\ Schema(l, n) # AssetLockPath
BY DEF Lock, AssetLockPath, Executable, Paths, Schema, Languages, ManifestPath, ProvenancePath,
       IndexPath, RulesSchemaPath, IdentityPath, ProfilePath, Methodology, ProductIndex,
       OtherIndex, Notes

\* The schema lock depends on the schemas alone.
LEMMA SchemasDecide ==
  ASSUME NEW f, NEW g,
         \A l \in Languages, n \in Schemas : f[Schema(l, n)] = g[Schema(l, n)]
  PROVE  Lockable(f) = Lockable(g) /\ SchemaLock(f) = SchemaLock(g)
<1>1. \A l \in Languages : NamesIn(f, l) = NamesIn(g, l) /\ NamesIn(f, l) \subseteq Schemas
  BY DEF NamesIn
<1>2. \A l \in Languages : Content(f, l) = Content(g, l) /\ Contract(f, l) = Contract(g, l)
  BY <1>1 DEF Content, Contract
<1>3. \A l \in Languages : SetIsValid(f, l) = SetIsValid(g, l)
  BY <1>1 DEF SetIsValid
<1>4. \A l \in Languages : RefsResolve(f, l) = RefsResolve(g, l)
  <2>1. ASSUME NEW l \in Languages, NEW n \in NamesIn(f, l) PROVE f[Schema(l, n)] = g[Schema(l, n)]
    BY <1>1
  <2> QED BY <1>1, <2>1 DEF RefsResolve
<1>5. {"schemas", "schemas_zh"} \subseteq Languages
  BY DEF Languages
<1> QED BY <1>2, <1>3, <1>4, <1>5 DEF Lockable, SchemaLock

LEMMA CopyInitInv == CopyInit => CopyInv
BY DEF CopyInit, CopyInv

LEMMA NextCopyInv == CopyInv /\ [CopyNext]_copyVars => CopyInv'
<1> SUFFICES ASSUME CopyInv, [CopyNext]_copyVars PROVE CopyInv'
  OBVIOUS
<1>1. ASSUME NEW p, Edit(p) PROVE CopyInv'
  BY <1>1 DEF Edit, Change, CopyInv
<1>2. CASE MoveSpecPin \/ MoveRulesPin
  BY <1>2 DEF MoveSpecPin, MoveRulesPin, Change, CopyInv
<1>3. CASE ImportSpec
  BY <1>3 DEF ImportSpec, CopyInv
<1>4. CASE WriteSchemaLock
  <2>1. Lockable(repo) /\ repo' = [repo EXCEPT ![Lock] = SchemaLock(repo)] /\ locked' = locked
    BY <1>4 DEF WriteSchemaLock
  <2>2. DOMAIN repo' = Paths /\ repo'[Lock] = SchemaLock(repo)
    BY <2>1, LocksAreNoSchemas DEF CopyInv
  <2>3. \A l \in Languages, n \in Schemas : repo'[Schema(l, n)] = repo[Schema(l, n)]
    BY <2>1, LocksAreNoSchemas DEF CopyInv
  <2>4. Lockable(repo') /\ SchemaLock(repo') = SchemaLock(repo)
    BY <2>1, <2>3, SchemasDecide
  <2>5. SchemaLockCheck(repo')
    BY <2>2, <2>4 DEF SchemaLockCheck
  <2> QED BY <1>4, <2>2, <2>5 DEF WriteSchemaLock, CopyInv
<1>5. CASE WriteAssetLock
  <2>1. CASE Classified(repo)
    <3>1. /\ repo' = [repo EXCEPT ![AssetLockPath] = AssetLock(repo)] /\ locked' = repo'
          /\ specPin' = specPin /\ tool' = "idle"
      BY <1>5, <2>1 DEF WriteAssetLock
    <3>2. DOMAIN repo' = Paths /\ repo'[AssetLockPath] = AssetLock(repo)
      BY <3>1, LocksAreNoSchemas DEF CopyInv
    <3>3. \A p \in Executable : repo'[p] = repo[p]
      BY <3>1, LocksAreNoSchemas DEF CopyInv
    <3>4. There(repo') \cap Executable = There(repo) \cap Executable
      BY <3>2, <3>3 DEF There, CopyInv
    <3>5. AssetLock(repo') = AssetLock(repo)
      BY <3>3, <3>4 DEF AssetLock
    <3>6. Classified(repo')
      BY <2>1, <3>3 DEF Classified, Executable
    <3>7. Lockable(repo) /\ repo[Lock] = SchemaLock(repo)
      BY <1>5 DEF WriteAssetLock, CopyInv, SchemaLockCheck
    <3>8. Lockable(repo') /\ SchemaLock(repo') = SchemaLock(repo)
      BY <3>3, <3>7, LocksAreNoSchemas, SchemasDecide
    <3>9. LockCheck(repo')
      BY <3>2, <3>3, <3>5, <3>6, <3>7, <3>8, LocksAreNoSchemas
      DEF LockCheck, SchemaLockCheck, AssetLockCheck
    <3> QED BY <3>1, <3>2, <3>9 DEF CopyInv
  <2> QED BY <1>5, <2>1 DEF WriteAssetLock, CopyInv
<1>6. CASE SyncIndex \/ SyncSchema \/ SyncIdentity
  BY <1>6 DEF SyncIndex, SyncSchema, SyncIdentity, CopyInv
<1>7. CASE Interrupted
  BY <1>7 DEF Interrupted, CopyInv
<1>8. CASE UNCHANGED copyVars
  BY <1>8 DEF copyVars, CopyInv
<1> QED BY <1>1, <1>2, <1>3, <1>4, <1>5, <1>6, <1>7, <1>8 DEF CopyNext

LEMMA CopyInvariance == CopySpec => []CopyInv
BY CopyInitInv, NextCopyInv, PTL DEF CopySpec

\* Locks just regenerated pass the check, whatever the files are and however
\* the tools were interrupted before (asset_lock.rs, write_lock): the second
\* lock is taken over a tree that has the first one in it.
THEOREM RegeneratedLocksPass == CopySpec => []FreshLocksPass
<1>1. CopyInv => FreshLocksPass
  <2> SUFFICES ASSUME CopyInv, repo = locked PROVE LockCheck(repo)
    BY DEF FreshLocksPass
  <2>1. AssetLockPath \in DOMAIN repo
    BY LocksAreNoSchemas DEF CopyInv
  <2>2. locked # <<>>
    BY <2>1
  <2> QED BY <2>2 DEF CopyInv
<1> QED BY <1>1, CopyInvariance, PTL
-----------------------------------------------------------------------------
(* What the checks bind *)

\* The digests in a schema lock tell which schemas there are.
LEMMA LockNames ==
  ASSUME NEW f, NEW g, SchemaLock(f) = SchemaLock(g), NEW l \in Languages
  PROVE  NamesIn(f, l) = NamesIn(g, l)
<1>1. Content(f, "schemas") = Content(g, "schemas") /\ Content(f, "schemas_zh") = Content(g, "schemas_zh")
  BY DEF SchemaLock
<1>2. Content(f, l) = Content(g, l)
  BY <1>1 DEF Languages
<1>3. DOMAIN Content(f, l) = NamesIn(f, l) /\ DOMAIN Content(g, l) = NamesIn(g, l)
  BY DEF Content
<1> QED BY <1>2, <1>3

\* The schemas of a candidate are those that the specification ships.
CandidateTree(v) ==
  [p \in Paths |-> IF p \in DOMAIN Candidate[v] THEN Candidate[v][p] ELSE NoFile]

LEMMA CandidateNames ==
  ASSUME NEW v \in SpecVersions, NEW l \in Languages
  PROVE  NamesIn(CandidateTree(v), l) = Pinned
<1>1. ASSUME NEW n \in Schemas
      PROVE  CandidateTree(v)[Schema(l, n)] # NoFile <=> n \in Pinned
  <2>1. Schema(l, n) \in Paths /\ Schema(l, n) \in Languages \X Schemas
    BY LocksAreNoSchemas DEF Schema
  <2>2. Schema(l, n) \in DOMAIN Candidate[v] <=> Schema(l, n) \in Languages \X Pinned
    BY <2>1, CopyAssumption
  <2>3. Schema(l, n) \in Languages \X Pinned <=> n \in Pinned
    BY DEF Schema
  <2>4. Schema(l, n) \in DOMAIN Candidate[v] => Candidate[v][Schema(l, n)] # NoFile
    BY CopyAssumption
  <2> QED BY <2>1, <2>2, <2>3, <2>4 DEF CandidateTree
<1> QED BY <1>1, CopyAssumption DEF NamesIn

LEMMA PinnedAreThere ==
  ASSUME CopyInv, SchemaLockCheck(repo), SpecCheck(repo, specPin), NEW l \in Languages
  PROVE  NamesIn(repo, l) = Pinned
<1>1. Lock \in DOMAIN PublicAssets(specPin)
      /\ PublicAssets(specPin)[Lock] = SchemaLock(CandidateTree(specPin))
  BY DEF PublicAssets, CandidateTree
<1>2. repo[Lock] = SchemaLock(repo) /\ repo[Lock] = SchemaLock(CandidateTree(specPin))
  BY <1>1 DEF SchemaLockCheck, SpecCheck
<1>3. NamesIn(repo, l) = NamesIn(CandidateTree(specPin), l)
  BY <1>2, LockNames
<1> QED BY <1>3, CandidateNames DEF CopyInv

\* A build has every executable file but the other validation indexes.
LEMMA LockIsBundle ==
  ASSUME CopyInv, AssetLockCheck(repo)
  PROVE  EmbeddedVerify(repo) <=> repo[OtherIndex] = NoFile
<1>1. OtherIndex \in Executable /\ OtherIndex \in DOMAIN repo
  BY LocksAreNoSchemas DEF Executable, CopyInv
<1>2. DOMAIN AssetLock(repo) = There(repo) \cap Executable
      /\ DOMAIN Bundled(repo) = (There(repo) \cap Executable) \ {OtherIndex}
  BY DEF AssetLock, Bundled
<1>3. CASE repo[OtherIndex] = NoFile
  <2>1. (There(repo) \cap Executable) \ {OtherIndex} = There(repo) \cap Executable
    BY <1>3 DEF There
  <2>2. AssetLock(repo) = Bundled(repo)
    BY <2>1 DEF AssetLock, Bundled
  <2> QED BY <1>3, <2>2 DEF AssetLockCheck, EmbeddedVerify
<1>4. CASE repo[OtherIndex] # NoFile
  <2>1. OtherIndex \in There(repo) \cap Executable
    BY <1>1, <1>4 DEF There
  <2>2. AssetLock(repo) # Bundled(repo)
    BY <1>2, <2>1
  <2> QED BY <1>4, <2>2 DEF AssetLockCheck, EmbeddedVerify
<1> QED BY <1>3, <1>4

\* What the runtime refuses of what the tool has composed.
LEMMA RuntimeDecides ==
  ASSUME RulesCheck(repo, rulesPin)
  PROVE  CatalogLoads(repo[IndexPath], repo[RulesSchemaPath], repo[IdentityPath],
                      repo[ProfilePath], repo[ProfilePath].fits) <=> ~LoadRefuses
<1>1. /\ repo[IdentityPath].index = repo[IndexPath]
      /\ repo[IdentityPath].schema = repo[RulesSchemaPath]
      /\ repo[IdentityPath].commit = rulesPin.commit
  BY DEF RulesCheck, RulesArePinned, ExpectedIdentity
<1>2. repo[ProfilePath].fits /\ ToolComposes(repo[IndexPath].rules, repo[ProfilePath])
  BY DEF RulesCheck
<1>3. SourceIdentified(repo[IdentityPath], repo[IndexPath], repo[RulesSchemaPath])
        <=> rulesPin.commit.wellFormed
  BY <1>1 DEF SourceIdentified
<1>4. NoId \notin Range(RulesetIds) <=> \A r \in Range(repo[ProfilePath].rulesets) : r.id # NoId
  BY DEF RulesetIds, Range
<1>5. RuntimeComposes(repo[IndexPath].rules, repo[ProfilePath]) <=> NoId \notin Range(RulesetIds)
  BY <1>2, <1>4 DEF ToolComposes, RuntimeComposes
<1> QED BY <1>2, <1>3, <1>5 DEF CatalogLoads, LoadRefuses, RulesetIds

LEMMA LookupFinds ==
  ASSUME NEW values, NEW id, id \in Ids(values)
  PROVE  Lookup(values, id) \in Range(values) /\ Lookup(values, id).id = id
BY DEF Lookup, Ids

\* What a ruleset lists is a rule of the catalog.
LEMMA RulesAreOrdered ==
  ASSUME NEW index, NEW profile, ToolComposes(index.rules, profile),
         NEW id \in Ids(profile.rulesets), NEW rule \in Range(RulesFor(index, profile, id))
  PROVE  rule.id \in Range(profile.order)
<1> DEFINE rules == Composed(index.rules, profile)
           wanted == Lookup(profile.rulesets, id).rules
<1>1. Range(wanted) \subseteq Range(profile.order)
  BY LookupFinds DEF ToolComposes, Ordered
<1>2. DOMAIN rules = DOMAIN profile.order /\ \A i \in DOMAIN rules : rules[i].id = profile.order[i]
  BY DEF Composed
<1>3. PICK i \in DOMAIN wanted : rule = Lookup(rules, wanted[i])
  BY DEF RulesFor, Range
<1>4. wanted[i] \in Range(profile.order)
  BY <1>1, <1>3 DEF Range
<1>5. wanted[i] \in Ids(rules)
  <2> HIDE DEF rules, wanted
  <2>1. PICK j \in DOMAIN profile.order : profile.order[j] = wanted[i]
    BY <1>4 DEF Range
  <2>2. rules[j] \in Range(rules) /\ rules[j].id = wanted[i]
    BY <1>2, <2>1 DEF Range
  <2> QED BY <2>2 DEF Ids
<1>6. Lookup(rules, wanted[i]).id = wanted[i]
  <2> HIDE DEF rules, wanted
  <2> QED BY <1>5, LookupFinds
<1> QED BY <1>3, <1>4, <1>6

\* The checks of continuous integration together bind what is built in, for
\* any specification, any rules and whatever was written in between
\* (asset_lock.rs, rust-ci.yml).
THEOREM ChecksBind == CopySpec => []ChecksBindTheBuild
<1>1. CopyInv => ChecksBindTheBuild
  <2> SUFFICES ASSUME CopyInv, ChecksPass PROVE ChecksBindTheBuild
    BY DEF ChecksBindTheBuild
  <2>1. /\ SchemaLockCheck(repo) /\ AssetLockCheck(repo)
        /\ RulesCheck(repo, rulesPin) /\ SpecCheck(repo, specPin)
    BY DEF ChecksPass, LockCheck
  <2>2. \A l \in Languages : NamesIn(repo, l) = Pinned
    BY <2>1, PinnedAreThere
  <2>3. \A p \in DOMAIN PublicAssets(specPin) : repo[p] = PublicAssets(specPin)[p]
    BY <2>1 DEF SpecCheck
  <2>4. EmbeddedVerify(repo) <=> repo[OtherIndex] = NoFile
    BY <2>1, LockIsBundle
  <2>5. CatalogLoads(repo[IndexPath], repo[RulesSchemaPath], repo[IdentityPath],
                     repo[ProfilePath], repo[ProfilePath].fits) <=> ~LoadRefuses
    BY <2>1, RuntimeDecides
  <2>6. MethodologyOk({MethodologyFile(repo[Methodology], repo[Schema("schemas", n)]) : n \in Pinned})
    <3>1. ASSUME NEW n \in Pinned PROVE repo[Schema("schemas", n)] # NoFile
      BY <2>2 DEF NamesIn, Languages
    <3>2. ASSUME NEW n \in Pinned
          PROVE  MethodologyFile(repo[Methodology], repo[Schema("schemas", n)]) # "error"
      BY <3>1 DEF MethodologyFile
    <3> QED BY <3>2 DEF MethodologyOk
  <2>7. ASSUME NEW id \in Range(RulesetIds),
               NEW rule \in Range(RulesFor(repo[IndexPath], repo[ProfilePath], id))
        PROVE  rule.id \in Range(repo[ProfilePath].order)
    <3>1. ToolComposes(repo[IndexPath].rules, repo[ProfilePath])
      BY <2>1 DEF RulesCheck
    <3>2. id \in Ids(repo[ProfilePath].rulesets)
      BY DEF RulesetIds, Range, Ids
    <3> QED BY <3>1, <3>2, RulesAreOrdered
  <2> QED BY <2>2, <2>3, <2>4, <2>5, <2>6, <2>7 DEF ChecksBindTheBuild
<1> QED BY <1>1, CopyInvariance, PTL
-----------------------------------------------------------------------------
(* The candidate *)

\* The paths of a package, in order.
LEMMA OrderedPaths ==
  ASSUME NEW S \in SUBSET DOMAIN Area
  PROVE  /\ IsList(InOrder(S))
         /\ {InOrder(S)[i] : i \in 1 .. Len(InOrder(S))} = S
<1> DEFINE q == PathOrder
           N == Len(q)
           Body(kept, x) == IF x \in S THEN Append(kept, x) ELSE kept
           Runs(f, k) == f = [n \in 0 .. k |-> IF n = 0 THEN <<>> ELSE Body(f[n - 1], q[n])]
           kept == CHOOSE f : Runs(f, N)
           Kept(r, n) == IsList(r) /\ {r[i] : i \in 1 .. Len(r)} = {q[i] : i \in 1 .. n} \cap S
<1>1. N \in Nat /\ DOMAIN q = 1 .. N
  BY CandidateAssumption, ListLength
<1>2. InOrder(S) = kept[N]
  BY DEF InOrder, Selected, ForEach
<1>3. {q[i] : i \in 1 .. N} = DOMAIN Area
  BY <1>1, CandidateAssumption DEF Range
<1> HIDE DEF q, N, Body, Runs, kept, Kept
<1>4. Runs(kept, N)
  <2> DEFINE T == {k \in 0 .. N : \E f : Runs(f, k)}
  <2>1. 0 \in T
    <3>1. Runs([n \in 0 .. 0 |-> <<>>], 0)
      BY DEF Runs
    <3> QED BY <3>1, <1>1
  <2>2. ASSUME NEW k \in 1 .. N, k - 1 \in T PROVE k \in T
    <3>1. PICK f : Runs(f, k - 1)
      BY <2>2
    <3> DEFINE h == [n \in 0 .. k |-> IF n = 0 THEN <<>> ELSE Body(f[n - 1], q[n])]
    <3>2. \A n \in 0 .. k - 1 : h[n] = f[n]
      BY <3>1, <1>1 DEF Runs
    <3> HIDE DEF h
    <3>3. \A n \in 0 .. k : n # 0 => h[n - 1] = f[n - 1]
      BY <3>2, <1>1
    <3>4. Runs(h, k)
      BY <3>3 DEF Runs, h
    <3> QED BY <3>4
  <2> HIDE DEF T
  <2>3. \A k \in 0 .. N : k \in T
    BY <2>1, <2>2, <1>1, Induction
  <2> QED BY <2>3, <1>1 DEF T, kept
<1>5. kept[0] = <<>> /\ \A k \in 1 .. N : kept[k] = Body(kept[k - 1], q[k])
  BY <1>1, <1>4 DEF Runs
<1> DEFINE T == {k \in 0 .. N : Kept(kept[k], k)}
<1>6. 0 \in T
  <2>1. IsList(<<>>) /\ Len(<<>>) = 0
    BY DEF IsList
  <2> QED BY <1>1, <1>5, <2>1 DEF Kept
<1>7. ASSUME NEW k \in 1 .. N, k - 1 \in T PROVE k \in T
  <2> DEFINE r == kept[k - 1]
  <2>1. Kept(r, k - 1) /\ kept[k] = Body(r, q[k]) /\ k \in 0 .. N
    BY <1>1, <1>5, <1>7
  <2> HIDE DEF r
  <2>2. {q[i] : i \in 1 .. k} = {q[i] : i \in 1 .. k - 1} \cup {q[k]}
    BY <1>1
  <2>3. CASE q[k] \in S
    <3> DEFINE a == Append(r, q[k])
    <3>1. kept[k] = a
      BY <2>1, <2>3 DEF Body
    <3>2. /\ IsList(a) /\ Len(r) \in Nat /\ Len(a) = Len(r) + 1
          /\ \A i \in 1 .. Len(r) : a[i] = r[i]
          /\ a[Len(r) + 1] = q[k]
      BY <2>1, ListAppended DEF Kept
    <3> HIDE DEF a
    <3>3. {a[i] : i \in 1 .. Len(a)} = {r[i] : i \in 1 .. Len(r)} \cup {q[k]}
      BY <3>2
    <3>4. {r[i] : i \in 1 .. Len(r)} = {q[i] : i \in 1 .. k - 1} \cap S
      BY <2>1 DEF Kept
    <3>5. {a[i] : i \in 1 .. Len(a)} = {q[i] : i \in 1 .. k} \cap S
      BY <2>2, <2>3, <3>3, <3>4, Zenon
    <3>6. Kept(a, k)
      BY <3>2, <3>5 DEF Kept
    <3> QED BY <2>1, <3>1, <3>6
  <2>4. CASE q[k] \notin S
    <3>1. kept[k] = r
      BY <2>1, <2>4 DEF Body
    <3>2. Kept(r, k)
      BY <2>1, <2>2, <2>4 DEF Kept
    <3> QED BY <2>1, <3>1, <3>2
  <2> QED BY <2>3, <2>4
<1> HIDE DEF T
<1>8. \A k \in 0 .. N : k \in T
  BY <1>1, <1>6, <1>7, Induction
<1>9. Kept(kept[N], N)
  BY <1>1, <1>8 DEF T
<1> QED BY <1>2, <1>3, <1>9 DEF Kept

\* The entries made of them.
LEMMA EntriesMade ==
  ASSUME NEW entry, DOMAIN entry \in SUBSET DOMAIN Area
  PROVE  Range(MapSeq(InOrder(DOMAIN entry), entry)) = {entry[p] : p \in DOMAIN entry}
<1> DEFINE q == InOrder(DOMAIN entry)
<1>1. DOMAIN q = 1 .. Len(q) /\ {q[i] : i \in 1 .. Len(q)} = DOMAIN entry
  BY OrderedPaths, ListLength
<1> HIDE DEF q
<1> QED BY <1>1 DEF MapSeq, Range, q

EmptyReader == [headers |-> 0, total |-> 0, files |-> <<>>]

IsFile(h) == h.kind = "file"

\* What a reader holds after the first k headers: each passed its checks, and
\* the files are those of the file headers, no two of which share a path.
ReadSoFar(H, k, got) ==
  /\ got = [headers |-> got.headers, total |-> got.total, files |-> got.files]
  /\ got.files = [p \in DOMAIN got.files |-> got.files[p]]
  /\ \A i \in 1 .. k :
       /\ H[i].raw = H[i].path /\ H[i].place = "package" /\ H[i].kind \in {"file", "dir"}
       /\ IsFile(H[i]) => /\ H[i].length = H[i].declared
                          /\ H[i].path \in DOMAIN got.files
                          /\ got.files[H[i].path] = H[i].bytes
  /\ \A i, j \in 1 .. k : IsFile(H[i]) /\ IsFile(H[j]) /\ H[i].path = H[j].path => i = j
  /\ \A p \in DOMAIN got.files : \E i \in 1 .. k : IsFile(H[i]) /\ H[i].path = p

\* One more header.
LEMMA HeaderRead ==
  ASSUME NEW H, NEW k \in Nat, k > 0, NEW got, ReadSoFar(H, k - 1, got), got # Refused,
         ReadHeader(got, H[k]) # Refused
  PROVE  ReadSoFar(H, k, ReadHeader(got, H[k]))
<1> DEFINE h == H[k]
           next == ReadHeader(got, h)
<1>1. Readable(got, h)
  BY DEF ReadHeader
<1>2. /\ h.raw = h.path /\ h.place = "package" /\ h.kind \in {"file", "dir"}
      /\ IsFile(h) => h.path \notin DOMAIN got.files /\ h.length = h.declared
  BY <1>1 DEF Readable, IsFile
<1>3. CASE h.kind = "dir"
  <2>1. next = [got EXCEPT !.headers = @ + 1]
    BY <1>1, <1>3 DEF ReadHeader
  <2>2. /\ next.files = got.files
        /\ next = [headers |-> next.headers, total |-> next.total, files |-> next.files]
    BY <2>1 DEF ReadSoFar
  <2>3. ~IsFile(h)
    BY <1>3 DEF IsFile
  <2> HIDE DEF next
  <2>4. ReadSoFar(H, k, next)
    BY <1>2, <2>2, <2>3 DEF ReadSoFar
  <2> QED BY <2>4 DEF next
<1>4. CASE h.kind = "file"
  <2> DEFINE more == [p \in DOMAIN got.files \cup {h.path} |->
                        IF p = h.path THEN h.bytes ELSE got.files[p]]
  <2>1. next = [headers |-> got.headers + 1, total |-> got.total + h.declared, files |-> more]
    BY <1>1, <1>4 DEF ReadHeader
  <2>2. next.files = more
    BY <2>1
  <2>3. next = [headers |-> next.headers, total |-> next.total, files |-> next.files]
    BY <2>1
  <2>4. IsFile(h) /\ h.path \notin DOMAIN got.files
    BY <1>2, <1>4 DEF IsFile
  <2>5. /\ more = [p \in DOMAIN more |-> more[p]]
        /\ DOMAIN more = DOMAIN got.files \cup {h.path}
        /\ more[h.path] = h.bytes
        /\ \A p \in DOMAIN got.files : more[p] = got.files[p]
    BY <2>4
  <2> HIDE DEF next, more
  <2>6. ASSUME NEW i \in 1 .. k
        PROVE  /\ H[i].raw = H[i].path /\ H[i].place = "package" /\ H[i].kind \in {"file", "dir"}
               /\ IsFile(H[i]) => /\ H[i].length = H[i].declared
                                  /\ H[i].path \in DOMAIN more
                                  /\ more[H[i].path] = H[i].bytes
    <3>1. CASE i = k
      BY <1>2, <2>4, <2>5, <3>1
    <3>2. CASE i # k
      <4>1. i \in 1 .. k - 1
        BY <3>2
      <4> QED BY <2>5, <4>1 DEF ReadSoFar
    <3> QED BY <3>1, <3>2
  <2>7. ASSUME NEW i \in 1 .. k, NEW j \in 1 .. k, IsFile(H[i]), IsFile(H[j]),
               H[i].path = H[j].path
        PROVE  i = j
    <3>1. CASE i # k /\ j # k
      <4>1. i \in 1 .. k - 1 /\ j \in 1 .. k - 1
        BY <3>1
      <4> QED BY <2>7, <4>1 DEF ReadSoFar
    <3>2. \A l \in 1 .. k - 1 : IsFile(H[l]) => H[l].path # h.path
      BY <2>4 DEF ReadSoFar
    <3> QED BY <2>7, <3>1, <3>2
  <2>8. ASSUME NEW p \in DOMAIN more PROVE \E i \in 1 .. k : IsFile(H[i]) /\ H[i].path = p
    <3>1. CASE p = h.path
      BY <2>4, <3>1
    <3>2. CASE p # h.path
      <4>1. PICK i \in 1 .. k - 1 : IsFile(H[i]) /\ H[i].path = p
        BY <2>5, <3>2 DEF ReadSoFar
      <4> QED BY <4>1
    <3> QED BY <3>1, <3>2
  <2>9. ReadSoFar(H, k, next)
    BY <2>2, <2>3, <2>5, <2>6, <2>7, <2>8 DEF ReadSoFar
  <2> QED BY <2>9 DEF next
<1> QED BY <1>2, <1>3, <1>4

\* All of them.
LEMMA HeadersRead ==
  ASSUME NEW H, IsList(H), ForEach(ReadHeader, EmptyReader, H) # Refused
  PROVE  ReadSoFar(H, Len(H), ForEach(ReadHeader, EmptyReader, H))
<1> DEFINE N == Len(H)
           Runs(f, k) == f = [n \in 0 .. k |-> IF n = 0 THEN EmptyReader ELSE ReadHeader(f[n - 1], H[n])]
           after == CHOOSE f : Runs(f, N)
<1>1. N \in Nat
  BY ListLength
<1>2. ForEach(ReadHeader, EmptyReader, H) = after[N]
  BY DEF ForEach
<1> HIDE DEF N, Runs, after
<1>3. Runs(after, N)
  <2> DEFINE T == {k \in 0 .. N : \E f : Runs(f, k)}
  <2>1. 0 \in T
    <3>1. Runs([n \in 0 .. 0 |-> EmptyReader], 0)
      BY DEF Runs
    <3> QED BY <3>1, <1>1
  <2>2. ASSUME NEW k \in 1 .. N, k - 1 \in T PROVE k \in T
    <3>1. PICK f : Runs(f, k - 1)
      BY <2>2
    <3> DEFINE h == [n \in 0 .. k |-> IF n = 0 THEN EmptyReader ELSE ReadHeader(f[n - 1], H[n])]
    <3>2. \A n \in 0 .. k - 1 : h[n] = f[n]
      BY <3>1, <1>1 DEF Runs
    <3> HIDE DEF h
    <3>3. \A n \in 0 .. k : n # 0 => h[n - 1] = f[n - 1]
      BY <3>2, <1>1
    <3>4. Runs(h, k)
      BY <3>3 DEF Runs, h
    <3> QED BY <3>4
  <2> HIDE DEF T
  <2>3. \A k \in 0 .. N : k \in T
    BY <2>1, <2>2, <1>1, Induction
  <2> QED BY <2>3, <1>1 DEF T, after
<1>4. after[0] = EmptyReader /\ \A k \in 1 .. N : after[k] = ReadHeader(after[k - 1], H[k])
  BY <1>1, <1>3 DEF Runs
<1> DEFINE T == {k \in 0 .. N : after[k] # Refused => ReadSoFar(H, k, after[k])}
<1>5. 0 \in T
  <2>1. ReadSoFar(H, 0, EmptyReader)
    BY DEF ReadSoFar, EmptyReader
  <2> QED BY <2>1, <1>1, <1>4
<1>6. ASSUME NEW k \in 1 .. N, k - 1 \in T PROVE k \in T
  <2>1. after[k] = ReadHeader(after[k - 1], H[k])
    BY <1>4
  <2>2. CASE after[k] # Refused
    <3>1. after[k - 1] # Refused
      BY <2>1, <2>2 DEF ReadHeader
    <3>2. ReadSoFar(H, k - 1, after[k - 1])
      BY <1>6, <3>1
    <3>3. ReadSoFar(H, k, after[k])
      BY <1>1, <2>1, <2>2, <3>1, <3>2, HeaderRead
    <3> QED BY <3>3
  <2> QED BY <2>2
<1> HIDE DEF T
<1>7. \A k \in 0 .. N : k \in T
  BY <1>1, <1>5, <1>6, Induction
<1>8. after[N] # Refused => ReadSoFar(H, N, after[N])
  BY <1>1, <1>7 DEF T
<1> QED BY <1>2, <1>8 DEF N

\* The headers of an archive packed plainly.
PlainHeaders(held, m) ==
  LET paths == InOrder(DOMAIN held)
  IN [i \in DOMAIN paths |-> Header(paths[i], held[paths[i]])] \o <<Header(Shipped, m)>>

\* They are whole files: those held, each once, and the manifest.
LEMMA PlainFiles ==
  ASSUME NEW held, DOMAIN held \in SUBSET DOMAIN Area, DOMAIN held # {}, NEW m
  PROVE  LET plain == PlainHeaders(held, m)
         IN /\ IsList(plain) /\ Len(plain) \in Nat /\ Len(plain) > 1
            /\ \A i \in 1 .. Len(plain) :
                 \/ plain[i] = Header(Shipped, m)
                 \/ \E p \in DOMAIN held : plain[i] = Header(p, held[p])
            /\ \E i \in 1 .. Len(plain) : plain[i] = Header(Shipped, m)
            /\ \A p \in DOMAIN held : \E i \in 1 .. Len(plain) : plain[i] = Header(p, held[p])
<1> DEFINE paths == InOrder(DOMAIN held)
           L == Len(paths)
           a == [i \in DOMAIN paths |-> Header(paths[i], held[paths[i]])]
           b == <<Header(Shipped, m)>>
           plain == a \o b
<1>1. /\ L \in Nat /\ DOMAIN paths = 1 .. L
      /\ {paths[i] : i \in 1 .. L} = DOMAIN held
  BY OrderedPaths, ListLength
<1> HIDE DEF paths, L
<1>2. IsList(a) /\ Len(a) = L
  BY <1>1, ListMade
<1>3. \A i \in 1 .. L : a[i] = Header(paths[i], held[paths[i]])
  BY <1>1
<1>4. IsList(b) /\ Len(b) = 1 /\ b[1] = Header(Shipped, m)
  BY ListOfOne
<1> HIDE DEF a, b
<1>5. /\ IsList(plain) /\ Len(plain) = L + 1
      /\ \A i \in 1 .. L : plain[i] = a[i]
      /\ plain[L + 1] = b[1]
  <2>1. /\ IsList(plain)
        /\ Len(a) \in Nat /\ Len(b) \in Nat /\ Len(plain) = Len(a) + Len(b)
        /\ \A i \in 1 .. Len(a) : plain[i] = a[i]
        /\ \A i \in 1 .. Len(b) : plain[Len(a) + i] = b[i]
    <3>1. IsList(a) /\ IsList(b)
      BY <1>2, <1>4
    <3> QED BY <3>1, ListJoined
  <2> HIDE DEF plain
  <2> QED BY <1>1, <1>2, <1>4, <2>1
<1>6. PlainHeaders(held, m) = plain
  BY DEF PlainHeaders, plain, a, b, paths
<1> HIDE DEF plain
<1>7. L > 0
  BY <1>1
<1>8. ASSUME NEW i \in 1 .. L + 1
      PROVE  \/ plain[i] = Header(Shipped, m)
             \/ \E p \in DOMAIN held : plain[i] = Header(p, held[p])
  <2>1. CASE i = L + 1
    BY <1>4, <1>5, <2>1
  <2>2. CASE i # L + 1
    <3>1. i \in 1 .. L
      BY <1>1, <2>2
    <3>2. plain[i] = Header(paths[i], held[paths[i]]) /\ paths[i] \in DOMAIN held
      BY <1>1, <1>3, <1>5, <3>1
    <3> QED BY <3>2
  <2> QED BY <2>1, <2>2
<1>9. ASSUME NEW p \in DOMAIN held
      PROVE  \E i \in 1 .. L + 1 : plain[i] = Header(p, held[p])
  <2>1. PICK i \in 1 .. L : paths[i] = p
    BY <1>1
  <2>2. plain[i] = Header(p, held[p]) /\ i \in 1 .. L + 1
    BY <1>1, <1>3, <1>5, <2>1
  <2> QED BY <2>2
<1>10. \E i \in 1 .. L + 1 : plain[i] = Header(Shipped, m)
  BY <1>1, <1>4, <1>5
<1> QED BY <1>1, <1>5, <1>6, <1>7, <1>8, <1>9, <1>10

\* Headers that carry the same files as others.
SameFiles(H, plain) ==
  /\ \A i \in 1 .. Len(H) : IsFile(H[i]) =>
       \E j \in 1 .. Len(plain) : H[i].path = plain[j].path /\ H[i].bytes = plain[j].bytes
  /\ \A j \in 1 .. Len(plain) : \E i \in 1 .. Len(H) :
       IsFile(H[i]) /\ H[i].path = plain[j].path /\ H[i].bytes = plain[j].bytes

\* Directories ahead of the files add none.
LEMMA DirectoriesAhead ==
  ASSUME NEW ahead, IsList(ahead), \A i \in 1 .. Len(ahead) : ahead[i].kind = "dir",
         NEW plain, IsList(plain), \A j \in 1 .. Len(plain) : IsFile(plain[j])
  PROVE  IsList(ahead \o plain) /\ SameFiles(ahead \o plain, plain)
<1> DEFINE H == ahead \o plain
<1>1. /\ IsList(H) /\ Len(ahead) \in Nat /\ Len(plain) \in Nat /\ Len(H) = Len(ahead) + Len(plain)
      /\ \A i \in 1 .. Len(ahead) : H[i] = ahead[i]
      /\ \A i \in 1 .. Len(plain) : H[Len(ahead) + i] = plain[i]
  BY ListJoined
<1> HIDE DEF H
<1>2. ASSUME NEW i \in 1 .. Len(H), IsFile(H[i])
      PROVE  \E j \in 1 .. Len(plain) : H[i] = plain[j]
  <2>1. i \notin 1 .. Len(ahead)
    BY <1>1, <1>2 DEF IsFile
  <2>2. i - Len(ahead) \in 1 .. Len(plain) /\ Len(ahead) + (i - Len(ahead)) = i
    BY <1>1, <2>1
  <2> QED BY <1>1, <2>2
<1>3. ASSUME NEW j \in 1 .. Len(plain)
      PROVE  \E i \in 1 .. Len(H) : IsFile(H[i]) /\ H[i] = plain[j]
  <2>1. Len(ahead) + j \in 1 .. Len(H)
    BY <1>1
  <2> QED BY <1>1, <2>1
<1>4. SameFiles(H, plain)
  BY <1>2, <1>3 DEF SameFiles
<1> QED BY <1>1, <1>4 DEF H

WholeFile(h) == h = Header(h.path, h.bytes)

ReadAs(held, m, how, got) ==
  LET H == Archive(held, m, how).headers IN ReadSoFar(H, Len(H), got)

\* The headers are a list however they are packed.
LEMMA PackedList ==
  ASSUME NEW held, NEW m, NEW how \in Packings,
         IsList(PlainHeaders(held, m)), Len(PlainHeaders(held, m)) \in Nat
  PROVE  IsList(Archive(held, m, how).headers)
<1> DEFINE plain == PlainHeaders(held, m)
           first == plain[1]
           H == Archive(held, m, how).headers
<1>1. \/ H = plain
      \/ \E e : H = Append(plain, e)
      \/ \E e : H = <<e>> \o plain
      \/ \E e : H = [i \in 1 .. MaxMembers |-> e] \o plain
      \/ H = [plain EXCEPT ![1].length = 0]
      \/ H = [plain EXCEPT ![1] = [first EXCEPT !.declared = MaxBytes, !.length = MaxBytes]]
  <2>1. CASE how \in {"link", "outside", "renamed", "twice"}
    BY <2>1 DEF Archive, PlainHeaders
  <2>2. CASE how = "directory"
    BY <2>2 DEF Archive, PlainHeaders
  <2>3. CASE how = "crowded"
    BY <2>3 DEF Archive, PlainHeaders
  <2>4. CASE how = "short"
    BY <2>4 DEF Archive, PlainHeaders
  <2>5. CASE how = "oversized"
    BY <2>5 DEF Archive, PlainHeaders
  <2>6. CASE how \in {"plain", "concatenated", "trailing"}
    BY <2>6 DEF Archive, PlainHeaders
  <2> QED BY <2>1, <2>2, <2>3, <2>4, <2>5, <2>6 DEF Packings
<1>2. IsList(plain) /\ Len(plain) \in Nat /\ DOMAIN plain = 1 .. Len(plain)
  BY ListLength
<1>3. MaxMembers \in Nat
  BY CandidateAssumption
<1> HIDE DEF plain, H
<1>4. ASSUME NEW e, H = Append(plain, e) PROVE IsList(H)
  BY <1>2, <1>4, ListAppended
<1>5. ASSUME NEW e, H = <<e>> \o plain PROVE IsList(H)
  <2>1. IsList(<<e>>)
    BY ListOfOne
  <2> QED BY <1>2, <1>5, <2>1, ListJoined
<1>6. ASSUME NEW e, H = [i \in 1 .. MaxMembers |-> e] \o plain PROVE IsList(H)
  <2> DEFINE ahead == [i \in 1 .. MaxMembers |-> e]
  <2>1. IsList(ahead)
    BY <1>3, ListMade
  <2> HIDE DEF ahead
  <2>2. H = ahead \o plain
    BY <1>6 DEF ahead
  <2> QED BY <1>2, <2>1, <2>2, ListJoined
<1>7. ASSUME NEW x, H = [plain EXCEPT ![1] = x] PROVE IsList(H)
  BY <1>2, <1>7, ListMade
<1> QED BY <1>1, <1>2, <1>4, <1>5, <1>6, <1>7 DEF H

\* However it is packed, an archive that can be read carries the plain files.
LEMMA PackedFiles ==
  ASSUME NEW plain, IsList(plain), Len(plain) \in Nat, Len(plain) > 1,
         \A i \in 1 .. Len(plain) : WholeFile(plain[i]),
         NEW held, NEW m, plain = PlainHeaders(held, m), NEW how \in Packings,
         NEW got, ReadAs(held, m, how, got)
  PROVE  SameFiles(Archive(held, m, how).headers, plain)
<1> DEFINE H == Archive(held, m, how).headers
           first == plain[1]
           last == Len(plain) + 1
<1>1. first = Header(first.path, first.bytes)
  BY DEF WholeFile
<1>2. ASSUME NEW i \in 1 .. Len(plain) PROVE IsFile(plain[i])
  <2>1. plain[i] = Header(plain[i].path, plain[i].bytes)
    BY DEF WholeFile
  <2> QED BY <2>1 DEF Header, IsFile
<1>3. H = CASE how = "directory" -> <<[first EXCEPT !.kind = "dir"]>> \o plain
            [] how = "link" -> Append(plain, [first EXCEPT !.kind = "link"])
            [] how = "outside" -> Append(plain, [first EXCEPT !.place = "elsewhere"])
            [] how = "renamed" -> Append(plain, [first EXCEPT !.raw = "not normalized"])
            [] how = "twice" -> Append(plain, [first EXCEPT !.bytes = Text("other", FALSE)])
            [] how = "short" -> [plain EXCEPT ![1].length = 0]
            [] how = "oversized" ->
                 [plain EXCEPT ![1] = [first EXCEPT !.declared = MaxBytes, !.length = MaxBytes]]
            [] how = "crowded" -> [i \in 1 .. MaxMembers |-> [first EXCEPT !.kind = "dir"]] \o plain
            [] OTHER -> plain
  BY DEF Archive, PlainHeaders
<1> HIDE DEF H
<1>4. ReadSoFar(H, Len(H), got)
  BY DEF H, ReadAs
<1>5. CASE how = "directory"
  <2> DEFINE ahead == <<[first EXCEPT !.kind = "dir"]>>
  <2>1. H = ahead \o plain
    BY <1>3, <1>5
  <2>2. IsList(ahead) /\ Len(ahead) = 1 /\ ahead[1].kind = "dir"
    <3>1. [first EXCEPT !.kind = "dir"].kind = "dir"
      BY <1>1 DEF Header
    <3> QED BY <3>1, ListOfOne
  <2> HIDE DEF ahead
  <2> QED BY <1>2, <2>1, <2>2, DirectoriesAhead DEF H
<1>6. CASE how = "crowded"
  <2> DEFINE ahead == [i \in 1 .. MaxMembers |-> [first EXCEPT !.kind = "dir"]]
  <2>1. H = ahead \o plain
    BY <1>3, <1>6
  <2>2. IsList(ahead) /\ \A i \in 1 .. Len(ahead) : ahead[i].kind = "dir"
    <3>1. MaxMembers \in Nat
      BY CandidateAssumption
    <3>2. IsList(ahead) /\ Len(ahead) = MaxMembers
      BY <3>1, ListMade
    <3>3. [first EXCEPT !.kind = "dir"].kind = "dir"
      BY <1>1 DEF Header, IsFile
    <3>4. \A i \in 1 .. MaxMembers : ahead[i].kind = "dir"
      BY <3>3
    <3> QED BY <3>2, <3>4
  <2> HIDE DEF ahead
  <2> QED BY <1>2, <2>1, <2>2, DirectoriesAhead DEF H
<1>7. CASE how \in {"link", "outside", "renamed", "twice"}
  <2>1. PICK e : /\ H = Append(plain, e)
                 /\ \/ e.kind = "link" \/ e.place = "elsewhere"
                    \/ IsFile(e) /\ e.path = first.path
    <3>1. CASE how = "link"
      BY <1>1, <1>3, <3>1 DEF Header, IsFile
    <3>2. CASE how = "outside"
      BY <1>1, <1>3, <3>2 DEF Header, IsFile
    <3>3. CASE how = "renamed"
      <4> DEFINE e == [first EXCEPT !.raw = "not normalized"]
      <4>1. H = Append(plain, e)
        BY <1>3, <3>3
      <4>2. e.kind = "file" /\ e.path = first.path
        BY <1>1 DEF Header
      <4> HIDE DEF e
      <4> QED BY <4>1, <4>2 DEF IsFile
    <3>4. CASE how = "twice"
      <4> DEFINE e == [first EXCEPT !.bytes = Text("other", FALSE)]
      <4>1. H = Append(plain, e)
        BY <1>3, <3>4
      <4>2. e.kind = "file" /\ e.path = first.path
        BY <1>1 DEF Header
      <4> HIDE DEF e
      <4> QED BY <4>1, <4>2 DEF IsFile
    <3> QED BY <1>7, <3>1, <3>2, <3>3, <3>4
  <2>2. /\ Len(H) = last /\ last \in 1 .. Len(H) /\ 1 \in 1 .. Len(H) /\ last # 1
        /\ H[last] = e /\ H[1] = first
    BY <2>1, ListAppended
  <2>3. IsFile(first)
    BY <1>1 DEF Header, IsFile
  <2>4. H[last].kind \in {"file", "dir"} /\ H[last].place = "package"
    BY <1>4, <2>2 DEF ReadSoFar
  <2>5. IsFile(e) /\ e.path = first.path
    BY <2>1, <2>2, <2>4
  <2> QED BY <1>4, <2>2, <2>3, <2>5 DEF ReadSoFar
<1>8. CASE how = "short"
  <2>1. H = [plain EXCEPT ![1].length = 0]
    BY <1>3, <1>8
  <2>2. DOMAIN plain = 1 .. Len(plain)
    BY ListLength
  <2>3. Len(H) = Len(plain)
    BY <2>1, <2>2, ListMade
  <2>4. H[1] = [first EXCEPT !.length = 0]
    BY <2>1, <2>2
  <2>5. IsFile(H[1]) /\ H[1].length = 0 /\ H[1].declared = 1
    BY <1>1, <2>4 DEF Header, IsFile
  <2> QED BY <1>4, <2>3, <2>5 DEF ReadSoFar
<1>9. CASE how = "oversized"
  <2> DEFINE huge == [first EXCEPT !.declared = MaxBytes, !.length = MaxBytes]
  <2>1. H = [plain EXCEPT ![1] = huge]
    BY <1>3, <1>9
  <2>2. DOMAIN plain = 1 .. Len(plain)
    BY ListLength
  <2>3. IsFile(huge) /\ huge.path = first.path /\ huge.bytes = first.bytes
    BY <1>1 DEF Header, IsFile
  <2> HIDE DEF huge
  <2>4. Len(H) = Len(plain)
    BY <2>1, <2>2, ListMade
  <2>5. \A i \in 1 .. Len(plain) : H[i] = IF i = 1 THEN huge ELSE plain[i]
    BY <2>1, <2>2
  <2>6. \A i \in 1 .. Len(plain) :
          IsFile(H[i]) /\ H[i].path = plain[i].path /\ H[i].bytes = plain[i].bytes
    BY <1>2, <2>3, <2>5
  <2> QED BY <2>4, <2>6 DEF SameFiles, H
<1>10. CASE how \in {"plain", "concatenated", "trailing"}
  <2>1. H = plain
    BY <1>3, <1>10
  <2> QED BY <1>2, <2>1 DEF SameFiles, H
<1> QED BY <1>5, <1>6, <1>7, <1>8, <1>9, <1>10 DEF Packings

\* What is read from an archive is what was packed, whatever the packing.
LEMMA ArchiveRead ==
  ASSUME NEW held, held = [p \in DOMAIN held |-> held[p]],
         DOMAIN held \in SUBSET DOMAIN Area, DOMAIN held # {}, NEW m,
         NEW how \in Packings, Members(Archive(held, m, how)) # Refused
  PROVE  LET members == Members(Archive(held, m, how))
         IN /\ Shipped \in DOMAIN members /\ members[Shipped] = m
            /\ DOMAIN members \ {Shipped} = DOMAIN held
            /\ Restrict(members, DOMAIN members \ {Shipped}) = held
<1> DEFINE H == Archive(held, m, how).headers
           got == ForEach(ReadHeader, EmptyReader, H)
           plain == PlainHeaders(held, m)
<1>1. got # Refused /\ Members(Archive(held, m, how)) = got.files
  BY DEF Members, EmptyReader
<1>2. /\ IsList(plain) /\ Len(plain) \in Nat /\ Len(plain) > 1
      /\ \A i \in 1 .. Len(plain) :
           \/ plain[i] = Header(Shipped, m)
           \/ \E p \in DOMAIN held : plain[i] = Header(p, held[p])
      /\ \E i \in 1 .. Len(plain) : plain[i] = Header(Shipped, m)
      /\ \A p \in DOMAIN held : \E i \in 1 .. Len(plain) : plain[i] = Header(p, held[p])
  BY PlainFiles
<1> HIDE DEF plain
<1>3. \A p, x : WholeFile(Header(p, x)) /\ Header(p, x).path = p /\ Header(p, x).bytes = x
  BY DEF WholeFile, Header
<1>4. \A i \in 1 .. Len(plain) : WholeFile(plain[i])
  BY <1>2, <1>3
<1>5. IsList(H)
  BY <1>2, <1>4, PackedList DEF plain
<1>6. ReadAs(held, m, how, got)
  BY <1>1, <1>5, HeadersRead DEF ReadAs
<1>7. SameFiles(H, plain)
  BY <1>2, <1>4, <1>6, PackedFiles DEF plain
<1> HIDE DEF got
<1>8. ReadSoFar(H, Len(H), got)
  BY <1>6 DEF ReadAs
<1> HIDE DEF H
<1> DEFINE held_ == got.files
<1>9. Shipped \notin DOMAIN held
  BY CandidateAssumption
<1>10. ASSUME NEW i \in 1 .. Len(plain)
       PROVE  plain[i].path \in DOMAIN held_ /\ held_[plain[i].path] = plain[i].bytes
  <2>1. PICK j \in 1 .. Len(H) :
          IsFile(H[j]) /\ H[j].path = plain[i].path /\ H[j].bytes = plain[i].bytes
    BY <1>7 DEF SameFiles
  <2>2. H[j].path \in DOMAIN held_ /\ held_[H[j].path] = H[j].bytes
    BY <1>8, <2>1 DEF ReadSoFar
  <2> QED BY <2>1, <2>2
<1>11. Shipped \in DOMAIN held_ /\ held_[Shipped] = m
  <2>1. PICK i \in 1 .. Len(plain) : plain[i] = Header(Shipped, m)
    BY <1>2
  <2>2. plain[i].path = Shipped /\ plain[i].bytes = m
    BY <1>3, <2>1
  <2> QED BY <1>10, <2>2
<1>12. ASSUME NEW p \in DOMAIN held PROVE p \in DOMAIN held_ /\ held_[p] = held[p]
  <2>1. PICK i \in 1 .. Len(plain) : plain[i] = Header(p, held[p])
    BY <1>2
  <2>2. plain[i].path = p /\ plain[i].bytes = held[p]
    BY <1>3, <2>1
  <2> QED BY <1>10, <2>2
<1>13. ASSUME NEW p \in DOMAIN held_ PROVE p = Shipped \/ p \in DOMAIN held
  <2>1. PICK i \in 1 .. Len(H) : IsFile(H[i]) /\ H[i].path = p
    BY <1>8 DEF ReadSoFar
  <2>2. PICK j \in 1 .. Len(plain) : H[i].path = plain[j].path
    BY <1>7, <2>1 DEF SameFiles
  <2>3. plain[j].path = Shipped \/ plain[j].path \in DOMAIN held
    BY <1>2, <1>3
  <2> QED BY <2>1, <2>2, <2>3
<1> HIDE DEF held_
<1>14. DOMAIN held_ \ {Shipped} = DOMAIN held
  BY <1>9, <1>12, <1>13
<1>15. Restrict(held_, DOMAIN held_ \ {Shipped}) = held
  BY <1>12, <1>14 DEF Restrict
<1> QED BY <1>1, <1>11, <1>14, <1>15 DEF held_, H

ImportedReviewed == Restrict(ReviewedAssets, ImportedAssets)

\* The package that was reviewed, the manifest aside.
ReviewedPackage ==
  [p \in DOMAIN ReviewedFiles |->
     CASE p = ImportPath -> ImportManifest(ReviewedSource, ImportedReviewed)
       [] p = BaselinePath -> Baseline(ReviewedSource, ImportedReviewed)
       [] OTHER -> ReviewedAssets[p]]

\* The package stays one of paths there are, with its two records; a record
\* that was not edited is the reviewed one; the pin names the reviewed source.
DriftInv ==
  /\ packing \in Packings
  /\ files = [p \in DOMAIN files |-> files[p]]
  /\ DOMAIN files \subseteq DOMAIN Area
  /\ {ImportPath, BaselinePath} \subseteq DOMAIN files
  /\ "manifest" \notin edited => manifest = ManifestOf(ReviewedSource, ReviewedPackage)
  /\ "import" \notin edited =>
       files[ImportPath] = ImportManifest(ReviewedSource, ImportedReviewed)
  /\ "baseline" \notin edited =>
       files[BaselinePath] = Baseline(ReviewedSource, ImportedReviewed)
  /\ {"commit", "repository"} \subseteq DOMAIN pin
  /\ pin.commit = ReviewedSource.commit /\ pin.repository = ReviewedSource.repository

\* The records of the package other than an edited one stay what they are.
PackageKept(but) ==
  /\ files' = [p \in DOMAIN files' |-> files'[p]]
  /\ DOMAIN files' \subseteq DOMAIN Area
  /\ {ImportPath, BaselinePath} \subseteq DOMAIN files'
  /\ "import" # but => files'[ImportPath] = files[ImportPath]
  /\ "baseline" # but => files'[BaselinePath] = files[BaselinePath]

LEMMA DriftInvariance == CandidateSpec => []DriftInv
<1>1. CandidateInit => DriftInv
  <2> SUFFICES ASSUME CandidateInit PROVE DriftInv
    OBVIOUS
  <2>1. files = ReviewedPackage /\ manifest = ManifestOf(ReviewedSource, files)
    BY DEF CandidateInit, ReviewedPackage, ImportedReviewed
  <2>2. /\ DOMAIN ReviewedFiles \subseteq DOMAIN Area /\ ImportPath # BaselinePath
        /\ {ImportPath, BaselinePath} \subseteq DOMAIN ReviewedFiles
    BY CandidateAssumption
  <2>3. /\ DOMAIN ReviewedPackage = DOMAIN ReviewedFiles
        /\ ReviewedPackage = [p \in DOMAIN ReviewedPackage |-> ReviewedPackage[p]]
        /\ ReviewedPackage[ImportPath] = ImportManifest(ReviewedSource, ImportedReviewed)
        /\ ReviewedPackage[BaselinePath] = Baseline(ReviewedSource, ImportedReviewed)
    BY <2>2 DEF ReviewedPackage
  <2>4. packing \in Packings
    BY DEF CandidateInit, Packings
  <2>5. /\ {"commit", "repository"} \subseteq DOMAIN pin
        /\ pin.commit = ReviewedSource.commit /\ pin.repository = ReviewedSource.repository
    BY DEF CandidateInit, QualifiedCandidate
  <2> QED BY <2>1, <2>2, <2>3, <2>4, <2>5 DEF DriftInv
<1>2. DriftInv /\ [CandidateNext]_candidateVars => DriftInv'
  <2> SUFFICES ASSUME DriftInv, [CandidateNext]_candidateVars PROVE DriftInv'
    OBVIOUS
  <2>0. /\ ImportPath # BaselinePath
        /\ \A p \in DOMAIN Renamed : Renamed[p] \in DOMAIN Area
        /\ \A p \in Touched : p # ImportPath /\ p # BaselinePath
    BY CandidateAssumption
  <2>1. ASSUME NEW p \in Touched, EditAsset(p) PROVE DriftInv'
    <3>1. PackageKept("asset")
      <4>1. CASE \E bytes : files' = [files EXCEPT ![p] = bytes]
        BY <2>0, <4>1 DEF PackageKept, DriftInv
      <4>2. CASE /\ p \in DOMAIN Renamed /\ Renamed[p] \notin DOMAIN files
                 /\ files' = [q \in (DOMAIN files \ {p}) \cup {Renamed[p]} |->
                                IF q = Renamed[p] THEN files[p] ELSE files[q]]
        BY <2>0, <4>2 DEF PackageKept, DriftInv
      <4> QED BY <2>1, <4>1, <4>2 DEF EditAsset
    <3>2. edited' = edited \cup {"asset"} /\ UNCHANGED <<manifest, packing, pin>>
      BY <2>1 DEF EditAsset, Editing
    <3> QED BY <3>1, <3>2 DEF PackageKept, DriftInv
  <2>2. CASE EditImport
    <3>1. PackageKept("import")
      <4>1. PICK x : files' = [files EXCEPT ![ImportPath] = x]
        BY <2>2 DEF EditImport
      <4> QED BY <2>0, <4>1 DEF PackageKept, DriftInv
    <3>2. edited' = edited \cup {"import"} /\ UNCHANGED <<manifest, packing, pin>>
      BY <2>2 DEF EditImport, Editing
    <3> QED BY <3>1, <3>2 DEF PackageKept, DriftInv
  <2>3. CASE EditBaseline
    <3>1. PackageKept("baseline")
      <4>1. PICK x : files' = [files EXCEPT ![BaselinePath] = x]
        BY <2>3 DEF EditBaseline
      <4> QED BY <2>0, <4>1 DEF PackageKept, DriftInv
    <3>2. edited' = edited \cup {"baseline"} /\ UNCHANGED <<manifest, packing, pin>>
      BY <2>3 DEF EditBaseline, Editing
    <3> QED BY <3>1, <3>2 DEF PackageKept, DriftInv
  <2>4. CASE EditManifest
    <3>1. edited' = edited \cup {"manifest"} /\ UNCHANGED <<files, packing, pin>>
      BY <2>4 DEF EditManifest, Editing
    <3> QED BY <3>1 DEF DriftInv
  <2>5. ASSUME NEW how \in Packings, Repack(how) PROVE DriftInv'
    <3>1. edited' = edited \cup {"packing"} /\ packing' = how /\ UNCHANGED <<files, manifest, pin>>
      BY <2>5 DEF Repack, Editing
    <3> QED BY <3>1 DEF DriftInv
  <2>6. CASE Repin
    <3>1. /\ pin' = [pin EXCEPT !.archive = Now, !.manifest = manifest]
          /\ edited' = edited \cup {"pin"} /\ UNCHANGED <<files, manifest, packing>>
      BY <2>6 DEF Repin
    <3>2. /\ DOMAIN pin' = DOMAIN pin
          /\ {"commit", "repository"} \subseteq DOMAIN pin' 
          /\ pin'.commit = pin.commit /\ pin'.repository = pin.repository
      BY <3>1 DEF DriftInv
    <3> QED BY <3>1, <3>2 DEF DriftInv
  <2>7. CASE UNCHANGED candidateVars
    BY <2>7 DEF candidateVars, DriftInv
  <2> QED BY <2>1, <2>2, <2>3, <2>4, <2>5, <2>6, <2>7 DEF CandidateNext
<1> QED BY <1>1, <1>2, PTL DEF CandidateSpec

\* The imported assets are what was reviewed.
NothingDrifted ==
  Restrict(files, ImportedPaths(manifest)) = Restrict(ReviewedAssets, ImportedAssets)

LEMMA ReviewedPaths ==
  /\ DOMAIN ReviewedPackage \in SUBSET DOMAIN Area
  /\ ImportedAssets \in SUBSET DOMAIN Area
  /\ DOMAIN ImportedReviewed = ImportedAssets
  /\ \A p \in ImportedAssets : /\ p \in DOMAIN ReviewedPackage
                               /\ ReviewedPackage[p] = ReviewedAssets[p]
                               /\ ImportedReviewed[p] = ReviewedAssets[p]
  /\ \A p \in DOMAIN ReviewedPackage : Origin(p) = "toolkit" <=> p \in ImportedAssets
<1>1. /\ DOMAIN ReviewedFiles \subseteq DOMAIN Area
      /\ {ImportPath, BaselinePath} \subseteq {p \in DOMAIN ReviewedFiles : ReviewedFiles[p] = "spec"}
  BY CandidateAssumption
<1>2. DOMAIN ReviewedPackage = DOMAIN ReviewedFiles
  BY DEF ReviewedPackage
<1>3. /\ ImportedAssets \subseteq DOMAIN ReviewedFiles
      /\ \A p \in DOMAIN ReviewedFiles :
           ReviewedFiles[p] = "toolkit" <=> p \in ImportedAssets
  BY <1>1 DEF ImportedAssets, Assets
<1>4. \A p \in ImportedAssets : p # ImportPath /\ p # BaselinePath
  BY <1>1, <1>3
<1>5. \A p \in ImportedAssets : ReviewedPackage[p] = ReviewedAssets[p]
  BY <1>3, <1>4 DEF ReviewedPackage
<1>6. /\ DOMAIN ImportedReviewed = ImportedAssets
      /\ \A p \in ImportedAssets : ImportedReviewed[p] = ReviewedAssets[p]
  BY DEF ImportedReviewed, Restrict
<1>7. \A p \in DOMAIN ReviewedFiles : Origin(p) = ReviewedFiles[p]
  BY DEF Origin
<1> QED BY <1>1, <1>2, <1>3, <1>5, <1>6, <1>7

\* The reviewed manifest binds the imported assets by their digests.
LEMMA ReviewedManifestBinds ==
  ASSUME manifest = ManifestOf(ReviewedSource, ReviewedPackage), MembersBound(manifest, files)
  PROVE  NothingDrifted /\ manifest.source = ReviewedSource
<1> DEFINE D == DOMAIN ReviewedPackage
           entry == [p \in D |-> Bound(p, ReviewedPackage[p])]
           F == Range(manifest.files)
<1>1. manifest.files = MapSeq(InOrder(D), entry) /\ manifest.source = ReviewedSource
  BY DEF ManifestOf
<1>2. F = {entry[p] : p \in D}
  BY <1>1, ReviewedPaths, EntriesMade
<1>3. ASSUME NEW p \in D
      PROVE  /\ entry[p] \in F /\ entry[p].path = p /\ entry[p].sha256 = ReviewedPackage[p]
             /\ entry[p].origin = "toolkit" <=> p \in ImportedAssets
  BY <1>2, ReviewedPaths DEF Bound
<1> HIDE DEF F, entry
<1>4. ImportedPaths(manifest) = ImportedAssets
  <2>1. ASSUME NEW p \in ImportedPaths(manifest) PROVE p \in ImportedAssets
    <3>1. PICK f \in F : f.origin = "toolkit" /\ f.path = p
      BY <2>1 DEF ImportedPaths, OfOrigin, F
    <3>2. PICK q \in D : f = entry[q]
      BY <1>2, <3>1
    <3> QED BY <1>3, <3>1, <3>2
  <2>2. ASSUME NEW p \in ImportedAssets PROVE p \in ImportedPaths(manifest)
    <3>1. p \in D
      BY ReviewedPaths
    <3>2. entry[p] \in F /\ entry[p].path = p /\ entry[p].origin = "toolkit"
      BY <1>3, <3>1
    <3> QED BY <3>2 DEF ImportedPaths, OfOrigin, F
  <2> QED BY <2>1, <2>2
<1>5. ASSUME NEW p \in ImportedAssets PROVE files[p] = ReviewedAssets[p]
  <2>1. p \in D /\ ReviewedPackage[p] = ReviewedAssets[p]
    BY ReviewedPaths
  <2>2. entry[p] \in F /\ entry[p].path = p /\ entry[p].sha256 = ReviewedAssets[p]
    BY <1>3, <2>1
  <2>3. files[entry[p].path] = entry[p].sha256
    BY <2>2 DEF MembersBound, F
  <2> QED BY <2>2, <2>3
<1> QED BY <1>1, <1>4, <1>5 DEF NothingDrifted, Restrict

\* The reviewed import manifest lists the imported assets with their digests.
LEMMA ReviewedImportBinds ==
  ASSUME NEW imp, imp = ImportManifest(ReviewedSource, ImportedReviewed), NEW base,
         RecordsAgree(manifest, imp, base, pin, Digests(files))
  PROVE  NothingDrifted /\ manifest.source = ReviewedSource
<1> DEFINE D == DOMAIN ImportedReviewed
           entry == [p \in D |-> [source |-> p, package |-> p, sha256 |-> ImportedReviewed[p]]]
           E == Range(imp.files)
<1>1. imp.files = MapSeq(InOrder(D), entry) /\ imp.source = ReviewedSource
  BY DEF ImportManifest
<1>2. E = {entry[p] : p \in D}
  BY <1>1, ReviewedPaths, EntriesMade
<1>3. \A p \in D : entry[p] \in E /\ entry[p].package = p /\ entry[p].sha256 = ImportedReviewed[p]
  BY <1>2
<1> HIDE DEF E, entry
<1>4. Listed(imp) = D
  BY <1>2, <1>3 DEF Listed, E
<1>5. /\ imp.source = manifest.source /\ Listed(imp) = ImportedPaths(manifest)
      /\ \A e \in E : Digests(files)[e.package] = e.sha256 /\ e.package \in DOMAIN Digests(files)
  BY DEF RecordsAgree, E
<1>6. \A p \in D : files[p] = ImportedReviewed[p]
  BY <1>3, <1>5 DEF Digests
<1>7. D = ImportedAssets /\ \A p \in ImportedAssets : ImportedReviewed[p] = ReviewedAssets[p]
  BY ReviewedPaths
<1> HIDE DEF D
<1> QED BY <1>1, <1>4, <1>5, <1>6, <1>7 DEF NothingDrifted, Restrict

\* The reviewed baseline holds the digests of the imported assets.
LEMMA ReviewedBaselineBinds ==
  ASSUME files = [p \in DOMAIN files |-> files[p]],
         NEW imp, NEW base, base = Baseline(ReviewedSource, ImportedReviewed),
         RecordsAgree(manifest, imp, base, pin, Digests(files)),
         NEW content, DigestsAgree(manifest, imp, base, Digests(files), content)
  PROVE  NothingDrifted /\ manifest.source.licence = ReviewedSource.licence
<1>1. base.packageFiles = ImportedReviewed /\ base.licence = ReviewedSource.licence
  BY DEF Baseline
<1>2. Listed(imp) = ImportedPaths(manifest) /\ base.licence = manifest.source.licence
  BY DEF RecordsAgree
<1>3. Restrict(Digests(files), ImportedPaths(manifest)) = ImportedReviewed
  BY <1>1, <1>2 DEF DigestsAgree
<1>4. Digests(files) = files
  BY DEF Digests
<1>5. Restrict(files, ImportedPaths(manifest)) = ImportedReviewed
  BY <1>3, <1>4
<1> QED BY <1>1, <1>2, <1>5 DEF NothingDrifted, ImportedReviewed

\* What is accepted is what was packed, and passed the checks.
LEMMA AcceptedIsValid ==
  ASSUME DriftInv, ReadCandidate(Now, pin) # Refused
  PROVE  /\ ReadCandidate(Now, pin) =
              [assets |-> Restrict(files, PublicPaths(manifest)), members |-> files]
         /\ ValidCandidate(pin, manifest, files)
<1> DEFINE members == Members(Now)
           bound == Restrict(members, DOMAIN members \ {Shipped})
<1>1. /\ members # Refused /\ ValidCandidate(pin, members[Shipped], bound)
      /\ ReadCandidate(Now, pin) =
           [assets |-> Restrict(bound, PublicPaths(members[Shipped])), members |-> bound]
  BY DEF ReadCandidate
<1>2. members[Shipped] = manifest /\ bound = files
  BY <1>1, ArchiveRead DEF Now, DriftInv
<1> QED BY <1>1, <1>2

\* spec_pin.rs: a candidate that drifted from the reviewed one is accepted only
\* if its manifest, its import manifest and its baseline were all edited, never
\* under another commit or repository, and what is read is what was packed.
THEOREM DriftTheorem == CandidateSpec => []DriftNeedsEveryRecord
<1>1. DriftInv => DriftNeedsEveryRecord
  <2> SUFFICES ASSUME DriftInv, ReadCandidate(Now, pin) # Refused
               PROVE  LET read == ReadCandidate(Now, pin)
                      IN /\ read.members = files
                         /\ DOMAIN read.assets = PublicPaths(manifest)
                         /\ manifest.source.commit = ReviewedSource.commit
                         /\ manifest.source.repository = ReviewedSource.repository
                         /\ \/ {"manifest", "import", "baseline"} \subseteq edited
                            \/ /\ NothingDrifted
                               /\ manifest.source.licence = ReviewedSource.licence
    BY DEF DriftNeedsEveryRecord, NothingDrifted
  <2>1. /\ ReadCandidate(Now, pin) =
             [assets |-> Restrict(files, PublicPaths(manifest)), members |-> files]
        /\ ValidCandidate(pin, manifest, files)
    BY AcceptedIsValid
  <2>2. DOMAIN Restrict(files, PublicPaths(manifest)) = PublicPaths(manifest)
    BY DEF Restrict
  <2>3. /\ manifest.source.commit = ReviewedSource.commit
        /\ manifest.source.repository = ReviewedSource.repository
    BY <2>1 DEF ValidCandidate, ManifestFits, DriftInv
  <2>4. /\ MembersBound(manifest, files)
        /\ RecordsAgree(manifest, files[ImportPath], files[BaselinePath], pin, Digests(files))
        /\ DigestsAgree(manifest, files[ImportPath], files[BaselinePath], Digests(files),
                        ContentDigests(files))
    BY <2>1 DEF ValidCandidate, SourceEvidence
  <2>5. CASE "manifest" \notin edited
    BY <2>1, <2>2, <2>3, <2>4, <2>5, ReviewedManifestBinds DEF DriftInv
  <2>6. CASE "import" \notin edited
    BY <2>1, <2>2, <2>3, <2>4, <2>6, ReviewedImportBinds DEF DriftInv
  <2>7. CASE "baseline" \notin edited
    BY <2>1, <2>2, <2>3, <2>4, <2>7, ReviewedBaselineBinds DEF DriftInv
  <2> QED BY <2>1, <2>2, <2>3, <2>5, <2>6, <2>7
<1> QED BY <1>1, DriftInvariance, PTL
=============================================================================
