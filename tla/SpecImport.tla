----------------------------- MODULE SpecImport -----------------------------
(***************************************************************************)
(* import_inner of crates/tidas-assets/src/spec_import.rs: importers of    *)
(* the public specification race for an exclusively created lock file,     *)
(* capture the prior state, rename every staged file over its destination, *)
(* and on any failure restore what they captured and remove the            *)
(* directories they created.  One action is one call on the file system,   *)
(* which the importers share; a call can fail and a process can die.       *)
(***************************************************************************)
EXTENDS Naturals, Sequences, SequencesExt, FiniteSets, FiniteSetsExt

CONSTANTS
  Importers,    \* runs of import_public_spec
  Dirs,         \* the directories involved
  SpecDir,      \* assets/spec, which holds the lock
  Scratch,      \* assets/spec/.staging
  Root,         \* the repository root, always there
  Parent,       \* [Dirs -> Dirs \cup {Root}]
  Order,        \* the destinations in the order they are published
  Home,         \* the directory of each destination
  InitialDirs,  \* the directories there before any import
  InitialFiles, \* the destinations there before any import
  Absent, Old,  \* no file; the bytes and mode of an initial file
  NoLock,
  MaxFaults,    \* bound: file-system calls that fail
  MaxDeaths     \* bound: importers that die

Files == Range(Order)

ASSUME ImportAssumption ==
  /\ Order \in Seq(Files) /\ IsInjective(Order)
  /\ Parent \in [Dirs -> Dirs \cup {Root}]
  /\ Home \in [Files -> Dirs]
  /\ {SpecDir, Scratch} \subseteq Dirs
  /\ Root \notin Dirs
  /\ Parent[Scratch] = SpecDir
  /\ InitialDirs \subseteq Dirs
  /\ InitialFiles \subseteq Files
  /\ \A f \in InitialFiles : Home[f] \in InitialDirs
  /\ \A d \in InitialDirs : Parent[d] \in InitialDirs \cup {Root}
  /\ NoLock \notin Importers
  /\ Absent # Old
  /\ Absent \notin Importers /\ Old \notin Importers
  /\ MaxFaults \in Nat /\ MaxDeaths \in Nat

VARIABLES
  file,       \* what each destination holds: Absent, Old or an importer's bytes
  dirs,       \* the directories that exist
  lock,       \* who created the lock file, or NoLock
  staging,    \* the importers whose staging directory exists
  pc,         \* where each importer is
  todo,       \* the missing directories it still has to make, topmost first
  lockOwned,  \* ImportLock.created
  owned,      \* publish's created
  snap,       \* the prior state it captured
  published,  \* destinations renamed so far
  restored,   \* destinations rolled back so far
  outcome,    \* how the import ends
  committed,  \* history: what the last import to succeed left, or the start
  faults      \* history: <<importer, pc>> of the calls that failed

vars == <<file, dirs, lock, staging, pc, todo, lockOwned, owned, snap,
          published, restored, outcome, committed, faults>>

InitialFile(f) == IF f \in InitialFiles THEN Old ELSE Absent

Init ==
  /\ file = [f \in Files |-> InitialFile(f)]
  /\ dirs = InitialDirs
  /\ lock = NoLock
  /\ staging = {}
  /\ pc = [i \in Importers |-> "start"]
  /\ todo = [i \in Importers |-> <<>>]
  /\ lockOwned = [i \in Importers |-> {}]
  /\ owned = [i \in Importers |-> {}]
  /\ snap = [i \in Importers |-> file]
  /\ published = [i \in Importers |-> 0]
  /\ restored = [i \in Importers |-> 0]
  /\ outcome = [i \in Importers |-> "none"]
  /\ committed = file
  /\ faults = {}

Depth[d \in Dirs] == IF Parent[d] = Root THEN 1 ELSE 1 + Depth[Parent[d]]

Ancestors[d \in Dirs] ==
  {d} \cup IF Parent[d] = Root THEN {} ELSE Ancestors[Parent[d]]

\* The scan of CreatedDirectories::create: the ancestors of d, itself included,
\* that do not exist, topmost first.
Missing(d) ==
  SetToSortSeq(Ancestors[d] \ dirs, LAMBDA a, b : Depth[a] < Depth[b])

IsEmpty(d) ==
  /\ \A c \in dirs : Parent[c] # d
  /\ \A f \in Files : Home[f] = d => file[f] = Absent
  /\ d = SpecDir => lock = NoLock
  /\ d = Scratch => staging = {}

Goes(i, to) == pc' = [pc EXCEPT ![i] = to]

Ends(i, how) == outcome' = [outcome EXCEPT ![i] = how]

\* The call importer i is about to make fails.
Faulty(i) ==
  /\ Cardinality(faults) < MaxFaults
  /\ faults' = faults \cup {<<i, pc[i]>>}

NoFault == UNCHANGED faults
\* The candidate and the destination paths are checked before anything is
\* written: the import is refused (or a dry run), or heads for the lock.
Start(i) ==
  /\ pc[i] = "start"
  /\ \/ Goes(i, "done") /\ Ends(i, "refused") /\ UNCHANGED todo
     \/ Goes(i, "mkdir_lock") /\ todo' = [todo EXCEPT ![i] = Missing(SpecDir)]
        /\ UNCHANGED outcome
  /\ UNCHANGED <<file, dirs, lock, staging, lockOwned, owned, snap, published,
                 restored, committed, faults>>

\* After each of the three uses of CreatedDirectories::create.
AfterMkdir(i) == CASE pc[i] = "mkdir_lock" -> "lock"
                   [] pc[i] = "mkdir_scratch" -> "stage"
                   [] pc[i] = "mkdir_home" -> "rename"

\* create's own error path removes what it recorded, before its caller does.
AfterMkdirFails(i) == CASE pc[i] = "mkdir_lock" -> "rmdir_lock"
                        [] pc[i] = "mkdir_scratch" -> "rmdir"
                        [] pc[i] = "mkdir_home" -> "rmdir_early"

Making == {"mkdir_lock", "mkdir_scratch", "mkdir_home"}

Records(i, d) ==
  IF pc[i] = "mkdir_lock"
  THEN lockOwned' = [lockOwned EXCEPT ![i] = @ \cup {d}] /\ UNCHANGED owned
  ELSE owned' = [owned EXCEPT ![i] = @ \cup {d}] /\ UNCHANGED lockOwned

\* Mutant: a directory that already exists is recorded as well.
MakeDirOwningAll(i) ==
  /\ pc[i] \in Making
  /\ \/ /\ todo[i] = <<>>
        /\ Goes(i, AfterMkdir(i))
        /\ UNCHANGED <<dirs, todo, lockOwned, owned, outcome, faults>>
     \/ /\ todo[i] # <<>>
        /\ Parent[Head(todo[i])] \in dirs \cup {Root}
        /\ dirs' = dirs \cup {Head(todo[i])}
        /\ Records(i, Head(todo[i]))
        /\ todo' = [todo EXCEPT ![i] = Tail(@)]
        /\ UNCHANGED <<pc, outcome, faults>>
     \/ /\ todo[i] # <<>>
        /\ \/ Parent[Head(todo[i])] \notin dirs \cup {Root} /\ NoFault
           \/ Faulty(i)
        /\ todo' = [todo EXCEPT ![i] = <<>>]
        /\ Goes(i, AfterMkdirFails(i)) /\ Ends(i, "failed")
        /\ UNCHANGED <<dirs, lockOwned, owned>>
  /\ UNCHANGED <<file, lock, staging, snap, published, restored, committed>>

\* CreatedDirectories::create, one mkdir at a time: a directory made is
\* recorded, one that is there by now is not, anything else is an error.
MakeDir(i) ==
  /\ pc[i] \in Making
  /\ \/ /\ todo[i] = <<>>
        /\ Goes(i, AfterMkdir(i))
        /\ UNCHANGED <<dirs, todo, lockOwned, owned, outcome, faults>>
     \/ /\ todo[i] # <<>>
        /\ Head(todo[i]) \in dirs
        /\ todo' = [todo EXCEPT ![i] = Tail(@)]
        /\ UNCHANGED <<dirs, pc, lockOwned, owned, outcome, faults>>
     \/ /\ todo[i] # <<>>
        /\ Head(todo[i]) \notin dirs
        /\ Parent[Head(todo[i])] \in dirs \cup {Root}
        /\ dirs' = dirs \cup {Head(todo[i])}
        /\ Records(i, Head(todo[i]))
        /\ todo' = [todo EXCEPT ![i] = Tail(@)]
        /\ UNCHANGED <<pc, outcome, faults>>
     \/ /\ todo[i] # <<>>
        /\ \/ /\ Head(todo[i]) \notin dirs
              /\ Parent[Head(todo[i])] \notin dirs \cup {Root}
              /\ NoFault
           \/ Faulty(i)
        /\ todo' = [todo EXCEPT ![i] = <<>>]
        /\ Goes(i, AfterMkdirFails(i)) /\ Ends(i, "failed")
        /\ UNCHANGED <<dirs, lockOwned, owned>>
  /\ UNCHANGED <<file, lock, staging, snap, published, restored, committed>>

\* Mutant: a lock that is already there is taken over.
AcquireStealing(i) ==
  /\ pc[i] = "lock"
  /\ IF SpecDir \in dirs
     THEN /\ lock' = i
          /\ Goes(i, "mkdir_scratch")
          /\ todo' = [todo EXCEPT ![i] = Missing(Scratch)]
          /\ UNCHANGED outcome
     ELSE Goes(i, "rmdir_lock") /\ Ends(i, "failed") /\ UNCHANGED <<lock, todo>>
  /\ UNCHANGED <<file, dirs, staging, lockOwned, owned, snap, published,
                 restored, committed, faults>>

\* ImportLock::acquire creates the lock file exclusively.
Acquire(i) ==
  /\ pc[i] = "lock"
  /\ \/ /\ SpecDir \in dirs /\ lock = NoLock
        /\ lock' = i
        /\ Goes(i, "mkdir_scratch")
        /\ todo' = [todo EXCEPT ![i] = Missing(Scratch)]
        /\ NoFault /\ UNCHANGED outcome
     \/ /\ \/ SpecDir \notin dirs /\ NoFault
           \/ lock # NoLock /\ NoFault
           \/ Faulty(i)
        /\ Goes(i, "rmdir_lock") /\ Ends(i, "failed")
        /\ UNCHANGED <<lock, todo>>
  /\ UNCHANGED <<file, dirs, staging, lockOwned, owned, snap, published,
                 restored, committed>>

\* OwnedStaging::create.  On failure publish returns without created.remove().
Stage(i) ==
  /\ pc[i] = "stage"
  /\ \/ /\ Scratch \in dirs
        /\ staging' = staging \cup {i}
        /\ Goes(i, "prepare")
        /\ NoFault /\ UNCHANGED outcome
     \/ /\ (Scratch \notin dirs /\ NoFault) \/ Faulty(i)
        /\ Goes(i, "unlock") /\ Ends(i, "failed")
        /\ UNCHANGED staging
  /\ UNCHANGED <<file, dirs, lock, todo, lockOwned, owned, snap, published,
                 restored, committed>>

\* prepare writes the staging tree, then captures every destination.
Prepare(i) ==
  /\ pc[i] = "prepare"
  /\ \/ /\ snap' = [snap EXCEPT ![i] = file]
        /\ Goes(i, "next")
        /\ NoFault /\ UNCHANGED outcome
     \/ /\ Faulty(i)
        /\ Goes(i, "cleanup") /\ Ends(i, "failed")
        /\ UNCHANGED snap
  /\ UNCHANGED <<file, dirs, lock, staging, todo, lockOwned, owned, published,
                 restored, committed>>

\* The head of publish_staged's loop: the directories of the next destination.
NextFile(i) ==
  /\ pc[i] = "next"
  /\ IF published[i] < Len(Order)
     THEN /\ Goes(i, "mkdir_home")
          /\ todo' = [todo EXCEPT ![i] = Missing(Home[Order[published[i] + 1]])]
          /\ UNCHANGED <<outcome, committed>>
     ELSE /\ Goes(i, "cleanup") /\ Ends(i, "imported")
          /\ committed' = file
          /\ UNCHANGED todo
  /\ UNCHANGED <<file, dirs, lock, staging, lockOwned, owned, snap, published,
                 restored, faults>>

\* The rename of one staged file over its destination.
Rename(i) ==
  /\ pc[i] = "rename"
  /\ LET f == Order[published[i] + 1] IN
     \/ /\ Home[f] \in dirs
        /\ file' = [file EXCEPT ![f] = i]
        /\ published' = [published EXCEPT ![i] = @ + 1]
        /\ Goes(i, "next")
        /\ NoFault /\ UNCHANGED outcome
     \/ /\ (Home[f] \notin dirs /\ NoFault) \/ Faulty(i)
        /\ Goes(i, "restore") /\ Ends(i, "failed")
        /\ UNCHANGED <<file, published>>
  /\ UNCHANGED <<dirs, lock, staging, todo, lockOwned, owned, snap, restored,
                 committed>>

\* Mutant: the restore of the last published file is skipped.
RestoreAllButLast(i) ==
  /\ pc[i] = "restore"
  /\ IF restored[i] + 1 < published[i]
     THEN /\ file' = [file EXCEPT ![Order[restored[i] + 1]] = snap[i][Order[restored[i] + 1]]]
          /\ restored' = [restored EXCEPT ![i] = @ + 1]
          /\ UNCHANGED pc
     ELSE Goes(i, "cleanup") /\ UNCHANGED <<file, restored>>
  /\ UNCHANGED <<dirs, lock, staging, todo, lockOwned, owned, snap, published,
                 outcome, committed, faults>>

\* Mutant: a destination is removed before it is written again.
RestoreByRemoving(i) ==
  /\ pc[i] = "restore"
  /\ \/ /\ restored[i] < published[i]
        /\ file' = [file EXCEPT ![Order[restored[i] + 1]] =
                      IF @ = i THEN Absent ELSE snap[i][Order[restored[i] + 1]]]
        /\ restored' = [restored EXCEPT ![i] =
                          IF file'[Order[@ + 1]] = snap[i][Order[@ + 1]] THEN @ + 1 ELSE @]
        /\ UNCHANGED pc
     \/ /\ restored[i] = published[i]
        /\ Goes(i, "cleanup") /\ UNCHANGED <<file, restored>>
  /\ UNCHANGED <<dirs, lock, staging, todo, lockOwned, owned, snap, published,
                 outcome, committed, faults>>

\* rollback: every destination already replaced gets its bytes back, or is
\* removed if it was absent; a failure is noted and the loop goes on.
Restore(i) ==
  /\ pc[i] = "restore"
  /\ \/ /\ restored[i] < published[i]
        /\ LET f == Order[restored[i] + 1] IN
           \/ file' = [file EXCEPT ![f] = snap[i][f]] /\ NoFault
           \/ UNCHANGED file /\ Faulty(i)
        /\ restored' = [restored EXCEPT ![i] = @ + 1]
        /\ UNCHANGED pc
     \/ /\ restored[i] = published[i]
        /\ Goes(i, "cleanup")
        /\ UNCHANGED <<file, restored, faults>>
  /\ UNCHANGED <<dirs, lock, staging, todo, lockOwned, owned, snap, published,
                 outcome, committed>>

\* OwnedStaging::cleanup ignores errors.  After a success the directories made
\* for the import stay.
Cleanup(i) ==
  /\ pc[i] = "cleanup"
  /\ \/ staging' = staging \ {i} /\ NoFault
     \/ UNCHANGED staging /\ Faulty(i)
  /\ Goes(i, IF outcome[i] = "imported" THEN "unlock" ELSE "rmdir")
  /\ UNCHANGED <<file, dirs, lock, todo, lockOwned, owned, snap, published,
                 restored, outcome, committed>>

\* remove_dir on d, which fails on a directory that is not empty.
RemovesDir(d) == dirs' = IF IsEmpty(d) THEN dirs \ {d} ELSE dirs

Deepest(S) == {d \in S : \A e \in S : Depth[e] <= Depth[d]}

\* CreatedDirectories::remove on publish's directories, deepest first.
RemoveDirs(i) ==
  /\ pc[i] \in {"rmdir", "rmdir_early"}
  /\ \/ \E d \in Deepest(owned[i]) :
          /\ (RemovesDir(d) /\ NoFault) \/ (UNCHANGED dirs /\ Faulty(i))
          /\ owned' = [owned EXCEPT ![i] = @ \ {d}]
          /\ UNCHANGED pc
     \/ /\ owned[i] = {}
        /\ Goes(i, IF pc[i] = "rmdir" THEN "unlock" ELSE "restore")
        /\ UNCHANGED <<dirs, owned, faults>>
  /\ UNCHANGED <<file, lock, staging, todo, lockOwned, snap, published,
                 restored, outcome, committed>>

\* Mutant: the lock is left behind by a failed import.
UnlockOnSuccess(i) ==
  /\ pc[i] = "unlock"
  /\ lock' = IF outcome[i] = "imported" THEN NoLock ELSE lock
  /\ Goes(i, "rmdir_lock")
  /\ UNCHANGED <<file, dirs, staging, todo, lockOwned, owned, snap, published,
                 restored, outcome, committed, faults>>

\* Drop for ImportLock, first half: the lock file, errors ignored.
Unlock(i) ==
  /\ pc[i] = "unlock"
  /\ \/ lock' = NoLock /\ NoFault
     \/ UNCHANGED lock /\ Faulty(i)
  /\ Goes(i, "rmdir_lock")
  /\ UNCHANGED <<file, dirs, staging, todo, lockOwned, owned, snap, published,
                 restored, outcome, committed>>

\* Second half, and the refused importer's created.remove().
RemoveLockDirs(i) ==
  /\ pc[i] = "rmdir_lock"
  /\ \/ \E d \in Deepest(lockOwned[i]) :
          /\ (RemovesDir(d) /\ NoFault) \/ (UNCHANGED dirs /\ Faulty(i))
          /\ lockOwned' = [lockOwned EXCEPT ![i] = @ \ {d}]
          /\ UNCHANGED pc
     \/ /\ lockOwned[i] = {}
        /\ Goes(i, "done")
        /\ UNCHANGED <<dirs, lockOwned, faults>>
  /\ UNCHANGED <<file, lock, staging, todo, owned, snap, published, restored,
                 outcome, committed>>

\* The process dies; nothing it wrote is undone.
Die(i) ==
  /\ pc[i] \notin {"done", "dead"}
  /\ Cardinality({j \in Importers : pc[j] = "dead"}) < MaxDeaths
  /\ Goes(i, "dead")
  /\ UNCHANGED <<file, dirs, lock, staging, todo, lockOwned, owned, snap,
                 published, restored, outcome, committed, faults>>

Step(i) == \/ Start(i) \/ MakeDir(i) \/ Acquire(i) \/ Stage(i) \/ Prepare(i)
           \/ NextFile(i) \/ Rename(i) \/ Restore(i) \/ Cleanup(i)
           \/ RemoveDirs(i) \/ Unlock(i) \/ RemoveLockDirs(i)

Finished == \A i \in Importers : pc[i] \in {"done", "dead"}

Next == \/ \E i \in Importers : Step(i) \/ Die(i)
        \/ Finished /\ UNCHANGED vars

Spec == Init /\ [][Next]_vars /\ \A i \in Importers : WF_vars(Step(i))
-----------------------------------------------------------------------------
(* Properties *)

Window == {"mkdir_scratch", "stage", "prepare", "next", "mkdir_home", "rename",
           "rmdir_early", "restore", "cleanup", "rmdir", "unlock"}

Places == Window \cup {"start", "mkdir_lock", "lock", "rmdir_lock", "done", "dead"}

Contents == Importers \cup {Absent, Old}

\* Whoever captures, replaces or restores holds the lock, so two importers
\* never do (spec_import.rs 19-22, 723-736).
WindowNeedsLock == \A i \in Importers : pc[i] \in Window => lock = i

\* Nobody is in the window, and nobody left it by dying or with a restore that
\* failed (the error then says so, spec_import.rs 948-956).
Settled ==
  /\ \A i \in Importers : pc[i] \notin Window
  /\ \A i \in Importers : pc[i] = "dead" => lock # i
  /\ \A x \in faults : x[2] # "restore"

\* Outside the window the destinations are exactly what the last successful
\* import published, or what was there before the first: a failed import
\* restores everything and undoes nobody's success (spec_import.rs 5-8, 31-35).
SettledIsCommitted == Settled => file = committed

\* A destination that is part of the committed specification never vanishes,
\* not during a rename or a rollback and not if the process dies there
\* (spec_import.rs 17-19, 897-903).
CommittedNeverVanishes ==
  \A f \in Files : committed[f] # Absent => file[f] # Absent

\* No directory that was there before survives only by luck: an importer
\* records, and so removes, only directories it made itself, whatever the
\* others make at the same time (spec_import.rs 37-42, 804-810).
OwnedOnce ==
  /\ InitialDirs \subseteq dirs
  /\ \A i, j \in Importers :
       /\ owned[i] \cup lockOwned[i] \subseteq dirs
       /\ owned[i] \cap lockOwned[i] = {}
       /\ i # j => (owned[i] \cup lockOwned[i]) \cap (owned[j] \cup lockOwned[j]) = {}

\* The lock comes free again unless its holder died or the removal itself
\* failed (spec_import.rs 788-795).
LockComesFree ==
  \A i \in Importers :
    (lock = i) ~> (lock # i \/ pc[i] = "dead" \/ <<i, "unlock">> \in faults)
=============================================================================
