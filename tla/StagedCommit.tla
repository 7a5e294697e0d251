---------------------------- MODULE StagedCommit ----------------------------
(***************************************************************************)
(* Publication of an output directory or archive through a sibling staging *)
(* path, as StagedDirectory::commit of tidas-conversion, tidas-import and  *)
(* tidas-release, publish_atomically of tidas-export and replace_file of   *)
(* the canonical store do it.  The five copies differ in two respects,     *)
(* which are the constants: what is published, and whether the backup is   *)
(* kept when the previous output cannot be put back.                       *)
(*                                                                         *)
(* Several runs of the toolkit may publish to the same target; each file   *)
(* system call is one step, may fail, and the process may die before any.  *)
(***************************************************************************)
EXTENDS Naturals

CONSTANTS
  Runs,        \* processes publishing to the one target
  Kind,        \* "directory", or "file": rename replaces an existing file only
  KeepBackup,  \* backup.keep() when the restore fails (release, export)
  MaxFaults,   \* bound: renames that fail with an I/O error
  Old,         \* the output of an earlier run
  None

ASSUME CommitAssumption ==
  /\ Kind \in {"directory", "file"}
  /\ KeepBackup \in BOOLEAN
  /\ MaxFaults \in Nat
  /\ Old \notin Runs
  /\ None \notin Runs \cup {Old}

\* What may be at a path: the earlier output, or what a run has staged.
Outputs == Runs \cup {Old}

VARIABLES
  target,     \* the content at the target path
  pc,         \* the next file system call of each run, or how it ended
  backup,     \* backup/previous of each run
  kept,       \* contents left in kept backup directories
  published,  \* history: contents that have been at the target
  destroyed,  \* history: <<content, run>> for each content a run deleted
  faults      \* I/O errors so far

commitVars == <<target, pc, backup, kept, published, destroyed, faults>>

CommitInit ==
  /\ target \in {None, Old}
  /\ pc = [r \in Runs |-> "build"]
  /\ backup = [r \in Runs |-> None]
  /\ kept = {}
  /\ published = {target} \ {None}
  /\ destroyed = {}
  /\ faults = 0

Ends(r, how) == pc' = [pc EXCEPT ![r] = how]

IoError == faults < MaxFaults /\ faults' = faults + 1

\* rename onto the target is possible: nothing there, or a file to replace.
Accepts == target = None \/ Kind = "file"

\* rename(staging or backup, target): the content that was there is gone.
RenameToTarget(r, content) ==
  /\ Accepts
  /\ target' = content
  /\ published' = published \cup {content}
  /\ destroyed' = destroyed \cup {<<c, r>> : c \in {target} \ {None}}

\* A rename onto the target fails.
RenameFails ==
  /\ \/ IoError
     \/ ~Accepts /\ UNCHANGED faults
  /\ UNCHANGED <<target, published>>

\* The run fails or is cancelled before commit; the staging directory goes.
Abandon(r) ==
  /\ pc[r] = "build"
  /\ Ends(r, "failed")
  /\ UNCHANGED <<target, backup, kept, published, destroyed, faults>>

\* commit: the target.exists() test.
Commit(r) ==
  /\ pc[r] = "build"
  /\ pc' = [pc EXCEPT ![r] = IF target = None THEN "fresh" ELSE "aside"]
  /\ UNCHANGED <<target, backup, kept, published, destroyed, faults>>

\* No target was seen: rename the staging path to it, or fail.
InstallFresh(r) ==
  /\ pc[r] = "fresh"
  /\ \/ RenameToTarget(r, r) /\ Ends(r, "done") /\ UNCHANGED faults
     \/ RenameFails /\ Ends(r, "failed") /\ UNCHANGED destroyed
  /\ UNCHANGED <<backup, kept>>

\* A target was seen: rename it into a new backup directory.
MoveAside(r) ==
  /\ pc[r] = "aside"
  /\ \/ /\ target # None
        /\ backup' = [backup EXCEPT ![r] = target]
        /\ target' = None
        /\ Ends(r, "install")
        /\ UNCHANGED faults
     \/ /\ IoError \/ (target = None /\ UNCHANGED faults)
        /\ Ends(r, "failed")
        /\ UNCHANGED <<target, backup>>
  /\ UNCHANGED <<kept, published, destroyed>>

\* Mutant: a failed installation is reported without putting the backup back.
InstallWithoutRestore(r) ==
  /\ pc[r] = "install"
  /\ \/ /\ RenameToTarget(r, r)
        /\ backup' = [backup EXCEPT ![r] = None]
        /\ Ends(r, "done")
        /\ UNCHANGED faults
     \/ /\ RenameFails
        /\ Ends(r, "failed")
        /\ UNCHANGED <<backup, destroyed>>
  /\ UNCHANGED kept

\* Rename the staging path to the target; on success the backup is deleted
\* with what it holds.
Install(r) ==
  /\ pc[r] = "install"
  /\ \/ /\ Accepts
        /\ target' = r
        /\ published' = published \cup {r}
        /\ destroyed' = destroyed \cup {<<c, r>> : c \in {target, backup[r]} \ {None}}
        /\ backup' = [backup EXCEPT ![r] = None]
        /\ Ends(r, "done")
        /\ UNCHANGED faults
     \/ /\ RenameFails
        /\ Ends(r, "restore")
        /\ UNCHANGED <<backup, destroyed>>
  /\ UNCHANGED kept

\* Mutant: the backup directory is deleted even when it could not be put back.
RestoreDropsBackup(r) ==
  /\ pc[r] = "restore"
  /\ backup' = [backup EXCEPT ![r] = None]
  /\ \/ RenameToTarget(r, backup[r]) /\ Ends(r, "failed") /\ UNCHANGED faults
     \/ /\ RenameFails
        /\ Ends(r, "rollback_failed")
        /\ destroyed' = destroyed \cup {<<backup[r], r>>}
  /\ UNCHANGED kept

\* The installation failed: rename the backup to the target again.  If that
\* fails too the run ends with CommitRollback, and the backup directory is
\* kept or deleted.
Restore(r) ==
  /\ pc[r] = "restore"
  /\ backup' = [backup EXCEPT ![r] = None]
  /\ \/ /\ RenameToTarget(r, backup[r])
        /\ Ends(r, "failed")
        /\ UNCHANGED <<kept, faults>>
     \/ /\ RenameFails
        /\ Ends(r, "rollback_failed")
        /\ IF KeepBackup
           THEN kept' = kept \cup {backup[r]} /\ UNCHANGED destroyed
           ELSE destroyed' = destroyed \cup {<<backup[r], r>>} /\ UNCHANGED kept

Running == {"build", "fresh", "aside", "install", "restore"}

\* The process dies; whatever is on disk stays there.
Crash(r) ==
  /\ pc[r] \in Running
  /\ Ends(r, "crashed")
  /\ UNCHANGED <<target, backup, kept, published, destroyed, faults>>

AllOver == \A r \in Runs : pc[r] \notin Running

CommitNext ==
  \/ \E r \in Runs : \/ Abandon(r) \/ Commit(r) \/ InstallFresh(r)
                     \/ MoveAside(r) \/ Install(r) \/ Restore(r) \/ Crash(r)
  \/ AllOver /\ UNCHANGED commitVars

CommitSpec == CommitInit /\ [][CommitNext]_commitVars
-----------------------------------------------------------------------------
(* Properties *)

\* The paths hold contents a run can have put there.
CommitTypeOK ==
  /\ target \in Outputs \cup {None}
  /\ pc \in [Runs -> Running \cup {"done", "failed", "rollback_failed", "crashed"}]
  /\ backup \in [Runs -> Outputs \cup {None}]
  /\ kept \in SUBSET Outputs
  /\ published \in SUBSET Outputs
  /\ destroyed \in SUBSET (Outputs \X Runs)
  /\ faults \in 0 .. MaxFaults

\* Where a content can still be found.
OnDisk(c) == c = target \/ c \in kept \/ \E r \in Runs : backup[r] = c

\* Nothing that was ever published is deleted, except by a run that has
\* installed its own output in its place: an output survives failed renames,
\* failed restores, crashes and other runs (commit; the conversion command
\* says of itself, tidas-cli/src/args.rs:214, "cancellation, or runtime
\* failure leaves an existing output unchanged").
ContentConserved ==
  \A c \in published : OnDisk(c) \/ \E r \in Runs : <<c, r>> \in destroyed /\ pc[r] = "done"

\* Once all runs are over, and unless one of them died or could not roll back,
\* an output that existed is still at the target, or a newer one is: the
\* window between the two renames is always closed.
TargetPresent ==
  (/\ AllOver
   /\ \A r \in Runs : pc[r] \notin {"crashed", "rollback_failed"}
   /\ published # {})
  => target # None
=============================================================================
