------------------------ MODULE VersionNormalization ------------------------
(***************************************************************************)
(* normalize_package_versions of crates/tidas-export/src/versioning.rs:    *)
(* of every exported dataset only the greatest version stays; references   *)
(* in the files that stay are redirected to it, references to preceding    *)
(* versions are dropped, and the files of the older versions are removed.  *)
(* A dataset is a category and a UUID; versions are numbers here, their    *)
(* fixed-width text is ordered the same way.                               *)
(***************************************************************************)
EXTENDS Naturals, FiniteSets, FiniteSetsExt

CONSTANTS
  Datasets,
  Versions,  \* versions that exist; 00.00.000 counts as 1
  Packages   \* the packages that may be exported

None == 0

\* An occurrence of a reference in a payload: the key it is found under, and
\* whether it is the value of that key or an element of an array there; the
\* version and the file name in the URI may each be missing.
Refs == [place : {"field", "element"}, key : {"preceding", "other"},
         to : Datasets, version : Versions \cup {None}, uri : Versions \cup {None}]

\* What consistent source data holds: the two do not name different versions.
SourceRefs == {r \in Refs : r.version = None \/ r.uri = None \/ r.version = r.uri}

Ids == Datasets \X Versions

\* Versions are written 00.00.000 to 99.99.999.
LastVersion == 100 * 100 * 1000

\* A package has finitely many files.
ASSUME NormalizationAssumption ==
  /\ Versions \subseteq 1 .. LastVersion
  /\ \A p \in Packages : /\ IsFiniteSet(DOMAIN p) /\ DOMAIN p \subseteq Ids
                         /\ p \in [DOMAIN p -> SUBSET SourceRefs]

VARIABLES
  files,    \* [<<dataset, version>> in the package -> the references in it]
  scanned,  \* the records load_records found
  visited,  \* records the current loop is done with
  pc,       \* load, rewrite, remove, done, cancelled
  summary   \* VersionNormalizationV1, the counters that relate to each other

vars == <<files, scanned, visited, pc, summary>>

Init ==
  /\ files \in Packages
  /\ scanned = {}
  /\ visited = {}
  /\ pc = "load"
  /\ summary = [kept |-> 0, removed |-> 0]

VersionsOf(d) == {p[2] : p \in {q \in scanned : q[1] = d}}

\* latest: the last element of the ordered set of versions.
Latest(d) == Max(VersionsOf(d))

Winner(p) == p[2] = Latest(p[1])

\* infer_target's version: the field, else the version in the URI.
VersionNamed(r) == IF r.version # None THEN r.version ELSE r.uri

IsPreceding(r) ==
  /\ r.place = "field"
  /\ r.key = "preceding"
  /\ Cardinality(VersionsOf(r.to)) > 1

\* Mutant: only references to the very next version are redirected.
IsStaleByOne(r) ==
  /\ r.place = "field"
  /\ ~IsPreceding(r)
  /\ VersionsOf(r.to) # {}
  /\ VersionNamed(r) # None
  /\ VersionNamed(r) + 1 = Latest(r.to)

\* normalize_value looks at the values of an object's keys; an element of an
\* array is only descended into, never looked at as a reference itself.
IsStale(r) ==
  /\ r.place = "field"
  /\ ~IsPreceding(r)
  /\ VersionsOf(r.to) # {}
  /\ VersionNamed(r) # None
  /\ VersionNamed(r) # Latest(r.to)

Redirected(r) ==
  [r EXCEPT !.version = Latest(r.to),
            !.uri = IF @ = None THEN None ELSE Latest(r.to)]

Normalized(refs) ==
  {IF IsStale(r) THEN Redirected(r) ELSE r : r \in {q \in refs : ~IsPreceding(q)}}

Load ==
  /\ pc = "load"
  /\ scanned' = DOMAIN files
  /\ pc' = "rewrite"
  /\ UNCHANGED <<files, visited, summary>>

\* The loops take the records in the order of their paths.
NextRecord == CHOOSE p \in scanned \ visited : TRUE

\* One round of the first loop.
Rewrite ==
  /\ pc = "rewrite"
  /\ visited # scanned
  /\ visited' = visited \cup {NextRecord}
  /\ LET p == NextRecord IN
     IF Winner(p)
     THEN /\ files' = [files EXCEPT ![p] = Normalized(@)]
          /\ summary' = [summary EXCEPT !.kept = @ + 1]
     ELSE UNCHANGED <<files, summary>>
  /\ UNCHANGED <<scanned, pc>>

StartRemoving ==
  /\ pc = "rewrite"
  /\ visited = scanned
  /\ visited' = {}
  /\ pc' = "remove"
  /\ UNCHANGED <<files, scanned, summary>>

\* Mutant: the winners go, too, when they were rewritten.
RemoveRewritten ==
  /\ pc = "remove"
  /\ visited # scanned
  /\ visited' = visited \cup {NextRecord}
  /\ LET p == NextRecord IN
     IF Winner(p) /\ \A r \in files[p] : VersionsOf(r.to) # {} => r.version # Latest(r.to)
     THEN UNCHANGED <<files, summary>>
     ELSE /\ files' = [q \in DOMAIN files \ {p} |-> files[q]]
          /\ summary' = [summary EXCEPT !.removed = @ + 1]
  /\ UNCHANGED <<scanned, pc>>

\* One round of the second loop.
Remove ==
  /\ pc = "remove"
  /\ visited # scanned
  /\ visited' = visited \cup {NextRecord}
  /\ LET p == NextRecord IN
     IF Winner(p)
     THEN UNCHANGED <<files, summary>>
     ELSE /\ files' = [q \in DOMAIN files \ {p} |-> files[q]]
          /\ summary' = [summary EXCEPT !.removed = @ + 1]
  /\ UNCHANGED <<scanned, pc>>

Finish ==
  /\ pc = "remove"
  /\ visited = scanned
  /\ pc' = "done"
  /\ UNCHANGED <<files, scanned, visited, summary>>

\* The token, or a read or a write that fails, ends the export here.
Abort ==
  /\ pc \in {"load", "rewrite", "remove"}
  /\ pc' = "cancelled"
  /\ UNCHANGED <<files, scanned, visited, summary>>

Ended == pc \in {"done", "cancelled"} /\ UNCHANGED vars

Next ==
  \/ Load
  \/ Rewrite
  \/ StartRemoving
  \/ Remove
  \/ Finish
  \/ Abort
  \/ Ended

Spec == Init /\ [][Next]_vars
-----------------------------------------------------------------------------
(* Properties *)

\* Whenever it stops, finished or not, the greatest version of every dataset
\* is still in the package; once it has finished no other is, and every record
\* was counted as kept or as removed (versioning.rs 96-119; cli-contract.md 303).
WinnersSurvive ==
  /\ pc # "load" => \A d \in Datasets : VersionsOf(d) # {} => <<d, Latest(d)>> \in DOMAIN files
  /\ pc = "done" =>
       /\ \A p \in scanned : p \in DOMAIN files <=> p[2] = Max(VersionsOf(p[1]))
       /\ summary.kept + summary.removed = Cardinality(scanned)
       /\ summary.kept = Cardinality({p[1] : p \in scanned})

Resolves(r) ==
  VersionsOf(r.to) # {} =>
    /\ r.version # None => <<r.to, r.version>> \in DOMAIN files
    /\ r.uri # None => <<r.to, r.uri>> \in DOMAIN files

\* At the end a reference held by a key leads to a file of the package
\* whenever its dataset was exported, although rewriting ends before the
\* removals begin, and none names a preceding version of a dataset that was
\* exported in several (versioning.rs 166-190, cli-contract.md 304).
FieldReferencesResolve ==
  pc = "done" =>
    \A p \in DOMAIN files : \A r \in files[p] :
      r.place = "field" =>
        /\ Resolves(r)
        /\ r.key = "preceding" => Cardinality(VersionsOf(r.to)) <= 1
=============================================================================
