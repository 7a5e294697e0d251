---------------------------- MODULE ReleaseBuild ----------------------------
(***************************************************************************)
(* build_packages of crates/tidas-release: the gates a release goes        *)
(* through, over a directory that users go on editing.  The tree is        *)
(* validated, the dataset index loaded and compared with the files, the    *)
(* reference closure of every profile resolved by a worklist, the tree     *)
(* converted into the staging directory, the conversion validated and      *)
(* converted back for comparison, and the packages written and published   *)
(* at once.                                                                *)
(*                                                                         *)
(* A content stands for the bytes of a file and for what was converted     *)
(* from them.  Reading, hashing or converting a file is one step; loops    *)
(* over files take them in any order.                                      *)
(***************************************************************************)
EXTENDS Naturals, Functions

CONSTANTS
  Docs,      \* the dataset files of the input directory
  Indexed,   \* those the dataset index lists, by their key
  Keys,      \* everything a reference may name
  Contents,  \* what a file may hold
  Valid,     \* the contents that pass the native and the eILCD validation
  Refs,      \* the references a file with some content makes
  Profiles,  \* the profiles of the request, in the order of their resolution
  Roots,     \* the datasets with a role that makes them roots of a profile
  Accepted,  \* the contents a root may have: an LCI result, for Result-only
  Paired,    \* whether the last profile must contain the first
  Nothing,   \* no release has been published, or no content was read
  MaxEdits   \* bound on the edits during the build, of all files together

ASSUME ReleaseAssumption ==
  /\ Indexed \subseteq Docs \cap Keys
  /\ Valid \subseteq Contents
  /\ Refs \in [Docs -> [Contents -> SUBSET Keys]]
  /\ Profiles \in Nat \ {0}
  /\ Roots \in [1 .. Profiles -> SUBSET Indexed]
  /\ Accepted \in [1 .. Profiles -> SUBSET Contents]
  /\ Paired \in BOOLEAN
  /\ Nothing \notin Contents
  /\ MaxEdits \in Nat

VARIABLES
  file,      \* the content of every dataset file
  edits,     \* how often each was edited during the build
  index,     \* for every listed file the content whose hash the index gives
  phase,     \* the gate the build is at
  todo,      \* the files the current loop has still to visit
  profile,   \* the profile being resolved or packaged
  pending,   \* the worklist of resolve
  selected,  \* for every profile its closure
  walked,    \* for every profile the contents its references were read from
  bound,     \* edits of each file when a closure last compared its hash
  ilcd,      \* the content every staged eILCD file was converted from
  compared,  \* edits of each file when the round trip compared it
  zip,       \* for every profile the contents of its TIDAS package
  release    \* what is published

source == <<file, edits, index>>
closure == <<pending, selected, walked, bound>>
staged == <<ilcd, compared, zip>>
vars == <<source, phase, todo, profile, closure, staged, release>>

NoContent == [d \in Docs |-> Nothing]

Init ==
  /\ file \in [Docs -> Contents]
  /\ edits = [d \in Docs |-> 0]
  /\ index \in [Indexed -> Contents]
  /\ phase = "validate"
  /\ todo = Docs
  /\ profile = 1
  /\ pending = {}
  /\ selected = [p \in 1 .. Profiles |-> {}]
  /\ walked = [p \in 1 .. Profiles |-> NoContent]
  /\ bound = [d \in Docs |-> 0]
  /\ ilcd = NoContent
  /\ compared = [d \in Docs |-> 0]
  /\ zip = [p \in 1 .. Profiles |-> NoContent]
  /\ release = Nothing

Ended == phase \in {"done", "failed"}

\* A user writes a file.
Edit(d) ==
  /\ ~Ended
  /\ SumFunction(edits) < MaxEdits
  /\ \E c \in Contents : c # file[d] /\ file' = [file EXCEPT ![d] = c]
  /\ edits' = [edits EXCEPT ![d] = @ + 1]
  /\ UNCHANGED <<index, phase, todo, profile, closure, staged, release>>

\* Any error drops the staging directory: a gate that is not passed, the
\* budget, cancellation, a failing disk.
Fail ==
  /\ phase' = "failed"
  /\ todo' = {}
  /\ UNCHANGED <<source, profile, closure, staged, release>>

Stop == ~Ended /\ Fail

\* A loop of the gate visits the next file.
Visit(gate, d) == phase = gate /\ d \in todo /\ todo' = todo \ {d}

\* The loop is over, the next gate begins.
Pass(gate, next, files) ==
  phase = gate /\ todo = {} /\ phase' = next /\ todo' = files

\* validate_tree: issues of any file fail the build (those of all files are
\* reported first, as are the mismatches of Compare).
Validate(d) ==
  /\ phase = "validate" /\ d \in todo
  /\ IF file[d] \in Valid
     THEN Visit("validate", d) /\ UNCHANGED <<source, phase, profile, closure, staged, release>>
     ELSE Fail

Validated ==
  /\ Pass("validate", "index", Indexed)
  /\ UNCHANGED <<source, profile, closure, staged, release>>

\* DatasetIndex::load compares every listed file with its hash.
LoadEntry(d) ==
  /\ phase = "index" /\ d \in todo
  /\ IF file[d] = index[d]
     THEN Visit("index", d) /\ UNCHANGED <<source, phase, profile, closure, staged, release>>
     ELSE Fail

-----------------------------------------------------------------------------
\* resolve starts from the roots of the first profile.
StartClosure ==
  /\ phase = "index" /\ todo = {}
  /\ IF Roots[1] = {}
     THEN Fail
     ELSE /\ phase' = "close" /\ todo' = {}
          /\ pending' = Roots[1]
          /\ UNCHANGED <<source, profile, selected, walked, bound, staged, release>>

References(d) == Refs[d][file[d]]

Refused(d) ==
  \/ d \in Roots[profile] /\ file[d] \notin Accepted[profile]
  \/ ~(References(d) \subseteq Indexed)

\* Mutant: what is selected already is walked again.
WalkAgain(d) ==
  /\ phase = "close" /\ d \in pending
  /\ IF Refused(d)
     THEN Fail
     ELSE /\ pending' = (pending \cup References(d)) \ {d}
          /\ selected' = [selected EXCEPT ![profile] = @ \cup {d}]
          /\ walked' = [walked EXCEPT ![profile][d] = file[d]]
          /\ UNCHANGED <<source, phase, todo, profile, bound, staged, release>>

\* The worklist: a dataset is read, its references are all indexed, those not
\* selected yet are to be visited.  What the code's stack holds twice it skips
\* the second time, so pending holds it once.
Walk(d) ==
  /\ phase = "close" /\ d \in pending
  /\ IF Refused(d)
     THEN Fail
     ELSE /\ pending' = (pending \cup (References(d) \ selected[profile])) \ {d}
          /\ selected' = [selected EXCEPT ![profile] = @ \cup {d}]
          /\ walked' = [walked EXCEPT ![profile][d] = file[d]]
          /\ UNCHANGED <<source, phase, todo, profile, bound, staged, release>>

Closed ==
  /\ phase = "close" /\ pending = {}
  /\ phase' = "bind" /\ todo' = selected[profile]
  /\ UNCHANGED <<source, profile, closure, staged, release>>

\* Mutant: the selected files are not hashed again.
BindNothing(d) ==
  /\ Visit("bind", d)
  /\ bound' = [bound EXCEPT ![d] = edits[d]]
  /\ UNCHANGED <<source, phase, profile, pending, selected, walked, staged, release>>

\* semantic_coverage: every selected file still has its indexed hash.
Bind(d) ==
  /\ phase = "bind" /\ d \in todo
  /\ IF file[d] = index[d]
     THEN /\ Visit("bind", d)
          /\ bound' = [bound EXCEPT ![d] = edits[d]]
          /\ UNCHANGED <<source, phase, profile, pending, selected, walked, staged, release>>
     ELSE Fail

\* resolve_build_profiles goes on with the next profile, or ends with the
\* proof that the last one contains the first.
NextProfile ==
  /\ phase = "bind" /\ todo = {}
  /\ IF profile < Profiles
     THEN IF Roots[profile + 1] = {}
          THEN Fail
          ELSE /\ phase' = "close" /\ todo' = {}
               /\ profile' = profile + 1
               /\ pending' = Roots[profile + 1]
               /\ UNCHANGED <<source, selected, walked, bound, staged, release>>
     ELSE IF Paired => selected[1] \subseteq selected[Profiles]
          THEN /\ phase' = "convert" /\ todo' = Docs
               /\ UNCHANGED <<source, profile, closure, staged, release>>
          ELSE Fail

-----------------------------------------------------------------------------
\* convert_tidas_to_ilcd reads every file once more.
Convert(d) ==
  /\ Visit("convert", d)
  /\ ilcd' = [ilcd EXCEPT ![d] = file[d]]
  /\ UNCHANGED <<source, phase, profile, closure, compared, zip, release>>

\* The eILCD tree is validated.
Converted ==
  /\ phase = "convert" /\ todo = {}
  /\ IF \A d \in Docs : ilcd[d] \in Valid
     THEN Pass("convert", "compare", Docs) /\ UNCHANGED <<source, profile, closure, staged, release>>
     ELSE Fail

\* Mutant: the round trip is reported, not required.
CompareNothing(d) ==
  /\ Visit("compare", d)
  /\ compared' = [compared EXCEPT ![d] = edits[d]]
  /\ UNCHANGED <<source, phase, profile, closure, ilcd, zip, release>>

\* semantic_roundtrip compares what comes back with the file as it is now.
Compare(d) ==
  /\ phase = "compare" /\ d \in todo
  /\ IF file[d] = ilcd[d]
     THEN /\ Visit("compare", d)
          /\ compared' = [compared EXCEPT ![d] = edits[d]]
          /\ UNCHANGED <<source, phase, profile, closure, ilcd, zip, release>>
     ELSE Fail

Compared ==
  /\ Pass("compare", "pack", selected[1])
  /\ profile' = 1
  /\ UNCHANGED <<source, closure, staged, release>>

\* write_package copies the members of the TIDAS package from the input.
Pack(d) ==
  /\ Visit("pack", d)
  /\ zip' = [zip EXCEPT ![profile][d] = file[d]]
  /\ UNCHANGED <<source, phase, profile, closure, ilcd, compared, release>>

NextPackage ==
  /\ phase = "pack" /\ todo = {} /\ profile < Profiles
  /\ profile' = profile + 1
  /\ todo' = selected[profile + 1]
  /\ UNCHANGED <<source, phase, closure, staged, release>>

\* The packages replace the previous release at once (StagedCommit); those in
\* eILCD hold the staged files of the closure.
Publish ==
  /\ Pass("pack", "done", {}) /\ profile = Profiles
  /\ release' = [p \in 1 .. Profiles |->
       [d \in selected[p] |-> [tidas |-> zip[p][d], ilcd |-> ilcd[d]]]]
  /\ UNCHANGED <<source, profile, closure, staged>>

Done == Ended /\ UNCHANGED vars

Build ==
  \/ \E d \in Docs :
       Validate(d) \/ LoadEntry(d) \/ Walk(d) \/ Bind(d) \/ Convert(d) \/ Compare(d) \/ Pack(d)
  \/ Validated \/ StartClosure \/ Closed \/ NextProfile \/ Converted \/ Compared
  \/ NextPackage \/ Publish

Next == Build \/ Stop \/ (\E d \in Docs : Edit(d)) \/ Done

\* The build is one thread that keeps running.
Spec == Init /\ [][Next]_vars /\ WF_vars(Build)

-----------------------------------------------------------------------------
Phases == {"validate", "index", "close", "bind", "convert", "compare", "pack", "done", "failed"}

TypeOK ==
  /\ file \in [Docs -> Contents] /\ index \in [Indexed -> Contents]
  /\ edits \in [Docs -> Nat]
  /\ bound \in [Docs -> Nat] /\ compared \in [Docs -> Nat]
  /\ phase \in Phases
  /\ todo \subseteq Docs
  /\ profile \in 1 .. Profiles
  /\ pending \subseteq Indexed
  /\ selected \in [1 .. Profiles -> SUBSET Indexed]
  /\ walked \in [1 .. Profiles -> [Docs -> Contents \cup {Nothing}]]
  /\ ilcd \in [Docs -> Contents \cup {Nothing}]
  /\ zip \in [1 .. Profiles -> [Docs -> Contents \cup {Nothing}]]
  /\ phase = "close" => pending \cap selected[profile] = {}

\* The profiles whose closure has passed all its checks.
Admitted ==
  IF phase \in {"convert", "compare", "pack", "done"} THEN 1 .. Profiles
  ELSE IF phase \in {"close", "bind"} THEN 1 .. (profile - 1)
  ELSE {}

IsClosed(S, contents) ==
  \A d \in S : contents[d] # Nothing => Refs[d][contents[d]] \subseteq S

\* The closure of a profile is exactly what its roots lead to by the
\* references that were read, no less and no more, whatever cycles they form;
\* and those are the references of the indexed contents, except in a file that
\* was edited and edited back since the index was loaded
\* (closure.rs 58-115, 296-303; index.rs 138-142).
ClosureFitsIndex ==
  \A p \in Admitted :
    /\ Roots[p] \subseteq selected[p]
    /\ \A d \in selected[p] : walked[p][d] # Nothing
    /\ IsClosed(selected[p], walked[p])
    /\ \A S \in SUBSET Indexed :
         Roots[p] \subseteq S /\ IsClosed(S, walked[p]) => selected[p] \subseteq S
    /\ \A d \in selected[p] : walked[p][d] # index[d] => edits[d] >= 2

\* What is published passed every gate with the content it has: an eILCD file
\* is valid and was, at the round trip, what the TIDAS file held, so the two
\* packages differ only in files edited after that; and in files not edited
\* since the closure was checked both hold what the index says.  The paired
\* profiles are nested (lib.rs 384-431, closure.rs 142-153).
PublishedIsGated ==
  release # Nothing =>
    /\ \A p \in DOMAIN release : \A d \in DOMAIN release[p] :
         LET member == release[p][d] IN
         /\ member.ilcd \in Valid
         /\ member.tidas # member.ilcd => edits[d] > compared[d]
         /\ edits[d] = bound[d] => member.tidas = index[d] /\ member.ilcd = index[d]
    /\ Paired => DOMAIN release[1] \subseteq DOMAIN release[Profiles]

\* The build ends, however the references turn in circles (closure.rs 64-66).
BuildEnds == <>Ended
=============================================================================
