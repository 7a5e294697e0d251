---------------------------- MODULE ValidationRun ----------------------------
(***************************************************************************)
(* The two validation runs of crates/tidas-validation, over a package that *)
(* users go on editing:                                                    *)
(*   batch    run_document_validation_batch (batch.rs): a manifest names   *)
(*            the documents with the hashes they must have; every document *)
(*            is hashed in the preflight and again around each reading.    *)
(*   package  validate_tidas_package (pipeline.rs): the directories are    *)
(*            listed, nothing but the flow evidence is checked again.      *)
(* Both read the flows first, keep their own hash of what they read        *)
(* (flow_evidence.rs), judge the processes by that evidence, and compare   *)
(* the hashes once more before the events appear at their target at once.  *)
(*                                                                         *)
(* A content stands for its hash.  What is reported of a document is one   *)
(* verdict: the content it was read with, the evidence used and the number *)
(* of its issues.  A process refers to every flow.  Reading or hashing a   *)
(* file is one step: it is replaced as a whole.                            *)
(***************************************************************************)
EXTENDS Integers, Sequences, FiniteSets

LOCAL INSTANCE FiniteSetsExt

CONSTANTS
  Docs,      \* the paths of the package
  Flows,     \* those in flows/, the others are processes
  Order,     \* the documents in the order of the manifest
  Sorted,    \* the files of a directory in the order of their names
  Contents,  \* what a file may hold
  Broken,    \* the content that is not JSON
  Flawed,    \* the contents with an issue of their own
  Gone,      \* no file
  Nothing,   \* no events have been published
  MaxEdits   \* bound on the edits during the run

RangeOf(s) == {s[i] : i \in 1 .. Len(s)}

ASSUME DocumentAssumption ==
  /\ Flows \subseteq Docs
  /\ Order \in Seq(Docs)
  /\ Sorted \in [SUBSET Docs -> Seq(Docs)]
  /\ \A S \in SUBSET Docs : RangeOf(Sorted[S]) = S
  /\ Flawed \subseteq Contents
  /\ Broken \in Contents
  /\ Gone \notin Contents
  /\ Nothing \notin [doc : Docs, seen : Contents, told : [Docs -> Contents \cup {Gone}], issues : Nat]
  /\ MaxEdits \in Nat

VARIABLES
  file,      \* the content of every path
  edits,     \* how often each was edited during the run
  had,       \* every content each had during the run
  mode,      \* batch or package
  manifest,  \* the content the manifest gives each document
  phase,     \* where the run is
  category,  \* the category the package run is in
  todo,      \* the documents that are left in the current loop
  began,     \* the files when the preflight, or the flow index, was complete
  index,     \* FlowEvidenceIndex.sources: the contents the flows were read with
  held,      \* the verdict in the spool of the current document
  spool,     \* the verdicts in the global spool
  count,     \* summary.issue_count
  events     \* what is at the target of the event spool

world == <<file, edits, had>>
place == <<phase, category, todo>>
work == <<began, index, held, spool, count>>
vars == <<world, mode, manifest, place, work, events>>

IsFlow(d) == d \in Flows
IsProcess(d) == d \notin Flows
Present(d) == file[d] # Gone

Files == [Docs -> Contents \cup {Gone}]

Verdicts == [doc : Docs, seen : Contents, told : Files, issues : Nat]

\* The manifest may have been written at any time before the run; a package
\* run has none.
Init ==
  /\ file \in [Docs -> Contents]
  /\ edits = [d \in Docs |-> 0]
  /\ had = [d \in Docs |-> {file[d]}]
  /\ \/ mode = "batch" /\ manifest \in [Docs -> Contents]
     \/ mode = "package" /\ manifest = [d \in Docs |-> Broken]
  /\ phase = IF mode = "batch" THEN "load" ELSE "list"
  /\ category = "index"
  /\ todo = IF mode = "batch" THEN Order ELSE <<>>
  /\ began = file
  /\ index = [d \in Docs |-> Gone]
  /\ held = Nothing
  /\ spool = <<>>
  /\ count = 0
  /\ events = Nothing

-----------------------------------------------------------------------------
\* A user writes or removes a document.
Edit(d) ==
  /\ phase \notin {"done", "failed"}
  /\ MapThenSumSet(LAMBDA e : edits[e], Docs) < MaxEdits
  /\ \E c \in Contents \cup {Gone} :
       /\ c # file[d]
       /\ file' = [file EXCEPT ![d] = c]
       /\ had' = [had EXCEPT ![d] = @ \cup {c}]
  /\ edits' = [edits EXCEPT ![d] = @ + 1]
  /\ UNCHANGED <<mode, manifest, place, work, events>>

\* Any error ends the run: drift, a missing or broken document, the budget,
\* cancellation, a failing disk.  Both spools are temporary files.
Fail ==
  /\ phase' = "failed"
  /\ todo' = <<>>
  /\ held' = Nothing
  /\ spool' = <<>>
  /\ UNCHANGED <<world, mode, manifest, category, began, index, count, events>>

Stop == phase \notin {"done", "failed"} /\ Fail

\* assert_document_hash
Asserted(d) == file[d] = manifest[d]

GoTo(p, t) == phase' = p /\ todo' = t /\ UNCHANGED category

\* load_batch_manifest: the next line.
Load ==
  /\ phase = "load" /\ todo # <<>>
  /\ IF Asserted(Head(todo))
     THEN /\ GoTo("load", Tail(todo))
          /\ UNCHANGED <<world, mode, manifest, work, events>>
     ELSE Fail

\* validate_documents begins with the flows of the manifest.
Loaded ==
  /\ phase = "load" /\ todo = <<>>
  /\ began' = file
  /\ GoTo("hash_flow", Order)
  /\ UNCHANGED <<world, mode, manifest, index, held, spool, count, events>>

\* The next document of the manifest is hashed if it is a flow.
HashFlow ==
  /\ phase = "hash_flow" /\ todo # <<>>
  /\ LET d == Head(todo) IN
     \/ /\ IsProcess(d)
        /\ GoTo("hash_flow", Tail(todo))
        /\ UNCHANGED <<world, mode, manifest, work, events>>
     \/ /\ IsFlow(d) /\ Asserted(d)
        /\ GoTo("read_flow", todo)
        /\ UNCHANGED <<world, mode, manifest, work, events>>
     \/ IsFlow(d) /\ ~Asserted(d) /\ Fail

\* The flows are through, the validation begins.
FlowsIndexed ==
  /\ phase = "hash_flow" /\ todo = <<>>
  /\ GoTo("hash", Order)
  /\ UNCHANGED <<world, mode, manifest, work, events>>

\* FlowEvidenceIndex::add
IndexFlow ==
  /\ phase = "read_flow" /\ todo # <<>>
  /\ IF Present(Head(todo))
     THEN /\ index' = [index EXCEPT ![Head(todo)] = file[Head(todo)]]
          /\ IF mode = "batch" THEN GoTo("rehash_flow", todo) ELSE GoTo("read_flow", Tail(todo))
          /\ UNCHANGED <<world, mode, manifest, began, held, spool, count, events>>
     ELSE Fail

RehashFlow ==
  /\ phase = "rehash_flow"
  /\ IF Asserted(Head(todo))
     THEN /\ GoTo("hash_flow", Tail(todo))
          /\ UNCHANGED <<world, mode, manifest, work, events>>
     ELSE Fail

-----------------------------------------------------------------------------
\* sorted_json_files: the package run lists flows/ for the index, then every
\* category once more for the validation.
List ==
  /\ phase = "list"
  /\ todo' = Sorted[{d \in Docs : Present(d) /\ (category = "processes") = IsProcess(d)}]
  /\ phase' = IF category = "index" THEN "read_flow" ELSE "read"
  /\ UNCHANGED <<world, mode, manifest, category, work, events>>

\* A loop of the package run is over, the next category is listed.
NextCategory ==
  /\ mode = "package" /\ phase \in {"read_flow", "read"} /\ todo = <<>>
  /\ category # "processes"
  /\ category' = IF category = "index" THEN "flows" ELSE "processes"
  /\ began' = IF category = "index" THEN file ELSE began
  /\ phase' = "list" /\ todo' = <<>>
  /\ UNCHANGED <<world, mode, manifest, index, held, spool, count, events>>

\* All documents are through, the paths of the index are compared.
ToVerify ==
  /\ todo = <<>>
  /\ \/ mode = "batch" /\ phase = "hash"
     \/ mode = "package" /\ phase = "read" /\ category = "processes"
  /\ GoTo("verify", Sorted[{d \in Docs : index[d] # Gone}])
  /\ UNCHANGED <<world, mode, manifest, work, events>>

\* for_process: the flows of the index that are JSON.
Told(d) ==
  [f \in Docs |-> IF IsProcess(d) /\ file[d] # Broken /\ index[f] # Broken THEN index[f] ELSE Gone]

\* The issues of a document: one that is its own, and for a process one for
\* every flow without evidence.
IssueCount(d) ==
  IF file[d] \in Flawed \cup {Broken} THEN 1 ELSE 0

Unresolved(d) ==
  IF IsProcess(d) /\ file[d] # Broken /\ \E f \in Flows : Told(d)[f] = Gone THEN 1 ELSE 0

Verdict(d) ==
  [doc |-> d, seen |-> file[d], told |-> Told(d), issues |-> IssueCount(d) + Unresolved(d)]

\* validate_documents: the next document is hashed.
HashDocument ==
  /\ phase = "hash" /\ todo # <<>>
  /\ IF Asserted(Head(todo))
     THEN /\ GoTo("read", todo)
          /\ UNCHANGED <<world, mode, manifest, work, events>>
     ELSE Fail

\* Its issues go to a spool of its own and count at once.
ReadDocument ==
  /\ mode = "batch" /\ phase = "read"
  /\ LET d == Head(todo) IN
     IF Present(d) /\ file[d] # Broken
     THEN /\ held' = Verdict(d)
          /\ count' = count + Verdict(d).issues
          /\ GoTo("rehash", todo)
          /\ UNCHANGED <<world, mode, manifest, began, index, spool, events>>
     ELSE Fail

\* Mutant: nothing is hashed after the reading.
KeepUnchecked ==
  /\ phase = "rehash"
  /\ spool' = Append(spool, held)
  /\ held' = Nothing
  /\ GoTo("hash", Tail(todo))
  /\ UNCHANGED <<world, mode, manifest, began, index, count, events>>

\* Mutant: a document that changed is left out.
KeepOrSkip ==
  /\ phase = "rehash"
  /\ spool' = IF Asserted(Head(todo)) THEN Append(spool, held) ELSE spool
  /\ held' = Nothing
  /\ GoTo("hash", Tail(todo))
  /\ UNCHANGED <<world, mode, manifest, began, index, count, events>>

\* The document is hashed again before its events are copied.
KeepDocument ==
  /\ phase = "rehash"
  /\ IF Asserted(Head(todo))
     THEN /\ spool' = Append(spool, held)
          /\ held' = Nothing
          /\ GoTo("hash", Tail(todo))
          /\ UNCHANGED <<world, mode, manifest, began, index, count, events>>
     ELSE Fail

\* validate_file: the issues go straight to the sink, a broken document is one.
ValidateFile ==
  /\ mode = "package" /\ phase = "read" /\ todo # <<>>
  /\ LET d == Head(todo) IN
     IF Present(d)
     THEN /\ spool' = Append(spool, Verdict(d))
          /\ count' = count + Verdict(d).issues
          /\ GoTo("read", Tail(todo))
          /\ UNCHANGED <<world, mode, manifest, began, index, held, events>>
     ELSE Fail

\* Mutant: the flows are not compared again.
VerifyNothing ==
  /\ phase = "verify" /\ todo # <<>>
  /\ GoTo("verify", Tail(todo))
  /\ UNCHANGED <<world, mode, manifest, work, events>>

\* FlowEvidenceIndex::verify: the next flow.
Verify ==
  /\ phase = "verify" /\ todo # <<>>
  /\ IF file[Head(todo)] = index[Head(todo)]
     THEN /\ GoTo("verify", Tail(todo))
          /\ UNCHANGED <<world, mode, manifest, work, events>>
     ELSE Fail

\* The summary is complete, SpoolDestination::persist replaces the target.
Publish ==
  /\ phase = "verify" /\ todo = <<>>
  /\ events' = [verdicts |-> spool, count |-> count]
  /\ GoTo("done", <<>>)
  /\ UNCHANGED <<world, mode, manifest, work>>

Done == phase \in {"done", "failed"} /\ UNCHANGED vars

Validate ==
  \/ Load \/ Loaded \/ HashFlow \/ IndexFlow \/ RehashFlow \/ FlowsIndexed
  \/ List \/ NextCategory \/ ToVerify \/ HashDocument \/ ReadDocument \/ KeepDocument
  \/ ValidateFile \/ Verify \/ Publish \/ Stop

Next == Validate \/ (\E d \in Docs : Edit(d)) \/ Done

Spec == Init /\ [][Next]_vars

-----------------------------------------------------------------------------
Phases == {"load", "hash_flow", "read_flow", "rehash_flow", "list", "hash", "read",
           "rehash", "verify", "done", "failed"}

TypeOK ==
  /\ file \in Files
  /\ edits \in [Docs -> Nat]
  /\ had \in [Docs -> SUBSET (Contents \cup {Gone})]
  /\ mode \in {"batch", "package"}
  /\ manifest \in [Docs -> Contents]
  /\ phase \in Phases
  /\ category \in {"index", "flows", "processes"}
  /\ todo \in Seq(Docs)
  /\ began \in Files
  /\ index \in Files
  /\ held \in Verdicts \cup {Nothing}
  /\ spool \in Seq(Verdicts)
  /\ count \in Nat
  /\ events \in [verdicts : Seq(Verdicts), count : Nat] \cup {Nothing}
  /\ phase \in {"load", "hash_flow", "rehash_flow", "hash", "rehash"} => mode = "batch"
  /\ phase = "list" => mode = "package"
  /\ mode = "batch" /\ phase \in {"read_flow", "rehash_flow", "read", "rehash"} => todo # <<>>
  /\ phase = "rehash" => held # Nothing

Published == events # Nothing

InManifest == RangeOf(Order)

\* What the evidence of a flow is if the manifest tells the truth.
Expected(f) == IF manifest[f] = Broken THEN Gone ELSE manifest[f]

\* The events of a batch carry the manifest's hash beside issues that were
\* found in what was read.  The two fit, unless the document was edited and
\* edited back between two hashes; a flow that is evidence was also compared
\* with what was read of it at the end, so it takes a third edit, back to the
\* content that was read (batch.rs 270-278, 293-310, 366-367, 392;
\* flow_evidence.rs 71-91).
EventsFitManifest ==
  Published /\ mode = "batch" =>
    \A i \in 1 .. Len(events.verdicts) : LET v == events.verdicts[i] IN
      /\ v.seen # manifest[v.doc] => edits[v.doc] >= 2
      /\ IsProcess(v.doc) =>
           \A f \in Flows \cap InManifest : v.told[f] # Expected(f) => edits[f] >= 3

\* No document came back to a content it had before during the run.
NeverRestored == \A d \in Docs : Cardinality(had[d]) = edits[d] + 1

\* A run that completes judged one state of the package, as long as nothing is
\* edited back: a batch the manifest's, at the end of the preflight, in all
\* its documents at once; a package run, in its flows, the one at the end of
\* the indexing, and the flows themselves were validated with the content the
\* processes were judged by (batch.rs 531, 366, 392; pipeline.rs 157).
OneStateIsJudged ==
  Published /\ NeverRestored =>
    /\ mode = "batch" => \A d \in InManifest : began[d] = manifest[d]
    /\ \A f \in Flows : index[f] # Gone => began[f] = index[f]
    /\ \A i \in 1 .. Len(events.verdicts) : LET v == events.verdicts[i] IN
         index[v.doc] # Gone => v.seen = index[v.doc]

DocsOf(verdicts) == [i \in 1 .. Len(verdicts) |-> verdicts[i].doc]

\* The issues of the verdicts, one by one.
IssuesOf(verdicts) == UNION {{i} \X (1 .. verdicts[i].issues) : i \in 1 .. Len(verdicts)}

\* What is published is whole: a batch reports every document of the manifest
\* once and in its order, a package run in the order of its categories and
\* file names, leaving out only files that were missing at some time; the
\* final count is that of the issues in the file
\* (batch.rs 293-294, 368-377, 456-461; pipeline.rs 118-155).
StreamIsComplete ==
  Published =>
    LET docs == DocsOf(events.verdicts) IN
    /\ events.count = Cardinality(IssuesOf(events.verdicts))
    /\ mode = "batch" => docs = Order
    /\ mode = "package" =>
         /\ docs = Sorted[RangeOf(docs) \cap Flows] \o Sorted[RangeOf(docs) \ Flows]
         /\ \A d \in Docs : Gone \notin had[d] => d \in RangeOf(docs)
=============================================================================
