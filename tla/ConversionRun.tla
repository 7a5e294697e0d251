---------------------------- MODULE ConversionRun ----------------------------
(***************************************************************************)
(* convert_directory of crates/tidas-conversion/src/lib.rs, run forwards   *)
(* (TIDAS to eILCD) and backwards over three packages: `tidas`, the eILCD  *)
(* package made from it, and `back`, made from that one.  A run walks its  *)
(* input through a bounded queue that one thread both fills and empties,   *)
(* and writes to a staging tree that starts as a copy of the output it     *)
(* replaces.  Users edit the packages between the runs and during them.    *)
(*                                                                         *)
(* What eILCD cannot hold goes to sidecars: top-level extension members to *)
(* the envelope, what the projection changes to the recovery.  A dataset   *)
(* is its data, whether it has a fragment that the projection changes, and *)
(* its envelope; datasets are numbered, and 0 is data that is not there.   *)
(***************************************************************************)
EXTENDS Naturals, Sequences

CONSTANTS
  Datasets,   \* number of datasets
  MaxData,    \* data are numbered 1 to this
  Envelopes,  \* envelope contents
  NoEnvelope,
  Capacity,   \* ConversionRequest.queue_capacity
  MaxRuns,    \* bound: conversions started
  MaxEdits    \* bound: edits by users

ASSUME ConversionAssumption ==
  /\ {Datasets, MaxData, Capacity} \subseteq Nat \ {0}
  /\ {MaxRuns, MaxEdits} \subseteq Nat
  /\ NoEnvelope \notin Envelopes

Names == 1 .. Datasets
Stored == 0 .. MaxData
Fragments == {"plain", "rich"}
Documents == [data : Stored, fragment : Fragments, envelope : Envelopes \cup {NoEnvelope}]
NoDocument == [data |-> 0, fragment |-> "plain", envelope |-> NoEnvelope]

\* A package: the TIDAS documents, the eILCD documents and the sidecars.  A
\* recovery is the data it was made for, whose hash it holds; its original
\* fragment is "rich".
Empty == [json |-> [n \in Names |-> NoDocument], xml |-> [n \in Names |-> 0],
          recovery |-> [n \in Names |-> 0], envelope |-> [n \in Names |-> NoEnvelope]]

VARIABLES
  files,      \* the three packages
  direction,  \* of the run: forward or reverse
  stage,      \* copy: of the existing output; convert: of the input
  pc,         \* idle, walk, send, process, recover, merge
  todo,       \* files the walk has yet to visit
  queue,      \* the bounded queue of file jobs
  staging,    \* the staged output
  hand,       \* the dataset being converted backwards and its name
  runs,       \* conversions started
  edits,      \* edits so far
  read,       \* history: documents this forward run has read
  origin,     \* history: the documents the eILCD package was made from
  bare,       \* history: datasets of which this run's copy of the output has no file
  clean,      \* history: the same of the run that made the eILCD package
  untouched,  \* history: nobody has edited the eILCD package since
  quiet,      \* history: nor since the reverse run started
  adapted,    \* history: <<dataset, data>> whose rich fragment was projected
  mirror      \* history: `back` was made from the eILCD package as it is

run == <<direction, stage, pc, todo, queue, staging, hand>>
history == <<read, origin, bare, clean, untouched, quiet, adapted, mirror>>
vars == <<files, run, runs, edits, history>>

Init ==
  /\ \E documents \in [Names -> Documents \ {d \in Documents : d.data = 0}] :
        files = [tidas |-> [Empty EXCEPT !.json = documents], eilcd |-> Empty, back |-> Empty]
  /\ direction = "forward" /\ stage = "copy" /\ pc = "idle"
  /\ todo = {} /\ queue = <<>> /\ staging = Empty
  /\ hand = [name |-> 1, document |-> NoDocument]
  /\ runs = 0 /\ edits = 0
  /\ read = Empty.json /\ origin = Empty.json /\ bare = Names /\ clean = Names
  /\ untouched = FALSE /\ quiet = FALSE /\ adapted = {} /\ mirror = FALSE
-----------------------------------------------------------------------------
(* The trees *)

Input == IF direction = "forward" THEN "tidas" ELSE "eilcd"
Output == IF direction = "forward" THEN "eilcd" ELSE "back"

Sidecars == {"envelope", "recovery"}

Exists(package, n, kind) ==
  CASE kind = "json" -> package.json[n].data # 0
    [] kind = "envelope" -> package.envelope[n] # NoEnvelope
    [] OTHER -> package[kind][n] # 0

Kinds == {"json", "envelope", "recovery", "xml"}
Paths == [name : Names, kind : Kinds]

\* The files of a package, walked in the order of their names.
Walk(package) == {p \in Paths : Exists(package, p.name, p.kind)}

KindOrder == [json |-> 1, envelope |-> 2, recovery |-> 3, xml |-> 4]

Precedes(p, q) ==
  p.name < q.name \/ (p.name = q.name /\ KindOrder[p.kind] <= KindOrder[q.kind])

Comes(p) == p \in todo /\ \A q \in todo : Precedes(p, q)

IsConvertible(kind) == kind = IF direction = "forward" THEN "json" ELSE "xml"

\* Everything is written under the staging directory.
Put(package, n, kind, content) == [package EXCEPT ![kind][n] = content]
-----------------------------------------------------------------------------
(* The run *)

\* convert_directory up to the walk of the existing output.
Start(d) ==
  /\ pc = "idle" /\ runs < MaxRuns
  /\ runs' = runs + 1
  /\ direction' = d
  /\ stage' = "copy"
  /\ pc' = "walk"
  /\ todo' = Walk(files[IF d = "forward" THEN "eilcd" ELSE "back"])
  /\ read' = Empty.json
  /\ quiet' = (d = "reverse")
  /\ UNCHANGED <<files, queue, staging, hand, edits, origin, bare, clean, untouched, adapted, mirror>>

\* Any error: cancellation, the budget, a malformed document, I/O.  The
\* staging directory is removed and the output stays as it was.
Stops ==
  /\ pc' = "idle"
  /\ todo' = {}
  /\ queue' = <<>>
  /\ staging' = Empty
  /\ UNCHANGED <<direction, stage, hand>>

Fail ==
  /\ pc # "idle"
  /\ Stops
  /\ UNCHANGED <<files, runs, edits, history>>

\* Mutant: sidecars are skipped without looking for their dataset.
NextEntryTrusting ==
  /\ pc = "walk"
  /\ \E p \in Paths :
        /\ Comes(p)
        /\ IF stage = "convert" /\ direction = "reverse" /\ p.kind \in Sidecars
           THEN todo' = todo \ {p} /\ UNCHANGED pc
           ELSE pc' = "send" /\ UNCHANGED todo
  /\ UNCHANGED <<files, direction, stage, queue, staging, hand, runs, edits, history>>

\* The next entry of the walk; backwards, sidecars are left to their dataset.
NextEntry ==
  /\ pc = "walk"
  /\ \E p \in Paths :
        /\ Comes(p)
        /\ IF stage = "convert" /\ direction = "reverse" /\ p.kind \in Sidecars
           THEN IF Exists(files.eilcd, p.name, "xml")
                THEN todo' = todo \ {p} /\ UNCHANGED <<direction, stage, pc, queue, staging, hand>>
                ELSE Stops
           ELSE pc' = "send" /\ UNCHANGED <<direction, stage, todo, queue, staging, hand>>
  /\ UNCHANGED <<files, runs, edits, history>>

Enqueue(p) ==
  /\ Len(queue) < Capacity
  /\ queue' = Append(queue, p)
  /\ todo' = todo \ {p}

\* Mutant: the queue is emptied only after the walk.
SendLate ==
  /\ pc = "send"
  /\ \E p \in Paths : Comes(p) /\ Enqueue(p)
  /\ pc' = "walk"
  /\ UNCHANGED <<files, direction, stage, staging, hand, runs, edits, history>>

\* sender.send waits for room in the queue, which only this thread can make:
\* it processes a job as soon as the queue is full.
Send ==
  /\ pc = "send"
  /\ \E p \in Paths : Comes(p) /\ Enqueue(p)
  /\ pc' = IF Len(queue) + 1 = Capacity THEN "process" ELSE "walk"
  /\ UNCHANGED <<files, direction, stage, staging, hand, runs, edits, history>>

\* The walk is over: empty the queue, then go from the existing output to the
\* input.
Drain ==
  /\ pc = "walk"
  /\ todo = {}
  /\ IF queue # <<>>
     THEN pc' = "process" /\ UNCHANGED <<stage, todo, bare>>
     ELSE /\ stage = "copy"
          /\ stage' = "convert"
          /\ todo' = Walk(files[Input])
          /\ bare' = {n \in Names : \A kind \in Kinds : ~Exists(staging, n, kind)}
          /\ UNCHANGED pc
  /\ UNCHANGED <<files, direction, queue, staging, hand, runs, edits,
                 read, origin, clean, untouched, quiet, adapted, mirror>>

Job == Head(queue)

\* receiver.recv waits for a job.
Dequeue == pc = "process" /\ queue # <<>> /\ queue' = Tail(queue)

\* A file that is not converted is copied as it is now.
CopyFile ==
  /\ Dequeue
  /\ IsConvertible(Job.kind) => stage = "copy"
  /\ LET package == files[IF stage = "copy" THEN Output ELSE Input]
     IN /\ Exists(package, Job.name, Job.kind)
        /\ staging' = Put(staging, Job.name, Job.kind, package[Job.kind][Job.name])
  /\ pc' = "walk"
  /\ UNCHANGED <<files, direction, stage, todo, hand, runs, edits, history>>

\* Mutant: the projection's recovery is not written.
ConvertForwardLossy ==
  /\ Dequeue
  /\ stage = "convert" /\ direction = "forward" /\ IsConvertible(Job.kind)
  /\ LET n == Job.name
         document == files.tidas.json[n]
     IN /\ document.data # 0
        /\ read' = [read EXCEPT ![n] = document]
        /\ adapted' = adapted \cup {<<n, document.data>> : f \in {document.fragment} \cap {"rich"}}
        /\ staging' = [staging EXCEPT
              !.xml[n] = document.data,
              !.envelope[n] = IF document.envelope = NoEnvelope THEN @ ELSE document.envelope]
  /\ pc' = "walk"
  /\ UNCHANGED <<files, direction, stage, todo, hand, runs, edits, origin, bare, clean,
                 untouched, quiet, mirror>>

\* convert_file: split the envelope off, project, order, serialize; a sidecar
\* is written only if there is something to put in it.
ConvertForward ==
  /\ Dequeue
  /\ stage = "convert" /\ direction = "forward" /\ IsConvertible(Job.kind)
  /\ LET n == Job.name
         document == files.tidas.json[n]
     IN /\ document.data # 0
        /\ read' = [read EXCEPT ![n] = document]
        /\ adapted' = adapted \cup {<<n, document.data>> : f \in {document.fragment} \cap {"rich"}}
        /\ staging' = [staging EXCEPT
              !.xml[n] = document.data,
              !.envelope[n] = IF document.envelope = NoEnvelope THEN @ ELSE document.envelope,
              !.recovery[n] = IF document.fragment = "plain" THEN @ ELSE document.data]
  /\ pc' = "walk"
  /\ UNCHANGED <<files, direction, stage, todo, hand, runs, edits, origin, bare, clean,
                 untouched, quiet, mirror>>

\* convert_file backwards: read the eILCD document.
ConvertReverse ==
  /\ Dequeue
  /\ stage = "convert" /\ direction = "reverse" /\ IsConvertible(Job.kind)
  /\ Exists(files.eilcd, Job.name, "xml")
  /\ hand' = [name |-> Job.name,
              document |-> [NoDocument EXCEPT !.data = files.eilcd.xml[Job.name]]]
  /\ pc' = "recover"
  /\ UNCHANGED <<files, direction, stage, todo, staging, runs, edits, history>>

\* Mutant: the restored document is not compared with the recorded hash.
RecoverUnverified ==
  /\ pc = "recover"
  /\ hand' = IF files.eilcd.recovery[hand.name] = 0 THEN hand
             ELSE [hand EXCEPT !.document.fragment = "rich"]
  /\ pc' = "merge"
  /\ UNCHANGED <<files, direction, stage, todo, queue, staging, runs, edits, history>>

\* merge_projection_recovery: put the original fragment back; the result must
\* have the hash of the document the recovery was made for.
Recover ==
  /\ pc = "recover"
  /\ LET recovery == files.eilcd.recovery[hand.name]
     IN \/ /\ recovery = 0
           /\ pc' = "merge"
           /\ UNCHANGED <<direction, stage, todo, queue, staging, hand>>
        \/ /\ recovery = hand.document.data
           /\ hand' = [hand EXCEPT !.document.fragment = "rich"]
           /\ pc' = "merge"
           /\ UNCHANGED <<direction, stage, todo, queue, staging>>
        \/ /\ recovery \notin {0, hand.document.data}
           /\ Stops
  /\ UNCHANGED <<files, runs, edits, history>>

\* merge_envelope, and the file is written.
Merge ==
  /\ pc = "merge"
  /\ staging' = Put(staging, hand.name, "json",
                    [hand.document EXCEPT !.envelope = files.eilcd.envelope[hand.name]])
  /\ pc' = "walk"
  /\ UNCHANGED <<files, direction, stage, todo, queue, hand, runs, edits, history>>

\* write_direction_assets, hash_tree and commit.
Publish ==
  /\ pc = "walk" /\ stage = "convert" /\ todo = {} /\ queue = <<>>
  /\ files' = [files EXCEPT ![Output] = staging]
  /\ IF direction = "forward"
     THEN /\ origin' = read
          /\ clean' = bare
          /\ untouched' = TRUE
          /\ mirror' = FALSE
     ELSE mirror' = quiet /\ UNCHANGED <<origin, clean, untouched>>
  /\ pc' = "idle"
  /\ staging' = Empty
  /\ UNCHANGED <<direction, stage, todo, queue, hand, runs, edits, read, bare, quiet, adapted>>

Step == NextEntry \/ Send \/ Drain \/ CopyFile \/ ConvertForward \/ ConvertReverse
        \/ Recover \/ Merge \/ Publish
-----------------------------------------------------------------------------
(* The users *)

EditTidas(n, document) ==
  /\ edits < MaxEdits
  /\ document # files.tidas.json[n]
  /\ document.data = 0 => document = NoDocument
  /\ edits' = edits + 1
  /\ files' = [files EXCEPT !.tidas.json[n] = document]
  /\ UNCHANGED <<run, runs, history>>

\* An eILCD document is edited or removed, a sidecar removed.
EditEilcd(n, kind, content) ==
  /\ edits < MaxEdits
  /\ Exists(files.eilcd, n, kind)
  /\ content # files.eilcd[kind][n]
  /\ edits' = edits + 1
  /\ files' = [files EXCEPT !.eilcd = Put(@, n, kind, content)]
  /\ untouched' = FALSE /\ quiet' = FALSE /\ mirror' = FALSE
  /\ UNCHANGED <<run, runs, read, origin, bare, clean, adapted>>

Edit ==
  \E n \in Names :
    \/ \E document \in Documents : EditTidas(n, document)
    \/ \E data \in Stored : EditEilcd(n, "xml", data)
    \/ EditEilcd(n, "recovery", 0)
    \/ EditEilcd(n, "envelope", NoEnvelope)

Rest == pc = "idle" /\ runs = MaxRuns /\ UNCHANGED vars

Next == (\E d \in {"forward", "reverse"} : Start(d)) \/ Step \/ Fail \/ Edit \/ Rest

\* The run is one thread that keeps running; a step that cannot be taken
\* because a file is gone is an error.
Spec == Init /\ [][Next]_vars /\ WF_vars(Step)
              /\ WF_vars(Fail /\ pc = "process")
-----------------------------------------------------------------------------
(* Properties *)

\* Converted into an output that had no file of it when it was copied, and
\* back again, a dataset is what it was: the sidecars hold everything that
\* eILCD cannot (README.md 108-114).
CleanRoundTrip ==
  mirror /\ untouched =>
    \A n \in clean : origin[n] # NoDocument => files.back.json[n] = origin[n]

\* The same for every output.
RoundTrip ==
  mirror /\ untouched =>
    \A n \in Names : origin[n] # NoDocument => files.back.json[n] = origin[n]

\* A fragment is restored only to the data it was taken from: whatever is
\* edited, whatever sidecar is left over, no reverse run pairs the fragment of
\* one document with the data of another (projection.rs 60-80).
FragmentsFitTheirData ==
  \A n \in Names :
    files.back.json[n].fragment = "rich" => <<n, files.back.json[n].data>> \in adapted

\* No envelope is lost on the way back: a reverse run that is not disturbed
\* merges every one or fails (lib.rs 246-255, 631-676).
EnvelopesAreMerged ==
  mirror => \A n \in Names :
    files.eilcd.envelope[n] # NoEnvelope =>
      files.back.json[n].envelope = files.eilcd.envelope[n]

\* The one thread never waits for itself on a full queue: a run ends
\* (lib.rs 262-276).
RunEnds == pc # "idle" ~> pc = "idle"
=============================================================================
