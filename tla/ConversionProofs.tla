-------------------------- MODULE ConversionProofs --------------------------
(***************************************************************************)
(* Proofs about ConversionRun, for any number of datasets, conversions and *)
(* edits and any capacity of the queue; and about ProjectionRecovery, for  *)
(* every tree of pointers.                                                 *)
(***************************************************************************)
EXTENDS ConversionRun, ProjectionRecovery, TLAPS

Packages == [json : [Names -> Documents], xml : [Names -> Stored],
             recovery : [Names -> Stored],
             envelope : [Names -> Envelopes \cup {NoEnvelope}]]

TypeOK ==
  /\ files \in [tidas : Packages, eilcd : Packages, back : Packages]
  /\ direction \in {"forward", "reverse"} /\ stage \in {"copy", "convert"}
  /\ pc \in {"idle", "walk", "send", "process", "recover", "merge"}
  /\ todo \subseteq Paths /\ queue \in Seq(Paths)
  /\ staging \in Packages
  /\ hand \in [name : Names, document : Documents]
  /\ read \in [Names -> Documents] /\ origin \in [Names -> Documents]
  /\ bare \subseteq Names /\ clean \subseteq Names
  /\ adapted \subseteq Names \X Stored
  /\ untouched \in BOOLEAN /\ quiet \in BOOLEAN /\ mirror \in BOOLEAN

\* TIDAS documents come without sidecars and eILCD packages without TIDAS
\* documents, the staged one included; only reverse runs recover and merge.
TreesInv ==
  /\ pc \in {"recover", "merge"} => direction = "reverse"
  /\ \A n \in Names :
       /\ files.tidas.xml[n] = 0 /\ files.tidas.recovery[n] = 0
       /\ files.tidas.envelope[n] = NoEnvelope
       /\ files.eilcd.json[n] = NoDocument
       /\ (direction = "forward" \/ pc = "idle") => staging.json[n] = NoDocument

\* Every file is walked and queued once.
JobsInv ==
  /\ \A i, j \in 1 .. Len(queue) : queue[i] = queue[j] => i = j
  /\ \A i \in 1 .. Len(queue) : queue[i] \notin todo
  /\ pc = "idle" => queue = <<>>

Pending(p) == p \in todo \/ \E i \in 1 .. Len(queue) : queue[i] = p

Adapted(package, n) ==
  /\ package.recovery[n] # 0 => <<n, package.recovery[n]>> \in adapted
  /\ package.json[n].fragment = "rich" => <<n, package.json[n].data>> \in adapted

\* A recovery in any tree, and a restored fragment, is of data once projected.
FragmentInv ==
  /\ \A n \in Names : Adapted(files.eilcd, n) /\ Adapted(files.back, n) /\ Adapted(staging, n)
  /\ pc \in {"recover", "merge"} => hand.document.data # 0
  /\ pc \in {"recover", "merge"} /\ hand.document.fragment = "rich" =>
       <<hand.name, hand.document.data>> \in adapted

Fragment(recovery) == IF recovery = 0 THEN "plain" ELSE "rich"

\* What the eILCD package says the document was.
Restored(n) == [data |-> files.eilcd.xml[n], fragment |-> Fragment(files.eilcd.recovery[n]),
                envelope |-> files.eilcd.envelope[n]]

Held(n) ==
  /\ pc \in {"recover", "merge"}
  /\ hand.name = n
  /\ hand.document.data = files.eilcd.xml[n]
  /\ hand.document.fragment = IF pc = "recover" THEN "plain" ELSE Restored(n).fragment

\* A reverse run that nobody disturbs: every eILCD document is still to be
\* converted, in hand, or restored in the staging tree; every envelope is
\* still to be looked at, or has its document.
Reversing == pc # "idle" /\ direction = "reverse" /\ stage = "convert" /\ quiet

ReverseInv ==
  Reversing =>
    /\ \A n \in Names : files.eilcd.xml[n] # 0 =>
         Pending([name |-> n, kind |-> "xml"]) \/ Held(n) \/ staging.json[n] = Restored(n)
    /\ \A n \in Names : files.eilcd.envelope[n] # NoEnvelope =>
         [name |-> n, kind |-> "envelope"] \in todo \/ files.eilcd.xml[n] # 0
    /\ pc = "send" => \A p \in Paths : Comes(p) => p.kind \notin Sidecars
    /\ pc \in {"recover", "merge"} => Held(hand.name)

MirrorInv ==
  mirror => \A n \in Names :
    /\ files.eilcd.xml[n] # 0 => files.back.json[n] = Restored(n)
    /\ files.eilcd.envelope[n] # NoEnvelope => files.eilcd.xml[n] # 0

\* The package has of n what its conversion wrote.
Holds(package, n, document) ==
  /\ document.data # 0
  /\ package.xml[n] = document.data
  /\ package.envelope[n] = document.envelope
  /\ package.recovery[n] = IF document.fragment = "rich" THEN document.data ELSE 0

Bare(package, n) ==
  package.xml[n] = 0 /\ package.envelope[n] = NoEnvelope /\ package.recovery[n] = 0

\* A forward run: a document is read once, and of a dataset that the output
\* did not have the staging tree holds what its conversion wrote.
ForwardInv ==
  /\ pc # "idle" /\ stage = "copy" => \A n \in Names : read[n] = NoDocument
  /\ pc # "idle" /\ stage = "convert" /\ direction = "forward" =>
       /\ \A n \in Names : Pending([name |-> n, kind |-> "json"]) => read[n] = NoDocument
       /\ \A n \in bare : IF read[n] = NoDocument THEN Bare(staging, n)
                                                  ELSE Holds(staging, n, read[n])

OriginInv ==
  untouched => \A n \in clean : origin[n] # NoDocument => Holds(files.eilcd, n, origin[n])

-----------------------------------------------------------------------------
(* Types *)

LEMMA EmptyType == Empty \in Packages /\ 0 \in Stored /\ NoDocument \in Documents
<1>1. 0 \in Stored
  BY ConversionAssumption DEF Stored
<1>2. NoDocument \in Documents
  BY <1>1 DEF NoDocument, Documents, Fragments
<1> QED BY <1>1, <1>2 DEF Empty, Packages

\* A file put into a package leaves it a package.
LEMMA PutType ==
  ASSUME NEW package \in Packages, NEW n \in Names, NEW kind \in Kinds,
         NEW content \in IF kind = "json" THEN Documents
                         ELSE IF kind = "envelope" THEN Envelopes \cup {NoEnvelope} ELSE Stored
  PROVE  Put(package, n, kind, content) \in Packages
<1>1. CASE kind = "json"
  BY <1>1 DEF Put, Packages
<1>2. CASE kind = "envelope"
  BY <1>2 DEF Put, Packages
<1>3. CASE kind = "recovery"
  BY <1>3 DEF Put, Packages
<1>4. CASE kind = "xml"
  BY <1>4 DEF Put, Packages
<1> QED BY <1>1, <1>2, <1>3, <1>4 DEF Kinds

\* What a file of a package holds.
LEMMA ContentType ==
  ASSUME NEW package \in Packages, NEW n \in Names, NEW kind \in Kinds
  PROVE  package[kind][n] \in IF kind = "json" THEN Documents
                              ELSE IF kind = "envelope" THEN Envelopes \cup {NoEnvelope}
                              ELSE Stored
BY DEF Packages, Kinds

LEMMA JobType ==
  ASSUME TypeOK, Dequeue
  PROVE  /\ Job \in Paths
         /\ queue' \in Seq(Paths)
BY DEF TypeOK, Dequeue, Job

LEMMA EnqueueType ==
  ASSUME TypeOK, NEW p \in Paths, Enqueue(p)
  PROVE  queue' \in Seq(Paths) /\ todo' \subseteq Paths
BY DEF TypeOK, Enqueue

LEMMA StopsType ==
  ASSUME TypeOK, Stops
  PROVE  /\ direction' \in {"forward", "reverse"} /\ stage' \in {"copy", "convert"}
         /\ pc' = "idle" /\ todo' = {} /\ queue' = <<>> /\ queue' \in Seq(Paths)
         /\ staging' = Empty /\ staging' \in Packages
         /\ hand' = hand
BY EmptyType DEF TypeOK, Stops

LEMMA TypeInvariance == Init /\ [][Next]_vars => []TypeOK
<1>1. Init => TypeOK
  <2> SUFFICES ASSUME Init PROVE TypeOK
    OBVIOUS
  <2>1. files \in [tidas : Packages, eilcd : Packages, back : Packages]
    BY EmptyType DEF Init, Packages
  <2>2. hand \in [name : Names, document : Documents]
    BY ConversionAssumption DEF Init, Names, Documents, NoDocument, Stored, Fragments
  <2>3. Empty.json \in [Names -> Documents]
    BY EmptyType DEF Packages
  <2>4. /\ direction \in {"forward", "reverse"} /\ stage \in {"copy", "convert"}
        /\ pc \in {"idle", "walk", "send", "process", "recover", "merge"}
        /\ todo \subseteq Paths /\ queue \in Seq(Paths)
    BY DEF Init
  <2>5. /\ staging \in Packages
        /\ read \in [Names -> Documents] /\ origin \in [Names -> Documents]
        /\ bare \subseteq Names /\ clean \subseteq Names
        /\ adapted \subseteq Names \X Stored
        /\ untouched \in BOOLEAN /\ quiet \in BOOLEAN /\ mirror \in BOOLEAN
    BY <2>3, EmptyType DEF Init
  <2> QED BY <2>1, <2>2, <2>4, <2>5 DEF TypeOK
<1>2. TypeOK /\ [Next]_vars => TypeOK'
  <2> SUFFICES ASSUME TypeOK, [Next]_vars PROVE TypeOK'
    OBVIOUS
  <2>1. ASSUME NEW d \in {"forward", "reverse"}, Start(d) PROVE TypeOK'
    <3>1. Walk(files[IF d = "forward" THEN "eilcd" ELSE "back"]) \subseteq Paths
      BY DEF Walk
    <3>2. Empty.json \in [Names -> Documents]
      BY EmptyType DEF Packages
    <3> QED BY <2>1, <3>1, <3>2 DEF Start, TypeOK
  <2>2. CASE NextEntry
    <3>1. todo' \subseteq Paths
      BY <2>2, StopsType DEF NextEntry, TypeOK
    <3>2. pc' \in {"idle", "send", "walk"} /\ direction' = direction /\ stage' = stage /\ hand' = hand
      BY <2>2 DEF NextEntry, Stops
    <3>3. queue' \in Seq(Paths) /\ staging' \in Packages
      BY <2>2, StopsType DEF NextEntry, TypeOK
    <3> QED BY <2>2, <3>1, <3>2, <3>3 DEF NextEntry, TypeOK, history
  <2>3. CASE Send
    BY <2>3, EnqueueType DEF Send, TypeOK, history
  <2>4. CASE Drain
    <3>1. Walk(files[Input]) \subseteq Paths
      BY DEF Walk
    <3> QED BY <2>4, <3>1 DEF Drain, TypeOK
  <2>5. CASE CopyFile
    <3> DEFINE package == files[IF stage = "copy" THEN Output ELSE Input]
    <3>1. Job \in Paths /\ queue' \in Seq(Paths)
      BY <2>5, JobType DEF CopyFile
    <3>2. package \in Packages
      BY DEF TypeOK, Input, Output
    <3>3. staging' = Put(staging, Job.name, Job.kind, package[Job.kind][Job.name])
      BY <2>5 DEF CopyFile
    <3>4. Job.name \in Names /\ Job.kind \in Kinds
      BY <3>1 DEF Paths
    <3>5. staging' \in Packages
      BY <3>2, <3>3, <3>4, PutType, ContentType DEF TypeOK
    <3>6. /\ pc' = "walk"
          /\ UNCHANGED <<files, direction, stage, todo, hand, history>>
      BY <2>5 DEF CopyFile
    <3> QED BY <3>1, <3>5, <3>6 DEF TypeOK, history
  <2>6. CASE ConvertForward
    <3>1. Job \in Paths /\ queue' \in Seq(Paths)
      BY <2>6, JobType DEF ConvertForward
    <3> DEFINE n == Job.name
               document == files.tidas.json[n]
    <3>2. n \in Names /\ document \in Documents
      BY <3>1 DEF Paths, TypeOK, Packages
    <3>3. document.data \in Stored /\ document.envelope \in Envelopes \cup {NoEnvelope}
      BY <3>2 DEF Documents
    <3>4. read' = [read EXCEPT ![n] = document] /\ adapted' \subseteq adapted \cup {<<n, document.data>>}
      BY <2>6 DEF ConvertForward
    <3>5. read' \in [Names -> Documents] /\ adapted' \subseteq Names \X Stored
      BY <3>2, <3>3, <3>4 DEF TypeOK
    <3>6. staging' \in Packages
      BY <2>6, <3>2, <3>3 DEF ConvertForward, TypeOK, Packages
    <3>7. /\ pc' = "walk"
          /\ UNCHANGED <<files, direction, stage, todo, hand, origin, bare, clean, untouched, quiet, mirror>>
      BY <2>6 DEF ConvertForward
    <3> QED BY <3>1, <3>5, <3>6, <3>7 DEF TypeOK
  <2>7. CASE ConvertReverse
    <3>1. Job \in Paths /\ queue' \in Seq(Paths)
      BY <2>7, JobType DEF ConvertReverse
    <3>2. hand' = [name |-> Job.name,
                   document |-> [NoDocument EXCEPT !.data = files.eilcd.xml[Job.name]]]
      BY <2>7 DEF ConvertReverse
    <3>3. Job.name \in Names /\ files.eilcd.xml[Job.name] \in Stored
      BY <3>1 DEF Paths, TypeOK, Packages
    <3>4. hand' \in [name : Names, document : Documents]
      BY <3>2, <3>3 DEF Documents, NoDocument, Fragments
    <3> QED BY <2>7, <3>1, <3>4 DEF ConvertReverse, TypeOK, history
  <2>8. CASE Recover
    <3>1. todo' \subseteq Paths /\ queue' \in Seq(Paths) /\ staging' \in Packages
      BY <2>8, StopsType DEF Recover, TypeOK
    <3>2. hand' \in [name : Names, document : Documents]
      BY <2>8 DEF Recover, Stops, TypeOK, Documents, Fragments
    <3>3. /\ pc' \in {"idle", "merge"} /\ direction' = direction /\ stage' = stage
      BY <2>8 DEF Recover, Stops
    <3> QED BY <2>8, <3>1, <3>2, <3>3 DEF Recover, TypeOK, history
  <2>9. CASE Merge
    <3>1. hand.name \in Names /\ hand.document \in Documents
      BY DEF TypeOK
    <3>2. files.eilcd.envelope[hand.name] \in Envelopes \cup {NoEnvelope}
      BY <3>1 DEF TypeOK, Packages
    <3> DEFINE document == [hand.document EXCEPT !.envelope = files.eilcd.envelope[hand.name]]
    <3>3. document \in Documents
      BY <3>1, <3>2 DEF Documents
    <3>4. staging' = Put(staging, hand.name, "json", document)
      BY <2>9 DEF Merge
    <3>5. staging' \in Packages
      <4> HIDE DEF document
      <4> QED BY <3>1, <3>3, <3>4, PutType DEF TypeOK, Kinds
    <3> QED BY <2>9, <3>5 DEF Merge, TypeOK, history
  <2>10. CASE Publish
    <3>1. files' \in [tidas : Packages, eilcd : Packages, back : Packages]
      BY <2>10 DEF Publish, Output, TypeOK
    <3> QED BY <2>10, <3>1, EmptyType DEF Publish, TypeOK
  <2>11. CASE Fail
    BY <2>11, StopsType DEF Fail, TypeOK, history
  <2>12. ASSUME NEW n \in Names, NEW document \in Documents, EditTidas(n, document) PROVE TypeOK'
    <3>1. files' \in [tidas : Packages, eilcd : Packages, back : Packages]
      BY <2>12 DEF EditTidas, TypeOK, Packages
    <3> QED BY <2>12, <3>1 DEF EditTidas, TypeOK, run, history
  <2>13. ASSUME NEW n \in Names, NEW kind \in Kinds, NEW content, EditEilcd(n, kind, content),
                content \in IF kind = "json" THEN Documents
                            ELSE IF kind = "envelope" THEN Envelopes \cup {NoEnvelope} ELSE Stored
         PROVE  TypeOK'
    <3>1. Put(files.eilcd, n, kind, content) \in Packages
      BY <2>13, PutType DEF TypeOK
    <3>2. files' = [files EXCEPT !.eilcd = Put(files.eilcd, n, kind, content)]
      BY <2>13 DEF EditEilcd
    <3>3. files' \in [tidas : Packages, eilcd : Packages, back : Packages]
      BY <3>1, <3>2 DEF TypeOK
    <3> QED BY <2>13, <3>3 DEF EditEilcd, TypeOK, run
  <2>14. CASE Edit
    <3>1. \A n \in Names, data \in Stored : EditEilcd(n, "xml", data) => TypeOK'
      BY <2>13 DEF Kinds
    <3>2. \A n \in Names : EditEilcd(n, "recovery", 0) => TypeOK'
      BY <2>13, EmptyType DEF Kinds
    <3>3. \A n \in Names : EditEilcd(n, "envelope", NoEnvelope) => TypeOK'
      BY <2>13 DEF Kinds
    <3> QED BY <2>12, <2>14, <3>1, <3>2, <3>3 DEF Edit
  <2>15. CASE UNCHANGED vars
    BY <2>15 DEF vars, run, history, TypeOK
  <2> QED
    BY <2>1, <2>2, <2>3, <2>4, <2>5, <2>6, <2>7, <2>8, <2>9, <2>10, <2>11, <2>14, <2>15
    DEF Next, Step, Rest
<1> QED BY <1>1, <1>2, PTL
-----------------------------------------------------------------------------
(* The queue and the trees *)

LEMMA DequeueFacts ==
  ASSUME TypeOK, Dequeue
  PROVE  /\ Len(queue) \in Nat \ {0} /\ Len(queue') = Len(queue) - 1
         /\ Job \in Paths /\ Job = queue[1] /\ Job.name \in Names /\ Job.kind \in Kinds
         /\ \A i \in 1 .. Len(queue') : queue'[i] = queue[i + 1]
         /\ \A i \in 1 .. Len(queue) : queue[i] = Job \/ \E j \in 1 .. Len(queue') : queue'[j] = queue[i]
<1>1. Len(queue) \in Nat \ {0} /\ Len(queue') = Len(queue) - 1
  BY DEF Dequeue, TypeOK
<1>2. Job = queue[1] /\ \A i \in 1 .. Len(queue') : queue'[i] = queue[i + 1]
  BY <1>1 DEF Dequeue, TypeOK, Job
<1>3. Job \in Paths
  BY JobType DEF Dequeue
<1>4. ASSUME NEW i \in 1 .. Len(queue), i # 1
      PROVE  \E j \in 1 .. Len(queue') : queue'[j] = queue[i]
  <2>1. i - 1 \in 1 .. Len(queue') /\ queue'[i - 1] = queue[i - 1 + 1] /\ i - 1 + 1 = i
    BY <1>1, <1>2, <1>4
  <2> QED BY <2>1
<1> QED BY <1>1, <1>2, <1>3, <1>4 DEF Paths

LEMMA EnqueueFacts ==
  ASSUME TypeOK, NEW p \in Paths, Enqueue(p)
  PROVE  /\ Len(queue) \in Nat /\ Len(queue') = Len(queue) + 1
         /\ queue'[Len(queue) + 1] = p
         /\ \A i \in 1 .. Len(queue) : queue'[i] = queue[i]
         /\ todo' = todo \ {p}
BY DEF Enqueue, TypeOK

\* The four fields of a package after a Put.
LEMMA PutFacts ==
  ASSUME NEW package \in Packages, NEW n \in Names, NEW kind \in Kinds, NEW content
  PROVE  LET put == Put(package, n, kind, content)
         IN /\ put.json = IF kind = "json" THEN [package.json EXCEPT ![n] = content] ELSE package.json
            /\ put.xml = IF kind = "xml" THEN [package.xml EXCEPT ![n] = content] ELSE package.xml
            /\ put.recovery = IF kind = "recovery" THEN [package.recovery EXCEPT ![n] = content]
                              ELSE package.recovery
            /\ put.envelope = IF kind = "envelope" THEN [package.envelope EXCEPT ![n] = content]
                              ELSE package.envelope
BY DEF Put, Packages, Kinds

\* The tree that CopyFile copies from.
Source == files[IF stage = "copy" THEN Output ELSE Input]

LEMMA CopyFacts ==
  ASSUME TypeOK, CopyFile
  PROVE  LET n == Job.name
         IN /\ Source \in Packages /\ Exists(Source, n, Job.kind)
            /\ staging'.json = IF Job.kind = "json"
                               THEN [staging.json EXCEPT ![n] = Source.json[n]] ELSE staging.json
            /\ staging'.xml = IF Job.kind = "xml"
                              THEN [staging.xml EXCEPT ![n] = Source.xml[n]] ELSE staging.xml
            /\ staging'.recovery = IF Job.kind = "recovery"
                                   THEN [staging.recovery EXCEPT ![n] = Source.recovery[n]]
                                   ELSE staging.recovery
            /\ staging'.envelope = IF Job.kind = "envelope"
                                   THEN [staging.envelope EXCEPT ![n] = Source.envelope[n]]
                                   ELSE staging.envelope
<1>1. Job.name \in Names /\ Job.kind \in Kinds
  BY DequeueFacts DEF CopyFile
<1>2. Source \in Packages
  BY DEF Source, TypeOK, Input, Output
<1>3. staging' = Put(staging, Job.name, Job.kind, Source[Job.kind][Job.name])
  BY DEF CopyFile, Source
<1>4. Exists(Source, Job.name, Job.kind)
  BY DEF CopyFile, Source
<1> DEFINE content == Source[Job.kind][Job.name]
<1>5. /\ staging'.json = IF Job.kind = "json" THEN [staging.json EXCEPT ![Job.name] = content]
                         ELSE staging.json
      /\ staging'.xml = IF Job.kind = "xml" THEN [staging.xml EXCEPT ![Job.name] = content]
                        ELSE staging.xml
      /\ staging'.recovery = IF Job.kind = "recovery"
                             THEN [staging.recovery EXCEPT ![Job.name] = content]
                             ELSE staging.recovery
      /\ staging'.envelope = IF Job.kind = "envelope"
                             THEN [staging.envelope EXCEPT ![Job.name] = content]
                             ELSE staging.envelope
  <2>1. staging \in Packages
    BY DEF TypeOK
  <2> HIDE DEF content
  <2> QED BY <1>1, <1>3, <2>1, PutFacts DEF content
<1>6. /\ Job.kind = "json" => content = Source.json[Job.name]
      /\ Job.kind = "xml" => content = Source.xml[Job.name]
      /\ Job.kind = "recovery" => content = Source.recovery[Job.name]
      /\ Job.kind = "envelope" => content = Source.envelope[Job.name]
  OBVIOUS
<1> HIDE DEF content
<1> QED BY <1>2, <1>4, <1>5, <1>6

LEMMA ConvertFacts ==
  ASSUME TypeOK, ConvertForward
  PROVE  LET n == Job.name
             document == files.tidas.json[n]
         IN /\ document \in Documents /\ document.data # 0
            /\ read' = [read EXCEPT ![n] = document]
            /\ adapted \subseteq adapted'
            /\ document.fragment = "rich" => <<n, document.data>> \in adapted'
            /\ staging'.json = staging.json
            /\ staging'.xml = [staging.xml EXCEPT ![n] = document.data]
            /\ staging'.envelope = [staging.envelope EXCEPT
                  ![n] = IF document.envelope = NoEnvelope THEN @ ELSE document.envelope]
            /\ staging'.recovery = [staging.recovery EXCEPT
                  ![n] = IF document.fragment = "plain" THEN @ ELSE document.data]
<1>1. Job.name \in Names
  BY DequeueFacts DEF ConvertForward
<1>2. files.tidas.json[Job.name] \in Documents
  BY <1>1 DEF TypeOK, Packages
<1>3. staging' = [staging EXCEPT
        !.xml[Job.name] = files.tidas.json[Job.name].data,
        !.envelope[Job.name] = IF files.tidas.json[Job.name].envelope = NoEnvelope THEN @
                               ELSE files.tidas.json[Job.name].envelope,
        !.recovery[Job.name] = IF files.tidas.json[Job.name].fragment = "plain" THEN @
                               ELSE files.tidas.json[Job.name].data]
  BY DEF ConvertForward
<1>4. files.tidas.json[Job.name].fragment = "rich" =>
        <<Job.name, files.tidas.json[Job.name].data>> \in adapted'
  BY DEF ConvertForward
<1>5. /\ files.tidas.json[Job.name].data # 0
      /\ read' = [read EXCEPT ![Job.name] = files.tidas.json[Job.name]]
      /\ adapted \subseteq adapted'
  BY DEF ConvertForward
<1>6. staging \in Packages
  BY DEF TypeOK
<1>7. /\ staging'.json = staging.json
      /\ staging'.xml = [staging.xml EXCEPT ![Job.name] = files.tidas.json[Job.name].data]
      /\ staging'.envelope = [staging.envelope EXCEPT
            ![Job.name] = IF files.tidas.json[Job.name].envelope = NoEnvelope THEN @
                          ELSE files.tidas.json[Job.name].envelope]
      /\ staging'.recovery = [staging.recovery EXCEPT
            ![Job.name] = IF files.tidas.json[Job.name].fragment = "plain" THEN @
                          ELSE files.tidas.json[Job.name].data]
  BY <1>3, <1>6 DEF Packages
<1> QED BY <1>2, <1>4, <1>5, <1>7

LEMMA MergeFacts ==
  ASSUME TypeOK, Merge
  PROVE  /\ staging'.json = [staging.json EXCEPT ![hand.name] =
              [hand.document EXCEPT !.envelope = files.eilcd.envelope[hand.name]]]
         /\ staging'.xml = staging.xml /\ staging'.recovery = staging.recovery
         /\ staging'.envelope = staging.envelope
         /\ hand.name \in Names /\ hand.document \in Documents
<1>1. hand.name \in Names /\ hand.document \in Documents
  BY DEF TypeOK
<1>2. staging' = Put(staging, hand.name, "json",
              [hand.document EXCEPT !.envelope = files.eilcd.envelope[hand.name]])
  BY DEF Merge
<1> QED BY <1>1, <1>2, PutFacts DEF TypeOK, Kinds

LEMMA PublishFacts ==
  ASSUME TypeOK, Publish
  PROVE  /\ files'.tidas = files.tidas
         /\ files'.eilcd = IF direction = "forward" THEN staging ELSE files.eilcd
         /\ files'.back = IF direction = "forward" THEN files.back ELSE staging
BY DEF TypeOK, Publish, Output

LEMMA EditFacts ==
  ASSUME TypeOK, Edit
  PROVE  /\ files'.back = files.back
         /\ UNCHANGED <<direction, stage, pc, todo, queue, staging, hand, read, origin, bare, clean, adapted>>
         /\ \/ /\ files'.eilcd = files.eilcd
               /\ files'.tidas.xml = files.tidas.xml /\ files'.tidas.recovery = files.tidas.recovery
               /\ files'.tidas.envelope = files.tidas.envelope
               /\ UNCHANGED <<untouched, quiet, mirror>>
            \/ /\ files'.tidas = files.tidas /\ files'.eilcd.json = files.eilcd.json
               /\ \A m \in Names : files'.eilcd.recovery[m] \in {0, files.eilcd.recovery[m]}
               /\ ~untouched' /\ ~quiet' /\ ~mirror'
<1>1. ASSUME NEW n \in Names, NEW document \in Documents, EditTidas(n, document)
      PROVE  /\ files'.back = files.back /\ files'.eilcd = files.eilcd
             /\ files'.tidas.xml = files.tidas.xml /\ files'.tidas.recovery = files.tidas.recovery
             /\ files'.tidas.envelope = files.tidas.envelope
             /\ UNCHANGED <<run, history>>
  BY <1>1 DEF EditTidas, TypeOK, Packages
<1>2. ASSUME NEW n \in Names, NEW kind \in Kinds \ {"json"}, NEW content,
             EditEilcd(n, kind, content), kind = "recovery" => content = 0
      PROVE  /\ files'.back = files.back
             /\ files'.tidas = files.tidas /\ files'.eilcd.json = files.eilcd.json
             /\ \A m \in Names : files'.eilcd.recovery[m] \in {0, files.eilcd.recovery[m]}
             /\ ~untouched' /\ ~quiet' /\ ~mirror'
             /\ UNCHANGED <<run, read, origin, bare, clean, adapted>>
  <2>1. files' = [files EXCEPT !.eilcd = Put(files.eilcd, n, kind, content)]
    BY <1>2 DEF EditEilcd
  <2>2. files'.back = files.back /\ files'.tidas = files.tidas
        /\ files'.eilcd = Put(files.eilcd, n, kind, content)
    BY <2>1 DEF TypeOK
  <2>3. /\ files'.eilcd.json = files.eilcd.json
        /\ files'.eilcd.recovery = IF kind = "recovery" THEN [files.eilcd.recovery EXCEPT ![n] = content]
                                   ELSE files.eilcd.recovery
    <3> DEFINE eilcd == files.eilcd
    <3>1. eilcd \in Packages
      BY DEF TypeOK
    <3>2. kind \in Kinds /\ kind # "json" /\ n \in Names
      BY <1>2
    <3>3. /\ Put(eilcd, n, kind, content).json = eilcd.json
          /\ Put(eilcd, n, kind, content).recovery =
               IF kind = "recovery" THEN [eilcd.recovery EXCEPT ![n] = content] ELSE eilcd.recovery
      <4> HIDE DEF eilcd
      <4> QED BY <3>1, <3>2 DEF Put, Packages, Kinds
    <3> QED BY <2>2, <3>3
  <2>4. files.eilcd.recovery \in [Names -> Stored]
    BY DEF TypeOK, Packages
  <2> QED BY <1>2, <2>2, <2>3, <2>4 DEF EditEilcd
<1>3. CASE \E n \in Names, document \in Documents : EditTidas(n, document)
  BY <1>1, <1>3 DEF run, history
<1>4. CASE \E n \in Names, data \in Stored : EditEilcd(n, "xml", data)
  BY <1>2, <1>4 DEF run, Kinds
<1>5. CASE \E n \in Names : EditEilcd(n, "recovery", 0)
  BY <1>2, <1>5 DEF run, Kinds
<1>6. CASE \E n \in Names : EditEilcd(n, "envelope", NoEnvelope)
  BY <1>2, <1>6 DEF run, Kinds
<1> QED BY <1>3, <1>4, <1>5, <1>6 DEF Edit

LEMMA TreesInvariance == Init /\ [][Next]_vars => []TreesInv
<1>1. Init => TreesInv
  BY DEF Init, TreesInv, Empty
<1>2. TypeOK /\ TreesInv /\ [Next]_vars => TreesInv'
  <2> SUFFICES ASSUME TypeOK, TreesInv, [Next]_vars PROVE TreesInv'
    OBVIOUS
  <2> USE DEF TreesInv
  <2>0. ASSUME Stops, files' = files PROVE TreesInv'
    BY <2>0 DEF Stops, Empty
  <2>1. ASSUME NEW d \in {"forward", "reverse"}, Start(d) PROVE TreesInv'
    BY <2>1 DEF Start
  <2>2. CASE NextEntry
    BY <2>0, <2>2 DEF NextEntry
  <2>3. CASE Send
    BY <2>3 DEF Send
  <2>4. CASE Drain
    BY <2>4 DEF Drain
  <2>5. CASE CopyFile
    <3>1. pc = "process" /\ pc' = "walk" /\ files' = files /\ direction' = direction
      BY <2>5 DEF CopyFile, Dequeue
    <3>2. direction = "forward" => staging'.json = staging.json
      <4>1. Job.kind = "json" /\ direction = "forward" => stage = "copy" /\ Source = files.eilcd
        BY <2>5 DEF CopyFile, IsConvertible, Source, Output
      <4>2. Job.name \in Names
        BY <2>5, DequeueFacts DEF CopyFile
      <4>3. Job.kind = "json" /\ direction = "forward" => ~Exists(Source, Job.name, Job.kind)
        BY <4>1, <4>2 DEF Exists, NoDocument
      <4> QED BY <2>5, <4>3, CopyFacts
    <3> QED BY <3>1, <3>2
  <2>6. CASE ConvertForward
    <3>1. pc = "process" /\ pc' = "walk" /\ files' = files /\ direction' = direction
      BY <2>6 DEF ConvertForward, Dequeue
    <3>2. staging'.json = staging.json
      BY <2>6, ConvertFacts
    <3> QED BY <3>1, <3>2
  <2>7. CASE ConvertReverse
    BY <2>7 DEF ConvertReverse, IsConvertible, Dequeue
  <2>8. CASE Recover
    BY <2>0, <2>8 DEF Recover
  <2>9. CASE Merge
    BY <2>9 DEF Merge
  <2>10. CASE Publish
    <3>1. pc' = "idle" /\ staging' = Empty /\ direction' = direction
      BY <2>10 DEF Publish
    <3> QED BY <2>10, <3>1, PublishFacts DEF Empty
  <2>11. CASE Fail
    BY <2>0, <2>11 DEF Fail
  <2>12. CASE Edit
    BY <2>12, EditFacts
  <2>13. CASE UNCHANGED vars
    BY <2>13 DEF vars, run
  <2> QED
    BY <2>1, <2>2, <2>3, <2>4, <2>5, <2>6, <2>7, <2>8, <2>9, <2>10, <2>11, <2>12, <2>13
    DEF Next, Step, Rest
<1> QED BY <1>1, <1>2, TypeInvariance, PTL

LEMMA JobsInvariance == Init /\ [][Next]_vars => []JobsInv
<1>1. Init => JobsInv
  BY DEF Init, JobsInv
<1>2. TypeOK /\ JobsInv /\ [Next]_vars => JobsInv'
  <2> SUFFICES ASSUME TypeOK, JobsInv, [Next]_vars PROVE JobsInv'
    OBVIOUS
  <2> USE DEF JobsInv
  <2>0. ASSUME Stops PROVE JobsInv'
    BY <2>0 DEF Stops
  <2>a. ASSUME Dequeue, todo' = todo, pc' # "idle" PROVE JobsInv'
    <3>1. \A i \in 1 .. Len(queue') : i + 1 \in 1 .. Len(queue) /\ queue'[i] = queue[i + 1]
      BY <2>a, DequeueFacts
    <3> QED BY <2>a, <3>1, DequeueFacts
  <2>b. ASSUME NEW p \in Paths, Comes(p), Enqueue(p), pc' # "idle" PROVE JobsInv'
    <3>1. /\ Len(queue) \in Nat /\ Len(queue') = Len(queue) + 1
          /\ queue'[Len(queue) + 1] = p /\ todo' = todo \ {p} /\ p \in todo
          /\ \A i \in 1 .. Len(queue) : queue'[i] = queue[i]
      BY <2>b, EnqueueFacts DEF Comes
    <3>2. \A i \in 1 .. Len(queue') : i \in 1 .. Len(queue) \/ i = Len(queue) + 1
      BY <3>1
    <3> QED BY <2>b, <3>1, <3>2
  <2>1. ASSUME NEW d \in {"forward", "reverse"}, Start(d) PROVE JobsInv'
    BY <2>1 DEF Start
  <2>2. CASE NextEntry
    BY <2>0, <2>2 DEF NextEntry
  <2>3. CASE Send
    BY <2>3, <2>b DEF Send
  <2>4. CASE Drain
    BY <2>4 DEF Drain
  <2>5. CASE CopyFile
    BY <2>5, <2>a DEF CopyFile
  <2>6. CASE ConvertForward
    BY <2>6, <2>a DEF ConvertForward
  <2>7. CASE ConvertReverse
    BY <2>7, <2>a DEF ConvertReverse
  <2>8. CASE Recover
    BY <2>0, <2>8 DEF Recover
  <2>9. CASE Merge
    BY <2>9 DEF Merge
  <2>10. CASE Publish
    BY <2>10 DEF Publish
  <2>11. CASE Fail
    BY <2>0, <2>11 DEF Fail
  <2>12. CASE Edit
    BY <2>12, EditFacts
  <2>13. CASE UNCHANGED vars
    BY <2>13 DEF vars, run
  <2> QED
    BY <2>1, <2>2, <2>3, <2>4, <2>5, <2>6, <2>7, <2>8, <2>9, <2>10, <2>11, <2>12, <2>13
    DEF Next, Step, Rest
<1> QED BY <1>1, <1>2, TypeInvariance, PTL

-----------------------------------------------------------------------------
(* Fragments *)

LEMMA FragmentInvariance == Init /\ [][Next]_vars => []FragmentInv
<1>1. Init => FragmentInv
  BY DEF Init, FragmentInv, Adapted, Empty, NoDocument
<1>2. TypeOK /\ TreesInv /\ FragmentInv /\ [Next]_vars => FragmentInv'
  <2> SUFFICES ASSUME TypeOK, TreesInv, FragmentInv, [Next]_vars PROVE FragmentInv'
    OBVIOUS
  <2> USE DEF FragmentInv, Adapted
  <2>0. ASSUME Stops, files' = files, adapted' = adapted PROVE FragmentInv'
    BY <2>0 DEF Stops, Empty, NoDocument
  <2>1. ASSUME NEW d \in {"forward", "reverse"}, Start(d) PROVE FragmentInv'
    BY <2>1 DEF Start
  <2>2. CASE NextEntry
    BY <2>0, <2>2 DEF NextEntry, history
  <2>3. CASE Send
    BY <2>3 DEF Send, history
  <2>4. CASE Drain
    BY <2>4 DEF Drain
  <2>5. CASE CopyFile
    <3>1. pc' = "walk" /\ files' = files /\ adapted' = adapted
      BY <2>5 DEF CopyFile, history
    <3>2. \/ Source \in {files.eilcd, files.back}
          \/ Source = files.tidas /\ Job.kind # "json"
      BY <2>5 DEF CopyFile, IsConvertible, Source, Input, Output, TypeOK
    <3>3. Job.name \in Names
      BY <2>5, DequeueFacts DEF CopyFile
    <3>4. staging \in Packages /\ Source \in Packages
      BY <2>5, CopyFacts DEF TypeOK
    <3>5. ASSUME NEW n \in Names PROVE Adapted(staging, n)'
      <4>1. /\ staging'.recovery[n] \in {staging.recovery[n], Source.recovery[n]}
            /\ Job.kind # "json" => staging'.json[n] = staging.json[n]
            /\ Job.kind = "json" => staging'.json[n] \in {staging.json[n], Source.json[n]}
        <5>1. /\ staging'.recovery = IF Job.kind = "recovery"
                                      THEN [staging.recovery EXCEPT ![Job.name] = Source.recovery[Job.name]]
                                      ELSE staging.recovery
              /\ staging'.json = IF Job.kind = "json"
                                  THEN [staging.json EXCEPT ![Job.name] = Source.json[Job.name]]
                                  ELSE staging.json
          BY <2>5, CopyFacts
        <5>2. /\ DOMAIN staging.recovery = Names /\ DOMAIN staging.json = Names
          BY <3>4 DEF Packages
        <5> QED BY <3>3, <5>1, <5>2
      <4>2. CASE Source \in {files.eilcd, files.back}
        BY <3>1, <4>1, <4>2
      <4>3. CASE Source = files.tidas /\ Job.kind # "json"
        BY <3>1, <4>1, <4>3 DEF TreesInv
      <4> QED BY <3>2, <4>2, <4>3
    <3> QED BY <3>1, <3>5
  <2>6. CASE ConvertForward
    <3> DEFINE n == Job.name
               document == files.tidas.json[n]
    <3>1. pc' = "walk" /\ files' = files
      BY <2>6 DEF ConvertForward
    <3>2. n \in Names /\ document \in Documents /\ staging \in Packages
      BY <2>6, DequeueFacts, ConvertFacts DEF ConvertForward, TypeOK
    <3>3. document.fragment \in {"plain", "rich"}
      BY <3>2 DEF Documents, Fragments
    <3>4. /\ adapted \subseteq adapted'
          /\ document.fragment = "rich" => <<n, document.data>> \in adapted'
          /\ staging'.json = staging.json
          /\ staging'.recovery = [staging.recovery EXCEPT
                ![n] = IF document.fragment = "plain" THEN @ ELSE document.data]
      BY <2>6, ConvertFacts
    <3>5. \A m \in Names \ {n} : staging'.recovery[m] = staging.recovery[m]
      BY <3>2, <3>4 DEF Packages
    <3>6. staging'.recovery[n] = IF document.fragment = "plain" THEN staging.recovery[n] ELSE document.data
      BY <3>2, <3>4 DEF Packages
    <3> HIDE DEF document, n
    <3>7. ASSUME NEW m \in Names PROVE Adapted(staging, m)'
      BY <3>3, <3>4, <3>5, <3>6
    <3>8. ASSUME NEW m \in Names PROVE Adapted(files.eilcd, m)' /\ Adapted(files.back, m)'
      BY <3>1, <3>4
    <3> QED BY <3>1, <3>7, <3>8
  <2>7. CASE ConvertReverse
    <3>1. /\ pc' = "recover" /\ files' = files /\ staging' = staging /\ adapted' = adapted
          /\ hand'.document.data = files.eilcd.xml[Job.name] /\ hand'.document.fragment = "plain"
      BY <2>7 DEF ConvertReverse, history, NoDocument
    <3>2. files.eilcd.xml[Job.name] # 0
      BY <2>7 DEF ConvertReverse, Exists
    <3> QED BY <3>1, <3>2
  <2>8. CASE Recover
    <3> DEFINE recovery == files.eilcd.recovery[hand.name]
    <3>1. files' = files /\ adapted' = adapted /\ hand \in [name : Names, document : Documents]
      BY <2>8 DEF Recover, history, TypeOK
    <3>2. CASE recovery = 0
      <4>1. pc = "recover" /\ pc' = "merge" /\ hand' = hand /\ staging' = staging
        BY <2>8, <3>1, <3>2 DEF Recover
      <4> QED BY <3>1, <4>1
    <3>3. CASE recovery = hand.document.data /\ recovery # 0
      <4>1. /\ hand' = [hand EXCEPT !.document.fragment = "rich"]
            /\ staging' = staging /\ pc' = "merge"
        BY <2>8, <3>3 DEF Recover
      <4>2. hand'.name = hand.name /\ hand'.document.data = hand.document.data
        BY <3>1, <4>1 DEF Documents
      <4>3. <<hand.name, recovery>> \in adapted
        BY <3>1, <3>3
      <4>4. <<hand'.name, hand'.document.data>> \in adapted'
        BY <3>1, <3>3, <4>2, <4>3
      <4> HIDE DEF recovery
      <4> QED BY <3>1, <3>3, <4>1, <4>2, <4>4
    <3>4. CASE recovery \notin {0, hand.document.data}
      BY <2>0, <2>8, <3>1, <3>4 DEF Recover
    <3> QED BY <3>2, <3>3, <3>4
  <2>9. CASE Merge
    <3> DEFINE document == [hand.document EXCEPT !.envelope = files.eilcd.envelope[hand.name]]
    <3>1. pc = "merge" /\ pc' = "walk" /\ files' = files /\ adapted' = adapted
      BY <2>9 DEF Merge, history
    <3>2. /\ staging'.json = [staging.json EXCEPT ![hand.name] = document]
          /\ staging'.recovery = staging.recovery
          /\ hand.name \in Names /\ hand.document \in Documents
      BY <2>9, MergeFacts
    <3>3. document.data = hand.document.data /\ document.fragment = hand.document.fragment
      BY <3>2 DEF Documents
    <3>4. staging.json \in [Names -> Documents]
      BY DEF TypeOK, Packages
    <3> HIDE DEF document
    <3>5. ASSUME NEW m \in Names PROVE Adapted(staging, m)'
      BY <3>1, <3>2, <3>3, <3>4
    <3> QED BY <3>1, <3>5
  <2>10. CASE Publish
    <3>1. pc' = "idle" /\ staging' = Empty /\ adapted' = adapted
      BY <2>10 DEF Publish
    <3>2. ASSUME NEW m \in Names PROVE Adapted(staging, m)'
      BY <3>1 DEF Empty, NoDocument
    <3> QED BY <2>10, <3>1, <3>2, PublishFacts
  <2>11. CASE Fail
    BY <2>0, <2>11 DEF Fail, history
  <2>12. CASE Edit
    <3>1. ASSUME NEW m \in Names PROVE Adapted(files.eilcd, m)'
      BY <2>12, EditFacts
    <3> QED BY <2>12, <3>1, EditFacts
  <2>13. CASE UNCHANGED vars
    BY <2>13 DEF vars, run, history
  <2> QED
    BY <2>1, <2>2, <2>3, <2>4, <2>5, <2>6, <2>7, <2>8, <2>9, <2>10, <2>11, <2>12, <2>13
    DEF Next, Step, Rest
<1> QED BY <1>1, <1>2, TypeInvariance, TreesInvariance, PTL

\* A fragment is restored only to the data it was taken from, however users
\* edit and runs fail (merge_projection_recovery and its hash).
THEOREM FragmentsFit == Spec => []FragmentsFitTheirData
<1>1. FragmentInv => FragmentsFitTheirData
  BY DEF FragmentInv, FragmentsFitTheirData, Adapted
<1> QED BY <1>1, FragmentInvariance, PTL DEF Spec
-----------------------------------------------------------------------------
(* The way back *)

LEMMA ComesUnique ==
  ASSUME TypeOK, NEW p \in Paths, NEW q \in Paths, Comes(p), Comes(q)
  PROVE  p = q
<1>1. Precedes(p, q) /\ Precedes(q, p)
  BY DEF Comes
<1>2. p.name \in Nat /\ q.name \in Nat
  BY ConversionAssumption DEF Paths, Names
<1>3. /\ p.kind \in Kinds /\ q.kind \in Kinds
      /\ p = [name |-> p.name, kind |-> p.kind] /\ q = [name |-> q.name, kind |-> q.kind]
  BY DEF Paths
<1>4. \A k, l \in Kinds : /\ KindOrder[k] \in Nat
                          /\ KindOrder[k] = KindOrder[l] => k = l
  BY DEF KindOrder, Kinds
<1>5. p.name = q.name /\ KindOrder[p.kind] = KindOrder[q.kind]
  BY <1>1, <1>2, <1>3, <1>4 DEF Precedes
<1> QED BY <1>3, <1>4, <1>5

LEMMA DequeuePending ==
  ASSUME TypeOK, Dequeue, todo' = todo, NEW p, Pending(p), p # Job
  PROVE  Pending(p)'
BY DequeueFacts DEF Pending

LEMMA EnqueuePending ==
  ASSUME TypeOK, NEW q \in Paths, Enqueue(q), NEW p, Pending(p)
  PROVE  Pending(p)'
<1>1. CASE p \in todo /\ p # q
  BY <1>1, EnqueueFacts DEF Pending
<1>2. CASE p = q
  <2>1. Len(queue) + 1 \in 1 .. Len(queue') /\ queue'[Len(queue) + 1] = p
    BY <1>2, EnqueueFacts
  <2> QED BY <2>1 DEF Pending
<1>3. CASE \E i \in 1 .. Len(queue) : queue[i] = p
  <2>1. \A i \in 1 .. Len(queue) : i \in 1 .. Len(queue') /\ queue'[i] = queue[i]
    BY EnqueueFacts
  <2> QED BY <1>3, <2>1 DEF Pending
<1> QED BY <1>1, <1>2, <1>3 DEF Pending

\* One conversion of the walk keeps what is restored, pending or in hand.
LEMMA ReverseInvariance == Init /\ [][Next]_vars => []ReverseInv
<1>1. Init => ReverseInv
  BY DEF Init, ReverseInv, Reversing
<1>2. TypeOK /\ TreesInv /\ FragmentInv /\ ReverseInv /\ [Next]_vars => ReverseInv'
  <2> SUFFICES ASSUME TypeOK, TreesInv, FragmentInv, ReverseInv, [Next]_vars, Reversing'
               PROVE  ReverseInv'
    BY DEF ReverseInv
  <2> DEFINE Xml(n) == [name |-> n, kind |-> "xml"]
             Envelope(n) == [name |-> n, kind |-> "envelope"]
             Converted(n) == Pending(Xml(n)) \/ Held(n) \/ staging.json[n] = Restored(n)
             Looked(n) == Envelope(n) \in todo \/ files.eilcd.xml[n] # 0
  <2>a. ASSUME Reversing
        PROVE  /\ \A n \in Names : files.eilcd.xml[n] # 0 => Converted(n)
               /\ \A n \in Names : files.eilcd.envelope[n] # NoEnvelope => Looked(n)
               /\ pc = "send" => \A p \in Paths : Comes(p) => p.kind \notin Sidecars
               /\ pc \in {"recover", "merge"} => Held(hand.name)
    BY <2>a DEF ReverseInv
  <2>b. ASSUME \A n \in Names : files'.eilcd.xml[n] # 0 => Converted(n)',
               \A n \in Names : files'.eilcd.envelope[n] # NoEnvelope => Looked(n)',
               pc' = "send" => \A p \in Paths : Comes(p)' => p.kind \notin Sidecars,
               pc' \in {"recover", "merge"} => Held(hand.name)'
        PROVE  ReverseInv'
    BY <2>b DEF ReverseInv
  <2>c. ASSUME files' = files PROVE \A n : Restored(n)' = Restored(n)
    BY <2>c DEF Restored
  <2>d. \A n : Held(n) => pc \in {"recover", "merge"}
    BY DEF Held
  <2>1. ASSUME NEW d \in {"forward", "reverse"}, Start(d) PROVE FALSE
    BY <2>1 DEF Start, Reversing
  <2>2. CASE NextEntry
    <3>1. /\ files' = files /\ pc = "walk" /\ Reversing /\ staging' = staging /\ queue' = queue
          /\ pc' \in {"walk", "send"}
      BY <2>2 DEF NextEntry, Reversing, Stops, history
    <3>2. PICK p \in Paths :
            /\ Comes(p)
            /\ \/ /\ p.kind \in Sidecars /\ Exists(files.eilcd, p.name, "xml")
                  /\ todo' = todo \ {p} /\ pc' = pc
               \/ p.kind \notin Sidecars /\ todo' = todo /\ pc' = "send"
      <4>1. stage = "convert" /\ direction = "reverse"
        BY <3>1 DEF Reversing
      <4>2. ~Stops
        BY DEF Stops, Reversing
      <4> QED BY <2>2, <4>1, <4>2 DEF NextEntry
    <3>3. CASE p.kind \notin Sidecars /\ todo' = todo /\ pc' = "send"
      <4>1. \A q \in Paths : Comes(q)' => q.kind \notin Sidecars
        <5>1. \A q \in Paths : Comes(q)' => Comes(q)
          BY <3>3 DEF Comes
        <5> QED BY <3>2, <3>3, <5>1, ComesUnique
      <4>2. \A n \in Names : files'.eilcd.xml[n] # 0 => Converted(n)'
        BY <2>a, <2>c, <2>d, <3>1, <3>3 DEF Pending
      <4>3. \A n \in Names : files'.eilcd.envelope[n] # NoEnvelope => Looked(n)'
        BY <2>a, <3>1, <3>3
      <4> QED BY <2>b, <3>3, <4>1, <4>2, <4>3
    <3>4. CASE p.kind \in Sidecars /\ Exists(files.eilcd, p.name, "xml") /\ todo' = todo \ {p} /\ pc' = pc
      <4>1. \A n : Xml(n) # p
        BY <3>4 DEF Sidecars
      <4>2. \A n \in Names : files'.eilcd.xml[n] # 0 => Converted(n)'
        BY <2>a, <2>c, <2>d, <3>1, <3>4, <4>1 DEF Pending
      <4>3. files.eilcd.xml[p.name] # 0
        BY <3>4 DEF Exists
      <4>4. \A n \in Names : files'.eilcd.envelope[n] # NoEnvelope => Looked(n)'
        BY <2>a, <3>1, <3>4, <4>3
      <4> QED BY <2>b, <3>1, <3>4, <4>2, <4>4
    <3> QED BY <3>2, <3>3, <3>4
  <2>3. CASE Send
    <3>1. /\ files' = files /\ pc = "send" /\ Reversing /\ staging' = staging
          /\ pc' \in {"walk", "process"}
      BY <2>3 DEF Send, Reversing, history
    <3>2. PICK p \in Paths : Comes(p) /\ Enqueue(p)
      BY <2>3 DEF Send
    <3>3. p.kind \notin Sidecars /\ todo' = todo \ {p}
      BY <2>a, <3>1, <3>2, EnqueueFacts
    <3>4. \A n \in Names : files'.eilcd.xml[n] # 0 => Converted(n)'
      BY <2>a, <2>c, <2>d, <3>1, <3>2, EnqueuePending
    <3>5. \A n \in Names : files'.eilcd.envelope[n] # NoEnvelope => Looked(n)'
      <4>1. \A n : Envelope(n) # p
        BY <3>3 DEF Sidecars
      <4> QED BY <2>a, <3>1, <3>3, <4>1
    <3> QED BY <2>b, <3>1, <3>4, <3>5
  <2>4. CASE Drain
    <3>1. files' = files /\ staging' = staging /\ queue' = queue /\ pc = "walk" /\ direction = "reverse" /\ quiet
      BY <2>4 DEF Drain, Reversing
    <3>2. CASE queue # <<>>
      <4>1. Reversing /\ todo' = todo /\ pc' = "process"
        BY <2>4, <3>2 DEF Drain, Reversing
      <4>2. \A n \in Names : files'.eilcd.xml[n] # 0 => Converted(n)'
        BY <2>a, <2>c, <2>d, <3>1, <4>1 DEF Pending
      <4> QED BY <2>a, <2>b, <3>1, <4>1, <4>2
    <3>3. CASE queue = <<>>
      <4>1. todo' = Walk(files.eilcd) /\ pc' = "walk"
        BY <2>4, <3>1, <3>3 DEF Drain, Input
      <4>2. \A n \in Names : files.eilcd.xml[n] # 0 => Xml(n) \in todo'
        BY <4>1 DEF Walk, Exists, Paths, Kinds
      <4>3. \A n \in Names : files.eilcd.envelope[n] # NoEnvelope => Envelope(n) \in todo'
        BY <4>1 DEF Walk, Exists, Paths, Kinds
      <4> QED BY <2>b, <3>1, <4>1, <4>2, <4>3 DEF Pending
    <3> QED BY <3>2, <3>3
  <2>5. CASE CopyFile
    <3>1. /\ files' = files /\ todo' = todo /\ pc = "process" /\ pc' = "walk" /\ Reversing /\ Dequeue
          /\ Job.kind # "xml" /\ Source = files.eilcd
      BY <2>5 DEF CopyFile, Reversing, history, Dequeue, IsConvertible, Source, Input
    <3>2. staging'.json = staging.json
      <4>1. ~Exists(files.eilcd, Job.name, "json")
        BY <3>1, DequeueFacts DEF TreesInv, Exists, NoDocument
      <4> QED BY <2>5, <3>1, <4>1, CopyFacts
    <3>3. \A n \in Names : files'.eilcd.xml[n] # 0 => Converted(n)'
      BY <2>a, <2>c, <2>d, <3>1, <3>2, DequeuePending
    <3> QED BY <2>a, <2>b, <3>1, <3>3
  <2>6. CASE ConvertForward
    BY <2>6 DEF ConvertForward, Reversing
  <2>7. CASE ConvertReverse
    <3>1. /\ files' = files /\ todo' = todo /\ pc = "process" /\ pc' = "recover" /\ Reversing /\ Dequeue
          /\ Job.kind = "xml" /\ staging' = staging
          /\ hand'.name = Job.name /\ hand'.document.data = files.eilcd.xml[Job.name]
          /\ hand'.document.fragment = "plain"
      BY <2>7 DEF ConvertReverse, Reversing, history, Dequeue, IsConvertible, NoDocument
    <3>2. PICK name \in Names : name = Job.name
      BY <3>1, DequeueFacts
    <3>3. Held(name)' /\ hand'.name = name
      BY <3>1, <3>2 DEF Held
    <3>4. Job = Xml(name)
      BY <3>1, <3>2, DequeueFacts DEF Paths
    <3>5. ASSUME NEW n \in Names, files'.eilcd.xml[n] # 0 PROVE Converted(n)'
      <4>1. CASE n = name
        BY <3>3, <4>1
      <4>2. CASE n # name
        <5>1. Xml(n) # Job
          BY <3>4, <4>2
        <5> QED BY <2>a, <2>c, <2>d, <3>1, <3>5, <5>1, DequeuePending
      <4> QED BY <4>1, <4>2
    <3>6. Held(hand.name)'
      BY <3>3
    <3>7. \A n \in Names : files'.eilcd.envelope[n] # NoEnvelope => Looked(n)'
      BY <2>a, <3>1
    <3> QED BY <2>b, <3>1, <3>5, <3>6, <3>7
  <2>8. CASE Recover
    <3>1. /\ files' = files /\ todo' = todo /\ queue' = queue /\ pc = "recover" /\ pc' = "merge"
          /\ Reversing /\ staging' = staging /\ Held(hand.name) /\ hand.document.data # 0
      <4>1. ~Stops
        BY DEF Stops, Reversing
      <4> QED BY <2>8, <4>1, <2>a DEF Recover, Reversing, history, FragmentInv
    <3>2. hand'.name = hand.name /\ hand'.document.data = hand.document.data
          /\ hand'.document.fragment = Fragment(files.eilcd.recovery[hand.name])
      <4> DEFINE recovery == files.eilcd.recovery[hand.name]
      <4>1. CASE recovery = 0
        BY <2>8, <3>1, <4>1 DEF Recover, Held, Fragment
      <4>2. CASE recovery = hand.document.data /\ recovery # 0
        <5>1. hand' = [hand EXCEPT !.document.fragment = "rich"]
          BY <2>8, <4>2 DEF Recover
        <5> QED BY <4>2, <5>1 DEF Fragment, TypeOK, Documents
      <4>3. CASE recovery \notin {0, hand.document.data}
        BY <2>8, <4>3 DEF Recover, Stops, Reversing
      <4> QED BY <4>1, <4>2, <4>3
    <3>3. \A n : Held(n) => Held(n)'
      BY <3>1, <3>2 DEF Held, Restored
    <3>4. \A n \in Names : files'.eilcd.xml[n] # 0 => Converted(n)'
      BY <2>a, <2>c, <3>1, <3>3 DEF Pending
    <3> QED BY <2>a, <2>b, <3>1, <3>2, <3>3, <3>4
  <2>9. CASE Merge
    <3>1. /\ files' = files /\ todo' = todo /\ queue' = queue /\ pc = "merge" /\ pc' = "walk"
          /\ Reversing /\ Held(hand.name)
      BY <2>9, <2>a DEF Merge, Reversing, history
    <3> DEFINE document == [hand.document EXCEPT !.envelope = files.eilcd.envelope[hand.name]]
    <3>2. /\ staging'.json = [staging.json EXCEPT ![hand.name] = document]
          /\ hand.name \in Names /\ hand.document \in Documents
          /\ staging.json \in [Names -> Documents]
      BY <2>9, MergeFacts DEF TypeOK, Packages
    <3>3. document = Restored(hand.name)
      BY <3>1, <3>2 DEF Held, Restored, Documents
    <3>4. \A n : Held(n) => n = hand.name
      BY DEF Held
    <3>5. \A n \in Names : files'.eilcd.xml[n] # 0 => Converted(n)'
      <4> HIDE DEF document
      <4> SUFFICES ASSUME NEW n \in Names, files'.eilcd.xml[n] # 0 PROVE Converted(n)'
        OBVIOUS
      <4>1. Restored(n)' = Restored(n)
        BY <2>c, <3>1
      <4>2. CASE n = hand.name
        BY <3>2, <3>3, <4>1, <4>2
      <4>3. CASE n # hand.name
        <5>1. staging'.json[n] = staging.json[n]
          BY <3>2, <4>3
        <5>2. Pending(Xml(n)) => Pending(Xml(n))'
          BY <3>1 DEF Pending
        <5>3. Pending(Xml(n)) \/ staging.json[n] = Restored(n)
          BY <2>a, <3>1, <3>4, <4>3
        <5> QED BY <4>1, <5>1, <5>2, <5>3
      <4> QED BY <4>2, <4>3
    <3> QED BY <2>a, <2>b, <3>1, <3>5
  <2>10. CASE Publish
    BY <2>10 DEF Publish, Reversing
  <2>11. CASE Fail
    BY <2>11 DEF Fail, Stops, Reversing
  <2>12. CASE Edit
    <3>1. /\ UNCHANGED <<direction, stage, pc, todo, queue, staging, hand, quiet>>
          /\ files'.eilcd = files.eilcd
      BY <2>12, EditFacts DEF Reversing
    <3> QED BY <3>1 DEF ReverseInv, Reversing, Pending, Held, Restored, Comes
  <2>13. CASE UNCHANGED vars
    BY <2>13 DEF vars, run, history, ReverseInv, Reversing, Pending, Held, Restored, Comes
  <2> QED
    BY <2>1, <2>2, <2>3, <2>4, <2>5, <2>6, <2>7, <2>8, <2>9, <2>10, <2>11, <2>12, <2>13
    DEF Next, Step, Rest
<1> QED BY <1>1, <1>2, TypeInvariance, TreesInvariance, FragmentInvariance, PTL

LEMMA MirrorInvariance == Init /\ [][Next]_vars => []MirrorInv
<1>1. Init => MirrorInv
  BY DEF Init, MirrorInv
<1>2. TypeOK /\ ReverseInv /\ MirrorInv /\ [Next]_vars => MirrorInv'
  <2> SUFFICES ASSUME TypeOK, ReverseInv, MirrorInv, [Next]_vars PROVE MirrorInv'
    OBVIOUS
  <2>0. ASSUME UNCHANGED <<files, mirror>> PROVE MirrorInv'
    BY <2>0 DEF MirrorInv, Restored
  <2>1. CASE Publish
    <3>1. CASE direction = "forward"
      BY <2>1, <3>1 DEF Publish, MirrorInv
    <3>2. CASE direction # "forward" /\ quiet
      <4>1. Reversing /\ todo = {} /\ queue = <<>> /\ pc = "walk"
        BY <2>1, <3>2 DEF Publish, Reversing, TypeOK
      <4>2. \A n \in Names : ~Pending([name |-> n, kind |-> "xml"]) /\ ~Held(n)
        BY <4>1 DEF Pending, Held
      <4>3. files'.eilcd = files.eilcd /\ files'.back = staging
        BY <2>1, <3>2, PublishFacts
      <4>4. \A n \in Names : Restored(n)' = Restored(n)
        BY <4>3 DEF Restored
      <4> QED BY <4>1, <4>2, <4>3, <4>4 DEF ReverseInv, MirrorInv
    <3>3. CASE direction # "forward" /\ ~quiet
      BY <2>1, <3>3 DEF Publish, MirrorInv
    <3> QED BY <3>1, <3>2, <3>3
  <2>2. CASE Edit
    <3>1. CASE mirror'
      <4>1. files'.eilcd = files.eilcd /\ files'.back = files.back /\ mirror
        BY <2>2, <3>1, EditFacts
      <4> QED BY <4>1 DEF MirrorInv, Restored
    <3> QED BY <3>1 DEF MirrorInv
  <2>3. CASE NextEntry \/ Send \/ Drain \/ CopyFile \/ ConvertForward
    BY <2>0, <2>3 DEF NextEntry, Send, Drain, CopyFile, ConvertForward, history
  <2>4. CASE ConvertReverse \/ Recover \/ Merge \/ Fail \/ UNCHANGED vars
    BY <2>0, <2>4 DEF ConvertReverse, Recover, Merge, Fail, vars, history
  <2>5. CASE \E d \in {"forward", "reverse"} : Start(d)
    BY <2>0, <2>5 DEF Start
  <2> QED BY <2>1, <2>2, <2>3, <2>4, <2>5 DEF Next, Step, Rest
<1> QED BY <1>1, <1>2, TypeInvariance, ReverseInvariance, PTL

\* A reverse run that nobody disturbs merges every envelope or fails, for any
\* package and capacity (copy_tree's check of sidecars and merge_envelope).
THEOREM EnvelopesMerged == Spec => []EnvelopesAreMerged
<1>1. \A n : Restored(n).envelope = files.eilcd.envelope[n]
  BY DEF Restored
<1>2. MirrorInv => EnvelopesAreMerged
  BY <1>1 DEF MirrorInv, EnvelopesAreMerged
<1> QED BY <1>2, MirrorInvariance, PTL DEF Spec
-----------------------------------------------------------------------------
(* There and back *)

LEMMA ForwardInvariance == Init /\ [][Next]_vars => []ForwardInv
<1>1. Init => ForwardInv
  BY DEF Init, ForwardInv
<1>2. TypeOK /\ TreesInv /\ JobsInv /\ ForwardInv /\ [Next]_vars => ForwardInv'
  <2> SUFFICES ASSUME TypeOK, TreesInv, JobsInv, ForwardInv, [Next]_vars, pc' # "idle"
               PROVE  ForwardInv'
    BY DEF ForwardInv
  <2> DEFINE Json(n) == [name |-> n, kind |-> "json"]
             Forward == pc # "idle" /\ stage = "convert" /\ direction = "forward"
             Kept(n) == IF read[n] = NoDocument THEN Bare(staging, n) ELSE Holds(staging, n, read[n])
  <2>a. ASSUME Forward
        PROVE  /\ \A n \in Names : Pending(Json(n)) => read[n] = NoDocument
               /\ \A n \in bare : Kept(n)
    BY <2>a DEF ForwardInv
  <2>b. ASSUME stage' = "convert",
               direction' = "forward" => /\ \A n \in Names : Pending(Json(n))' => read'[n] = NoDocument
                                         /\ \A n \in bare' : Kept(n)'
        PROVE  ForwardInv'
    BY <2>b DEF ForwardInv
  <2>c. ASSUME pc # "idle", UNCHANGED <<stage, direction, read, staging, bare>>,
               \A n \in Names : Pending(Json(n))' => Pending(Json(n))
        PROVE  ForwardInv'
    BY <2>c DEF ForwardInv, Bare, Holds
  <2>1. ASSUME NEW d \in {"forward", "reverse"}, Start(d) PROVE ForwardInv'
    BY <2>1 DEF Start, ForwardInv, Empty
  <2>2. CASE NextEntry
    <3>1. /\ UNCHANGED <<stage, direction, read, staging, bare, queue>> /\ pc # "idle"
          /\ todo' \subseteq todo
      BY <2>2 DEF NextEntry, Stops, history
    <3> QED BY <2>c, <3>1 DEF Pending
  <2>3. CASE Send
    <3>1. UNCHANGED <<stage, direction, read, staging, bare>> /\ pc # "idle"
      BY <2>3 DEF Send, history
    <3>2. PICK p \in Paths : Comes(p) /\ Enqueue(p)
      BY <2>3 DEF Send
    <3>3. ASSUME NEW q, Pending(q)' PROVE Pending(q)
      <4>1. CASE q \in todo'
        BY <3>2, <4>1, EnqueueFacts DEF Pending
      <4>2. ASSUME NEW i \in 1 .. Len(queue'), queue'[i] = q PROVE Pending(q)
        <5>1. i \in 1 .. Len(queue) \/ i = Len(queue) + 1
          BY <3>2, EnqueueFacts
        <5> QED BY <3>2, <4>2, <5>1, EnqueueFacts DEF Pending, Comes
      <4> QED BY <3>3, <4>1, <4>2 DEF Pending
    <3> QED BY <2>c, <3>1, <3>3
  <2>4. CASE Drain
    <3>1. UNCHANGED <<direction, read, staging, queue>> /\ pc # "idle"
      BY <2>4 DEF Drain
    <3>2. CASE queue # <<>>
      <4>1. UNCHANGED <<stage, todo, bare>>
        BY <2>4, <3>2 DEF Drain
      <4> QED BY <2>c, <3>1, <4>1 DEF Pending
    <3>3. CASE queue = <<>>
      <4>1. /\ stage = "copy" /\ stage' = "convert"
            /\ bare' = {n \in Names : \A kind \in Kinds : ~Exists(staging, n, kind)}
        BY <2>4, <3>3 DEF Drain
      <4>2. \A n \in Names : read'[n] = NoDocument
        BY <3>1, <4>1 DEF ForwardInv
      <4>3. \A n \in bare' : Bare(staging, n)
        <5> SUFFICES ASSUME NEW n \in bare' PROVE Bare(staging, n)
          OBVIOUS
        <5>1. ~Exists(staging, n, "xml") /\ ~Exists(staging, n, "envelope") /\ ~Exists(staging, n, "recovery")
          BY <4>1 DEF Kinds
        <5> QED BY <5>1 DEF Exists, Bare
      <4>4. \A n \in bare' : Kept(n)'
        BY <3>1, <4>1, <4>2, <4>3 DEF Bare
      <4> QED BY <2>b, <4>1, <4>2, <4>4
    <3> QED BY <3>2, <3>3
  <2>d. ASSUME Dequeue, todo' = todo
        PROVE  \A q : Pending(q)' => Pending(q) /\ q # Job
    <3> SUFFICES ASSUME NEW q, Pending(q)' PROVE Pending(q) /\ q # Job
      OBVIOUS
    <3>1. Job = queue[1] /\ Len(queue) \in Nat \ {0} /\ Len(queue') = Len(queue) - 1
      BY <2>d, DequeueFacts
    <3>2. CASE q \in todo'
      BY <2>d, <3>1, <3>2 DEF Pending, JobsInv
    <3>3. ASSUME NEW i \in 1 .. Len(queue'), queue'[i] = q PROVE Pending(q) /\ q # Job
      <4>1. i + 1 \in 1 .. Len(queue) /\ queue[i + 1] = q /\ i + 1 # 1
        BY <2>d, <3>1, <3>3, DequeueFacts
      <4> QED BY <3>1, <4>1 DEF Pending, JobsInv
    <3> QED BY <3>2, <3>3 DEF Pending
  <2>5. CASE CopyFile
    <3>1. /\ UNCHANGED <<stage, direction, read, bare, todo>> /\ pc # "idle" /\ Dequeue
      BY <2>5 DEF CopyFile, history, Dequeue
    <3>2. CASE stage = "copy"
      BY <3>1, <3>2 DEF ForwardInv
    <3>3. CASE stage = "convert" /\ direction = "forward"
      <4>1. Source = files.tidas /\ Job.kind # "json" /\ Job.name \in Names /\ Job.kind \in Kinds
        BY <2>5, <3>1, <3>3, DequeueFacts DEF Source, Input, CopyFile, IsConvertible
      <4>2. FALSE
        BY <2>5, <4>1, CopyFacts DEF TreesInv, Exists, Kinds
      <4> QED BY <4>2
    <3>4. CASE stage = "convert" /\ direction # "forward"
      BY <2>b, <3>1, <3>4
    <3> QED BY <3>2, <3>3, <3>4 DEF TypeOK
  <2>6. CASE ConvertForward
    <3> DEFINE n == Job.name
               document == files.tidas.json[n]
    <3>1. /\ UNCHANGED <<stage, direction, bare, todo>> /\ Dequeue /\ Forward
          /\ Job.kind = "json"
      BY <2>6 DEF ConvertForward, Dequeue, IsConvertible
    <3>2. /\ document \in Documents /\ document.data # 0 /\ n \in Names
          /\ read' = [read EXCEPT ![n] = document]
          /\ staging'.xml = [staging.xml EXCEPT ![n] = document.data]
          /\ staging'.envelope = [staging.envelope EXCEPT
                ![n] = IF document.envelope = NoEnvelope THEN @ ELSE document.envelope]
          /\ staging'.recovery = [staging.recovery EXCEPT
                ![n] = IF document.fragment = "plain" THEN @ ELSE document.data]
      BY <2>6, <3>1, DequeueFacts, ConvertFacts
    <3>3. Job = Json(n) /\ Pending(Job)
      BY <3>1, DequeueFacts DEF Paths, Pending
    <3> HIDE DEF document, n
    <3>4. document.fragment \in {"plain", "rich"}
      BY <3>2 DEF Documents, Fragments
    <3>5. read[n] = NoDocument /\ (n \in bare => Bare(staging, n))
      BY <2>a, <3>1, <3>2, <3>3
    <3>6. read \in [Names -> Documents] /\ staging \in Packages /\ bare \subseteq Names
      BY DEF TypeOK
    <3>7. ASSUME NEW m \in Names, m # n
          PROVE  /\ read'[m] = read[m] /\ staging'.xml[m] = staging.xml[m]
                 /\ staging'.envelope[m] = staging.envelope[m]
                 /\ staging'.recovery[m] = staging.recovery[m]
      BY <3>2, <3>6, <3>7 DEF Packages
    <3>8. /\ read'[n] = document /\ staging'.xml[n] = document.data
          /\ staging'.envelope[n] = IF document.envelope = NoEnvelope THEN staging.envelope[n]
                                    ELSE document.envelope
          /\ staging'.recovery[n] = IF document.fragment = "plain" THEN staging.recovery[n]
                                    ELSE document.data
      BY <3>2, <3>6 DEF Packages
    <3>9. \A m \in bare' : Kept(m)'
      <4> SUFFICES ASSUME NEW m \in bare PROVE Kept(m)'
        BY <3>1
      <4>1. CASE m # n
        <5>1. Kept(m)
          BY <2>a, <3>1
        <5> QED BY <3>6, <3>7, <4>1, <5>1 DEF Bare, Holds
      <4>2. CASE m = n
        <5>1. read'[m] = document /\ document # NoDocument
          BY <3>2, <3>8, <4>2 DEF NoDocument
        <5>2. /\ staging'.xml[m] = document.data
              /\ staging'.envelope[m] = document.envelope
              /\ staging'.recovery[m] = IF document.fragment = "rich" THEN document.data ELSE 0
          BY <3>1, <3>4, <3>5, <3>8, <4>2 DEF Bare
        <5> QED BY <3>2, <5>1, <5>2 DEF Holds
      <4> QED BY <4>1, <4>2
    <3>10. \A m \in Names : Pending(Json(m))' => read'[m] = NoDocument
      <4> SUFFICES ASSUME NEW m \in Names, Pending(Json(m))' PROVE read'[m] = NoDocument
        OBVIOUS
      <4>1. Pending(Json(m)) /\ Json(m) # Job
        BY <2>d, <3>1
      <4> QED BY <2>a, <3>1, <3>3, <3>7, <4>1
    <3> QED BY <2>b, <3>1, <3>9, <3>10
  <2>7. CASE ConvertReverse
    BY <2>7, <2>b DEF ConvertReverse, IsConvertible, Dequeue, JobsInv
  <2>8. CASE Recover
    <3>1. pc = "recover" /\ UNCHANGED <<stage, direction, read, bare>>
      BY <2>8 DEF Recover, Stops, history
    <3> QED BY <3>1 DEF TreesInv, ForwardInv
  <2>9. CASE Merge
    <3>1. pc = "merge" /\ UNCHANGED <<stage, direction, read, bare>>
      BY <2>9 DEF Merge, history
    <3> QED BY <3>1 DEF TreesInv, ForwardInv
  <2>10. CASE Publish
    BY <2>10 DEF Publish
  <2>11. CASE Fail
    BY <2>11 DEF Fail, Stops
  <2>12. CASE Edit
    <3>1. UNCHANGED <<direction, stage, pc, todo, queue, staging, read, bare>>
      BY <2>12, EditFacts
    <3> QED BY <2>c, <3>1 DEF Pending
  <2>13. CASE UNCHANGED vars
    BY <2>13, <2>c DEF vars, run, history, Pending
  <2> QED
    BY <2>1, <2>2, <2>3, <2>4, <2>5, <2>6, <2>7, <2>8, <2>9, <2>10, <2>11, <2>12, <2>13
    DEF Next, Step, Rest
<1> QED BY <1>1, <1>2, TypeInvariance, TreesInvariance, JobsInvariance, PTL

LEMMA OriginInvariance == Init /\ [][Next]_vars => []OriginInv
<1>1. Init => OriginInv
  BY DEF Init, OriginInv
<1>2. TypeOK /\ ForwardInv /\ OriginInv /\ [Next]_vars => OriginInv'
  <2> SUFFICES ASSUME TypeOK, ForwardInv, OriginInv, [Next]_vars PROVE OriginInv'
    OBVIOUS
  <2>0. ASSUME files'.eilcd = files.eilcd, UNCHANGED <<origin, clean, untouched>> PROVE OriginInv'
    BY <2>0 DEF OriginInv, Holds
  <2>1. CASE Publish
    <3>1. CASE direction = "forward"
      <4>1. files'.eilcd = staging /\ origin' = read /\ clean' = bare /\ bare \subseteq Names
        BY <2>1, <3>1, PublishFacts DEF Publish, TypeOK
      <4>2. \A n \in bare : read[n] # NoDocument => Holds(staging, n, read[n])
        BY <2>1, <3>1 DEF Publish, ForwardInv
      <4> QED BY <4>1, <4>2 DEF OriginInv, Holds
    <3>2. CASE direction # "forward"
      BY <2>0, <2>1, <3>2, PublishFacts DEF Publish
    <3> QED BY <3>1, <3>2
  <2>2. CASE Edit
    <3>1. CASE untouched'
      BY <2>0, <2>2, <3>1, EditFacts
    <3> QED BY <3>1 DEF OriginInv
  <2>3. CASE UNCHANGED <<files, origin, clean, untouched>>
    BY <2>0, <2>3
  <2> QED
    BY <2>1, <2>2, <2>3 DEF Next, Step, Start, NextEntry, Send, Drain, CopyFile, ConvertForward,
       ConvertReverse, Recover, Merge, Fail, Rest, vars, history
<1> QED BY <1>1, <1>2, TypeInvariance, ForwardInvariance, PTL

\* Into a clean output and back again, a dataset is what it was: for any
\* datasets, failed runs before it and edits of the TIDAS package meanwhile
\* (convert_file in both directions).
THEOREM RoundTripIsExact == Spec => []CleanRoundTrip
<1>1. TypeOK /\ MirrorInv /\ OriginInv => CleanRoundTrip
  <2> SUFFICES ASSUME TypeOK, MirrorInv, OriginInv, mirror, untouched, NEW n \in clean,
                      origin[n] # NoDocument
               PROVE  files.back.json[n] = origin[n]
    BY DEF CleanRoundTrip
  <2>1. n \in Names /\ origin[n] \in Documents
    BY DEF TypeOK
  <2>2. Holds(files.eilcd, n, origin[n])
    BY DEF OriginInv
  <2>3. files.back.json[n] = Restored(n)
    BY <2>1, <2>2 DEF MirrorInv, Holds
  <2>4. origin[n].fragment = Fragment(files.eilcd.recovery[n])
    BY <2>1, <2>2 DEF Holds, Fragment, Documents, Fragments
  <2>5. Restored(n) = origin[n]
    BY <2>1, <2>2, <2>4 DEF Restored, Holds, Documents
  <2> QED BY <2>3, <2>5
<1> QED BY <1>1, TypeInvariance, MirrorInvariance, OriginInvariance, PTL DEF Spec
-----------------------------------------------------------------------------
(* The recovery of one document *)

\* What the recorder maintains: an entry holds the source's fragment, and a
\* node without an entry at or above it has not been changed.
Faithful ==
  /\ \A r \in recorded : \A m \in Subtree[r] : original[r][m] = source[m]
  /\ \A m \in Nodes : ~IsCovered(m) => projected[m] = source[m]
  /\ phase # "mismatch"

RecoveryInv == RecoveryTypeOK /\ Faithful

LEMMA RecoveredIsSource == RecoveryInv => Recovered = source
<1> SUFFICES ASSUME RecoveryInv PROVE Recovered = source
  OBVIOUS
<1>1. ASSUME NEW m \in Nodes PROVE Recovered[m] = source[m]
  <2>1. CASE IsCovered(m)
    <3>1. PICK r \in recorded : m \in Subtree[r]
      BY <2>1 DEF IsCovered
    <3>2. (CHOOSE s \in recorded : m \in Subtree[s]) \in recorded
          /\ m \in Subtree[CHOOSE s \in recorded : m \in Subtree[s]]
      BY <3>1
    <3> QED BY <2>1, <3>2 DEF Recovered, RecoveryInv, Faithful
  <2>2. CASE ~IsCovered(m)
    BY <2>2 DEF Recovered, RecoveryInv, Faithful
  <2> QED BY <2>1, <2>2
<1> QED BY <1>1 DEF Recovered, RecoveryInv, RecoveryTypeOK, Trees

LEMMA InitRecovery == RecoveryInit => RecoveryInv
  BY DEF RecoveryInit, RecoveryInv, RecoveryTypeOK, Faithful, IsCovered, Trees

\* A new entry holds the source's fragment, although parts of it may already
\* have been changed under entries of their own.
LEMMA ReconstructedIsSource ==
  ASSUME RecoveryInv, NEW n \in Nodes, ~IsCovered(n)
  PROVE  /\ Reconstructed(n) \in [Subtree[n] -> Values]
         /\ \A m \in Subtree[n] : Reconstructed(n)[m] = source[m]
<1>1. ASSUME NEW m \in Subtree[n] PROVE Reconstructed(n)[m] = source[m] /\ m \in Nodes
  <2>0. m \in Nodes
    BY TreeAssumption
  <2>1. CASE \E r \in recorded \cap Subtree[n] : m \in Subtree[r]
    <3> DEFINE s == CHOOSE r \in recorded \cap Subtree[n] : m \in Subtree[r]
    <3>1. s \in recorded /\ m \in Subtree[s]
      BY <2>1
    <3>2. Reconstructed(n)[m] = original[s][m]
      BY <2>1 DEF Reconstructed
    <3> QED BY <2>0, <3>1, <3>2 DEF RecoveryInv, Faithful
  <2>2. CASE ~(\E r \in recorded \cap Subtree[n] : m \in Subtree[r])
    <3>1. ~IsCovered(m)
      <4>1. SUFFICES ASSUME NEW r \in recorded, m \in Subtree[r] PROVE FALSE
        BY DEF IsCovered
      <4>2. r \in Nodes
        BY DEF RecoveryInv, RecoveryTypeOK
      <4>3. n \in Subtree[r] \/ r \in Subtree[n]
        BY <4>1, <4>2, <2>0, TreeAssumption
      <4> QED BY <4>1, <4>3, <2>2 DEF IsCovered
    <3> QED BY <2>0, <2>2, <3>1 DEF Reconstructed, RecoveryInv, Faithful
  <2> QED BY <2>0, <2>1, <2>2
<1>2. source \in [Nodes -> Values]
  BY DEF RecoveryInv, RecoveryTypeOK, Trees
<1>3. Reconstructed(n) = [m \in Subtree[n] |-> Reconstructed(n)[m]]
  BY DEF Reconstructed
<1>4. \A m \in Subtree[n] : Reconstructed(n)[m] \in Values
  BY <1>1, <1>2
<1> QED BY <1>1, <1>3, <1>4

LEMMA AdaptRecovery ==
  ASSUME RecoveryInv, NEW n \in Nodes, NEW change \in [Subtree[n] -> Values],
         Adapt(n, change)
  PROVE  RecoveryInv'
<1>1. projected' \in Trees /\ source' = source /\ phase' = phase
  <2>1. projected' = [m \in Nodes |-> IF m \in Subtree[n] THEN change[m] ELSE projected[m]]
        /\ source' = source /\ phase' = phase
    BY DEF Adapt
  <2>2. \A m \in Nodes : projected[m] \in Values
    BY DEF RecoveryInv, RecoveryTypeOK, Trees
  <2> QED BY <2>1, <2>2 DEF Trees
<1>2. \A m \in Nodes \ Subtree[n] : projected'[m] = projected[m]
  BY DEF Adapt
<1>3. CASE IsCovered(n)
  <2>1. recorded' = recorded /\ original' = original
    BY <1>3 DEF Adapt, Record
  <2>2. RecoveryTypeOK'
    BY <1>1, <2>1 DEF RecoveryInv, RecoveryTypeOK
  <2>3. \A m \in Subtree[n] : IsCovered(m)
    <3>1. PICK r \in recorded : n \in Subtree[r]
      BY <1>3 DEF IsCovered
    <3>2. Subtree[n] \subseteq Subtree[r]
      BY <3>1, TreeAssumption DEF RecoveryInv, RecoveryTypeOK
    <3> QED BY <3>1, <3>2 DEF IsCovered
  <2>4. Faithful'
    BY <1>1, <1>2, <2>1, <2>3 DEF RecoveryInv, Faithful, IsCovered
  <2> QED BY <2>2, <2>4 DEF RecoveryInv
<1>4. CASE ~IsCovered(n)
  <2> DEFINE entries == (recorded \ Subtree[n]) \cup {n}
  <2>1. /\ recorded' = entries
        /\ original' = [r \in entries |-> IF r = n THEN Reconstructed(n) ELSE original[r]]
    BY <1>4 DEF Adapt, Record
  <2>2. /\ Reconstructed(n) \in [Subtree[n] -> Values]
        /\ \A m \in Subtree[n] : Reconstructed(n)[m] = source[m]
    BY <1>4, ReconstructedIsSource
  <2>3. recorded' \subseteq Nodes
    BY <2>1 DEF RecoveryInv, RecoveryTypeOK
  <2>4. \A r \in recorded' : original'[r] \in [Subtree[r] -> Values]
    BY <2>1, <2>2 DEF RecoveryInv, RecoveryTypeOK
  <2>5. \A r, s \in recorded' : r \in Subtree[s] => r = s
    BY <1>4, <2>1 DEF RecoveryInv, RecoveryTypeOK, IsCovered
  <2>6. RecoveryTypeOK'
    BY <1>1, <2>1, <2>3, <2>4, <2>5 DEF RecoveryInv, RecoveryTypeOK
  <2>7. \A r \in recorded' : \A m \in Subtree[r] : original'[r][m] = source[m]
    BY <2>1, <2>2 DEF RecoveryInv, Faithful
  <2>8. ASSUME NEW m \in Nodes, ~IsCovered(m)' PROVE projected'[m] = source[m]
    <3>1. m \notin Subtree[n]
      BY <2>1, <2>8 DEF IsCovered
    <3>2. ~IsCovered(m)
      <4>1. SUFFICES ASSUME NEW r \in recorded, m \in Subtree[r] PROVE FALSE
        BY DEF IsCovered
      <4>2. r \notin recorded'
        BY <2>8, <4>1 DEF IsCovered
      <4>3. r \in Subtree[n]
        BY <2>1, <4>2
      <4>4. Subtree[r] \subseteq Subtree[n]
        BY <4>3, TreeAssumption DEF RecoveryInv, RecoveryTypeOK
      <4> QED BY <3>1, <4>1, <4>4
    <3> QED BY <1>2, <3>1, <3>2 DEF RecoveryInv, Faithful
  <2> QED BY <1>1, <2>6, <2>7, <2>8 DEF RecoveryInv, Faithful
<1> QED BY <1>3, <1>4

LEMMA RestoreRecovery == RecoveryInv /\ Restore => RecoveryInv'
<1> SUFFICES ASSUME RecoveryInv, Restore PROVE RecoveryInv'
  OBVIOUS
<1>1. /\ projected' = source /\ phase' = "restored"
      /\ source' = source /\ recorded' = recorded /\ original' = original
  BY RecoveredIsSource DEF Restore
<1> QED BY <1>1 DEF RecoveryInv, RecoveryTypeOK, Faithful

LEMMA RecoveryIsInvariant == RecoverySpec => []RecoveryInv
<1>1. RecoveryInv /\ [RecoveryNext]_recoveryVars => RecoveryInv'
  <2> SUFFICES ASSUME RecoveryInv, [RecoveryNext]_recoveryVars PROVE RecoveryInv'
    OBVIOUS
  <2>1. CASE UNCHANGED recoveryVars
    BY <2>1 DEF recoveryVars, RecoveryInv, RecoveryTypeOK, Faithful, IsCovered
  <2>2. CASE \E n \in Nodes : \E change \in [Subtree[n] -> Values] : Adapt(n, change)
    BY <2>2, AdaptRecovery
  <2>3. CASE Restore
    BY <2>3, RestoreRecovery
  <2> QED BY <2>1, <2>2, <2>3 DEF RecoveryNext, Done
<1> QED BY <1>1, InitRecovery, PTL DEF RecoverySpec

\* The entries are well formed and never overlap (RecoveryBuilder::record).
THEOREM RecoveryTypeCorrect == RecoverySpec => []RecoveryTypeOK
<1>1. RecoveryInv => RecoveryTypeOK
  BY DEF RecoveryInv
<1> QED BY <1>1, RecoveryIsInvariant, PTL

\* At every point of the walk the entries restore the source, for every
\* document, every tree and every set of adaptations, and a projection that
\* was not edited is never refused (project_tidas_to_eilcd,
\* restore_tidas_projection).
THEOREM ProjectionIsRecoverable == RecoverySpec => []RecoverySuffices
<1>1. RecoveryInv => RecoverySuffices
  BY RecoveredIsSource DEF RecoverySuffices, RecoveryInv, Faithful
<1> QED BY <1>1, RecoveryIsInvariant, PTL
=============================================================================
