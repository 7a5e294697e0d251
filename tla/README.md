# A TLA+ model of tidas-toolkit

tidas-toolkit is a command-line toolkit, written in Rust, for life-cycle
assessment data packages: it validates TIDAS JSON and eILCD XML packages,
converts between them, imports foreign formats, exports packages from
PostgreSQL, builds release archives and keeps its own bundled schemas pinned to
a public specification.  This directory holds TLA+ models of the parts whose
correctness is a matter of order, concurrency, failure or bounds, the TLC runs
that check them on small instances, and TLAPS proofs of the most important
properties for every instance.

## The system and its parts

The workspace has thirteen crates under `src/crates`.  The CLI parses the
arguments into one request, calls one domain crate with a runtime (a memory
budget, a queue capacity and a cancellation token that the signal handler sets)
and turns the result or the error into one operation report and an exit class.
The domain crates share the budget and the bounded queue of `tidas-runtime`,
the embedded schemas of `tidas-assets`, the reports of `tidas-contracts` and,
each in its own copy, the staged publication of an output.  `tidas-release` and
`tidas-import` call `tidas-conversion` and `tidas-validation`.  No state
survives a run except files.

| part | state it keeps | operations | what is hard about it | what makes it correct |
|---|---|---|---|---|
| tidas-runtime: budget | `used`, `peak` | reserve, drop | concurrent atomic accesses, ends of u64 | no reservation is lost, none passes the limit, the peak is a real one |
| tidas-runtime: queue | channel, tokens | send, recv, cancel, drop | polling waits, bytes of a refused value | bytes have one owner, order, every wait ends |
| staged publication | target, staging and backup directories | `commit` (conversion, import, release), `publish_atomically` (export), `replace_file` (store) | two renames, other runs, failing rollback, crash | no published output is lost |
| tidas-assets: spec import | checked-in files, lock file, staging, created directories | import, publish, roll back | several importers, failure of any call | a failed import changes nothing, imports exclude each other |
| tidas-assets: candidate | files, manifest, import manifest, baseline, pin | read and accept an archive | four records that say the same | nothing unreviewed is accepted |
| tidas-assets: locks, rules | the asset tree, two locks, the pins | check, write, spec-check, spec-import, public-rules-check, -sync | tools that write file after file, checks that each see a part | the checks together bind what is built in |
| tidas-conversion: run | output tree, sidecars, queue of jobs | `convert_directory` | output converted into again, edited sidecars, one thread on a bounded queue | there and back again is the identity |
| tidas-conversion: projection | recovery entries | record, restore | overlapping adaptations | the entries restore the source |
| tidas-conversion: format, order | none | convert, sort elements | nested particles of the schema, an ordered map that moves members | the order of the schema, the meaning of the document |
| tidas-export | snapshot, channel, package tree | read, write, normalize versions, zip, publish | producer and consumer, savepoints, cancellation | what is published is complete, both tasks return |
| tidas-import | canonical store, reports, staging | detect, read, normalize, write, gate, commit | objects that come twice, ids that collide, missing factors, errors half way | exchanges belong to their process, amounts keep their quantity, what is published is whole |
| tidas-validation: runs | flow index, spools, events | validate package or batch | files edited during the run | events fit the files and the manifest |
| tidas-validation: process semantics | none | analyse a process, foresee its memory | two walks of one document, early continues | the memory suffices, what is valid can be calculated with |
| tidas-validation: other validators | none | judge a document | rules | not modelled |
| tidas-release | index, closures, staged conversion, packages | resolve, convert, compare, pack | files edited between the gates, reference circles | what is published passed the gates |
| tidas-cli, tidas-contracts | token, report | parse, dispatch, classify, render | errors that wrap errors, calls whose findings add up | the exit code can be relied on |
| tidas-rulesets | the catalog | compose, look up | composed by two programs | both compose the same |
| tidas-references, -xml, -dist | none of their own | extract, validate XML, package | pure or I/O | not modelled |

Between the parts: `BoundedQueue` uses the budget as `AtomicBudget` specifies
it and `MemoryBudget` implements it; `ConversionRun`, `ExportRun`, `ImportRun`
and `ReleaseBuild` end with a publication that `StagedCommit` models call by
call; `ConversionRun` takes from `ProjectionRecovery` that a recovery restores
the fragments it was made of and from `XmlForm` that a document survives the
way through XML; `ExportRun` runs what `VersionNormalization` models as one
step; `ReleaseBuild` and `ImportRun` convert and validate as `ConversionRun` and
`ValidationRun` do in detail; `SpecImport` publishes a candidate that
`SpecCandidate` accepts, into the tree whose checks `PublicCopy` models with the
catalog of `Rulesets`; `CommandReport` runs all of them as calls that succeed,
find something or fail.

## Modules

| module | models | composed with |
|---|---|---|
| `AtomicBudget` | the abstract budget: a request is answered at one instant | refined by `MemoryBudget` |
| `MemoryBudget` | the compare-and-exchange loop of `reserve`, `fetch_max` of the peak, `fetch_sub` of the drop | `RuntimeProofs` |
| `BoundedQueue` | `send`, `recv`, cancellation and handle drops of the bounded queue | budget of `AtomicBudget`, `RuntimeProofs` |
| `StagedCommit` | the five copies of staged publication, by the two constants in which they differ | `ReleaseProofs` |
| `SpecImport` | `import_inner` and its rollback, one call on the file system per action | `AssetsProofs` |
| `SpecCandidate` | reading and accepting the archive of a specification | `AssetsProofs` |
| `Rulesets` | the catalog of rules, composed by the tool and by the runtime | extended by `PublicCopy`, `AssetsProofs` |
| `PublicCopy` | the asset tree, its locks and pins, and the actions of `tidas-asset-lock` | `AssetsProofs` |
| `VersionNormalization` | `normalize_package_versions`: scan, rewrite, remove | `ExportProofs` |
| `ExportRun` | `run_export`: producer task, main task, token | `ExportProofs` |
| `ConversionRun` | `convert_directory`, both directions, over three packages and their users | `ConversionProofs` |
| `ProjectionRecovery` | `RecoveryBuilder::record` and `restore_tidas_projection` over a tree of JSON pointers | `ConversionProofs` |
| `XmlForm` | `IlcdSchemaOrderer`, `json_value_to_xml`, `xml_to_json` on one document | |
| `ValidationRun` | `run_document_validation_batch` and `validate_tidas_package` with the users of the package | `ValidationProofs` |
| `ProcessSemantics` | `analyze_process_semantics` and the memory foreseen for it | `ValidationProofs` |
| `ReleaseBuild` | `build_packages`, its gates and the users of the input | `ReleaseProofs` |
| `CanonicalStore` | the store of an import as a value, its methods as operators | extended by all below |
| `ImportAdapters` | what each of the five adapters does to the store with one object | `ImportProofs` |
| `PackageWriter` | the TIDAS writer, the bundles, the mapping table | `ImportProofs` |
| `UnitNormalization` | amounts restated in reference units | `ImportProofs` |
| `ImportSources` | detection of the format, the visit of entries and its limits | |
| `ImportRun` | `run_import`: the steps, their gates and failures | extends the five above, `ImportProofs` |
| `CommandReport` | one invocation of `tidas`: arguments, calls, errors, report, exit code | |
| `Lists` | loops over lists: for each, filter, sum, as recursive functions of the round | extended by the modules with such loops, `ListTheorems` |
| `MC...` | constants for TLC; parts that do not interact share a module and take turns | |

### How state and actions correspond to the code

*MemoryBudget.* `used` and `peak` are the two atomics.  `Load` is the first
`load`, `Exceeded` the early return, `CasSucceeds` and `CasFails` the weak
exchange (which may fail spuriously), `FetchMax` the update of the peak,
`DropReservation` the drop.  Integers wrap at `MaxU64 + 1`.

*BoundedQueue.* A thread is in a call or outside it.  In `send` it reserves,
looks at the token, offers the value for one poll interval, and looks again;
every way out drops the reservation or leaves it with the message.  `recv` is
the same on the other side.  A receiver holds what it received until it drops
it.  Threads outside a call may stay there for ever.  What is reserved is
compared with the bytes of the messages themselves, taken as sets of numbered
bytes, so that nothing has to be summed.

*StagedCommit.* The target path holds one content or none; each rename and each
drop of a temporary directory is a step.  `Kind` tells directories, which a
rename does not replace, from files; `KeepBackup` tells whether the backup is
kept when the rollback fails.  A process may die before every step, which leaves
its temporary directories behind.

*SpecImport.* The tree is a set of directories and one content per destination.
An importer goes through the calls of `import_inner` in their order: create
directories, create the lock exclusively, capture, stage, rename each file,
and, when a call fails, restore each captured file, clean up, remove the
directories it created and the lock.

*SpecCandidate.* The four records of a candidate are values, an archive is how
they are packed.  An action edits one record of what was reviewed, repacks it,
or lets the pin follow; `ReadCandidate` is the whole reading, from the gzip
member to the evidence.  A digest is the value it is of.

*PublicCopy, Rulesets.* `repo` maps a path to what lies there.  The maintainer
edits files and moves pins; the tools write, file after file where they write
more than one, and may be interrupted between two.  The checks are operators on
the tree.  `Rulesets` composes the catalog as the runtime and as the tool do.

*VersionNormalization.* A package is a function from dataset and version to the
references in the file.  A reference is where it is found (the value of a key or
an element of an array; the key of preceding versions or another) and what it
names, with and without version and URI.  `Packages` are the packages that may
be exported: all of one reference in the runs, any in the proofs.  The passes visit files one by one and
stop at any error.

*ExportRun.* The producer and the main task are two processes with a channel
between them; both have an action per suspension point.  Rows are numbered by
query; a category that fails is rolled back to its savepoint and becomes a
warning.  Errors of the database and cancellation happen at any moment.

*ConversionRun.* Three packages, `tidas`, `eilcd` made from it and `back` made
from that.  A run copies the existing output to the staging tree, walks its
input into the bounded queue, empties it when it is full, and replaces the
output.  `todo` is the set of files the walk has still to visit, in the order
`Precedes`; `bare` is history: the datasets of which the run's copy of the
output had nothing.  A dataset is data, a fragment that eILCD can or cannot hold, and an
envelope; sidecars are separate files.

*ProjectionRecovery.* A document is a function on the pointers of a tree.  An
adaptation records a node and changes anything at or below it.

*ValidationRun.* Each reading or hashing of a file is a step; a content stands
for its hash.  A verdict is what is spooled of a document: the content it was
read with, the evidence used, the number of issues.

*XmlForm.* JSON values and XML elements are records; members are a sequence,
because order is what it is about.  `Order` puts the members in the order of the
schema, `Write` and `Read` are the two conversions, with the member that the
ordered map moves into a gap.

*ProcessSemantics.* One action, the analysis: its operators follow the checks
and the five early `continue`s exchange by exchange.  `ProjectionCells` is the
walk that foresees the memory, `CellsOf` what the analysis fills.

*ReleaseBuild.* `phase` is the gate of `build_packages` and `todo` the files its
loop has still to visit.  `pending` and `selected` are the worklist and the
result of `resolve`; `walked` is the content the references were read from,
which the code does not keep.  `bound` and `compared` are history: how often a
file had been edited when a gate compared it.

*Imports.* `CanonicalStore` has a file per entity, an order file per type, a
pointer per external id and a file of exchanges per process; its methods are
operators, since an import is one thread and takes its store with it when it
fails.  `ImportAdapters` has one operator per kind of object of each format;
an object is its identity, what it refers to, and its units and amounts.
`UnitNormalization` computes with fractions.  `ImportRun` is the sequence of
`run_import`; before each step the token is looked at, and each may fail.

*CommandReport.* A command is the sequence of its calls into the libraries.  A
call returns with what it found in the data, or fails with an error: the crates
it came through and a cause.  `RuntimeInChain` follows `Error::source` through
the wrappings, transparent ones included; the `...Class` operators are the
translations to exit classes.

`PROJECT.json` gives for every definition the lines it stands for.

## Runs

| run | instance | shows |
|---|---|---|
| `runtime` | either 3 reservations of 1 to 3 or 7 bytes, limit 4, u64 ending at 7; or 2 senders, 1 receiver, capacity 2, limit 3, 2 sends each | exact accounting and peak under every interleaving, the loop implements the atomic budget; no bytes leak, messages keep their order and are drained before a disconnect is reported, cancellation ends every wait, a blocked send returns |
| `staged_release` | 3 runs, one directory, 2 failing renames, crashes at any moment | no published output is lost when the backup is kept, the window between the renames closes |
| `staged_conversion` | 1 run, backup not kept | *violation*: see Findings |
| `assets` | 2 importers, 2 failing calls, 1 death; or a candidate of 9 files with 4 edits; or a tree of 2 schemas, 2 specifications, 2 commits of the rules, 2 edits | exclusion, exact rollback, nothing committed vanishes, only own directories are removed, the lock comes free; a drifted candidate needs an edit of every record; the checks bind the build, fresh locks pass |
| `commands` | every command with every outcome of its calls; or an export of a common query and 2 categories, channel of 1, budget of 2 records; or every package of 2 datasets in up to 3 versions with one reference of any form | the exit code is earned; what an export publishes is complete and counted, both tasks return; references found under a key resolve, the winners survive every abort |
| `commands_cancelled` | every command | *violation*: see Findings |
| `conversion_run` | 2 datasets, 3 conversions, 1 edit at any moment, queue of 2 | clean round trips are exact, fragments are only restored to their data, no envelope is dropped, the one thread cannot block itself |
| `conversion_stale` | 1 dataset, 3 conversions, 1 edit | *violation*: see Findings |
| `documents` | every document over 5 pointers of a tree and all sequences of adaptations; or over a thousand JSON and 4,700 XML documents; or processes of one and two exchanges with every kind of allocation | recovery entries restore the source at every moment; XML follows the schema and keeps the meaning; the memory foreseen suffices, a valid analysis can be calculated with |
| `validation_run` | 2 flows, 1 process, 3 contents, 3 edits | events fit the manifest, judge one state of the files, are complete and counted |
| `release_build` | 2 paired profiles, 3 indexed files that may name each other in a circle, 1 file outside the index, 3 contents, 2 edits | closures are those of the index, what is published passed the gates, the build ends |
| `import_run` | 27 sources of the five formats, 6 requests, cancellation and failure at any moment | the store holds together, exchanges belong to their process and find their flow, amounts keep their quantity, what is published is whole |

The runs of several parts are unions: in every behaviour one part moves, and
the others stay in one initial state.

Every property of a passing run has a mutant, a plausible bug in one mapped
definition that TLC finds with that property; they are the operators marked
"Mutant" in the modules.

### Why the bounds are enough

Three reservations are the least with which one thread can be overtaken between
its load and its exchange by two others, one reserving and one dropping; the
limit is below what they ask for together, and `MaxU64` just above the limit so
that sums do pass the end.  Two senders of two messages fill a channel of two
and wait.  Three runs of a publication are the least in which one can replace
what a second has put while a third is between its renames; two faults let the
second rename and the restore fail in one run.  Two importers meet at the lock,
and two faults reach the failing rollback.  For version normalization every
pair of versions and every place, key and completeness of a reference is an
initial state; references do not interact, so one is enough.  A channel of one
record makes producer and main task wait for each other on every record.  Three
conversions are there, back, and once more into an output that exists; one
edit is the one in between or during.  Three edits in `ValidationRun` are what
the weakest guarantee (`EventsFitManifest`, a flow edited three times) needs to
be seen to be tight; two in `ReleaseBuild` are a file edited and edited back.
Three files form the shortest circle that is entered from outside.

The sources of `import_run` are chosen, not enumerated: each has a case that
the adapter treats specially - objects read twice, two workbooks that give one
flow two ids and one id two flows, units of one name, an id declared by two
datasets, flows with no or two reference properties, a missing factor or
name, a location named by an empty id, cited sources of another version or file, two
SimaPro blocks of one name, entries that are refused, signs of two formats.  The
schema of `documents` has one of each kind of particle the orderer knows, a
circle, and a name that occurs twice; two members, and a third for elements
that are no neighbours, meet every pair of treatments.  Two exchanges and up to
two references are what the rules of an analysis relate.  Four edits of a
candidate are one of each record; two edits of the tree are a file and a pin,
or the two files that a lock relates.

### Deadlock and fairness

Deadlock is checked in every run but `documents`, where a recovery that has no
more adaptations to make is the end of the behaviour; the states in which the
system may rest (`Stopped`, `Ended`, `Finished`, `Done`, `Exited`) stutter
explicitly.  Fairness is weak fairness of the steps of a thread, a task or an
importer that is inside a call: the operating system goes on running it, its
waits are polls with a time-out or wake-ups of the async runtime.  Nothing is
assumed of threads outside a call, of users, of cancellation or of failures.
In `ConversionRun` the failure of a job whose sidecars do not fit is part of the
run and fair.  In `ReleaseBuild` the one thread of the build is fair as a whole.
The other modules (`MemoryBudget`, `StagedCommit`, `VersionNormalization`,
`ProjectionRecovery`, `ValidationRun`, `ImportRun`, `SpecCandidate`,
`PublicCopy`, `XmlForm`, `ProcessSemantics`, `CommandReport`) assume none: their
properties are safety.

## Proofs

TLAPS checks these theorems for every value of the constants that satisfies the
named assumption of the module.

- `ListTheorems`, a library without assumptions.  An induction over numbers (the
  least number at which a set of them breaks off), lists that are
  appended to and joined, and sums of lists: they grow element by element, they are
  ordered as their elements are, they are at most length times bound, and a sum
  is no less than one whose nonzero elements have places of their own in its
  list (`SumInjected`).  The provers cannot instantiate an operator, so a loop with
  a body of its own has its induction where it is used.
- `RuntimeProofs`.  Of the budget, from `BudgetAssumption` (the limit is a u64):
  the invariant `BudgetInv` says that `used` is the number of bytes of the holders
  between their exchange and their drop; without it a drop could wrap below
  zero.  Cardinalities of sets of bytes stand for sums.  Proved: `TypeCorrect`,
  `AccountingHolds`, `PeakHolds`, and `Refinement`: each step is a step of
  `AtomicBudget` or a stutter.  Of the queue, from `QueueAssumption` (senders and
  receivers are different threads, there is room for a message): `InHand` says
  which threads carry a message, `BytesCounted` that the bytes reserved are those
  queued and carried, `InOrder` that what was accepted is what was delivered
  followed by the channel, for as long as a receiver is there.  After the last
  receiver has gone the channel is dropped, and only the prefix is left to say.
  `EveryMove` reduces the actions to six `Moves` of a message, so that each part
  is proved of a move and not of an action.  Proved: `QueueTheorem`.
- `ReleaseProofs`.  Of staged publication, from `CommitAssumption`: `BackupInv` ties a
  run's place to its backup, `WindowInv` says that whoever finds the target
  missing finds a run in the window.  Proved: `CommitTypeCorrect`, `WindowCloses`, and
  `ReleaseConservesOutputs` for directories with the backup kept; it does not
  hold without, as `staged_conversion` shows.  Of the build, from
  `ReleaseAssumption`: `ClosureInv` is the argument
  of the worklist: what is selected or pending lies between the roots and every
  closed set that holds them, and all references of what is selected are
  selected or pending.  It needs `Fresh`, that a profile starts from nothing.
  `EditInv` counts edits between the loading of the index, the reading and the
  second hash.  `GateInv` says of every file that, as long as it is not edited
  after a gate, what was made of it has its content (`Fits`).  Proved:
  `TypeCorrect`, `ClosureTheorem`, `GatesTheorem`.
- `AssetsProofs`.  Of the import, from the assumption that directories form a tree and that
  `Order` lists each destination once.  `ImportInv` has six parts: the shape of
  an importer's records, the lock and its holder, the counters of published and
  restored files, what a snapshot keeps, and the bound of a rename by the
  files that exist.  Proved: `MutualExclusion`, `FailuresRestore`,
  `NothingVanishes`, for any number of importers, destinations, faults and
  deaths.  `OwnedInv` says that what an importer recorded as made by it exists,
  was not there at first and is nobody else's; it is inductive by itself, and
  `DirectoriesHaveOneOwner` follows.  Of the tree, from `CopyAssumption` (what a
  candidate ships are executable assets, the same schemas in both languages):
  `CopyInv` says that while the asset lock has still to be written the schema lock
  fits, and that what a regeneration left passes the check; an interruption leaves
  the second part alone.  `RegeneratedLocksPass` follows.  `ChecksBind` needs no
  invariant of the history but an argument about the operators: equal schema locks
  have equal names (`LockNames`), an asset lock that fits is the bundle
  but for the other indexes, and the runtime refuses of what the tool composed
  just what `LoadRefuses` names.  Of the candidate, from `CandidateAssumption`
  (the import manifest and the baseline are two files the specification wrote,
  the manifest is none of the files, edits of assets leave the two alone): `DriftInv` says
  that a record which was not edited is the reviewed one, and that the pin
  names the reviewed source.  `ReadSoFar` is the invariant of the loop over the headers
  of an archive: each passed its checks, and the files so far are those of the
  file headers, no two of which share a path; with `SameFiles`, what a packing
  leaves of the files, it gives `ArchiveRead`, that whatever can be read is
  what was packed.  Three lemmas then say that the manifest, the
  import manifest or the baseline alone, if it is the reviewed one, binds the imported
  assets and the licence, and `DriftTheorem` follows.
- `ExportProofs`.  Of the normalization, from `NormalizationAssumption` (a package
  has finitely many files, versions have seven digits): a set of versions has a
  greatest one because the numbers below the bound are well-founded.
  `NormalizationInv` says that every reference of a rewritten winner is `Clean`
  and that no winner was removed; the counters are cardinalities of what was
  visited.  `FieldReferencesResolve` needs both: that a reference names the
  latest version, and that the latest version stays.  Proved:
  `LatestVersionsSurvive`, `ReferencesResolve`.  Of the run, from
  `ExportAssumption` (there are finitely many rows): `NoneLost` says that every
  row taken so far is in the package, the channel or a hand; `OrderInv` says that
  they are there in the order of the rows, so that what is written is new and
  `counted` is exact; `TargetInv` says that nothing is published before the
  producer returned `ok` over an empty channel.  Proved: `CompletePublication`.
- `ConversionProofs`, from `ConversionAssumption`.  Three chains.
  `FragmentInv` says of every tree, the staged one included, that a recovery in
  it is of data that was once projected; with the hash check of `Recover` that
  gives `FragmentsFit`.  `ReverseInv` follows a reverse run that nobody disturbs:
  every eILCD document is still `Pending`, in hand as far as the step it is at
  (`Held`), or staged as `Restored`; every envelope is still to be visited or has
  its document.  Publication turns that into `MirrorInv`, and `EnvelopesMerged`
  follows.  `ForwardInv` says that a file is read once and that of a dataset
  which the copied output did not have the staging tree holds exactly what its
  conversion wrote; publication turns that into `OriginInv`, and with `MirrorInv`
  it gives `RoundTripIsExact`.  `JobsInv` - no path is queued twice or queued and
  still to be walked - is what each of them needs.
  Of the projection, from `TreeAssumption` (pointers form a forest):
  `Faithful` says that every entry holds the fragment of the source and that
  outside the entries nothing was changed; the step is the lemma
  `ReconstructedIsSource`.  Proved: `RecoveryTypeCorrect` and `ProjectionIsRecoverable`.
- `ValidationProofs`, from `DocumentAssumption`.  `ManifestInv` follows a
  file through the hashes of the preflight, the reading, the hash after it and
  the final comparison, and counts the edits that a disagreement at each place
  takes.  `StreamInv` says that the documents of the spool and those still to do
  make up the manifest or the listings, and that the count runs ahead of the spool
  by the issues of the document in hand.  `StateInv` rests on counting contents:
  a document with as many contents as edits, plus one, was never restored, so
  once it is no longer what a comparison will look for (`Parted`) it never is
  again, and the comparison fails.  Proved: `TypeCorrect`, `ManifestTheorem`,
  `StreamTheorem`, `OneStateTheorem`.
  Of the analysis of a process, from `AnalyzedAssumption` (references, exchanges and
  rows of allocations are lists, amounts are numbers up to a limit), for
  processes of any length: `BudgetTheorem`, the memory foreseen by the first walk
  covers what the second builds, by comparing the two exchange by exchange; and
  `UsableTheorem`, a valid analysis is complete, interprets every exchange with a part
  for every reference, and charges none more than once.  The last gives every
  part that is charged to a named reference a place of its own in the list of
  amounts that the code summed and compared (`SumInjected`).
- `ImportProofs`, from `TypesAssumption` (the categories that the adapters write are
  entity types, and no type and no fraction is the absent value) and
  `SourcesAssumption` (entries, items and what an adapter iterates over are finite
  lists, declared ids of JSON-LD processes are one word or empty, exchanges have the
  members that the normalization reads, factors are fractions), for objects and
  lists of any length.  `Sound`
  is `StoreSound` strengthened by the shape of the store (`IsStore`) and by
  names: every file and pointer is under its own key (`FilesNamed`,
  `PointersNamed`), else adding an entity could leave a pointer to another's
  file.  `FlowsFound` says that every exchange has its flow, and every flow the
  unit group and property made of its unit; it holds in the formats
  whose flows are made of their exchanges.  Every operator on the store has its
  lemma, every loop of an adapter one about its body, and the loop itself is an
  induction, by the least index at which it would fail.  `PublicationInv`
  says at each step of the run what is staged by then, and which gates it
  passed.  The mapping table and the bundles are loops with an invariant of their
  own: `MappingCovers`, and `BundleInv`, that what the files so far
  need is reached.  `BelongInv` relates the store to everything read so far.  Each
  EcoSpold dataset is one process with all its exchanges: of the ids that
  `unique_process_id` tries one is free, by the pigeonhole principle.  A JSON-LD
  process has the exchanges of the last object of its id, as the steps of
  `AddProcess` show one by one.  With it goes `Catalogued`, that the normalization
  can read what is in the store; it restates the exchanges of each listed process
  once, and leaves their flows and the catalog alone (`FinishedExchanges`).
  That an amount is as much as before then takes finding the reference unit of the
  group by its id, and the algebra of fractions (`AsMuch`).  It needs that
  reference units have the factor 1 and that the ids of units are apart: of two
  units with one id the last counts, and the quantity may change.  Proved:
  `StoreTheorem`, `FlowsTheorem`, `ExchangesTheorem`, `QuantityTheorem`,
  `PublicationTheorem`.

Some attempts changed the model.  `clean` of `ConversionRun` was computed from the
output at publication, which an edit between the copy and the publication makes
empty: then a sidecar copied before it is published beside a dataset that counts
as clean, and TLC breaks `CleanRoundTrip` with one dataset and three edits.  It
is now what the run's copy had (`bare`).  And sums over sequences and over
threads (the bytes of the queue, the issues of a stream) became cardinalities of
sets, which mean the same and need no recursion.  And what an import of the
specification writes is a function by cases, not a chain of overrides, of which the
prover has no definition.  For the same reason the loops of the import are
recursive functions of the number of rounds (`ForEach`) instead of folds, and its counts are
cardinalities of index sets; so are the reader of a candidate's archive and the sums of
allocations, which used to be folds and recursive operators.  `SpecCandidate`
got a specification of its own: its steps used to be put together in the MC
module.  `PublishedIsComplete` became stronger on
the way: it used to say that the parts asked for are there, and now says that
each is what the store gives, and that a failed import leaves nothing of its own
at the target.  `QuantityConserved` did not hold as it was stated: two units with one
id break it.  It now says when the ids are apart
(`UnitsAreApart`), and in every case that the amount was multiplied by its factor;
`UnitNormalization` finds units by their position instead of filtering lists
that were put together.

Model-checked only: the liveness properties (`SendReturns`, `CancelInterrupts`,
`LockComesFree`, `ExportReturns`, `RunEnds`, `BuildEnds`), since fairness and
ENABLED are beyond the prover; and these safety properties:

- `XmlIsFaithful`: `XmlForm` computes over trees of any depth by recursive
  operators, and induction over data is beyond the provers;
- `ExitIsEarned`: `CommandReport` has no parameters, its state space is finite,
  and TLC sees all of it.

## Findings

- `staged_conversion`: when the second rename and the rollback both fail,
  `commit` of tidas-conversion (and its copy in tidas-import) drops the backup
  directory, and with it the only copy of the previous output
  (`tidas-conversion/src/transaction.rs:45`, `tidas-import/src/orchestrator.rs:296`).
  The help text says that a failure leaves an existing output unchanged;
  tidas-release and tidas-export keep the backup.
- `conversion_stale`: converting again into an existing output keeps the
  sidecars of the earlier conversion (`tidas-conversion/src/lib.rs:187`).  When a
  document no longer has the extension members or the fragment, the reverse
  conversion merges what it does not have any more.

- `commands_cancelled`: `runtime_error_in_chain` (`tidas-cli/src/main.rs:691`)
  looks for the error of the token along `Error::source`.  `ReleaseError` and
  `ValidationError` wrap it with `#[error(transparent)]`, which forwards
  `source()` past it.  A release that is cancelled is reported as failed with
  exit code 70, and so is an import cancelled during its validation;
  `docs/agents/cli-contract.md:480` says cancelled and 130.

Seen while modelling, guaranteed by nothing, and stated in the properties as
exceptions or left without one:

- references to versions that are elements of arrays are not redirected by the
  version normalization (`versioning.rs:204`);
- a category that fails after rows of it were sent is reported as skipped, but
  those rows are in the package;
- an export may be reported as cancelled or over budget after its archive is
  published (`archive.rs:77`), its report describes whatever is at the output
  path then, and a publication that fails leaves its temporary file
  (`archive.rs:73`); `release convert-ilcd` reads its tree again after it is
  published (`tidas-release/src/conversion.rs:40`);
- a stalled database has no time-out, and neither `rows.next()` nor
  `receiver.recv()` watches the token (`database.rs:147`); the producer fails
  instead of waiting when the records in flight exhaust the budget
  (`database.rs:184`);
- a document that is edited and edited back between two hashes of a batch is
  reported under the hash of the manifest with the issues of other content;
- a flow that appears between two listings of a package validation is validated
  but is no evidence (`pipeline.rs:107`);
- the TIDAS members of a release are copied after the last gate and not hashed
  again, so a late edit makes the paired packages differ (`archive.rs:67`);
- `x.json` and a stray `x.xml` of one directory end at the same output file
  (`tidas-conversion/src/lib.rs:307`);
- the error path of a specification import removes the directories of
  destinations already published before it has restored them, and the list of
  changed paths is computed before the lock is taken (`spec_import.rs:850`,
  `spec_import.rs:507`);
- an entity that changes its external id removes the pointer of its former one
  even if another has taken it since (`store.rs:55`): lookups by that name then
  find nothing, and the workbook adapter makes a flow anew;
- a flow that the workbook adapter makes for an exchange is a product flow without
  a route or a mix (`openlca_xlsx.rs:422`), which the writer refuses
  (`flow_name.rs:44`): only workbooks whose flows are all on their sheet become packages;
- of two units with one id the last one counts in JSON-LD, and so do the units
  that SimaPro and the workbooks declare again for one flow; bundles follow only
  the flow property a flow was declared with; rows of the mapping table lead to
  `tidas/...` also when only eILCD is kept;
- the branch of `run_import` for a package with issues of severity error is
  dead, since such a package has already been refused;
- a JSON document whose top member is an array is written as several XML roots,
  which nothing can read (`format.rs`); order among elements of different names
  that come mixed is not kept by JSON;
- a second file among the validation indexes is locked but not built in, so the
  checks pass and the build does not verify; `public-rules-check` accepts a
  profile with two rulesets of one id or a commit that is no hash, which the
  runtime refuses (`ChecksBindTheBuild` names both);
- the full validation of a package reports whatever goes wrong in projection or
  recovery as issues of the data, a failing disk and a cancelled recovery
  included (`main.rs:976`, `main.rs:1054`), and so does the import for whatever
  goes wrong in an adapter;
- a batch report is always complete, although `cli-contract.md:505` says that
  unresolved evidence makes it partial.

## What the models leave out

Reports, progress, wording and layout everywhere.  Sizes and contents of files:
a content is a value, its hash itself.  Checks of paths, links and platforms.
In `StagedCommit`, what a rename of a file over an existing one does on
platforms that refuse it is `Kind = "directory"`.  In `SpecImport`, mode and
bytes of a file are one content, and the validation of the candidate is an
input.  In `ProjectionRecovery` the adaptation rules are not told apart: the
model allows every order and overlap of them, of which the code's walk is one.
In `ExportRun` the object storage is one step that may fail, and the normal
form of versions one step.  In `ReleaseBuild` a file passes the validation of
both formats by its own content, references between files apart; the semantic
diagnostics, which fail no build, are left out; the actions of `run_release`
that are one gate alone have no action of their own there and are calls in
`CommandReport`.  In the imports comments, classifications, uncertainties
and the layout of documents are left out, of the name of a flow there is only
whether it has the parts that its type requires (`named`), of the detail rows of the
mapping table those that follow from what else is modelled, hashes are injective, and the outcome
of validation and conversion is not determined.  In `XmlForm` namespaces, white
space between elements and escapes are left out; in `PublicCopy` a JSON Schema
is a flag of the document that fits it or not; in `ProcessSemantics` fractions
are thousandths of a percent, the unit of the tolerance.  In `CommandReport`
which call finds or fails is not determined: what the calls do is in the other
modules.

Not modelled, with the reason:

- the schema, XML and content validators of tidas-validation: functions of one
  document without state, the rules of which are data (`ValidationRun` takes
  their verdict as a constant);
- the rules of the projection, one by one: each is a pattern on the document,
  and `ProjectionRecovery` lets any of them happen anywhere;
- tidas-references: one walk over a document that collects its references;
- tidas-xml: a mutex around a native library;
- tidas-dist: packaging of the toolkit itself, input and output;
- parsing and printing everywhere, argument parsing apart from its refusal.

## Plan

Done, in this order: the shared mechanisms (budget, queue, staged publication,
import of the specification); the runs of the domain crates over files that
change (export, conversion, validation, release); the canonical store and the
import with its adapters; candidates, locks and rules of the assets; the pure
algorithms on single documents (XML form, process semantics); the commands and
their exit codes.

What is left, by what it would add:

1. An abstract map with an index that `CanonicalStore` implements, but for the
   pointer it removes too much.
2. tidas-references with the versions and closures that use it, as one walk.
