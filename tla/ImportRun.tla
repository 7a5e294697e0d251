------------------------------ MODULE ImportRun ------------------------------
(***************************************************************************)
(* run_import of crates/tidas-import/src/orchestrator.rs with what it      *)
(* calls: parse_external_source (pipeline.rs), the package writer, the     *)
(* validators, the converter, the mapping table and the bundles.  All of   *)
(* it is staged, and one commit publishes it.                              *)
(*                                                                         *)
(* Validation and conversion have modules of their own; here their outcome *)
(* is not determined.  The steps are sequential; the token may be          *)
(* cancelled between any two of them, and every step may fail on I/O.      *)
(***************************************************************************)
EXTENDS ImportSources

CONSTANTS
  Sources,   \* what may be at the source path
  Requests   \* ImportRequest: requested, target, mapping, bundles, queue,
             \* nested, limit (max_entry_bytes) and budget

ASSUME SourcesAssumption ==
  \A s \in Sources :
    /\ IsList(s.entries)
    /\ \A i \in 1 .. Len(s.entries) :
         /\ IsList(s.entries[i].items)
         /\ \A j \in 1 .. Len(s.entries[i].items) : HasLists(s.entries[i].items[j])

Previous == [report |-> "previous"]

VARIABLES
  source,     \* what is at ImportRequest.source
  request,    \* the rest of the request
  cancelled,  \* the token
  pc,         \* the next step
  entry,      \* entries of the source visited so far
  format,     \* DetectedFormat.format
  store,      \* CanonicalStore
  supported,  \* objects the adapter counted
  errors,     \* issues of severity Error
  staged,     \* what is in the staging directory
  validated,  \* packages in it that a validator has found valid
  target,     \* what is at ImportRequest.output_dir
  outcome     \* what run_import returned

input == <<source, request>>
core == <<entry, format, store, supported, errors>>
output == <<staged, validated, target>>
vars == <<input, cancelled, pc, core, output, outcome>>

NothingStaged ==
  [tidas |-> Nothing, ilcd |-> Nothing, mapping |-> Nothing, bundles |-> Nothing,
   report |-> Nothing]

Init ==
  /\ source \in Sources
  /\ request \in Requests
  /\ cancelled = FALSE
  /\ pc = "start"
  /\ entry = 0
  /\ format = Nothing
  /\ store = EmptyStore
  /\ supported = 0
  /\ errors = 0
  /\ staged = NothingStaged
  /\ validated = {}
  /\ target \in {Nothing, Previous}
  /\ outcome = "none"

Cancel ==
  /\ ~cancelled /\ pc # "done"
  /\ cancelled' = TRUE
  /\ UNCHANGED <<input, pc, core, output, outcome>>

\* An error is returned: the staging directory goes, the target stays.
Fail(why) ==
  /\ pc' = "done"
  /\ outcome' = why
  /\ staged' = NothingStaged
  /\ UNCHANGED <<input, cancelled, core, validated, target>>

\* CancellationToken::check before a step.
Stops(step) == pc = step /\ cancelled /\ Fail("cancelled")
Continues(step) == pc = step /\ ~cancelled

IncludesIlcd == request.target \in {"ilcd", "both"}
KeepsTidas == request.target \in {"tidas", "both"}
-----------------------------------------------------------------------------
(* Reading *)

\* The checks of the request, and detect_format.
Start ==
  \/ Stops("start")
  \/ /\ Continues("start")
     /\ request.queue = 0 \/ (source.kind = "directory" /\ request.nested)
     /\ Fail("request")
  \/ /\ Continues("start")
     /\ request.queue > 0 /\ ~(source.kind = "directory" /\ request.nested)
     /\ LET detected == DetectFormat(source, request.requested) IN
        IF detected \notin Importable \/ ~Visitable(source, detected)
        THEN Fail("format")
        ELSE /\ format' = detected
             /\ pc' = "read"
             /\ UNCHANGED <<input, cancelled, entry, store, supported, errors, output, outcome>>

\* One entry of visit_source_entries: every object in it.
Read(items) ==
  LET after == ReadItems(store, format, items)
      count(Test(_)) == Cardinality({i \in 1 .. Len(items) : Test(items[i])})
  IN IF ~after.ok THEN Fail("store")
     ELSE /\ store' = after
          /\ supported' = supported + count(LAMBDA i : Counts(format, i))
          /\ errors' = errors + count(Unreadable)
          /\ entry' = entry + 1
          /\ UNCHANGED <<input, cancelled, pc, format, output, outcome>>

ReadEntry ==
  /\ entry < Len(source.entries)
  /\ LET e == source.entries[entry + 1] IN
     \/ Stops("read")
     \/ Continues("read") /\ e.symlink /\ Fail("symlink")
     \/ /\ Continues("read")
        /\ ~e.symlink /\ ~Allowed(e, format)
        /\ Read(<<>>)
     \/ /\ Continues("read")
        /\ ~e.symlink /\ Allowed(e, format)
        /\ ~FitsMemory(e, format, request.limit, request.budget)
        /\ Fail("size")
     \/ /\ Continues("read")
        /\ ~e.symlink /\ Allowed(e, format)
        /\ FitsMemory(e, format, request.limit, request.budget)
        /\ IF \E i \in Elements(e.items) : Breaks(format, i)
           THEN Fail("workbook") ELSE Read(e.items)

\* The rest of OpenLcaJsonLdAdapter::read.
JsonLdResolved == NormalizeAmounts(ResolveQuality(ResolveLocations(store)))

HasExchanges == \E p \in DOMAIN store.exchanges : store.exchanges[p] # <<>>

\* The end of the adapter, of parse_external_source, and the issues that stop
\* the import.  Only the normalization of amounts looks at the token.
FinishReading ==
  /\ pc = "read" /\ entry = Len(source.entries)
  /\ LET isJsonLd == format = "jsonld"
         after == IF isJsonLd THEN AddProviderGraph(JsonLdResolved) ELSE store
         models == IF isJsonLd /\ HasProviderGraph(JsonLdResolved) THEN 1 ELSE 0
         empty == supported + models = 0
     IN \/ isJsonLd /\ cancelled /\ HasExchanges /\ Fail("cancelled")
        \/ /\ ~(isJsonLd /\ cancelled /\ HasExchanges)
           /\ IF errors > 0 \/ empty \/ ~after.ok THEN Fail("source issues")
              ELSE /\ store' = after
                   /\ supported' = supported + models
                   /\ pc' = "write"
                   /\ UNCHANGED <<input, cancelled, entry, format, errors, output, outcome>>
-----------------------------------------------------------------------------
(* Writing *)

Staged(part, content) == staged' = [staged EXCEPT ![part] = content]
Goes(step) == pc' = step /\ UNCHANGED <<input, cancelled, core, target, outcome>>

\* write_tidas_package.
WriteTidas ==
  \/ Stops("write")
  \/ /\ Continues("write")
     /\ IF Writable(store)
        THEN Staged("tidas", TidasPackage(store)) /\ Goes("validate") /\ UNCHANGED validated
        ELSE Fail("unwritable")

\* validate_tidas_package and ensure_valid.
Validate ==
  \/ Stops("validate")
  \/ Continues("validate") /\ Fail("tidas invalid")
  \/ /\ Continues("validate")
     /\ validated' = validated \cup {"tidas"}
     /\ Goes("ilcd") /\ UNCHANGED staged

\* write_and_validate_ilcd.
WriteIlcd ==
  \/ pc = "ilcd" /\ ~IncludesIlcd /\ Goes("mapping") /\ UNCHANGED <<staged, validated>>
  \/ IncludesIlcd /\ Stops("ilcd")
  \/ IncludesIlcd /\ Continues("ilcd") /\ Fail("ilcd invalid")
  \/ /\ IncludesIlcd /\ Continues("ilcd")
     /\ Staged("ilcd", staged.tidas)
     /\ validated' = validated \cup {"ilcd"}
     /\ Goes("mapping")

\* write_mapping_csv_gz, if asked for.
WriteMapping ==
  \/ pc = "mapping" /\ ~request.mapping /\ Goes("bundles") /\ UNCHANGED <<staged, validated>>
  \/ request.mapping /\ Stops("mapping")
  \/ /\ request.mapping /\ Continues("mapping")
     /\ Staged("mapping", MappingRows(store))
     /\ Goes("bundles") /\ UNCHANGED validated

\* write_process_bundles, if asked for.
WriteBundles ==
  \/ pc = "bundles" /\ ~request.bundles /\ Goes("report") /\ UNCHANGED <<staged, validated>>
  \/ request.bundles /\ Stops("bundles")
  \/ /\ request.bundles /\ Continues("bundles")
     /\ Staged("bundles", Bundles(store, staged.tidas))
     /\ Goes("report") /\ UNCHANGED validated

\* write_report, and the TIDAS package goes if only the ILCD one was asked for.
WriteReport ==
  /\ pc = "report"
  /\ staged' = [staged EXCEPT
       !.tidas = IF KeepsTidas THEN @ ELSE Nothing,
       !.report = [format |-> format, objects |-> supported, issues |-> errors,
                   packages |-> validated]]
  /\ Goes("commit") /\ UNCHANGED validated

\* The last look at the token, and StagedDirectory::commit (module
\* StagedCommit has its steps).
Commit ==
  \/ Stops("commit")
  \/ /\ Continues("commit")
     /\ target' = staged
     /\ staged' = NothingStaged
     /\ pc' = "done"
     /\ outcome' = "ok"
     /\ UNCHANGED <<input, cancelled, core, validated>>

\* Any step may fail on I/O; a commit that fails puts the target back.
IoFails == pc # "done" /\ Fail("io")

Done == pc = "done" /\ UNCHANGED vars

Step ==
  \/ Start \/ ReadEntry \/ FinishReading \/ WriteTidas \/ Validate \/ WriteIlcd
  \/ WriteMapping \/ WriteBundles \/ WriteReport \/ Commit \/ IoFails
Next == Cancel \/ Step \/ Done

Spec == Init /\ [][Next]_vars
-----------------------------------------------------------------------------
(* What must hold *)

\* The store holds together whatever is read: an order file lists each entity
\* once and each line has its entity, and a pointer leads to an entity with
\* that external id (store.rs:40-83, 271-284).
StoreSound == OrderListsEntities(store) /\ PointersLead(store)

\* The objects of this format in the entries visited so far.
NotedItems(read, kind, items) ==
  ForEach(LAMBDA r, i : IF i.kind = kind THEN Append(r, i) ELSE r, read, items)
ReadUpTo(entries, kind, n) ==
  LET noted[k \in 0 .. Len(entries)] ==
        IF k = 0 THEN <<>>
        ELSE IF Allowed(entries[k], kind) THEN NotedItems(noted[k - 1], kind, entries[k].items)
        ELSE noted[k - 1]
  IN noted[n]
ItemsRead == ReadUpTo(source.entries, format, entry)

\* An exchange without a flow id is dropped.
WithFlow(exchanges) == Selected(exchanges, LAMBDA x : x.flow # Nothing)
FlowsOf(exchanges) == [i \in 1 .. Len(exchanges) |-> exchanges[i].flow]

\* A process has the exchanges of the last object that has its id, and of no
\* other; two EcoSpold datasets are never one process (openlca_jsonld.rs:58-76,
\* ecospold.rs:302-325, store.rs:155-165).
ExchangesBelong ==
  /\ format = "ecospold" =>
       LET processes == store.order["processes"] IN
       /\ Len(processes) = Len(ItemsRead)
       /\ \A i \in 1 .. Len(processes) :
            Len(Exchanges(store, processes[i])) = Len(ItemsRead[i].exchanges)
  /\ format = "jsonld" =>
       \A i \in 1 .. Len(ItemsRead) :
         LET object == ItemsRead[i]
             sameId(other) == other.type = "Process" /\ other.id = object.id
         IN object.type = "Process" /\ object.id # Nothing
            /\ (\A j \in i + 1 .. Len(ItemsRead) : ~sameId(ItemsRead[j]))
            => FlowsOf(Exchanges(store, object.id)) = FlowsOf(WithFlow(object.exchanges))

\* The formats without flow objects: every exchange finds its flow in the
\* store, and a flow with a unit finds the flow property and the unit group of
\* that unit (generated_units.rs, openlca_xlsx.rs:398-458).
ExchangesFindTheirFlow ==
  format \in {"simapro", "xlsx", "ecospold"} =>
    \A p \in DOMAIN store.exchanges : \A x \in Elements(store.exchanges[p]) :
      /\ Has(store, "flows", x.flow)
      /\ LET unit == Get(store, "flows", x.flow).raw.unit IN
         unit # Nothing => /\ Has(store, "flowproperties", FlowPropertyOf(unit))
                           /\ Has(store, "unitgroups", UnitGroupOf(unit))

\* Every exchange that can be restated is restated once, whatever its process
\* and whatever else is resolved before, and the quantity stays what it was
\* (openlca_normalize.rs:51-103, 167-262).
QuantityConserved ==
  [][pc = "read" /\ pc' = "write" /\ format = "jsonld" =>
       \A p \in DOMAIN store.exchanges : \A i \in 1 .. Len(store.exchanges[p]) :
         LET before == store.exchanges[p][i]
             after == store'.exchanges[p][i]
         IN Resolves(store, before) =>
              /\ Equal(after.amount, Times(before.amount, Factor(store, before)))
              /\ (/\ MeasuresInReference(store, before) /\ UnitsAreApart(store)
                  /\ after.unitId # Nothing)
                 => Equal(Quantity(store', after), Quantity(store, before))]_vars

\* Every dataset that a process needs is in its bundle, or is listed as
\* unresolved because the package does not have it: the flows of its exchanges,
\* the flow property each was declared with, and the unit group of that
\* (bundles.rs:117-213).
Needs(key) ==
  CASE key[1] = "processes" -> {<<"flows", x.flow>> : x \in Elements(Exchanges(store, key[2]))}
    [] key[1] = "flows" /\ Has(store, "flows", key[2])
         /\ Get(store, "flows", key[2]).raw.property # Nothing ->
         {<<"flowproperties", Get(store, "flows", key[2]).raw.property>>}
    [] key[1] = "flowproperties" /\ GroupOf(store, key[2]) # Nothing ->
         {<<"unitgroups", GroupOf(store, key[2])>>}
    [] OTHER -> {}

BundlesAreClosed(package, bundles) ==
  \A p \in DOMAIN bundles :
    LET bundle == bundles[p] IN
    /\ <<"processes", p>> \in bundle.files
    /\ Defaults \subseteq bundle.files
    /\ bundle.files \subseteq DOMAIN package
    /\ Elements(bundle.unresolved) \cap DOMAIN package = {}
    /\ \A key \in bundle.files : Needs(key) \subseteq bundle.files \cup Elements(bundle.unresolved)

\* Every dataset of the package but the defaults has one identifier row, and
\* every row leads to a dataset of the package (mapping.rs:103-183).
MappingCovers(package, rows) ==
  /\ \A i \in 1 .. Len(rows) : rows[i].file \in DOMAIN package
  /\ \A key \in DOMAIN package \ Defaults :
       Cardinality({i \in 1 .. Len(rows) :
                      rows[i].about = "identifier" /\ rows[i].file = key}) = 1

\* The quantitative reference of a process document is one of its exchanges:
\* the declared one if there is one, and never an input next to an output.
ReferencesAreExchanges(package) ==
  \A key \in DOMAIN package :
    key[1] = "processes" /\ package[key].reference # 0 =>
      LET exchanges == Exchanges(store, key[2])
          x == exchanges[package[key].reference]
      IN /\ package[key].reference \in 1 .. Len(exchanges)
         /\ x.reference \/ \A y \in Elements(exchanges) : ~y.reference /\ (x.isInput => y.isInput)

\* A flow has one reference property, or nothing is published.
FlowsHaveOneReference ==
  \A flow \in Elements(IterType(store, "flows")) :
    Cardinality({i \in 1 .. Len(flow.raw.properties) : flow.raw.properties[i].reference}) <= 1

\* What is published came of a source without errors, was validated, is what
\* the request asked for, and holds together; without a publication the target
\* is what it was (orchestrator.rs:90-193).
PublishedIsComplete ==
  IF outcome # "ok" THEN target \in {Nothing, Previous}
  ELSE LET package == TidasPackage(store) IN
       /\ errors = 0 /\ supported > 0
       /\ "tidas" \in validated /\ (IncludesIlcd => "ilcd" \in validated)
       /\ target.tidas = IF KeepsTidas THEN package ELSE Nothing
       /\ target.ilcd = IF IncludesIlcd THEN package ELSE Nothing
       /\ target.mapping = IF request.mapping THEN MappingRows(store) ELSE Nothing
       /\ target.bundles = IF request.bundles THEN Bundles(store, package) ELSE Nothing
       /\ target.report.packages = validated
       /\ FlowsHaveOneReference
       /\ ReferencesAreExchanges(package)
       /\ request.mapping => MappingCovers(package, target.mapping)
       /\ request.bundles => BundlesAreClosed(package, target.bundles)
=============================================================================
