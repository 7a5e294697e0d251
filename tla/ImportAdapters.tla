--------------------------- MODULE ImportAdapters ---------------------------
(***************************************************************************)
(* The source adapters of crates/tidas-import/src/adapters: what each does *)
(* to the canonical store with one object of its source (a JSON-LD object, *)
(* a SimaPro block, a workbook, an EcoSpold dataset, an ILCD document).    *)
(* What is kept of an object is its identity, what it refers to, and its   *)
(* units and amounts; names, comments and classifications are left out.    *)
(*                                                                         *)
(* An id is a sequence of words: <<w>> for the declared id w, <<>> for one *)
(* that is there and empty, a longer one for an id made from a seed with   *)
(* stable_id, which is taken to be injective and never to hit a declared   *)
(* id.                                                                     *)
(***************************************************************************)
EXTENDS CanonicalStore, Integers, SequencesExt, TLC

CONSTANT Lower(_)  \* to_ascii_lowercase of the words used as names

StableId(words) == <<"stable">> \o words

Or(a, b) == IF a # Nothing THEN a ELSE b

\* The first element that passes a test, or Nothing.
FirstOf(seq, Test(_)) ==
  LET i == SelectInSeq(seq, Test) IN IF i = 0 THEN Nothing ELSE seq[i]

\* Amounts and factors: a numerator and a denominator.
Fractions == Int \X Int

ASSUME TypesAssumption ==
  /\ {"contacts", "sources", "unitgroups", "flowproperties", "flows", "processes",
      "lifecyclemodels"} \subseteq EntityTypes
  /\ Nothing \notin EntityTypes /\ Nothing \notin Fractions
-----------------------------------------------------------------------------
(* What the adapters have in common *)

\* The raw members of each type that something later reads.
FlowRaw(unit, property, properties, named) ==
  [unit |-> unit, property |-> property, properties |-> properties, named |-> named]
ProcessRaw(location, locationRef, quality, system) ==
  [location |-> location, locationRef |-> locationRef, quality |-> quality,
   system |-> system, indicators |-> <<>>, sources |-> <<>>, nonFlow |-> FALSE]
PlainProcess == ProcessRaw(Nothing, Nothing, Nothing, Nothing)
Exchange(flow, unit, isInput, reference) ==
  [flow |-> flow, unitId |-> Nothing, unit |-> unit, property |-> Nothing, amount |-> <<1, 1>>,
   isInput |-> isInput, reference |-> reference, provider |-> Nothing]

UnitGroupOf(unit) == StableId(<<"unitgroup", unit>>)
FlowPropertyOf(unit) == StableId(<<"flowproperty", unit>>)

\* generated_units::add_for_flow: a flow with a unit and no flow property gets
\* a unit group and a flow property of that unit.
AddUnitsFor(store, flow) ==
  IF flow.raw.property # Nothing \/ flow.raw.unit = Nothing THEN store
  ELSE LET unit == flow.raw.unit
           group == Entity("unitgroups", UnitGroupOf(unit), Nothing,
                           [units |-> <<[id |-> Nothing, name |-> unit, factor |-> <<1, 1>>,
                                         reference |-> FALSE]>>])
           property == Entity("flowproperties", FlowPropertyOf(unit), Nothing,
                              [group |-> UnitGroupOf(unit)])
       IN Add(Add(store, group), property)

AddFlow(store, flow) == Add(AddUnitsFor(store, flow), flow)

\* Of an exchange without a flow nothing is kept.
AddExchanges(store, process, exchanges) ==
  ForEach(LAMBDA s, x : IF x.flow = Nothing THEN s ELSE AddExchange(s, process, x),
          store, exchanges)

\* Mutant: the exchange file is not emptied before it is filled.
AddProcessAppending(store, process, exchanges) ==
  Add(AddExchanges(store, process.id, exchanges), process)

\* The exchanges of a process that carries them, then the process.
AddProcess(store, process, exchanges) ==
  Add(AddExchanges(BeginExchanges(store, process.id), process.id, exchanges), process)
-----------------------------------------------------------------------------
(* openLCA JSON-LD *)

JsonLdType(object) ==
  CASE object.type = "UnitGroup"    -> "unitgroups"
    [] object.type = "FlowProperty" -> "flowproperties"
    [] object.type = "Flow"         -> "flows"
    [] object.type = "Process"      -> "processes"
    [] object.type = "Actor"        -> "contacts"
    [] object.type = "Source"       -> "sources"
    [] object.type = "Location"     -> "locations"
    [] object.type = "DQSystem"     -> "dqsystems"
    [] OTHER                        -> Nothing

\* flow_raw: the reference property, or the first.
ReferenceProperty(properties) ==
  IF properties = <<>> THEN Nothing
  ELSE Or(FirstOf(properties, LAMBDA p : p.reference), properties[1]).property

\* to_entity: an object without an id, or with an empty one, is given one; an
\* empty id stays the external id.
JsonLdEntity(object) ==
  LET type == JsonLdType(object)
      id == IF object.id \in {Nothing, <<>>}
            THEN StableId(<<"openlca", object.type, object.source, object.name>>)
            ELSE object.id
      raw == CASE type = "flows" ->
                    FlowRaw(object.unit, ReferenceProperty(object.properties), object.properties,
                            object.named)
               [] type = "processes" ->
                    ProcessRaw(object.location, object.locationRef, object.quality, object.system)
               [] type = "flowproperties" -> [group |-> object.group]
               [] type = "unitgroups" -> [units |-> object.units]
               [] type = "locations" -> [code |-> object.code]
               [] type = "dqsystems" -> [indicators |-> object.indicators]
               [] OTHER -> Nothing
  IN Entity(type, id, object.id, raw)

\* One object of OpenLcaJsonLdAdapter::read.
ReadJsonLd(store, object) ==
  IF JsonLdType(object) = Nothing THEN store
  ELSE LET entity == JsonLdEntity(object) IN
       CASE entity.type = "flows"     -> AddFlow(store, entity)
         [] entity.type = "processes" -> AddProcess(store, entity, object.exchanges)
         [] OTHER                     -> Add(store, entity)

\* A process is written again if something was found for it.  What it names is
\* looked up by its external id, and with an id that is no key that fails.
Update(store, process, sought, raw) ==
  IF sought # Nothing /\ ~ValidKey(sought) THEN Failed(store)
  ELSE IF raw = process.raw THEN store
  ELSE Add(store, Entity("processes", process.id, process.ext, raw))

\* resolve_process_locations, of the processes as they are when the loop starts.
LocationSought(raw) == IF raw.location # Nothing THEN Nothing ELSE raw.locationRef
Located(store, raw) ==
  LET location == GetByExternal(store, "locations", LocationSought(raw)) IN
  IF location = Nothing THEN raw ELSE [raw EXCEPT !.location = location.raw.code]
ResolveLocations(store) ==
  ForEach(LAMBDA s, process : Update(s, process, LocationSought(process.raw), Located(s, process.raw)),
          store, IterType(store, "processes"))

\* data_quality_indicators: the score at a position goes to the indicator the
\* system names there; the first score of an indicator counts.
Indicators(scores, system) ==
  FoldLeft(LAMBDA found, i :
             IF i \in DOMAIN system /\ system[i] # Nothing
                /\ \A k \in 1 .. Len(found) : found[k][1] # system[i]
             THEN Append(found, <<system[i], scores[i]>>) ELSE found,
           <<>>, [i \in 1 .. Len(scores) |-> i])

\* resolve_process_data_quality: and the systems are removed.
SystemSought(raw) == IF raw.quality = Nothing THEN Nothing ELSE raw.system
Rated(store, raw) ==
  LET system == GetByExternal(store, "dqsystems", SystemSought(raw)) IN
  IF system = Nothing THEN raw
     ELSE [raw EXCEPT !.indicators = LET found == Indicators(raw.quality, system.raw.indicators)
                                     IN IF found = <<>> THEN @ ELSE found]
RateProcesses(store) ==
  ForEach(LAMBDA s, process : Update(s, process, SystemSought(process.raw), Rated(s, process.raw)),
          store, IterType(store, "processes"))
ResolveQuality(store) == RemoveType(RateProcesses(store), "dqsystems")

IsUuid(id) == Len(id) = 1

\* provider_graph_lifecycle_model: the inputs that name a provider among the
\* processes, in the order of the processes and of their exchanges.
Connections(store) ==
  LET processes == store.order["processes"]
      linked(consumer) ==
        LET inputs == SelectSeq(Exchanges(store, consumer), LAMBDA x :
              /\ x.isInput /\ x.provider # Nothing /\ IsUuid(x.flow)
              /\ \E i \in 1 .. Len(processes) : processes[i] = x.provider)
        IN [i \in 1 .. Len(inputs) |->
              [provider |-> inputs[i].provider, consumer |-> consumer, flow |-> inputs[i].flow]]
  IN FlattenSeq([i \in 1 .. Len(processes) |-> linked(processes[i])])

HasProviderGraph(store) ==
  Len(store.order["processes"]) >= 2 /\ Connections(store) # <<>>

AddProviderGraph(store) ==
  IF ~HasProviderGraph(store) THEN store
  ELSE Add(store, Entity("lifecyclemodels", StableId(<<"lifecyclemodel">>), Nothing,
                         [processes |-> store.order["processes"],
                          connections |-> Connections(store)]))
-----------------------------------------------------------------------------
(* SimaPro CSV *)

\* exchange_indexes: the sections whose rows are exchanges, and their side.
SectionSide(section) ==
  CASE section \in {"Products", "Avoided products", "Emissions to air", "Emissions to water",
                     "Emissions to soil", "Final waste flows", "Non material emissions",
                     "Social issues", "Economic issues"} -> "output"
    [] section \in {"Materials/fuels", "Electricity/heat", "Resources",
                     "Waste to treatment"} -> "input"
    [] OTHER -> "none"

\* visit_process_blocks: a section that comes again replaces the rows of the
\* first.
Sections(block) ==
  ForEach(LAMBDA seen, section :
            IF \E i \in 1 .. Len(seen) : seen[i].name = section.name
            THEN [i \in 1 .. Len(seen) |->
                    IF seen[i].name = section.name THEN section ELSE seen[i]]
            ELSE Append(seen, section),
          <<>>, block.sections)

\* exchange, flow_entity and the loop of SimaProCsvAdapter::read: one flow per
\* section and name, whose unit is that of its last row.
SimaproRow(store, block, process, section, row) ==
  IF SectionSide(section) = "none" \/ row.name = Nothing THEN store
  ELSE LET flow == Entity("flows", StableId(<<"simapro/flow", block.source, section, row.name>>),
                          Nothing, FlowRaw(row.unit, Nothing, <<>>, row.named))
       IN AddExchange(AddFlow(store, flow), process,
                      Exchange(flow.id, row.unit, SectionSide(section) = "input", FALSE))

SimaproSection(store, block, process, section) ==
  ForEach(LAMBDA s, row : SimaproRow(s, block, process, section.name, row), store, section.rows)
SimaproSections(store, block, process, sections) ==
  ForEach(LAMBDA s, section : SimaproSection(s, block, process, section), store, sections)

ReadSimapro(store, block) ==
  LET process == Entity("processes",
                        StableId(<<"simapro/process", block.source, block.index, block.name>>),
                        Nothing, PlainProcess)
      begun == BeginExchanges(store, process.id)
  IN Add(SimaproSections(begun, block, process.id, Sections(block)), process)
-----------------------------------------------------------------------------
(* openLCA process workbooks *)

FlowKey(name) == <<"key", Lower(name)>>

\* flow_from_row: the Flows sheet; a row without a name is skipped.
WorkbookFlow(store, book, row) ==
  IF row.name = Nothing THEN store
  ELSE AddFlow(store, Entity("flows",
                 Or(row.uuid, StableId(<<"xlsx/flow", book.source, row.name>>)),
                 FlowKey(row.name), FlowRaw(Nothing, Nothing, <<>>, row.named)))

\* Mutant: a row whose flow is not found gets an exchange and no flow.
WorkbookExchangeOnly(store, book, process, isInput, row) ==
  IF row.name = Nothing THEN store
  ELSE LET known == GetByExternal(store, "flows", FlowKey(row.name)) IN
       AddExchange(store, process,
                   Exchange(IF known # Nothing THEN known.id
                            ELSE StableId(<<"xlsx/exchange-flow", book.source, row.name>>),
                            row.unit, isInput, row.reference))

\* exchange_from_row: the flow is looked up by its key, or made; it takes the
\* unit of the row if there is one.
WorkbookExchange(store, book, process, isInput, row) ==
  IF row.name = Nothing THEN store
  ELSE LET known == GetByExternal(store, "flows", FlowKey(row.name))
           flow == IF known # Nothing THEN known
                   ELSE Entity("flows", StableId(<<"xlsx/exchange-flow", book.source, row.name>>),
                               FlowKey(row.name), FlowRaw(Nothing, Nothing, <<>>, FALSE))
           used == [flow EXCEPT !.raw.unit = Or(row.unit, @)]
       IN AddExchange(AddFlow(store, used), process,
                      Exchange(flow.id, row.unit, isInput, row.reference))

WorkbookFlows(store, book) ==
  ForEach(LAMBDA s, row : WorkbookFlow(s, book, row), store, book.flows)
WorkbookExchanges(store, book, process, isInput, rows) ==
  ForEach(LAMBDA s, row : WorkbookExchange(s, book, process, isInput, row), store, rows)

\* OpenLcaProcessXlsxAdapter::read: the flows, the outputs and the inputs.
ReadWorkbook(store, book) ==
  LET process == Entity("processes", Or(book.uuid, StableId(<<"xlsx/process", book.source>>)),
                        book.uuid, PlainProcess)
      flows == WorkbookFlows(BeginExchanges(store, process.id), book)
      outputs == WorkbookExchanges(flows, book, process.id, FALSE, book.outputs)
  IN Add(WorkbookExchanges(outputs, book, process.id, TRUE, book.inputs), process)
-----------------------------------------------------------------------------
(* EcoSpold 1 and 2 *)

\* unique_process_id: the ids used so far are those of the processes read.
UniqueProcessId(store, dataset, preferred) ==
  LET free(id) == ~Has(store, "processes", id)
      candidate(n) == StableId(<<"ecospold/process", dataset.source, dataset.name, n>>)
  IN IF free(preferred) THEN preferred
     ELSE LET n == CHOOSE n \in 1 .. Len(store.order["processes"]) + 1 :
                     /\ free(candidate(n))
                     /\ \A m \in 1 .. n - 1 : ~free(candidate(m))
          IN candidate(n)

\* flow_entity and exchange_value: without a declared id, flows of one name and
\* unit are one.
EcospoldExchange(store, process, x) ==
  LET flow == Entity("flows", Or(x.id, StableId(<<"ecospold/flow", x.name, ToString(x.unit)>>)),
                     x.id, FlowRaw(x.unit, Nothing, <<>>, x.named))
  IN AddExchange(AddFlow(store, flow), process, Exchange(flow.id, x.unit, x.isInput, FALSE))

EcospoldSource(x) ==
  Entity("sources", StableId(<<"ecospold/source", x.number, x.title>>), <<x.number>>, Nothing)
EcospoldSources(store, sources) == ForEach(LAMBDA s, x : Add(s, EcospoldSource(x)), store, sources)
EcospoldExchanges(store, process, exchanges) ==
  ForEach(LAMBDA s, x : EcospoldExchange(s, process, x), store, exchanges)

\* read_ecospold: the sources, the exchanges and the process of a dataset.
ReadEcospold(store, dataset) ==
  LET preferred == Or(dataset.id,
                      StableId(<<"ecospold/process", dataset.source, dataset.name>>))
      process == Entity("processes", UniqueProcessId(store, dataset, preferred), dataset.id,
                        PlainProcess)
      begun == BeginExchanges(EcospoldSources(store, dataset.sources), process.id)
  IN Add(EcospoldExchanges(begun, process.id, dataset.exchanges), process)
-----------------------------------------------------------------------------
(* ILCD *)

\* flow_property_assignments: without a quantitative reference every property
\* is the reference.
IlcdProperties(document) ==
  [i \in 1 .. Len(document.properties) |->
     [property |-> document.properties[i].property, factor |-> document.properties[i].factor,
      reference |-> document.referenceProperty \in {Nothing, i}]]

\* entity_from_document: a declared UUID is the external id too, and so is the
\* id that is made when there is none.
ReadIlcd(store, document) ==
  LET id == Or(document.id, StableId(<<"ilcd", document.type, document.source>>))
      entity(raw) == Entity(document.type, id, id, raw)
      marked == SelectSeq(IlcdProperties(document), LAMBDA p : p.reference)
  IN CASE document.type = "processes" ->
            AddProcess(store, entity([PlainProcess EXCEPT !.sources = document.sources,
                                                          !.nonFlow = document.nonFlow]),
                       document.exchanges)
       [] document.type = "flows" ->
            Add(store, entity(FlowRaw(Nothing,
                              IF marked = <<>> THEN Nothing ELSE marked[1].property,
                              IlcdProperties(document), document.named)))
       [] document.type = "flowproperties" -> Add(store, entity([group |-> document.group]))
       [] document.type = "unitgroups" -> Add(store, entity([units |-> document.units]))
       [] document.type = "sources" ->
            Add(store, entity([version |-> document.version, file |-> document.source]))
       [] OTHER -> Add(store, entity(Nothing))
-----------------------------------------------------------------------------
(* All formats *)

\* An item of the source that is not read: an issue of severity Error.
\* JSON or XML that does not parse, an ILCD quantitative reference without a
\* type, a workbook whose general information is empty.
Unreadable(item) == item.kind = "unreadable"

\* A workbook without a sheet of general information ends the import; what
\* else is not of the format is passed over.
Breaks(format, item) == format = "xlsx" /\ item.kind \notin {"xlsx", "unreadable"}

ReadItem(store, format, item) ==
  CASE item.kind # format  -> store
    [] item.kind = format  ->
         CASE format = "jsonld"   -> ReadJsonLd(store, item)
           [] format = "simapro"  -> ReadSimapro(store, item)
           [] format = "xlsx"     -> ReadWorkbook(store, item)
           [] format = "ecospold" -> ReadEcospold(store, item)
           [] format = "ilcd"     -> ReadIlcd(store, item)

ReadItems(store, format, items) ==
  ForEach(LAMBDA s, item : ReadItem(s, format, item), store, items)

\* An exchange of a JSON-LD process has the members that normalization reads,
\* each of which may be Nothing.
IsUse(x) ==
  /\ {"flow", "unitId", "unit", "property", "amount"} \subseteq DOMAIN x
  /\ x.amount \in Fractions \cup {Nothing}

\* The units of a group, or the properties of a flow.
HaveFactors(list) ==
  IsList(list) /\ \A i \in 1 .. Len(list) : list[i].factor \in Fractions \cup {Nothing}

\* What the adapters iterate over are sequences, a declared id of a JSON-LD
\* process is one word or empty, and what it measures are fractions.
HasLists(item) ==
  CASE item.kind = "jsonld"   -> /\ item.type = "Process" =>
                                      /\ item.id = Nothing \/ Len(item.id) <= 1
                                      /\ IsList(item.exchanges)
                                      /\ \A i \in 1 .. Len(item.exchanges) :
                                           IsUse(item.exchanges[i])
                                 /\ item.type = "Flow" => HaveFactors(item.properties)
                                 /\ item.type = "UnitGroup" => HaveFactors(item.units)
    [] item.kind = "simapro"  -> /\ IsList(item.sections)
                                 /\ \A i \in 1 .. Len(item.sections) : IsList(item.sections[i].rows)
    [] item.kind = "xlsx"     -> IsList(item.flows) /\ IsList(item.outputs) /\ IsList(item.inputs)
    [] item.kind = "ecospold" -> IsList(item.sources) /\ IsList(item.exchanges)
    [] item.kind = "ilcd"     -> item.type = "processes" => IsList(item.exchanges)
    [] OTHER                  -> TRUE

\* What an adapter counts: nothing of it is an error of the source.
Counts(format, item) ==
  /\ item.kind = format
  /\ format = "jsonld" => JsonLdType(item) \notin {Nothing, "dqsystems"}
=============================================================================
