---------------------------- MODULE PackageWriter ----------------------------
(***************************************************************************)
(* What an import makes of the canonical store: the TIDAS package          *)
(* (writers/mod.rs, writers/unit_flow.rs, normalization/flow_properties.rs)*)
(* the bundle of each process (bundles.rs) and the mapping table           *)
(* (mapping.rs).  A document is what it refers to; the package is a        *)
(* function from <<category, id>> to documents.                            *)
(***************************************************************************)
EXTENDS ImportAdapters

\* Datasets that every package has: the importing contact, and the sources of
\* the format and of the compliance system.
DefaultContact == StableId(<<"default", "contact">>)
DefaultSources == {StableId(<<"default", "format">>), StableId(<<"default", "compliance">>)}
Defaults == {<<"contacts", DefaultContact>>} \cup {<<"sources", id>> : id \in DefaultSources}

\* Datasets that are referred to when the source names none; nothing writes
\* them.
DefaultProperty == StableId(<<"default", "flowproperty">>)
DefaultUnitGroup == StableId(<<"default", "unitgroup">>)

Elements(seq) == {seq[i] : i \in 1 .. Len(seq)}
-----------------------------------------------------------------------------
(* Normalization of flows *)

\* legacy_single_property.
SingleProperty(raw) ==
  CASE raw.property # Nothing -> raw.property
    [] raw.property = Nothing /\ raw.unit # Nothing -> FlowPropertyOf(raw.unit)
    [] OTHER -> DefaultProperty

\* normalize_flow: the flow has a name, and one that is not elementary a route
\* and a mix too.  parse_entry and the cardinality of the reference property: an
\* entry without a property or a factor is an error, and exactly one entry is
\* the reference unless there is only one.
FlowNormalizes(raw) ==
  LET marked == {i \in 1 .. Len(raw.properties) : raw.properties[i].reference}
  IN /\ raw.named
     /\ \A i \in 1 .. Len(raw.properties) :
          raw.properties[i].property # Nothing /\ raw.properties[i].factor # Nothing
     /\ raw.properties # <<>> =>
          Cardinality(marked) = 1 \/ (Len(raw.properties) = 1 /\ marked = {})

\* normalize: the properties of a flow, the reference first.
FlowProperties(raw) ==
  IF raw.properties = <<>> THEN <<SingleProperty(raw)>>
  ELSE LET ids(list) == [i \in 1 .. Len(list) |-> list[i].property]
       IN ids(SelectSeq(raw.properties, LAMBDA p : p.reference))
          \o ids(SelectSeq(raw.properties, LAMBDA p : ~p.reference))
-----------------------------------------------------------------------------
(* The package *)

DefaultVersion == "00.00.001"

\* canonical_ilcd_source_references: every source is there; it was read from the
\* file that the URI of the reference leads to, if that is local, and has the
\* version that is referred to, if one is.
SourcesResolve(store, raw) ==
  \A i \in 1 .. Len(raw.sources) :
    LET source == Get(store, "sources", raw.sources[i].id) IN
    /\ source # Nothing
    /\ raw.sources[i].file \in {Nothing, source.raw.file}
    /\ raw.sources[i].version \in {Nothing, Or(source.raw.version, DefaultVersion)}

\* reject_unsupported_entities, preflight_flows and the errors of the process
\* writer.
Writable(store) ==
  /\ \A k \in Defaults : ~Has(store, k[1], k[2])
  /\ \A flow \in Elements(IterType(store, "flows")) : FlowNormalizes(flow.raw)
  /\ \A process \in Elements(IterType(store, "processes")) :
       /\ SourcesResolve(store, process.raw)
       /\ process.raw.nonFlow \/ Exchanges(store, process.id) # <<>>

\* write_process_entities: the declared reference exchange, or the first
\* output, or the first exchange.
QuantitativeReference(exchanges) ==
  LET first(Test(_)) == CHOOSE i \in 1 .. Len(exchanges) :
                          /\ Test(exchanges[i])
                          /\ \A j \in 1 .. i - 1 : ~Test(exchanges[j])
      some(Test(_)) == \E i \in 1 .. Len(exchanges) : Test(exchanges[i])
      declared(x) == x.reference
      output(x) == ~x.isInput
  IN CASE some(declared) -> first(declared)
       [] ~some(declared) /\ some(output) -> first(output)
       [] OTHER -> 1

\* The datasets that the document of an entity refers to.
References(store, e) ==
  Defaults \cup
  CASE e.type = "flows" ->
         {<<"flowproperties", p>> : p \in Elements(FlowProperties(e.raw))}
    [] e.type = "flowproperties" ->
         {<<"unitgroups", Or(e.raw.group, DefaultUnitGroup)>>}
    [] e.type = "processes" ->
         {<<"flows", x.flow>> : x \in Elements(Exchanges(store, e.id))}
         \cup {<<"sources", r.id>> : r \in Elements(e.raw.sources)}
    [] e.type = "lifecyclemodels" ->
         {<<"processes", p>> : p \in Elements(e.raw.processes)}
    [] OTHER -> {}

\* A process document has its exchanges too, numbered from 1.
Document(store, e) ==
  LET exchanges == Exchanges(store, e.id) IN
  [refs |-> References(store, e),
   exchanges |-> IF e.type = "processes" THEN Len(exchanges) ELSE 0,
   reference |-> IF e.type = "processes" /\ ~e.raw.nonFlow THEN QuantitativeReference(exchanges)
                 ELSE 0]

\* CATEGORY_ORDER; locations and data quality systems are not written.
Categories ==
  <<"contacts", "sources", "unitgroups", "flowproperties", "flows", "processes", "lifecyclemodels">>

\* write_tidas_package.
TidasPackage(store) ==
  LET written == {k \in DOMAIN store.entities : k[1] \in Elements(Categories)}
  IN [k \in written \cup Defaults |->
        IF k \in Defaults THEN [refs |-> {}, exchanges |-> 0, reference |-> 0]
        ELSE Document(store, store.entities[k])]
-----------------------------------------------------------------------------
(* The bundles *)

\* Mutant: the first dependency of its category is enough.
CopiedOncePerCategory(package, bundle, key) ==
  IF key \in DOMAIN package
  THEN [bundle EXCEPT !.files = IF \E k \in @ : k[1] = key[1] THEN @ ELSE @ \cup {key}]
  ELSE [bundle EXCEPT !.unresolved = Append(@, key)]

\* copy_dependency: copied once; a dataset that is not in the package is
\* unresolved, each time it is asked for.
Copied(package, bundle, key) ==
  IF key \in DOMAIN package THEN [bundle EXCEPT !.files = @ \cup {key}]
  ELSE [bundle EXCEPT !.unresolved = Append(@, key)]

\* The chain of an exchange: its flow, the flow property that the flow was
\* declared with, and the unit group of that.
CopyExchange(store, package, bundle, x) ==
  LET withFlow == Copied(package, bundle, <<"flows", x.flow>>)
      property == IF Has(store, "flows", x.flow)
                  THEN Get(store, "flows", x.flow).raw.property ELSE Nothing
      withProperty == Copied(package, withFlow, <<"flowproperties", property>>)
      group == IF Has(store, "flowproperties", property)
               THEN Get(store, "flowproperties", property).raw.group ELSE Nothing
  IN IF <<"flows", x.flow>> \notin DOMAIN package \/ property = Nothing THEN withFlow
     ELSE IF <<"flowproperties", property>> \notin DOMAIN package \/ group = Nothing
     THEN withProperty
     ELSE Copied(package, withProperty, <<"unitgroups", group>>)

\* materialize_process_bundle.
Bundle(store, package, process) ==
  ForEach(LAMBDA b, x : CopyExchange(store, package, b, x),
          [files |-> Defaults \cup {<<"processes", process>>}, unresolved |-> <<>>],
          Exchanges(store, process))

\* write_process_bundles.
Bundles(store, package) ==
  [process \in Elements(store.order["processes"]) |-> Bundle(store, package, process)]
-----------------------------------------------------------------------------
(* The mapping table *)

\* write_mapping_rows: a row for every entity, formal if it has an external
\* id, followed by the rows of its details, and for a process by one row per
\* exchange.  A row is the file it leads to and what it is about.
EntityRows(store, e) ==
  LET identifier == <<[about |-> "identifier", file |-> <<e.type, e.id>>,
                       formal |-> e.ext # Nothing]>>
      detail(about) == [about |-> about, file |-> <<e.type, e.id>>, formal |-> FALSE]
      exchange == [i \in 1 .. Len(Exchanges(store, e.id)) |-> detail("exchange")]
      known == e.type = "processes" /\ e.raw.location # Nothing
  IN CASE e.type = "flows" -> identifier \o <<detail("classification")>>
       [] known -> identifier \o <<detail("geography")>> \o <<detail("placeholder")>> \o exchange
       [] e.type = "processes" /\ ~known -> identifier \o <<detail("placeholder")>> \o exchange
       [] OTHER                -> identifier

CategoryRows(store, rows, type) ==
  ForEach(LAMBDA written, e : written \o EntityRows(store, e), rows, IterType(store, type))
MappingRows(store) ==
  ForEach(LAMBDA rows, type : CategoryRows(store, rows, type), <<>>, Categories)
=============================================================================
