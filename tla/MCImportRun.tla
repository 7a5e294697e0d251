----------------------------- MODULE MCImportRun -----------------------------
(***************************************************************************)
(* Sources of every format for ImportRun, each with a case that is hard:   *)
(* objects that come twice, names that collide, flows with several units   *)
(* or properties, ids that are missing, entries that are refused.          *)
(***************************************************************************)
EXTENDS ImportRun

\* Short forms of the objects.
Entry(ext, looks, items) ==
  [ext |-> ext, sign |-> IF looks = Nothing THEN Nothing ELSE Sign(looks, High),
   size |-> 1, symlink |-> FALSE, items |-> items]
Source(kind, ext, entries) ==
  [kind |-> kind, ext |-> ext, exists |-> TRUE, context |-> FALSE, entries |-> entries]
Directory(entries) == Source("directory", "", entries)
Unread == [kind |-> "unreadable"]

Object(type, id) ==
  [kind |-> "jsonld", type |-> type, id |-> id, source |-> "s", name |-> "n"]
Unit(id, factor, reference) ==
  [id |-> <<id>>, name |-> id, factor |-> factor, reference |-> reference]
Group(id, units) == Object("UnitGroup", <<id>>) @@ [units |-> units]
Property(id, group) == Object("FlowProperty", <<id>>) @@ [group |-> <<group>>]
Assigned(property, factor, reference) ==
  [property |-> <<property>>, factor |-> factor, reference |-> reference]
Flow(id, properties) ==
  Object("Flow", <<id>>) @@ [unit |-> Nothing, properties |-> properties, named |-> TRUE]
Used(flow, unit, property, isInput, provider) ==
  [Exchange(<<flow>>, unit, isInput, FALSE) EXCEPT
     !.unitId = IF unit = Nothing THEN Nothing ELSE <<unit>>,
     !.property = IF property = Nothing THEN Nothing ELSE <<property>>,
     !.amount = <<6, 1>>,
     !.provider = IF provider = Nothing THEN Nothing ELSE <<provider>>]
Process(id, exchanges) ==
  Object("Process", id) @@
  [location |-> Nothing, locationRef |-> <<"CH">>, quality |-> <<2, 5>>, system |-> <<"dq">>,
   exchanges |-> exchanges]

Units == <<
  Group("mass", <<Unit("kg", <<1, 1>>, TRUE), Unit("g", <<1, 1000>>, FALSE)>>),
  Group("volume", <<Unit("l", <<1, 1000>>, FALSE), Unit("m3", <<1, 1>>, FALSE)>>),
  Property("pmass", "mass"), Property("pvolume", "volume")>>
Water == Flow("water", <<Assigned("pvolume", <<1, 500>>, FALSE), Assigned("pmass", <<1, 1>>, TRUE)>>)
Steel == Flow("steel", <<Assigned("pmass", Nothing, FALSE)>>)
Iron == Flow("iron", <<Assigned("pmass", <<1, 1>>, FALSE)>>)
Places == <<Object("Location", <<"CH">>) @@ [code |-> "ch"],
            Object("DQSystem", <<"dq">>) @@ [indicators |-> <<"time", "time">>]>>

\* Two processes linked by a provider; the first one comes again, with other
\* exchanges, after it was read.
JsonLd == Directory(<<
  Entry("json", Nothing, Units \o Places),
  Entry("json", "jsonld", <<Water, Iron,
    Process(<<"p">>, <<Used("water", "l", "pvolume", FALSE, Nothing),
                       Used("iron", "g", Nothing, TRUE, "q")>>),
    Process(<<"q">>, <<Used("iron", "g", Nothing, TRUE, Nothing),
                       Used("water", "m3", Nothing, FALSE, Nothing)>>)>>),
  Entry("jsonld", "jsonld", <<
    Process(<<"p">>, <<Used("water", "g", Nothing, TRUE, "q"),
                       Used("gone", "kg", Nothing, FALSE, Nothing),
                       [Used("iron", "g", Nothing, FALSE, Nothing) EXCEPT !.amount = Nothing]>>)>>),
  Entry("md", Nothing, <<>>)>>)

\* A flow without the factor of its property, two properties of which both or
\* none is the reference; a flow without the parts of its name, an object whose
\* id is empty, and one that names a location by an empty id.
Flawed(flow) == Directory(<<Entry("json", "jsonld", Units \o <<flow>>)>>)
BadFactor == Flawed(Steel)
NoReference == Flawed(Flow("f", <<Assigned("pvolume", <<1, 1>>, FALSE),
                                  Assigned("pmass", <<1, 1>>, FALSE)>>))
TwoReferences == Flawed(Flow("f", <<Assigned("pvolume", <<1, 1>>, TRUE),
                                    Assigned("pmass", <<1, 1>>, TRUE)>>))
Unnamed == Flawed([Iron EXCEPT !.named = FALSE])
EmptyId == Flawed(Object("Actor", <<>>))
EmptyPlace == Flawed([Process(<<"p">>, <<>>) EXCEPT !.locationRef = <<>>])
NoObjects == Directory(<<Entry("json", "jsonld", <<Object("Other", <<"x">>)>>)>>)
NoExchanges == Directory(<<Entry("json", "jsonld", <<Process(Nothing, <<>>)>>)>>)
Skipped == Directory(<<Entry("json", "jsonld", <<Unread>>)>>)

Row(name, unit) == [name |-> name, unit |-> unit, named |-> TRUE]
Section(name, rows) == [name |-> name, rows |-> rows]
\* Two blocks of one name, two units of one name, a section that comes again,
\* and an input only block.
Simapro == Source("file", "csv", <<Entry("csv", "simapro", <<
  [kind |-> "simapro", source |-> "s", index |-> 1, name |-> "a", sections |-> <<
    Section("Materials/fuels", <<Row("coal", "t")>>),
    Section("Products", <<Row("power", "kWh")>>),
    Section("Materials/fuels", <<Row("coal", "kg"), Row("coal", "MJ")>>),
    Section("Comment", <<Row("text", Nothing)>>)>>],
  [kind |-> "simapro", source |-> "s", index |-> 2, name |-> "a", sections |-> <<
    Section("Resources", <<Row("air", Nothing), Row(Nothing, "kg")>>)>>]>>)>>)

Book(file, uuid, flows, outputs, inputs) ==
  [kind |-> "xlsx", source |-> file, uuid |-> uuid, flows |-> flows, outputs |-> outputs,
   inputs |-> inputs]
FlowRow(name, uuid) == [name |-> name, uuid |-> uuid, named |-> TRUE]
UseRow(name, unit, reference) == [name |-> name, unit |-> unit, reference |-> reference]
\* The second workbook declares a flow of the first with another UUID, and then
\* the UUID of that flow with another name: the pointer of the name is gone.
Workbooks == Directory(<<
  Entry("xlsx", "xlsx", <<Book("one", <<"p1">>, <<FlowRow("Steel", <<"f1">>), FlowRow(Nothing, Nothing),
                                       FlowRow("slag", <<"f9">>), FlowRow("dross", <<"f9">>)>>,
                               <<UseRow("steel", "kg", TRUE)>>, <<UseRow("ore", "t", FALSE)>>)>>),
  Entry("xlsx", "xlsx", <<Book("two", Nothing, <<FlowRow("steel", <<"f2">>), FlowRow("iron", <<"f1">>)>>,
                               <<UseRow("Ore", Nothing, FALSE)>>, <<UseRow("steel", "g", FALSE)>>)>>)>>)
\* A workbook whose flows are all on its sheet: one that an exchange makes has no
\* route and is refused when the package is written.
ListedFlows == Directory(<<
  Entry("xlsx", "xlsx", <<Book("one", <<"p1">>, <<FlowRow("Steel", <<"f1">>), FlowRow("ore", Nothing)>>,
                               <<UseRow("steel", "kg", TRUE)>>, <<UseRow("Ore", "t", FALSE)>>)>>)>>)
OtherWorkbook == Directory(<<Entry("xlsx", "xlsx", <<[kind |-> "other"]>>)>>)

Dataset(name, id, sources, exchanges) ==
  [kind |-> "ecospold", source |-> "s", name |-> name, id |-> id, sources |-> sources,
   exchanges |-> exchanges]
Element(name, id, unit, isInput) ==
  [name |-> name, id |-> id, unit |-> unit, isInput |-> isInput, named |-> TRUE]
\* Datasets of one name, and one declared id used twice.
Ecospold == Source("zip", "zip", <<
  Entry("spold", "ecospold", <<
    Dataset("a", Nothing, <<[number |-> "1", title |-> "t"]>>,
            <<Element("coal", Nothing, "kg", TRUE), Element("power", <<"f">>, "MJ", FALSE)>>),
    Dataset("a", Nothing, <<>>, <<Element("coal", Nothing, "MJ", TRUE)>>),
    Dataset("a", Nothing, <<>>, <<Element("air", Nothing, Nothing, TRUE)>>),
    Dataset("b", <<"id">>, <<>>, <<Element("power", <<"f">>, "kWh", FALSE)>>),
    Dataset("c", <<"id">>, <<>>, <<Element("coal", Nothing, "kg", TRUE),
                                   Element("coal", Nothing, "kg", FALSE)>>)>>),
  Entry("xlsx", "xlsx", <<[kind |-> "other"]>>)>>)

IlcdDocument(type, id) == [kind |-> "ilcd", type |-> type, id |-> id, source |-> "s"]
IlcdFlow(id, properties, reference) ==
  IlcdDocument("flows", <<id>>) @@
  [properties |-> properties, referenceProperty |-> reference, named |-> TRUE]
IlcdProcess(id, exchanges, sources, nonFlow) ==
  IlcdDocument("processes", id) @@
  [exchanges |-> exchanges, sources |-> sources, nonFlow |-> nonFlow]
Cites(id, version, file) == <<[id |-> <<id>>, version |-> version, file |-> file]>>
IlcdUnits == <<
  IlcdDocument("unitgroups", <<"mass">>) @@ [units |-> <<Unit("kg", <<1, 1>>, TRUE)>>],
  IlcdDocument("flowproperties", <<"pmass">>) @@ [group |-> <<"mass">>],
  IlcdDocument("flowproperties", <<"pvolume">>) @@ [group |-> Nothing],
  IlcdDocument("sources", <<"src">>) @@ [version |-> "1"],
  IlcdDocument("sources", <<"old">>) @@ [version |-> Nothing],
  IlcdDocument("contacts", Nothing)>>
\* A process without exchanges that refers to something that is not a flow.
Ilcd == Directory(<<Entry("xml", "ilcd", IlcdUnits \o <<
  IlcdFlow("f", <<Assigned("pvolume", <<1, 1>>, FALSE), Assigned("pmass", <<2, 1>>, FALSE)>>, 2),
  IlcdFlow("g", <<Assigned("pvolume", <<1, 1>>, FALSE)>>, Nothing),
  IlcdProcess(<<"p">>, <<Exchange(<<"f">>, Nothing, TRUE, FALSE),
                         Exchange(<<"g">>, Nothing, FALSE, FALSE)>>, Cites("src", Nothing, "s"), FALSE),
  IlcdProcess(Nothing, <<>>, Cites("src", "1", Nothing) \o Cites("old", "00.00.001", Nothing),
              TRUE)>>)>>)
\* A source in another version, from another file, or not there.
Citing(documents, cited) ==
  Directory(<<Entry("xml", "ilcd", documents \o <<IlcdProcess(<<"p">>, <<>>, cited, TRUE)>>)>>)
IlcdOtherVersion == Citing(IlcdUnits, Cites("src", "2", Nothing))
IlcdOtherFile == Citing(IlcdUnits, Cites("src", "1", "other"))
IlcdNoSource == Citing(<<>>, Cites("src", Nothing, Nothing))
\* Without a quantitative reference each of two properties is the reference.
IlcdUnmarked == Directory(<<Entry("xml", "ilcd", IlcdUnits \o <<
  IlcdFlow("f", <<Assigned("pvolume", <<1, 1>>, FALSE), Assigned("pmass", <<2, 1>>, FALSE)>>,
           Nothing)>>)>>)

\* Sources that are not read, or not to the end.
Missing == [Directory(<<>>) EXCEPT !.exists = FALSE]
Zolca == Source("file", "zolca", <<>>)
Undetected == Directory(<<Entry("pdf", Nothing, <<>>)>>)
Ambiguous == Directory(<<Entry("json", "jsonld", <<>>), Entry("csv", "simapro", <<>>)>>)
\* Two weak signs count for more than a strong one.
Outvoted == Directory(<<
  [Entry("json", Nothing, Units) EXCEPT !.sign = Sign("jsonld", Medium)],
  [Entry("json", Nothing, <<Process(<<"p">>, <<Used("water", "m3", Nothing, FALSE, Nothing)>>)>>)
     EXCEPT !.sign = Sign("jsonld", Medium)],
  Entry("csv", "simapro", <<>>)>>)
Large == Directory(<<[Entry("csv", "simapro", <<>>) EXCEPT !.size = 3]>>)
Linked == [Directory(<<[Entry("json", Nothing, <<>>) EXCEPT !.symlink = TRUE]>>) EXCEPT !.context = TRUE]

MCSources == {
  JsonLd, BadFactor, NoReference, TwoReferences, Unnamed, EmptyId, EmptyPlace, NoObjects,
  NoExchanges, Skipped, Simapro, Workbooks, ListedFlows, OtherWorkbook, Ecospold, Ilcd,
  IlcdOtherVersion, IlcdOtherFile, IlcdNoSource, IlcdUnmarked,
  Missing, Zolca, Undetected, Ambiguous, Outvoted, Large,
  Linked}

Request(goal, extras) ==
  [requested |-> Nothing, target |-> goal, mapping |-> extras, bundles |-> extras, queue |-> 1,
   nested |-> FALSE, limit |-> 2, budget |-> 8]
MCRequests == {
  Request("tidas", TRUE), Request("ilcd", TRUE), Request("both", FALSE),
  [Request("tidas", TRUE) EXCEPT !.requested = "ilcd"],
  [Request("both", TRUE) EXCEPT !.nested = TRUE],
  [Request("both", TRUE) EXCEPT !.queue = 0]}

MCLower(word) == CASE word = "Steel" -> "steel" [] word = "Ore" -> "ore" [] OTHER -> word
MCEntityTypes == {"unitgroups", "flowproperties", "flows", "processes", "contacts", "sources",
                  "locations", "dqsystems", "lifecyclemodels"}
=============================================================================
