----------------------------- MODULE MCDocuments -----------------------------
(***************************************************************************)
(* Single documents: the projection and recovery of one, its way to XML    *)
(* and back, and the analysis of a process.  In every behaviour one part   *)
(* moves and the others have nothing; a recovery at rest is an initial one.*)
(***************************************************************************)
EXTENDS ProjectionRecovery, ProcessSemantics, TLC

CONSTANTS Contentless, Circle

\* An object with a member, an array of two members, and a second member.
MCNodes == {"root", "list", "first", "second", "name"}
MCSubtree == [n \in MCNodes |-> CASE n = "root" -> MCNodes
                                  [] n = "list" -> {"list", "first", "second"}
                                  [] OTHER -> {n}]

VARIABLES
  part,                                   \* the part that moves
  given, json, xml, report, step          \* of XmlForm

xmlVars == <<given, json, xml, report, step>>
-----------------------------------------------------------------------------
(* Documents for XmlForm *)

Leaf(name, type) == [tag |-> "element", name |-> name, ref |-> "", type |-> type, content |-> Contentless]
Reference(name) == [tag |-> "element", name |-> "", ref |-> name, type |-> "", content |-> Contentless]
Holding(tag, children) == [tag |-> tag, children |-> children]

\* A type with a base, a choice, a group and a name that occurs twice.
MCTypes ==
  [Dated |-> [base |-> "", children |-> <<Holding("sequence", <<Leaf("uuid", "")>>)>>],
   Data  |-> [base |-> "Dated",
              children |-> <<Holding("sequence",
                <<Leaf("name", ""),
                  Holding("choice", <<Reference("link"), [tag |-> "group", ref |-> "Remarks"]>>),
                  Reference("loop"), Leaf("name", "")>>)>>],
   Link  |-> [base |-> "", children |-> <<Holding("all", <<Leaf("remark", ""), Leaf("name", "")>>)>>],
   Open  |-> [base |-> "", children |-> <<[tag |-> "any"]>>]]
MCGroups == [Remarks |-> <<Holding("sequence", <<Leaf("remark", "Open")>>)>>]
MCElements ==
  [data |-> Leaf("data", "Data"),
   link |-> [Leaf("link", "") EXCEPT !.content = MCTypes.Link],
   loop |-> [Leaf("loop", "") EXCEPT !.ref = "loop"]]

MCNames == <<"_note", "bad name", "link", "loop", "name", "remark", "uuid">>
MCTrim == [t \in {"", "blank", "plain", "padded", "number", "control"} |->
             CASE t = "blank" -> "" [] t = "padded" -> "plain" [] OTHER -> t]

Null == [kind |-> "null"]
Text(t) == [kind |-> "text", value |-> t]
Number == [kind |-> "number", value |-> "number"]
Array(items) == [kind |-> "array", items |-> items]
Object(members) == [kind |-> "object", members |-> members]
Member(mark, name, value) == [key |-> [mark |-> mark, name |-> name], value |-> value]

Note == Object(<<Member("#", "text", Text("padded")), Member("@", "lang", Text("plain"))>>)
Linked == Object(<<Member("", "name", Text("plain")), Member("", "_note", Null),
                   Member("", "remark", Array(<<Text("plain"), Null>>))>>)
MCValues == {Null, Number, Text("blank"), Array(<<>>), Array(<<Number>>), Object(<<>>), Note, Linked,
             Array(<<Text("plain"), Array(<<Note, Linked>>), Text("blank")>>)}
MCMembers ==
  {Member("", n, v) : n \in {"name", "link"}, v \in MCValues}
  \cup {Member("", n, v) : n \in {"remark", "_note"}, v \in {Number, Linked, Array(<<Null, Note, Number>>)}}
  \cup {Member("", "loop", v) : v \in {Number, Note}}
  \cup {Member("", "bad name", Null), Member("@", "id", Number), Member("@", "id", Array(<<>>)),
        Member("#", "text", Text("padded")), Member("#", "other", Null), Member("", "uuid", Text("control")),
        Member("", "uuid", Text("plain"))}

Tops(n) == {t \in [1..n -> MCMembers] : \A i, j \in 1..n : i # j => t[i].key # t[j].key}
Data(v) == Object(<<Member("", "data", v)>>)
MCDocs ==
  {Data(Object(t)) : t \in Tops(0) \cup Tops(1) \cup Tops(2)}
  \cup {Data(Object(t \o <<Member("", "uuid", Array(<<Number, Note, Null>>))>>)) :
          t \in {u \in Tops(2) : u[1].key.mark = "" /\ \A i \in 1..2 : u[i].key.name # "uuid"}}
  \cup {Data(v) : v \in MCValues}
  \cup {Null, Object(<<>>), Object(<<Member("", "other", Null)>>),
        Object(<<Member("", "data", Null), Member("@", "id", Number)>>)}

\* Elements of two names, with and without something in them, in any order.
XmlLeaf(name, text) == [name |-> name, attributes |-> <<>>, children |-> <<>>, text |-> text]
MCForeign ==
  LET parts == {XmlLeaf(n, t) : n \in {"name", "link"}, t \in {"plain", "blank", "number"}}
               \cup {[XmlLeaf("name", "padded") EXCEPT !.attributes = <<[name |-> "lang", value |-> "plain"]>>],
                     [XmlLeaf("link", "") EXCEPT !.children = <<XmlLeaf("name", "plain")>>]}
      Root(children) == [name |-> "data", attributes |-> <<[name |-> "id", value |-> "number"]>>,
                         children |-> children, text |-> ""]
  IN {<<Root(c)>> : c \in UNION {[1..n -> parts] : n \in 0..4}}
     \cup {<<>>, <<XmlLeaf("data", "plain"), XmlLeaf("data", "")>>}

X == INSTANCE XmlForm WITH
  Documents <- MCDocs, Foreign <- MCForeign, NoDocument <- NoAnalysis, Elements <- MCElements, Types <- MCTypes, Groups <- MCGroups,
  NoContent <- Contentless, Cycle <- Circle, NameOrder <- MCNames, BadNames <- {"bad name"},
  BadTexts <- {"control"}, Trim <- MCTrim, MaxReported <- 2,
  document <- given, phase <- step
-----------------------------------------------------------------------------
(* Processes for ProcessSemantics *)

Fraction(amount, written) == [amount |-> amount, written |-> written]
Plain(amount) == Fraction(amount, "plain")
Junk == Plain(100001)
Row(target, fraction) == [empty |-> FALSE, target |-> target, fraction |-> fraction]
EmptyRow == [empty |-> TRUE, target |-> NoTarget, fraction |-> Junk]
Declared(form, rows) == [form |-> form, rows |-> rows]

\* Every branch: none, empty, malformed, mixed, older declarations in every
\* spelling, and vectors that are whole, nearly whole, not whole, or name the
\* wrong thing.
MCAllocations ==
  {Declared("absent", <<>>), Declared("none", <<>>), Declared("object", <<>>),
   Declared("array", <<>>), Declared("array", <<EmptyRow>>),
   Declared("array", <<Row(1, Plain(60000)), Row(NoTarget, Plain(40000))>>),
   Declared("array", <<Row(NoTarget, Plain(60000)), Row(NoTarget, Plain(40000))>>)}
  \cup {Declared(form, <<Row(NoTarget, f)>>) : form \in {"object", "array"},
          f \in {Plain(100000), Plain(60000), Fraction(100000, "percent"), Fraction(100000, "respelled"), Junk}}
  \cup {Declared("array", rows) : rows \in
          {<<Row(1, Plain(100000))>>, <<Row(2, Plain(60000)), Row(1, Plain(40000))>>,
           <<Row(1, Plain(33333)), Row(2, Plain(66666))>>, <<Row(1, Plain(33333)), Row(2, Plain(66665))>>,
           <<Row(1, Plain(60000)), Row(1, Plain(40000))>>, <<Row(3, Plain(100000))>>,
           <<Row(NoId, Plain(100000))>>, <<Row(1, Junk), Row(2, Plain(100000))>>,
           <<Row(2, Fraction(100000, "percent"))>>}}

MCFlows ==
  [exact : {TRUE}, flow : {"product", "elementary", "twice", "odd", "unknown"}, version : {1}]
  \cup {[exact |-> TRUE, flow |-> "product", version |-> 2], [exact |-> FALSE, flow |-> "product", version |-> 1]}
MCEvidence ==
  <<[flow |-> "product", version |-> 1, type |-> "Product flow"],
    [flow |-> "elementary", version |-> 1, type |-> "Elementary flow"],
    [flow |-> "twice", version |-> 1, type |-> "Waste flow"],
    [flow |-> "twice", version |-> 1, type |-> "Waste flow"],
    [flow |-> "odd", version |-> 1, type |-> "unheard of"]>>
Product == [exact |-> TRUE, flow |-> "product", version |-> 1]

Exchange(id, direction, flow, allocation) ==
  [id |-> id, direction |-> direction, flow |-> flow, form |-> allocation.form, rows |-> allocation.rows]

Firsts == {Exchange(1, d, Product, a) : d \in {"Input", "Output"}, a \in MCAllocations}
Seconds ==
  {Exchange(id, d, Product, a) : id \in {1, 2, NoId}, d \in {"Output", "Input", "Sideways"},
     a \in {Declared("absent", <<>>), Declared("object", <<Row(NoTarget, Plain(40000))>>),
            Declared("array", <<EmptyRow>>), Declared("array", <<Row(NoTarget, Plain(100000))>>)}}
  \cup {Exchange(2, "Output", f, Declared("absent", <<>>)) : f \in MCFlows}
Normalised(references) == [type |-> "Reference flow(s)", references |-> references, basis |-> FALSE]
MCReferences ==
  {Normalised(r) : r \in {<<>>, <<1>>, <<2>>, <<1, 2>>, <<1, 1>>, <<3>>, <<NoId, 2>>}}
  \cup {[type |-> "Functional unit", references |-> <<1>>, basis |-> b] : b \in BOOLEAN}
  \cup {[type |-> "", references |-> <<>>, basis |-> TRUE]}
MCProcesses ==
  {[type |-> r.type, references |-> r.references, basis |-> r.basis, exchanges |-> <<e>>] :
     r \in MCReferences, e \in Firsts}
  \cup {[type |-> r.type, references |-> r.references, basis |-> r.basis, exchanges |-> <<e, f>>] :
     r \in {Normalised(<<1>>), Normalised(<<2>>), Normalised(<<1, 2>>),
          Normalised(<<NoId, 2>>)}, e \in Firsts, f \in Seconds}

-----------------------------------------------------------------------------
IdleXml == given = NoAnalysis /\ json = NoAnalysis /\ xml = NoAnalysis /\ report = NoAnalysis /\ step = "idle"
IdleProcess == process = NoAnalysis /\ analysis = NoAnalysis
IdleRecovery == RecoveryInit /\ source = [n \in Nodes |-> 0]

MCInit ==
  \/ part = "recovery" /\ RecoveryInit /\ IdleXml /\ IdleProcess
  \/ part = "xml" /\ X!Init /\ IdleRecovery /\ IdleProcess
  \/ part = "process" /\ ProcessInit /\ IdleRecovery /\ IdleXml

MCNext ==
  \/ part = "recovery" /\ RecoveryNext /\ UNCHANGED <<part, xmlVars, processVars>>
  \/ part = "xml" /\ X!Next /\ UNCHANGED <<part, recoveryVars, processVars>>
  \/ part = "process" /\ ProcessNext /\ UNCHANGED <<part, recoveryVars, xmlVars>>

MCSpec == MCInit /\ [][MCNext]_<<part, recoveryVars, xmlVars, processVars>>

\* What is written is in order and is read again (XmlForm).
XmlIsFaithful == part = "xml" => X!XmlIsFaithful
=============================================================================
