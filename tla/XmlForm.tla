------------------------------- MODULE XmlForm -------------------------------
(***************************************************************************)
(* One document on its way from JSON to XML and back:                      *)
(* crates/tidas-conversion/src/ordering.rs and format.rs.                  *)
(* IlcdSchemaOrderer puts the members of a document into the order of the  *)
(* content models of the eILCD schemas and reports those it does not find  *)
(* there; json_value_to_xml writes the result, and xml_to_json reads XML.  *)
(*                                                                         *)
(* A JSON value is [kind |-> "null"], "text" and "number" with a value,    *)
(* "array" with items, or "object" with members in the order of the text,  *)
(* each [key, value]; a key is [mark, name], the mark being "@", "#" or "".*)
(* An element of XML is [name, attributes, children, text].  White space   *)
(* between elements, which the writer adds and the reader trims, escapes   *)
(* and the namespaces of the schemas are left out: names are qualified.    *)
(***************************************************************************)
EXTENDS Naturals, Sequences, FiniteSets, SequencesExt

CONSTANTS
  Documents,  \* the JSON documents
  Foreign,    \* XML documents that others have written
  NoDocument, \* what such a document was before
  Elements,   \* the schemas: the elements they declare,
  Types,      \*   the complex types
  Groups,     \*   and the groups
  NoContent,  \* an element of the schema without a complex type
  Cycle,      \* an element that refers to itself
  NameOrder,  \* all names of elements, sorted
  BadNames,   \* those that XML does not allow
  BadTexts,   \* texts with characters that XML does not allow
  Trim,       \* texts to what trim leaves of them, "" included
  MaxReported \* MAX_REPORTED_UNSUPPORTED_ELEMENTS

VARIABLES
  document,  \* the document given
  json,      \* the document as converted so far
  xml,       \* the elements written
  report,    \* OrderingDiagnostics: [listed, count]
  phase      \* given, ordered, written, read, refused, cancelled

vars == <<document, json, xml, report, phase>>

Null == [kind |-> "null"]
Text(t) == [kind |-> "text", value |-> t]
Array(items) == [kind |-> "array", items |-> items]
Object(members) == [kind |-> "object", members |-> members]

Init ==
  /\ report = [listed |-> <<>>, count |-> 0]
  /\ \/ /\ document \in Documents /\ json = document
        /\ xml = <<>> /\ phase = "given"
     \/ /\ document = NoDocument /\ json = NoDocument
        /\ xml \in Foreign /\ phase = "written"

MembersWith(v, marks) == SelectSeq(v.members, LAMBDA m : m.key.mark \in marks)
Keys(v) == {v.members[k].key : k \in DOMAIN v.members}
At(v, key) == v.members[CHOOSE k \in DOMAIN v.members : v.members[k].key = key].value
-----------------------------------------------------------------------------
(* The content models *)

RECURSIVE ParticleChildren(_), ContentOf(_, _), ChildrenOfType(_), TypeAllowsAny(_), AllowsAny(_)

\* An element of a content model, by its own name or by reference.
ChildSpec(p) ==
  IF p.ref = "" THEN [name |-> p.name, element |-> p]
  ELSE [name |-> p.ref, element |-> Elements[p.ref]]

\* The elements that particles can hold, in their order.
ParticleChildren(particles) ==
  FlattenSeq([k \in DOMAIN particles |->
    LET p == particles[k]
    IN CASE p.tag \in {"sequence", "choice", "all"} -> ParticleChildren(p.children)
         [] p.tag = "group" -> ParticleChildren(Groups[p.ref])
         [] p.tag = "element" -> <<ChildSpec(p)>>
         [] OTHER -> <<>>])

\* An extension has the elements of its base first.
ChildrenOfType(type) ==
  (IF type.base \in DOMAIN Types THEN ChildrenOfType(Types[type.base]) ELSE <<>>)
  \o ParticleChildren(type.children)

AllowsAny(particles) ==
  \E k \in DOMAIN particles :
    LET p == particles[k]
    IN \/ p.tag = "any"
       \/ p.tag \in {"sequence", "choice", "all"} /\ AllowsAny(p.children)
       \/ p.tag = "group" /\ AllowsAny(Groups[p.ref])

TypeAllowsAny(type) ==
  \/ type.base \in DOMAIN Types /\ TypeAllowsAny(Types[type.base])
  \/ AllowsAny(type.children)

\* The complex type of an element: its own, the one it names, or that of the
\* element it refers to.
ContentOf(element, resolving) ==
  CASE element.content # NoContent -> element.content
    [] element.content = NoContent /\ element.type # "" ->
         IF element.type \in DOMAIN Types THEN Types[element.type] ELSE NoContent
    [] OTHER -> IF element.ref = "" THEN NoContent
                ELSE IF element.ref \in resolving THEN Cycle
                ELSE ContentOf(Elements[element.ref], resolving \cup {element.ref})

ChildSpecs(element) ==
  LET type == ContentOf(element, {element.name})
  IN IF type = NoContent THEN <<>> ELSE ChildrenOfType(type)

ContentAllowsAny(element) ==
  LET type == ContentOf(element, {element.name})
  IN type # NoContent /\ TypeAllowsAny(type)

\* The particle that a member of a name follows: the last of its name.
SpecsByName(element) ==
  LET specs == ChildSpecs(element)
      LastOf(name) == Max({k \in DOMAIN specs : specs[k].name = name})
  IN [name \in {specs[k].name : k \in DOMAIN specs} |-> specs[LastOf(name)].element]
-----------------------------------------------------------------------------
(* Ordering *)

RECURSIVE OrderElement(_, _), Unsupported(_, _), RefersToItself(_, _)

\* The members of an object: those of the content model in its order, the
\* others by name, attributes and text last.
OrderedMembers(element, v) ==
  LET specs == ChildSpecs(element)
      names == {specs[k].name : k \in DOMAIN specs}
      first == SelectSeq([k \in DOMAIN specs |-> k],
                 LAMBDA k : \A j \in 1..(k - 1) : specs[j].name # specs[k].name)
      listed == SelectSeq([k \in DOMAIN first |-> specs[first[k]].name],
                  LAMBDA n : [mark |-> "", name |-> n] \in Keys(v))
      others == SelectSeq(NameOrder,
                  LAMBDA n : n \notin names /\ [mark |-> "", name |-> n] \in Keys(v))
      Member(n) == [key |-> [mark |-> "", name |-> n], value |-> At(v, [mark |-> "", name |-> n])]
  IN [k \in DOMAIN listed |-> Member(listed[k])]
     \o [k \in DOMAIN others |-> Member(others[k])]
     \o MembersWith(v, {"@", "#"})

\* order_element: what the schema does not know is kept as it is.
OrderElement(element, v) ==
  CASE v.kind = "array" -> Array([k \in DOMAIN v.items |-> OrderElement(element, v.items[k])])
    [] v.kind = "object" ->
         LET members == OrderedMembers(element, v)
             specs == SpecsByName(element)
         IN Object([k \in DOMAIN members |->
              LET m == members[k]
              IN IF m.key.mark = "" /\ m.key.name \in DOMAIN specs
                 THEN [m EXCEPT !.value = OrderElement(specs[m.key.name], m.value)]
                 ELSE m])
    [] OTHER -> v

\* What OrderingDiagnostics::record is called with, in order.
Unsupported(element, v) ==
  CASE v.kind = "array" -> FlattenSeq([k \in DOMAIN v.items |-> Unsupported(element, v.items[k])])
    [] v.kind = "object" ->
         LET specs == ChildSpecs(element)
             names == {specs[k].name : k \in DOMAIN specs}
             Key(k) == [mark |-> "", name |-> specs[k].name]
             below == FlattenSeq([k \in DOMAIN specs |->
                        IF Key(k) \in Keys(v) THEN Unsupported(specs[k].element, At(v, Key(k))) ELSE <<>>])
             here == SelectSeq(v.members, LAMBDA m : m.key.mark = "" /\ m.key.name \notin names)
         IN below \o IF ContentAllowsAny(element) THEN <<>>
                     ELSE [k \in DOMAIN here |-> here[k].key.name]
    [] OTHER -> <<>>

\* Ordering meets an element whose references go round in a circle.
RefersToItself(element, v) ==
  CASE v.kind = "array" -> \E k \in DOMAIN v.items : RefersToItself(element, v.items[k])
    [] v.kind = "object" ->
         \/ ContentOf(element, {element.name}) = Cycle
         \/ LET specs == SpecsByName(element)
            IN \E k \in DOMAIN v.members :
                 /\ v.members[k].key.mark = "" /\ v.members[k].key.name \in DOMAIN specs
                 /\ RefersToItself(specs[v.members[k].key.name], v.members[k].value)
    [] OTHER -> FALSE

\* A document is one known element.
HasOneRoot(v) == v.kind = "object" /\ Len(v.members) = 1
RootName(v) == v.members[1].key.name
IsKnown(v) == HasOneRoot(v) /\ v.members[1].key.mark = "" /\ RootName(v) \in DOMAIN Elements

Step(p) == phase' = p /\ UNCHANGED document

\* order_document_reporting.
Order ==
  /\ phase = "given"
  /\ IF ~IsKnown(json) \/ RefersToItself(Elements[RootName(json)], json.members[1].value)
     THEN Step("refused") /\ UNCHANGED <<json, xml, report>>
     ELSE LET root == json.members[1]
              found == Unsupported(Elements[root.key.name], root.value)
          IN /\ json' = Object(<<[root EXCEPT !.value = OrderElement(Elements[root.key.name], root.value)]>>)
             /\ report' = [count |-> Len(found), listed |-> SubSeq(found, 1, Min({Len(found), MaxReported}))]
             /\ Step("ordered") /\ UNCHANGED xml
-----------------------------------------------------------------------------
(* Writing *)

RECURSIVE Writable(_, _), WriteElement(_, _)

IsScalar(v) == v.kind \in {"null", "text", "number"}
ScalarText(v) == IF v.kind = "null" THEN "" ELSE v.value

\* write_element and what it calls succeed: names and texts are those of
\* XML, attributes and text are scalars.
Writable(name, v) ==
  /\ name \notin BadNames
  /\ CASE v.kind = "array" -> \A k \in DOMAIN v.items : Writable(name, v.items[k])
       [] v.kind = "object" ->
            \A k \in DOMAIN v.members :
              LET m == v.members[k]
              IN IF m.key.mark = "" THEN Writable(m.key.name, m.value)
                 ELSE /\ IsScalar(m.value) /\ ScalarText(m.value) \notin BadTexts
                      /\ IF m.key.mark = "@" THEN m.key.name \notin BadNames ELSE m.key.name = "text"
       [] OTHER -> ScalarText(v) \notin BadTexts

\* The elements that a member becomes: one for every item of an array, of
\* arrays within it too.
WriteElement(name, v) ==
  CASE v.kind = "array" -> FlattenSeq([k \in DOMAIN v.items |-> WriteElement(name, v.items[k])])
    [] v.kind = "object" ->
         LET attributes == MembersWith(v, {"@"})
             elements == MembersWith(v, {""})
             texts == MembersWith(v, {"#"})
         IN <<[name |-> name,
               attributes |-> [k \in DOMAIN attributes |->
                                 [name |-> attributes[k].key.name, value |-> ScalarText(attributes[k].value)]],
               children |-> FlattenSeq([k \in DOMAIN elements |->
                              WriteElement(elements[k].key.name, elements[k].value)]),
               text |-> IF texts = <<>> THEN "" ELSE ScalarText(texts[1].value)]>>
    [] OTHER -> <<[name |-> name, attributes |-> <<>>, children |-> <<>>, text |-> ScalarText(v)]>>

\* json_value_to_xml.
Write ==
  /\ phase = "ordered"
  /\ LET root == json.members[1]
     IN IF Writable(root.key.name, root.value)
        THEN xml' = WriteElement(root.key.name, root.value) /\ Step("written")
        ELSE Step("refused") /\ UNCHANGED xml
  /\ UNCHANGED <<json, report>>
-----------------------------------------------------------------------------
(* Reading *)

RECURSIVE Finish(_), Collect(_, _)

\* Map::remove of an ordered map: the last member takes the place.
SwapRemove(members, k) ==
  LET last == Len(members)
  IN IF k = last THEN SubSeq(members, 1, last - 1)
     ELSE [SubSeq(members, 1, last - 1) EXCEPT ![k] = members[last]]

\* Mutant: a third element of a name starts the array anew.
JoinedAnew(previous, value) ==
  IF previous.kind = "array" THEN Array(<<value>>) ELSE Array(<<previous, value>>)

\* Elements of one name become an array.
Joined(previous, value) ==
  IF previous.kind = "array" THEN Array(Append(previous.items, value))
  ELSE Array(<<previous, value>>)

\* The children of an element join its members one by one.
Collect(members, children) ==
  IF children = <<>> THEN members
  ELSE LET child == Head(children)
           key == [mark |-> "", name |-> child.name]
           same == {k \in DOMAIN members : members[k].key = key}
       IN IF same = {} THEN Collect(Append(members, [key |-> key, value |-> Finish(child)]), Tail(children))
          ELSE LET k == CHOOSE i \in same : TRUE
               IN Collect(Append(SwapRemove(members, k),
                            [key |-> key, value |-> Joined(members[k].value, Finish(child))]),
                    Tail(children))

\* Frame::finish.
Finish(e) ==
  LET text == Trim[e.text]
      attributes == [k \in DOMAIN e.attributes |->
                       [key |-> [mark |-> "@", name |-> e.attributes[k].name], value |-> Text(e.attributes[k].value)]]
  IN IF e.attributes = <<>> /\ e.children = <<>>
     THEN IF text = "" THEN Null ELSE Text(text)
     ELSE Object(Collect(attributes, e.children)
                 \o IF text = "" THEN <<>>
                    ELSE <<[key |-> [mark |-> "#", name |-> "text"], value |-> Text(text)]>>)

\* xml_to_json: exactly one root.
Read ==
  /\ phase = "written"
  /\ IF Len(xml) = 1
     THEN /\ json' = Object(<<[key |-> [mark |-> "", name |-> xml[1].name], value |-> Finish(xml[1])]>>)
          /\ Step("read")
     ELSE Step("refused") /\ UNCHANGED json
  /\ UNCHANGED <<xml, report>>

\* The token is looked at before and within every step.
Cancel ==
  /\ phase \in {"given", "ordered", "written"}
  /\ Step("cancelled")
  /\ UNCHANGED <<json, xml, report>>

Next == Order \/ Write \/ Read \/ Cancel

Spec == Init /\ [][Next]_vars
-----------------------------------------------------------------------------
(* Properties *)

RECURSIVE Flat(_), Meaning(_), XmlMeaning(_), FollowsSchema(_, _)

\* The items of an array, of arrays within it too.
Flat(v) ==
  IF v.kind = "array" THEN FlattenSeq([k \in DOMAIN v.items |-> Flat(v.items[k])]) ELSE <<v>>

\* What XML can hold of a value: no order of members, no empty arrays, no
\* array of one, no type of scalars, no white space around text, and nothing
\* to tell an object without members from null.
Meaning(v) ==
  CASE v.kind = "array" ->
         LET items == Flat(v)
         IN IF Len(items) = 1 THEN Meaning(items[1])
            ELSE [kind |-> "array", items |-> [k \in DOMAIN items |-> Meaning(items[k])]]
    [] v.kind = "object" ->
         LET kept == {m \in Range(v.members) :
                        CASE m.key.mark = "" -> Flat(m.value) # <<>>
                          [] m.key.mark = "#" -> Trim[ScalarText(m.value)] # ""
                          [] OTHER -> TRUE}
         IN IF kept = {} THEN Null
            ELSE IF \A m \in kept : m.key.mark = "#"
            THEN Text(Trim[ScalarText((CHOOSE m \in kept : TRUE).value)])
            ELSE [kind |-> "object",
                  members |-> {[key |-> m.key,
                                value |-> CASE m.key.mark = "" -> Meaning(m.value)
                                            [] m.key.mark = "@" -> Text(ScalarText(m.value))
                                            [] OTHER -> Text(Trim[ScalarText(m.value)])] : m \in kept}]
    [] OTHER -> IF Trim[ScalarText(v)] = "" THEN Null ELSE Text(Trim[ScalarText(v)])

\* The same of an element: for every name its children in their order.
XmlMeaning(e) ==
  LET text == Trim[e.text]
      texts == IF text = "" THEN {} ELSE {[key |-> [mark |-> "#", name |-> "text"], value |-> Text(text)]}
      Named(n) == SelectSeq(e.children, LAMBDA c : c.name = n)
      ValueOf(n) == LET c == Named(n)
                    IN IF Len(c) = 1 THEN XmlMeaning(c[1])
                       ELSE [kind |-> "array", items |-> [k \in DOMAIN c |-> XmlMeaning(c[k])]]
  IN IF e.attributes = <<>> /\ e.children = <<>>
     THEN IF text = "" THEN Null ELSE Text(text)
     ELSE [kind |-> "object",
           members |-> texts
             \cup {[key |-> [mark |-> "@", name |-> a.name], value |-> Text(a.value)] : a \in Range(e.attributes)}
             \cup {[key |-> [mark |-> "", name |-> c.name], value |-> ValueOf(c.name)] : c \in Range(e.children)}]

\* The children of an element come in the order of the content model of the
\* schema, those it does not know after them, on every level.
FollowsSchema(element, e) ==
  LET specs == ChildSpecs(element)
      elements == SpecsByName(element)
      PlaceOf(name) == IF name \in DOMAIN elements
                       THEN Min({k \in DOMAIN specs : specs[k].name = name}) ELSE Len(specs) + 1
  IN \A i \in DOMAIN e.children :
       LET name == e.children[i].name
       IN /\ i > 1 => PlaceOf(e.children[i - 1].name) <= PlaceOf(name)
          /\ name \in DOMAIN elements => FollowsSchema(elements[name], e.children[i])

\* What is written obeys the xs:sequence of every level, and what is read
\* means what was written, and what was given before that: whatever the order
\* of the members, however deep the arrays, and although reading moves members
\* about when elements of one name are not neighbours (ordering.rs 70-71;
\* docs/agents/repo-architecture.md 86-91).
XmlIsFaithful ==
  /\ phase \in {"written", "read"} /\ document # NoDocument =>
       \A k \in DOMAIN xml : FollowsSchema(Elements[RootName(document)], xml[k])
  /\ phase = "read" =>
       /\ Meaning(json.members[1].value) = XmlMeaning(xml[1])
       /\ document # NoDocument => Meaning(json) = Meaning(document)
=============================================================================
