---------------------------- MODULE ImportProofs ----------------------------
(***************************************************************************)
(* Proofs about the imports, for any sources, of whatever format and       *)
(* length.  Loops over a source are recursive functions; what a loop keeps *)
(* is shown by looking at the first step that would not keep it.  A loop   *)
(* has a lemma of its own for each body, since the provers cannot          *)
(* instantiate an operator.                                                *)
(***************************************************************************)
EXTENDS ImportRun, ListTheorems

-----------------------------------------------------------------------------
(* The store *)

\* A directory of files has its parts.
IsStore(s) ==
  /\ DOMAIN s = {"entities", "order", "pointers", "counts", "exchanges", "ok"}
  /\ DOMAIN s.order = EntityTypes /\ DOMAIN s.counts = EntityTypes
  /\ \A t \in EntityTypes : IsList(s.order[t])

\* A pointer is never that of a missing external id, so that the one an entity
\* had is the one that is removed when it changes.
PointersNamed(s) ==
  \A k \in DOMAIN s.pointers : k = <<k[1], k[2]>> /\ k[2] # Nothing

\* An entity is in the file that its type and its id name, and a file of
\* exchanges is a list.
FilesNamed(s) ==
  /\ \A k \in DOMAIN s.entities : k = <<s.entities[k].type, s.entities[k].id>>
  /\ \A p \in DOMAIN s.exchanges : IsList(s.exchanges[p])

Sound(s) ==
  IsStore(s) /\ OrderListsEntities(s) /\ PointersLead(s) /\ PointersNamed(s) /\ FilesNamed(s)

LEMMA EmptySound == Sound(EmptyStore)
<1>1. \A t \in EntityTypes : EmptyStore.order[t] = <<>> /\ EmptyStore.counts[t] = 0
  BY DEF EmptyStore
<1>2. /\ DOMAIN EmptyStore.entities = {} /\ DOMAIN EmptyStore.pointers = {}
      /\ DOMAIN EmptyStore.exchanges = {}
  BY DEF EmptyStore, NoFiles
<1>3. IsList(<<>>) /\ Len(<<>>) = 0
  BY DEF IsList
<1>4. IsStore(EmptyStore)
  BY <1>1, <1>3 DEF IsStore, EmptyStore
<1> QED
  BY <1>1, <1>2, <1>3, <1>4
  DEF Sound, OrderListsEntities, PointersLead, PointersNamed, FilesNamed

LEMMA FailedSound == ASSUME NEW s, Sound(s) PROVE Sound(Failed(s)) /\ ~Failed(s).ok
<1> DEFINE f == Failed(s)
<1>1. /\ DOMAIN f = DOMAIN s /\ f.ok = FALSE
      /\ f.entities = s.entities /\ f.order = s.order /\ f.pointers = s.pointers
      /\ f.counts = s.counts /\ f.exchanges = s.exchanges
  BY DEF Sound, IsStore, Failed
<1> HIDE DEF f
<1>2. IsStore(f)
  BY <1>1 DEF Sound, IsStore
<1> QED
  BY <1>1, <1>2
  DEF Sound, OrderListsEntities, PointersLead, PointersNamed, FilesNamed, Has, f

\* What a successful add leaves of each part.
LEMMA AddParts ==
  ASSUME NEW s, IsStore(s), NEW e, Add(s, e) # Failed(s)
  PROVE  LET a == Add(s, e)
             pointers == WithoutStalePointer(s, e)
         IN /\ s.ok /\ a.ok = s.ok /\ a.exchanges = s.exchanges
            /\ a.entities = Written(s.entities, <<e.type, e.id>>, e)
            /\ a.pointers = IF e.ext = Nothing THEN pointers
                            ELSE Written(pointers, <<e.type, e.ext>>, e.id)
            /\ DOMAIN a = DOMAIN s /\ DOMAIN a.order = EntityTypes /\ DOMAIN a.counts = EntityTypes
            /\ \A t \in EntityTypes :
                 IF t = e.type /\ ~Has(s, t, e.id)
                 THEN a.order[t] = Append(s.order[t], e.id) /\ a.counts[t] = s.counts[t] + 1
                 ELSE a.order[t] = s.order[t] /\ a.counts[t] = s.counts[t]
<1> DEFINE a == Add(s, e)
           pointers == WithoutStalePointer(s, e)
           new == ~Has(s, e.type, e.id)
           entities == Written(s.entities, <<e.type, e.id>>, e)
           order == [s.order EXCEPT ![e.type] = IF new THEN Append(@, e.id) ELSE @]
           after == IF e.ext = Nothing THEN pointers
                    ELSE Written(pointers, <<e.type, e.ext>>, e.id)
           counts == [s.counts EXCEPT ![e.type] = IF new THEN @ + 1 ELSE @]
<1>1. s.ok
  BY DEF Add
<1>2. a = [s EXCEPT !.entities = entities, !.order = order, !.pointers = after,
                    !.counts = counts]
  BY DEF Add
<1> HIDE DEF a, pointers, entities, order, after, counts
<1>3. /\ DOMAIN a = DOMAIN s /\ a.entities = entities /\ a.order = order
      /\ a.pointers = after /\ a.counts = counts /\ a.exchanges = s.exchanges /\ a.ok = s.ok
  BY <1>2 DEF IsStore
<1>4. DOMAIN order = EntityTypes /\ DOMAIN counts = EntityTypes
  BY DEF IsStore, order, counts
<1>5. \A t \in EntityTypes :
        IF t = e.type /\ ~Has(s, t, e.id)
        THEN order[t] = Append(s.order[t], e.id) /\ counts[t] = s.counts[t] + 1
        ELSE order[t] = s.order[t] /\ counts[t] = s.counts[t]
  BY DEF IsStore, order, counts
<1> QED BY <1>1, <1>3, <1>4, <1>5 DEF a, pointers, entities, after

\* Adding an entity, new or known, keeps the store sound.
LEMMA AddSound ==
  ASSUME NEW s, Sound(s), NEW e
  PROVE  Sound(Add(s, e))
<1> DEFINE a == Add(s, e)
<1>1. CASE a = Failed(s)
  BY <1>1, FailedSound
<1>2. CASE a # Failed(s)
  <2> DEFINE left == WithoutStalePointer(s, e)
  <2>1. /\ a.entities = Written(s.entities, <<e.type, e.id>>, e) /\ a.exchanges = s.exchanges
        /\ a.pointers = IF e.ext = Nothing THEN left ELSE Written(left, <<e.type, e.ext>>, e.id)
        /\ DOMAIN a = DOMAIN s /\ DOMAIN a.order = EntityTypes /\ DOMAIN a.counts = EntityTypes
        /\ \A t \in EntityTypes :
             IF t = e.type /\ ~Has(s, t, e.id)
             THEN a.order[t] = Append(s.order[t], e.id) /\ a.counts[t] = s.counts[t] + 1
             ELSE a.order[t] = s.order[t] /\ a.counts[t] = s.counts[t]
    BY <1>2, AddParts DEF Sound
  <2> HIDE DEF a, left
  <2>2. \A t, id : Has(a, t, id) <=> (Has(s, t, id) \/ <<t, id>> = <<e.type, e.id>>)
    BY <2>1 DEF Has, Written
  <2>3. ASSUME NEW t \in EntityTypes
        PROVE  /\ IsList(a.order[t]) /\ a.counts[t] = Len(a.order[t])
               /\ \A i, j \in 1 .. Len(a.order[t]) : a.order[t][i] = a.order[t][j] => i = j
               /\ \A i \in 1 .. Len(a.order[t]) : Has(a, t, a.order[t][i])
               /\ \A k \in DOMAIN a.entities :
                    k[1] = t => \E i \in 1 .. Len(a.order[t]) : a.order[t][i] = k[2]
    <3> DEFINE q == s.order[t]
               r == a.order[t]
    <3>1. /\ IsList(q) /\ s.counts[t] = Len(q)
          /\ \A i, j \in 1 .. Len(q) : q[i] = q[j] => i = j
          /\ \A i \in 1 .. Len(q) : Has(s, t, q[i])
          /\ \A k \in DOMAIN s.entities : k[1] = t => \E i \in 1 .. Len(q) : q[i] = k[2]
      BY <2>3 DEF Sound, IsStore, OrderListsEntities
    <3>2. \A k \in DOMAIN a.entities : k \in DOMAIN s.entities \/ k = <<e.type, e.id>>
      BY <2>1 DEF Written
    <3>3. CASE t = e.type /\ ~Has(s, t, e.id)
      <4>1. r = Append(q, e.id) /\ a.counts[t] = Len(q) + 1
        BY <2>1, <2>3, <3>1, <3>3
      <4> HIDE DEF q, r
      <4>2. /\ IsList(r) /\ Len(q) \in Nat /\ Len(r) = Len(q) + 1 /\ r[Len(q) + 1] = e.id
            /\ \A i \in 1 .. Len(q) : r[i] = q[i]
        BY <4>1, <3>1, ListAppended
      <4>3. \A i \in 1 .. Len(q) : r[i] # e.id
        BY <3>1, <3>3, <4>2
      <4>4. \A i \in 1 .. Len(r) : i \in 1 .. Len(q) \/ i = Len(q) + 1
        BY <4>2
      <4>5. \A i, j \in 1 .. Len(r) : r[i] = r[j] => i = j
        BY <3>1, <4>2, <4>3, <4>4
      <4>6. \A i \in 1 .. Len(r) : Has(a, t, r[i])
        BY <2>2, <3>1, <3>3, <4>2, <4>4
      <4>7. \A k \in DOMAIN a.entities : k[1] = t => \E i \in 1 .. Len(r) : r[i] = k[2]
        <5> TAKE k \in DOMAIN a.entities
        <5> HAVE k[1] = t
        <5>1. CASE k = <<e.type, e.id>>
          BY <5>1, <4>2
        <5>2. CASE k \in DOMAIN s.entities
          <6>1. PICK i \in 1 .. Len(q) : q[i] = k[2]
            BY <5>2, <3>1
          <6> QED BY <6>1, <4>2
        <5> QED BY <3>2, <5>1, <5>2
      <4> QED BY <4>1, <4>2, <4>5, <4>6, <4>7 DEF r
    <3>4. CASE ~(t = e.type /\ ~Has(s, t, e.id))
      <4>1. r = q /\ a.counts[t] = Len(q)
        BY <2>1, <2>3, <3>1, <3>4
      <4>2. \A k \in DOMAIN a.entities : k[1] = t => \E i \in 1 .. Len(q) : q[i] = k[2]
        <5> TAKE k \in DOMAIN a.entities
        <5> HAVE k[1] = t
        <5>1. CASE k = <<e.type, e.id>>
          BY <5>1, <3>4, <3>1 DEF Has
        <5> QED BY <3>1, <3>2, <5>1
      <4> QED BY <4>1, <4>2, <3>1, <2>2
    <3> QED BY <3>3, <3>4
  <2>4. ASSUME NEW k \in DOMAIN a.pointers
        PROVE  /\ k = <<k[1], k[2]>> /\ k[2] # Nothing
               /\ Has(a, k[1], a.pointers[k])
               /\ a.entities[<<k[1], a.pointers[k]>>].ext = k[2]
    <3>1. \A n \in DOMAIN left :
            /\ n \in DOMAIN s.pointers /\ left[n] = s.pointers[n]
            /\ Has(s, e.type, e.id) =>
                 \/ s.entities[<<e.type, e.id>>].ext \in {Nothing, e.ext}
                 \/ n # <<e.type, s.entities[<<e.type, e.id>>].ext>>
      BY DEF left, WithoutStalePointer, Removed
    <3>2. a.entities[<<e.type, e.id>>] = e
      BY <2>1 DEF Written
    <3>3. \A n \in DOMAIN s.entities : n # <<e.type, e.id>> => a.entities[n] = s.entities[n]
      BY <2>1 DEF Written
    <3>4. CASE e.ext # Nothing /\ k = <<e.type, e.ext>>
      <4>1. a.pointers[k] = e.id
        BY <2>1, <3>4 DEF Written
      <4> QED BY <4>1, <3>2, <3>4, <2>2
    <3>5. CASE ~(e.ext # Nothing /\ k = <<e.type, e.ext>>)
      <4>1. k \in DOMAIN left /\ a.pointers[k] = left[k]
        BY <2>1, <2>4, <3>5 DEF Written
      <4>2. /\ k \in DOMAIN s.pointers /\ a.pointers[k] = s.pointers[k]
            /\ k = <<k[1], k[2]>> /\ k[2] # Nothing /\ Has(s, k[1], s.pointers[k])
            /\ s.entities[<<k[1], s.pointers[k]>>].ext = k[2]
        BY <3>1, <4>1 DEF Sound, PointersLead, PointersNamed
      <4>3. CASE <<k[1], s.pointers[k]>> = <<e.type, e.id>>
        <5>1. k[1] = e.type /\ s.pointers[k] = e.id
          BY <4>3
        <5>2. k[2] \in {Nothing, e.ext} \/ k # <<e.type, k[2]>>
          BY <5>1, <4>1, <4>2, <3>1
        <5>3. k[2] = e.ext
          BY <5>1, <5>2, <4>2
        <5> QED BY <5>1, <5>3, <4>2, <3>2, <2>2
      <4>4. CASE <<k[1], s.pointers[k]>> # <<e.type, e.id>>
        BY <4>4, <4>2, <3>3, <2>2 DEF Has
      <4> QED BY <4>3, <4>4
    <3> QED BY <3>4, <3>5
  <2>5. IsStore(a)
    <3>1. /\ DOMAIN a = {"entities", "order", "pointers", "counts", "exchanges", "ok"}
          /\ DOMAIN a.order = EntityTypes /\ DOMAIN a.counts = EntityTypes
      BY <2>1 DEF Sound, IsStore
    <3>2. \A t \in EntityTypes : IsList(a.order[t])
      BY <2>3
    <3> QED BY <3>1, <3>2 DEF IsStore
  <2>6. FilesNamed(a)
    BY <2>1 DEF Sound, FilesNamed, Written
  <2> QED
    BY <2>3, <2>4, <2>5, <2>6 DEF Sound, OrderListsEntities, PointersLead, PointersNamed, a
<1> QED BY <1>1, <1>2

\* What is listed when an entity has been added.
Listed(s, e, a) ==
  \A t \in EntityTypes :
    a.order[t] = IF t = e.type /\ ~Has(s, t, e.id) THEN Append(s.order[t], e.id) ELSE s.order[t]

LEMMA AddOrder ==
  ASSUME NEW s, Sound(s), NEW e, Add(s, e) # Failed(s)
  PROVE  LET a == Add(s, e) IN
         /\ s.ok /\ a.exchanges = s.exchanges /\ Listed(s, e, a)
         /\ a.entities = Written(s.entities, <<e.type, e.id>>, e)
<1> DEFINE a == Add(s, e)
           entities == Written(s.entities, <<e.type, e.id>>, e)
           former == WithoutStalePointer(s, e)
           pointers == IF e.ext = Nothing THEN former ELSE Written(former, <<e.type, e.ext>>, e.id)
           made == [s EXCEPT
                     !.entities = entities,
                     !.order[e.type] = IF Has(s, e.type, e.id) THEN @ ELSE Append(@, e.id),
                     !.pointers = pointers,
                     !.counts[e.type] = IF Has(s, e.type, e.id) THEN @ ELSE @ + 1]
<1>1. DOMAIN s = {"entities", "order", "pointers", "counts", "exchanges", "ok"}
      /\ DOMAIN s.order = EntityTypes
  BY DEF Sound, IsStore
<1>2. a = made
  BY DEF Add
<1>3. s.ok
  BY DEF Add
<1> HIDE DEF a, entities, pointers
<1>4. /\ a.exchanges = s.exchanges /\ a.entities = entities
      /\ a.order = [s.order EXCEPT
                      ![e.type] = IF Has(s, e.type, e.id) THEN @ ELSE Append(@, e.id)]
  BY <1>1, <1>2
<1>5. Listed(s, e, a)
  BY <1>1, <1>4 DEF Listed
<1> QED BY <1>3, <1>4, <1>5 DEF a, entities

\* What an add leaves of the entities, whether it fails or not.
LEMMA AddKeeps ==
  ASSUME NEW s, IsStore(s), NEW e
  PROVE  LET a == Add(s, e) IN
         /\ a.ok => s.ok /\ Has(a, e.type, e.id)
         /\ \A t, id : Has(s, t, id) => Has(a, t, id)
         /\ a.exchanges = s.exchanges
         /\ \A k \in DOMAIN a.entities :
              \/ k \in DOMAIN s.entities /\ a.entities[k] = s.entities[k]
              \/ s.ok /\ k = <<e.type, e.id>> /\ a.entities[k] = e
<1> DEFINE a == Add(s, e)
<1>1. CASE a = Failed(s)
  <2>1. a.ok = FALSE /\ a.entities = s.entities /\ a.exchanges = s.exchanges
    BY <1>1 DEF IsStore, Failed
  <2> HIDE DEF a
  <2> QED BY <2>1 DEF Has, a
<1>2. CASE a # Failed(s)
  <2>1. /\ s.ok /\ a.exchanges = s.exchanges
        /\ a.entities = Written(s.entities, <<e.type, e.id>>, e)
    BY <1>2, AddParts
  <2> HIDE DEF a
  <2> QED BY <2>1 DEF Has, Written, a
<1> QED BY <1>1, <1>2

\* An empty exchange file is made.
LEMMA BeginParts ==
  ASSUME NEW s, Sound(s), NEW p
  PROVE  LET a == BeginExchanges(s, p) IN
         /\ Sound(a) /\ a.entities = s.entities
         /\ \A q \in DOMAIN a.exchanges :
              \/ a.exchanges[q] = <<>>
              \/ q \in DOMAIN s.exchanges /\ a.exchanges[q] = s.exchanges[q]
<1> DEFINE a == BeginExchanges(s, p)
           new == Written(s.exchanges, p, <<>>)
<1>1. \A q \in DOMAIN new :
        new[q] = <<>> \/ (q \in DOMAIN s.exchanges /\ new[q] = s.exchanges[q])
  BY DEF Written
<1> HIDE DEF new
<1>2. /\ DOMAIN a = DOMAIN s /\ a.entities = s.entities /\ a.order = s.order
      /\ a.pointers = s.pointers /\ a.counts = s.counts
      /\ a.exchanges \in {s.exchanges, new}
  BY DEF Sound, IsStore, BeginExchanges, Failed, new
<1> HIDE DEF a
<1>3. FilesNamed(a)
  <2>1. IsList(<<>>)
    BY DEF IsList
  <2> QED BY <1>1, <1>2, <2>1 DEF Sound, FilesNamed
<1>4. Sound(a)
  BY <1>2, <1>3 DEF Sound, IsStore, OrderListsEntities, PointersLead, PointersNamed, Has
<1> QED BY <1>1, <1>2, <1>4 DEF a

\* One more exchange, at the end of the file of its process.
LEMMA ExchangeParts ==
  ASSUME NEW s, Sound(s), NEW p, NEW x
  PROVE  LET a == AddExchange(s, p, x) IN
         /\ Sound(a) /\ a.entities = s.entities
         /\ a.ok => s.ok
         /\ \/ a.exchanges = s.exchanges
            \/ s.ok /\ a.exchanges = Written(s.exchanges, p, Append(Exchanges(s, p), x))
<1> DEFINE a == AddExchange(s, p, x)
           new == Written(s.exchanges, p, Append(Exchanges(s, p), x))
<1> HIDE DEF new
<1>1. /\ DOMAIN a = DOMAIN s /\ a.entities = s.entities /\ a.order = s.order
      /\ a.pointers = s.pointers /\ a.counts = s.counts
      /\ a.exchanges = s.exchanges \/ (s.ok /\ a.exchanges = new)
      /\ a.ok => s.ok
  BY DEF Sound, IsStore, AddExchange, Failed, new
<1> HIDE DEF a
<1>2. FilesNamed(a)
  <2>1. IsList(<<>>)
    BY DEF IsList
  <2>2. IsList(Exchanges(s, p))
    BY <2>1 DEF Sound, FilesNamed, Exchanges
  <2>3. IsList(Append(Exchanges(s, p), x))
    BY <2>2, ListAppended
  <2>4. \A q \in DOMAIN new :
          new[q] = Append(Exchanges(s, p), x) \/ (q \in DOMAIN s.exchanges /\ new[q] = s.exchanges[q])
    BY DEF new, Written
  <2> QED BY <1>1, <2>3, <2>4 DEF Sound, FilesNamed
<1>3. Sound(a)
  BY <1>1, <1>2 DEF Sound, IsStore, OrderListsEntities, PointersLead, PointersNamed, Has
<1> QED BY <1>1, <1>3 DEF a, new

\* A type is removed with its order and its pointers.
LEMMA RemoveSound == ASSUME NEW s, Sound(s), NEW type PROVE Sound(RemoveType(s, type))
<1> DEFINE a == RemoveType(s, type)
           entities == [k \in {n \in DOMAIN s.entities : n[1] # type} |-> s.entities[k]]
           pointers == [k \in {n \in DOMAIN s.pointers : n[1] # type} |-> s.pointers[k]]
           order == [s.order EXCEPT ![type] = <<>>]
           counts == [s.counts EXCEPT ![type] = 0]
<1>1. a = [s EXCEPT !.entities = entities, !.pointers = pointers, !.order = order,
                    !.counts = counts]
  BY DEF RemoveType
<1> HIDE DEF a, entities, pointers, order, counts
<1>2. /\ DOMAIN a = DOMAIN s /\ a.entities = entities /\ a.pointers = pointers
      /\ a.order = order /\ a.counts = counts /\ a.exchanges = s.exchanges
  BY <1>1 DEF Sound, IsStore
<1>3. \A t \in EntityTypes : IF t = type THEN a.order[t] = <<>> /\ a.counts[t] = 0
                             ELSE a.order[t] = s.order[t] /\ a.counts[t] = s.counts[t]
  BY <1>2 DEF Sound, IsStore, order, counts
<1>4. DOMAIN a.order = EntityTypes /\ DOMAIN a.counts = EntityTypes
  BY <1>2 DEF Sound, IsStore, order, counts
<1>5. /\ \A t, id : Has(a, t, id) <=> Has(s, t, id) /\ t # type
      /\ \A k \in DOMAIN a.entities :
           k \in DOMAIN s.entities /\ k[1] # type /\ a.entities[k] = s.entities[k]
      /\ \A k \in DOMAIN a.pointers :
           k \in DOMAIN s.pointers /\ k[1] # type /\ a.pointers[k] = s.pointers[k]
  BY <1>2 DEF Has, entities, pointers
<1>6. IsList(<<>>) /\ Len(<<>>) = 0
  BY DEF IsList
<1>7. IsStore(a)
  BY <1>2, <1>3, <1>4, <1>6 DEF Sound, IsStore
<1>8. OrderListsEntities(a)
  <2> SUFFICES ASSUME NEW t \in EntityTypes
               PROVE  /\ \A i, j \in 1 .. Len(a.order[t]) : a.order[t][i] = a.order[t][j] => i = j
                      /\ \A i \in 1 .. Len(a.order[t]) : Has(a, t, a.order[t][i])
                      /\ \A k \in DOMAIN a.entities :
                           k[1] = t => \E i \in 1 .. Len(a.order[t]) : a.order[t][i] = k[2]
                      /\ a.counts[t] = Len(a.order[t])
    BY DEF OrderListsEntities
  <2>1. CASE t = type
    BY <2>1, <1>3, <1>5, <1>6
  <2>2. CASE t # type
    BY <2>2, <1>3, <1>5 DEF Sound, OrderListsEntities
  <2> QED BY <2>1, <2>2
<1>9. PointersLead(a) /\ PointersNamed(a)
  <2> SUFFICES ASSUME NEW k \in DOMAIN a.pointers
               PROVE  /\ k = <<k[1], k[2]>> /\ k[2] # Nothing
                      /\ Has(a, k[1], a.pointers[k])
                      /\ a.entities[<<k[1], a.pointers[k]>>].ext = k[2]
    BY DEF PointersLead, PointersNamed
  <2>1. /\ k = <<k[1], k[2]>> /\ k[2] # Nothing /\ k[1] # type
        /\ a.pointers[k] = s.pointers[k]
        /\ Has(s, k[1], s.pointers[k]) /\ s.entities[<<k[1], s.pointers[k]>>].ext = k[2]
    BY <1>5 DEF Sound, PointersLead, PointersNamed
  <2>2. Has(a, k[1], a.pointers[k])
    BY <2>1, <1>5
  <2> QED BY <2>1, <2>2, <1>5 DEF Has
<1>10. FilesNamed(a)
  BY <1>2, <1>5 DEF Sound, FilesNamed
<1> QED BY <1>7, <1>8, <1>9, <1>10 DEF Sound, a
-----------------------------------------------------------------------------
(* The flows of exchanges *)

\* The formats without flow objects make their flows of the exchanges.
IsFlow(e) ==
  /\ DOMAIN e = {"type", "id", "ext", "raw"} /\ e.type = "flows"
  /\ DOMAIN e.raw = {"unit", "property", "properties", "named"} /\ e.raw.property = Nothing

Measured(s, e) ==
  e.raw.unit # Nothing => /\ Has(s, "flowproperties", FlowPropertyOf(e.raw.unit))
                          /\ Has(s, "unitgroups", UnitGroupOf(e.raw.unit))

FlowsFound(s) ==
  /\ \A k \in DOMAIN s.entities :
       k[1] = "flows" => IsFlow(s.entities[k]) /\ Measured(s, s.entities[k])
  /\ \A p \in DOMAIN s.exchanges :
       \A i \in 1 .. Len(s.exchanges[p]) : Has(s, "flows", s.exchanges[p][i].flow)

\* What an import keeps of its store, generated says whether it makes flows.
StoreInv(s, generated) == Sound(s) /\ (generated => FlowsFound(s))

LEMMA EmptyFound == ASSUME NEW g PROVE StoreInv(EmptyStore, g)
<1>1. DOMAIN EmptyStore.entities = {} /\ DOMAIN EmptyStore.exchanges = {}
  BY DEF EmptyStore, NoFiles
<1> QED BY <1>1, EmptySound DEF StoreInv, FlowsFound

LEMMA AddFound ==
  ASSUME NEW s, NEW g, StoreInv(s, g), NEW e,
         g /\ s.ok /\ e.type = "flows" => IsFlow(e) /\ Measured(s, e)
  PROVE  StoreInv(Add(s, e), g)
<1> DEFINE a == Add(s, e)
<1>1. Sound(a)
  BY AddSound DEF StoreInv
<1>2. /\ \A t, id : Has(s, t, id) => Has(a, t, id)
      /\ a.exchanges = s.exchanges
      /\ \A k \in DOMAIN a.entities :
           \/ k \in DOMAIN s.entities /\ a.entities[k] = s.entities[k]
           \/ s.ok /\ k = <<e.type, e.id>> /\ a.entities[k] = e
  BY AddKeeps DEF StoreInv, Sound
<1> HIDE DEF a
<1>3. ASSUME g PROVE FlowsFound(a)
  <2>1. \A f : Measured(s, f) => Measured(a, f)
    BY <1>2 DEF Measured
  <2>2. ASSUME NEW k \in DOMAIN a.entities, k[1] = "flows"
        PROVE  IsFlow(a.entities[k]) /\ Measured(a, a.entities[k])
    <3>1. CASE k \in DOMAIN s.entities /\ a.entities[k] = s.entities[k]
      BY <3>1, <2>1, <2>2, <1>3 DEF StoreInv, FlowsFound
    <3>2. CASE s.ok /\ k = <<e.type, e.id>> /\ a.entities[k] = e
      <4>1. e.type = "flows"
        BY <2>2, <3>2
      <4> QED BY <4>1, <3>2, <2>1, <1>3
    <3> QED BY <3>1, <3>2, <1>2
  <2>3. \A p \in DOMAIN a.exchanges :
          \A i \in 1 .. Len(a.exchanges[p]) : Has(a, "flows", a.exchanges[p][i].flow)
    BY <1>2, <1>3 DEF StoreInv, FlowsFound
  <2> QED BY <2>2, <2>3 DEF FlowsFound
<1> QED BY <1>1, <1>3 DEF StoreInv, a

LEMMA BeginFound ==
  ASSUME NEW s, NEW g, StoreInv(s, g), NEW p
  PROVE  StoreInv(BeginExchanges(s, p), g)
<1> DEFINE a == BeginExchanges(s, p)
<1>1. /\ Sound(a) /\ a.entities = s.entities
      /\ \A q \in DOMAIN a.exchanges :
           \/ a.exchanges[q] = <<>>
           \/ q \in DOMAIN s.exchanges /\ a.exchanges[q] = s.exchanges[q]
  BY BeginParts DEF StoreInv
<1> HIDE DEF a
<1>2. IsList(<<>>) /\ Len(<<>>) = 0
  BY DEF IsList
<1>3. \A t, id : Has(s, t, id) <=> Has(a, t, id)
  BY <1>1 DEF Has
<1>4. ASSUME g PROVE FlowsFound(a)
  <2>1. \A n \in DOMAIN a.exchanges :
          \A i \in 1 .. Len(a.exchanges[n]) : Has(a, "flows", a.exchanges[n][i].flow)
    BY <1>1, <1>2, <1>3, <1>4 DEF StoreInv, FlowsFound
  <2>2. \A k \in DOMAIN a.entities :
          k[1] = "flows" => IsFlow(a.entities[k]) /\ Measured(a, a.entities[k])
    BY <1>1, <1>3, <1>4 DEF StoreInv, FlowsFound, Measured
  <2> QED BY <2>1, <2>2 DEF FlowsFound
<1> QED BY <1>1, <1>4 DEF StoreInv, a

LEMMA ExchangeFound ==
  ASSUME NEW s, NEW g, StoreInv(s, g), NEW p, NEW x,
         g /\ s.ok => Has(s, "flows", x.flow)
  PROVE  StoreInv(AddExchange(s, p, x), g)
<1> DEFINE a == AddExchange(s, p, x)
           q == Exchanges(s, p)
<1>1. /\ Sound(a) /\ a.entities = s.entities
      /\ \/ a.exchanges = s.exchanges
         \/ s.ok /\ a.exchanges = Written(s.exchanges, p, Append(q, x))
  BY ExchangeParts DEF StoreInv
<1> HIDE DEF a
<1>2. \A t, id : Has(s, t, id) <=> Has(a, t, id)
  BY <1>1 DEF Has
<1>3. ASSUME g PROVE FlowsFound(a)
  <2>1. IsList(q) /\ \A i \in 1 .. Len(q) : Has(s, "flows", q[i].flow)
    <3>1. IsList(<<>>) /\ Len(<<>>) = 0
      BY DEF IsList
    <3> QED BY <3>1, <1>3 DEF StoreInv, Sound, FilesNamed, FlowsFound, Exchanges
  <2> HIDE DEF q
  <2>2. ASSUME s.ok
        PROVE  /\ IsList(Append(q, x))
               /\ \A i \in 1 .. Len(Append(q, x)) : Has(a, "flows", Append(q, x)[i].flow)
    <3> DEFINE r == Append(q, x)
    <3>1. /\ IsList(r) /\ Len(q) \in Nat /\ Len(r) = Len(q) + 1 /\ r[Len(q) + 1] = x
          /\ \A i \in 1 .. Len(q) : r[i] = q[i]
      BY <2>1, ListAppended
    <3> HIDE DEF r
    <3>2. \A i \in 1 .. Len(r) : i \in 1 .. Len(q) \/ i = Len(q) + 1
      BY <3>1
    <3>3. Has(a, "flows", x.flow)
      BY <1>2, <1>3, <2>2
    <3> QED BY <3>1, <3>2, <3>3, <2>1, <1>2 DEF r
  <2>3. \A n \in DOMAIN a.exchanges :
          \/ n \in DOMAIN s.exchanges /\ a.exchanges[n] = s.exchanges[n]
          \/ s.ok /\ a.exchanges[n] = Append(q, x)
    BY <1>1 DEF Written
  <2>4. \A n \in DOMAIN a.exchanges :
          \A i \in 1 .. Len(a.exchanges[n]) : Has(a, "flows", a.exchanges[n][i].flow)
    BY <2>2, <2>3, <1>2, <1>3 DEF StoreInv, FlowsFound
  <2>5. \A k \in DOMAIN a.entities :
          k[1] = "flows" => IsFlow(a.entities[k]) /\ Measured(a, a.entities[k])
    BY <1>1, <1>2, <1>3 DEF StoreInv, FlowsFound, Measured
  <2> QED BY <2>4, <2>5 DEF FlowsFound
<1> QED BY <1>1, <1>3 DEF StoreInv, a

\* A flow is added after the unit group and the flow property of its unit.
LEMMA FlowFound ==
  ASSUME NEW s, NEW g, StoreInv(s, g), NEW e, g => IsFlow(e)
  PROVE  /\ StoreInv(AddFlow(s, e), g)
         /\ AddFlow(s, e).ok => Has(AddFlow(s, e), e.type, e.id)
<1> DEFINE u == AddUnitsFor(s, e)
<1>1. StoreInv(u, g) /\ (g /\ u.ok => Measured(u, e))
  <2>1. CASE e.raw.property # Nothing \/ e.raw.unit = Nothing
    BY <2>1 DEF AddUnitsFor, Measured, IsFlow
  <2>2. CASE ~(e.raw.property # Nothing \/ e.raw.unit = Nothing)
    <3> DEFINE group == Entity("unitgroups", UnitGroupOf(e.raw.unit), Nothing,
                               [units |-> <<[id |-> Nothing, name |-> e.raw.unit,
                                             factor |-> <<1, 1>>, reference |-> FALSE]>>])
               property == Entity("flowproperties", FlowPropertyOf(e.raw.unit), Nothing,
                                  [group |-> UnitGroupOf(e.raw.unit)])
               first == Add(s, group)
    <3>1. u = Add(first, property)
      BY <2>2 DEF AddUnitsFor
    <3>2. /\ group.type = "unitgroups" /\ group.id = UnitGroupOf(e.raw.unit)
          /\ property.type = "flowproperties" /\ property.id = FlowPropertyOf(e.raw.unit)
      BY DEF Entity
    <3> HIDE DEF u, group, property, first
    <3>3. StoreInv(first, g)
      BY <3>2, AddFound DEF first
    <3>4. StoreInv(u, g)
      BY <3>1, <3>2, <3>3, AddFound
    <3>5. first.ok => Has(first, "unitgroups", UnitGroupOf(e.raw.unit))
      BY <3>2, AddKeeps DEF first, StoreInv, Sound
    <3>6. u.ok => Measured(u, e)
      <4>1. IsStore(first)
        BY <3>3 DEF StoreInv, Sound
      <4> QED BY <4>1, <3>1, <3>2, <3>5, AddKeeps DEF Measured
    <3> QED BY <3>4, <3>6 DEF u
  <2> QED BY <2>1, <2>2
<1>2. AddFlow(s, e) = Add(u, e)
  BY DEF AddFlow
<1> HIDE DEF u
<1>3. StoreInv(AddFlow(s, e), g)
  BY <1>1, <1>2, AddFound
<1>4. AddFlow(s, e).ok => Has(AddFlow(s, e), e.type, e.id)
  <2>1. IsStore(u)
    BY <1>1 DEF StoreInv, Sound
  <2> QED BY <2>1, <1>2, AddKeeps
<1> QED BY <1>3, <1>4
-----------------------------------------------------------------------------
(* Loops *)

\* The exchanges of a process of a format that has its flows.
LEMMA ExchangesKeep ==
  ASSUME NEW s, Sound(s), NEW p, NEW exchanges,
         Len(exchanges) \in Nat
  PROVE  Sound(AddExchanges(s, p, exchanges))
<1> DEFINE N == Len(exchanges)
           Body(t, x) == IF x.flow = Nothing THEN t ELSE AddExchange(t, p, x)
           Runs(f, k) == f = [n \in 0 .. k |-> IF n = 0 THEN s ELSE Body(f[n - 1], exchanges[n])]
           after == CHOOSE f : Runs(f, N)
<1>1. \A t, x : Sound(t) => Sound(Body(t, x))
  BY ExchangeParts
<1>2. N \in Nat /\ AddExchanges(s, p, exchanges) = after[N]
  BY DEF AddExchanges, ForEach
<1> HIDE DEF N, Body, Runs, after
<1>3. Runs(after, N)
  <2> DEFINE S == {k \in 0 .. N : \E f : Runs(f, k)}
  <2>1. 0 \in S
    <3>1. Runs([n \in 0 .. 0 |-> s], 0)
      BY DEF Runs
    <3> QED BY <3>1, <1>2
  <2>2. ASSUME NEW k \in 1 .. N, k - 1 \in S PROVE k \in S
    <3>1. PICK f : Runs(f, k - 1)
      BY <2>2
    <3> DEFINE h == [n \in 0 .. k |-> IF n = 0 THEN s ELSE Body(f[n - 1], exchanges[n])]
    <3>2. \A n \in 0 .. k - 1 : h[n] = f[n]
      BY <3>1, <1>2 DEF Runs
    <3> HIDE DEF h
    <3>3. \A n \in 1 .. k : n - 1 \in 0 .. k - 1
      BY <1>2
    <3>4. \A n \in 0 .. k : n # 0 => h[n - 1] = f[n - 1]
      BY <3>2, <3>3, <1>2
    <3>5. Runs(h, k)
      BY <3>4 DEF Runs, h
    <3> QED BY <3>5
  <2> HIDE DEF S
  <2>3. \A k \in 0 .. N : k \in S
    BY <2>1, <2>2, <1>2, Induction
  <2> QED BY <2>3, <1>2 DEF S, after
<1>4. N \in {k \in 0 .. N : Sound(after[k])}
  <2> DEFINE S == {k \in 0 .. N : Sound(after[k])}
  <2>1. after[0] = s /\ \A k \in 1 .. N : after[k] = Body(after[k - 1], exchanges[k])
    BY <1>2, <1>3 DEF Runs
  <2>2. 0 \in S
    BY <2>1, <1>2
  <2>3. ASSUME NEW k \in 1 .. N, k - 1 \in S PROVE k \in S
    BY <2>1, <2>3, <1>1
  <2> HIDE DEF S
  <2>4. \A k \in 0 .. N : k \in S
    BY <2>2, <2>3, <1>2, Induction
  <2> QED BY <2>4, <1>2 DEF S
<1> QED BY <1>2, <1>4

\* The rows of a section.
LEMMA RowsKeep ==
  ASSUME NEW s, NEW g, StoreInv(s, g), NEW block, NEW p, NEW section,
         Len(section.rows) \in Nat
  PROVE  StoreInv(SimaproSection(s, block, p, section), g)
<1> DEFINE N == Len(section.rows)
           Body(t, x) == SimaproRow(t, block, p, section.name, x)
           Runs(f, k) == f = [n \in 0 .. k |-> IF n = 0 THEN s ELSE Body(f[n - 1], section.rows[n])]
           after == CHOOSE f : Runs(f, N)
<1>1. \A t, x : StoreInv(t, g) => StoreInv(Body(t, x), g)
  <2> SUFFICES ASSUME NEW t, NEW x, StoreInv(t, g)
               PROVE  StoreInv(SimaproRow(t, block, p, section.name, x), g)
    OBVIOUS
  <2> DEFINE flow == Entity("flows",
                            StableId(<<"simapro/flow", block.source, section.name, x.name>>),
                            Nothing, FlowRaw(x.unit, Nothing, <<>>, x.named))
             exchange == Exchange(flow.id, x.unit, SectionSide(section.name) = "input", FALSE)
  <2>1. \/ SimaproRow(t, block, p, section.name, x) = t
        \/ SimaproRow(t, block, p, section.name, x) = AddExchange(AddFlow(t, flow), p, exchange)
    BY DEF SimaproRow
  <2>2. IsFlow(flow) /\ exchange.flow = flow.id /\ flow.type = "flows"
    BY DEF Entity, FlowRaw, IsFlow, Exchange
  <2> HIDE DEF flow, exchange
  <2>3. StoreInv(AddExchange(AddFlow(t, flow), p, exchange), g)
    BY <2>2, FlowFound, ExchangeFound
  <2> QED BY <2>1, <2>3
<1>2. N \in Nat /\ SimaproSection(s, block, p, section) = after[N]
  BY DEF SimaproSection, ForEach
<1> HIDE DEF N, Body, Runs, after
<1>3. Runs(after, N)
  <2> DEFINE S == {k \in 0 .. N : \E f : Runs(f, k)}
  <2>1. 0 \in S
    <3>1. Runs([n \in 0 .. 0 |-> s], 0)
      BY DEF Runs
    <3> QED BY <3>1, <1>2
  <2>2. ASSUME NEW k \in 1 .. N, k - 1 \in S PROVE k \in S
    <3>1. PICK f : Runs(f, k - 1)
      BY <2>2
    <3> DEFINE h == [n \in 0 .. k |-> IF n = 0 THEN s ELSE Body(f[n - 1], section.rows[n])]
    <3>2. \A n \in 0 .. k - 1 : h[n] = f[n]
      BY <3>1, <1>2 DEF Runs
    <3> HIDE DEF h
    <3>3. \A n \in 1 .. k : n - 1 \in 0 .. k - 1
      BY <1>2
    <3>4. \A n \in 0 .. k : n # 0 => h[n - 1] = f[n - 1]
      BY <3>2, <3>3, <1>2
    <3>5. Runs(h, k)
      BY <3>4 DEF Runs, h
    <3> QED BY <3>5
  <2> HIDE DEF S
  <2>3. \A k \in 0 .. N : k \in S
    BY <2>1, <2>2, <1>2, Induction
  <2> QED BY <2>3, <1>2 DEF S, after
<1>4. N \in {k \in 0 .. N : StoreInv(after[k], g)}
  <2> DEFINE S == {k \in 0 .. N : StoreInv(after[k], g)}
  <2>1. after[0] = s /\ \A k \in 1 .. N : after[k] = Body(after[k - 1], section.rows[k])
    BY <1>2, <1>3 DEF Runs
  <2>2. 0 \in S
    BY <2>1, <1>2
  <2>3. ASSUME NEW k \in 1 .. N, k - 1 \in S PROVE k \in S
    BY <2>1, <2>3, <1>1
  <2> HIDE DEF S
  <2>4. \A k \in 0 .. N : k \in S
    BY <2>2, <2>3, <1>2, Induction
  <2> QED BY <2>4, <1>2 DEF S
<1> QED BY <1>2, <1>4

\* The sections of a block.
LEMMA SectionsKeep ==
  ASSUME NEW s, NEW g, StoreInv(s, g), NEW block, NEW p, NEW sections,
         Len(sections) \in Nat,
         \A k \in 1 .. Len(sections) : Len(sections[k].rows) \in Nat
  PROVE  StoreInv(SimaproSections(s, block, p, sections), g)
<1> DEFINE N == Len(sections)
           Body(t, x) == SimaproSection(t, block, p, x)
           Runs(f, k) == f = [n \in 0 .. k |-> IF n = 0 THEN s ELSE Body(f[n - 1], sections[n])]
           after == CHOOSE f : Runs(f, N)
<1>1. \A t : \A k \in 1 .. N : StoreInv(t, g) => StoreInv(Body(t, sections[k]), g)
  BY RowsKeep
<1>2. N \in Nat /\ SimaproSections(s, block, p, sections) = after[N]
  BY DEF SimaproSections, ForEach
<1> HIDE DEF N, Body, Runs, after
<1>3. Runs(after, N)
  <2> DEFINE S == {k \in 0 .. N : \E f : Runs(f, k)}
  <2>1. 0 \in S
    <3>1. Runs([n \in 0 .. 0 |-> s], 0)
      BY DEF Runs
    <3> QED BY <3>1, <1>2
  <2>2. ASSUME NEW k \in 1 .. N, k - 1 \in S PROVE k \in S
    <3>1. PICK f : Runs(f, k - 1)
      BY <2>2
    <3> DEFINE h == [n \in 0 .. k |-> IF n = 0 THEN s ELSE Body(f[n - 1], sections[n])]
    <3>2. \A n \in 0 .. k - 1 : h[n] = f[n]
      BY <3>1, <1>2 DEF Runs
    <3> HIDE DEF h
    <3>3. \A n \in 1 .. k : n - 1 \in 0 .. k - 1
      BY <1>2
    <3>4. \A n \in 0 .. k : n # 0 => h[n - 1] = f[n - 1]
      BY <3>2, <3>3, <1>2
    <3>5. Runs(h, k)
      BY <3>4 DEF Runs, h
    <3> QED BY <3>5
  <2> HIDE DEF S
  <2>3. \A k \in 0 .. N : k \in S
    BY <2>1, <2>2, <1>2, Induction
  <2> QED BY <2>3, <1>2 DEF S, after
<1>4. N \in {k \in 0 .. N : StoreInv(after[k], g)}
  <2> DEFINE S == {k \in 0 .. N : StoreInv(after[k], g)}
  <2>1. after[0] = s /\ \A k \in 1 .. N : after[k] = Body(after[k - 1], sections[k])
    BY <1>2, <1>3 DEF Runs
  <2>2. 0 \in S
    BY <2>1, <1>2
  <2>3. ASSUME NEW k \in 1 .. N, k - 1 \in S PROVE k \in S
    BY <2>1, <2>3, <1>1
  <2> HIDE DEF S
  <2>4. \A k \in 0 .. N : k \in S
    BY <2>2, <2>3, <1>2, Induction
  <2> QED BY <2>4, <1>2 DEF S
<1> QED BY <1>2, <1>4

\* Sections with their rows.
Rowed(seen) == IsList(seen) /\ \A i \in 1 .. Len(seen) : IsList(seen[i].rows)

LEMMA EmptyRowed == Rowed(<<>>)
  BY DEF Rowed, IsList

\* The sections of a block, each once.
LEMMA SectionsRowed ==
  ASSUME NEW block,
         Len(block.sections) \in Nat,
         \A k \in 1 .. Len(block.sections) : IsList(block.sections[k].rows)
  PROVE  Rowed(Sections(block))
<1> DEFINE N == Len(block.sections)
           Body(t, x) == IF \E i \in 1 .. Len(t) : t[i].name = x.name
                         THEN [i \in 1 .. Len(t) |-> IF t[i].name = x.name THEN x ELSE t[i]]
                         ELSE Append(t, x)
           Runs(f, k) == f = [n \in 0 .. k |-> IF n = 0 THEN <<>> ELSE Body(f[n - 1], block.sections[n])]
           after == CHOOSE f : Runs(f, N)
<1>1. \A t : \A k \in 1 .. N : Rowed(t) => Rowed(Body(t, block.sections[k]))
  <2> SUFFICES ASSUME NEW t, NEW k \in 1 .. N, Rowed(t)
               PROVE  Rowed(Body(t, block.sections[k]))
    OBVIOUS
  <2> DEFINE x == block.sections[k]
             replaced == [i \in 1 .. Len(t) |-> IF t[i].name = x.name THEN x ELSE t[i]]
  <2>1. IsList(x.rows)
    OBVIOUS
  <2>2. Body(t, x) \in {replaced, Append(t, x)}
    OBVIOUS
  <2> HIDE DEF x, Body
  <2>3. Rowed(replaced)
    <3>1. Len(t) \in Nat /\ DOMAIN t = 1 .. Len(t)
      BY DEF Rowed, IsList
    <3> DEFINE Values == {replaced[i] : i \in DOMAIN replaced}
    <3>2. DOMAIN replaced = 1 .. Len(t) /\ \A i \in 1 .. Len(t) : IsList(replaced[i].rows)
      BY <2>1 DEF Rowed
    <3>3. \A i \in 1 .. Len(t) : replaced[i] \in Values
      OBVIOUS
    <3> HIDE DEF Values
    <3>4. replaced \in Seq(Values) /\ Len(replaced) = Len(t)
      BY <3>1, <3>3
    <3> QED BY <3>2, <3>4 DEF Rowed, IsList, Values
  <2> HIDE DEF replaced
  <2>4. Rowed(Append(t, x))
    <3> DEFINE r == Append(t, x)
    <3>1. /\ IsList(r) /\ Len(t) \in Nat /\ Len(r) = Len(t) + 1 /\ r[Len(t) + 1] = x
          /\ \A i \in 1 .. Len(t) : r[i] = t[i]
      BY ListAppended DEF Rowed
    <3> HIDE DEF r
    <3>2. \A i \in 1 .. Len(r) : i \in 1 .. Len(t) \/ i = Len(t) + 1
      BY <3>1
    <3> QED BY <2>1, <3>1, <3>2 DEF Rowed, r
  <2> QED BY <2>2, <2>3, <2>4 DEF x
<1>2. N \in Nat /\ Sections(block) = after[N]
  BY DEF Sections, ForEach
<1> HIDE DEF N, Body, Runs, after
<1>3. Runs(after, N)
  <2> DEFINE S == {k \in 0 .. N : \E f : Runs(f, k)}
  <2>1. 0 \in S
    <3>1. Runs([n \in 0 .. 0 |-> <<>>], 0)
      BY DEF Runs
    <3> QED BY <3>1, <1>2
  <2>2. ASSUME NEW k \in 1 .. N, k - 1 \in S PROVE k \in S
    <3>1. PICK f : Runs(f, k - 1)
      BY <2>2
    <3> DEFINE h == [n \in 0 .. k |-> IF n = 0 THEN <<>> ELSE Body(f[n - 1], block.sections[n])]
    <3>2. \A n \in 0 .. k - 1 : h[n] = f[n]
      BY <3>1, <1>2 DEF Runs
    <3> HIDE DEF h
    <3>3. \A n \in 1 .. k : n - 1 \in 0 .. k - 1
      BY <1>2
    <3>4. \A n \in 0 .. k : n # 0 => h[n - 1] = f[n - 1]
      BY <3>2, <3>3, <1>2
    <3>5. Runs(h, k)
      BY <3>4 DEF Runs, h
    <3> QED BY <3>5
  <2> HIDE DEF S
  <2>3. \A k \in 0 .. N : k \in S
    BY <2>1, <2>2, <1>2, Induction
  <2> QED BY <2>3, <1>2 DEF S, after
<1>4. N \in {k \in 0 .. N : Rowed(after[k])}
  <2> DEFINE S == {k \in 0 .. N : Rowed(after[k])}
  <2>1. after[0] = <<>> /\ \A k \in 1 .. N : after[k] = Body(after[k - 1], block.sections[k])
    BY <1>2, <1>3 DEF Runs
  <2>2. 0 \in S
    BY <2>1, <1>2, EmptyRowed
  <2>3. ASSUME NEW k \in 1 .. N, k - 1 \in S PROVE k \in S
    BY <2>1, <2>3, <1>1
  <2> HIDE DEF S
  <2>4. \A k \in 0 .. N : k \in S
    BY <2>2, <2>3, <1>2, Induction
  <2> QED BY <2>4, <1>2 DEF S
<1> QED BY <1>2, <1>4

\* The Flows sheet of a workbook.
LEMMA WorkbookFlowsKeep ==
  ASSUME NEW s, NEW g, StoreInv(s, g), NEW book,
         Len(book.flows) \in Nat
  PROVE  StoreInv(WorkbookFlows(s, book), g)
<1> DEFINE N == Len(book.flows)
           Body(t, x) == WorkbookFlow(t, book, x)
           Runs(f, k) == f = [n \in 0 .. k |-> IF n = 0 THEN s ELSE Body(f[n - 1], book.flows[n])]
           after == CHOOSE f : Runs(f, N)
<1>1. \A t, x : StoreInv(t, g) => StoreInv(Body(t, x), g)
  <2> SUFFICES ASSUME NEW t, NEW x, StoreInv(t, g)
               PROVE  StoreInv(WorkbookFlow(t, book, x), g)
    OBVIOUS
  <2> DEFINE flow == Entity("flows", Or(x.uuid, StableId(<<"xlsx/flow", book.source, x.name>>)),
                            FlowKey(x.name), FlowRaw(Nothing, Nothing, <<>>, x.named))
  <2>1. WorkbookFlow(t, book, x) = t \/ WorkbookFlow(t, book, x) = AddFlow(t, flow)
    BY DEF WorkbookFlow
  <2>2. IsFlow(flow)
    BY DEF Entity, FlowRaw, IsFlow
  <2> HIDE DEF flow
  <2> QED BY <2>1, <2>2, FlowFound
<1>2. N \in Nat /\ WorkbookFlows(s, book) = after[N]
  BY DEF WorkbookFlows, ForEach
<1> HIDE DEF N, Body, Runs, after
<1>3. Runs(after, N)
  <2> DEFINE S == {k \in 0 .. N : \E f : Runs(f, k)}
  <2>1. 0 \in S
    <3>1. Runs([n \in 0 .. 0 |-> s], 0)
      BY DEF Runs
    <3> QED BY <3>1, <1>2
  <2>2. ASSUME NEW k \in 1 .. N, k - 1 \in S PROVE k \in S
    <3>1. PICK f : Runs(f, k - 1)
      BY <2>2
    <3> DEFINE h == [n \in 0 .. k |-> IF n = 0 THEN s ELSE Body(f[n - 1], book.flows[n])]
    <3>2. \A n \in 0 .. k - 1 : h[n] = f[n]
      BY <3>1, <1>2 DEF Runs
    <3> HIDE DEF h
    <3>3. \A n \in 1 .. k : n - 1 \in 0 .. k - 1
      BY <1>2
    <3>4. \A n \in 0 .. k : n # 0 => h[n - 1] = f[n - 1]
      BY <3>2, <3>3, <1>2
    <3>5. Runs(h, k)
      BY <3>4 DEF Runs, h
    <3> QED BY <3>5
  <2> HIDE DEF S
  <2>3. \A k \in 0 .. N : k \in S
    BY <2>1, <2>2, <1>2, Induction
  <2> QED BY <2>3, <1>2 DEF S, after
<1>4. N \in {k \in 0 .. N : StoreInv(after[k], g)}
  <2> DEFINE S == {k \in 0 .. N : StoreInv(after[k], g)}
  <2>1. after[0] = s /\ \A k \in 1 .. N : after[k] = Body(after[k - 1], book.flows[k])
    BY <1>2, <1>3 DEF Runs
  <2>2. 0 \in S
    BY <2>1, <1>2
  <2>3. ASSUME NEW k \in 1 .. N, k - 1 \in S PROVE k \in S
    BY <2>1, <2>3, <1>1
  <2> HIDE DEF S
  <2>4. \A k \in 0 .. N : k \in S
    BY <2>2, <2>3, <1>2, Induction
  <2> QED BY <2>4, <1>2 DEF S
<1> QED BY <1>2, <1>4

\* A flow that is looked up by its key is in the store.
LEMMA WorkbookExchangesKeep ==
  ASSUME NEW s, NEW g, StoreInv(s, g), NEW book, NEW p, NEW isInput, NEW rows,
         Len(rows) \in Nat
  PROVE  StoreInv(WorkbookExchanges(s, book, p, isInput, rows), g)
<1> DEFINE N == Len(rows)
           Body(t, x) == WorkbookExchange(t, book, p, isInput, x)
           Runs(f, k) == f = [n \in 0 .. k |-> IF n = 0 THEN s ELSE Body(f[n - 1], rows[n])]
           after == CHOOSE f : Runs(f, N)
<1>1. \A t, x : StoreInv(t, g) => StoreInv(Body(t, x), g)
  <2> SUFFICES ASSUME NEW t, NEW x, StoreInv(t, g)
               PROVE  StoreInv(WorkbookExchange(t, book, p, isInput, x), g)
    OBVIOUS
  <2> DEFINE known == GetByExternal(t, "flows", FlowKey(x.name))
             made == Entity("flows",
                            StableId(<<"xlsx/exchange-flow", book.source, x.name>>),
                            FlowKey(x.name), FlowRaw(Nothing, Nothing, <<>>, FALSE))
             flow == IF known # Nothing THEN known ELSE made
             used == [flow EXCEPT !.raw.unit = Or(x.unit, @)]
             exchange == Exchange(flow.id, x.unit, isInput, x.reference)
  <2>1. \/ WorkbookExchange(t, book, p, isInput, x) = t
        \/ WorkbookExchange(t, book, p, isInput, x) = AddExchange(AddFlow(t, used), p, exchange)
    BY DEF WorkbookExchange
  <2>2. IsFlow(made)
    BY DEF Entity, FlowRaw, IsFlow
  <2>3. ASSUME g, known # Nothing PROVE IsFlow(known)
    <3> DEFINE k == <<"flows", FlowKey(x.name)>>
               id == t.pointers[k]
    <3>1. k \in DOMAIN t.pointers /\ known = Get(t, "flows", id)
      BY <2>3 DEF GetByExternal
    <3>2. Has(t, "flows", id)
      BY <3>1 DEF StoreInv, Sound, PointersLead
    <3> HIDE DEF k, id
    <3> QED BY <2>3, <3>1, <3>2 DEF StoreInv, FlowsFound, Get, Has
  <2> HIDE DEF known, made
  <2>4. g => IsFlow(flow)
    BY <2>2, <2>3
  <2> HIDE DEF flow
  <2>5. g => IsFlow(used) /\ used.type = "flows" /\ used.id = flow.id
    BY <2>4 DEF IsFlow
  <2>6. exchange.flow = flow.id
    BY DEF Exchange
  <2> HIDE DEF used, exchange
  <2>7. StoreInv(AddExchange(AddFlow(t, used), p, exchange), g)
    BY <2>5, <2>6, FlowFound, ExchangeFound
  <2> QED BY <2>1, <2>7
<1>2. N \in Nat /\ WorkbookExchanges(s, book, p, isInput, rows) = after[N]
  BY DEF WorkbookExchanges, ForEach
<1> HIDE DEF N, Body, Runs, after
<1>3. Runs(after, N)
  <2> DEFINE S == {k \in 0 .. N : \E f : Runs(f, k)}
  <2>1. 0 \in S
    <3>1. Runs([n \in 0 .. 0 |-> s], 0)
      BY DEF Runs
    <3> QED BY <3>1, <1>2
  <2>2. ASSUME NEW k \in 1 .. N, k - 1 \in S PROVE k \in S
    <3>1. PICK f : Runs(f, k - 1)
      BY <2>2
    <3> DEFINE h == [n \in 0 .. k |-> IF n = 0 THEN s ELSE Body(f[n - 1], rows[n])]
    <3>2. \A n \in 0 .. k - 1 : h[n] = f[n]
      BY <3>1, <1>2 DEF Runs
    <3> HIDE DEF h
    <3>3. \A n \in 1 .. k : n - 1 \in 0 .. k - 1
      BY <1>2
    <3>4. \A n \in 0 .. k : n # 0 => h[n - 1] = f[n - 1]
      BY <3>2, <3>3, <1>2
    <3>5. Runs(h, k)
      BY <3>4 DEF Runs, h
    <3> QED BY <3>5
  <2> HIDE DEF S
  <2>3. \A k \in 0 .. N : k \in S
    BY <2>1, <2>2, <1>2, Induction
  <2> QED BY <2>3, <1>2 DEF S, after
<1>4. N \in {k \in 0 .. N : StoreInv(after[k], g)}
  <2> DEFINE S == {k \in 0 .. N : StoreInv(after[k], g)}
  <2>1. after[0] = s /\ \A k \in 1 .. N : after[k] = Body(after[k - 1], rows[k])
    BY <1>2, <1>3 DEF Runs
  <2>2. 0 \in S
    BY <2>1, <1>2
  <2>3. ASSUME NEW k \in 1 .. N, k - 1 \in S PROVE k \in S
    BY <2>1, <2>3, <1>1
  <2> HIDE DEF S
  <2>4. \A k \in 0 .. N : k \in S
    BY <2>2, <2>3, <1>2, Induction
  <2> QED BY <2>4, <1>2 DEF S
<1> QED BY <1>2, <1>4

\* The sources of a dataset.
LEMMA EcospoldSourcesKeep ==
  ASSUME NEW s, NEW g, StoreInv(s, g), NEW sources,
         Len(sources) \in Nat
  PROVE  StoreInv(EcospoldSources(s, sources), g)
<1> DEFINE N == Len(sources)
           Body(t, x) == Add(t, EcospoldSource(x))
           Runs(f, k) == f = [n \in 0 .. k |-> IF n = 0 THEN s ELSE Body(f[n - 1], sources[n])]
           after == CHOOSE f : Runs(f, N)
<1>1. \A t, x : StoreInv(t, g) => StoreInv(Body(t, x), g)
  <2>1. \A x : EcospoldSource(x).type = "sources"
    BY DEF EcospoldSource, Entity
  <2> QED BY <2>1, AddFound
<1>2. N \in Nat /\ EcospoldSources(s, sources) = after[N]
  BY DEF EcospoldSources, ForEach
<1> HIDE DEF N, Body, Runs, after
<1>3. Runs(after, N)
  <2> DEFINE S == {k \in 0 .. N : \E f : Runs(f, k)}
  <2>1. 0 \in S
    <3>1. Runs([n \in 0 .. 0 |-> s], 0)
      BY DEF Runs
    <3> QED BY <3>1, <1>2
  <2>2. ASSUME NEW k \in 1 .. N, k - 1 \in S PROVE k \in S
    <3>1. PICK f : Runs(f, k - 1)
      BY <2>2
    <3> DEFINE h == [n \in 0 .. k |-> IF n = 0 THEN s ELSE Body(f[n - 1], sources[n])]
    <3>2. \A n \in 0 .. k - 1 : h[n] = f[n]
      BY <3>1, <1>2 DEF Runs
    <3> HIDE DEF h
    <3>3. \A n \in 1 .. k : n - 1 \in 0 .. k - 1
      BY <1>2
    <3>4. \A n \in 0 .. k : n # 0 => h[n - 1] = f[n - 1]
      BY <3>2, <3>3, <1>2
    <3>5. Runs(h, k)
      BY <3>4 DEF Runs, h
    <3> QED BY <3>5
  <2> HIDE DEF S
  <2>3. \A k \in 0 .. N : k \in S
    BY <2>1, <2>2, <1>2, Induction
  <2> QED BY <2>3, <1>2 DEF S, after
<1>4. N \in {k \in 0 .. N : StoreInv(after[k], g)}
  <2> DEFINE S == {k \in 0 .. N : StoreInv(after[k], g)}
  <2>1. after[0] = s /\ \A k \in 1 .. N : after[k] = Body(after[k - 1], sources[k])
    BY <1>2, <1>3 DEF Runs
  <2>2. 0 \in S
    BY <2>1, <1>2
  <2>3. ASSUME NEW k \in 1 .. N, k - 1 \in S PROVE k \in S
    BY <2>1, <2>3, <1>1
  <2> HIDE DEF S
  <2>4. \A k \in 0 .. N : k \in S
    BY <2>2, <2>3, <1>2, Induction
  <2> QED BY <2>4, <1>2 DEF S
<1> QED BY <1>2, <1>4

\* The exchanges of a dataset, each after its flow.
LEMMA EcospoldExchangesKeep ==
  ASSUME NEW s, NEW g, StoreInv(s, g), NEW p, NEW exchanges,
         Len(exchanges) \in Nat
  PROVE  StoreInv(EcospoldExchanges(s, p, exchanges), g)
<1> DEFINE N == Len(exchanges)
           Body(t, x) == EcospoldExchange(t, p, x)
           Runs(f, k) == f = [n \in 0 .. k |-> IF n = 0 THEN s ELSE Body(f[n - 1], exchanges[n])]
           after == CHOOSE f : Runs(f, N)
<1>1. \A t, x : StoreInv(t, g) => StoreInv(Body(t, x), g)
  <2> SUFFICES ASSUME NEW t, NEW x, StoreInv(t, g)
               PROVE  StoreInv(EcospoldExchange(t, p, x), g)
    OBVIOUS
  <2> DEFINE flow == Entity("flows", Or(x.id, StableId(<<"ecospold/flow", x.name, ToString(x.unit)>>)),
                            x.id, FlowRaw(x.unit, Nothing, <<>>, x.named))
             exchange == Exchange(flow.id, x.unit, x.isInput, FALSE)
  <2>1. EcospoldExchange(t, p, x) = AddExchange(AddFlow(t, flow), p, exchange)
    BY DEF EcospoldExchange
  <2>2. IsFlow(flow) /\ exchange.flow = flow.id /\ flow.type = "flows"
    BY DEF Entity, FlowRaw, IsFlow, Exchange
  <2> HIDE DEF flow, exchange
  <2> QED BY <2>1, <2>2, FlowFound, ExchangeFound
<1>2. N \in Nat /\ EcospoldExchanges(s, p, exchanges) = after[N]
  BY DEF EcospoldExchanges, ForEach
<1> HIDE DEF N, Body, Runs, after
<1>3. Runs(after, N)
  <2> DEFINE S == {k \in 0 .. N : \E f : Runs(f, k)}
  <2>1. 0 \in S
    <3>1. Runs([n \in 0 .. 0 |-> s], 0)
      BY DEF Runs
    <3> QED BY <3>1, <1>2
  <2>2. ASSUME NEW k \in 1 .. N, k - 1 \in S PROVE k \in S
    <3>1. PICK f : Runs(f, k - 1)
      BY <2>2
    <3> DEFINE h == [n \in 0 .. k |-> IF n = 0 THEN s ELSE Body(f[n - 1], exchanges[n])]
    <3>2. \A n \in 0 .. k - 1 : h[n] = f[n]
      BY <3>1, <1>2 DEF Runs
    <3> HIDE DEF h
    <3>3. \A n \in 1 .. k : n - 1 \in 0 .. k - 1
      BY <1>2
    <3>4. \A n \in 0 .. k : n # 0 => h[n - 1] = f[n - 1]
      BY <3>2, <3>3, <1>2
    <3>5. Runs(h, k)
      BY <3>4 DEF Runs, h
    <3> QED BY <3>5
  <2> HIDE DEF S
  <2>3. \A k \in 0 .. N : k \in S
    BY <2>1, <2>2, <1>2, Induction
  <2> QED BY <2>3, <1>2 DEF S, after
<1>4. N \in {k \in 0 .. N : StoreInv(after[k], g)}
  <2> DEFINE S == {k \in 0 .. N : StoreInv(after[k], g)}
  <2>1. after[0] = s /\ \A k \in 1 .. N : after[k] = Body(after[k - 1], exchanges[k])
    BY <1>2, <1>3 DEF Runs
  <2>2. 0 \in S
    BY <2>1, <1>2
  <2>3. ASSUME NEW k \in 1 .. N, k - 1 \in S PROVE k \in S
    BY <2>1, <2>3, <1>1
  <2> HIDE DEF S
  <2>4. \A k \in 0 .. N : k \in S
    BY <2>2, <2>3, <1>2, Induction
  <2> QED BY <2>4, <1>2 DEF S
<1> QED BY <1>2, <1>4

\* What normalization looks amounts up in is left as it is.
Catalog == {"unitgroups", "flowproperties", "flows"}
SameCatalog(s, a) ==
  \A t \in Catalog :
    /\ a.order[t] = s.order[t]
    /\ \A id : Get(a, t, id) = Get(s, t, id) /\ (Has(a, t, id) <=> Has(s, t, id))

LEMMA AddElsewhere ==
  ASSUME NEW s, Sound(s), NEW e, e.type \notin Catalog PROVE SameCatalog(s, Add(s, e))
<1> DEFINE a == Add(s, e)
<1>1. CASE a = Failed(s)
  <2>1. a.entities = s.entities /\ a.order = s.order
    BY <1>1 DEF Sound, IsStore, Failed
  <2> HIDE DEF a
  <2> QED BY <2>1 DEF SameCatalog, Get, Has, a
<1>2. CASE a # Failed(s)
  <2>1. /\ a.entities = Written(s.entities, <<e.type, e.id>>, e)
        /\ \A t \in EntityTypes : t # e.type => a.order[t] = s.order[t]
    BY <1>2, AddOrder DEF Listed
  <2> HIDE DEF a
  <2>2. \A t \in Catalog : \A id :
          /\ <<t, id>> \in DOMAIN a.entities <=> <<t, id>> \in DOMAIN s.entities
          /\ <<t, id>> \in DOMAIN s.entities => a.entities[<<t, id>>] = s.entities[<<t, id>>]
    BY <2>1 DEF Written
  <2>3. \A t \in Catalog : a.order[t] = s.order[t]
    BY <2>1, TypesAssumption DEF Catalog
  <2> QED BY <2>2, <2>3 DEF SameCatalog, Get, Has, a
<1> QED BY <1>1, <1>2

LEMMA RemoveElsewhere ==
  ASSUME NEW s, Sound(s), NEW type, type \notin Catalog
  PROVE  LET a == RemoveType(s, type) IN
         /\ SameCatalog(s, a) /\ a.exchanges = s.exchanges /\ a.ok = s.ok
         /\ type # "processes" => a.order["processes"] = s.order["processes"]
<1> DEFINE a == RemoveType(s, type)
           kept == [k \in {n \in DOMAIN s.entities : n[1] # type} |-> s.entities[k]]
<1>1. /\ a.entities = kept /\ a.exchanges = s.exchanges /\ a.ok = s.ok
      /\ a.order = [s.order EXCEPT ![type] = <<>>]
  BY DEF Sound, IsStore, RemoveType
<1>2. \A t \in EntityTypes : t # type => a.order[t] = s.order[t]
  BY <1>1 DEF Sound, IsStore
<1> HIDE DEF a
<1>3. \A t \in Catalog : \A id :
        /\ <<t, id>> \in DOMAIN kept <=> <<t, id>> \in DOMAIN s.entities
        /\ <<t, id>> \in DOMAIN s.entities => kept[<<t, id>>] = s.entities[<<t, id>>]
  OBVIOUS
<1> HIDE DEF kept
<1>4. \A t \in Catalog : a.order[t] = s.order[t]
  BY <1>2, TypesAssumption DEF Catalog
<1>5. SameCatalog(s, a)
  BY <1>1, <1>3, <1>4 DEF SameCatalog, Get, Has
<1> QED BY <1>1, <1>2, <1>5, TypesAssumption DEF a

\* Nor is anything of a process changed but what was found for it.
ProcessesKept(s, a) ==
  /\ Sound(a) /\ SameCatalog(s, a) /\ a.exchanges = s.exchanges
  /\ a.order["processes"] = s.order["processes"]
  /\ a.ok => s.ok

LEMMA UpdateKeeps ==
  ASSUME NEW s, Sound(s), NEW t, ProcessesKept(s, t), NEW sought, NEW raw,
         NEW k \in 1 .. Len(IterType(s, "processes"))
  PROVE  ProcessesKept(s, Update(t, IterType(s, "processes")[k], sought, raw))
<1> DEFINE x == IterType(s, "processes")[k]
           e == Entity("processes", x.id, x.ext, raw)
           a == Update(t, x, sought, raw)
           id == s.order["processes"][k]
<1>1. Len(s.order["processes"]) \in Nat /\ "processes" \in EntityTypes
  BY TypesAssumption, ListLength DEF Sound, IsStore
<1>2. k \in 1 .. Len(s.order["processes"]) /\ x = Get(s, "processes", id)
  BY <1>1 DEF IterType
<1>3. Has(s, "processes", id) /\ Has(t, "processes", id)
  BY <1>1, <1>2 DEF Sound, OrderListsEntities, ProcessesKept
<1>4. x.id = id
  BY <1>2, <1>3 DEF Get, Has, Sound, FilesNamed
<1>5. a = t \/ a = Add(t, e) \/ a = Failed(t)
  BY DEF Update
<1>6. e.type = "processes" /\ e.id = id
  BY <1>4 DEF Entity
<1> HIDE DEF a, e, x, id
<1>7. CASE a = t
  BY <1>7 DEF a, x
<1>8. CASE a = Add(t, e)
  <2> DEFINE b == Add(t, e)
  <2>1. Sound(b) /\ SameCatalog(t, b) /\ b.exchanges = t.exchanges /\ (b.ok => t.ok)
    BY <1>6, AddSound, AddElsewhere, AddKeeps DEF ProcessesKept, Catalog, Sound
  <2>2. b.order["processes"] = t.order["processes"]
    <3>1. CASE b = Failed(t)
      BY <3>1 DEF ProcessesKept, Sound, IsStore, Failed
    <3>2. CASE b # Failed(t)
      <4>1. Listed(t, e, b)
        BY <3>2, AddOrder DEF ProcessesKept
      <4> HIDE DEF b
      <4> QED BY <4>1, <1>1, <1>3, <1>6 DEF Listed
    <3> QED BY <3>1, <3>2
  <2> HIDE DEF b
  <2>3. ProcessesKept(s, b)
    BY <2>1, <2>2 DEF ProcessesKept, SameCatalog
  <2> QED BY <1>8, <2>3 DEF a, b, x
<1>9. CASE a = Failed(t)
  <2> DEFINE b == Failed(t)
  <2>1. /\ b.entities = t.entities /\ b.order = t.order /\ b.exchanges = t.exchanges
        /\ ~b.ok
    BY DEF ProcessesKept, Sound, IsStore, Failed
  <2>2. Sound(b)
    BY FailedSound DEF ProcessesKept
  <2> HIDE DEF b
  <2>3. ProcessesKept(s, b)
    BY <2>1, <2>2 DEF ProcessesKept, SameCatalog, Get, Has
  <2> QED BY <1>9, <2>3 DEF a, b, x
<1> QED BY <1>5, <1>7, <1>8, <1>9

\* The locations of the processes.
LEMMA LocationsStep ==
  ASSUME NEW s, Len(IterType(s, "processes")) \in Nat
  PROVE  \E t : /\ t[0] = s
                /\ \A k \in 1 .. Len(IterType(s, "processes")) : t[k] = Update(t[k - 1], IterType(s, "processes")[k], LocationSought(IterType(s, "processes")[k].raw), Located(t[k - 1], IterType(s, "processes")[k].raw))
                /\ ResolveLocations(s) = t[Len(IterType(s, "processes"))]
<1> DEFINE N == Len(IterType(s, "processes"))
           Body(r, x) == Update(r, x, LocationSought(x.raw), Located(r, x.raw))
           Runs(f, k) == f = [n \in 0 .. k |-> IF n = 0 THEN s ELSE Body(f[n - 1], IterType(s, "processes")[n])]
           after == CHOOSE f : Runs(f, N)
<1>1. N \in Nat /\ ResolveLocations(s) = after[N]
  BY DEF ResolveLocations, ForEach
<1>2. SUFFICES /\ after[0] = s /\ \A k \in 1 .. N : after[k] = Body(after[k - 1], IterType(s, "processes")[k])
  BY <1>1
<1> HIDE DEF N, Body, Runs, after
<1>3. Runs(after, N)
  <2> DEFINE S == {k \in 0 .. N : \E f : Runs(f, k)}
  <2>1. 0 \in S
    <3>1. Runs([n \in 0 .. 0 |-> s], 0)
      BY DEF Runs
    <3> QED BY <3>1, <1>1
  <2>2. ASSUME NEW k \in 1 .. N, k - 1 \in S PROVE k \in S
    <3>1. PICK f : Runs(f, k - 1)
      BY <2>2
    <3> DEFINE h == [n \in 0 .. k |-> IF n = 0 THEN s ELSE Body(f[n - 1], IterType(s, "processes")[n])]
    <3>2. \A n \in 0 .. k - 1 : h[n] = f[n]
      BY <3>1, <1>1 DEF Runs
    <3> HIDE DEF h
    <3>3. \A n \in 1 .. k : n - 1 \in 0 .. k - 1
      BY <1>1
    <3>4. \A n \in 0 .. k : n # 0 => h[n - 1] = f[n - 1]
      BY <3>2, <3>3, <1>1
    <3>5. Runs(h, k)
      BY <3>4 DEF Runs, h
    <3> QED BY <3>5
  <2> HIDE DEF S
  <2>3. \A k \in 0 .. N : k \in S
    BY <2>1, <2>2, <1>1, Induction
  <2> QED BY <2>3, <1>1 DEF S, after
<1> QED BY <1>1, <1>3 DEF Runs


\* The data quality of the processes.
LEMMA QualityStep ==
  ASSUME NEW s, Len(IterType(s, "processes")) \in Nat
  PROVE  \E t : /\ t[0] = s
                /\ \A k \in 1 .. Len(IterType(s, "processes")) : t[k] = Update(t[k - 1], IterType(s, "processes")[k], SystemSought(IterType(s, "processes")[k].raw), Rated(t[k - 1], IterType(s, "processes")[k].raw))
                /\ RateProcesses(s) = t[Len(IterType(s, "processes"))]
<1> DEFINE N == Len(IterType(s, "processes"))
           Body(r, x) == Update(r, x, SystemSought(x.raw), Rated(r, x.raw))
           Runs(f, k) == f = [n \in 0 .. k |-> IF n = 0 THEN s ELSE Body(f[n - 1], IterType(s, "processes")[n])]
           after == CHOOSE f : Runs(f, N)
<1>1. N \in Nat /\ RateProcesses(s) = after[N]
  BY DEF RateProcesses, ForEach
<1>2. SUFFICES /\ after[0] = s /\ \A k \in 1 .. N : after[k] = Body(after[k - 1], IterType(s, "processes")[k])
  BY <1>1
<1> HIDE DEF N, Body, Runs, after
<1>3. Runs(after, N)
  <2> DEFINE S == {k \in 0 .. N : \E f : Runs(f, k)}
  <2>1. 0 \in S
    <3>1. Runs([n \in 0 .. 0 |-> s], 0)
      BY DEF Runs
    <3> QED BY <3>1, <1>1
  <2>2. ASSUME NEW k \in 1 .. N, k - 1 \in S PROVE k \in S
    <3>1. PICK f : Runs(f, k - 1)
      BY <2>2
    <3> DEFINE h == [n \in 0 .. k |-> IF n = 0 THEN s ELSE Body(f[n - 1], IterType(s, "processes")[n])]
    <3>2. \A n \in 0 .. k - 1 : h[n] = f[n]
      BY <3>1, <1>1 DEF Runs
    <3> HIDE DEF h
    <3>3. \A n \in 1 .. k : n - 1 \in 0 .. k - 1
      BY <1>1
    <3>4. \A n \in 0 .. k : n # 0 => h[n - 1] = f[n - 1]
      BY <3>2, <3>3, <1>1
    <3>5. Runs(h, k)
      BY <3>4 DEF Runs, h
    <3> QED BY <3>5
  <2> HIDE DEF S
  <2>3. \A k \in 0 .. N : k \in S
    BY <2>1, <2>2, <1>1, Induction
  <2> QED BY <2>3, <1>1 DEF S, after
<1> QED BY <1>1, <1>3 DEF Runs


LEMMA LocationsKeep ==
  ASSUME NEW s, Sound(s) PROVE ProcessesKept(s, ResolveLocations(s))
<1> DEFINE N == Len(IterType(s, "processes"))
<1>1. N \in Nat
  <2>1. Len(s.order["processes"]) \in Nat
    BY TypesAssumption, ListLength DEF Sound, IsStore
  <2> QED BY <2>1 DEF IterType
<1>2. PICK t : /\ t[0] = s
               /\ \A k \in 1 .. N :
                    t[k] = Update(t[k - 1], IterType(s, "processes")[k],
                                  LocationSought(IterType(s, "processes")[k].raw),
                                  Located(t[k - 1], IterType(s, "processes")[k].raw))
               /\ ResolveLocations(s) = t[N]
  BY <1>1, LocationsStep
<1> DEFINE S == {k \in 0 .. N : ProcessesKept(s, t[k])}
<1>3. 0 \in S
  BY <1>1, <1>2 DEF ProcessesKept, SameCatalog
<1>4. ASSUME NEW k \in 1 .. N, k - 1 \in S PROVE k \in S
  <2> DEFINE x == IterType(s, "processes")[k]
             sought == LocationSought(x.raw)
             raw == Located(t[k - 1], x.raw)
  <2>1. ProcessesKept(s, t[k - 1])
    BY <1>4
  <2>2. ProcessesKept(s, Update(t[k - 1], x, sought, raw))
    <3> HIDE DEF raw, sought
    <3> QED BY <2>1, UpdateKeeps
  <2>3. ProcessesKept(s, t[k])
    BY <1>2, <2>2
  <2> QED BY <2>3
<1> HIDE DEF S
<1>5. \A k \in 0 .. N : k \in S
  BY <1>1, <1>3, <1>4, Induction
<1> QED BY <1>1, <1>2, <1>5 DEF S

LEMMA QualityKeeps ==
  ASSUME NEW s, Sound(s) PROVE ProcessesKept(s, RateProcesses(s))
<1> DEFINE N == Len(IterType(s, "processes"))
<1>1. N \in Nat
  <2>1. Len(s.order["processes"]) \in Nat
    BY TypesAssumption, ListLength DEF Sound, IsStore
  <2> QED BY <2>1 DEF IterType
<1>2. PICK t : /\ t[0] = s
               /\ \A k \in 1 .. N :
                    t[k] = Update(t[k - 1], IterType(s, "processes")[k],
                                  SystemSought(IterType(s, "processes")[k].raw),
                                  Rated(t[k - 1], IterType(s, "processes")[k].raw))
               /\ RateProcesses(s) = t[N]
  BY <1>1, QualityStep
<1> DEFINE S == {k \in 0 .. N : ProcessesKept(s, t[k])}
<1>3. 0 \in S
  BY <1>1, <1>2 DEF ProcessesKept, SameCatalog
<1>4. ASSUME NEW k \in 1 .. N, k - 1 \in S PROVE k \in S
  <2> DEFINE x == IterType(s, "processes")[k]
             sought == SystemSought(x.raw)
             raw == Rated(t[k - 1], x.raw)
  <2>1. ProcessesKept(s, t[k - 1])
    BY <1>4
  <2>2. ProcessesKept(s, Update(t[k - 1], x, sought, raw))
    <3> HIDE DEF raw, sought
    <3> QED BY <2>1, UpdateKeeps
  <2>3. ProcessesKept(s, t[k])
    BY <1>2, <2>2
  <2> QED BY <2>3
<1> HIDE DEF S
<1>5. \A k \in 0 .. N : k \in S
  BY <1>1, <1>3, <1>4, Induction
<1> QED BY <1>1, <1>2, <1>5 DEF S

\* The exchanges of a process, each restated.
Restatement(t, q) == [i \in 1 .. Len(q) |-> NormalizeExchange(t, q[i])]

LEMMA NormalizedParts ==
  ASSUME NEW s, Sound(s), NEW t, NEW p
  PROVE  LET a == NormalizeProcess(s, t, p) IN
         /\ Sound(a) /\ a.entities = s.entities /\ a.order = s.order
         /\ a.ok => /\ s.ok /\ Exchanges(a, p) = Restatement(t, Exchanges(s, p))
                    /\ \A o : o # p => Exchanges(a, o) = Exchanges(s, o)
<1> DEFINE a == NormalizeProcess(s, t, p)
           new == Written(s.exchanges, p, Restatement(t, Exchanges(s, p)))
<1> HIDE DEF new
<1>1. /\ DOMAIN a = DOMAIN s /\ a.entities = s.entities /\ a.order = s.order
      /\ a.pointers = s.pointers /\ a.counts = s.counts
      /\ a.exchanges \in {s.exchanges, new}
      /\ a.ok => s.ok /\ a.exchanges = new
  BY DEF Sound, IsStore, NormalizeProcess, RewriteExchanges, Failed, Restatement, new
<1> HIDE DEF a
<1>2. FilesNamed(a)
  <2> DEFINE q == Exchanges(s, p)
             list == Restatement(t, q)
  <2>1. Len(q) \in Nat
    BY DEF Sound, FilesNamed, Exchanges, IsList
  <2>2. \A n \in DOMAIN new :
          new[n] = list \/ (n \in DOMAIN s.exchanges /\ new[n] = s.exchanges[n])
    BY DEF new, Written
  <2>3. IsList(list)
    BY <2>1, ListMade DEF Restatement
  <2> HIDE DEF list
  <2> QED BY <1>1, <2>2, <2>3 DEF Sound, FilesNamed
<1>3. Sound(a)
  BY <1>1, <1>2 DEF Sound, IsStore, OrderListsEntities, PointersLead, PointersNamed, Has
<1>4. /\ p \in DOMAIN new /\ new[p] = Restatement(t, Exchanges(s, p))
      /\ \A o : o # p => /\ o \in DOMAIN new <=> o \in DOMAIN s.exchanges
                         /\ o \in DOMAIN s.exchanges => new[o] = s.exchanges[o]
  BY DEF new, Written
<1> QED BY <1>1, <1>3, <1>4 DEF Exchanges, a

\* The amounts of each process.
LEMMA AmountsStep ==
  ASSUME NEW s, Len(s.order["processes"]) \in Nat
  PROVE  \E t : /\ t[0] = s
                /\ \A k \in 1 .. Len(s.order["processes"]) : t[k] = NormalizeProcess(t[k - 1], s, s.order["processes"][k])
                /\ NormalizeAmounts(s) = t[Len(s.order["processes"])]
<1> DEFINE N == Len(s.order["processes"])
           Body(r, x) == NormalizeProcess(r, s, x)
           Runs(f, k) == f = [n \in 0 .. k |-> IF n = 0 THEN s ELSE Body(f[n - 1], s.order["processes"][n])]
           after == CHOOSE f : Runs(f, N)
<1>1. N \in Nat /\ NormalizeAmounts(s) = after[N]
  BY DEF NormalizeAmounts, ForEach
<1>2. SUFFICES /\ after[0] = s /\ \A k \in 1 .. N : after[k] = Body(after[k - 1], s.order["processes"][k])
  BY <1>1
<1> HIDE DEF N, Body, Runs, after
<1>3. Runs(after, N)
  <2> DEFINE S == {k \in 0 .. N : \E f : Runs(f, k)}
  <2>1. 0 \in S
    <3>1. Runs([n \in 0 .. 0 |-> s], 0)
      BY DEF Runs
    <3> QED BY <3>1, <1>1
  <2>2. ASSUME NEW k \in 1 .. N, k - 1 \in S PROVE k \in S
    <3>1. PICK f : Runs(f, k - 1)
      BY <2>2
    <3> DEFINE h == [n \in 0 .. k |-> IF n = 0 THEN s ELSE Body(f[n - 1], s.order["processes"][n])]
    <3>2. \A n \in 0 .. k - 1 : h[n] = f[n]
      BY <3>1, <1>1 DEF Runs
    <3> HIDE DEF h
    <3>3. \A n \in 1 .. k : n - 1 \in 0 .. k - 1
      BY <1>1
    <3>4. \A n \in 0 .. k : n # 0 => h[n - 1] = f[n - 1]
      BY <3>2, <3>3, <1>1
    <3>5. Runs(h, k)
      BY <3>4 DEF Runs, h
    <3> QED BY <3>5
  <2> HIDE DEF S
  <2>3. \A k \in 0 .. N : k \in S
    BY <2>1, <2>2, <1>1, Induction
  <2> QED BY <2>3, <1>1 DEF S, after
<1> QED BY <1>1, <1>3 DEF Runs


\* The exchanges of a process that is listed are restated once.
Restated(s, t, a) ==
  \A p : Exchanges(a, p) = (IF \E i \in 1 .. Len(s.order["processes"]) : s.order["processes"][i] = p
                            THEN Restatement(t, Exchanges(s, p)) ELSE Exchanges(s, p))

LEMMA AmountsKeep ==
  ASSUME NEW s, Sound(s)
  PROVE  LET a == NormalizeAmounts(s) IN
         /\ Sound(a) /\ a.entities = s.entities /\ a.order = s.order
         /\ a.ok => s.ok /\ Restated(s, s, a)
<1> DEFINE q == s.order["processes"]
           N == Len(q)
<1>1. N \in Nat
  BY TypesAssumption, ListLength DEF Sound, IsStore
<1>2. PICK t : /\ t[0] = s
               /\ \A k \in 1 .. N : t[k] = NormalizeProcess(t[k - 1], s, q[k])
               /\ NormalizeAmounts(s) = t[N]
  BY <1>1, AmountsStep
<1>3. \A i, j \in 1 .. N : q[i] = q[j] => i = j
  BY TypesAssumption DEF Sound, OrderListsEntities
<1> HIDE DEF q, N
<1> DEFINE Before(k, p) == \E i \in 1 .. k : q[i] = p
           Kept(k) == /\ Sound(t[k]) /\ t[k].entities = s.entities /\ t[k].order = s.order
                      /\ t[k].ok =>
                           /\ s.ok
                           /\ \A p : /\ Before(k, p) =>
                                          Exchanges(t[k], p) = Restatement(s, Exchanges(s, p))
                                     /\ ~Before(k, p) => Exchanges(t[k], p) = Exchanges(s, p)
           S == {k \in 0 .. N : Kept(k)}
<1>4. 0 \in S
  <2>1. \A p : ~Before(0, p)
    OBVIOUS
  <2> QED BY <1>1, <1>2, <2>1
<1>5. ASSUME NEW k \in 1 .. N, k - 1 \in S PROVE k \in S
  <2>1. Kept(k - 1)
    BY <1>5
  <2>2. /\ Sound(t[k]) /\ t[k].entities = s.entities /\ t[k].order = s.order
        /\ t[k].ok =>
             /\ t[k - 1].ok
             /\ Exchanges(t[k], q[k]) = Restatement(s, Exchanges(t[k - 1], q[k]))
             /\ \A o : o # q[k] => Exchanges(t[k], o) = Exchanges(t[k - 1], o)
    BY <1>2, <2>1, NormalizedParts
  <2>3. /\ \A p : Before(k, p) <=> Before(k - 1, p) \/ p = q[k]
        /\ ~Before(k - 1, q[k])
    <3>1. \A i : i \in 1 .. k <=> i \in 1 .. k - 1 \/ i = k
      BY <1>1
    <3>2. \A i \in 1 .. k - 1 : i \in 1 .. N /\ i # k
      BY <1>1
    <3> QED BY <3>1, <3>2, <1>3
  <2> HIDE DEF Before
  <2>4. Kept(k)
    BY <2>1, <2>2, <2>3
  <2> QED BY <2>4
<1> HIDE DEF S, Kept
<1>6. \A k \in 0 .. N : k \in S
  BY <1>1, <1>4, <1>5, Induction
<1>7. Kept(N)
  BY <1>1, <1>6 DEF S
<1> QED BY <1>2, <1>7 DEF Kept, Restated, N, q
-----------------------------------------------------------------------------
(* Items *)

\* A process that carries its exchanges.
LEMMA ProcessSound ==
  ASSUME NEW s, Sound(s), NEW e, NEW exchanges, Len(exchanges) \in Nat
  PROVE  Sound(AddProcess(s, e, exchanges))
<1>1. Sound(BeginExchanges(s, e.id))
  BY BeginParts
<1>2. Sound(AddExchanges(BeginExchanges(s, e.id), e.id, exchanges))
  BY <1>1, ExchangesKeep
<1> QED BY <1>2, AddSound DEF AddProcess

\* A flow and what it needs.
LEMMA FlowSound == ASSUME NEW s, Sound(s), NEW e PROVE Sound(AddFlow(s, e))
<1>1. Sound(AddUnitsFor(s, e))
  BY AddSound DEF AddUnitsFor
<1> QED BY <1>1, AddSound DEF AddFlow

LEMMA JsonLdSound ==
  ASSUME NEW s, Sound(s), NEW item, item.kind = "jsonld", HasLists(item)
  PROVE  Sound(ReadJsonLd(s, item))
<1> DEFINE e == JsonLdEntity(item)
<1>1. \/ ReadJsonLd(s, item) = s
      \/ ReadJsonLd(s, item) = AddFlow(s, e)
      \/ /\ e.type = "processes" /\ JsonLdType(item) # Nothing
         /\ ReadJsonLd(s, item) = AddProcess(s, e, item.exchanges)
      \/ ReadJsonLd(s, item) = Add(s, e)
  BY DEF ReadJsonLd
<1>2. e.type = "processes" /\ JsonLdType(item) # Nothing => item.type = "Process"
  <2>1. e.type = JsonLdType(item)
    BY DEF JsonLdEntity, Entity
  <2> QED BY <2>1 DEF JsonLdType
<1>3. item.type = "Process" => Len(item.exchanges) \in Nat
  BY ListLength DEF HasLists
<1> HIDE DEF e
<1> QED BY <1>1, <1>2, <1>3, FlowSound, ProcessSound, AddSound

LEMMA IlcdSound ==
  ASSUME NEW s, Sound(s), NEW item, item.kind = "ilcd", HasLists(item)
  PROVE  Sound(ReadIlcd(s, item))
<1>1. \/ \E e : ReadIlcd(s, item) = Add(s, e)
      \/ item.type = "processes" /\ \E e : ReadIlcd(s, item) = AddProcess(s, e, item.exchanges)
  BY DEF ReadIlcd
<1>2. item.type = "processes" => Len(item.exchanges) \in Nat
  BY ListLength DEF HasLists
<1> QED BY <1>1, <1>2, ProcessSound, AddSound

LEMMA SimaproFound ==
  ASSUME NEW s, NEW g, StoreInv(s, g), NEW item, item.kind = "simapro", HasLists(item)
  PROVE  StoreInv(ReadSimapro(s, item), g)
<1> DEFINE e == Entity("processes", StableId(<<"simapro/process", item.source, item.index, item.name>>),
                       Nothing, PlainProcess)
           begun == BeginExchanges(s, e.id)
           after == SimaproSections(begun, item, e.id, Sections(item))
<1>1. ReadSimapro(s, item) = Add(after, e) /\ e.type = "processes"
  BY DEF ReadSimapro, Entity
<1> HIDE DEF e
<1>2. StoreInv(begun, g)
  BY BeginFound
<1>3. Rowed(Sections(item))
  <2>1. IsList(item.sections) /\ \A i \in 1 .. Len(item.sections) : IsList(item.sections[i].rows)
    BY DEF HasLists
  <2> QED BY <2>1, ListLength, SectionsRowed
<1>4. /\ Len(Sections(item)) \in Nat
      /\ \A k \in 1 .. Len(Sections(item)) : Len(Sections(item)[k].rows) \in Nat
  BY <1>3, ListLength DEF Rowed
<1> HIDE DEF begun
<1>5. StoreInv(after, g)
  BY <1>2, <1>4, SectionsKeep
<1> HIDE DEF after
<1> QED BY <1>1, <1>5, AddFound

LEMMA WorkbookFound ==
  ASSUME NEW s, NEW g, StoreInv(s, g), NEW item, item.kind = "xlsx", HasLists(item)
  PROVE  StoreInv(ReadWorkbook(s, item), g)
<1> DEFINE e == Entity("processes", Or(item.uuid, StableId(<<"xlsx/process", item.source>>)),
                       item.uuid, PlainProcess)
           begun == BeginExchanges(s, e.id)
           flows == WorkbookFlows(begun, item)
           outputs == WorkbookExchanges(flows, item, e.id, FALSE, item.outputs)
           inputs == WorkbookExchanges(outputs, item, e.id, TRUE, item.inputs)
<1>1. ReadWorkbook(s, item) = Add(inputs, e) /\ e.type = "processes"
  BY DEF ReadWorkbook, Entity
<1>2. Len(item.flows) \in Nat /\ Len(item.outputs) \in Nat /\ Len(item.inputs) \in Nat
  BY ListLength DEF HasLists
<1> HIDE DEF e
<1>3. StoreInv(begun, g)
  BY BeginFound
<1> HIDE DEF begun
<1>4. StoreInv(flows, g)
  BY <1>2, <1>3, WorkbookFlowsKeep
<1> HIDE DEF flows
<1>5. StoreInv(outputs, g)
  BY <1>2, <1>4, WorkbookExchangesKeep
<1> HIDE DEF outputs
<1>6. StoreInv(inputs, g)
  BY <1>2, <1>5, WorkbookExchangesKeep
<1> HIDE DEF inputs
<1> QED BY <1>1, <1>6, AddFound

LEMMA EcospoldFound ==
  ASSUME NEW s, NEW g, StoreInv(s, g), NEW item, item.kind = "ecospold", HasLists(item)
  PROVE  StoreInv(ReadEcospold(s, item), g)
<1> DEFINE preferred == Or(item.id, StableId(<<"ecospold/process", item.source, item.name>>))
           e == Entity("processes", UniqueProcessId(s, item, preferred), item.id, PlainProcess)
           sources == EcospoldSources(s, item.sources)
           begun == BeginExchanges(sources, e.id)
           after == EcospoldExchanges(begun, e.id, item.exchanges)
<1>1. ReadEcospold(s, item) = Add(after, e) /\ e.type = "processes"
  BY DEF ReadEcospold, Entity
<1>2. Len(item.sources) \in Nat /\ Len(item.exchanges) \in Nat
  BY ListLength DEF HasLists
<1> HIDE DEF preferred, e
<1>3. StoreInv(sources, g)
  BY <1>2, EcospoldSourcesKeep
<1> HIDE DEF sources
<1>4. StoreInv(begun, g)
  BY <1>3, BeginFound
<1> HIDE DEF begun
<1>5. StoreInv(after, g)
  BY <1>2, <1>4, EcospoldExchangesKeep
<1> HIDE DEF after
<1> QED BY <1>1, <1>5, AddFound

\* The formats that make their flows of the exchanges.
Generated(kind) == kind \in {"simapro", "xlsx", "ecospold"}

LEMMA ItemKeeps ==
  ASSUME NEW kind \in Importable, NEW s, StoreInv(s, Generated(kind)), NEW item, HasLists(item)
  PROVE  StoreInv(ReadItem(s, kind, item), Generated(kind))
<1>1. CASE item.kind # kind
  BY <1>1 DEF ReadItem
<1>2. CASE item.kind = kind /\ kind = "jsonld"
  BY <1>2, JsonLdSound DEF ReadItem, StoreInv, Generated
<1>3. CASE item.kind = kind /\ kind = "ilcd"
  BY <1>3, IlcdSound DEF ReadItem, StoreInv, Generated
<1> HIDE DEF Generated
<1>4. CASE item.kind = kind /\ kind = "simapro"
  BY <1>4, SimaproFound DEF ReadItem
<1>5. CASE item.kind = kind /\ kind = "xlsx"
  BY <1>5, WorkbookFound DEF ReadItem
<1>6. CASE item.kind = kind /\ kind = "ecospold"
  BY <1>6, EcospoldFound DEF ReadItem
<1> QED BY <1>1, <1>2, <1>3, <1>4, <1>5, <1>6 DEF Importable

\* The items of an entry.
LEMMA ItemsKeep ==
  ASSUME NEW kind \in Importable, NEW s, StoreInv(s, Generated(kind)), NEW items,
         Len(items) \in Nat,
         \A k \in 1 .. Len(items) : HasLists(items[k])
  PROVE  StoreInv(ReadItems(s, kind, items), Generated(kind))
<1> DEFINE N == Len(items)
           Body(t, x) == ReadItem(t, kind, x)
           Runs(f, k) == f = [n \in 0 .. k |-> IF n = 0 THEN s ELSE Body(f[n - 1], items[n])]
           after == CHOOSE f : Runs(f, N)
<1>1. \A t : \A k \in 1 .. N : StoreInv(t, Generated(kind)) => StoreInv(Body(t, items[k]), Generated(kind))
  BY ItemKeeps
<1>2. N \in Nat /\ ReadItems(s, kind, items) = after[N]
  BY DEF ReadItems, ForEach
<1> HIDE DEF N, Body, Runs, after
<1>3. Runs(after, N)
  <2> DEFINE S == {k \in 0 .. N : \E f : Runs(f, k)}
  <2>1. 0 \in S
    <3>1. Runs([n \in 0 .. 0 |-> s], 0)
      BY DEF Runs
    <3> QED BY <3>1, <1>2
  <2>2. ASSUME NEW k \in 1 .. N, k - 1 \in S PROVE k \in S
    <3>1. PICK f : Runs(f, k - 1)
      BY <2>2
    <3> DEFINE h == [n \in 0 .. k |-> IF n = 0 THEN s ELSE Body(f[n - 1], items[n])]
    <3>2. \A n \in 0 .. k - 1 : h[n] = f[n]
      BY <3>1, <1>2 DEF Runs
    <3> HIDE DEF h
    <3>3. \A n \in 1 .. k : n - 1 \in 0 .. k - 1
      BY <1>2
    <3>4. \A n \in 0 .. k : n # 0 => h[n - 1] = f[n - 1]
      BY <3>2, <3>3, <1>2
    <3>5. Runs(h, k)
      BY <3>4 DEF Runs, h
    <3> QED BY <3>5
  <2> HIDE DEF S
  <2>3. \A k \in 0 .. N : k \in S
    BY <2>1, <2>2, <1>2, Induction
  <2> QED BY <2>3, <1>2 DEF S, after
<1>4. N \in {k \in 0 .. N : StoreInv(after[k], Generated(kind))}
  <2> DEFINE S == {k \in 0 .. N : StoreInv(after[k], Generated(kind))}
  <2>1. after[0] = s /\ \A k \in 1 .. N : after[k] = Body(after[k - 1], items[k])
    BY <1>2, <1>3 DEF Runs
  <2>2. 0 \in S
    BY <2>1, <1>2
  <2>3. ASSUME NEW k \in 1 .. N, k - 1 \in S PROVE k \in S
    BY <2>1, <2>3, <1>1
  <2> HIDE DEF S
  <2>4. \A k \in 0 .. N : k \in S
    BY <2>2, <2>3, <1>2, Induction
  <2> QED BY <2>4, <1>2 DEF S
<1> QED BY <1>2, <1>4

\* What the JSON-LD adapter does after its objects.
LEMMA FinishedParts ==
  ASSUME NEW s, Sound(s)
  PROVE  LET resolved == ResolveQuality(ResolveLocations(s))
             a == AddProviderGraph(NormalizeAmounts(resolved))
         IN /\ Sound(a) /\ SameCatalog(s, resolved) /\ SameCatalog(s, a)
            /\ a.ok => s.ok /\ Restated(s, resolved, a)
<1> DEFINE located == ResolveLocations(s)
           rated == RateProcesses(located)
           resolved == ResolveQuality(located)
           normalized == NormalizeAmounts(resolved)
           a == AddProviderGraph(normalized)
<1>1. ProcessesKept(s, located)
  BY LocationsKeep
<1>2. ProcessesKept(located, rated)
  BY <1>1, QualityKeeps DEF ProcessesKept
<1>3. ProcessesKept(rated, resolved)
  <2>1. resolved = RemoveType(rated, "dqsystems")
    BY DEF ResolveQuality
  <2> HIDE DEF located, rated, resolved
  <2>2. "dqsystems" \notin Catalog
    BY DEF Catalog
  <2> QED BY <2>1, <2>2, <1>2, RemoveSound, RemoveElsewhere DEF ProcessesKept
<1> HIDE DEF located, rated, resolved
<1>4. ProcessesKept(s, resolved)
  BY <1>1, <1>2, <1>3 DEF ProcessesKept, SameCatalog
<1>5. /\ Sound(normalized) /\ SameCatalog(resolved, normalized)
      /\ normalized.ok => resolved.ok /\ Restated(resolved, resolved, normalized)
  BY <1>4, AmountsKeep DEF ProcessesKept, SameCatalog, Get, Has
<1> HIDE DEF normalized
<1>6. /\ Sound(a) /\ SameCatalog(normalized, a) /\ a.exchanges = normalized.exchanges
      /\ a.ok => normalized.ok
  <2> DEFINE e == Entity("lifecyclemodels", StableId(<<"lifecyclemodel">>), Nothing,
                         [processes |-> normalized.order["processes"],
                          connections |-> Connections(normalized)])
  <2>1. a = normalized \/ a = Add(normalized, e)
    BY DEF AddProviderGraph
  <2>2. e.type \notin Catalog
    BY DEF Entity, Catalog
  <2> HIDE DEF a, e
  <2>3. CASE a = normalized
    BY <2>3, <1>5 DEF SameCatalog
  <2>4. CASE a = Add(normalized, e)
    BY <2>2, <2>4, <1>5, AddSound, AddKeeps, AddElsewhere DEF Sound
  <2> QED BY <2>1, <2>3, <2>4
<1> HIDE DEF a
<1>7. SameCatalog(s, resolved) /\ SameCatalog(s, a)
  BY <1>4, <1>5, <1>6 DEF ProcessesKept, SameCatalog
<1>8. a.ok => s.ok /\ Restated(s, resolved, a)
  BY <1>4, <1>5, <1>6 DEF ProcessesKept, Restated, Exchanges
<1> QED BY <1>6, <1>7, <1>8 DEF a, normalized, resolved, located
-----------------------------------------------------------------------------
(* The import *)

\* The store, and what reading it relies on.
ImportInv ==
  /\ source \in Sources
  /\ entry \in Nat
  /\ pc = "start" => store = EmptyStore
  /\ pc = "read" => format \in Importable
  /\ StoreInv(store, Generated(format))

LEMMA ReadKeeps ==
  ASSUME ImportInv, pc = "read", NEW items, Len(items) \in Nat,
         \A k \in 1 .. Len(items) : HasLists(items[k]), Read(items)
  PROVE  ImportInv'
<1> DEFINE after == ReadItems(store, format, items)
<1>1. StoreInv(after, Generated(format))
  BY ItemsKeep DEF ImportInv
<1>2. \/ store' = after /\ entry' = entry + 1 /\ UNCHANGED <<input, pc, format>>
      \/ pc' = "done" /\ UNCHANGED <<input, core>>
  BY DEF Read, Fail
<1> HIDE DEF after
<1>3. CASE store' = after /\ entry' = entry + 1 /\ UNCHANGED <<input, pc, format>>
  <2>1. StoreInv(store', Generated(format'))
    BY <1>1, <1>3
  <2> QED BY <2>1, <1>3 DEF ImportInv, input
<1>4. CASE pc' = "done" /\ UNCHANGED <<input, core>>
  BY <1>4 DEF ImportInv, input, core, StoreInv, Sound, FlowsFound, Measured, IsStore,
              PointersNamed, OrderListsEntities, PointersLead, Has
<1> QED BY <1>2, <1>3, <1>4

LEMMA ImportInvariance == Spec => []ImportInv
<1>1. Init => ImportInv
  BY EmptyFound DEF Init, ImportInv
<1>2. ASSUME ImportInv, [Next]_vars PROVE ImportInv'
  <2>1. ASSUME UNCHANGED <<input, core>>, pc' \notin {"start", "read"} PROVE ImportInv'
    <3>1. /\ source' = source /\ entry' = entry /\ store' = store /\ format' = format
      BY <2>1 DEF input, core
    <3>2. StoreInv(store', Generated(format'))
      BY <1>2, <3>1 DEF ImportInv
    <3> QED BY <1>2, <2>1, <3>1, <3>2 DEF ImportInv
  <2>2. ASSUME UNCHANGED <<input, core, pc>> PROVE ImportInv'
    <3>1. source' = source /\ entry' = entry /\ store' = store /\ format' = format /\ pc' = pc
      BY <2>2 DEF input, core
    <3>2. StoreInv(store', Generated(format'))
      BY <1>2, <3>1 DEF ImportInv
    <3> QED BY <1>2, <3>1, <3>2 DEF ImportInv
  <2>3. ASSUME NEW why, Fail(why) PROVE ImportInv'
    BY <2>3, <2>1 DEF Fail
  <2>4. CASE Cancel
    BY <2>4, <2>2 DEF Cancel
  <2>5. CASE Start
    <3>1. \/ \E why : Fail(why)
          \/ /\ pc = "start" /\ pc' = "read" /\ format' \in Importable
             /\ UNCHANGED <<input, entry, store>>
      BY <2>5 DEF Start, Stops, Continues
    <3>2. CASE /\ pc = "start" /\ pc' = "read" /\ format' \in Importable
               /\ UNCHANGED <<input, entry, store>>
      <4>1. store' = EmptyStore
        BY <1>2, <3>2 DEF ImportInv
      <4>2. StoreInv(store', Generated(format'))
        BY <4>1, EmptyFound
      <4> QED BY <1>2, <3>2, <4>2 DEF ImportInv, input
    <3> QED BY <3>1, <3>2, <2>3
  <2>6. CASE ReadEntry
    <3> DEFINE e == source.entries[entry + 1]
    <3>1. /\ entry + 1 \in 1 .. Len(source.entries)
          /\ IsList(e.items) /\ \A k \in 1 .. Len(e.items) : HasLists(e.items[k])
      <4>1. Len(source.entries) \in Nat
        BY <1>2, SourcesAssumption, ListLength DEF ImportInv
      <4>2. entry + 1 \in 1 .. Len(source.entries)
        BY <1>2, <2>6, <4>1 DEF ImportInv, ReadEntry
      <4> QED BY <1>2, <4>2, SourcesAssumption DEF ImportInv
    <3>2. \/ \E why : Fail(why)
          \/ pc = "read" /\ (Read(<<>>) \/ Read(e.items))
      BY <2>6 DEF ReadEntry, Stops, Continues
    <3>3. Len(<<>>) = 0
      OBVIOUS
    <3> HIDE DEF e
    <3>4. Read(<<>>) /\ pc = "read" => ImportInv'
      BY <1>2, <3>3, ReadKeeps
    <3>5. Read(e.items) /\ pc = "read" => ImportInv'
      BY <1>2, <3>1, ListLength, ReadKeeps
    <3> QED BY <3>2, <3>4, <3>5, <2>3
  <2>7. CASE FinishReading
    <3> DEFINE after == IF format = "jsonld" THEN AddProviderGraph(JsonLdResolved) ELSE store
    <3>1. \/ \E why : Fail(why)
          \/ store' = after /\ pc' = "write" /\ UNCHANGED <<input, entry, format>>
      BY <2>7 DEF FinishReading
    <3>2. StoreInv(after, Generated(format))
      <4>1. CASE format = "jsonld"
        BY <1>2, <4>1, FinishedParts DEF ImportInv, StoreInv, Generated, JsonLdResolved
      <4>2. CASE format # "jsonld"
        BY <1>2, <4>2 DEF ImportInv
      <4> QED BY <4>1, <4>2
    <3> HIDE DEF after
    <3>3. CASE store' = after /\ pc' = "write" /\ UNCHANGED <<input, entry, format>>
      <4>1. StoreInv(store', Generated(format'))
        BY <3>2, <3>3
      <4> QED BY <1>2, <3>3, <4>1 DEF ImportInv, input
    <3> QED BY <3>1, <3>3, <2>3
  <2>8. CASE WriteTidas
    BY <2>8, <2>1, <2>3 DEF WriteTidas, Stops, Continues, Goes
  <2>9. CASE Validate
    BY <2>9, <2>1, <2>3 DEF Validate, Stops, Continues, Goes
  <2>10. CASE WriteIlcd
    BY <2>10, <2>1, <2>3 DEF WriteIlcd, Stops, Continues, Goes
  <2>11. CASE WriteMapping
    BY <2>11, <2>1, <2>3 DEF WriteMapping, Stops, Continues, Goes
  <2>12. CASE WriteBundles
    BY <2>12, <2>1, <2>3 DEF WriteBundles, Stops, Continues, Goes
  <2>13. CASE WriteReport
    BY <2>13, <2>1 DEF WriteReport, Goes
  <2>14. CASE Commit
    BY <2>14, <2>1, <2>3 DEF Commit, Stops, Continues
  <2>15. CASE IoFails
    BY <2>15, <2>3 DEF IoFails
  <2>16. CASE Done \/ UNCHANGED vars
    BY <2>16, <2>2 DEF Done, vars
  <2> QED
    BY <1>2, <2>4, <2>5, <2>6, <2>7, <2>8, <2>9, <2>10, <2>11, <2>12, <2>13, <2>14, <2>15, <2>16
    DEF Next, Step
<1> QED BY <1>1, <1>2, PTL DEF Spec

\* The store holds together whatever is read: an order file lists each entity
\* once and each line has its entity, and a pointer leads to an entity that has
\* that external id (store.rs:40-83, 271-284).
THEOREM StoreTheorem == Spec => []StoreSound
<1>1. ImportInv => StoreSound
  BY DEF ImportInv, StoreInv, Sound, StoreSound
<1> QED BY <1>1, ImportInvariance, PTL

\* Whatever the rows of a SimaPro, workbook or EcoSpold source, an exchange that
\* is kept has its flow in the store, and the flow the property and the unit
\* group of its unit (generated_units.rs, openlca_xlsx.rs:398-458).
THEOREM FlowsTheorem == Spec => []ExchangesFindTheirFlow
<1>1. ImportInv => ExchangesFindTheirFlow
  <2> SUFFICES ASSUME ImportInv, Generated(format), NEW p \in DOMAIN store.exchanges,
                      NEW x \in Elements(store.exchanges[p])
               PROVE  LET unit == Get(store, "flows", x.flow).raw.unit IN
                      /\ Has(store, "flows", x.flow)
                      /\ unit # Nothing => /\ Has(store, "flowproperties", FlowPropertyOf(unit))
                                             /\ Has(store, "unitgroups", UnitGroupOf(unit))
    BY DEF ExchangesFindTheirFlow, Generated
  <2>1. FlowsFound(store)
    BY DEF ImportInv, StoreInv
  <2>2. PICK i \in 1 .. Len(store.exchanges[p]) : x = store.exchanges[p][i]
    BY DEF Elements
  <2>3. Has(store, "flows", x.flow)
    BY <2>1, <2>2 DEF FlowsFound
  <2>4. Measured(store, Get(store, "flows", x.flow))
    BY <2>1, <2>3 DEF FlowsFound, Get, Has
  <2> QED BY <2>3, <2>4 DEF Measured
<1> QED BY <1>1, ImportInvariance, PTL
-----------------------------------------------------------------------------
(* What is published *)

LEMMA Concatenated ==
  ASSUME NEW a, IsList(a), NEW b, IsList(b)
  PROVE  /\ IsList(a \o b)
         /\ Len(a) \in Nat /\ Len(b) \in Nat /\ Len(a \o b) = Len(a) + Len(b)
         /\ \A i \in 1 .. Len(a) : (a \o b)[i] = a[i]
         /\ \A i \in 1 .. Len(b) : (a \o b)[Len(a) + i] = b[i]
<1> DEFINE X == {a[i] : i \in DOMAIN a} \cup {b[i] : i \in DOMAIN b}
           c == a \o b
<1>1. a \in Seq({a[i] : i \in DOMAIN a}) /\ b \in Seq({b[i] : i \in DOMAIN b})
  BY DEF IsList
<1>2. a \in Seq(X) /\ b \in Seq(X)
  BY <1>1
<1>3. Len(a) \in Nat /\ Len(b) \in Nat
  BY <1>1
<1>4. Len(c) = Len(a) + Len(b) /\ DOMAIN c = 1 .. Len(c) /\ c \in Seq(X)
  BY <1>2, <1>3
<1>5. /\ \A i \in 1 .. Len(a) : c[i] = a[i]
      /\ \A i \in 1 .. Len(b) : c[Len(a) + i] = b[i]
  BY <1>2, <1>3
<1> HIDE DEF c, X
<1>6. IsList(c)
  <2>1. c \in Seq({c[i] : i \in DOMAIN c})
    BY <1>3, <1>4
  <2> QED BY <2>1 DEF IsList
<1> QED BY <1>3, <1>4, <1>5, <1>6 DEF c

\* The entities of a type are those of its order file, in that order.
LEMMA IteratedNames ==
  ASSUME NEW s, Sound(s), NEW t \in EntityTypes
  PROVE  /\ Len(s.order[t]) \in Nat /\ Len(IterType(s, t)) = Len(s.order[t])
         /\ \A i \in 1 .. Len(s.order[t]) :
              /\ IterType(s, t)[i] = s.entities[<<t, s.order[t][i]>>]
              /\ IterType(s, t)[i].type = t /\ IterType(s, t)[i].id = s.order[t][i]
<1> DEFINE q == s.order[t]
           xs == IterType(s, t)
<1>1. Len(q) \in Nat
  BY ListLength DEF Sound, IsStore
<1>2. Len(xs) = Len(q) /\ \A i \in 1 .. Len(q) : xs[i] = Get(s, t, q[i])
  BY <1>1 DEF IterType
<1>3. \A i \in 1 .. Len(q) : Has(s, t, q[i])
  BY DEF Sound, OrderListsEntities
<1> HIDE DEF q, xs
<1>4. ASSUME NEW i \in 1 .. Len(q)
      PROVE  xs[i] = s.entities[<<t, q[i]>>] /\ xs[i].type = t /\ xs[i].id = q[i]
  <2>1. <<t, q[i]>> \in DOMAIN s.entities /\ xs[i] = s.entities[<<t, q[i]>>]
    BY <1>2, <1>3 DEF Get, Has
  <2>2. FilesNamed(s)
    BY DEF Sound
  <2> QED BY <2>1, <2>2 DEF FilesNamed
<1> QED BY <1>1, <1>2, <1>4 DEF q, xs

LEMMA Iterated ==
  ASSUME NEW s, Sound(s), NEW t \in EntityTypes
  PROVE  LET q == s.order[t]
             xs == IterType(s, t)
         IN /\ Len(q) \in Nat /\ Len(xs) = Len(q)
            /\ \A i, j \in 1 .. Len(q) : q[i] = q[j] => i = j
            /\ \A i \in 1 .. Len(q) : /\ Has(s, t, q[i]) /\ xs[i] = s.entities[<<t, q[i]>>]
                                      /\ xs[i].type = t /\ xs[i].id = q[i]
            /\ \A k \in DOMAIN s.entities :
                 k[1] = t => \E i \in 1 .. Len(q) : k = <<t, q[i]>>
<1> DEFINE q == s.order[t]
           xs == IterType(s, t)
<1>1. /\ Len(q) \in Nat /\ Len(xs) = Len(q)
      /\ \A i \in 1 .. Len(q) : xs[i] = s.entities[<<t, q[i]>>] /\ xs[i].type = t /\ xs[i].id = q[i]
  BY IteratedNames
<1>2. /\ \A i, j \in 1 .. Len(q) : q[i] = q[j] => i = j
      /\ \A i \in 1 .. Len(q) : Has(s, t, q[i])
      /\ \A k \in DOMAIN s.entities : k[1] = t => \E i \in 1 .. Len(q) : q[i] = k[2]
  BY DEF Sound, OrderListsEntities
<1> HIDE DEF q, xs
<1>3. \A k \in DOMAIN s.entities : k[1] = t => \E i \in 1 .. Len(q) : k = <<t, q[i]>>
  <2> TAKE k \in DOMAIN s.entities
  <2> HAVE k[1] = t
  <2>1. PICK i \in 1 .. Len(q) : q[i] = k[2]
    BY <1>2
  <2>2. k = <<k[1], k[2]>>
    BY DEF Sound, FilesNamed
  <2> QED BY <2>1, <2>2
<1> QED BY <1>1, <1>2, <1>3 DEF q, xs

\* A file of exchanges is a list, and so is one that is missing.
LEMMA ExchangesListed == ASSUME NEW s, Sound(s), NEW p PROVE IsList(Exchanges(s, p))
<1>1. IsList(<<>>)
  BY DEF IsList
<1> QED BY <1>1 DEF Sound, FilesNamed, Exchanges

\* The datasets of the package.
LEMMA PackageDomain ==
  ASSUME NEW s
  PROVE  /\ DOMAIN TidasPackage(s) = {k \in DOMAIN s.entities : k[1] \in Elements(Categories)} \cup Defaults
         /\ Elements(Categories) = {"contacts", "sources", "unitgroups", "flowproperties", "flows",
                                    "processes", "lifecyclemodels"}
         /\ Len(Categories) = 7
<1>1. Len(Categories) = 7
  BY DEF Categories
<1>2. 1 .. 7 = {1, 2, 3, 4, 5, 6, 7}
  OBVIOUS
<1>3. Elements(Categories) = {Categories[i] : i \in {1, 2, 3, 4, 5, 6, 7}}
  BY <1>1, <1>2 DEF Elements
<1> QED BY <1>1, <1>3 DEF TidasPackage, Categories
-----------------------------------------------------------------------------
(* The mapping table *)

\* The rows lead to the given datasets, with one identifier row for each.
Covers(rows, keys) ==
  /\ IsList(rows)
  /\ \A i \in 1 .. Len(rows) : rows[i].file \in keys
  /\ \A key \in keys : \E i \in 1 .. Len(rows) :
       /\ rows[i].about = "identifier" /\ rows[i].file = key
       /\ \A j \in 1 .. Len(rows) : rows[j].about = "identifier" /\ rows[j].file = key => j = i

\* The rows of one dataset, the first of which is its identifier.
RowsOf(rows, key) ==
  /\ IsList(rows) /\ Len(rows) >= 1 /\ rows[1].about = "identifier"
  /\ \A i \in 1 .. Len(rows) : rows[i].file = key /\ (i # 1 => rows[i].about # "identifier")

LEMMA EntityRowsOf ==
  ASSUME NEW s, NEW e, IsList(Exchanges(s, e.id))
  PROVE  RowsOf(EntityRows(s, e), <<e.type, e.id>>)
<1> DEFINE key == <<e.type, e.id>>
           first == [about |-> "identifier", file |-> key, formal |-> e.ext # Nothing]
           detail(about) == [about |-> about, file |-> key, formal |-> FALSE]
           exchange == [i \in 1 .. Len(Exchanges(s, e.id)) |-> detail("exchange")]
<1>1. \/ EntityRows(s, e) = <<first>> \o <<detail("classification")>>
      \/ EntityRows(s, e) = <<first>> \o <<detail("placeholder")>> \o exchange
      \/ EntityRows(s, e) = <<first>> \o <<detail("geography")>> \o <<detail("placeholder")>> \o exchange
      \/ EntityRows(s, e) = <<first>>
  BY DEF EntityRows
<1>2. IsList(exchange) /\ Len(exchange) = Len(Exchanges(s, e.id)) /\ Len(exchange) \in Nat
      /\ \A i \in 1 .. Len(exchange) : exchange[i].file = key /\ exchange[i].about = "exchange"
  <2>1. Len(Exchanges(s, e.id)) \in Nat
    BY ListLength
  <2> QED BY <2>1, ListMade
<1>3. first.about = "identifier" /\ first.file = key
  OBVIOUS
<1>4. \A about : detail(about).about = about /\ detail(about).file = key
  OBVIOUS
<1> HIDE DEF first, detail, exchange, key
<1>5. \A x : IsList(<<x>>) /\ Len(<<x>>) = 1 /\ <<x>>[1] = x
  BY DEF IsList
<1>6. RowsOf(<<first>>, key)
  BY <1>3, <1>5 DEF RowsOf
<1>7. ASSUME NEW a, RowsOf(a, key), NEW b, IsList(b),
             \A i \in 1 .. Len(b) : b[i].file = key /\ b[i].about # "identifier"
      PROVE  RowsOf(a \o b, key)
  <2> DEFINE c == a \o b
  <2>1. /\ IsList(c) /\ Len(a) \in Nat /\ Len(b) \in Nat /\ Len(c) = Len(a) + Len(b)
        /\ \A i \in 1 .. Len(a) : c[i] = a[i]
        /\ \A i \in 1 .. Len(b) : c[Len(a) + i] = b[i]
    BY <1>7, Concatenated DEF RowsOf
  <2> HIDE DEF c
  <2>2. \A i \in 1 .. Len(c) : i \in 1 .. Len(a) \/ i - Len(a) \in 1 .. Len(b)
    BY <2>1
  <2>3. \A i \in 1 .. Len(c) : i - Len(a) \in 1 .. Len(b) => c[i] = b[i - Len(a)]
    <3> TAKE i \in 1 .. Len(c)
    <3> HAVE i - Len(a) \in 1 .. Len(b)
    <3>1. Len(a) + (i - Len(a)) = i
      BY <2>1
    <3> DEFINE j == i - Len(a)
    <3>2. j \in 1 .. Len(b) /\ Len(a) + j = i
      BY <3>1
    <3> HIDE DEF j
    <3>3. c[i] = b[j]
      BY <2>1, <3>2
    <3> QED BY <3>3 DEF j
  <2>4. ASSUME NEW i \in 1 .. Len(c)
        PROVE  c[i].file = key /\ (i # 1 => c[i].about # "identifier")
    <3>1. CASE i \in 1 .. Len(a)
      <4>1. c[i] = a[i]
        BY <2>1, <3>1
      <4> QED BY <4>1, <3>1, <1>7 DEF RowsOf
    <3>2. CASE i \notin 1 .. Len(a)
      <4>1. i - Len(a) \in 1 .. Len(b) /\ i \in 1 .. Len(c)
        BY <2>1, <3>2
      <4>2. c[i] = b[i - Len(a)]
        BY <2>3, <4>1
      <4> QED BY <4>1, <4>2, <1>7
    <3> QED BY <3>1, <3>2
  <2>5. c[1].about = "identifier" /\ Len(c) >= 1
    BY <2>1, <1>7 DEF RowsOf
  <2> QED BY <2>1, <2>4, <2>5 DEF RowsOf, c
<1>8. \A about : about # "identifier" => RowsOf(<<first>> \o <<detail(about)>>, key)
  BY <1>4, <1>5, <1>6, <1>7
<1>9. RowsOf(<<first>> \o <<detail("placeholder")>> \o exchange, key)
  BY <1>2, <1>7, <1>8
<1>10. RowsOf(<<first>> \o <<detail("geography")>> \o <<detail("placeholder")>> \o exchange, key)
  <2>1. RowsOf(<<first>> \o <<detail("geography")>>, key)
    BY <1>8
  <2>2. RowsOf(<<first>> \o <<detail("geography")>> \o <<detail("placeholder")>>, key)
    BY <2>1, <1>4, <1>5, <1>7
  <2> QED BY <2>2, <1>2, <1>7
<1> QED BY <1>1, <1>6, <1>8, <1>9, <1>10 DEF key

LEMMA CoversMore ==
  ASSUME NEW rows, NEW keys, Covers(rows, keys), NEW key, key \notin keys,
         NEW more, RowsOf(more, key)
  PROVE  Covers(rows \o more, keys \cup {key})
<1> DEFINE c == rows \o more
<1>1. /\ IsList(c) /\ Len(rows) \in Nat /\ Len(more) \in Nat /\ Len(c) = Len(rows) + Len(more)
      /\ \A i \in 1 .. Len(rows) : c[i] = rows[i]
      /\ \A i \in 1 .. Len(more) : c[Len(rows) + i] = more[i]
  BY Concatenated DEF RowsOf, Covers
<1> HIDE DEF c
<1>2. ASSUME NEW i \in 1 .. Len(c)
      PROVE  \/ i \in 1 .. Len(rows) /\ c[i] = rows[i] /\ c[i].file \in keys
             \/ /\ i = Len(rows) + 1 /\ c[i].about = "identifier" /\ c[i].file = key
             \/ c[i].file = key /\ c[i].about # "identifier"
  <2>1. CASE i \in 1 .. Len(rows)
    BY <2>1, <1>1 DEF Covers
  <2>2. CASE i \notin 1 .. Len(rows)
    <3>1. PICK j \in 1 .. Len(more) : i = Len(rows) + j
      <4>1. i - Len(rows) \in 1 .. Len(more) /\ i = Len(rows) + (i - Len(rows))
        BY <2>2, <1>1
      <4> QED BY <4>1
    <3>2. c[i] = more[j]
      BY <3>1, <1>1
    <3> QED BY <3>1, <3>2 DEF RowsOf
  <2> QED BY <2>1, <2>2
<1>3. ASSUME NEW k \in keys \cup {key}
      PROVE  \E i \in 1 .. Len(c) :
               /\ c[i].about = "identifier" /\ c[i].file = k
               /\ \A j \in 1 .. Len(c) : c[j].about = "identifier" /\ c[j].file = k => j = i
  <2>1. CASE k = key
    <3>1. Len(rows) + 1 \in 1 .. Len(c) /\ c[Len(rows) + 1] = more[1]
      BY <1>1 DEF RowsOf
    <3>2. c[Len(rows) + 1].about = "identifier" /\ c[Len(rows) + 1].file = k
      BY <2>1, <3>1, <1>1 DEF RowsOf
    <3>3. \A j \in 1 .. Len(c) : c[j].about = "identifier" /\ c[j].file = k => j = Len(rows) + 1
      BY <2>1, <1>2
    <3> QED BY <3>1, <3>2, <3>3
  <2>2. CASE k # key
    <3>1. PICK i \in 1 .. Len(rows) :
            /\ rows[i].about = "identifier" /\ rows[i].file = k
            /\ \A j \in 1 .. Len(rows) : rows[j].about = "identifier" /\ rows[j].file = k => j = i
      BY <2>2 DEF Covers
    <3>2. i \in 1 .. Len(c) /\ c[i] = rows[i]
      BY <1>1
    <3>3. \A j \in 1 .. Len(c) : c[j].about = "identifier" /\ c[j].file = k => j = i
      BY <2>2, <3>1, <1>2
    <3> QED BY <3>1, <3>2, <3>3
  <2> QED BY <2>1, <2>2
<1> QED BY <1>1, <1>2, <1>3 DEF Covers, c

\* The rows of a category, one identifier for each entity of it.
LEMMA CategoryCovered ==
  ASSUME NEW s, Sound(s), NEW type \in EntityTypes, NEW rows, NEW keys, Covers(rows, keys),
         \A key \in keys : key[1] # type
  PROVE  Covers(CategoryRows(s, rows, type), keys \cup {k \in DOMAIN s.entities : k[1] = type})
<1>0. /\ Len(s.order[type]) \in Nat /\ Len(IterType(s, type)) = Len(s.order[type])
      /\ \A i \in 1 .. Len(s.order[type]) :
           /\ IterType(s, type)[i] = s.entities[<<type, s.order[type][i]>>]
           /\ IterType(s, type)[i].type = type /\ IterType(s, type)[i].id = s.order[type][i]
  BY IteratedNames
<1> DEFINE N == Len(IterType(s, type))
           Body(t, x) == t \o EntityRows(s, x)
           Runs(f, k) == f = [n \in 0 .. k |-> IF n = 0 THEN rows ELSE Body(f[n - 1], IterType(s, type)[n])]
           after == CHOOSE f : Runs(f, N)
           Inv(t, k) == Covers(t, keys \cup {<<type, s.order[type][j]>> : j \in 1 .. k})
<1>1. \A t : \A k \in 1 .. N : Inv(t, k - 1) => Inv(Body(t, IterType(s, type)[k]), k)
  <2> SUFFICES ASSUME NEW t, NEW k \in 1 .. N, Inv(t, k - 1)
               PROVE  Inv(t \o EntityRows(s, IterType(s, type)[k]), k)
    OBVIOUS
  <2> DEFINE q == s.order[type]
             e == IterType(s, type)[k]
             before == keys \cup {<<type, q[j]>> : j \in 1 .. k - 1}
  <2>1. /\ N = Len(q) /\ N \in Nat /\ e.type = type /\ e.id = q[k]
        /\ \A i, j \in 1 .. N : q[i] = q[j] => i = j
    <3>1. Sound(s) /\ type \in EntityTypes
      OBVIOUS
    <3>2. /\ Len(q) \in Nat /\ N = Len(q)
          /\ \A i, j \in 1 .. Len(q) : q[i] = q[j] => i = j
      BY <3>1, Iterated
    <3>4. e.type = type /\ e.id = q[k]
      <4>1. k \in 1 .. Len(q)
        BY <3>2
      <4> QED BY <1>0, <4>1
    <3> HIDE DEF N, q, e
    <3> QED BY <3>2, <3>4
  <2>2. Covers(t, before)
    OBVIOUS
  <2> HIDE DEF N, q, e
  <2>3. <<type, q[k]>> \notin before
    BY <2>1
  <2>4. before \cup {<<type, q[k]>>} = keys \cup {<<type, q[j]>> : j \in 1 .. k}
    BY <2>1
  <2>5. RowsOf(EntityRows(s, e), <<type, q[k]>>)
    BY <2>1, EntityRowsOf, ExchangesListed
  <2> HIDE DEF before
  <2>6. Covers(t \o EntityRows(s, e), before \cup {<<type, q[k]>>})
    BY <2>2, <2>3, <2>5, CoversMore
  <2> QED BY <2>4, <2>6 DEF e, q
<1>2. N \in Nat /\ CategoryRows(s, rows, type) = after[N]
  BY Iterated DEF CategoryRows, ForEach
<1>3. Inv(rows, 0)
  <2>1. {<<type, s.order[type][j]>> : j \in 1 .. 0} = {}
    OBVIOUS
  <2> QED BY <2>1
<1>4. Inv(after[N], N) => Covers(after[N], keys \cup {k \in DOMAIN s.entities : k[1] = type})
  <2>1. {<<type, s.order[type][j]>> : j \in 1 .. N} = {k \in DOMAIN s.entities : k[1] = type}
    BY Iterated DEF Has
  <2> QED BY <2>1
<1> HIDE DEF N, Body, Runs, after, Inv
<1>5. Runs(after, N)
  <2> DEFINE S == {k \in 0 .. N : \E f : Runs(f, k)}
  <2>1. 0 \in S
    <3>1. Runs([n \in 0 .. 0 |-> rows], 0)
      BY DEF Runs
    <3> QED BY <3>1, <1>2
  <2>2. ASSUME NEW k \in 1 .. N, k - 1 \in S PROVE k \in S
    <3>1. PICK f : Runs(f, k - 1)
      BY <2>2
    <3> DEFINE h == [n \in 0 .. k |-> IF n = 0 THEN rows ELSE Body(f[n - 1], IterType(s, type)[n])]
    <3>2. \A n \in 0 .. k - 1 : h[n] = f[n]
      BY <3>1, <1>2 DEF Runs
    <3> HIDE DEF h
    <3>3. \A n \in 1 .. k : n - 1 \in 0 .. k - 1
      BY <1>2
    <3>4. \A n \in 0 .. k : n # 0 => h[n - 1] = f[n - 1]
      BY <3>2, <3>3, <1>2
    <3>5. Runs(h, k)
      BY <3>4 DEF Runs, h
    <3> QED BY <3>5
  <2> HIDE DEF S
  <2>3. \A k \in 0 .. N : k \in S
    BY <2>1, <2>2, <1>2, Induction
  <2> QED BY <2>3, <1>2 DEF S, after
<1>6. Inv(after[N], N)
  <2> DEFINE S == {k \in 0 .. N : Inv(after[k], k)}
  <2>1. after[0] = rows /\ \A k \in 1 .. N : after[k] = Body(after[k - 1], IterType(s, type)[k])
    BY <1>2, <1>5 DEF Runs
  <2>2. 0 \in S
    BY <2>1, <1>2, <1>3
  <2>3. ASSUME NEW k \in 1 .. N, k - 1 \in S PROVE k \in S
    BY <2>1, <2>3, <1>1
  <2> HIDE DEF S
  <2>4. \A k \in 0 .. N : k \in S
    BY <2>2, <2>3, <1>2, Induction
  <2> QED BY <2>4, <1>2 DEF S
<1> QED BY <1>2, <1>4, <1>6

\* The rows of all categories.
LEMMA TableCovers ==
  ASSUME NEW s, Sound(s)
  PROVE  Covers(MappingRows(s), {k \in DOMAIN s.entities : k[1] \in Elements(Categories)})
<1> DEFINE N == Len(Categories)
           Body(t, x) == CategoryRows(s, t, x)
           Runs(f, k) == f = [n \in 0 .. k |-> IF n = 0 THEN <<>> ELSE Body(f[n - 1], Categories[n])]
           after == CHOOSE f : Runs(f, N)
           Inv(t, k) == Covers(t, {key \in DOMAIN s.entities : \E j \in 1 .. k : key[1] = Categories[j]})
<1>1. \A t : \A k \in 1 .. N : Inv(t, k - 1) => Inv(Body(t, Categories[k]), k)
  <2> SUFFICES ASSUME NEW t, NEW k \in 1 .. 7, Inv(t, k - 1)
               PROVE  Inv(CategoryRows(s, t, Categories[k]), k)
    BY PackageDomain
  <2> DEFINE type == Categories[k]
             before == {key \in DOMAIN s.entities : \E j \in 1 .. k - 1 : key[1] = Categories[j]}
             now == {key \in DOMAIN s.entities : key[1] = type}
  <2>1. \A i, j \in 1 .. 7 : Categories[i] = Categories[j] => i = j
    BY DEF Categories
  <2>2. type \in EntityTypes
    <3>1. type \in Elements(Categories)
      BY PackageDomain DEF Elements
    <3> HIDE DEF type
    <3> QED BY <3>1, PackageDomain, TypesAssumption
  <2>3. \A key \in before : key[1] # type
    BY <2>1
  <2>4. before \cup now = {key \in DOMAIN s.entities : \E j \in 1 .. k : key[1] = Categories[j]}
    <3>1. \A j \in 1 .. k : j \in 1 .. k - 1 \/ j = k
      OBVIOUS
    <3>2. \A j \in 1 .. k - 1 : j \in 1 .. k
      OBVIOUS
    <3> QED BY <3>1, <3>2
  <2>5. Covers(t, before)
    OBVIOUS
  <2> HIDE DEF before, type
  <2>6. Covers(CategoryRows(s, t, type), before \cup now)
    BY <2>2, <2>3, <2>5, CategoryCovered
  <2> QED BY <2>4, <2>6 DEF type
<1>2. N \in Nat /\ MappingRows(s) = after[N]
  BY PackageDomain DEF MappingRows, ForEach
<1>3. Inv(<<>>, 0)
  <2>1. {key \in DOMAIN s.entities : \E j \in 1 .. 0 : key[1] = Categories[j]} = {}
    OBVIOUS
  <2>2. IsList(<<>>) /\ Len(<<>>) = 0
    BY DEF IsList
  <2> QED BY <2>1, <2>2 DEF Covers
<1>4. Inv(after[N], N) => Covers(after[N], {k \in DOMAIN s.entities : k[1] \in Elements(Categories)})
  <2>1. {key \in DOMAIN s.entities : \E j \in 1 .. N : key[1] = Categories[j]}
          = {k \in DOMAIN s.entities : k[1] \in Elements(Categories)}
    BY DEF Elements
  <2> QED BY <2>1
<1> HIDE DEF N, Body, Runs, after, Inv
<1>5. Runs(after, N)
  <2> DEFINE S == {k \in 0 .. N : \E f : Runs(f, k)}
  <2>1. 0 \in S
    <3>1. Runs([n \in 0 .. 0 |-> <<>>], 0)
      BY DEF Runs
    <3> QED BY <3>1, <1>2
  <2>2. ASSUME NEW k \in 1 .. N, k - 1 \in S PROVE k \in S
    <3>1. PICK f : Runs(f, k - 1)
      BY <2>2
    <3> DEFINE h == [n \in 0 .. k |-> IF n = 0 THEN <<>> ELSE Body(f[n - 1], Categories[n])]
    <3>2. \A n \in 0 .. k - 1 : h[n] = f[n]
      BY <3>1, <1>2 DEF Runs
    <3> HIDE DEF h
    <3>3. \A n \in 1 .. k : n - 1 \in 0 .. k - 1
      BY <1>2
    <3>4. \A n \in 0 .. k : n # 0 => h[n - 1] = f[n - 1]
      BY <3>2, <3>3, <1>2
    <3>5. Runs(h, k)
      BY <3>4 DEF Runs, h
    <3> QED BY <3>5
  <2> HIDE DEF S
  <2>3. \A k \in 0 .. N : k \in S
    BY <2>1, <2>2, <1>2, Induction
  <2> QED BY <2>3, <1>2 DEF S, after
<1>6. Inv(after[N], N)
  <2> DEFINE S == {k \in 0 .. N : Inv(after[k], k)}
  <2>1. after[0] = <<>> /\ \A k \in 1 .. N : after[k] = Body(after[k - 1], Categories[k])
    BY <1>2, <1>5 DEF Runs
  <2>2. 0 \in S
    BY <2>1, <1>2, <1>3
  <2>3. ASSUME NEW k \in 1 .. N, k - 1 \in S PROVE k \in S
    BY <2>1, <2>3, <1>1
  <2> HIDE DEF S
  <2>4. \A k \in 0 .. N : k \in S
    BY <2>2, <2>3, <1>2, Induction
  <2> QED BY <2>4, <1>2 DEF S
<1> QED BY <1>2, <1>4, <1>6

LEMMA TableIsComplete ==
  ASSUME Sound(store)
  PROVE  MappingCovers(TidasPackage(store), MappingRows(store))
<1> DEFINE rows == MappingRows(store)
           package == TidasPackage(store)
           keys == {k \in DOMAIN store.entities : k[1] \in Elements(Categories)}
<1>1. Covers(rows, keys)
  BY TableCovers
<1>2. DOMAIN package = keys \cup Defaults
  BY PackageDomain
<1> HIDE DEF rows, package, keys
<1>3. \A i \in 1 .. Len(rows) : rows[i].file \in DOMAIN package
  BY <1>1, <1>2 DEF Covers
<1>4. ASSUME NEW key \in DOMAIN package \ Defaults
      PROVE  Cardinality({i \in 1 .. Len(rows) : rows[i].about = "identifier" /\ rows[i].file = key}) = 1
  <2>1. PICK i \in 1 .. Len(rows) :
          /\ rows[i].about = "identifier" /\ rows[i].file = key
          /\ \A j \in 1 .. Len(rows) : rows[j].about = "identifier" /\ rows[j].file = key => j = i
    BY <1>1, <1>2 DEF Covers
  <2>2. {j \in 1 .. Len(rows) : rows[j].about = "identifier" /\ rows[j].file = key} = {i}
    BY <2>1
  <2> QED BY <2>2, FS_Singleton
<1> QED BY <1>3, <1>4 DEF MappingCovers, rows, package
-----------------------------------------------------------------------------
(* The documents *)

\* The quantitative reference that a document takes is one of its exchanges.
LEMMA ReferenceChosen ==
  ASSUME NEW exchanges, Len(exchanges) \in Nat, Len(exchanges) >= 1
  PROVE  LET n == QuantitativeReference(exchanges)
             x == exchanges[n]
         IN /\ n \in 1 .. Len(exchanges)
            /\ x.reference \/ \A y \in Elements(exchanges) :
                                ~y.reference /\ (x.isInput => y.isInput)
<1> DEFINE N == Len(exchanges)
           Declared == {i \in 1 .. N : exchanges[i].reference}
           Outgoing == {i \in 1 .. N : ~exchanges[i].isInput}
           FirstDeclared(i) == /\ exchanges[i].reference
                               /\ \A j \in 1 .. i - 1 : ~exchanges[j].reference
           FirstOutput(i) == /\ ~exchanges[i].isInput
                             /\ \A j \in 1 .. i - 1 : ~(~exchanges[j].isInput)
           n == QuantitativeReference(exchanges)
<1>1. /\ Declared # {} => n = CHOOSE i \in 1 .. N : FirstDeclared(i)
      /\ Declared = {} /\ Outgoing # {} => n = CHOOSE i \in 1 .. N : FirstOutput(i)
      /\ Declared = {} /\ Outgoing = {} => n = 1
  BY DEF QuantitativeReference
<1>2. Declared # {} => \E i \in 1 .. N : FirstDeclared(i)
  <2> SUFFICES ASSUME Declared # {} PROVE \E i \in 1 .. N : FirstDeclared(i)
    OBVIOUS
  <2>1. PICK m \in Declared : \A k \in Declared : m <= k
    <3>1. Declared \subseteq Nat /\ Declared # {}
      OBVIOUS
    <3> HIDE DEF Declared
    <3> QED BY <3>1, Least
  <2>2. m \in 1 .. N /\ \A j \in 1 .. m - 1 : j \in 1 .. N /\ ~(m <= j)
    OBVIOUS
  <2> QED BY <2>1, <2>2
<1>3. Outgoing # {} => \E i \in 1 .. N : FirstOutput(i)
  <2> SUFFICES ASSUME Outgoing # {} PROVE \E i \in 1 .. N : FirstOutput(i)
    OBVIOUS
  <2>1. PICK m \in Outgoing : \A k \in Outgoing : m <= k
    <3>1. Outgoing \subseteq Nat /\ Outgoing # {}
      OBVIOUS
    <3> HIDE DEF Outgoing
    <3> QED BY <3>1, Least
  <2>2. m \in 1 .. N /\ \A j \in 1 .. m - 1 : j \in 1 .. N /\ ~(m <= j)
    OBVIOUS
  <2> QED BY <2>1, <2>2
<1> HIDE DEF n
<1>4. CASE Declared # {}
  <2>1. n \in 1 .. N /\ FirstDeclared(n)
    BY <1>1, <1>2, <1>4
  <2> QED BY <2>1 DEF n
<1>5. CASE Declared = {} /\ Outgoing # {}
  <2>1. n \in 1 .. N /\ FirstOutput(n)
    BY <1>1, <1>3, <1>5
  <2>2. \A y \in Elements(exchanges) : ~y.reference
    BY <1>5 DEF Elements
  <2> QED BY <2>1, <2>2 DEF n
<1>6. CASE Declared = {} /\ Outgoing = {}
  <2>1. n = 1
    BY <1>1, <1>6
  <2>2. \A y \in Elements(exchanges) : ~y.reference /\ y.isInput
    BY <1>6 DEF Elements
  <2> QED BY <2>1, <2>2 DEF n
<1> QED BY <1>4, <1>5, <1>6

LEMMA DocumentsRefer ==
  ASSUME Sound(store), Writable(store)
  PROVE  ReferencesAreExchanges(TidasPackage(store))
<1> DEFINE package == TidasPackage(store)
<1> SUFFICES ASSUME NEW key \in DOMAIN package, key[1] = "processes", package[key].reference # 0
             PROVE  LET exchanges == Exchanges(store, key[2])
                        x == exchanges[package[key].reference]
                    IN /\ package[key].reference \in 1 .. Len(exchanges)
                       /\ x.reference \/ \A y \in Elements(exchanges) :
                                           ~y.reference /\ (x.isInput => y.isInput)
  BY DEF ReferencesAreExchanges
<1> DEFINE e == store.entities[key]
           exchanges == Exchanges(store, key[2])
<1>1. key \notin Defaults
  BY DEF Defaults
<1>2. key \in DOMAIN store.entities /\ package[key] = Document(store, e)
  BY <1>1, PackageDomain DEF TidasPackage
<1>3. e.type = "processes" /\ e.id = key[2]
  BY <1>2 DEF Sound, FilesNamed
<1> HIDE DEF package, e
<1>4. ~e.raw.nonFlow /\ package[key].reference = QuantitativeReference(exchanges)
  BY <1>2, <1>3 DEF Document
<1>5. e \in Elements(IterType(store, "processes"))
  <2>1. "processes" \in EntityTypes
    BY TypesAssumption
  <2>2. PICK i \in 1 .. Len(store.order["processes"]) : key = <<"processes", store.order["processes"][i]>>
    BY <1>2, <2>1, Iterated
  <2>3. Len(IterType(store, "processes")) = Len(store.order["processes"])
    BY <2>1, Iterated
  <2>4. \A j \in 1 .. Len(store.order["processes"]) :
          IterType(store, "processes")[j] = store.entities[<<"processes", store.order["processes"][j]>>]
    BY <2>1, Iterated
  <2>5. i \in 1 .. Len(IterType(store, "processes")) /\ IterType(store, "processes")[i] = e
    BY <2>2, <2>3, <2>4 DEF e
  <2> QED BY <2>5 DEF Elements
<1>6. exchanges # <<>>
  BY <1>3, <1>4, <1>5 DEF Writable
<1>7. IsList(exchanges)
  BY ExchangesListed
<1>8. Len(exchanges) \in Nat /\ Len(exchanges) >= 1
  BY <1>6, <1>7 DEF IsList
<1> HIDE DEF exchanges
<1>9. LET n == QuantitativeReference(exchanges)
          x == exchanges[n]
      IN /\ n \in 1 .. Len(exchanges)
         /\ x.reference \/ \A y \in Elements(exchanges) :
                             ~y.reference /\ (x.isInput => y.isInput)
  BY <1>8, ReferenceChosen
<1> QED BY <1>4, <1>9 DEF package, exchanges

LEMMA FlowsRefer ==
  ASSUME Writable(store)
  PROVE  FlowsHaveOneReference
<1> SUFFICES ASSUME NEW flow \in Elements(IterType(store, "flows"))
             PROVE  Cardinality({i \in 1 .. Len(flow.raw.properties) :
                                   flow.raw.properties[i].reference}) <= 1
  BY DEF FlowsHaveOneReference
<1> DEFINE marked == {i \in 1 .. Len(flow.raw.properties) : flow.raw.properties[i].reference}
<1>1. flow.raw.properties # <<>> => Cardinality(marked) = 1 \/ marked = {}
  BY DEF Writable, FlowNormalizes
<1>2. flow.raw.properties = <<>> => marked = {}
  OBVIOUS
<1> HIDE DEF marked
<1>3. CASE marked = {}
  <2>1. Cardinality(marked) = 0
    BY <1>3, FS_EmptySet
  <2> QED BY <2>1 DEF marked
<1>4. CASE Cardinality(marked) = 1
  BY <1>4 DEF marked
<1>5. marked = {} \/ Cardinality(marked) = 1
  BY <1>1, <1>2
<1> QED BY <1>3, <1>4, <1>5
-----------------------------------------------------------------------------
(* The bundles *)

Reached(bundle) == bundle.files \cup Elements(bundle.unresolved)

\* A dataset is copied or unresolved, as the package has it or not.
Resolved(package, bundle) ==
  /\ DOMAIN bundle = {"files", "unresolved"}
  /\ IsList(bundle.unresolved)
  /\ bundle.files \subseteq DOMAIN package
  /\ Elements(bundle.unresolved) \cap DOMAIN package = {}

LEMMA CopiedResolved ==
  ASSUME NEW package, NEW bundle, Resolved(package, bundle), NEW key
  PROVE  LET c == Copied(package, bundle, key) IN
         /\ Resolved(package, c)
         /\ Reached(c) = Reached(bundle) \cup {key}
         /\ bundle.files \subseteq c.files
         /\ \A k \in c.files : k \in bundle.files \/ k = key
         /\ key \in DOMAIN package => key \in c.files
<1> DEFINE c == Copied(package, bundle, key)
           r == Append(bundle.unresolved, key)
<1>1. CASE key \in DOMAIN package
  <2>1. /\ DOMAIN c = DOMAIN bundle /\ c.unresolved = bundle.unresolved
        /\ c.files = bundle.files \cup {key}
    BY <1>1 DEF Copied, Resolved
  <2> HIDE DEF c
  <2> QED BY <1>1, <2>1 DEF Resolved, Reached, c
<1>2. CASE key \notin DOMAIN package
  <2>1. DOMAIN c = DOMAIN bundle /\ c.files = bundle.files /\ c.unresolved = r
    BY <1>2 DEF Copied, Resolved
  <2>2. IsList(r) /\ Elements(r) = Elements(bundle.unresolved) \cup {key}
    <3> DEFINE q == bundle.unresolved
    <3>1. /\ IsList(r) /\ Len(q) \in Nat /\ Len(r) = Len(q) + 1 /\ r[Len(q) + 1] = key
          /\ \A i \in 1 .. Len(q) : r[i] = q[i]
      BY ListAppended DEF Resolved
    <3> HIDE DEF r, q
    <3>2. \A i \in 1 .. Len(r) : i \in 1 .. Len(q) \/ i = Len(q) + 1
      BY <3>1
    <3>3. Len(q) + 1 \in 1 .. Len(r) /\ \A i \in 1 .. Len(q) : i \in 1 .. Len(r)
      BY <3>1
    <3>4. Elements(r) = Elements(q) \cup {key}
      BY <3>1, <3>2, <3>3 DEF Elements
    <3> QED BY <3>1, <3>4 DEF q
  <2> HIDE DEF c, r
  <2> QED BY <1>2, <2>1, <2>2 DEF Resolved, Reached, c
<1> QED BY <1>1, <1>2

\* What a bundle is after its first exchanges.
BundleInv(bundle, p, done) ==
  /\ Resolved(TidasPackage(store), bundle)
  /\ <<"processes", p>> \in bundle.files /\ Defaults \subseteq bundle.files
  /\ \A key \in bundle.files : IF key[1] = "processes" THEN key = <<"processes", p>>
                               ELSE Needs(key) \subseteq Reached(bundle)
  /\ \A i \in 1 .. done : <<"flows", Exchanges(store, p)[i].flow>> \in Reached(bundle)

\* What the package has of flows and their properties, the store has.
LEMMA PackageHas ==
  ASSUME NEW type \in {"flows", "flowproperties", "processes"}, NEW id
  PROVE  <<type, id>> \in DOMAIN TidasPackage(store) <=> Has(store, type, id)
<1>1. DOMAIN TidasPackage(store)
        = {k \in DOMAIN store.entities : k[1] \in Elements(Categories)} \cup Defaults
  BY PackageDomain
<1>2. type \in Elements(Categories)
  BY PackageDomain
<1>3. <<type, id>> \notin Defaults
  BY DEF Defaults
<1>4. <<type, id>> \in DOMAIN TidasPackage(store) <=> <<type, id>> \in DOMAIN store.entities
  BY <1>1, <1>2, <1>3
<1> QED BY <1>4 DEF Has

\* A bundle before its exchanges.
Begun(p) == [files |-> Defaults \cup {<<"processes", p>>}, unresolved |-> <<>>]

LEMMA ChainCopied ==
  ASSUME NEW p, NEW k \in Nat, k >= 1, NEW bundle, BundleInv(bundle, p, k - 1)
  PROVE  BundleInv(CopyExchange(store, TidasPackage(store), bundle, Exchanges(store, p)[k]), p, k)
<1> DEFINE package == TidasPackage(store)
           flow == Exchanges(store, p)[k].flow
           property == IF Has(store, "flows", flow) THEN Get(store, "flows", flow).raw.property
                       ELSE Nothing
           group == IF Has(store, "flowproperties", property)
                    THEN Get(store, "flowproperties", property).raw.group ELSE Nothing
           withFlow == Copied(package, bundle, <<"flows", flow>>)
           withProperty == Copied(package, withFlow, <<"flowproperties", property>>)
           withGroup == Copied(package, withProperty, <<"unitgroups", group>>)
           after == CopyExchange(store, package, bundle, Exchanges(store, p)[k])
<1>1. after = IF <<"flows", flow>> \notin DOMAIN package \/ property = Nothing THEN withFlow
              ELSE IF <<"flowproperties", property>> \notin DOMAIN package \/ group = Nothing
              THEN withProperty ELSE withGroup
  BY DEF CopyExchange
<1>2. /\ <<"flows", flow>> \in DOMAIN package <=> Has(store, "flows", flow)
      /\ <<"flowproperties", property>> \in DOMAIN package <=> Has(store, "flowproperties", property)
  BY PackageHas
<1>3. /\ Needs(<<"flows", flow>>) = IF Has(store, "flows", flow) /\ property # Nothing
                                    THEN {<<"flowproperties", property>>} ELSE {}
      /\ property # Nothing =>
           Needs(<<"flowproperties", property>>) =
             IF Has(store, "flowproperties", property) /\ group # Nothing
             THEN {<<"unitgroups", group>>} ELSE {}
      /\ Needs(<<"unitgroups", group>>) = {}
  <2>1. Needs(<<"flows", flow>>) = IF Has(store, "flows", flow) /\ property # Nothing
                                   THEN {<<"flowproperties", property>>} ELSE {}
    BY DEF Needs
  <2> HIDE DEF property
  <2>2. ASSUME property # Nothing
        PROVE  Needs(<<"flowproperties", property>>) =
                 IF Has(store, "flowproperties", property) /\ group # Nothing
                 THEN {<<"unitgroups", group>>} ELSE {}
    <3>1. GroupOf(store, property) = group
      BY <2>2 DEF GroupOf
    <3>2. group # Nothing => Has(store, "flowproperties", property)
      OBVIOUS
    <3> HIDE DEF group
    <3> QED BY <3>1, <3>2 DEF Needs
  <2> HIDE DEF group
  <2>3. Needs(<<"unitgroups", group>>) = {}
    BY DEF Needs
  <2> QED BY <2>1, <2>2, <2>3
<1> HIDE DEF package, flow, property, group, withFlow, withProperty, withGroup, after
<1>4. Resolved(package, bundle)
  BY DEF BundleInv, package
<1>5. /\ Resolved(package, withFlow)
      /\ Reached(withFlow) = Reached(bundle) \cup {<<"flows", flow>>}
      /\ bundle.files \subseteq withFlow.files
      /\ \A key \in withFlow.files : key \in bundle.files \/ key = <<"flows", flow>>
  BY <1>4, CopiedResolved DEF withFlow
<1>6. /\ Resolved(package, withProperty)
      /\ Reached(withProperty) = Reached(withFlow) \cup {<<"flowproperties", property>>}
      /\ withFlow.files \subseteq withProperty.files
      /\ \A key \in withProperty.files :
           key \in withFlow.files \/ key = <<"flowproperties", property>>
  BY <1>5, CopiedResolved DEF withProperty
<1>7. /\ Resolved(package, withGroup)
      /\ Reached(withGroup) = Reached(withProperty) \cup {<<"unitgroups", group>>}
      /\ withProperty.files \subseteq withGroup.files
      /\ \A key \in withGroup.files :
           key \in withProperty.files \/ key = <<"unitgroups", group>>
  BY <1>6, CopiedResolved DEF withGroup
<1>8. /\ Resolved(package, after) /\ bundle.files \subseteq after.files
      /\ Reached(bundle) \cup {<<"flows", flow>>} \subseteq Reached(after)
  BY <1>1, <1>5, <1>6, <1>7
<1>9. ASSUME NEW key \in after.files
      PROVE  IF key[1] = "processes" THEN key = <<"processes", p>>
             ELSE Needs(key) \subseteq Reached(after)
  <2>1. CASE key \in bundle.files
    BY <2>1, <1>8 DEF BundleInv
  <2>2. CASE key = <<"flows", flow>> /\ key \notin bundle.files
    <3>1. <<"flows", flow>> \in DOMAIN package
      BY <2>2, <1>8 DEF Resolved
    <3>2. property # Nothing => <<"flowproperties", property>> \in Reached(after)
      BY <3>1, <1>1, <1>6, <1>7
    <3> QED BY <2>2, <3>2, <1>3
  <2>3. CASE key = <<"flowproperties", property>> /\ key \notin bundle.files
    <3>1. property # Nothing /\ after \in {withProperty, withGroup}
      BY <2>3, <1>1, <1>5
    <3>2. <<"flowproperties", property>> \in DOMAIN package
      BY <2>3, <1>8 DEF Resolved
    <3>3. group # Nothing => <<"unitgroups", group>> \in Reached(after)
      BY <3>1, <3>2, <1>1, <1>5, <1>7, <2>3
    <3> QED BY <2>3, <3>1, <3>3, <1>3
  <2>4. CASE key = <<"unitgroups", group>> /\ key \notin bundle.files
    BY <2>4, <1>3
  <2> QED BY <2>1, <2>2, <2>3, <2>4, <1>1, <1>5, <1>6, <1>7
<1>10. ASSUME NEW i \in 1 .. k
       PROVE  <<"flows", Exchanges(store, p)[i].flow>> \in Reached(after)
  <2>1. CASE i = k
    BY <2>1, <1>8 DEF flow
  <2>2. CASE i # k
    <3>1. i \in 1 .. k - 1
      BY <2>2
    <3> QED BY <3>1, <1>8 DEF BundleInv
  <2> QED BY <2>1, <2>2
<1>11. <<"processes", p>> \in after.files /\ Defaults \subseteq after.files
  BY <1>8 DEF BundleInv
<1> QED BY <1>8, <1>9, <1>10, <1>11 DEF BundleInv, package, after

\* The bundle of a process after all its exchanges.
LEMMA BundleFilled ==
  ASSUME Sound(store), NEW p, Has(store, "processes", p)
  PROVE  BundleInv(Bundle(store, TidasPackage(store), p), p, Len(Exchanges(store, p)))
<1> DEFINE N == Len(Exchanges(store, p))
           Body(t, x) == CopyExchange(store, TidasPackage(store), t, x)
           Runs(f, k) == f = [n \in 0 .. k |-> IF n = 0 THEN Begun(p) ELSE Body(f[n - 1], Exchanges(store, p)[n])]
           after == CHOOSE f : Runs(f, N)
           Inv(t, k) == BundleInv(t, p, k)
<1>1. \A t : \A k \in 1 .. N : Inv(t, k - 1) => Inv(Body(t, Exchanges(store, p)[k]), k)
  <2>1. N \in Nat
    BY ExchangesListed, ListLength
  <2> HIDE DEF N
  <2> QED BY <2>1, ChainCopied
<1>2. N \in Nat /\ Bundle(store, TidasPackage(store), p) = after[N]
  <2>1. N \in Nat
    BY ExchangesListed, ListLength
  <2> QED BY <2>1 DEF Bundle, Begun, ForEach
<1>3. Inv(Begun(p), 0)
  <2> DEFINE start == Begun(p)
  <2>1. /\ DOMAIN start = {"files", "unresolved"} /\ start.unresolved = <<>>
        /\ start.files = Defaults \cup {<<"processes", p>>}
    BY DEF Begun
  <2>2. IsList(<<>>) /\ Len(<<>>) = 0 /\ Elements(<<>>) = {}
    BY DEF IsList, Elements
  <2>3. <<"processes", p>> \in DOMAIN TidasPackage(store) /\ Defaults \subseteq DOMAIN TidasPackage(store)
    BY PackageHas, PackageDomain
  <2> HIDE DEF start
  <2>4. Resolved(TidasPackage(store), start)
    BY <2>1, <2>2, <2>3 DEF Resolved
  <2>5. \A key \in Defaults : key[1] \in {"contacts", "sources"} /\ Needs(key) = {}
    BY DEF Defaults, Needs
  <2>6. \A key \in start.files : IF key[1] = "processes" THEN key = <<"processes", p>>
                                  ELSE Needs(key) \subseteq Reached(start)
    BY <2>1, <2>5
  <2> QED BY <2>1, <2>4, <2>6 DEF BundleInv, start
<1>4. Inv(after[N], N) => BundleInv(after[N], p, Len(Exchanges(store, p)))
  OBVIOUS
<1> HIDE DEF N, Body, Runs, after, Inv
<1>5. Runs(after, N)
  <2> DEFINE S == {k \in 0 .. N : \E f : Runs(f, k)}
  <2>1. 0 \in S
    <3>1. Runs([n \in 0 .. 0 |-> Begun(p)], 0)
      BY DEF Runs
    <3> QED BY <3>1, <1>2
  <2>2. ASSUME NEW k \in 1 .. N, k - 1 \in S PROVE k \in S
    <3>1. PICK f : Runs(f, k - 1)
      BY <2>2
    <3> DEFINE h == [n \in 0 .. k |-> IF n = 0 THEN Begun(p) ELSE Body(f[n - 1], Exchanges(store, p)[n])]
    <3>2. \A n \in 0 .. k - 1 : h[n] = f[n]
      BY <3>1, <1>2 DEF Runs
    <3> HIDE DEF h
    <3>3. \A n \in 1 .. k : n - 1 \in 0 .. k - 1
      BY <1>2
    <3>4. \A n \in 0 .. k : n # 0 => h[n - 1] = f[n - 1]
      BY <3>2, <3>3, <1>2
    <3>5. Runs(h, k)
      BY <3>4 DEF Runs, h
    <3> QED BY <3>5
  <2> HIDE DEF S
  <2>3. \A k \in 0 .. N : k \in S
    BY <2>1, <2>2, <1>2, Induction
  <2> QED BY <2>3, <1>2 DEF S, after
<1>6. Inv(after[N], N)
  <2> DEFINE S == {k \in 0 .. N : Inv(after[k], k)}
  <2>1. after[0] = Begun(p) /\ \A k \in 1 .. N : after[k] = Body(after[k - 1], Exchanges(store, p)[k])
    BY <1>2, <1>5 DEF Runs
  <2>2. 0 \in S
    BY <2>1, <1>2, <1>3
  <2>3. ASSUME NEW k \in 1 .. N, k - 1 \in S PROVE k \in S
    BY <2>1, <2>3, <1>1
  <2> HIDE DEF S
  <2>4. \A k \in 0 .. N : k \in S
    BY <2>2, <2>3, <1>2, Induction
  <2> QED BY <2>4, <1>2 DEF S
<1> QED BY <1>2, <1>4, <1>6

LEMMA BundlesClosed ==
  ASSUME Sound(store)
  PROVE  BundlesAreClosed(TidasPackage(store), Bundles(store, TidasPackage(store)))
<1> DEFINE package == TidasPackage(store)
           bundles == Bundles(store, package)
<1> SUFFICES ASSUME NEW p \in DOMAIN bundles
             PROVE  LET bundle == bundles[p] IN
                    /\ <<"processes", p>> \in bundle.files
                    /\ Defaults \subseteq bundle.files
                    /\ bundle.files \subseteq DOMAIN package
                    /\ Elements(bundle.unresolved) \cap DOMAIN package = {}
                    /\ \A key \in bundle.files :
                         Needs(key) \subseteq bundle.files \cup Elements(bundle.unresolved)
  BY DEF BundlesAreClosed
<1> DEFINE bundle == bundles[p]
<1>1. p \in Elements(store.order["processes"]) /\ bundle = Bundle(store, package, p)
  BY DEF Bundles
<1>2. Has(store, "processes", p)
  <2>1. PICK i \in 1 .. Len(store.order["processes"]) : p = store.order["processes"][i]
    BY <1>1 DEF Elements
  <2> QED BY <2>1, TypesAssumption DEF Sound, OrderListsEntities
<1>3. BundleInv(bundle, p, Len(Exchanges(store, p)))
  BY <1>1, <1>2, BundleFilled
<1> HIDE DEF bundles, package
<1>4. Needs(<<"processes", p>>) \subseteq Reached(bundle)
  <2>1. Needs(<<"processes", p>>) = {<<"flows", x.flow>> : x \in Elements(Exchanges(store, p))}
    BY DEF Needs
  <2> QED BY <1>3, <2>1 DEF BundleInv, Elements
<1>5. \A key \in bundle.files : Needs(key) \subseteq Reached(bundle)
  BY <1>3, <1>4 DEF BundleInv
<1> QED BY <1>3, <1>5 DEF BundleInv, Resolved, Reached, package
-----------------------------------------------------------------------------
(* The publication *)

\* What a publication must be, the data of it apart.
Complete(out) ==
  /\ errors = 0 /\ supported > 0 /\ Writable(store)
  /\ "tidas" \in validated /\ (IncludesIlcd => "ilcd" \in validated)
  /\ out.tidas = IF KeepsTidas THEN TidasPackage(store) ELSE Nothing
  /\ out.ilcd = IF IncludesIlcd THEN TidasPackage(store) ELSE Nothing
  /\ out.mapping = IF request.mapping THEN MappingRows(store) ELSE Nothing
  /\ out.bundles = IF request.bundles THEN Bundles(store, TidasPackage(store)) ELSE Nothing
  /\ out.report.packages = validated

\* What each step relies on: what is staged so far, and what is not yet.
PublicationInv ==
  /\ supported \in Nat /\ errors \in Nat
  /\ pc \in {"start", "read", "write", "validate", "ilcd", "mapping", "bundles", "report",
             "commit", "done"}
  /\ pc # "done" =>
       /\ outcome = "none"
       /\ DOMAIN staged = {"tidas", "ilcd", "mapping", "bundles", "report"}
  /\ pc \in {"write", "validate", "ilcd", "mapping", "bundles", "report"} =>
       errors = 0 /\ supported > 0
  /\ pc \in {"validate", "ilcd", "mapping", "bundles", "report"} =>
       Writable(store) /\ staged.tidas = TidasPackage(store)
  /\ pc \in {"ilcd", "mapping", "bundles", "report"} => "tidas" \in validated
  /\ pc \in {"mapping", "bundles", "report"} =>
       /\ IncludesIlcd => "ilcd" \in validated
       /\ staged.ilcd = IF IncludesIlcd THEN TidasPackage(store) ELSE Nothing
  /\ pc \in {"start", "read", "write", "validate", "ilcd"} => staged.ilcd = Nothing
  /\ pc \in {"bundles", "report"} =>
       staged.mapping = IF request.mapping THEN MappingRows(store) ELSE Nothing
  /\ pc \in {"start", "read", "write", "validate", "ilcd", "mapping"} => staged.mapping = Nothing
  /\ pc = "report" =>
       staged.bundles = IF request.bundles THEN Bundles(store, TidasPackage(store)) ELSE Nothing
  /\ pc \in {"start", "read", "write", "validate", "ilcd", "mapping", "bundles"} =>
       staged.bundles = Nothing
  /\ pc = "commit" => Complete(staged)
  /\ outcome = "ok" => Complete(target)
  /\ outcome # "ok" => target \in {Nothing, Previous}

LEMMA PublicationInvariance == Spec => []PublicationInv
<1>1. Init => PublicationInv
  <2> SUFFICES ASSUME Init PROVE PublicationInv
    OBVIOUS
  <2>1. /\ DOMAIN staged = {"tidas", "ilcd", "mapping", "bundles", "report"}
        /\ staged.ilcd = Nothing /\ staged.mapping = Nothing /\ staged.bundles = Nothing
    BY DEF Init, NothingStaged
  <2> QED BY <2>1 DEF Init, PublicationInv
<1>2. ASSUME PublicationInv, ImportInv, [Next]_vars PROVE PublicationInv'
  <2>1. ASSUME NEW why, why # "ok", pc # "done", Fail(why) PROVE PublicationInv'
    <3>1. /\ pc' = "done" /\ outcome' = why /\ target' = target
          /\ supported' = supported /\ errors' = errors
      BY <2>1 DEF Fail, core
    <3> QED BY <1>2, <2>1, <3>1 DEF PublicationInv
  <2>2. ASSUME UNCHANGED <<input, core, pc, output, outcome>> PROVE PublicationInv'
    <3>1. UNCHANGED <<source, request, store, supported, errors, pc, staged, validated, target, outcome>>
      BY <2>2 DEF input, core, output
    <3>2. UNCHANGED <<IncludesIlcd, KeepsTidas>>
      BY <3>1 DEF IncludesIlcd, KeepsTidas
    <3> QED BY <1>2, <3>1, <3>2 DEF PublicationInv, Complete
  <2>3. CASE Cancel
    BY <2>3, <2>2 DEF Cancel
  <2>4. CASE Start
    <3>1. \/ pc # "done" /\ \E why : why # "ok" /\ Fail(why)
          \/ /\ pc = "start" /\ pc' = "read"
             /\ UNCHANGED <<store, supported, errors, staged, validated, target, outcome>>
      BY <2>4 DEF Start, Stops, Continues, output
    <3>2. CASE /\ pc = "start" /\ pc' = "read"
               /\ UNCHANGED <<store, supported, errors, staged, validated, target, outcome>>
      BY <1>2, <3>2 DEF PublicationInv
    <3> QED BY <3>1, <3>2, <2>1
  <2>5. CASE ReadEntry
    <3> DEFINE e == source.entries[entry + 1]
    <3>1. \/ pc # "done" /\ \E why : why # "ok" /\ Fail(why)
          \/ pc = "read" /\ (Read(<<>>) \/ (entry < Len(source.entries) /\ Read(e.items)))
      BY <2>5 DEF ReadEntry, Stops, Continues
    <3>2. ASSUME NEW items, Len(items) \in Nat, pc = "read", Read(items) PROVE PublicationInv'
      <4> DEFINE objects == {i \in 1 .. Len(items) : Counts(format, items[i])}
                 unread == {i \in 1 .. Len(items) : Unreadable(items[i])}
      <4>1. \/ Fail("store")
            \/ /\ supported' = supported + Cardinality(objects)
               /\ errors' = errors + Cardinality(unread)
               /\ UNCHANGED <<pc, staged, validated, target, outcome>>
        BY <3>2 DEF Read, output
      <4>2. Cardinality(objects) \in Nat /\ Cardinality(unread) \in Nat
        <5>1. IsFiniteSet(1 .. Len(items))
          BY <3>2, FS_Interval
        <5>2. objects \subseteq 1 .. Len(items) /\ unread \subseteq 1 .. Len(items)
          OBVIOUS
        <5> QED BY <5>1, <5>2, FS_Subset, FS_CardinalityType
      <4> HIDE DEF objects, unread
      <4>3. CASE /\ supported' = supported + Cardinality(objects)
                 /\ errors' = errors + Cardinality(unread)
                 /\ UNCHANGED <<pc, staged, validated, target, outcome>>
        BY <1>2, <3>2, <4>2, <4>3 DEF PublicationInv
      <4> QED BY <3>2, <4>1, <4>3, <2>1
    <3>3. entry < Len(source.entries) => Len(e.items) \in Nat
      <4>1. Len(source.entries) \in Nat /\ entry \in Nat
        BY <1>2, SourcesAssumption, ListLength DEF ImportInv
      <4>2. entry < Len(source.entries) => entry + 1 \in 1 .. Len(source.entries)
        BY <4>1
      <4> QED BY <1>2, <4>2, SourcesAssumption, ListLength DEF ImportInv
    <3>4. Len(<<>>) \in Nat
      OBVIOUS
    <3> HIDE DEF e
    <3> QED BY <3>1, <3>2, <3>3, <3>4, <2>1
  <2>6. CASE FinishReading
    <3> DEFINE models == IF format = "jsonld" /\ HasProviderGraph(JsonLdResolved) THEN 1 ELSE 0
    <3>1. \/ pc # "done" /\ \E why : why # "ok" /\ Fail(why)
          \/ /\ pc = "read" /\ pc' = "write" /\ ~(errors > 0) /\ supported + models # 0
             /\ supported' = supported + models
             /\ UNCHANGED <<errors, staged, validated, target, outcome>>
      BY <2>6 DEF FinishReading, output
    <3>2. models \in {0, 1}
      OBVIOUS
    <3> HIDE DEF models
    <3>3. CASE /\ pc = "read" /\ pc' = "write" /\ ~(errors > 0) /\ supported + models # 0
               /\ supported' = supported + models
               /\ UNCHANGED <<errors, staged, validated, target, outcome>>
      BY <1>2, <3>2, <3>3 DEF PublicationInv
    <3> QED BY <3>1, <3>3, <2>1
  <2> DEFINE Keeps == UNCHANGED <<request, store, supported, errors, target, outcome>>
  <2>7. \A step : Goes(step) => Keeps /\ pc' = step /\ UNCHANGED <<IncludesIlcd, KeepsTidas>>
    BY DEF Goes, input, core, IncludesIlcd, KeepsTidas
  <2>8. CASE WriteTidas
    <3>1. \/ pc # "done" /\ \E why : why # "ok" /\ Fail(why)
          \/ /\ pc = "write" /\ Writable(store) /\ Staged("tidas", TidasPackage(store))
             /\ Goes("validate") /\ UNCHANGED validated
      BY <2>8 DEF WriteTidas, Stops, Continues
    <3>2. CASE /\ pc = "write" /\ Writable(store) /\ Staged("tidas", TidasPackage(store))
               /\ Goes("validate") /\ UNCHANGED validated
      <4>1. /\ DOMAIN staged' = DOMAIN staged /\ staged'.tidas = TidasPackage(store)
            /\ staged'.ilcd = staged.ilcd /\ staged'.mapping = staged.mapping
            /\ staged'.bundles = staged.bundles
        BY <1>2, <3>2 DEF Staged, PublicationInv
      <4> QED BY <1>2, <2>7, <3>2, <4>1 DEF PublicationInv
    <3> QED BY <3>1, <3>2, <2>1
  <2>9. CASE Validate
    <3>1. \/ pc # "done" /\ \E why : why # "ok" /\ Fail(why)
          \/ /\ pc = "validate" /\ validated' = validated \cup {"tidas"}
             /\ Goes("ilcd") /\ UNCHANGED staged
      BY <2>9 DEF Validate, Stops, Continues
    <3>2. CASE /\ pc = "validate" /\ validated' = validated \cup {"tidas"}
               /\ Goes("ilcd") /\ UNCHANGED staged
      BY <1>2, <2>7, <3>2 DEF PublicationInv
    <3> QED BY <3>1, <3>2, <2>1
  <2>10. CASE WriteIlcd
    <3>1. \/ pc # "done" /\ \E why : why # "ok" /\ Fail(why)
          \/ pc = "ilcd" /\ ~IncludesIlcd /\ Goes("mapping") /\ UNCHANGED <<staged, validated>>
          \/ /\ pc = "ilcd" /\ IncludesIlcd /\ Staged("ilcd", staged.tidas)
             /\ validated' = validated \cup {"ilcd"} /\ Goes("mapping")
      BY <2>10 DEF WriteIlcd, Stops, Continues
    <3>2. CASE pc = "ilcd" /\ ~IncludesIlcd /\ Goes("mapping") /\ UNCHANGED <<staged, validated>>
      BY <1>2, <2>7, <3>2 DEF PublicationInv
    <3>3. CASE /\ pc = "ilcd" /\ IncludesIlcd /\ Staged("ilcd", staged.tidas)
               /\ validated' = validated \cup {"ilcd"} /\ Goes("mapping")
      <4>1. /\ DOMAIN staged' = DOMAIN staged /\ staged'.ilcd = staged.tidas
            /\ staged'.tidas = staged.tidas /\ staged'.mapping = staged.mapping
            /\ staged'.bundles = staged.bundles
        BY <1>2, <3>3 DEF Staged, PublicationInv
      <4>2. /\ Keeps /\ pc' = "mapping" /\ IncludesIlcd' /\ outcome' = "none"
            /\ "tidas" \in validated' /\ "ilcd" \in validated'
            /\ DOMAIN staged = {"tidas", "ilcd", "mapping", "bundles", "report"}
        BY <1>2, <2>7, <3>3 DEF PublicationInv
      <4>3. /\ errors = 0 /\ supported > 0 /\ Writable(store)
            /\ staged.tidas = TidasPackage(store) /\ staged.mapping = Nothing
            /\ staged.bundles = Nothing
        BY <1>2, <3>3 DEF PublicationInv
      <4> QED BY <1>2, <4>1, <4>2, <4>3 DEF PublicationInv
    <3> QED BY <3>1, <3>2, <3>3, <2>1
  <2>11. CASE WriteMapping
    <3>1. \/ pc # "done" /\ \E why : why # "ok" /\ Fail(why)
          \/ pc = "mapping" /\ ~request.mapping /\ Goes("bundles") /\ UNCHANGED <<staged, validated>>
          \/ /\ pc = "mapping" /\ request.mapping /\ Staged("mapping", MappingRows(store))
             /\ Goes("bundles") /\ UNCHANGED validated
      BY <2>11 DEF WriteMapping, Stops, Continues
    <3>2. CASE pc = "mapping" /\ ~request.mapping /\ Goes("bundles") /\ UNCHANGED <<staged, validated>>
      BY <1>2, <2>7, <3>2 DEF PublicationInv
    <3>3. CASE /\ pc = "mapping" /\ request.mapping /\ Staged("mapping", MappingRows(store))
               /\ Goes("bundles") /\ UNCHANGED validated
      <4>1. /\ DOMAIN staged' = DOMAIN staged /\ staged'.mapping = MappingRows(store)
            /\ staged'.tidas = staged.tidas /\ staged'.ilcd = staged.ilcd
            /\ staged'.bundles = staged.bundles
        BY <1>2, <3>3 DEF Staged, PublicationInv
      <4> QED BY <1>2, <2>7, <3>3, <4>1 DEF PublicationInv
    <3> QED BY <3>1, <3>2, <3>3, <2>1
  <2>12. CASE WriteBundles
    <3>1. \/ pc # "done" /\ \E why : why # "ok" /\ Fail(why)
          \/ pc = "bundles" /\ ~request.bundles /\ Goes("report") /\ UNCHANGED <<staged, validated>>
          \/ /\ pc = "bundles" /\ request.bundles /\ Staged("bundles", Bundles(store, staged.tidas))
             /\ Goes("report") /\ UNCHANGED validated
      BY <2>12 DEF WriteBundles, Stops, Continues
    <3>2. CASE pc = "bundles" /\ ~request.bundles /\ Goes("report") /\ UNCHANGED <<staged, validated>>
      BY <1>2, <2>7, <3>2 DEF PublicationInv
    <3>3. CASE /\ pc = "bundles" /\ request.bundles /\ Staged("bundles", Bundles(store, staged.tidas))
               /\ Goes("report") /\ UNCHANGED validated
      <4>1. /\ DOMAIN staged' = DOMAIN staged /\ staged'.bundles = Bundles(store, staged.tidas)
            /\ staged'.tidas = staged.tidas /\ staged'.ilcd = staged.ilcd
            /\ staged'.mapping = staged.mapping
        BY <1>2, <3>3 DEF Staged, PublicationInv
      <4> QED BY <1>2, <2>7, <3>3, <4>1 DEF PublicationInv
    <3> QED BY <3>1, <3>2, <3>3, <2>1
  <2>13. CASE WriteReport
    <3>1. /\ pc = "report" /\ UNCHANGED validated /\ Goes("commit")
          /\ DOMAIN staged' = DOMAIN staged
          /\ staged'.tidas = (IF KeepsTidas THEN staged.tidas ELSE Nothing)
          /\ staged'.report.packages = validated /\ staged'.ilcd = staged.ilcd
          /\ staged'.mapping = staged.mapping /\ staged'.bundles = staged.bundles
      BY <1>2, <2>13 DEF WriteReport, PublicationInv
    <3>2. Complete(staged)'
      BY <1>2, <2>7, <3>1 DEF PublicationInv, Complete
    <3> QED BY <1>2, <2>7, <3>1, <3>2 DEF PublicationInv
  <2>14. CASE Commit
    <3>1. \/ pc # "done" /\ \E why : why # "ok" /\ Fail(why)
          \/ /\ pc = "commit" /\ target' = staged /\ pc' = "done" /\ outcome' = "ok"
             /\ UNCHANGED <<request, store, supported, errors, validated>>
      BY <2>14 DEF Commit, Stops, Continues, input, core
    <3>2. CASE /\ pc = "commit" /\ target' = staged /\ pc' = "done" /\ outcome' = "ok"
               /\ UNCHANGED <<request, store, supported, errors, validated>>
      <4>1. UNCHANGED <<IncludesIlcd, KeepsTidas>>
        BY <3>2 DEF IncludesIlcd, KeepsTidas
      <4>2. Complete(target)'
        BY <1>2, <3>2, <4>1 DEF PublicationInv, Complete
      <4> QED BY <1>2, <3>2, <4>2 DEF PublicationInv
    <3> QED BY <3>1, <3>2, <2>1
  <2>15. CASE IoFails
    BY <2>15, <2>1 DEF IoFails
  <2>16. CASE Done \/ UNCHANGED vars
    BY <2>16, <2>2 DEF Done, vars
  <2> QED
    BY <1>2, <2>3, <2>4, <2>5, <2>6, <2>8, <2>9, <2>10, <2>11, <2>12, <2>13, <2>14, <2>15, <2>16
    DEF Next, Step
<1> QED BY <1>1, <1>2, ImportInvariance, PTL DEF Spec

\* What is published came of a source without errors, was validated, is what
\* the request asked for, and holds together: a flow has one reference property,
\* a process refers to one of its exchanges, each dataset has one identifier
\* row, and a bundle has whatever its process needs, or lists it as unresolved.
\* Without a publication the target is what it was (orchestrator.rs:90-193).
THEOREM PublicationTheorem == Spec => []PublishedIsComplete
<1>1. PublicationInv /\ ImportInv => PublishedIsComplete
  <2> SUFFICES ASSUME PublicationInv, ImportInv PROVE PublishedIsComplete
    OBVIOUS
  <2>1. Sound(store)
    BY DEF ImportInv, StoreInv
  <2>2. CASE outcome # "ok"
    BY <2>2 DEF PublicationInv, PublishedIsComplete
  <2>3. CASE outcome = "ok"
    <3>1. Complete(target)
      BY <2>3 DEF PublicationInv
    <3>2. FlowsHaveOneReference /\ ReferencesAreExchanges(TidasPackage(store))
      BY <2>1, <3>1, FlowsRefer, DocumentsRefer DEF Complete
    <3>3. /\ MappingCovers(TidasPackage(store), MappingRows(store))
          /\ BundlesAreClosed(TidasPackage(store), Bundles(store, TidasPackage(store)))
      BY <2>1, TableIsComplete, BundlesClosed
    <3> QED BY <2>3, <3>1, <3>2, <3>3 DEF Complete, PublishedIsComplete
  <2> QED BY <2>2, <2>3
<1> QED BY <1>1, ImportInvariance, PublicationInvariance, PTL
-----------------------------------------------------------------------------
(* Exchanges and their processes *)

\* What becomes of the exchanges and of the list of processes when nothing has
\* failed: they are left aside, or the exchanges of one process change.
Aside(s, a) ==
  /\ Sound(a)
  /\ a.ok => /\ s.ok /\ a.exchanges = s.exchanges
             /\ a.order["processes"] = s.order["processes"]

Only(s, a, p) ==
  /\ Sound(a)
  /\ a.ok => /\ s.ok /\ ValidKey(p) /\ a.order["processes"] = s.order["processes"]
             /\ \A q : q # p => Exchanges(a, q) = Exchanges(s, q)

LEMMA AddAside ==
  ASSUME NEW s, Sound(s), NEW e, e.type # "processes" \/ Has(s, "processes", e.id)
  PROVE  Aside(s, Add(s, e))
<1> DEFINE a == Add(s, e)
<1>1. Sound(a)
  BY AddSound
<1>2. CASE a = Failed(s)
  BY <1>1, <1>2, FailedSound DEF Aside
<1>3. CASE a # Failed(s)
  <2>1. s.ok /\ a.exchanges = s.exchanges /\ Listed(s, e, a)
    BY <1>3, AddOrder
  <2> HIDE DEF a
  <2> QED BY <2>1, <1>1, TypesAssumption DEF Aside, Listed, a
<1> QED BY <1>2, <1>3

LEMMA FlowAside ==
  ASSUME NEW s, Sound(s), NEW e, e.type = "flows" PROVE Aside(s, AddFlow(s, e))
<1> DEFINE u == AddUnitsFor(s, e)
           group == Entity("unitgroups", UnitGroupOf(e.raw.unit), Nothing,
                           [units |-> <<[id |-> Nothing, name |-> e.raw.unit,
                                         factor |-> <<1, 1>>, reference |-> FALSE]>>])
           property == Entity("flowproperties", FlowPropertyOf(e.raw.unit), Nothing,
                              [group |-> UnitGroupOf(e.raw.unit)])
<1>1. u = s \/ u = Add(Add(s, group), property)
  BY DEF AddUnitsFor
<1>2. group.type # "processes" /\ property.type # "processes"
  BY DEF Entity
<1>3. AddFlow(s, e) = Add(u, e)
  BY DEF AddFlow
<1> HIDE DEF u, group, property
<1>4. Aside(s, Add(s, group)) /\ Sound(Add(s, group))
  BY <1>2, AddAside DEF Aside
<1>5. Aside(Add(s, group), Add(Add(s, group), property))
  BY <1>2, <1>4, AddAside
<1>6. Aside(s, u)
  BY <1>1, <1>4, <1>5 DEF Aside
<1>7. Aside(u, Add(u, e))
  BY <1>6, AddAside DEF Aside
<1> QED BY <1>3, <1>6, <1>7 DEF Aside

\* A process that is new is listed last.
LEMMA ProcessAdded ==
  ASSUME NEW s, Sound(s), NEW e, e.type = "processes"
  PROVE  LET a == Add(s, e) IN
         /\ Sound(a)
         /\ a.ok => /\ s.ok /\ a.exchanges = s.exchanges
                    /\ e.ext # Nothing => ValidKey(e.ext)
                    /\ ~Has(s, "processes", e.id) =>
                         a.order["processes"] = Append(s.order["processes"], e.id)
<1> DEFINE a == Add(s, e)
<1>1. Sound(a)
  BY AddSound
<1>2. CASE a = Failed(s)
  BY <1>1, <1>2, FailedSound
<1>3. CASE a # Failed(s)
  <2>1. e.ext # Nothing => ValidKey(e.ext)
    BY <1>3 DEF Add
  <2>2. s.ok /\ a.exchanges = s.exchanges /\ Listed(s, e, a)
    BY <1>3, AddOrder
  <2> HIDE DEF a
  <2> QED BY <2>1, <2>2, <1>1, TypesAssumption DEF Listed, a
<1> QED BY <1>2, <1>3

LEMMA BeginAdded ==
  ASSUME NEW s, Sound(s), NEW p
  PROVE  LET a == BeginExchanges(s, p) IN
         Only(s, a, p) /\ (a.ok => Exchanges(a, p) = <<>>)
<1> DEFINE a == BeginExchanges(s, p)
<1>1. Sound(a)
  BY BeginParts
<1>2. CASE ~s.ok \/ ~ValidKey(p)
  <2>1. a = Failed(s)
    BY <1>2 DEF BeginExchanges
  <2> QED BY <1>1, <2>1, FailedSound DEF Only
<1>3. CASE s.ok /\ ValidKey(p)
  <2>1. a.exchanges = Written(s.exchanges, p, <<>>) /\ a.order = s.order
    BY <1>3 DEF BeginExchanges, Sound, IsStore
  <2> HIDE DEF a
  <2> QED BY <2>1, <1>1, <1>3 DEF Only, Exchanges, Written, a
<1> QED BY <1>2, <1>3

LEMMA ExchangeAdded ==
  ASSUME NEW s, Sound(s), NEW p, NEW x
  PROVE  LET a == AddExchange(s, p, x) IN
         Only(s, a, p) /\ (a.ok => Exchanges(a, p) = Append(Exchanges(s, p), x))
<1> DEFINE a == AddExchange(s, p, x)
           more == Append(Exchanges(s, p), x)
<1>1. Sound(a)
  BY ExchangeParts
<1>2. CASE ~s.ok \/ ~ValidKey(p)
  <2>1. a = Failed(s)
    BY <1>2 DEF AddExchange
  <2> QED BY <1>1, <2>1, FailedSound DEF Only
<1>3. CASE s.ok /\ ValidKey(p)
  <2>1. a.exchanges = Written(s.exchanges, p, more) /\ a.order = s.order
    BY <1>3 DEF AddExchange, Sound, IsStore
  <2>2. a.exchanges[p] = more /\ p \in DOMAIN a.exchanges
    BY <2>1 DEF Written
  <2>3. \A q : q # p => Exchanges(a, q) = Exchanges(s, q)
    BY <2>1 DEF Exchanges, Written
  <2> HIDE DEF a, more
  <2> QED BY <2>1, <2>2, <2>3, <1>1, <1>3 DEF Only, Exchanges, a, more
<1> QED BY <1>2, <1>3

LEMMA OnlyAside ==
  ASSUME NEW s, NEW a, NEW b, NEW p,
         \/ Only(s, a, p) /\ Only(a, b, p)
         \/ Only(s, a, p) /\ Aside(a, b)
         \/ Aside(s, a) /\ Only(a, b, p)
  PROVE  Only(s, b, p)
<1>1. Sound(b)
  BY DEF Only, Aside
<1>2. ASSUME b.ok
      PROVE  /\ s.ok /\ ValidKey(p) /\ b.order["processes"] = s.order["processes"]
             /\ \A q : q # p => Exchanges(b, q) = Exchanges(s, q)
  <2>1. CASE Only(s, a, p) /\ Only(a, b, p)
    BY <1>2, <2>1 DEF Only
  <2>2. CASE Only(s, a, p) /\ Aside(a, b)
    BY <1>2, <2>2 DEF Only, Aside, Exchanges
  <2>3. CASE Aside(s, a) /\ Only(a, b, p)
    BY <1>2, <2>3 DEF Only, Aside, Exchanges
  <2> QED BY <2>1, <2>2, <2>3
<1> QED BY <1>1, <1>2 DEF Only
-----------------------------------------------------------------------------
(* Loops, step by step *)

\* The exchanges of a JSON-LD process that are kept.
LEMMA FlowsKept ==
  ASSUME NEW q, Len(q) \in Nat
  PROVE  \E t : /\ t[0] = <<>>
                /\ \A k \in 1 .. Len(q) : t[k] = (IF q[k].flow # Nothing THEN Append(t[k - 1], q[k]) ELSE t[k - 1])
                /\ WithFlow(q) = t[Len(q)]
<1> DEFINE N == Len(q)
           Body(r, x) == (IF x.flow # Nothing THEN Append(r, x) ELSE r)
           Runs(f, k) == f = [n \in 0 .. k |-> IF n = 0 THEN <<>> ELSE Body(f[n - 1], q[n])]
           after == CHOOSE f : Runs(f, N)
<1>1. N \in Nat /\ WithFlow(q) = after[N]
  BY DEF WithFlow, Selected, ForEach
<1>2. SUFFICES /\ after[0] = <<>> /\ \A k \in 1 .. N : after[k] = Body(after[k - 1], q[k])
  BY <1>1
<1> HIDE DEF N, Body, Runs, after
<1>3. Runs(after, N)
  <2> DEFINE S == {k \in 0 .. N : \E f : Runs(f, k)}
  <2>1. 0 \in S
    <3>1. Runs([n \in 0 .. 0 |-> <<>>], 0)
      BY DEF Runs
    <3> QED BY <3>1, <1>1
  <2>2. ASSUME NEW k \in 1 .. N, k - 1 \in S PROVE k \in S
    <3>1. PICK f : Runs(f, k - 1)
      BY <2>2
    <3> DEFINE h == [n \in 0 .. k |-> IF n = 0 THEN <<>> ELSE Body(f[n - 1], q[n])]
    <3>2. \A n \in 0 .. k - 1 : h[n] = f[n]
      BY <3>1, <1>1 DEF Runs
    <3> HIDE DEF h
    <3>3. \A n \in 1 .. k : n - 1 \in 0 .. k - 1
      BY <1>1
    <3>4. \A n \in 0 .. k : n # 0 => h[n - 1] = f[n - 1]
      BY <3>2, <3>3, <1>1
    <3>5. Runs(h, k)
      BY <3>4 DEF Runs, h
    <3> QED BY <3>5
  <2> HIDE DEF S
  <2>3. \A k \in 0 .. N : k \in S
    BY <2>1, <2>2, <1>1, Induction
  <2> QED BY <2>3, <1>1 DEF S, after
<1> QED BY <1>1, <1>3 DEF Runs

\* The exchanges that are added for it.
LEMMA ExchangesStep ==
  ASSUME NEW s, NEW p, NEW q, Len(q) \in Nat
  PROVE  \E t : /\ t[0] = s
                /\ \A k \in 1 .. Len(q) : t[k] = (IF q[k].flow = Nothing THEN t[k - 1] ELSE AddExchange(t[k - 1], p, q[k]))
                /\ AddExchanges(s, p, q) = t[Len(q)]
<1> DEFINE N == Len(q)
           Body(r, x) == (IF x.flow = Nothing THEN r ELSE AddExchange(r, p, x))
           Runs(f, k) == f = [n \in 0 .. k |-> IF n = 0 THEN s ELSE Body(f[n - 1], q[n])]
           after == CHOOSE f : Runs(f, N)
<1>1. N \in Nat /\ AddExchanges(s, p, q) = after[N]
  BY DEF AddExchanges, ForEach
<1>2. SUFFICES /\ after[0] = s /\ \A k \in 1 .. N : after[k] = Body(after[k - 1], q[k])
  BY <1>1
<1> HIDE DEF N, Body, Runs, after
<1>3. Runs(after, N)
  <2> DEFINE S == {k \in 0 .. N : \E f : Runs(f, k)}
  <2>1. 0 \in S
    <3>1. Runs([n \in 0 .. 0 |-> s], 0)
      BY DEF Runs
    <3> QED BY <3>1, <1>1
  <2>2. ASSUME NEW k \in 1 .. N, k - 1 \in S PROVE k \in S
    <3>1. PICK f : Runs(f, k - 1)
      BY <2>2
    <3> DEFINE h == [n \in 0 .. k |-> IF n = 0 THEN s ELSE Body(f[n - 1], q[n])]
    <3>2. \A n \in 0 .. k - 1 : h[n] = f[n]
      BY <3>1, <1>1 DEF Runs
    <3> HIDE DEF h
    <3>3. \A n \in 1 .. k : n - 1 \in 0 .. k - 1
      BY <1>1
    <3>4. \A n \in 0 .. k : n # 0 => h[n - 1] = f[n - 1]
      BY <3>2, <3>3, <1>1
    <3>5. Runs(h, k)
      BY <3>4 DEF Runs, h
    <3> QED BY <3>5
  <2> HIDE DEF S
  <2>3. \A k \in 0 .. N : k \in S
    BY <2>1, <2>2, <1>1, Induction
  <2> QED BY <2>3, <1>1 DEF S, after
<1> QED BY <1>1, <1>3 DEF Runs

\* The sources of an EcoSpold dataset, and its exchanges.
LEMMA SourcesStep ==
  ASSUME NEW s, NEW q, Len(q) \in Nat
  PROVE  \E t : /\ t[0] = s
                /\ \A k \in 1 .. Len(q) : t[k] = Add(t[k - 1], EcospoldSource(q[k]))
                /\ EcospoldSources(s, q) = t[Len(q)]
<1> DEFINE N == Len(q)
           Body(r, x) == Add(r, EcospoldSource(x))
           Runs(f, k) == f = [n \in 0 .. k |-> IF n = 0 THEN s ELSE Body(f[n - 1], q[n])]
           after == CHOOSE f : Runs(f, N)
<1>1. N \in Nat /\ EcospoldSources(s, q) = after[N]
  BY DEF EcospoldSources, ForEach
<1>2. SUFFICES /\ after[0] = s /\ \A k \in 1 .. N : after[k] = Body(after[k - 1], q[k])
  BY <1>1
<1> HIDE DEF N, Body, Runs, after
<1>3. Runs(after, N)
  <2> DEFINE S == {k \in 0 .. N : \E f : Runs(f, k)}
  <2>1. 0 \in S
    <3>1. Runs([n \in 0 .. 0 |-> s], 0)
      BY DEF Runs
    <3> QED BY <3>1, <1>1
  <2>2. ASSUME NEW k \in 1 .. N, k - 1 \in S PROVE k \in S
    <3>1. PICK f : Runs(f, k - 1)
      BY <2>2
    <3> DEFINE h == [n \in 0 .. k |-> IF n = 0 THEN s ELSE Body(f[n - 1], q[n])]
    <3>2. \A n \in 0 .. k - 1 : h[n] = f[n]
      BY <3>1, <1>1 DEF Runs
    <3> HIDE DEF h
    <3>3. \A n \in 1 .. k : n - 1 \in 0 .. k - 1
      BY <1>1
    <3>4. \A n \in 0 .. k : n # 0 => h[n - 1] = f[n - 1]
      BY <3>2, <3>3, <1>1
    <3>5. Runs(h, k)
      BY <3>4 DEF Runs, h
    <3> QED BY <3>5
  <2> HIDE DEF S
  <2>3. \A k \in 0 .. N : k \in S
    BY <2>1, <2>2, <1>1, Induction
  <2> QED BY <2>3, <1>1 DEF S, after
<1> QED BY <1>1, <1>3 DEF Runs

LEMMA DatasetStep ==
  ASSUME NEW s, NEW p, NEW q, Len(q) \in Nat
  PROVE  \E t : /\ t[0] = s
                /\ \A k \in 1 .. Len(q) : t[k] = EcospoldExchange(t[k - 1], p, q[k])
                /\ EcospoldExchanges(s, p, q) = t[Len(q)]
<1> DEFINE N == Len(q)
           Body(r, x) == EcospoldExchange(r, p, x)
           Runs(f, k) == f = [n \in 0 .. k |-> IF n = 0 THEN s ELSE Body(f[n - 1], q[n])]
           after == CHOOSE f : Runs(f, N)
<1>1. N \in Nat /\ EcospoldExchanges(s, p, q) = after[N]
  BY DEF EcospoldExchanges, ForEach
<1>2. SUFFICES /\ after[0] = s /\ \A k \in 1 .. N : after[k] = Body(after[k - 1], q[k])
  BY <1>1
<1> HIDE DEF N, Body, Runs, after
<1>3. Runs(after, N)
  <2> DEFINE S == {k \in 0 .. N : \E f : Runs(f, k)}
  <2>1. 0 \in S
    <3>1. Runs([n \in 0 .. 0 |-> s], 0)
      BY DEF Runs
    <3> QED BY <3>1, <1>1
  <2>2. ASSUME NEW k \in 1 .. N, k - 1 \in S PROVE k \in S
    <3>1. PICK f : Runs(f, k - 1)
      BY <2>2
    <3> DEFINE h == [n \in 0 .. k |-> IF n = 0 THEN s ELSE Body(f[n - 1], q[n])]
    <3>2. \A n \in 0 .. k - 1 : h[n] = f[n]
      BY <3>1, <1>1 DEF Runs
    <3> HIDE DEF h
    <3>3. \A n \in 1 .. k : n - 1 \in 0 .. k - 1
      BY <1>1
    <3>4. \A n \in 0 .. k : n # 0 => h[n - 1] = f[n - 1]
      BY <3>2, <3>3, <1>1
    <3>5. Runs(h, k)
      BY <3>4 DEF Runs, h
    <3> QED BY <3>5
  <2> HIDE DEF S
  <2>3. \A k \in 0 .. N : k \in S
    BY <2>1, <2>2, <1>1, Induction
  <2> QED BY <2>3, <1>1 DEF S, after
<1> QED BY <1>1, <1>3 DEF Runs

\* The objects of an entry, as they are read and as they are noted.
LEMMA ItemsStep ==
  ASSUME NEW s, NEW kind, NEW q, Len(q) \in Nat
  PROVE  \E t : /\ t[0] = s
                /\ \A k \in 1 .. Len(q) : t[k] = ReadItem(t[k - 1], kind, q[k])
                /\ ReadItems(s, kind, q) = t[Len(q)]
<1> DEFINE N == Len(q)
           Body(r, x) == ReadItem(r, kind, x)
           Runs(f, k) == f = [n \in 0 .. k |-> IF n = 0 THEN s ELSE Body(f[n - 1], q[n])]
           after == CHOOSE f : Runs(f, N)
<1>1. N \in Nat /\ ReadItems(s, kind, q) = after[N]
  BY DEF ReadItems, ForEach
<1>2. SUFFICES /\ after[0] = s /\ \A k \in 1 .. N : after[k] = Body(after[k - 1], q[k])
  BY <1>1
<1> HIDE DEF N, Body, Runs, after
<1>3. Runs(after, N)
  <2> DEFINE S == {k \in 0 .. N : \E f : Runs(f, k)}
  <2>1. 0 \in S
    <3>1. Runs([n \in 0 .. 0 |-> s], 0)
      BY DEF Runs
    <3> QED BY <3>1, <1>1
  <2>2. ASSUME NEW k \in 1 .. N, k - 1 \in S PROVE k \in S
    <3>1. PICK f : Runs(f, k - 1)
      BY <2>2
    <3> DEFINE h == [n \in 0 .. k |-> IF n = 0 THEN s ELSE Body(f[n - 1], q[n])]
    <3>2. \A n \in 0 .. k - 1 : h[n] = f[n]
      BY <3>1, <1>1 DEF Runs
    <3> HIDE DEF h
    <3>3. \A n \in 1 .. k : n - 1 \in 0 .. k - 1
      BY <1>1
    <3>4. \A n \in 0 .. k : n # 0 => h[n - 1] = f[n - 1]
      BY <3>2, <3>3, <1>1
    <3>5. Runs(h, k)
      BY <3>4 DEF Runs, h
    <3> QED BY <3>5
  <2> HIDE DEF S
  <2>3. \A k \in 0 .. N : k \in S
    BY <2>1, <2>2, <1>1, Induction
  <2> QED BY <2>3, <1>1 DEF S, after
<1> QED BY <1>1, <1>3 DEF Runs

Noting(r, x, kind) == IF x.kind = kind THEN Append(r, x) ELSE r

LEMMA NotedStep ==
  ASSUME NEW read, NEW kind, NEW items, Len(items) \in Nat
  PROVE  \E t : /\ t[0] = read
                /\ \A k \in 1 .. Len(items) : t[k] = Noting(t[k - 1], items[k], kind)
                /\ NotedItems(read, kind, items) = t[Len(items)]
<1> DEFINE N == Len(items)
           Body(r, x) == Noting(r, x, kind)
           Runs(f, k) == f = [n \in 0 .. k |-> IF n = 0 THEN read ELSE Body(f[n - 1], items[n])]
           after == CHOOSE f : Runs(f, N)
<1>1. N \in Nat /\ NotedItems(read, kind, items) = after[N]
  BY DEF NotedItems, ForEach, Noting
<1>2. SUFFICES /\ after[0] = read /\ \A k \in 1 .. N : after[k] = Body(after[k - 1], items[k])
  BY <1>1
<1> HIDE DEF N, Body, Runs, after
<1>3. Runs(after, N)
  <2> DEFINE S == {k \in 0 .. N : \E f : Runs(f, k)}
  <2>1. 0 \in S
    <3>1. Runs([n \in 0 .. 0 |-> read], 0)
      BY DEF Runs
    <3> QED BY <3>1, <1>1
  <2>2. ASSUME NEW k \in 1 .. N, k - 1 \in S PROVE k \in S
    <3>1. PICK f : Runs(f, k - 1)
      BY <2>2
    <3> DEFINE h == [n \in 0 .. k |-> IF n = 0 THEN read ELSE Body(f[n - 1], items[n])]
    <3>2. \A n \in 0 .. k - 1 : h[n] = f[n]
      BY <3>1, <1>1 DEF Runs
    <3> HIDE DEF h
    <3>3. \A n \in 1 .. k : n - 1 \in 0 .. k - 1
      BY <1>1
    <3>4. \A n \in 0 .. k : n # 0 => h[n - 1] = f[n - 1]
      BY <3>2, <3>3, <1>1
    <3>5. Runs(h, k)
      BY <3>4 DEF Runs, h
    <3> QED BY <3>5
  <2> HIDE DEF S
  <2>3. \A k \in 0 .. N : k \in S
    BY <2>1, <2>2, <1>1, Induction
  <2> QED BY <2>3, <1>1 DEF S, after
<1> QED BY <1>1, <1>3 DEF Runs

\* The entries that are read.
LEMMA EntriesStep ==
  ASSUME NEW entries, NEW kind, Len(entries) \in Nat
  PROVE  /\ ReadUpTo(entries, kind, 0) = <<>>
         /\ \A k \in 1 .. Len(entries) :
              ReadUpTo(entries, kind, k)
                = (IF Allowed(entries[k], kind)
                   THEN NotedItems(ReadUpTo(entries, kind, k - 1), kind, entries[k].items)
                   ELSE ReadUpTo(entries, kind, k - 1))
<1> DEFINE N == Len(entries)
           Body(r, x) == (IF Allowed(x, kind) THEN NotedItems(r, kind, x.items) ELSE r)
           Runs(f, k) == f = [n \in 0 .. k |-> IF n = 0 THEN <<>> ELSE Body(f[n - 1], entries[n])]
           after == CHOOSE f : Runs(f, N)
<1>1. N \in Nat /\ \A n : ReadUpTo(entries, kind, n) = after[n]
  BY DEF ReadUpTo
<1>2. SUFFICES /\ after[0] = <<>> /\ \A k \in 1 .. N : after[k] = Body(after[k - 1], entries[k])
  BY <1>1
<1> HIDE DEF N, Body, Runs, after
<1>3. Runs(after, N)
  <2> DEFINE S == {k \in 0 .. N : \E f : Runs(f, k)}
  <2>1. 0 \in S
    <3>1. Runs([n \in 0 .. 0 |-> <<>>], 0)
      BY DEF Runs
    <3> QED BY <3>1, <1>1
  <2>2. ASSUME NEW k \in 1 .. N, k - 1 \in S PROVE k \in S
    <3>1. PICK f : Runs(f, k - 1)
      BY <2>2
    <3> DEFINE h == [n \in 0 .. k |-> IF n = 0 THEN <<>> ELSE Body(f[n - 1], entries[n])]
    <3>2. \A n \in 0 .. k - 1 : h[n] = f[n]
      BY <3>1, <1>1 DEF Runs
    <3> HIDE DEF h
    <3>3. \A n \in 1 .. k : n - 1 \in 0 .. k - 1
      BY <1>1
    <3>4. \A n \in 0 .. k : n # 0 => h[n - 1] = f[n - 1]
      BY <3>2, <3>3, <1>1
    <3>5. Runs(h, k)
      BY <3>4 DEF Runs, h
    <3> QED BY <3>5
  <2> HIDE DEF S
  <2>3. \A k \in 0 .. N : k \in S
    BY <2>1, <2>2, <1>1, Induction
  <2> QED BY <2>3, <1>1 DEF S, after
<1> QED BY <1>1, <1>3 DEF Runs

-----------------------------------------------------------------------------
(* One object *)

\* The exchanges of a process that carries them are those that have a flow.
LEMMA ExchangesAdded ==
  ASSUME NEW s, Sound(s), NEW p, NEW q, Len(q) \in Nat, s.ok => Exchanges(s, p) = <<>>
  PROVE  LET a == AddExchanges(s, p, q) IN
         /\ Sound(a) /\ a.entities = s.entities
         /\ a.ok => /\ s.ok /\ a.order["processes"] = s.order["processes"]
                    /\ Exchanges(a, p) = WithFlow(q)
                    /\ \A o : o # p => Exchanges(a, o) = Exchanges(s, o)
<1>1. PICK t : /\ t[0] = s
               /\ \A k \in 1 .. Len(q) :
                    t[k] = (IF q[k].flow = Nothing THEN t[k - 1] ELSE AddExchange(t[k - 1], p, q[k]))
               /\ AddExchanges(s, p, q) = t[Len(q)]
  BY ExchangesStep
<1>2. PICK w : /\ w[0] = <<>>
               /\ \A k \in 1 .. Len(q) :
                    w[k] = (IF q[k].flow # Nothing THEN Append(w[k - 1], q[k]) ELSE w[k - 1])
               /\ WithFlow(q) = w[Len(q)]
  BY FlowsKept
<1> DEFINE N == Len(q)
           Kept(k) == /\ Sound(t[k]) /\ t[k].entities = s.entities
                      /\ t[k].ok => /\ s.ok /\ t[k].order["processes"] = s.order["processes"]
                                    /\ Exchanges(t[k], p) = w[k]
                                    /\ \A o : o # p => Exchanges(t[k], o) = Exchanges(s, o)
           S == {k \in 0 .. N : Kept(k)}
<1>3. 0 \in S
  BY <1>1, <1>2
<1>4. ASSUME NEW k \in 1 .. N, k - 1 \in S PROVE k \in S
  <2>1. Kept(k - 1)
    BY <1>4
  <2>2. CASE q[k].flow = Nothing
    <3>1. t[k] = t[k - 1] /\ w[k] = w[k - 1]
      BY <2>2, <1>1, <1>2
    <3> QED BY <3>1, <2>1
  <2>3. CASE q[k].flow # Nothing
    <3>1. t[k] = AddExchange(t[k - 1], p, q[k]) /\ w[k] = Append(w[k - 1], q[k])
      BY <2>3, <1>1, <1>2
    <3>2. /\ Only(t[k - 1], t[k], p) /\ t[k].entities = t[k - 1].entities
          /\ t[k].ok => Exchanges(t[k], p) = Append(Exchanges(t[k - 1], p), q[k])
      BY <3>1, <2>1, ExchangeAdded, ExchangeParts
    <3>3. Kept(k)
      BY <3>1, <3>2, <2>1 DEF Only
    <3> QED BY <3>3
  <2> QED BY <2>2, <2>3
<1> HIDE DEF S, Kept
<1>5. \A k \in 0 .. N : k \in S
  BY <1>3, <1>4, Induction
<1>6. Kept(N)
  BY <1>5 DEF S
<1> QED BY <1>1, <1>2, <1>6 DEF Kept

\* Reading it empties the file and fills it.
LEMMA ProcessRead ==
  ASSUME NEW s, Sound(s), NEW e, e.type = "processes", NEW q, Len(q) \in Nat
  PROVE  LET a == AddProcess(s, e, q) IN
         a.ok => /\ s.ok /\ (e.ext # Nothing => ValidKey(e.ext))
                 /\ Exchanges(a, e.id) = WithFlow(q)
                 /\ \A o : o # e.id => Exchanges(a, o) = Exchanges(s, o)
<1> DEFINE begun == BeginExchanges(s, e.id)
           filled == AddExchanges(begun, e.id, q)
<1>1. Only(s, begun, e.id) /\ (begun.ok => Exchanges(begun, e.id) = <<>>)
  BY BeginAdded
<1>2. AddProcess(s, e, q) = Add(filled, e)
  BY DEF AddProcess
<1> HIDE DEF begun
<1>3. /\ Sound(filled)
      /\ filled.ok => /\ begun.ok /\ Exchanges(filled, e.id) = WithFlow(q)
                      /\ \A o : o # e.id => Exchanges(filled, o) = Exchanges(begun, o)
  BY <1>1, ExchangesAdded DEF Only
<1> HIDE DEF filled
<1> DEFINE a == Add(filled, e)
<1>4. a.ok => /\ filled.ok /\ a.exchanges = filled.exchanges
              /\ e.ext # Nothing => ValidKey(e.ext)
  BY <1>3, ProcessAdded
<1> HIDE DEF a
<1>5. \A o : a.ok => Exchanges(a, o) = Exchanges(filled, o)
  BY <1>4 DEF Exchanges
<1> QED BY <1>1, <1>2, <1>3, <1>4, <1>5 DEF Only, a

\* The sources of a dataset are no processes.
LEMMA SourcesAside ==
  ASSUME NEW s, Sound(s), NEW q, Len(q) \in Nat
  PROVE  Aside(s, EcospoldSources(s, q))
<1>1. PICK t : /\ t[0] = s
               /\ \A k \in 1 .. Len(q) : t[k] = Add(t[k - 1], EcospoldSource(q[k]))
               /\ EcospoldSources(s, q) = t[Len(q)]
  BY SourcesStep
<1> DEFINE N == Len(q)
           S == {k \in 0 .. N : Aside(s, t[k])}
<1>2. 0 \in S
  BY <1>1 DEF Aside
<1>3. ASSUME NEW k \in 1 .. N, k - 1 \in S PROVE k \in S
  <2>1. Aside(s, t[k - 1]) /\ t[k] = Add(t[k - 1], EcospoldSource(q[k]))
    BY <1>1, <1>3
  <2>2. EcospoldSource(q[k]).type # "processes"
    BY DEF EcospoldSource, Entity
  <2>3. Aside(t[k - 1], t[k])
    BY <2>1, <2>2, AddAside DEF Aside
  <2>4. Aside(s, t[k])
    BY <2>1, <2>3 DEF Aside
  <2> QED BY <2>4
<1> HIDE DEF S
<1>4. \A k \in 0 .. N : k \in S
  BY <1>2, <1>3, Induction
<1> QED BY <1>1, <1>4 DEF S

\* As many exchanges are added as a dataset has.
LEMMA DatasetAdded ==
  ASSUME NEW s, Sound(s), NEW p, NEW q, Len(q) \in Nat, s.ok => Exchanges(s, p) = <<>>
  PROVE  LET a == EcospoldExchanges(s, p, q) IN
         /\ Sound(a)
         /\ a.ok => /\ s.ok /\ a.order["processes"] = s.order["processes"]
                    /\ Len(Exchanges(a, p)) = Len(q)
                    /\ \A o : o # p => Exchanges(a, o) = Exchanges(s, o)
<1>1. PICK t : /\ t[0] = s
               /\ \A k \in 1 .. Len(q) : t[k] = EcospoldExchange(t[k - 1], p, q[k])
               /\ EcospoldExchanges(s, p, q) = t[Len(q)]
  BY DatasetStep
<1> DEFINE N == Len(q)
           Kept(k) == /\ Sound(t[k])
                      /\ t[k].ok => /\ s.ok /\ t[k].order["processes"] = s.order["processes"]
                                    /\ Len(Exchanges(t[k], p)) = k
                                    /\ \A o : o # p => Exchanges(t[k], o) = Exchanges(s, o)
           S == {k \in 0 .. N : Kept(k)}
<1>2. 0 \in S
  <2>1. Len(<<>>) = 0
    OBVIOUS
  <2> QED BY <1>1, <2>1
<1>3. ASSUME NEW k \in 1 .. N, k - 1 \in S PROVE k \in S
  <2> DEFINE r == t[k - 1]
             x == q[k]
             flow == Entity("flows", Or(x.id, StableId(<<"ecospold/flow", x.name, ToString(x.unit)>>)),
                            x.id, FlowRaw(x.unit, Nothing, <<>>, x.named))
             exchange == Exchange(flow.id, x.unit, x.isInput, FALSE)
             b == AddFlow(r, flow)
  <2>1. Kept(k - 1) /\ k - 1 \in 0 .. N
    BY <1>3
  <2>2. t[k] = AddExchange(b, p, exchange)
    BY <1>1 DEF EcospoldExchange
  <2>3. flow.type = "flows"
    BY DEF Entity
  <2> HIDE DEF exchange, flow
  <2>4. Aside(r, b)
    BY <2>1, <2>3, FlowAside
  <2> HIDE DEF b
  <2>5. /\ Only(b, t[k], p)
        /\ t[k].ok => Exchanges(t[k], p) = Append(Exchanges(b, p), exchange)
    BY <2>2, <2>4, ExchangeAdded DEF Aside
  <2>6. Only(r, t[k], p)
    BY <2>4, <2>5, OnlyAside
  <2>7. t[k].ok => Len(Exchanges(t[k], p)) = k
    <3> SUFFICES ASSUME t[k].ok PROVE Len(Exchanges(t[k], p)) = k
      OBVIOUS
    <3>1. b.ok /\ r.ok
      BY <2>4, <2>5 DEF Only, Aside
    <3>2. Exchanges(b, p) = Exchanges(r, p)
      BY <2>4, <3>1 DEF Aside, Exchanges
    <3>3. IsList(Exchanges(r, p)) /\ Len(Exchanges(r, p)) = k - 1
      BY <2>1, <3>1, ExchangesListed
    <3> HIDE DEF r
    <3> QED BY <2>5, <3>2, <3>3, ListAppended
  <2>8. Kept(k)
    BY <2>1, <2>6, <2>7 DEF Only
  <2> QED BY <2>8
<1> HIDE DEF S, Kept
<1>4. \A k \in 0 .. N : k \in S
  BY <1>2, <1>3, Induction
<1>5. Kept(N)
  BY <1>4 DEF S
<1> QED BY <1>1, <1>5 DEF Kept

\* The processes are those that the order file lists.
LEMMA ProcessesListed ==
  ASSUME NEW s, Sound(s)
  PROVE  LET order == s.order["processes"] IN
         /\ IsList(order)
         /\ \A id : Has(s, "processes", id) <=> \E i \in 1 .. Len(order) : order[i] = id
<1> DEFINE order == s.order["processes"]
<1>1. /\ IsList(order)
      /\ \A i \in 1 .. Len(order) : Has(s, "processes", order[i])
      /\ \A k \in DOMAIN s.entities :
           k[1] = "processes" => \E i \in 1 .. Len(order) : order[i] = k[2]
  BY TypesAssumption DEF Sound, IsStore, OrderListsEntities
<1> HIDE DEF order
<1>2. ASSUME NEW id, Has(s, "processes", id) PROVE \E i \in 1 .. Len(order) : order[i] = id
  <2> DEFINE k == <<"processes", id>>
  <2>1. k \in DOMAIN s.entities /\ k[1] = "processes" /\ k[2] = id
    BY <1>2 DEF Has
  <2> HIDE DEF k
  <2> QED BY <2>1, <1>1
<1> QED BY <1>1, <1>2 DEF order

\* Of the numbered ids of a dataset one is always free: there is one more than
\* there are processes.
LEMMA NumberedDiffer ==
  ASSUME NEW a, NEW b, NEW c, NEW m, NEW n,
         StableId(<<a, b, c, m>>) = StableId(<<a, b, c, n>>)
  PROVE  m = n
<1>1. <<"stable", a, b, c, m>> = <<"stable", a, b, c, n>>
  BY DEF StableId
<1> QED BY <1>1

LEMMA ProcessIdFree ==
  ASSUME NEW s, Sound(s), NEW dataset, NEW preferred
  PROVE  ~Has(s, "processes", UniqueProcessId(s, dataset, preferred))
<1> DEFINE free(id) == ~Has(s, "processes", id)
           candidate(n) == StableId(<<"ecospold/process", dataset.source, dataset.name, n>>)
           order == s.order["processes"]
           K == Len(order)
           good(n) == free(candidate(n)) /\ \A m \in 1 .. n - 1 : ~free(candidate(m))
<1>1. IsList(order) /\ K \in Nat
      /\ \A id : ~free(id) => \E i \in 1 .. K : order[i] = id
  BY ListLength, ProcessesListed
<1>2. \A m, n : candidate(m) = candidate(n) => m = n
  BY NumberedDiffer
<1> HIDE DEF order, K
<1> DEFINE S == {n \in 1 .. K + 1 : free(candidate(n))}
<1>3. S # {}
  <2> SUFFICES ASSUME S = {} PROVE FALSE
    OBVIOUS
  <2> DEFINE f == [n \in 1 .. K + 1 |-> CHOOSE i \in 1 .. K : order[i] = candidate(n)]
  <2>1. \A n \in 1 .. K + 1 : f[n] \in 1 .. K /\ order[f[n]] = candidate(n)
    BY <1>1
  <2>2. f \in [1 .. K + 1 -> 1 .. K]
    BY <2>1
  <2> HIDE DEF f
  <2>3. /\ IsFiniteSet(1 .. K + 1) /\ Cardinality(1 .. K + 1) = K + 1
        /\ IsFiniteSet(1 .. K) /\ Cardinality(1 .. K) = K
    <3>1. IsFiniteSet(1 .. K + 1) /\ Cardinality(1 .. K + 1) = IF 1 > K + 1 THEN 0 ELSE K + 1 - 1 + 1
      BY <1>1, FS_Interval
    <3>2. IsFiniteSet(1 .. K) /\ Cardinality(1 .. K) = IF 1 > K THEN 0 ELSE K - 1 + 1
      BY <1>1, FS_Interval
    <3> QED BY <3>1, <3>2, <1>1
  <2>4. \E x, y \in 1 .. K + 1 : x # y /\ f[x] = f[y]
    <3> DEFINE A == 1 .. K + 1
               B == 1 .. K
    <3>1. /\ IsFiniteSet(A) /\ IsFiniteSet(B) /\ Cardinality(B) < Cardinality(A)
          /\ f \in [A -> B]
      BY <2>2, <2>3, <1>1
    <3> HIDE DEF A, B, S
    <3>2. \E x, y \in A : x # y /\ f[x] = f[y]
      BY <3>1, FS_PigeonHole
    <3> QED BY <3>2 DEF A
  <2> HIDE DEF candidate
  <2> QED BY <2>1, <2>4, <1>2
<1> HIDE DEF free, candidate
<1>4. PICK n \in S : \A m \in S : n <= m
  <2>1. S \subseteq Nat
    OBVIOUS
  <2> QED BY <1>3, <2>1, Least
<1>5. n \in 1 .. K + 1 /\ good(n)
  BY <1>4, <1>1
<1> HIDE DEF good
<1>6. good(CHOOSE k \in 1 .. K + 1 : good(k))
  BY <1>5
<1> DEFINE chosen == CHOOSE k \in 1 .. K + 1 : good(k)
<1>7. free(candidate(chosen))
  BY <1>6 DEF good
<1>8. UniqueProcessId(s, dataset, preferred) = IF free(preferred) THEN preferred ELSE candidate(chosen)
  BY DEF UniqueProcessId, free, candidate, K, order, good
<1> QED BY <1>7, <1>8 DEF free

\* A dataset is a process of its own.
LEMMA DatasetRead ==
  ASSUME NEW s, Sound(s), NEW item, item.kind = "ecospold", HasLists(item)
  PROVE  LET a == ReadEcospold(s, item) IN
         a.ok => /\ s.ok
                 /\ \E id : /\ ~Has(s, "processes", id)
                            /\ a.order["processes"] = Append(s.order["processes"], id)
                            /\ Len(Exchanges(a, id)) = Len(item.exchanges)
                            /\ \A o : o # id => Exchanges(a, o) = Exchanges(s, o)
<1> DEFINE preferred == Or(item.id, StableId(<<"ecospold/process", item.source, item.name>>))
           e == Entity("processes", UniqueProcessId(s, item, preferred), item.id, PlainProcess)
           sources == EcospoldSources(s, item.sources)
           begun == BeginExchanges(sources, e.id)
           after == EcospoldExchanges(begun, e.id, item.exchanges)
           a == Add(after, e)
<1>1. ReadEcospold(s, item) = a /\ e.type = "processes"
  BY DEF ReadEcospold, Entity
<1>2. Len(item.sources) \in Nat /\ Len(item.exchanges) \in Nat
  BY ListLength DEF HasLists
<1>3. ~Has(s, "processes", e.id)
  BY ProcessIdFree DEF Entity
<1> HIDE DEF preferred, e
<1>4. Aside(s, sources)
  BY <1>2, SourcesAside
<1> HIDE DEF sources
<1>5. Only(sources, begun, e.id) /\ (begun.ok => Exchanges(begun, e.id) = <<>>)
  BY <1>4, BeginAdded DEF Aside
<1>6. Only(s, begun, e.id)
  BY <1>4, <1>5, OnlyAside
<1> HIDE DEF begun
<1>7. /\ Sound(after)
      /\ after.ok => /\ begun.ok /\ after.order["processes"] = begun.order["processes"]
                     /\ Len(Exchanges(after, e.id)) = Len(item.exchanges)
                     /\ \A o : o # e.id => Exchanges(after, o) = Exchanges(begun, o)
  BY <1>2, <1>5, <1>6, DatasetAdded DEF Only
<1> HIDE DEF after
<1>8. a.ok => /\ after.ok /\ a.exchanges = after.exchanges
              /\ ~Has(after, "processes", e.id) =>
                   a.order["processes"] = Append(after.order["processes"], e.id)
  BY <1>1, <1>7, ProcessAdded
<1> HIDE DEF a
<1> SUFFICES ASSUME a.ok
             PROVE  /\ s.ok
                    /\ a.order["processes"] = Append(s.order["processes"], e.id)
                    /\ Len(Exchanges(a, e.id)) = Len(item.exchanges)
                    /\ \A o : o # e.id => Exchanges(a, o) = Exchanges(s, o)
  BY <1>1, <1>3
<1>9. /\ s.ok /\ after.order["processes"] = s.order["processes"]
      /\ \A o : Exchanges(a, o) = Exchanges(after, o)
      /\ \A o : o # e.id => Exchanges(after, o) = Exchanges(s, o)
  BY <1>6, <1>7, <1>8 DEF Only, Exchanges
<1>10. ~Has(after, "processes", e.id)
  BY <1>3, <1>7, <1>9, ProcessesListed
<1> QED BY <1>7, <1>8, <1>9, <1>10

-----------------------------------------------------------------------------
(* What is measured *)

\* Of a JSON-LD source the store has what normalization reads: factors, and
\* exchanges of processes that are there.
HasFactors(s) ==
  \A id : /\ Has(s, "flows", id) => HaveFactors(Get(s, "flows", id).raw.properties)
          /\ Has(s, "unitgroups", id) => HaveFactors(Get(s, "unitgroups", id).raw.units)
HasUses(s) ==
  \A p : /\ \A i \in 1 .. Len(Exchanges(s, p)) : IsUse(Exchanges(s, p)[i])
         /\ Exchanges(s, p) # <<>> => Has(s, "processes", p)
Catalogued(s) == HasFactors(s) /\ HasUses(s)

\* An entity that is added has its factors.
Measures(e) ==
  /\ e.type = "flows" => HaveFactors(e.raw.properties)
  /\ e.type = "unitgroups" => HaveFactors(e.raw.units)

LEMMA AddFactors ==
  ASSUME NEW s, Sound(s), HasFactors(s), NEW e, Measures(e) PROVE HasFactors(Add(s, e))
<1> DEFINE a == Add(s, e)
<1>1. \A k \in DOMAIN a.entities :
        \/ k \in DOMAIN s.entities /\ a.entities[k] = s.entities[k]
        \/ k = <<e.type, e.id>> /\ a.entities[k] = e
  BY AddKeeps DEF Sound
<1> HIDE DEF a
<1>2. ASSUME NEW t, NEW id, Has(a, t, id)
      PROVE  \/ Has(s, t, id) /\ Get(a, t, id) = Get(s, t, id)
             \/ t = e.type /\ Get(a, t, id) = e
  BY <1>1, <1>2 DEF Has, Get
<1> QED BY <1>2 DEF HasFactors, Measures, a

LEMMA AddCatalogued ==
  ASSUME NEW s, Sound(s), Catalogued(s), NEW e, Measures(e) PROVE Catalogued(Add(s, e))
<1> DEFINE a == Add(s, e)
<1>1. (\A t, id : Has(s, t, id) => Has(a, t, id)) /\ a.exchanges = s.exchanges
  BY AddKeeps DEF Sound
<1>2. HasFactors(a)
  BY AddFactors DEF Catalogued
<1> HIDE DEF a
<1>3. \A o : Exchanges(a, o) = Exchanges(s, o)
  BY <1>1 DEF Exchanges
<1> QED BY <1>1, <1>2, <1>3 DEF Catalogued, HasUses, a

\* The unit group that is made of a unit has its factor.
LEMMA FlowCatalogued ==
  ASSUME NEW s, Sound(s), Catalogued(s), NEW e, e.type = "flows", HaveFactors(e.raw.properties)
  PROVE  Catalogued(AddFlow(s, e))
<1> DEFINE u == AddUnitsFor(s, e)
           unit == [id |-> Nothing, name |-> e.raw.unit, factor |-> <<1, 1>>, reference |-> FALSE]
           group == Entity("unitgroups", UnitGroupOf(e.raw.unit), Nothing, [units |-> <<unit>>])
           property == Entity("flowproperties", FlowPropertyOf(e.raw.unit), Nothing,
                              [group |-> UnitGroupOf(e.raw.unit)])
<1>1. u = s \/ u = Add(Add(s, group), property)
  BY DEF AddUnitsFor
<1>2. unit.factor \in Fractions
  BY DEF Fractions
<1>3. group.type = "unitgroups" /\ group.raw.units = <<unit>> /\ property.type = "flowproperties"
  BY DEF Entity
<1>4. AddFlow(s, e) = Add(u, e)
  BY DEF AddFlow
<1> HIDE DEF u, group, property, unit
<1>5. HaveFactors(<<unit>>)
  BY <1>2, ListOfOne DEF HaveFactors
<1>6. Measures(group) /\ Measures(property) /\ Measures(e)
  BY <1>3, <1>5 DEF Measures
<1>7. Sound(Add(s, group)) /\ Catalogued(Add(s, group))
  BY <1>6, AddSound, AddCatalogued
<1>8. Sound(u) /\ Catalogued(u)
  BY <1>1, <1>6, <1>7, AddSound, AddCatalogued
<1> QED BY <1>4, <1>6, <1>8, AddCatalogued

\* An exchange that is kept is one of those given.
LEMMA KeptUses ==
  ASSUME NEW q, Len(q) \in Nat, \A i \in 1 .. Len(q) : IsUse(q[i])
  PROVE  \A i \in 1 .. Len(WithFlow(q)) : IsUse(WithFlow(q)[i])
<1>1. PICK t : /\ t[0] = <<>>
               /\ \A k \in 1 .. Len(q) :
                    t[k] = (IF q[k].flow # Nothing THEN Append(t[k - 1], q[k]) ELSE t[k - 1])
               /\ WithFlow(q) = t[Len(q)]
  BY FlowsKept
<1> DEFINE N == Len(q)
           Used(r) == IsList(r) /\ \A i \in 1 .. Len(r) : IsUse(r[i])
           S == {k \in 0 .. N : Used(t[k])}
<1>2. 0 \in S
  <2>1. IsList(<<>>) /\ Len(<<>>) = 0
    BY DEF IsList
  <2> QED BY <1>1, <2>1
<1>3. ASSUME NEW k \in 1 .. N, k - 1 \in S PROVE k \in S
  <2> DEFINE u == t[k - 1]
             r == Append(u, q[k])
  <2>1. Used(u)
    BY <1>3
  <2>2. t[k] = r \/ t[k] = u
    BY <1>1
  <2>3. Used(r)
    <3> HIDE DEF u
    <3>1. /\ IsList(r) /\ Len(u) \in Nat /\ Len(r) = Len(u) + 1 /\ r[Len(u) + 1] = q[k]
          /\ \A i \in 1 .. Len(u) : r[i] = u[i]
      BY <2>1, ListAppended
    <3> HIDE DEF r
    <3>2. \A i \in 1 .. Len(r) : i \in 1 .. Len(u) \/ i = Len(u) + 1
      BY <3>1
    <3> QED BY <3>1, <3>2, <2>1
  <2>4. Used(t[k])
    BY <2>1, <2>2, <2>3
  <2> QED BY <2>4
<1> HIDE DEF S
<1>4. \A k \in 0 .. N : k \in S
  BY <1>2, <1>3, Induction
<1> QED BY <1>1, <1>4 DEF S

\* A process and what it carries.
LEMMA ProcessCatalogued ==
  ASSUME NEW s, Sound(s), s.ok => Catalogued(s), NEW e, e.type = "processes",
         NEW q, Len(q) \in Nat, \A i \in 1 .. Len(q) : IsUse(q[i]),
         AddProcess(s, e, q).ok
  PROVE  Catalogued(AddProcess(s, e, q))
<1> DEFINE begun == BeginExchanges(s, e.id)
           filled == AddExchanges(begun, e.id, q)
           a == Add(filled, e)
<1>1. /\ Sound(begun) /\ begun.entities = s.entities
      /\ begun.ok => Exchanges(begun, e.id) = <<>>
  BY BeginParts, BeginAdded
<1>2. AddProcess(s, e, q) = a
  BY DEF AddProcess
<1> HIDE DEF begun
<1>3. Sound(filled) /\ filled.entities = s.entities
  BY <1>1, ExchangesAdded
<1> HIDE DEF filled
<1>4. /\ a.ok => Has(a, "processes", e.id)
      /\ \A t, id : Has(filled, t, id) => Has(a, t, id)
  <2>1. IsStore(filled)
    BY <1>3 DEF Sound
  <2>2. /\ a.ok => Has(a, e.type, e.id)
        /\ \A t, id : Has(filled, t, id) => Has(a, t, id)
    BY <2>1, AddKeeps
  <2> QED BY <2>2
<1>5. Measures(e)
  BY DEF Measures
<1>6. HasFactors(s) => HasFactors(a)
  <2>1. HasFactors(s) => HasFactors(filled)
    BY <1>3 DEF HasFactors, Has, Get
  <2> QED BY <2>1, <1>3, <1>5, AddFactors
<1>7. /\ s.ok /\ Exchanges(a, e.id) = WithFlow(q)
      /\ \A o : o # e.id => Exchanges(a, o) = Exchanges(s, o)
  BY <1>2, ProcessRead
<1> HIDE DEF a
<1>8. a.ok
  BY <1>2
<1>9. ASSUME NEW o
      PROVE  /\ \A i \in 1 .. Len(Exchanges(a, o)) : IsUse(Exchanges(a, o)[i])
             /\ Exchanges(a, o) # <<>> => Has(a, "processes", o)
  <2>1. CASE o = e.id
    BY <2>1, <1>4, <1>7, <1>8, KeptUses
  <2>2. CASE o # e.id
    <3>1. HasUses(s) /\ Exchanges(a, o) = Exchanges(s, o)
      BY <2>2, <1>7 DEF Catalogued
    <3>2. Has(s, "processes", o) => Has(a, "processes", o)
      BY <1>3, <1>4 DEF Has
    <3> QED BY <3>1, <3>2 DEF HasUses
  <2> QED BY <2>1, <2>2
<1> QED BY <1>2, <1>6, <1>7, <1>9 DEF Catalogued, HasUses

\* A JSON-LD object has its factors.
LEMMA ObjectCatalogued ==
  ASSUME NEW s, Sound(s), s.ok => Catalogued(s),
         NEW item, item.kind = "jsonld", HasLists(item), ReadJsonLd(s, item).ok
  PROVE  Catalogued(ReadJsonLd(s, item))
<1> DEFINE a == ReadJsonLd(s, item)
           e == JsonLdEntity(item)
<1>1. e.type = JsonLdType(item)
  BY DEF JsonLdEntity, Entity
<1>2. /\ JsonLdType(item) = "processes" <=> item.type = "Process"
      /\ JsonLdType(item) = "flows" <=> item.type = "Flow"
      /\ JsonLdType(item) = "unitgroups" <=> item.type = "UnitGroup"
  BY TypesAssumption DEF JsonLdType
<1>3. /\ e.type = "flows" => e.raw.properties = item.properties
      /\ e.type = "unitgroups" => e.raw.units = item.units
  BY <1>1 DEF JsonLdEntity, Entity, FlowRaw
<1>4. Measures(e)
  BY <1>1, <1>2, <1>3 DEF Measures, HasLists
<1>5. \/ a = s
      \/ a = AddFlow(s, e) /\ e.type = "flows"
      \/ a = AddProcess(s, e, item.exchanges) /\ e.type = "processes" /\ item.type = "Process"
      \/ a = Add(s, e) /\ e.type \notin {"flows", "processes"}
  BY <1>1, <1>2 DEF ReadJsonLd
<1> HIDE DEF e
<1>6. a.ok
  OBVIOUS
<1> HIDE DEF a
<1>7. CASE a = AddProcess(s, e, item.exchanges) /\ e.type = "processes" /\ item.type = "Process"
  <2>1. /\ Len(item.exchanges) \in Nat
        /\ \A i \in 1 .. Len(item.exchanges) : IsUse(item.exchanges[i])
    BY <1>7, ListLength DEF HasLists
  <2> QED BY <2>1, <1>6, <1>7, ProcessCatalogued DEF a
<1>8. CASE a = AddFlow(s, e) /\ e.type = "flows"
  <2>1. s.ok
    BY <1>6, <1>8, FlowAside DEF Aside
  <2> QED BY <2>1, <1>4, <1>8, FlowCatalogued DEF Measures, a
<1>9. CASE a = Add(s, e) /\ e.type \notin {"flows", "processes"}
  <2>1. s.ok
    BY <1>6, <1>9, AddAside DEF Aside
  <2> QED BY <2>1, <1>4, <1>9, AddCatalogued DEF a
<1>10. CASE a = s
  BY <1>6, <1>10 DEF a
<1> QED BY <1>5, <1>7, <1>8, <1>9, <1>10
-----------------------------------------------------------------------------
(* Everything read *)

\* What has been read is of the format, each with its lists.
Noted(kind, read) ==
  IsList(read) /\ \A i \in 1 .. Len(read) : read[i].kind = kind /\ HasLists(read[i])

\* The processes of the datasets, one of each.
OneOfEach(s, read) ==
  LET processes == s.order["processes"] IN
  /\ Len(processes) = Len(read)
  /\ \A i \in 1 .. Len(processes) :
       Len(Exchanges(s, processes[i])) = Len(read[i].exchanges)

\* The processes of JSON-LD objects, each as the last object of its id has it.
Declares(object) == object.type = "Process" /\ object.id # Nothing
IsLast(read, i) ==
  \A j \in i + 1 .. Len(read) : ~(read[j].type = "Process" /\ read[j].id = read[i].id)
AsLastRead(s, read) ==
  \A i \in 1 .. Len(read) :
    Declares(read[i]) /\ IsLast(read, i)
    => FlowsOf(Exchanges(s, read[i].id)) = FlowsOf(WithFlow(read[i].exchanges))

Owned(kind, s, read) ==
  /\ kind = "ecospold" => OneOfEach(s, read)
  /\ kind = "jsonld" => AsLastRead(s, read)
Belongs(kind, s, read) == Owned(kind, s, read) /\ (kind = "jsonld" => Catalogued(s))

LEMMA NotedMore ==
  ASSUME NEW kind, NEW read, Noted(kind, read), NEW item, item.kind = kind, HasLists(item)
  PROVE  Noted(kind, Append(read, item))
<1> DEFINE r == Append(read, item)
<1>1. /\ IsList(r) /\ Len(read) \in Nat /\ Len(r) = Len(read) + 1 /\ r[Len(read) + 1] = item
      /\ \A i \in 1 .. Len(read) : r[i] = read[i]
  BY ListAppended DEF Noted
<1> HIDE DEF r
<1>2. \A i \in 1 .. Len(r) : i \in 1 .. Len(read) \/ i = Len(read) + 1
  BY <1>1
<1> QED BY <1>1, <1>2 DEF Noted, r

LEMMA DatasetBelongs ==
  ASSUME NEW s, Sound(s), NEW item, item.kind = "ecospold", HasLists(item),
         NEW read, Noted("ecospold", read), s.ok => OneOfEach(s, read),
         ReadEcospold(s, item).ok
  PROVE  OneOfEach(ReadEcospold(s, item), Append(read, item))
<1> DEFINE a == ReadEcospold(s, item)
           r == Append(read, item)
           q == s.order["processes"]
           o == a.order["processes"]
<1>1. PICK id : /\ s.ok /\ ~Has(s, "processes", id) /\ o = Append(q, id)
                /\ Len(Exchanges(a, id)) = Len(item.exchanges)
                /\ \A p : p # id => Exchanges(a, p) = Exchanges(s, p)
  BY DatasetRead
<1>2. /\ Len(q) = Len(read)
      /\ \A i \in 1 .. Len(q) : Len(Exchanges(s, q[i])) = Len(read[i].exchanges)
  BY <1>1 DEF OneOfEach
<1>3. IsList(q) /\ \A i \in 1 .. Len(q) : q[i] # id
  BY <1>1, ProcessesListed
<1> HIDE DEF a, q, o, r
<1>4. /\ Len(q) \in Nat /\ Len(o) = Len(q) + 1 /\ o[Len(q) + 1] = id
      /\ \A i \in 1 .. Len(q) : o[i] = q[i]
  BY <1>1, <1>3, ListAppended
<1>5. /\ Len(r) = Len(read) + 1 /\ r[Len(read) + 1] = item
      /\ \A i \in 1 .. Len(read) : r[i] = read[i]
  BY ListAppended DEF Noted, r
<1>6. \A i \in 1 .. Len(o) : i \in 1 .. Len(q) \/ i = Len(q) + 1
  BY <1>4
<1>7. Len(o) = Len(r) /\ \A i \in 1 .. Len(o) : Len(Exchanges(a, o[i])) = Len(r[i].exchanges)
  BY <1>1, <1>2, <1>3, <1>4, <1>5, <1>6
<1> QED BY <1>7 DEF OneOfEach, a, o, r

\* An object that is no process leaves the exchanges; a process has those it
\* carries, under the id that it declares.
LEMMA ObjectBelongs ==
  ASSUME NEW s, Sound(s), NEW item, item.kind = "jsonld", HasLists(item),
         NEW read, Noted("jsonld", read), s.ok => AsLastRead(s, read) /\ Catalogued(s),
         ReadJsonLd(s, item).ok
  PROVE  LET a == ReadJsonLd(s, item) IN
         AsLastRead(a, Append(read, item)) /\ Catalogued(a)
<1> DEFINE a == ReadJsonLd(s, item)
           e == JsonLdEntity(item)
           r == Append(read, item)
           made == StableId(<<"openlca", item.type, item.source, item.name>>)
<1>0. Catalogued(a)
  BY ObjectCatalogued
<1>1. /\ Len(read) \in Nat /\ Len(r) = Len(read) + 1 /\ r[Len(read) + 1] = item
      /\ \A i \in 1 .. Len(read) : r[i] = read[i]
  BY ListAppended DEF Noted
<1>2. \A i \in 1 .. Len(r) : i \in 1 .. Len(read) \/ i = Len(read) + 1
  BY <1>1
<1> HIDE DEF r
<1>3. \A i \in 1 .. Len(read) : IsLast(r, i) =>
        IsLast(read, i) /\ ~(item.type = "Process" /\ item.id = read[i].id)
  <2> SUFFICES ASSUME NEW i \in 1 .. Len(read), IsLast(r, i)
               PROVE  IsLast(read, i) /\ ~(item.type = "Process" /\ item.id = read[i].id)
    OBVIOUS
  <2>1. \A j \in i + 1 .. Len(read) : j \in i + 1 .. Len(r) /\ j \in 1 .. Len(read)
    BY <1>1
  <2>2. Len(read) + 1 \in i + 1 .. Len(r)
    BY <1>1
  <2> QED BY <1>1, <2>1, <2>2 DEF IsLast
<1>4. /\ e.type = JsonLdType(item) /\ e.ext = item.id
      /\ e.id = IF item.id \in {Nothing, <<>>} THEN made ELSE item.id
  BY DEF JsonLdEntity, Entity
<1>5. JsonLdType(item) = "processes" <=> item.type = "Process"
  BY TypesAssumption DEF JsonLdType
<1> HIDE DEF made
<1>6. CASE item.type = "Process"
  <2> DEFINE q == item.exchanges
  <2>1. a = AddProcess(s, e, q) /\ e.type = "processes"
    BY <1>4, <1>5, <1>6, TypesAssumption DEF ReadJsonLd
  <2>2. Len(q) \in Nat /\ \A i \in 1 .. Len(q) : "flow" \in DOMAIN q[i]
    BY <1>6, ListLength DEF HasLists, IsUse
  <2> HIDE DEF e, q
  <2>3. a.ok
    OBVIOUS
  <2> HIDE DEF a
  <2>4. /\ s.ok /\ (e.ext # Nothing => ValidKey(e.ext))
        /\ Exchanges(a, e.id) = WithFlow(q)
        /\ \A o : o # e.id => Exchanges(a, o) = Exchanges(s, o)
    BY <2>1, <2>2, <2>3, ProcessRead
  <2>5. Declares(item) => e.id = item.id
    BY <1>4, <2>4 DEF Declares, ValidKey
  <2>6. ASSUME NEW i \in 1 .. Len(read), Declares(read[i]), IsLast(r, i)
        PROVE  FlowsOf(Exchanges(a, read[i].id)) = FlowsOf(WithFlow(read[i].exchanges))
    <3>1. read[i].id # e.id
      <4>1. CASE item.id \in {Nothing, <<>>}
        <5>1. Len(made) = 5
          BY DEF made, StableId
        <5>2. Len(read[i].id) <= 1
          BY <2>6 DEF Noted, HasLists, Declares
        <5>3. e.id = made
          BY <4>1, <1>4
        <5>4. ASSUME read[i].id = made PROVE FALSE
          <6>1. Len(made) <= 1
            BY <5>2, <5>4
          <6> QED BY <5>1, <6>1
        <5> QED BY <5>3, <5>4
      <4>2. CASE item.id \notin {Nothing, <<>>}
        BY <4>2, <1>3, <1>4, <1>6, <2>6
      <4> QED BY <4>1, <4>2
    <3> QED BY <3>1, <2>4, <2>6, <1>3 DEF AsLastRead
  <2>7. AsLastRead(a, r)
    BY <1>1, <1>2, <2>4, <2>5, <2>6 DEF AsLastRead, q
  <2> QED BY <2>7, <1>0 DEF a, r
<1>7. CASE item.type # "Process"
  <2>1. \/ a = s
        \/ a = AddFlow(s, e) /\ e.type = "flows"
        \/ a = Add(s, e) /\ e.type # "processes"
    BY <1>4, <1>5, <1>7 DEF ReadJsonLd
  <2> HIDE DEF e
  <2>2. a.ok
    OBVIOUS
  <2> HIDE DEF a
  <2>3. Aside(s, a)
    BY <2>1, AddAside, FlowAside DEF Aside
  <2>4. s.ok /\ \A o : Exchanges(a, o) = Exchanges(s, o)
    BY <2>2, <2>3 DEF Aside, Exchanges
  <2>5. AsLastRead(a, r)
    BY <1>1, <1>2, <1>3, <1>7, <2>4 DEF AsLastRead, Declares
  <2> QED BY <2>5, <1>0 DEF a, r
<1> QED BY <1>6, <1>7

\* One object, and all objects of an entry.
LEMMA ItemBelongs ==
  ASSUME NEW kind \in Importable, NEW s, Sound(s), NEW item, HasLists(item),
         NEW read, Noted(kind, read), s.ok => Belongs(kind, s, read)
  PROVE  LET a == ReadItem(s, kind, item)
             r == IF item.kind = kind THEN Append(read, item) ELSE read
         IN Noted(kind, r) /\ (a.ok => Belongs(kind, a, r))
<1> DEFINE a == ReadItem(s, kind, item)
           r == IF item.kind = kind THEN Append(read, item) ELSE read
<1>1. Noted(kind, r)
  BY NotedMore
<1>2. CASE item.kind # kind
  BY <1>1, <1>2 DEF ReadItem
<1>3. CASE item.kind = kind /\ kind = "ecospold"
  <2>1. a = ReadEcospold(s, item) /\ r = Append(read, item)
    BY <1>3 DEF ReadItem
  <2> HIDE DEF a, r
  <2>2. a.ok => OneOfEach(a, r)
    BY <1>3, <2>1, DatasetBelongs DEF Belongs, Owned
  <2> QED BY <1>1, <1>3, <2>2 DEF Belongs, Owned, a, r
<1>4. CASE item.kind = kind /\ kind = "jsonld"
  <2>1. a = ReadJsonLd(s, item) /\ r = Append(read, item)
    BY <1>4 DEF ReadItem
  <2> HIDE DEF a, r
  <2>2. a.ok => AsLastRead(a, r) /\ Catalogued(a)
    BY <1>4, <2>1, ObjectBelongs DEF Belongs, Owned
  <2> QED BY <1>1, <1>4, <2>2 DEF Belongs, Owned, a, r
<1>5. CASE kind \notin {"ecospold", "jsonld"}
  BY <1>1, <1>5 DEF Belongs, Owned
<1> QED BY <1>2, <1>3, <1>4, <1>5

LEMMA ItemsBelong ==
  ASSUME NEW kind \in Importable, NEW s, StoreInv(s, Generated(kind)),
         NEW items, Len(items) \in Nat, \A k \in 1 .. Len(items) : HasLists(items[k]),
         NEW read, Noted(kind, read), s.ok => Belongs(kind, s, read)
  PROVE  LET a == ReadItems(s, kind, items)
             r == NotedItems(read, kind, items)
         IN Noted(kind, r) /\ (a.ok => Belongs(kind, a, r))
<1>1. PICK t : /\ t[0] = s
               /\ \A k \in 1 .. Len(items) : t[k] = ReadItem(t[k - 1], kind, items[k])
               /\ ReadItems(s, kind, items) = t[Len(items)]
  BY ItemsStep
<1>2. PICK w : /\ w[0] = read
               /\ \A k \in 1 .. Len(items) :
                    w[k] = Noting(w[k - 1], items[k], kind)
               /\ NotedItems(read, kind, items) = w[Len(items)]
  BY NotedStep
<1> DEFINE N == Len(items)
           Kept(k) == /\ StoreInv(t[k], Generated(kind)) /\ Noted(kind, w[k])
                      /\ t[k].ok => Belongs(kind, t[k], w[k])
           S == {k \in 0 .. N : Kept(k)}
<1>3. 0 \in S
  BY <1>1, <1>2
<1>4. ASSUME NEW k \in 1 .. N, k - 1 \in S PROVE k \in S
  <2>1. Kept(k - 1)
    BY <1>4
  <2>2. /\ t[k] = ReadItem(t[k - 1], kind, items[k]) /\ HasLists(items[k])
        /\ w[k] = (IF items[k].kind = kind THEN Append(w[k - 1], items[k]) ELSE w[k - 1])
    BY <1>1, <1>2 DEF Noting
  <2>3. StoreInv(t[k], Generated(kind))
    BY <2>1, <2>2, ItemKeeps
  <2>4. Noted(kind, w[k]) /\ (t[k].ok => Belongs(kind, t[k], w[k]))
    BY <2>1, <2>2, ItemBelongs DEF StoreInv
  <2>5. Kept(k)
    BY <2>3, <2>4
  <2> QED BY <2>5
<1> HIDE DEF S, Kept
<1>5. \A k \in 0 .. N : k \in S
  BY <1>3, <1>4, Induction
<1>6. Kept(N)
  BY <1>5 DEF S
<1> QED BY <1>1, <1>2, <1>6 DEF Kept

-----------------------------------------------------------------------------
(* Amounts in reference units *)

\* What is looked up depends on the catalog alone.
LEMMA SameIndexes ==
  ASSUME NEW s, NEW a, SameCatalog(s, a)
  PROVE  /\ \A id : UnitOf(a, id) = UnitOf(s, id)
         /\ \A g : ReferenceUnit(a, g) = ReferenceUnit(s, g)
         /\ \A p : GroupOf(a, p) = GroupOf(s, p)
         /\ \A flow : ReferenceOf(a, flow) = ReferenceOf(s, flow)
         /\ \A flow, p : FactorOf(a, flow, p) = FactorOf(s, flow, p)
         /\ \A x, unit : PropertyOf(a, x, unit) = PropertyOf(s, x, unit)
<1>1. \A t \in Catalog :
        /\ a.order[t] = s.order[t]
        /\ \A id : Get(a, t, id) = Get(s, t, id) /\ (Has(a, t, id) <=> Has(s, t, id))
  BY DEF SameCatalog
<1>2. IterType(a, "unitgroups") = IterType(s, "unitgroups")
  BY <1>1 DEF IterType, Catalog
<1>3. \A id : UnitOf(a, id) = UnitOf(s, id)
  BY <1>2 DEF UnitOf
<1>4. \A g : ReferenceUnit(a, g) = ReferenceUnit(s, g)
  BY <1>1 DEF ReferenceUnit, Catalog
<1>5. \A p : GroupOf(a, p) = GroupOf(s, p)
  BY <1>1 DEF GroupOf, Catalog
<1>6. \A flow : ReferenceOf(a, flow) = ReferenceOf(s, flow)
  BY <1>1 DEF ReferenceOf, Catalog
<1>7. \A flow, p : FactorOf(a, flow, p) = FactorOf(s, flow, p)
  BY <1>1 DEF FactorOf, Catalog
<1>8. Elements(a.order["flowproperties"]) = Elements(s.order["flowproperties"])
  BY <1>1 DEF Catalog
<1>9. \A flow, g : Matching(a, flow, g) = Matching(s, flow, g)
  BY <1>5, <1>6, <1>7, <1>8 DEF Matching
<1>10. \A x, unit : PropertyOf(a, x, unit) = PropertyOf(s, x, unit)
  BY <1>5, <1>9 DEF PropertyOf
<1> QED BY <1>3, <1>4, <1>5, <1>6, <1>7, <1>10

LEMMA SameNormalized ==
  ASSUME NEW s, NEW a, SameCatalog(s, a), NEW x
  PROVE  /\ NormalizeExchange(a, x) = NormalizeExchange(s, x)
         /\ Quantity(a, x) = Quantity(s, x)
<1>1. /\ \A id : UnitOf(a, id) = UnitOf(s, id)
      /\ \A g : ReferenceUnit(a, g) = ReferenceUnit(s, g)
      /\ \A p : GroupOf(a, p) = GroupOf(s, p)
      /\ \A flow : ReferenceOf(a, flow) = ReferenceOf(s, flow)
      /\ \A flow, p : FactorOf(a, flow, p) = FactorOf(s, flow, p)
      /\ \A y, unit : PropertyOf(a, y, unit) = PropertyOf(s, y, unit)
  BY SameIndexes
<1>2. Resolves(a, x) <=> Resolves(s, x)
  BY <1>1 DEF Resolves
<1>3. Factor(a, x) = Factor(s, x)
  BY <1>1 DEF Factor
<1>4. NormalizeExchange(a, x) = NormalizeExchange(s, x)
  <2> DEFINE unit(r) == UnitOf(r, x.unitId)
             reference(r) == ReferenceOf(r, x.flow)
             crosses(r) == PropertyOf(r, x, unit(r)) # reference(r)
             best(r) == ReferenceUnit(r, IF crosses(r) THEN GroupOf(r, reference(r))
                                         ELSE unit(r).group)
             Restates(f, u, c, b) ==
               [x EXCEPT !.amount = Times(@, f), !.unitId = b.id, !.unit = b.name,
                         !.property = IF c THEN u ELSE @]
             After(r) == IF ~Resolves(r, x) \/ Equal(Factor(r, x), One) THEN x
                         ELSE Restates(Factor(r, x), reference(r), crosses(r), best(r))
  <2>1. NormalizeExchange(a, x) = After(a) /\ NormalizeExchange(s, x) = After(s)
    BY DEF NormalizeExchange
  <2>2. unit(a) = unit(s) /\ reference(a) = reference(s)
    BY <1>1
  <2>3. crosses(a) = crosses(s)
    BY <1>1, <2>2
  <2>4. best(a) = best(s)
    BY <1>1, <2>2, <2>3
  <2> HIDE DEF unit, reference, crosses, best, Restates
  <2> QED BY <1>2, <1>3, <2>1, <2>2, <2>3, <2>4
<1>5. Quantity(a, x) = Quantity(s, x)
  BY <1>1 DEF Quantity
<1> QED BY <1>4, <1>5

\* An exchange is restated or left, and keeps its flow.
LEMMA ExchangeRestated ==
  ASSUME NEW s, NEW x, IsUse(x)
  PROVE  LET after == NormalizeExchange(s, x)
             unit == UnitOf(s, x.unitId)
             reference == ReferenceOf(s, x.flow)
             crosses == PropertyOf(s, x, unit) # reference
             best == ReferenceUnit(s, IF crosses THEN GroupOf(s, reference) ELSE unit.group)
         IN /\ after.flow = x.flow
            /\ Resolves(s, x) =>
                 \/ after = x /\ Equal(Factor(s, x), One)
                 \/ /\ after.amount = Times(x.amount, Factor(s, x))
                    /\ after.unitId = best.id
                    /\ after.property = (IF crosses THEN reference ELSE x.property)
<1> DEFINE after == NormalizeExchange(s, x)
           unit == UnitOf(s, x.unitId)
           reference == ReferenceOf(s, x.flow)
           crosses == PropertyOf(s, x, unit) # reference
           best == ReferenceUnit(s, IF crosses THEN GroupOf(s, reference) ELSE unit.group)
           factor == Factor(s, x)
           property == IF crosses THEN reference ELSE x.property
<1>1. CASE ~Resolves(s, x) \/ Equal(factor, One)
  <2>1. after = x
    BY <1>1 DEF NormalizeExchange
  <2> HIDE DEF after
  <2> QED BY <2>1, <1>1 DEF after
<1>2. CASE ~(~Resolves(s, x) \/ Equal(factor, One))
  <2>1. after = [x EXCEPT !.amount = Times(@, factor), !.unitId = best.id,
                          !.unit = best.name, !.property = IF crosses THEN reference ELSE @]
    BY <1>2 DEF NormalizeExchange
  <2> HIDE DEF after, unit, reference, crosses, best, factor
  <2>2. /\ after.flow = x.flow /\ after.amount = Times(x.amount, factor)
        /\ after.unitId = best.id
        /\ after.property = (IF crosses THEN reference ELSE x.property)
    BY <2>1 DEF IsUse
  <2> QED BY <2>2 DEF after, unit, reference, crosses, best, factor
<1> QED BY <1>1, <1>2

\* What the JSON-LD adapter leaves at its end: each exchange as it was read,
\* restated.
LEMMA FinishedExchanges ==
  ASSUME NEW s, Sound(s), Catalogued(s)
  PROVE  LET a == AddProviderGraph(NormalizeAmounts(ResolveQuality(ResolveLocations(s)))) IN
         /\ SameCatalog(s, a)
         /\ a.ok => \A p : Exchanges(a, p) = Restatement(s, Exchanges(s, p))
<1> DEFINE resolved == ResolveQuality(ResolveLocations(s))
           a == AddProviderGraph(NormalizeAmounts(resolved))
           q == s.order["processes"]
<1>1. /\ SameCatalog(s, resolved) /\ SameCatalog(s, a)
      /\ a.ok => Restated(s, resolved, a)
  BY FinishedParts
<1> HIDE DEF a, resolved
<1>2. ASSUME a.ok, NEW p PROVE Exchanges(a, p) = Restatement(s, Exchanges(s, p))
  <2>1. CASE \E i \in 1 .. Len(q) : q[i] = p
    <3> DEFINE list == Exchanges(s, p)
    <3>1. Exchanges(a, p) = Restatement(resolved, list)
      BY <1>1, <1>2, <2>1 DEF Restated
    <3> HIDE DEF list
    <3>2. \A x : NormalizeExchange(resolved, x) = NormalizeExchange(s, x)
      BY <1>1, SameNormalized
    <3>3. Restatement(resolved, list) = Restatement(s, list)
      BY <3>2 DEF Restatement
    <3> QED BY <3>1, <3>3 DEF list
  <2>2. CASE ~\E i \in 1 .. Len(q) : q[i] = p
    <3>1. ~Has(s, "processes", p)
      BY <2>2, TypesAssumption DEF Sound, OrderListsEntities, Has
    <3>2. Exchanges(s, p) = <<>>
      BY <3>1 DEF Catalogued, HasUses
    <3>3. Restatement(s, <<>>) = <<>>
      BY DEF Restatement
    <3> QED BY <1>1, <1>2, <2>2, <3>2, <3>3 DEF Restated
  <2> QED BY <2>1, <2>2
<1> QED BY <1>1, <1>2 DEF a, resolved

LEMMA FinishedFlows ==
  ASSUME NEW s, Sound(s), Catalogued(s), NEW q, \A i \in 1 .. Len(q) : IsUse(q[i]),
         Len(q) \in Nat
  PROVE  FlowsOf(Restatement(s, q)) = FlowsOf(q)
<1>1. \A i \in 1 .. Len(q) : NormalizeExchange(s, q[i]).flow = q[i].flow
  BY ExchangeRestated
<1>2. Len(Restatement(s, q)) = Len(q)
  BY ListMade DEF Restatement
<1> QED BY <1>1, <1>2 DEF FlowsOf, Restatement

-----------------------------------------------------------------------------
(* The quantity that is measured *)

\* The largest of some numbers, and the smallest.
LEMMA Bounds ==
  ASSUME NEW n \in Nat, NEW I, I \subseteq 1 .. n, I # {}
  PROVE  Min(I) \in I /\ Max(I) \in I
<1>1. PICK m \in I : \A k \in I : m <= k
  <2>1. I \subseteq Nat
    OBVIOUS
  <2> QED BY <2>1, Least
<1>2. Min(I) \in I
  BY <1>1 DEF Min
<1> DEFINE D == {n - k : k \in I}
<1>3. D \subseteq Nat /\ D # {}
  OBVIOUS
<1>4. PICK d \in D : \A k \in D : d <= k
  BY <1>3, Least
<1>5. PICK g \in I : d = n - g
  OBVIOUS
<1>6. ASSUME NEW k \in I PROVE g >= k
  <2>1. d <= n - k
    BY <1>4
  <2> QED BY <1>5, <2>1
<1>7. Max(I) \in I
  BY <1>6 DEF Max
<1> QED BY <1>2, <1>7

\* A unit that is found is one of the id with a factor.
IsUnit(groups, id, h, j) ==
  groups[h].raw.units[j].id = id /\ groups[h].raw.units[j].factor # Nothing

LEMMA UnitPlace ==
  ASSUME NEW groups, Len(groups) \in Nat,
         \A h \in 1 .. Len(groups) : Len(groups[h].raw.units) \in Nat, NEW id
  PROVE  \/ /\ UnitIn(groups, id) = Nothing
            /\ \A h \in 1 .. Len(groups) :
                 \A j \in 1 .. Len(groups[h].raw.units) : ~IsUnit(groups, id, h, j)
         \/ \E h \in 1 .. Len(groups) : \E j \in 1 .. Len(groups[h].raw.units) :
              /\ IsUnit(groups, id, h, j)
              /\ UnitIn(groups, id)
                   = [group |-> groups[h].id, factor |-> groups[h].raw.units[j].factor]
<1> DEFINE unit(h, j) == groups[h].raw.units[j]
           Fits(h, j) == unit(h, j).id = id /\ unit(h, j).factor # Nothing
           J(h) == {j \in 1 .. Len(groups[h].raw.units) : Fits(h, j)}
           P(h) == IF J(h) # {} THEN Max(J(h)) ELSE 0
           G == {h \in 1 .. Len(groups) : P(h) # 0}
           L == IF G # {} THEN Max(G) ELSE 0
<1>1. UnitIn(groups, id)
        = (IF L = 0 THEN Nothing ELSE [group |-> groups[L].id, factor |-> unit(L, P(L)).factor])
  BY DEF UnitIn, SelectLastInSeq
<1>2. ASSUME NEW h \in 1 .. Len(groups)
      PROVE  IF J(h) # {} THEN P(h) \in J(h) /\ P(h) # 0 ELSE P(h) = 0
  <2>1. J(h) \subseteq 1 .. Len(groups[h].raw.units)
    OBVIOUS
  <2>2. J(h) # {} => Max(J(h)) \in J(h)
    BY <2>1, Bounds
  <2>3. \A j \in J(h) : j # 0
    BY <2>1
  <2> HIDE DEF J
  <2> QED BY <2>2, <2>3
<1>3. IF G # {} THEN L \in G /\ L # 0 ELSE L = 0
  <2>1. G \subseteq 1 .. Len(groups)
    OBVIOUS
  <2>2. G # {} => Max(G) \in G
    BY <2>1, Bounds
  <2>3. \A h \in G : h # 0
    BY <2>1
  <2> HIDE DEF G
  <2> QED BY <2>2, <2>3
<1> HIDE DEF L, P
<1>4. CASE G = {}
  <2>1. UnitIn(groups, id) = Nothing
    BY <1>1, <1>3, <1>4
  <2>2. \A h \in 1 .. Len(groups) : J(h) = {}
    BY <1>2, <1>4
  <2> QED BY <2>1, <2>2 DEF IsUnit
<1>5. CASE G # {}
  <2>1. L \in 1 .. Len(groups) /\ P(L) # 0 /\ L # 0
    BY <1>3, <1>5
  <2>2. P(L) \in J(L)
    BY <1>2, <2>1
  <2>3. /\ P(L) \in 1 .. Len(groups[L].raw.units) /\ Fits(L, P(L))
        /\ UnitIn(groups, id) = [group |-> groups[L].id, factor |-> unit(L, P(L)).factor]
    BY <1>1, <2>1, <2>2
  <2> QED BY <2>1, <2>3 DEF IsUnit
<1> QED BY <1>4, <1>5

\* A factor that is found is one of the property.
LEMMA FactorPlace ==
  ASSUME NEW entries, Len(entries) \in Nat, NEW property
  PROVE  \/ /\ FactorIn(entries, property) = Nothing
            /\ \A i \in 1 .. Len(entries) : entries[i].property # property
         \/ \E i \in 1 .. Len(entries) :
              /\ entries[i].property = property
              /\ FactorIn(entries, property) = Or(entries[i].factor, One)
<1> DEFINE I == {i \in 1 .. Len(entries) : entries[i].property = property}
           L == IF I # {} THEN Max(I) ELSE 0
<1>1. FactorIn(entries, property) = (IF L = 0 THEN Nothing ELSE Or(entries[L].factor, One))
  BY DEF FactorIn, SelectLastInSeq
<1>2. IF I # {} THEN L \in I /\ L # 0 ELSE L = 0
  <2>1. I \subseteq 1 .. Len(entries)
    OBVIOUS
  <2>2. I # {} => Max(I) \in I
    BY <2>1, Bounds
  <2>3. \A i \in I : i # 0
    BY <2>1
  <2> HIDE DEF I
  <2> QED BY <2>2, <2>3
<1> HIDE DEF L
<1>3. CASE I = {}
  BY <1>1, <1>2, <1>3
<1>4. CASE I # {}
  <2>1. L \in 1 .. Len(entries) /\ entries[L].property = property /\ L # 0
    BY <1>2, <1>4
  <2> QED BY <1>1, <2>1
<1> QED BY <1>3, <1>4

\* A reference unit is one of its group, a reference property one of its flow.
LEMMA ReferencePlaces ==
  ASSUME NEW list, IsList(list)
  PROVE  /\ ReferenceIn(list) # Nothing => \E i \in 1 .. Len(list) : ReferenceIn(list) = list[i]
         /\ list # <<>> => \E i \in 1 .. Len(list) : ReferenceProperty(list) = list[i].property
<1> DEFINE I == {i \in 1 .. Len(list) : list[i].reference}
           J == {i \in 1 .. Len(list) : list[i].factor # Nothing /\ Equal(list[i].factor, One)}
           at(K) == IF K # {} THEN Min(K) ELSE 0
           first(K) == IF at(K) = 0 THEN Nothing ELSE list[at(K)]
<1>1. Len(list) \in Nat
  BY ListLength
<1>2. ASSUME NEW K, K \subseteq 1 .. Len(list)
      PROVE  first(K) = Nothing \/ \E i \in 1 .. Len(list) : first(K) = list[i]
  <2>1. K # {} => Min(K) \in K
    BY <1>1, <1>2, Bounds
  <2> QED BY <1>2, <2>1
<1>3. ReferenceIn(list) = Or(first(I), first(J))
  BY DEF ReferenceIn, FirstOf, SelectInSeq
<1>4. list # <<>> => ReferenceProperty(list) = Or(first(I), list[1]).property
  BY DEF ReferenceProperty, FirstOf, SelectInSeq
<1>5. I \subseteq 1 .. Len(list) /\ J \subseteq 1 .. Len(list)
  OBVIOUS
<1> HIDE DEF I, J, first
<1>6. list # <<>> => 1 \in 1 .. Len(list)
  BY DEF IsList
<1> QED BY <1>2, <1>3, <1>4, <1>5, <1>6 DEF Or

\* What is found of a flow or a unit is a fraction, and a flow has a factor
\* of its reference property.
LEMMA FractionsFound ==
  ASSUME NEW s, Sound(s), HasFactors(s)
  PROVE  /\ Len(IterType(s, "unitgroups")) \in Nat
         /\ \A h \in 1 .. Len(IterType(s, "unitgroups")) :
              LET units == IterType(s, "unitgroups")[h].raw.units IN
              Len(units) \in Nat
              /\ \A j \in 1 .. Len(units) : units[j].factor \in Fractions \cup {Nothing}
         /\ \A id : UnitOf(s, id) # Nothing => UnitOf(s, id).factor \in Fractions
         /\ \A flow, p : FactorOf(s, flow, p) # Nothing => FactorOf(s, flow, p) \in Fractions
         /\ \A flow : ReferenceOf(s, flow) # Nothing =>
                        FactorOf(s, flow, ReferenceOf(s, flow)) # Nothing
<1> DEFINE groups == IterType(s, "unitgroups")
           order == s.order["unitgroups"]
<1>1. Len(order) \in Nat /\ "unitgroups" \in EntityTypes
  BY TypesAssumption, ListLength DEF Sound, IsStore
<1>2. /\ Len(groups) = Len(order)
      /\ \A h \in 1 .. Len(groups) : groups[h] = Get(s, "unitgroups", order[h])
  BY <1>1 DEF IterType
<1>3. \A h \in 1 .. Len(order) : Has(s, "unitgroups", order[h])
  BY <1>1 DEF Sound, OrderListsEntities
<1> HIDE DEF groups, order
<1>4. ASSUME NEW h \in 1 .. Len(groups)
      PROVE  /\ Len(groups[h].raw.units) \in Nat
             /\ \A j \in 1 .. Len(groups[h].raw.units) :
                  groups[h].raw.units[j].factor \in Fractions \cup {Nothing}
  <2>1. HaveFactors(groups[h].raw.units)
    BY <1>1, <1>2, <1>3 DEF HasFactors
  <2> QED BY <2>1, ListLength DEF HaveFactors
<1>5. ASSUME NEW id, UnitOf(s, id) # Nothing PROVE UnitOf(s, id).factor \in Fractions
  <2>1. UnitOf(s, id) = UnitIn(groups, id)
    BY <1>5 DEF UnitOf, groups
  <2>2. PICK h \in 1 .. Len(groups) : \E j \in 1 .. Len(groups[h].raw.units) :
          /\ IsUnit(groups, id, h, j)
          /\ UnitIn(groups, id) = [group |-> groups[h].id, factor |-> groups[h].raw.units[j].factor]
    BY <1>1, <1>2, <1>4, <1>5, <2>1, UnitPlace
  <2> QED BY <1>4, <2>1, <2>2 DEF IsUnit
<1>6. ASSUME NEW flow, NEW p
      PROVE  /\ FactorOf(s, flow, p) # Nothing => FactorOf(s, flow, p) \in Fractions
             /\ ReferenceOf(s, flow) # Nothing /\ p = ReferenceOf(s, flow)
                => FactorOf(s, flow, p) # Nothing
  <2>1. CASE ~Has(s, "flows", flow)
    BY <2>1 DEF FactorOf, ReferenceOf
  <2>2. CASE Has(s, "flows", flow)
    <3> DEFINE entries == Get(s, "flows", flow).raw.properties
    <3>1. HaveFactors(entries)
      BY <2>2 DEF HasFactors
    <3>2. FactorOf(s, flow, p) = FactorIn(entries, p) /\ ReferenceOf(s, flow) = ReferenceProperty(entries)
      BY <2>2 DEF FactorOf, ReferenceOf
    <3> HIDE DEF entries
    <3>3. IsList(entries) /\ Len(entries) \in Nat
      BY <3>1, ListLength DEF HaveFactors
    <3>4. \/ /\ FactorIn(entries, p) = Nothing
             /\ \A i \in 1 .. Len(entries) : entries[i].property # p
          \/ \E i \in 1 .. Len(entries) : FactorIn(entries, p) = Or(entries[i].factor, One)
      BY <3>3, FactorPlace
    <3>5. One \in Fractions
      BY DEF One, Fractions
    <3>6. \A i \in 1 .. Len(entries) : Or(entries[i].factor, One) \in Fractions
      BY <3>1, <3>5 DEF HaveFactors, Or
    <3>7. FactorIn(entries, p) # Nothing => FactorIn(entries, p) \in Fractions
      BY <3>4, <3>6
    <3>8. ReferenceProperty(entries) # Nothing =>
            \E i \in 1 .. Len(entries) : ReferenceProperty(entries) = entries[i].property
      BY <3>3, ReferencePlaces DEF ReferenceProperty
    <3>9. \A i \in 1 .. Len(entries) : Or(entries[i].factor, One) # Nothing
      BY TypesAssumption DEF Or, One, Fractions
    <3> QED BY <3>2, <3>4, <3>7, <3>8, <3>9
  <2> QED BY <2>1, <2>2
<1> QED BY <1>1, <1>2, <1>4, <1>5, <1>6 DEF groups

\* Where ids are apart, a reference unit is found by its id.
LEMMA ReferenceFound ==
  ASSUME NEW s, Sound(s), HasFactors(s), UnitsAreApart(s), NEW group,
         LET r == ReferenceUnit(s, group) IN
         r # Nothing /\ r.id # Nothing /\ r.factor # Nothing
  PROVE  LET r == ReferenceUnit(s, group) IN
         UnitOf(s, r.id) = [group |-> group, factor |-> r.factor] /\ r.factor \in Fractions
<1> DEFINE groups == IterType(s, "unitgroups")
           order == s.order["unitgroups"]
           r == ReferenceUnit(s, group)
           units == Get(s, "unitgroups", group).raw.units
<1>1. Len(order) \in Nat /\ "unitgroups" \in EntityTypes
  BY TypesAssumption, ListLength DEF Sound, IsStore
<1>2. /\ Len(groups) = Len(order)
      /\ \A h \in 1 .. Len(groups) : groups[h] = Get(s, "unitgroups", order[h])
  BY <1>1 DEF IterType
<1>3. Has(s, "unitgroups", group) /\ r = ReferenceIn(units)
  BY DEF ReferenceUnit
<1>4. PICK g \in 1 .. Len(order) : order[g] = group
  BY <1>1, <1>3 DEF Sound, OrderListsEntities, Has
<1>5. groups[g].id = group /\ groups[g].raw.units = units /\ g \in 1 .. Len(groups)
  BY <1>2, <1>3, <1>4 DEF Get, Has, Sound, FilesNamed
<1>6. IsList(units) /\ \A i \in 1 .. Len(units) : units[i].factor \in Fractions \cup {Nothing}
  BY <1>3 DEF HasFactors, HaveFactors
<1>7. r # Nothing /\ r.id # Nothing /\ r.factor # Nothing
  OBVIOUS
<1>8. UnitOf(s, r.id) = UnitIn(groups, r.id)
  BY <1>7 DEF UnitOf
<1>9. /\ Len(groups) \in Nat
      /\ \A h \in 1 .. Len(groups) : Len(groups[h].raw.units) \in Nat
  BY FractionsFound
<1>10. \A h, k \in 1 .. Len(groups) :
         \A i \in 1 .. Len(groups[h].raw.units) : \A j \in 1 .. Len(groups[k].raw.units) :
           LET id == groups[h].raw.units[i].id
           IN id # Nothing /\ id = groups[k].raw.units[j].id => h = k /\ i = j
  BY DEF UnitsAreApart
<1> HIDE DEF groups, order, r, units
<1>11. PICK i \in 1 .. Len(units) : r = units[i]
  BY <1>3, <1>6, <1>7, ReferencePlaces
<1>12. PICK h \in 1 .. Len(groups) : \E j \in 1 .. Len(groups[h].raw.units) :
         /\ IsUnit(groups, r.id, h, j)
         /\ UnitIn(groups, r.id) = [group |-> groups[h].id, factor |-> groups[h].raw.units[j].factor]
  <2>1. IsUnit(groups, r.id, g, i) /\ i \in 1 .. Len(groups[g].raw.units)
    BY <1>5, <1>7, <1>11 DEF IsUnit
  <2>2. \A id :
          \/ \A h \in 1 .. Len(groups) : \A j \in 1 .. Len(groups[h].raw.units) :
               ~IsUnit(groups, id, h, j)
          \/ \E h \in 1 .. Len(groups) : \E j \in 1 .. Len(groups[h].raw.units) :
               /\ IsUnit(groups, id, h, j)
               /\ UnitIn(groups, id)
                    = [group |-> groups[h].id, factor |-> groups[h].raw.units[j].factor]
    BY <1>9, UnitPlace
  <2> QED BY <1>5, <2>1, <2>2
<1>13. PICK j \in 1 .. Len(groups[h].raw.units) :
         /\ IsUnit(groups, r.id, h, j)
         /\ UnitIn(groups, r.id) = [group |-> groups[h].id, factor |-> groups[h].raw.units[j].factor]
  BY <1>12
<1>14. h = g /\ j = i
  BY <1>5, <1>7, <1>10, <1>11, <1>13 DEF IsUnit
<1> QED BY <1>5, <1>6, <1>7, <1>8, <1>11, <1>13, <1>14 DEF r

\* A factor of 1 changes nothing.
LEMMA OnceOver ==
  ASSUME NEW a \in Fractions, NEW f \in Fractions, Equal(f, One)
  PROVE  Equal(a, Times(a, f))
<1> DEFINE n == a[1]
           d == a[2]
           k == f[1]
<1>1. n \in Int /\ d \in Int /\ k \in Int /\ f[2] = k
  BY DEF Fractions, Equal, One
<1>2. Times(a, f)[1] = n * k /\ Times(a, f)[2] = d * k
  BY <1>1 DEF Times
<1> HIDE DEF n, d, k
<1>3. n * (d * k) = (n * k) * d
  BY <1>1
<1> QED BY <1>2, <1>3 DEF Equal, n, d

\* An amount in a unit u by a property p is as much as in a reference unit t,
\* by the reference property r.
LEMMA AsMuch ==
  ASSUME NEW a \in Fractions, NEW u \in Fractions, NEW r \in Fractions, NEW p \in Fractions,
         NEW t \in Fractions, Equal(t, One)
  PROVE  Equal(Over(Times(Times(a, Over(Times(u, r), p)), t), r), Over(Times(a, u), p))
<1> DEFINE a1 == a[1] a2 == a[2] u1 == u[1] u2 == u[2] r1 == r[1] r2 == r[2]
           p1 == p[1] p2 == p[2] t1 == t[1] t2 == t[2]
<1>1. /\ a1 \in Int /\ a2 \in Int /\ u1 \in Int /\ u2 \in Int /\ r1 \in Int /\ r2 \in Int
      /\ p1 \in Int /\ p2 \in Int /\ t1 \in Int /\ t2 \in Int
  BY DEF Fractions
<1>2. t2 = t1
  BY <1>1 DEF Equal, One
<1>3. Over(Times(a, u), p) = <<(a1 * u1) * p2, (a2 * u2) * p1>>
  BY DEF Over, Times
<1>4. Over(Times(Times(a, Over(Times(u, r), p)), t), r)
        = <<((a1 * ((u1 * r1) * p2)) * t1) * r2, ((a2 * ((u2 * r2) * p1)) * t2) * r1>>
  BY DEF Over, Times
<1> HIDE DEF a1, a2, u1, u2, r1, r2, p1, p2, t1, t2
<1>5. (((a1 * ((u1 * r1) * p2)) * t1) * r2) * ((a2 * u2) * p1)
        = ((a1 * u1) * p2) * (((a2 * ((u2 * r2) * p1)) * t1) * r1)
  BY <1>1
<1> QED BY <1>2, <1>3, <1>4, <1>5 DEF Equal

\* One exchange before and after.
LEMMA ExchangeConserved ==
  ASSUME NEW s, Sound(s), HasFactors(s), NEW x, IsUse(x), Resolves(s, x)
  PROVE  LET after == NormalizeExchange(s, x) IN
         /\ Equal(after.amount, Times(x.amount, Factor(s, x)))
         /\ MeasuresInReference(s, x) /\ UnitsAreApart(s) /\ after.unitId # Nothing
            => Equal(Quantity(s, after), Quantity(s, x))
<1> DEFINE after == NormalizeExchange(s, x)
           unit == UnitOf(s, x.unitId)
           property == PropertyOf(s, x, unit)
           reference == ReferenceOf(s, x.flow)
           crosses == property # reference
           goal == IF crosses THEN GroupOf(s, reference) ELSE unit.group
           best == ReferenceUnit(s, goal)
           u == unit.factor
           r == FactorOf(s, x.flow, reference)
           p == FactorOf(s, x.flow, property)
<1>1. /\ unit # Nothing /\ property # Nothing /\ GroupOf(s, property) = unit.group
      /\ reference # Nothing /\ p # Nothing /\ goal # Nothing /\ best # Nothing
  BY DEF Resolves
<1>2. u \in Fractions /\ r \in Fractions /\ p \in Fractions
  BY <1>1, FractionsFound
<1>3. x.amount \in Fractions
  BY DEF IsUse, Resolves
<1>4. Factor(s, x) = Over(Times(u, r), p)
  BY DEF Factor
<1>5. Quantity(s, x) = Over(Times(x.amount, u), p)
  BY DEF Quantity
<1>6. /\ after.flow = x.flow
      /\ \/ after = x /\ Equal(Factor(s, x), One)
         \/ /\ after.amount = Times(x.amount, Factor(s, x))
            /\ after.unitId = best.id
            /\ after.property = (IF crosses THEN reference ELSE x.property)
  BY ExchangeRestated
<1>7. property = (IF x.property = Nothing THEN OnlyOf(Matching(s, x.flow, unit.group))
                  ELSE IF GroupOf(s, x.property) = Nothing THEN Nothing ELSE x.property)
  BY DEF PropertyOf
<1>8. MeasuresInReference(s, x) => best.factor # Nothing /\ Equal(best.factor, One)
  BY DEF MeasuresInReference
<1>9. Quantity(s, after)
        = Over(Times(after.amount, UnitOf(s, after.unitId).factor),
               FactorOf(s, after.flow, PropertyOf(s, after, UnitOf(s, after.unitId))))
  BY DEF Quantity
<1>10. \A other : PropertyOf(s, after, other)
         = (IF after.property = Nothing THEN OnlyOf(Matching(s, after.flow, other.group))
            ELSE IF GroupOf(s, after.property) = Nothing THEN Nothing ELSE after.property)
  BY DEF PropertyOf
<1> DEFINE factor == Factor(s, x)
<1> HIDE DEF after, unit, property, reference, best, u, r, p, factor
<1>11. CASE after = x /\ Equal(factor, One)
  <2>1. factor \in Fractions
    BY <1>2, <1>4 DEF Over, Times, Fractions, factor
  <2>2. Equal(x.amount, Times(x.amount, factor))
    BY <1>3, <1>11, <2>1, OnceOver
  <2>3. Equal(Quantity(s, after), Quantity(s, x))
    BY <1>11 DEF Equal
  <2> QED BY <1>11, <2>2, <2>3 DEF after, factor
<1>12. CASE /\ after.amount = Times(x.amount, factor)
            /\ after.unitId = best.id
            /\ after.property = (IF crosses THEN reference ELSE x.property)
  <2>1. Equal(after.amount, Times(x.amount, factor))
    BY <1>12 DEF Equal
  <2>2. ASSUME MeasuresInReference(s, x), UnitsAreApart(s), after.unitId # Nothing
        PROVE  Equal(Quantity(s, after), Quantity(s, x))
    <3> DEFINE other == UnitOf(s, after.unitId)
               t == best.factor
    <3>1. t # Nothing /\ Equal(t, One)
      BY <1>8, <2>2
    <3>2. other = [group |-> goal, factor |-> t] /\ t \in Fractions
      BY <1>1, <1>12, <2>2, <3>1, ReferenceFound DEF best
    <3> HIDE DEF other, t, goal
    <3>3. other.group = goal /\ other.factor = t
      BY <3>2
    <3>4. PropertyOf(s, after, other) = reference
      <4>1. CASE crosses
        BY <4>1, <1>1, <1>10, <1>12 DEF goal
      <4>2. CASE ~crosses
        BY <4>2, <1>1, <1>6, <1>7, <1>10, <1>12, <3>3 DEF goal
      <4> QED BY <4>1, <4>2
    <3>5. Quantity(s, after) = Over(Times(Times(x.amount, Over(Times(u, r), p)), t), r)
      BY <1>4, <1>6, <1>9, <1>12, <3>3, <3>4 DEF other, r, factor
    <3> QED BY <1>2, <1>3, <1>5, <3>1, <3>2, <3>5, AsMuch
  <2> QED BY <2>1, <2>2 DEF after, factor
<1> QED BY <1>6, <1>11, <1>12 DEF factor

-----------------------------------------------------------------------------
(* The import *)

\* The store against everything read, at every step of an import.
BelongInv ==
  /\ ImportInv
  /\ store.ok
  /\ pc = "start" => entry = 0
  /\ entry \in 0 .. Len(source.entries)
  /\ Noted(format, ItemsRead)
  /\ Owned(format, store, ItemsRead)
  /\ pc = "read" => Belongs(format, store, ItemsRead)

LEMMA EntriesRead ==
  ASSUME source \in Sources
  PROVE  LET entries == source.entries IN
         /\ Len(entries) \in Nat
         /\ \A k \in 1 .. Len(entries) :
              /\ Len(entries[k].items) \in Nat
              /\ \A j \in 1 .. Len(entries[k].items) : HasLists(entries[k].items[j])
         /\ \A kind : ReadUpTo(entries, kind, 0) = <<>>
         /\ \A kind : \A k \in 1 .. Len(entries) :
              ReadUpTo(entries, kind, k)
                = (IF Allowed(entries[k], kind)
                   THEN NotedItems(ReadUpTo(entries, kind, k - 1), kind, entries[k].items)
                   ELSE ReadUpTo(entries, kind, k - 1))
<1> DEFINE entries == source.entries
<1>1. /\ Len(entries) \in Nat
      /\ \A k \in 1 .. Len(entries) :
           /\ Len(entries[k].items) \in Nat
           /\ \A j \in 1 .. Len(entries[k].items) : HasLists(entries[k].items[j])
  BY SourcesAssumption, ListLength
<1> HIDE DEF entries
<1>2. \A kind :
        /\ ReadUpTo(entries, kind, 0) = <<>>
        /\ \A k \in 1 .. Len(entries) :
             ReadUpTo(entries, kind, k)
               = (IF Allowed(entries[k], kind)
                  THEN NotedItems(ReadUpTo(entries, kind, k - 1), kind, entries[k].items)
                  ELSE ReadUpTo(entries, kind, k - 1))
  BY <1>1, EntriesStep
<1> QED BY <1>1, <1>2 DEF entries

\* Before the first object nothing is missing.
LEMMA NothingRead ==
  ASSUME NEW kind PROVE Noted(kind, <<>>) /\ Belongs(kind, EmptyStore, <<>>)
<1>1. IsList(<<>>) /\ Len(<<>>) = 0
  BY DEF IsList
<1>2. EmptyStore.order["processes"] = <<>> /\ DOMAIN EmptyStore.exchanges = {}
  BY TypesAssumption DEF EmptyStore, NoFiles
<1>3. \A p : Exchanges(EmptyStore, p) = <<>>
  BY <1>2 DEF Exchanges
<1>4. \A t, id : ~Has(EmptyStore, t, id)
  BY DEF EmptyStore, NoFiles, Has
<1>5. Catalogued(EmptyStore)
  BY <1>1, <1>3, <1>4 DEF Catalogued, HasFactors, HasUses
<1> QED
  BY <1>1, <1>2, <1>3, <1>5 DEF Noted, Belongs, Owned, OneOfEach, AsLastRead

\* An entry, and what is refused of it.
LEMMA EntryBelongs ==
  ASSUME BelongInv, pc = "read", NEW items, Len(items) \in Nat,
         \A k \in 1 .. Len(items) : HasLists(items[k]), Read(items), ImportInv',
         entry + 1 \in 1 .. Len(source.entries),
         ReadUpTo(source.entries, format, entry + 1) = NotedItems(ItemsRead, format, items)
  PROVE  BelongInv'
<1> DEFINE after == ReadItems(store, format, items)
           read == NotedItems(ItemsRead, format, items)
<1>1. Noted(format, read) /\ (after.ok => Belongs(format, after, read))
  BY ItemsBelong DEF BelongInv, ImportInv
<1>2. \/ /\ after.ok /\ store' = after /\ entry' = entry + 1
         /\ source' = source /\ pc' = pc /\ format' = format
      \/ /\ pc' = "done" /\ source' = source /\ entry' = entry
         /\ format' = format /\ store' = store
  BY DEF Read, Fail, input, core
<1> HIDE DEF after, read
<1>3. CASE /\ after.ok /\ store' = after /\ entry' = entry + 1
           /\ source' = source /\ pc' = pc /\ format' = format
  <2>1. ItemsRead' = read
    BY <1>3 DEF ItemsRead, read
  <2>2. entry' \in 0 .. Len(source'.entries)
    BY <1>3
  <2> QED BY <1>1, <1>3, <2>1, <2>2 DEF BelongInv, Belongs
<1>4. CASE /\ pc' = "done" /\ source' = source /\ entry' = entry
           /\ format' = format /\ store' = store
  <2>1. ItemsRead' = ItemsRead
    BY <1>4 DEF ItemsRead
  <2> QED BY <1>4, <2>1 DEF BelongInv
<1> QED BY <1>2, <1>3, <1>4

\* The end of the adapter leaves the flows of the exchanges.
LEMMA FinishBelongs ==
  ASSUME BelongInv, pc = "read",
         LET after == IF format = "jsonld" THEN AddProviderGraph(JsonLdResolved) ELSE store
         IN after.ok /\ store' = after,
         pc' = "write", UNCHANGED <<input, entry, format>>, ImportInv'
  PROVE  BelongInv'
<1> DEFINE after == IF format = "jsonld" THEN AddProviderGraph(JsonLdResolved) ELSE store
           read == ItemsRead
<1>1. after.ok /\ store' = after
  OBVIOUS
<1>2. ItemsRead' = read /\ source' = source /\ entry' = entry /\ format' = format
  BY DEF ItemsRead, input
<1>3. Noted(format, read) /\ Belongs(format, store, read)
  BY DEF BelongInv
<1> HIDE DEF read
<1>4. Owned(format, after, read)
  <2>1. CASE format # "jsonld"
    BY <2>1, <1>3 DEF Belongs
  <2>2. CASE format = "jsonld"
    <3>1. Catalogued(store) /\ AsLastRead(store, read) /\ Sound(store)
      BY <1>3, <2>2 DEF Belongs, Owned, BelongInv, ImportInv, StoreInv
    <3>2. \A p : Exchanges(after, p) = Restatement(store, Exchanges(store, p))
      BY <1>1, <2>2, <3>1, FinishedExchanges DEF JsonLdResolved
    <3> HIDE DEF after
    <3>3. \A p : /\ Len(Exchanges(store, p)) \in Nat
                 /\ \A i \in 1 .. Len(Exchanges(store, p)) : IsUse(Exchanges(store, p)[i])
      BY <3>1, ExchangesListed DEF Catalogued, HasUses
    <3>4. \A p : FlowsOf(Exchanges(after, p)) = FlowsOf(Exchanges(store, p))
      BY <3>1, <3>2, <3>3, FinishedFlows
    <3>5. AsLastRead(after, read)
      BY <3>1, <3>4 DEF AsLastRead
    <3> QED BY <2>2, <3>5 DEF Owned
  <2> QED BY <2>1, <2>2
<1> HIDE DEF after
<1> QED BY <1>1, <1>2, <1>3, <1>4 DEF BelongInv

LEMMA BelongInvariance == Spec => []BelongInv
<1>1. Init => BelongInv
  <2> SUFFICES ASSUME Init PROVE BelongInv
    OBVIOUS
  <2>1. source \in Sources /\ entry = 0 /\ format = Nothing /\ store = EmptyStore
    BY DEF Init
  <2>2. ImportInv
    BY EmptyFound DEF Init, ImportInv
  <2>3. ItemsRead = <<>> /\ Len(source.entries) \in Nat
    BY <2>1, EntriesRead DEF ItemsRead
  <2>4. store.ok
    BY <2>1 DEF EmptyStore
  <2> QED BY <2>1, <2>2, <2>3, <2>4, NothingRead DEF BelongInv, Belongs
<1>2. ASSUME BelongInv, [Next]_vars, ImportInv' PROVE BelongInv'
  <2>1. ASSUME UNCHANGED <<input, core>>, pc' \notin {"start", "read"} \/ UNCHANGED pc
        PROVE  BelongInv'
    <3>1. source' = source /\ entry' = entry /\ store' = store /\ format' = format
      BY <2>1 DEF input, core
    <3>2. ItemsRead' = ItemsRead
      BY <3>1 DEF ItemsRead
    <3> QED BY <1>2, <2>1, <3>1, <3>2 DEF BelongInv
  <2>2. ASSUME NEW why, Fail(why) PROVE BelongInv'
    BY <2>2, <2>1 DEF Fail
  <2>3. CASE Cancel \/ Done \/ UNCHANGED vars
    BY <2>3, <2>1 DEF Cancel, Done, vars
  <2>4. CASE Start
    <3>1. \/ \E why : Fail(why)
          \/ /\ pc = "start" /\ pc' = "read" /\ source' = source /\ entry' = entry
             /\ store' = store
      BY <2>4 DEF Start, Stops, Continues, input
    <3>2. CASE /\ pc = "start" /\ pc' = "read" /\ source' = source /\ entry' = entry
               /\ store' = store
      <4>1. source \in Sources /\ entry = 0 /\ store = EmptyStore
        BY <1>2, <3>2 DEF BelongInv, ImportInv
      <4>2. ItemsRead' = <<>>
        BY <3>2, <4>1, EntriesRead DEF ItemsRead
      <4> QED BY <1>2, <3>2, <4>1, <4>2, NothingRead DEF BelongInv, Belongs
    <3> QED BY <3>1, <3>2, <2>2
  <2>5. CASE ReadEntry
    <3> DEFINE e == source.entries[entry + 1]
    <3>1. /\ Len(source.entries) \in Nat /\ entry + 1 \in 1 .. Len(source.entries)
          /\ Len(e.items) \in Nat /\ \A k \in 1 .. Len(e.items) : HasLists(e.items[k])
          /\ entry + 1 - 1 = entry
      <4>1. source \in Sources /\ entry \in 0 .. Len(source.entries)
        BY <1>2 DEF BelongInv, ImportInv
      <4>2. Len(source.entries) \in Nat
        BY <4>1, EntriesRead
      <4>3. entry + 1 \in 1 .. Len(source.entries) /\ entry + 1 - 1 = entry
        BY <2>5, <4>1, <4>2 DEF ReadEntry
      <4> QED BY <4>1, <4>2, <4>3, EntriesRead
    <3>2. ReadUpTo(source.entries, format, entry + 1)
            = (IF Allowed(e, format) THEN NotedItems(ItemsRead, format, e.items) ELSE ItemsRead)
      BY <1>2, <3>1, EntriesRead DEF BelongInv, ImportInv, ItemsRead
    <3>3. \/ \E why : Fail(why)
          \/ pc = "read" /\ ~Allowed(e, format) /\ Read(<<>>)
          \/ pc = "read" /\ Allowed(e, format) /\ Read(e.items)
      BY <2>5 DEF ReadEntry, Stops, Continues
    <3> HIDE DEF e
    <3>4. CASE pc = "read" /\ ~Allowed(e, format) /\ Read(<<>>)
      <4>1. Len(<<>>) = 0
        OBVIOUS
      <4>2. NotedItems(ItemsRead, format, <<>>) = ItemsRead
        BY <4>1, NotedStep
      <4> QED BY <1>2, <3>1, <3>2, <3>4, <4>1, <4>2, EntryBelongs
    <3>5. CASE pc = "read" /\ Allowed(e, format) /\ Read(e.items)
      BY <1>2, <3>1, <3>2, <3>5, EntryBelongs
    <3> QED BY <3>3, <3>4, <3>5, <2>2
  <2>6. CASE FinishReading
    <3>1. pc = "read"
      BY <2>6 DEF FinishReading
    <3>2. \/ \E why : Fail(why)
          \/ /\ LET after == IF format = "jsonld" THEN AddProviderGraph(JsonLdResolved) ELSE store
                IN after.ok /\ store' = after
             /\ pc' = "write" /\ UNCHANGED <<input, entry, format>>
      BY <2>6 DEF FinishReading
    <3> QED BY <1>2, <3>1, <3>2, <2>2, FinishBelongs
  <2>7. CASE WriteTidas
    BY <2>7, <2>1, <2>2 DEF WriteTidas, Stops, Continues, Goes
  <2>8. CASE Validate
    BY <2>8, <2>1, <2>2 DEF Validate, Stops, Continues, Goes
  <2>9. CASE WriteIlcd
    BY <2>9, <2>1, <2>2 DEF WriteIlcd, Stops, Continues, Goes
  <2>10. CASE WriteMapping
    BY <2>10, <2>1, <2>2 DEF WriteMapping, Stops, Continues, Goes
  <2>11. CASE WriteBundles
    BY <2>11, <2>1, <2>2 DEF WriteBundles, Stops, Continues, Goes
  <2>12. CASE WriteReport
    BY <2>12, <2>1 DEF WriteReport, Goes
  <2>13. CASE Commit
    BY <2>13, <2>1, <2>2 DEF Commit, Stops, Continues
  <2>14. CASE IoFails
    BY <2>14, <2>2 DEF IoFails
  <2> QED
    BY <1>2, <2>3, <2>4, <2>5, <2>6, <2>7, <2>8, <2>9, <2>10, <2>11, <2>12, <2>13, <2>14
    DEF Next, Step
<1> QED BY <1>1, <1>2, ImportInvariance, PTL DEF Spec

\* Whatever the datasets and the objects of a source: each EcoSpold dataset is a
\* process of its own with all its exchanges, and a JSON-LD process has the
\* exchanges of the last object of its id that have a flow, and no others
\* (ecospold.rs:302-325, openlca_jsonld.rs:58-76, store.rs:155-165).
THEOREM ExchangesTheorem == Spec => []ExchangesBelong
<1>1. BelongInv => ExchangesBelong
  <2> SUFFICES ASSUME BelongInv PROVE ExchangesBelong
    OBVIOUS
  <2>1. Owned(format, store, ItemsRead)
    BY DEF BelongInv
  <2> QED BY <2>1 DEF ExchangesBelong, Owned, OneOfEach, AsLastRead, Declares, IsLast
<1> QED BY <1>1, BelongInvariance, PTL

\* Only the end of reading starts the writing.
LEMMA ReadingEnds ==
  ASSUME [Next]_vars, pc = "read", pc' = "write", format = "jsonld"
  PROVE  LET after == AddProviderGraph(JsonLdResolved) IN after.ok /\ store' = after
<1>1. ASSUME NEW why, Fail(why) PROVE FALSE
  BY <1>1 DEF Fail
<1>2. CASE Cancel \/ Done \/ UNCHANGED vars
  BY <1>2 DEF Cancel, Done, vars
<1>3. CASE Start
  BY <1>3, <1>1 DEF Start, Stops, Continues
<1>4. CASE ReadEntry
  <2>1. (\E why : Fail(why)) \/ \E items : Read(items)
    BY <1>4 DEF ReadEntry, Stops
  <2>2. ASSUME NEW items, Read(items) PROVE pc' = "done" \/ pc' = pc
    BY <2>2 DEF Read, Fail
  <2> QED BY <1>1, <2>1, <2>2
<1>5. CASE FinishReading
  BY <1>5, <1>1 DEF FinishReading
<1>6. CASE \/ WriteTidas \/ Validate \/ WriteIlcd \/ WriteMapping \/ WriteBundles
           \/ WriteReport \/ Commit \/ IoFails
  BY <1>6, <1>1
  DEF WriteTidas, Validate, WriteIlcd, WriteMapping, WriteBundles, WriteReport, Commit,
      IoFails, Stops, Continues
<1> QED BY <1>2, <1>3, <1>4, <1>5, <1>6 DEF Next, Step

\* Whatever a JSON-LD source measures: an exchange that can be restated is
\* restated by its factor and not again, and where the units have ids of their
\* own and the reference units a factor of 1, in the reference unit of the
\* reference property of its flow it is as much as it was
\* (openlca_normalize.rs:51-103, 167-262).
THEOREM QuantityTheorem == Spec => QuantityConserved
<1>1. ASSUME BelongInv, [Next]_vars, pc = "read", pc' = "write", format = "jsonld",
             NEW p \in DOMAIN store.exchanges, NEW i \in 1 .. Len(store.exchanges[p]),
             Resolves(store, store.exchanges[p][i])
      PROVE  LET before == store.exchanges[p][i]
                 after == store'.exchanges[p][i]
             IN /\ Equal(after.amount, Times(before.amount, Factor(store, before)))
                /\ (/\ MeasuresInReference(store, before) /\ UnitsAreApart(store)
                    /\ after.unitId # Nothing)
                   => Equal(Quantity(store', after), Quantity(store, before))
  <2> DEFINE before == store.exchanges[p][i]
             after == NormalizeExchange(store, before)
             q == Exchanges(store, p)
  <2>1. Sound(store) /\ Catalogued(store)
    BY <1>1 DEF BelongInv, ImportInv, StoreInv, Belongs
  <2>2. SameCatalog(store, store') /\ \A o : Exchanges(store', o) = Restatement(store, Exchanges(store, o))
    BY <1>1, <2>1, ReadingEnds, FinishedExchanges DEF JsonLdResolved
  <2>3. q = store.exchanges[p] /\ Len(q) \in Nat /\ i \in 1 .. Len(q)
    BY <1>1, <2>1, ExchangesListed DEF Exchanges
  <2>4. IsUse(before)
    BY <2>1, <2>3 DEF Catalogued, HasUses
  <2> HIDE DEF before, q
  <2>5. Exchanges(store', p)[i] = after /\ Exchanges(store', p) # <<>>
    <3>1. Len(Restatement(store, q)) = Len(q) /\ Restatement(store, q)[i] = NormalizeExchange(store, q[i])
      BY <2>3, ListMade DEF Restatement
    <3>2. Restatement(store, q) # <<>>
      BY <2>3, <3>1
    <3> QED BY <2>2, <2>3, <3>1, <3>2 DEF q, before
  <2>6. store'.exchanges[p][i] = after
    BY <2>5 DEF Exchanges
  <2>7. Quantity(store', after) = Quantity(store, after)
    BY <2>2, SameNormalized
  <2>8. /\ Equal(after.amount, Times(before.amount, Factor(store, before)))
        /\ (/\ MeasuresInReference(store, before) /\ UnitsAreApart(store)
            /\ after.unitId # Nothing)
           => Equal(Quantity(store, after), Quantity(store, before))
    BY <1>1, <2>1, <2>4, ExchangeConserved DEF Catalogued, before
  <2> HIDE DEF after
  <2> QED BY <2>6, <2>7, <2>8 DEF before
<1>2. BelongInv /\ [Next]_vars =>
        (pc = "read" /\ pc' = "write" /\ format = "jsonld" =>
           \A p \in DOMAIN store.exchanges : \A i \in 1 .. Len(store.exchanges[p]) :
             LET before == store.exchanges[p][i]
                 after == store'.exchanges[p][i]
             IN Resolves(store, before) =>
                  /\ Equal(after.amount, Times(before.amount, Factor(store, before)))
                  /\ (/\ MeasuresInReference(store, before) /\ UnitsAreApart(store)
                      /\ after.unitId # Nothing)
                     => Equal(Quantity(store', after), Quantity(store, before)))
  BY <1>1
<1> QED BY <1>2, BelongInvariance, PTL DEF Spec, QuantityConserved
=============================================================================
