-------------------------- MODULE UnitNormalization --------------------------
(***************************************************************************)
(* adapters/openlca_normalize.rs: the amounts of the exchanges of a        *)
(* JSON-LD import are restated in the reference unit of the reference flow *)
(* property of their flow.  An amount or a factor is a fraction            *)
(* <<numerator, denominator>>; a missing one is Nothing.                   *)
(***************************************************************************)
EXTENDS PackageWriter

Times(a, b) == <<a[1] * b[1], a[2] * b[2]>>
Over(a, b) == <<a[1] * b[2], a[2] * b[1]>>
Equal(a, b) == a[1] * b[2] = b[1] * a[2]
One == <<1, 1>>

\* add_unit_indexes: of the units with one id and a factor the last one counts.
UnitIn(groups, id) ==
  LET place(group) == SelectLastInSeq(group.raw.units, LAMBDA u : u.id = id /\ u.factor # Nothing)
      last == SelectLastInSeq(groups, LAMBDA group : place(group) # 0)
  IN IF last = 0 THEN Nothing
     ELSE [group |-> groups[last].id, factor |-> groups[last].raw.units[place(groups[last])].factor]
UnitOf(store, id) == IF id = Nothing THEN Nothing ELSE UnitIn(IterType(store, "unitgroups"), id)

\* The unit that is marked, or the first whose factor is 1.
ReferenceIn(units) ==
  Or(FirstOf(units, LAMBDA u : u.reference),
     FirstOf(units, LAMBDA u : u.factor # Nothing /\ Equal(u.factor, One)))
ReferenceUnit(store, group) ==
  IF ~Has(store, "unitgroups", group) THEN Nothing
  ELSE ReferenceIn(Get(store, "unitgroups", group).raw.units)

\* add_property_indexes.
GroupOf(store, property) ==
  IF property = Nothing \/ ~Has(store, "flowproperties", property) THEN Nothing
  ELSE Get(store, "flowproperties", property).raw.group

\* add_flow_indexes: the factors of a flow (a factor that is not there is 1),
\* of which the last of a property counts, and its reference property.
FactorIn(entries, property) ==
  LET last == SelectLastInSeq(entries, LAMBDA p : p.property = property)
  IN IF last = 0 THEN Nothing ELSE Or(entries[last].factor, One)
FactorOf(store, flow, property) ==
  IF ~Has(store, "flows", flow) THEN Nothing
  ELSE FactorIn(Get(store, "flows", flow).raw.properties, property)
ReferenceOf(store, flow) ==
  IF ~Has(store, "flows", flow) THEN Nothing
  ELSE ReferenceProperty(Get(store, "flows", flow).raw.properties)

\* exchange_property: the property of the exchange, or the only one of the
\* group of its unit that the flow has.
Matching(store, flow, group) ==
  {p \in Elements(store.order["flowproperties"]) :
     /\ GroupOf(store, p) = group
     /\ ReferenceOf(store, flow) = Nothing \/ FactorOf(store, flow, p) # Nothing}
OnlyOf(set) == IF Cardinality(set) = 1 THEN CHOOSE p \in set : TRUE ELSE Nothing
PropertyOf(store, x, unit) ==
  IF x.property = Nothing THEN OnlyOf(Matching(store, x.flow, unit.group))
  ELSE IF GroupOf(store, x.property) = Nothing THEN Nothing ELSE x.property

\* The guards of normalize_exchange, in one: the exchange can be restated.
Resolves(store, x) ==
  LET unit == UnitOf(store, x.unitId)
      property == PropertyOf(store, x, unit)
      reference == ReferenceOf(store, x.flow)
      target == IF property = reference THEN unit.group ELSE GroupOf(store, reference)
  IN /\ unit # Nothing
     /\ property # Nothing /\ GroupOf(store, property) = unit.group
     /\ reference # Nothing
     /\ FactorOf(store, x.flow, property) # Nothing
     /\ FactorOf(store, x.flow, property)[1] # 0
     /\ FactorOf(store, x.flow, reference)[1] # 0
     /\ target # Nothing /\ ReferenceUnit(store, target) # Nothing
     /\ x.amount # Nothing

\* Mutant: the factors of the two properties change places.
FactorInverted(store, x) ==
  LET unit == UnitOf(store, x.unitId)
      property == PropertyOf(store, x, unit)
  IN Over(Times(unit.factor, FactorOf(store, x.flow, property)),
          FactorOf(store, x.flow, ReferenceOf(store, x.flow)))

\* The factor of an exchange, and the exchange it becomes.
Factor(store, x) ==
  LET unit == UnitOf(store, x.unitId)
      property == PropertyOf(store, x, unit)
  IN Over(Times(unit.factor, FactorOf(store, x.flow, ReferenceOf(store, x.flow))),
          FactorOf(store, x.flow, property))

NormalizeExchange(store, x) ==
  IF ~Resolves(store, x) \/ Equal(Factor(store, x), One) THEN x
  ELSE LET unit == UnitOf(store, x.unitId)
           reference == ReferenceOf(store, x.flow)
           crosses == PropertyOf(store, x, unit) # reference
           target == ReferenceUnit(store, IF crosses THEN GroupOf(store, reference)
                                          ELSE unit.group)
       IN [x EXCEPT !.amount = Times(@, Factor(store, x)),
                    !.unitId = target.id,
                    !.unit = target.name,
                    !.property = IF crosses THEN reference ELSE @]

\* normalize_exchange_amounts: the indexes are made once; the exchanges of each
\* process are rewritten.
NormalizeProcess(store, indexed, process) ==
  RewriteExchanges(store, process, LAMBDA x : NormalizeExchange(indexed, x))
NormalizeAmounts(store) ==
  ForEach(LAMBDA s, process : NormalizeProcess(s, store, process),
          store, store.order["processes"])

\* The quantity of an exchange, as its flow measures it: what normalization
\* must not change.
Quantity(store, x) ==
  Over(Times(x.amount, UnitOf(store, x.unitId).factor),
       FactorOf(store, x.flow, PropertyOf(store, x, UnitOf(store, x.unitId))))

\* A source measures in its reference units when their factor is 1, and an id
\* is that of one unit.
MeasuresInReference(store, x) ==
  LET isOne(unit) == unit # Nothing /\ unit.factor # Nothing /\ Equal(unit.factor, One)
  IN /\ isOne(ReferenceUnit(store, UnitOf(store, x.unitId).group))
     /\ isOne(ReferenceUnit(store, GroupOf(store, ReferenceOf(store, x.flow))))

UnitsAreApart(store) ==
  LET groups == IterType(store, "unitgroups") IN
  \A g, h \in 1 .. Len(groups) :
    \A i \in 1 .. Len(groups[g].raw.units) : \A j \in 1 .. Len(groups[h].raw.units) :
      LET id == groups[g].raw.units[i].id
      IN id # Nothing /\ id = groups[h].raw.units[j].id => g = h /\ i = j
=============================================================================
