-------------------------- MODULE ProcessSemantics --------------------------
(***************************************************************************)
(* The allocation and reference analysis of a process:                     *)
(* crates/tidas-validation/src/process_semantics.rs.                       *)
(* analyze_process_semantics reads the exchanges of a process, what it is  *)
(* normalised to and how each exchange is allocated, and says for every    *)
(* exchange and every reference which part of the one is charged to the    *)
(* other.  The caller first reserves the memory that                       *)
(* process_semantic_projection_memory_bytes foresees, from a walk of its   *)
(* own.                                                                    *)
(*                                                                         *)
(* An id is a model value or number, NoId one that id() refuses.  Fractions*)
(* are counted in thousandths of a percent, the unit of the tolerance.     *)
(* A check that the analysis records is [check, at, code]: the code says   *)
(* what is wrong, "" that nothing is.                                      *)
(***************************************************************************)
EXTENDS Lists, FiniteSets, FiniteSetsExt

CONSTANTS
  Analyzed,   \* the documents: [type, references, basis, exchanges]
  Evidence,   \* the flows the caller knows: a sequence of [flow, version, type]
  NoId,       \* a value that is not an id
  NoTarget,   \* an allocation without @internalReferenceToCoProduct
  NoAnalysis  \* what there is before one

VARIABLES
  process,   \* the process given
  analysis   \* what analyze_process_semantics returned

processVars == <<process, analysis>>

Whole == 100000
Tolerance == 1
NoAmount == Whole + 1   \* a fraction that is not a number from 0 to 100

\* Lists of exchanges and references, as entries() makes them, and the forms an
\* allocation can have.
ASSUME AnalyzedAssumption ==
  \A p \in Analyzed :
    /\ Len(p.references) \in Nat /\ DOMAIN p.references = 1 .. Len(p.references)
    /\ Len(p.exchanges) \in Nat /\ DOMAIN p.exchanges = 1 .. Len(p.exchanges)
    /\ \A i \in DOMAIN p.exchanges :
         LET e == p.exchanges[i] IN
         /\ e.form \in {"absent", "none", "object", "array"}
         /\ Len(e.rows) \in Nat /\ DOMAIN e.rows = 1 .. Len(e.rows)
         /\ \A k \in DOMAIN e.rows : e.rows[k].fraction.amount \in 0 .. NoAmount

ProcessInit == process \in Analyzed /\ analysis = NoAnalysis
-----------------------------------------------------------------------------
(* Exchanges and references *)

Exchanges(p) == DOMAIN p.exchanges
Matches(p, id) == IF id = NoId THEN {} ELSE {i \in Exchanges(p) : p.exchanges[i].id = id}

Check(check, at, code) == [check |-> check, at |-> at, code |-> code]

UnresolvedCodes == {"evidence_ambiguous", "evidence_invalid", "version_mismatch",
                    "evidence_unavailable", "reference_inexact"}
PassingCodes == {"", "not-applicable"}

Bad(checks) == {c \in checks : c.code \notin PassingCodes}

\* An exchange is known by an id of its own.
IdentityChecks(p) ==
  {Check("exchange-identity", <<i>>,
     IF p.exchanges[i].id = NoId THEN "internal_id_invalid"
     ELSE IF Cardinality(Matches(p, p.exchanges[i].id)) > 1 THEN "internal_id_ambiguous"
     ELSE "") : i \in Exchanges(p)}

\* Whether the k-th member of a sequence of ids was there before.
Seen(ids, k) == \E j \in 1..(k - 1) : ids[j] = ids[k]

\* What is wrong with the k-th of some ids that should each name an exchange.
NamingCode(p, ids, k) ==
  CASE ids[k] = NoId -> "id_invalid"
    [] ids[k] # NoId /\ Seen(ids, k) -> "duplicate"
    [] OTHER -> LET count == Cardinality(Matches(p, ids[k]))
                IN IF count = 0 THEN "missing" ELSE IF count > 1 THEN "ambiguous" ELSE ""

BasisTypes == {"Functional unit", "Other parameter", "Production period"}

\* What the process is normalised to.
ReferenceChecks(p) ==
  CASE p.type = "Reference flow(s)" ->
         IF p.references = <<>> THEN {Check("quantitative-reference", <<>>, "missing")}
         ELSE {Check("quantitative-reference", <<k>>, NamingCode(p, p.references, k)) :
                 k \in DOMAIN p.references}
    [] p.type \in BasisTypes ->
         {Check("quantitative-reference", <<>>, IF p.basis THEN "" ELSE "basis_missing")}
    [] OTHER -> {Check("quantitative-reference", <<>>, "type_invalid")}

\* The references that can be named, repeated ones included.
ReferenceIds(p) ==
  IF p.type = "Reference flow(s)" THEN Selected(p.references, LAMBDA r : r # NoId) ELSE <<>>

SingleReference(p) ==
  p.type = "Reference flow(s)" /\ Len(p.references) = 1 /\ Bad(ReferenceChecks(p)) = {}
-----------------------------------------------------------------------------
(* Allocations.  An exchange declares none ("absent"), something that is     *)
(* not a list of objects ("none"), or the rows of an object or an array.     *)

Amount(f) == IF f.written = "plain" THEN f.amount ELSE NoAmount
LegacyAmount(f) == f.amount
IsFull(f) == f.amount = Whole /\ f.written # "respelled"

Targeted(e) == {k \in DOMAIN e.rows : e.rows[k].target # NoTarget}

\* The branch of the analysis that an exchange takes.
Shape(e) ==
  CASE e.form = "absent" -> "undeclared"
    [] e.form = "object" /\ e.rows = <<>> -> "legacy-scalar-empty"
    [] e.form = "none" \/ (e.form = "array" /\ e.rows = <<>>) -> "malformed"
    [] \E k \in DOMAIN e.rows : e.rows[k].empty -> "malformed"
    [] OTHER -> IF Targeted(e) = {} THEN "targetless"
                ELSE IF Targeted(e) = DOMAIN e.rows THEN "vector" ELSE "mixed"

\* What the evidence says of the flow of an exchange.
EvidenceCode(e) ==
  LET exact == {k \in DOMAIN Evidence : Evidence[k].flow = e.flow.flow /\ Evidence[k].version = e.flow.version}
  IN CASE ~e.flow.exact -> "reference_inexact"
       [] e.flow.exact /\ Cardinality(exact) > 1 -> "evidence_ambiguous"
       [] e.flow.exact /\ exact = {} ->
            IF \E k \in DOMAIN Evidence : Evidence[k].flow = e.flow.flow
            THEN "version_mismatch" ELSE "evidence_unavailable"
       [] OTHER -> LET type == Evidence[CHOOSE k \in exact : TRUE].type
                   IN IF type \in {"Product flow", "Waste flow"} THEN ""
                      ELSE IF type \in {"Elementary flow", "Other flow"} THEN "flow_type_invalid"
                      ELSE "evidence_invalid"

Targets(e) == [k \in DOMAIN e.rows |-> e.rows[k].target]

\* Each row of a vector names an exchange that can be charged.
TargetChecks(p, i) ==
  LET e == p.exchanges[i]
      aimed == {k \in DOMAIN e.rows : Cardinality(Matches(p, e.rows[k].target)) = 1}
      Of(k) == p.exchanges[CHOOSE j \in Matches(p, e.rows[k].target) : TRUE]
  IN {Check("allocation-target", <<i, k>>, NamingCode(p, Targets(e), k)) : k \in DOMAIN e.rows}
     \cup {Check("allocation-target-direction", <<i, k>>,
             IF Of(k).direction \in {"Input", "Output"} THEN "" ELSE "direction_invalid") : k \in aimed}
     \cup {Check("allocation-target-type", <<i, k>>, EvidenceCode(Of(k))) : k \in aimed}
     \cup {Check("allocation-fraction", <<i, k>>,
             IF Amount(e.rows[k].fraction) = NoAmount THEN "fraction_invalid" ELSE "") : k \in DOMAIN e.rows}

IsWhole(sum) == sum \in (Whole - Tolerance)..(Whole + Tolerance)
Total(e) == SumOf([k \in DOMAIN e.rows |-> Amount(e.rows[k].fraction)])

\* And together, if they all are numbers, the rows are a whole.
VectorChecks(p, i) ==
  LET e == p.exchanges[i]
  IN TargetChecks(p, i) \cup
     {Check("allocation-vector", <<i>>, IF IsWhole(Total(e)) THEN "" ELSE "sum_invalid") :
        c \in IF \E k \in DOMAIN e.rows : Amount(e.rows[k].fraction) = NoAmount THEN {} ELSE {i}}

\* The exchanges with one row and no target, an older way of allocating: a
\* share of the process for an output, all of the exchange for an input.
Legacy(p) ==
  {i \in Exchanges(p) : LET e == p.exchanges[i] IN
     Shape(e) = "targetless" /\ Len(e.rows) = 1 /\ LegacyAmount(e.rows[1].fraction) # NoAmount}

ExchangeChecks(p, i) ==
  LET e == p.exchanges[i]
  IN CASE Shape(e) \in {"undeclared", "legacy-scalar-empty"} ->
            {Check("allocation-vector", <<i>>, "not-applicable")}
       [] Shape(e) = "malformed" -> {Check("allocation-vector", <<i>>, "vector_malformed")}
       [] Shape(e) = "mixed" -> {Check("allocation-vector", <<i>>, "mixed_modes")}
       [] Shape(e) = "targetless" ->
            IF Len(e.rows) # 1 THEN {Check("allocation-vector", <<i>>, "targetless_malformed")}
            ELSE IF i \in Legacy(p) THEN {}
            ELSE {Check("allocation-fraction", <<i, 1>>, "fraction_invalid")}
       [] Shape(e) = "vector" -> VectorChecks(p, i)
-----------------------------------------------------------------------------
(* The older ways, judged together after all exchanges *)

OutputShares(p) == \E i \in Legacy(p) : p.exchanges[i].direction = "Output"

MixedModes(p) ==
  \/ \E i \in Exchanges(p) : Shape(p.exchanges[i]) = "vector"
  \/ OutputShares(p) /\ \E i \in Legacy(p) : p.exchanges[i].direction # "Output"

Share(p, i) == LegacyAmount(p.exchanges[i].rows[1].fraction)
Shares(p) == [i \in Exchanges(p) |-> IF i \in Legacy(p) THEN Share(p, i) ELSE 0]

LegacyCode(p, i) ==
  CASE MixedModes(p) -> "mixed_modes"
    [] ~MixedModes(p) /\ OutputShares(p) ->
         IF IsWhole(SumOf(Shares(p))) THEN "" ELSE "legacy_sum_invalid"
    [] OTHER -> IF ~SingleReference(p) THEN "legacy_reference_ambiguous"
                ELSE IF ~IsFull(p.exchanges[i].rows[1].fraction) THEN "legacy_full_invalid" ELSE ""

LegacyChecks(p) == {Check("allocation-legacy", <<i>>, LegacyCode(p, i)) : i \in Legacy(p)}

SharesAccepted(p) == OutputShares(p) /\ Bad(LegacyChecks(p)) = {}
-----------------------------------------------------------------------------
(* The interpretation of every exchange: for each reference the part of the  *)
(* exchange that is charged to it                                            *)

Everything(p) == [k \in DOMAIN ReferenceIds(p) |-> Whole]

\* The part of the last row that names a reference, zero if none does.
VectorPart(e, id) ==
  LET naming == {k \in DOMAIN e.rows : e.rows[k].target = id}
  IN IF naming = {} THEN 0 ELSE Amount(e.rows[Max(naming)].fraction)

\* The share of the first output that has the id of a reference, and the
\* whole if none has.
SharePart(p, id) ==
  LET owners == {i \in Legacy(p) : p.exchanges[i].id = id}
  IN IF owners = {} THEN Whole ELSE Share(p, Min(owners))

Interpretation(p, i) ==
  LET e == p.exchanges[i]
      ids == ReferenceIds(p)
      As(mode, parts) == [mode |-> mode, parts |-> parts]
  IN CASE SharesAccepted(p) -> As("legacy-output-share", [k \in DOMAIN ids |-> SharePart(p, ids[k])])
       [] ~SharesAccepted(p) /\ Shape(e) \in {"undeclared", "legacy-scalar-empty"} ->
            As(Shape(e), Everything(p))
       [] ~SharesAccepted(p) /\ Shape(e) = "vector" /\ Bad(VectorChecks(p, i)) = {} ->
            As("explicit-vector", [k \in DOMAIN ids |-> VectorPart(e, ids[k])])
       [] ~SharesAccepted(p) /\ i \in Legacy(p) /\ LegacyCode(p, i) = "" ->
            As("legacy-targetless-full", Everything(p))
       [] OTHER -> As("invalid", <<>>)

\* Mutant: exchanges without a target are not judged.
AllChecksUnjudged(p) ==
  IdentityChecks(p) \cup ReferenceChecks(p) \cup (UNION {ExchangeChecks(p, i) : i \in Exchanges(p)})

AllChecks(p) ==
  IdentityChecks(p) \cup ReferenceChecks(p) \cup (UNION {ExchangeChecks(p, i) : i \in Exchanges(p)})
  \cup LegacyChecks(p)

\* analyze_process_semantics.
AnalysisOf(p) ==
  [checks          |-> AllChecks(p),
   complete        |-> \A c \in AllChecks(p) : c.code \notin UnresolvedCodes,
   valid           |-> Bad(AllChecks(p)) = {},
   interpretations |-> [i \in Exchanges(p) |-> Interpretation(p, i)]]

Analyze ==
  /\ analysis = NoAnalysis
  /\ analysis' = AnalysisOf(process)
  /\ UNCHANGED process

ProcessNext == Analyze

ProcessSpec == ProcessInit /\ [][ProcessNext]_processVars
-----------------------------------------------------------------------------
(* The memory that is reserved before an analysis, in cells of coefficients   *)
(* and of shares                                                             *)

\* Mutant: only an allocation that is no list is counted.
IsLegacyDeclarationAlone(e) ==
  /\ e.form = "object"
  /\ Len(e.rows) = 1 /\ ~e.rows[1].empty /\ e.rows[1].target = NoTarget

\* A declaration of the older kind, whether it is good or not.
IsLegacyDeclaration(e) ==
  /\ e.form \in {"object", "array"}
  /\ Len(e.rows) = 1 /\ ~e.rows[1].empty /\ e.rows[1].target = NoTarget

\* process_semantic_projection_memory_bytes, in cells.
ProjectionCells(p) ==
  LET declared == {i \in Exchanges(p) : IsLegacyDeclaration(p.exchanges[i])}
      references == IF p.type = "Reference flow(s)" THEN Len(p.references) ELSE 0
      shares == \E i \in declared : p.exchanges[i].direction = "Output"
  IN Len(p.exchanges) * references
     + (IF shares THEN Len(p.exchanges) * Cardinality(declared) ELSE 0)

\* What an analysis takes up: its coefficients, and the list of all shares
\* for every exchange.
CellsOf(p, a) ==
  SumOf([i \in Exchanges(p) |-> Len(a.interpretations[i].parts)])
  + Cardinality({i \in Exchanges(p) : a.interpretations[i].mode = "legacy-output-share"})
    * Cardinality(Legacy(p))
-----------------------------------------------------------------------------
(* Properties *)

\* The walk that reserves memory and the walk that fills it see a document
\* differently, with rows that the one counts and the other refuses; however
\* a process is written, the first foresees all of the second
\* (process_semantics.rs 547-612, "conservative budget").
BudgetCoversAnalysis ==
  analysis # NoAnalysis => CellsOf(process, analysis) <= ProjectionCells(process)

\* A valid analysis can be calculated with.  No exchange is left without an
\* interpretation by an early continue; every one has a part for every
\* reference; and an exchange that is allocated in any way is not charged
\* more than once to the distinct references that its allocation names.
ValidIsUsable ==
  analysis # NoAnalysis /\ analysis.valid =>
    /\ analysis.complete
    /\ \A i \in Exchanges(process) :
         LET it == analysis.interpretations[i]
             e == process.exchanges[i]
             named == IF it.mode = "explicit-vector" THEN {e.rows[k].target : k \in DOMAIN e.rows}
                      ELSE IF it.mode = "legacy-output-share"
                           THEN {process.exchanges[j].id : j \in Legacy(process)}
                      ELSE {}
             charged == [k \in DOMAIN it.parts |->
                           IF ReferenceIds(process)[k] \in named THEN it.parts[k] ELSE 0]
         IN /\ it.mode # "invalid"
            /\ Len(it.parts) = Len(ReferenceIds(process))
            /\ SumOf(charged) <= Whole + Tolerance
=============================================================================
