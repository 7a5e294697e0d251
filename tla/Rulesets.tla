------------------------------ MODULE Rulesets ------------------------------
(***************************************************************************)
(* The catalog of runtime rules: crates/tidas-rulesets/src/lib.rs composes *)
(* it from the bundled public rules and the toolkit's runtime profile when *)
(* a command starts, and public-rules-check of bin/asset_lock.rs composes  *)
(* it a first time, with code of its own, before the assets are built in.  *)
(* A public rule is an id and whether it carries the members a rule is     *)
(* composed of; so is a policy.  The id that is empty or missing is NoId.  *)
(***************************************************************************)
EXTENDS Naturals, Sequences, SequencesExt, FiniteSets

CONSTANTS NoId, NoFile

Ids(values) == {v.id : v \in Range(values)}

\* values_by_id, of the tool and of the runtime: no id is missing or twice.
KeyedById(values) ==
  /\ NoId \notin Ids(values)
  /\ Cardinality(Ids(values)) = Len(values)

Lookup(values, id) == CHOOSE v \in Range(values) : v.id = id

Known(public, profile) == Ids(public) \cup Ids(profile.local)

\* The public rules and the profile's policies for them are the same ids, and
\* none of them is a rule of the toolkit's own.
Partitioned(public, profile) ==
  /\ KeyedById(public) /\ KeyedById(profile.policy) /\ KeyedById(profile.local)
  /\ Ids(public) = Ids(profile.policy)
  /\ Ids(public) \cap Ids(profile.local) = {}

\* rule_order names every rule once, and what a public rule is composed of is
\* there.
Ordered(public, profile) ==
  /\ IsInjective(profile.order)
  /\ Range(profile.order) = Known(public, profile)
  /\ \A id \in Ids(public) : Lookup(public, id).complete /\ Lookup(profile.policy, id).complete

\* Mutant: the rules the rulesets list are not looked up.
ToolComposesUnresolved(public, profile) ==
  Partitioned(public, profile) /\ Ordered(public, profile)

\* compose_runtime of the tool: a ruleset's id need only be a string.
ToolComposes(public, profile) ==
  /\ Partitioned(public, profile) /\ Ordered(public, profile)
  /\ \A r \in Range(profile.rulesets) : Range(r.rules) \subseteq Known(public, profile)

\* compose_runtime_values: a ruleset's id must not be empty either.
RuntimeComposes(public, profile) ==
  /\ Partitioned(public, profile) /\ Ordered(public, profile)
  /\ \A r \in Range(profile.rulesets) :
        r.id # NoId /\ Range(r.rules) \subseteq Known(public, profile)

\* The rules of the catalog, in the profile's order: a public definition under
\* the toolkit's policy, or a rule of the toolkit's own.
Composed(public, profile) ==
  [i \in DOMAIN profile.order |->
     LET id == profile.order[i]
     IN IF id \in Ids(public)
        THEN [id |-> id, definition |-> Lookup(public, id), policy |-> Lookup(profile.policy, id)]
        ELSE [id |-> id, definition |-> Lookup(profile.local, id), policy |-> NoFile]]

\* verify_public_source_identity, and the commit is forty hexadecimal digits.
SourceIdentified(identity, index, schema) ==
  identity.index = index /\ identity.schema = schema /\ identity.commit.wellFormed

\* validate_methodologies: what is said of each bundled methodology, given the
\* fields it and the schema of its name hold once case, prefix and attribute
\* marks are gone.  A field of the schema counts only below its main sections.
MethodologyFile(yaml, schema) ==
  CASE schema = NoFile -> "error"
    [] schema # NoFile ->
         IF yaml.fields \ schema.fields = {} /\ schema.important \ yaml.fields = {}
         THEN "ok" ELSE "warning"

MethodologyOk(statuses) == "error" \notin statuses

\* RulesetCatalog::load, given the five bundled assets: the methodologies are
\* reported on and never fail it.
CatalogLoads(index, schema, identity, profile, profileFits) ==
  /\ SourceIdentified(identity, index, schema)
  /\ profileFits
  /\ RuntimeComposes(index.rules, profile)
  /\ IsInjective([i \in DOMAIN profile.rulesets |-> profile.rulesets[i].id])

\* RulesetCatalog::rules_for: the rules of one ruleset, as it lists them.
RulesFor(index, profile, id) ==
  LET rules == Composed(index.rules, profile)
      wanted == Lookup(profile.rulesets, id).rules
  IN [i \in DOMAIN wanted |-> Lookup(rules, wanted[i])]
=============================================================================
