------------------------------ MODULE MCAssets ------------------------------
(***************************************************************************)
(* The three parts of tidas-assets, one of which moves in a behaviour:     *)
(*  - SpecImport on a small copy of the repository's tree: assets/spec     *)
(*    holds the pin record, the lock and the staging directories and is    *)
(*    not there at first; assets/tidas is there with one document, a       *)
(*    directory below it with a second document is new;                    *)
(*  - SpecCandidate on a package of one schema in two languages, the two   *)
(*    methodologies, the schema lock and the rules: four edits, as many as *)
(*    it takes to change one thing in every record;                        *)
(*  - PublicCopy with one shipped schema and one that is not, two versions *)
(*    of the specification and two commits of the rules.                   *)
(***************************************************************************)
EXTENDS SpecImport, PublicCopy, SpecCandidate, TLC

CONSTANTS i1, i2, assets, spec, scratch, tidas, fresh, doc, extra, pinRecord

MCTwo == {i1, i2}
MCDirs == {assets, spec, scratch, tidas, fresh}
MCParent == (assets :> Root) @@ (spec :> assets) @@ (scratch :> spec)
            @@ (tidas :> assets) @@ (fresh :> tidas)
MCHome == (doc :> tidas) @@ (extra :> fresh) @@ (pinRecord :> spec)
MCOrder == <<pinRecord, doc, extra>>
MCSomeDirs == {assets, tidas}
MCSomeFiles == {doc}

VARIABLE part  \* "import", "candidate" or "copy"

-----------------------------------------------------------------------------
(* The candidate *)

MCArea ==
  [p \in {"schemas/a", "schemas/c"} |-> "schemas"]
  @@ ("schemas_zh/a" :> "schemas_zh")
  @@ [p \in {"flows.yaml", "processes.yaml"} |-> "methodology"]
  @@ ("schema.lock.json" :> "lock") @@ ("public-rules.v1.json" :> "rules")
  @@ [p \in {"source-import.yaml", "reviewed-baseline.json"} |-> "metadata"]

MCReviewed ==
  [p \in {"schemas/a", "schemas_zh/a", "flows.yaml"} |-> "toolkit"]
  @@ [p \in {"processes.yaml", "schema.lock.json", "public-rules.v1.json",
             "source-import.yaml", "reviewed-baseline.json"} |-> "spec"]

MCPaths ==
  <<"flows.yaml", "processes.yaml", "public-rules.v1.json", "reviewed-baseline.json",
    "schema.lock.json", "schemas/a", "schemas/c", "schemas_zh/a", "source-import.yaml">>
MCRenamed == "schemas/a" :> "schemas/c"

-----------------------------------------------------------------------------
(* The repository copy *)

Document(members, refs) ==
  [draft7 |-> TRUE, contract |-> [members |-> members, refs |-> refs], words |-> "en",
   crlf |-> FALSE, fields |-> members, important |-> members]

Yaml(fields) == [fields |-> fields, crlf |-> FALSE]

To(document, pointer) == {[document |-> document, pointer |-> pointer]}

SchemaA == Document({"flow"}, To("a", "flow"))
SchemaX == Document({"extra"}, To("a", "flow"))

MCCandidate ==
  [v \in {"0.2.2", "0.2.3"} |->
     (<<"schemas", "a">> :> SchemaA)
     @@ (<<"schemas_zh", "a">> :> [SchemaA EXCEPT !.words = "zh"])
     @@ (<<"methodologies", "tidas_processes.yaml">> :>
           Yaml(IF v = "0.2.2" THEN {"flow"} ELSE {"flow", "unit"}))]

Rule(id) == [id |-> id, complete |-> TRUE]

RulesOf(commit, version, rules) ==
  [commit |-> [id |-> commit, wellFormed |-> TRUE], version |-> version,
   index |-> [version |-> version, rules |-> rules, fits |-> TRUE],
   schema |-> [of |-> commit]]

MCRulesAt ==
  ("c1" :> RulesOf("c1", 1, <<Rule("r")>>)) @@ ("c2" :> RulesOf("c2", 2, <<Rule("r"), Rule("s")>>))

Profile(policy, order) ==
  [policy |-> policy, local |-> <<Rule("own")>>, order |-> order, fits |-> TRUE,
   rulesets |-> <<[id |-> "strict", rules |-> <<"r">>], [id |-> "all", rules |-> order]>>]

MCProfile == Profile(<<Rule("r")>>, <<"own", "r">>)

\* Profiles that fit the rules of the first commit, or of the second, or that
\* some check has to refuse.
MCProfiles ==
  {MCProfile, Profile(<<Rule("s"), Rule("r")>>, <<"r", "own", "s">>),
   [MCProfile EXCEPT !.rulesets[2].id = "strict"], [MCProfile EXCEPT !.rulesets[2].id = NoId],
   [MCProfile EXCEPT !.rulesets[2].rules = <<"s">>], [MCProfile EXCEPT !.order = <<"r">>],
   [MCProfile EXCEPT !.policy[1].complete = FALSE], [MCProfile EXCEPT !.fits = FALSE]}

Identity(rules, wellFormed) ==
  [commit |-> [rules.commit EXCEPT !.wellFormed = wellFormed], index |-> rules.index,
   schema |-> rules.schema]

MCInitial ==
  MCCandidate["0.2.3"]
  @@ (<<"methodologies", "runtime_profiles.v1.json">> :> MCProfile)
  @@ (<<"validation_indexes", "product_flow_category_index.json">> :> [index |-> "product"])
  @@ (<<"rules", "public-rules.v1.json">> :> MCRulesAt["c1"].index)
  @@ (<<"rules", "public-rules.v1.schema.json">> :> MCRulesAt["c1"].schema)
  @@ (<<"rules", "public-rules.source.v1.json">> :> Identity(MCRulesAt["c1"], TRUE))

MCDrafts ==
  (<<"schemas", "a">> :> {NoFile, [SchemaA EXCEPT !.crlf = TRUE], [SchemaA EXCEPT !.draft7 = FALSE],
                          [SchemaA EXCEPT !.contract.refs = To("extra", "extra")]})
  @@ (<<"schemas", "x">> :> {NoFile, SchemaX})
  @@ (<<"schemas_zh", "x">> :> {NoFile, SchemaX, [SchemaX EXCEPT !.words = "zh"]})
  @@ (<<"methodologies", "runtime_profiles.v1.json">> :> MCProfiles)
  @@ (<<"validation_indexes", "other.json">> :> {NoFile, [index |-> "other"]})
  @@ (<<"notes.txt">> :> {NoFile, [index |-> "notes"]})
  @@ (<<"rules", "public-rules.source.v1.json">> :> {Identity(MCRulesAt["c1"], FALSE)})

-----------------------------------------------------------------------------
\* There is no candidate where another part moves; the others stay in one
\* initial state.
NoCandidate ==
  /\ files = <<>> /\ manifest = None /\ packing = "plain"
  /\ pin = [archive |-> None] /\ edited = {} /\ edits = 0

AssetsInit ==
  /\ part \in {"import", "candidate", "copy"}
  /\ Init
  /\ IF part = "candidate" THEN CandidateInit ELSE NoCandidate
  /\ CopyInit
  /\ part # "copy" => specPin = "0.2.3" /\ rulesPin = MCRulesAt["c1"]

\* A candidate the repository is pinned to is not edited any more.
PinnedNow == part = "candidate" /\ "pin" \in edited

AssetsNext ==
  /\ UNCHANGED part
  /\ \/ part = "import" /\ Next /\ UNCHANGED <<candidateVars, copyVars>>
     \/ part = "candidate" /\ CandidateNext /\ UNCHANGED <<vars, copyVars>>
     \/ part = "copy" /\ CopyNext /\ UNCHANGED <<vars, candidateVars>>
     \/ PinnedNow /\ UNCHANGED <<vars, candidateVars, copyVars>>

Runs(i) == part = "import" /\ Step(i)

\* The importers' fairness is that of SpecImport!Spec.
AssetsSpec ==
  /\ AssetsInit /\ [][AssetsNext]_<<part, vars, candidateVars, copyVars>>
  /\ \A i \in Importers : WF_vars(Runs(i))
=============================================================================
