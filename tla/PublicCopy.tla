----------------------------- MODULE PublicCopy -----------------------------
(***************************************************************************)
(* The checked-in assets of crates/tidas-assets and the tools that keep    *)
(* them true: the paired schema lock (schema_lock.rs), the lock over every *)
(* executable asset (lib.rs), the pinned copy of the public specification  *)
(* (spec_pin.rs) and the public rules (bin/asset_lock.rs).  A maintainer   *)
(* edits files, moves a pin, regenerates the locks, imports the pinned     *)
(* candidate or synchronizes the rules, each writing file after file, and  *)
(* continuous integration runs the three checks.  A digest is the value it *)
(* is the digest of.  Importing the specification is one step here: what   *)
(* happens while it runs is SpecImport.                                    *)
(***************************************************************************)
EXTENDS Rulesets

CONSTANTS
  Schemas,      \* the names of schema documents
  Pinned,       \* those of them the specification ships
  SpecVersions, \* the versions SpecPin can name, with their candidates:
  Candidate,    \* [version -> [path -> bytes]] without the lock it ships
  Commits,      \* the commits the rules' pin can name
  RulesAt,      \* [commit -> [index, schema]] of the specification checkout
  Initial,      \* [path -> bytes] the repository starts from, locks aside
  Drafts,       \* [path -> what a maintainer may write there]
  MaxEdits      \* bound: edits by a maintainer

Languages == {"schemas", "schemas_zh"}
Schema(l, n) == <<l, n>>
Lock == <<"schema.lock.json">>
AssetLockPath == <<"asset-lock.v1.json">>
ManifestPath == <<"spec", "spec-manifest.json">>
ProvenancePath == <<"spec", "spec-pin.json">>
IndexPath == <<"rules", "public-rules.v1.json">>
RulesSchemaPath == <<"rules", "public-rules.v1.schema.json">>
IdentityPath == <<"rules", "public-rules.source.v1.json">>
ProfilePath == <<"methodologies", "runtime_profiles.v1.json">>
Methodology == <<"methodologies", "tidas_processes.yaml">>
ProductIndex == <<"validation_indexes", "product_flow_category_index.json">>
OtherIndex == <<"validation_indexes", "other.json">>
Notes == <<"notes.txt">>

\* What lies below SOURCE_ROOTS; the locks and the pin's records lie beside it.
Executable ==
  (Languages \X Schemas)
  \cup {Lock, IndexPath, RulesSchemaPath, IdentityPath, ProfilePath, Methodology,
        ProductIndex, OtherIndex, Notes}

Paths == Executable \cup {AssetLockPath, ManifestPath, ProvenancePath}

\* A candidate has files, in each language the schemas the specification ships.
ASSUME CopyAssumption ==
  /\ Pinned \subseteq Schemas
  /\ \A v \in SpecVersions :
       /\ DOMAIN Candidate[v] \subseteq Executable \ {Lock}
       /\ (Languages \X Schemas) \cap DOMAIN Candidate[v] = Languages \X Pinned
       /\ \A p \in DOMAIN Candidate[v] : Candidate[v][p] # NoFile
  /\ DOMAIN Drafts \subseteq Executable /\ DOMAIN Initial \subseteq Executable
  /\ MaxEdits \in Nat

VARIABLES
  repo,     \* [path -> bytes], NoFile where there is no file
  specPin,  \* the version SpecPin names
  rulesPin, \* tidas-public-rules-pin.json
  tool,     \* how far a tool that writes several files has come
  locked,   \* history: the repository as a regeneration of the locks left it, or <<>>
  changes   \* history: edits by a maintainer

copyVars == <<repo, specPin, rulesPin, tool, locked, changes>>

There(files) == {p \in DOMAIN files : files[p] # NoFile}

\* Line endings are gone from a digest of content, and from no other.
Unix(bytes) == [bytes EXCEPT !.crlf = FALSE]

(***************************************************************************)
(* The paired schema lock                                                  *)
(***************************************************************************)
NamesIn(files, l) == {n \in Schemas : files[Schema(l, n)] # NoFile}

\* collect_schema_set: every document is a Draft 7 schema.
SetIsValid(files, l) == \A n \in NamesIn(files, l) : files[Schema(l, n)].draft7

\* pointer_exists: what the pointer leads to, its tokens decoded, is there.
PointerExists(document, pointer) == pointer \in document.contract.members

\* validate_local_refs: a reference finds its target in its own language.
RefsResolve(files, l) ==
  \A n \in NamesIn(files, l) : \A ref \in files[Schema(l, n)].contract.refs :
    /\ ref.document \in NamesIn(files, l)
    /\ PointerExists(files[Schema(l, ref.document)], ref.pointer)

Content(files, l) == [n \in NamesIn(files, l) |-> Unix(files[Schema(l, n)])]

\* contract_node: the document without what is localized.
Contract(files, l) == [n \in NamesIn(files, l) |-> files[Schema(l, n)].contract]

Lockable(files) ==
  /\ \A l \in Languages : SetIsValid(files, l) /\ RefsResolve(files, l)
  /\ Contract(files, "schemas") = Contract(files, "schemas_zh")

\* schema_lock_from_filesystem, of files that are Lockable.
SchemaLock(files) ==
  [en |-> Content(files, "schemas"), zh |-> Content(files, "schemas_zh"),
   contracts |-> Contract(files, "schemas")]

\* check_filesystem_schema_lock
SchemaLockCheck(files) == Lockable(files) /\ files[Lock] = SchemaLock(files)

(***************************************************************************)
(* The lock over every executable asset                                    *)
(***************************************************************************)
\* classify: the notes are no kind of asset, and a lock that meets them fails.
Classified(files) == files[Notes] = NoFile

\* lock_from_filesystem
AssetLock(files) == [p \in There(files) \cap Executable |-> files[p]]

AssetLockCheck(files) == Classified(files) /\ files[AssetLockPath] = AssetLock(files)

\* run_lock_check
LockCheck(files) == SchemaLockCheck(files) /\ AssetLockCheck(files)

\* bundled_assets of a build: of the validation indexes only one is built in.
Bundled(files) == [p \in (There(files) \cap Executable) \ {OtherIndex} |-> files[p]]

\* verify_embedded_assets
EmbeddedVerify(files) == files[AssetLockPath] = Bundled(files)

(***************************************************************************)
(* The pinned copy of the specification and the pinned rules               *)
(***************************************************************************)
\* The public assets of a candidate, with the schema lock it was shipped with.
PublicAssets(v) ==
  LET all == [p \in Paths |-> IF p \in DOMAIN Candidate[v] THEN Candidate[v][p] ELSE NoFile]
  IN [p \in DOMAIN Candidate[v] \cup {Lock} |->
        IF p = Lock THEN SchemaLock(all) ELSE Candidate[v][p]]

\* check_repository_public_copy, given the candidate's archive.
SpecCheck(files, v) ==
  /\ files[ManifestPath] = [version |-> v, binds |-> PublicAssets(v)]
  /\ \A p \in DOMAIN PublicAssets(v) : files[p] = PublicAssets(v)[p]
  /\ files[ProvenancePath] = [version |-> v, digest |-> PublicAssets(v)]

RuleFiles == {IndexPath, RulesSchemaPath, IdentityPath, ProfilePath}

\* expected_identity
ExpectedIdentity(p) == [commit |-> p.commit, index |-> p.index, schema |-> p.schema]

\* verified_public_inputs: the bytes and their identity are those of the pin.
RulesArePinned(files, p) ==
  /\ files[IndexPath] = p.index /\ files[RulesSchemaPath] = p.schema
  /\ files[IdentityPath] = ExpectedIdentity(p)
  /\ files[IndexPath].version = p.version

\* run_public_rules_check
RulesCheck(files, p) ==
  /\ RuleFiles \subseteq There(files)
  /\ RulesArePinned(files, p)
  /\ files[IndexPath].fits /\ files[ProfilePath].fits
  /\ ToolComposes(files[IndexPath].rules, files[ProfilePath])

\* The three checks of continuous integration.
ChecksPass ==
  LockCheck(repo) /\ RulesCheck(repo, rulesPin) /\ SpecCheck(repo, specPin)

(***************************************************************************)
(* What is done to the repository                                          *)
(***************************************************************************)
CopyInit ==
  /\ repo = [p \in Paths |-> IF p \in DOMAIN Initial THEN Initial[p] ELSE NoFile]
  /\ specPin \in SpecVersions
  /\ rulesPin \in {RulesAt[c] : c \in Commits}
  /\ tool = "idle"
  /\ locked = <<>>
  /\ changes = 0

Change ==
  /\ tool = "idle" /\ changes < MaxEdits
  /\ changes' = changes + 1
  /\ UNCHANGED <<tool, locked>>

Edit(p) ==
  /\ Change
  /\ \E bytes \in Drafts[p] \ {repo[p]} : repo' = [repo EXCEPT ![p] = bytes]
  /\ UNCHANGED <<specPin, rulesPin>>

MoveSpecPin ==
  /\ Change
  /\ specPin' \in SpecVersions \ {specPin}
  /\ UNCHANGED <<repo, rulesPin>>

\* The rules' pin is data, and may be written wrong: the commit alone, or cut
\* short.
MoveRulesPin ==
  /\ Change
  /\ \E c \in Commits :
        \/ rulesPin' = RulesAt[c]
        \/ rulesPin' = [rulesPin EXCEPT !.commit = RulesAt[c].commit]
        \/ rulesPin' = [rulesPin EXCEPT !.commit.wellFormed = FALSE]
  /\ UNCHANGED <<repo, specPin>>

\* import_public_spec, from the archive of the pinned candidate.
ImportSpec ==
  /\ tool = "idle"
  /\ LET public == PublicAssets(specPin)
     IN repo' = [p \in Paths |->
          CASE p = ManifestPath -> [version |-> specPin, binds |-> public]
            [] p = ProvenancePath -> [version |-> specPin, digest |-> public]
            [] p \in DOMAIN public -> public[p]
            [] OTHER -> repo[p]]
  /\ UNCHANGED <<specPin, rulesPin, tool, locked, changes>>

\* Mutant: both locks are computed before either is written.
WriteBothLocks ==
  /\ tool = "idle" /\ Lockable(repo) /\ Classified(repo)
  /\ repo' = [repo EXCEPT ![Lock] = SchemaLock(repo), ![AssetLockPath] = AssetLock(repo)]
  /\ locked' = repo'
  /\ UNCHANGED <<specPin, rulesPin, tool, changes>>

\* run_lock_write: first the schema lock, which is itself an asset, ...
WriteSchemaLock ==
  /\ tool = "idle" /\ Lockable(repo)
  /\ repo' = [repo EXCEPT ![Lock] = SchemaLock(repo)]
  /\ tool' = "asset lock"
  /\ UNCHANGED <<specPin, rulesPin, locked, changes>>

\* ... then the asset lock, which may fail when the first is already there.
WriteAssetLock ==
  /\ tool = "asset lock"
  /\ IF Classified(repo)
     THEN repo' = [repo EXCEPT ![AssetLockPath] = AssetLock(repo)] /\ locked' = repo'
     ELSE UNCHANGED <<repo, locked>>
  /\ tool' = "idle"
  /\ UNCHANGED <<specPin, rulesPin, changes>>

\* run_public_rules_sync, from a checkout at the commit the pin names: index,
\* schema and identity one by one, the first two if they are as pinned.
SyncIndex ==
  /\ tool = "idle" /\ rulesPin.commit.wellFormed
  /\ RulesAt[rulesPin.commit.id].index = rulesPin.index
  /\ repo' = [repo EXCEPT ![IndexPath] = rulesPin.index]
  /\ tool' = "rules schema"
  /\ UNCHANGED <<specPin, rulesPin, locked, changes>>

SyncSchema ==
  /\ tool = "rules schema"
  /\ IF RulesAt[rulesPin.commit.id].schema = rulesPin.schema
     THEN repo' = [repo EXCEPT ![RulesSchemaPath] = rulesPin.schema] /\ tool' = "rules identity"
     ELSE tool' = "idle" /\ UNCHANGED repo
  /\ UNCHANGED <<specPin, rulesPin, locked, changes>>

SyncIdentity ==
  /\ tool = "rules identity"
  /\ repo' = [repo EXCEPT ![IdentityPath] = ExpectedIdentity(rulesPin)]
  /\ tool' = "idle"
  /\ UNCHANGED <<specPin, rulesPin, locked, changes>>

\* A tool is interrupted between two of the files it writes.
Interrupted ==
  /\ tool # "idle"
  /\ tool' = "idle"
  /\ UNCHANGED <<repo, specPin, rulesPin, locked, changes>>

CopyNext ==
  \/ \E p \in DOMAIN Drafts : Edit(p)
  \/ MoveSpecPin \/ MoveRulesPin \/ ImportSpec
  \/ WriteSchemaLock \/ WriteAssetLock
  \/ SyncIndex \/ SyncSchema \/ SyncIdentity
  \/ Interrupted

CopySpec == CopyInit /\ [][CopyNext]_copyVars

(***************************************************************************)
(* Properties                                                              *)
(***************************************************************************)
RulesetIds == [i \in DOMAIN repo[ProfilePath].rulesets |-> repo[ProfilePath].rulesets[i].id]

\* What the checks do not see of a profile or of the pin, and load refuses.
LoadRefuses ==
  \/ ~IsInjective(RulesetIds) \/ NoId \in Range(RulesetIds)
  \/ ~rulesPin.commit.wellFormed

\* When the checks of continuous integration pass, each of them reading a part
\* of the tree (rust-ci.yml), the public copy is the candidate the pin names to
\* the byte, no schema is there that the specification does not ship, and a
\* build of the tree verifies its embedded assets, reports its methodologies
\* and loads its rules - but for a validation index that is locked and not
\* built in, and for what public-rules-check accepts and load refuses.
ChecksBindTheBuild ==
  ChecksPass =>
    /\ \A l \in Languages : NamesIn(repo, l) = Pinned
    /\ \A p \in DOMAIN PublicAssets(specPin) : repo[p] = PublicAssets(specPin)[p]
    /\ EmbeddedVerify(repo) <=> repo[OtherIndex] = NoFile
    /\ CatalogLoads(repo[IndexPath], repo[RulesSchemaPath], repo[IdentityPath],
                    repo[ProfilePath], repo[ProfilePath].fits) <=> ~LoadRefuses
    /\ MethodologyOk({MethodologyFile(repo[Methodology], repo[Schema("schemas", n)]) : n \in Pinned})
    /\ ~LoadRefuses =>
         \A id \in Range(RulesetIds) : \A rule \in Range(RulesFor(repo[IndexPath], repo[ProfilePath], id)) :
           rule.id \in Range(repo[ProfilePath].order)

\* Locks just regenerated are fresh (write_schema_lock, write_lock): until a
\* file changes, the check that follows the regeneration passes.
FreshLocksPass == repo = locked => LockCheck(repo)
=============================================================================
