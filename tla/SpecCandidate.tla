---------------------------- MODULE SpecCandidate ----------------------------
(***************************************************************************)
(* read_candidate_archive of crates/tidas-assets/src/spec_pin.rs: how the  *)
(* archive of the public specification is read and what makes a candidate  *)
(* acceptable.  A candidate carries four records about the same files: the *)
(* files, the shipped manifest, the import manifest (source-import.yaml)   *)
(* and the reviewed baseline, the last two being files the manifest binds. *)
(* An action edits one record of the archive that was reviewed, packs it   *)
(* another way, or re-pins the repository to what the archive is now, as   *)
(* an upgrade of the specification does.  A digest is the value it is the  *)
(* digest of; bytes are a text and its line endings.                       *)
(***************************************************************************)
EXTENDS Lists, FiniteSets, FiniteSetsExt, Functions

CONSTANTS
  PathOrder,    \* the package paths there may be, in order
  Area,         \* [path -> where it lies]
  ReviewedFiles,\* [path -> origin] of the reviewed candidate, manifest aside
  ImportPath, BaselinePath,
  Renamed,      \* [path -> path]: assets the candidate may ship elsewhere
  Metadata,     \* SPEC_PACKAGE_METADATA_FILE_COUNT
  MaxMembers,   \* SPEC_ARCHIVE_MAX_MEMBERS
  MaxBytes,     \* SPEC_ARCHIVE_MAX_BYTES, a member counting one per file
  Touched,      \* bound: the assets that are edited
  MaxCandidateEdits, \* bound: edits of the reviewed candidate
  None, Refused

PublicAreas == {"schemas", "schemas_zh", "methodology", "lock"}
ProfileLanguages == {"en", "zh"}
Methodologies == {p \in DOMAIN Area : Area[p] = "methodology"}

Shipped == "spec-manifest.json"

ASSUME CandidateAssumption ==
  /\ IsList(PathOrder) /\ Range(PathOrder) = DOMAIN Area /\ IsInjective(PathOrder)
  /\ Shipped \notin DOMAIN Area
  /\ DOMAIN ReviewedFiles \subseteq DOMAIN Area
  /\ \A p \in DOMAIN ReviewedFiles : ReviewedFiles[p] \in {"toolkit", "spec"}
  /\ {ImportPath, BaselinePath} \subseteq {p \in DOMAIN ReviewedFiles : ReviewedFiles[p] = "spec"}
  /\ ImportPath # BaselinePath
  /\ \A p \in DOMAIN Renamed : Renamed[p] \in DOMAIN Area
  /\ Touched \subseteq DOMAIN ReviewedFiles \ {ImportPath, BaselinePath}
  /\ MaxMembers \in Nat /\ MaxBytes \in Nat
  /\ None # Refused

VARIABLES
  files,    \* [path -> bytes] of the package, the manifest aside
  manifest, \* spec-manifest.json
  packing,  \* how the archive is packed
  pin,      \* SpecPin
  edited,   \* history: the records edited
  edits     \* history: the edits made

candidateVars == <<files, manifest, packing, pin, edited, edits>>

Text(t, crlf) == [text |-> t, crlf |-> crlf]

\* normalize_line_endings: what contentSha256 is computed over.
Normalized(bytes) ==
  IF "crlf" \in DOMAIN bytes THEN [bytes EXCEPT !.crlf = FALSE] ELSE bytes

Digests(held) == [p \in DOMAIN held |-> held[p]]
ContentDigests(held) == [p \in DOMAIN held |-> Normalized(held[p])]

(***************************************************************************)
(* The manifest on its own                                                 *)
(***************************************************************************)
OfOrigin(m, origin) == {f \in Range(m.files) : f.origin = origin}

ImportedPaths(m) == {f.path : f \in OfOrigin(m, "toolkit")}

\* imported_paths: every imported asset names itself as its source.
SourcesRecorded(m) ==
  \A f \in OfOrigin(m, "toolkit") : f.source = [path |-> f.path, sha256 |-> f.sha256]

\* validate_manifest_files
FilesWellFormed(m) ==
  /\ \A f \in Range(m.files) :
        /\ f.path \in DOMAIN Area /\ f.origin \in {"toolkit", "spec"}
        /\ f.origin = "spec" => f.source = None
  /\ \A i, j \in DOMAIN m.files : m.files[i].path = m.files[j].path => i = j

\* validate_manifest_counts
CountsFit(m, p) ==
  /\ m.counts.files = Len(m.files)
  /\ m.counts.imported = p.imported /\ m.counts.authored = p.authored
  /\ m.counts.perLanguage = p.perLanguage
  /\ m.counts.metadata = Metadata
  /\ m.counts.imported + m.counts.authored + m.counts.metadata = m.counts.files
  /\ m.counts.packaged = p.packaged
  /\ m.counts.languages = ProfileLanguages
  /\ m.counts.methodologies = Cardinality(Methodologies)

ManifestFits(m, p) ==
  /\ m.identity = p.identity
  /\ m.source.repository = p.repository /\ m.source.commit = p.commit
  /\ CountsFit(m, p) /\ FilesWellFormed(m)

PublicPaths(m) == {f.path : f \in {g \in Range(m.files) : Area[g.path] \in PublicAreas}}

InArea(m, area) == {p \in PublicPaths(m) : Area[p] = area}

\* validate_public_subset
SubsetFits(m, p) ==
  /\ SourcesRecorded(m)
  /\ Cardinality(ImportedPaths(m)) = p.imported
  /\ Cardinality(PublicPaths(m)) = p.public
  /\ Cardinality(InArea(m, "schemas")) = p.perLanguage
  /\ Cardinality(InArea(m, "schemas_zh")) = p.perLanguage
  /\ Cardinality(PublicPaths(m)) = 2 * p.perLanguage + Cardinality(Methodologies) + 1
(***************************************************************************)
(* The manifest, the import manifest and the reviewed baseline together    *)
(***************************************************************************)
Listed(imp) == {e.package : e \in Range(imp.files)}

\* check_source_records
RecordsAgree(m, imp, base, p, shipped) ==
  /\ base.identity = p.identity /\ imp.source.commit = p.commit
  /\ imp.source = m.source
  /\ Len(imp.files) = p.imported
  /\ \A i, j \in DOMAIN imp.files : imp.files[i].package = imp.files[j].package => i = j
  /\ \A e \in Range(imp.files) :
        e.package \in DOMAIN shipped /\ shipped[e.package] = e.sha256
  /\ Listed(imp) = ImportedPaths(m)
  /\ base.repository = m.source.repository
  /\ base.commit = m.source.commit /\ base.licence = m.source.licence
  /\ base.fileCount = p.imported /\ base.fileCount = Cardinality(Listed(imp))

\* Of entries for one source path the last counts, as in the map they go into.
SourceDigests(imp) ==
  [s \in {e.source : e \in Range(imp.files)} |->
     LET last == Max({i \in DOMAIN imp.files : imp.files[i].source = s})
     IN imp.files[last].sha256]

\* check_reviewed_digests
DigestsAgree(m, imp, base, shipped, content) ==
  /\ SourceDigests(imp) = base.sourceFiles
  /\ Restrict(shipped, Listed(imp)) = base.packageFiles
  /\ m.aggregates = [shipped |-> shipped, content |-> content]

\* Mutant: the digests the baseline reviewed are not derived again.
EvidenceWithoutReview(m, imp, base, p, shipped, content) ==
  /\ RecordsAgree(m, imp, base, p, shipped)
  /\ m.aggregates = [shipped |-> shipped, content |-> content]

\* validate_source_evidence
SourceEvidence(m, imp, base, p, shipped, content) ==
  /\ RecordsAgree(m, imp, base, p, shipped)
  /\ DigestsAgree(m, imp, base, shipped, content)

\* The manifest binds exactly the members there are, by both digests.
MembersBound(m, held) ==
  /\ Cardinality(DOMAIN held) = Len(m.files)
  /\ Cardinality(DOMAIN held) + 1 = m.counts.packaged
  /\ \A f \in Range(m.files) :
       /\ f.path \in DOMAIN held
       /\ held[f.path] = f.sha256 /\ Normalized(held[f.path]) = f.content
  /\ DOMAIN held \subseteq {f.path : f \in Range(m.files)}

\* validate_candidate, over the bytes of every member but the manifest.
ValidCandidate(p, m, held) ==
  /\ m = p.manifest
  /\ ManifestFits(m, p) /\ SubsetFits(m, p)
  /\ MembersBound(m, held)
  /\ SourceEvidence(m, held[ImportPath], held[BaselinePath], p,
                    Digests(held), ContentDigests(held))
(***************************************************************************)
(* The archive: one gzip member, one tar stream, headers in order          *)
(***************************************************************************)
Header(path, bytes) ==
  [raw |-> path, path |-> path, place |-> "package", kind |-> "file",
   declared |-> 1, length |-> 1, bytes |-> bytes]

\* The checks on one header of read_tar_members, in a reader that so far has
\* the files, the bytes and the headers it counts in `got`.
Readable(got, h) ==
  /\ got.headers < MaxMembers
  /\ h.raw = h.path
  /\ h.place = "package"
  /\ h.kind \in {"file", "dir"}
  /\ h.kind = "file" =>
       /\ h.path \notin DOMAIN got.files
       /\ got.total + h.declared <= MaxBytes
       /\ h.length = h.declared

ReadHeader(got, h) ==
  CASE got = Refused -> Refused
    [] got # Refused /\ ~Readable(got, h) -> Refused
    [] got # Refused /\ Readable(got, h) /\ h.kind = "dir" ->
         [got EXCEPT !.headers = @ + 1]
    [] got # Refused /\ Readable(got, h) /\ h.kind = "file" ->
         [headers |-> got.headers + 1, total |-> got.total + h.declared,
          files |-> [p \in DOMAIN got.files \cup {h.path} |->
                       IF p = h.path THEN h.bytes ELSE got.files[p]]]

\* extract_archive_members: the members, or Refused.
Members(archive) ==
  LET empty == [headers |-> 0, total |-> 0, files |-> <<>>]
      got == ForEach(ReadHeader, empty, archive.headers)
  IN CASE archive.gzip # "one member" -> Refused
       [] archive.gzip = "one member" /\ got = Refused -> Refused
       [] archive.gzip = "one member" /\ got # Refused ->
            IF archive.tail # "zeros" \/ DOMAIN got.files = {} THEN Refused ELSE got.files

\* read_candidate_archive: the public assets of the candidate, or Refused.
ReadCandidate(archive, p) ==
  IF archive # p.archive THEN Refused
  ELSE LET members == Members(archive)
           bound == Restrict(members, DOMAIN members \ {Shipped})
       IN IF members = Refused THEN Refused
          ELSE IF ~({Shipped, ImportPath, BaselinePath} \subseteq DOMAIN members) THEN Refused
          ELSE IF ~ValidCandidate(p, members[Shipped], bound) THEN Refused
          ELSE [assets |-> Restrict(bound, PublicPaths(members[Shipped])), members |-> bound]

(***************************************************************************)
(* The candidate that was reviewed, and what it can be edited into         *)
(***************************************************************************)
ReviewedSource ==
  [repository |-> "toolkit", commit |-> "reviewed", licence |-> "reviewed",
   excluded |-> "reviewed"]

Assets == DOMAIN ReviewedFiles \ {ImportPath, BaselinePath}

ReviewedAssets == [p \in Assets |-> Text("reviewed", FALSE)]

ImportedAssets == {p \in Assets : ReviewedFiles[p] = "toolkit"}

InOrder(paths) == Selected(PathOrder, LAMBDA p : p \in paths)

MapSeq(paths, entry) == [i \in DOMAIN paths |-> entry[paths[i]]]

\* The import manifest of a source and the imported assets there are.
ImportManifest(source, assets) ==
  [source |-> source,
   files |-> MapSeq(InOrder(DOMAIN assets),
                    [p \in DOMAIN assets |-> [source |-> p, package |-> p, sha256 |-> assets[p]]])]

Baseline(source, assets) ==
  [identity |-> "pinned", repository |-> source.repository, commit |-> source.commit,
   licence |-> source.licence, fileCount |-> Cardinality(DOMAIN assets),
   sourceFiles |-> assets, packageFiles |-> assets]

Origin(p) == IF p \in DOMAIN ReviewedFiles THEN ReviewedFiles[p] ELSE "toolkit"

Bound(p, bytes) ==
  [path |-> p, sha256 |-> bytes, content |-> Normalized(bytes), origin |-> Origin(p),
   source |-> IF Origin(p) = "toolkit" THEN [path |-> p, sha256 |-> bytes] ELSE None]

ManifestOf(source, held) ==
  LET ofArea(area) == Cardinality({p \in DOMAIN held : Area[p] = area})
      imported == Cardinality({p \in DOMAIN held : Origin(p) = "toolkit"})
  IN [identity |-> "pinned", source |-> source,
      files |-> MapSeq(InOrder(DOMAIN held), [p \in DOMAIN held |-> Bound(p, held[p])]),
      aggregates |-> [shipped |-> Digests(held), content |-> ContentDigests(held)],
      counts |-> [files |-> Cardinality(DOMAIN held), imported |-> imported,
                  authored |-> Cardinality(DOMAIN held) - imported - Metadata,
                  metadata |-> Metadata, packaged |-> Cardinality(DOMAIN held) + 1,
                  perLanguage |-> ofArea("schemas"), languages |-> ProfileLanguages,
                  methodologies |-> ofArea("methodology")]]

\* The archive of the files and the manifest, packed as asked for.
Archive(held, m, how) ==
  LET paths == InOrder(DOMAIN held)
      plain == [i \in DOMAIN paths |-> Header(paths[i], held[paths[i]])] \o <<Header(Shipped, m)>>
      first == plain[1]
      aDirectory == [first EXCEPT !.kind = "dir"]
      huge == [first EXCEPT !.declared = MaxBytes, !.length = MaxBytes]
  IN [gzip |-> IF how = "concatenated" THEN "two members" ELSE "one member",
      tail |-> IF how = "trailing" THEN "data" ELSE "zeros",
      headers |-> CASE how = "directory" -> <<aDirectory>> \o plain
                    [] how = "link" -> Append(plain, [first EXCEPT !.kind = "link"])
                    [] how = "outside" -> Append(plain, [first EXCEPT !.place = "elsewhere"])
                    [] how = "renamed" -> Append(plain, [first EXCEPT !.raw = "not normalized"])
                    [] how = "twice" -> Append(plain, [first EXCEPT !.bytes = Text("other", FALSE)])
                    [] how = "short" -> [plain EXCEPT ![1].length = 0]
                    [] how = "oversized" -> [plain EXCEPT ![1] = huge]
                    [] how = "crowded" -> [i \in 1 .. MaxMembers |-> aDirectory] \o plain
                    [] OTHER -> plain]

Packings == {"plain", "concatenated", "trailing", "directory", "link", "outside",
             "renamed", "twice", "short", "oversized", "crowded"}

Now == Archive(files, manifest, packing)

\* SpecPin::qualified_candidate of the reviewed candidate.
QualifiedCandidate(held, m) ==
  [archive |-> Archive(held, m, "plain"), manifest |-> m, identity |-> "pinned",
   repository |-> ReviewedSource.repository, commit |-> ReviewedSource.commit,
   imported |-> Cardinality(ImportedAssets), authored |-> m.counts.authored,
   public |-> Cardinality(PublicPaths(m)), packaged |-> m.counts.packaged,
   perLanguage |-> m.counts.perLanguage]

CandidateInit ==
  LET imported == Restrict(ReviewedAssets, ImportedAssets)
  IN /\ files = [p \in DOMAIN ReviewedFiles |->
                   CASE p = ImportPath -> ImportManifest(ReviewedSource, imported)
                     [] p = BaselinePath -> Baseline(ReviewedSource, imported)
                     [] OTHER -> ReviewedAssets[p]]
     /\ manifest = ManifestOf(ReviewedSource, files)
     /\ packing = "plain"
     /\ pin = QualifiedCandidate(files, manifest)
     /\ edited = {} /\ edits = 0

\* The candidate is edited before the repository is pinned to it.
Editing(record) ==
  /\ edits < MaxCandidateEdits /\ "pin" \notin edited
  /\ edited' = edited \cup {record} /\ edits' = edits + 1
  /\ UNCHANGED pin

ImportedNow == Restrict(files, {p \in DOMAIN files : Origin(p) = "toolkit"})

\* An asset gets other bytes, or other line endings, or another path.
EditAsset(p) ==
  /\ Editing("asset")
  /\ p \in DOMAIN files
  /\ \/ \E bytes \in {Text("other", FALSE), Text("reviewed", TRUE)} :
          files' = [files EXCEPT ![p] = bytes]
     \/ /\ p \in DOMAIN Renamed /\ Renamed[p] \notin DOMAIN files
        /\ files' = [q \in (DOMAIN files \ {p}) \cup {Renamed[p]} |->
                       IF q = Renamed[p] THEN files[p] ELSE files[q]]
  /\ UNCHANGED <<manifest, packing>>

\* The import manifest is written again for the assets there are, or names
\* another source.
EditImport ==
  /\ Editing("import")
  /\ \/ files' = [files EXCEPT ![ImportPath] = ImportManifest(@.source, ImportedNow)]
     \/ \E field \in DOMAIN ReviewedSource :
          files' = [files EXCEPT ![ImportPath].source[field] = "other"]
  /\ UNCHANGED <<manifest, packing>>

\* The baseline reviews the assets there are, or another source.
EditBaseline ==
  /\ Editing("baseline")
  /\ \/ files' = [files EXCEPT ![BaselinePath] = Baseline(@, ImportedNow)]
     \/ files' = [files EXCEPT ![BaselinePath].licence = "other"]
     \/ files' = [files EXCEPT ![BaselinePath].commit = "other"]
  /\ UNCHANGED <<manifest, packing>>

\* The manifest binds the files there are, names another source, or claims
\* an imported asset for the specification itself.
EditManifest ==
  /\ Editing("manifest")
  /\ \/ manifest' = ManifestOf(manifest.source, files)
     \/ \E field \in DOMAIN ReviewedSource : manifest' = [manifest EXCEPT !.source[field] = "other"]
     \/ \E i \in DOMAIN manifest.files :
          manifest' = [manifest EXCEPT !.files[i].origin = "spec", !.files[i].source = None]
  /\ UNCHANGED <<files, packing>>

Repack(how) ==
  /\ Editing("packing") /\ packing = "plain"
  /\ packing' = how
  /\ UNCHANGED <<files, manifest>>

\* The pin takes over the digests of the archive and of its manifest.
Repin ==
  /\ "pin" \notin edited
  /\ pin' = [pin EXCEPT !.archive = Now, !.manifest = manifest]
  /\ edited' = edited \cup {"pin"}
  /\ UNCHANGED <<files, manifest, packing, edits>>

CandidateNext ==
  \/ \E p \in Touched : EditAsset(p)
  \/ EditImport \/ EditBaseline \/ EditManifest
  \/ \E how \in Packings \ {"plain"} : Repack(how)
  \/ Repin

CandidateSpec == CandidateInit /\ [][CandidateNext]_candidateVars

\* "A fabricated source identity or a drifted asset inventory cannot be made
\* to pass by editing one of them" (spec_pin.rs, validate_source_evidence):
\* a candidate whose imported assets or licence are not those reviewed is
\* accepted only if the manifest, the import manifest and the baseline were
\* all edited, and never under another extraction commit or repository; and
\* what is read from it is the files packed, whatever the packing.
DriftNeedsEveryRecord ==
  LET read == ReadCandidate(Now, pin)
      drifted == \/ Restrict(read.members, ImportedPaths(manifest))
                      # Restrict(ReviewedAssets, ImportedAssets)
                 \/ manifest.source.licence # ReviewedSource.licence
  IN read # Refused =>
       /\ drifted => {"manifest", "import", "baseline"} \subseteq edited
       /\ manifest.source.commit = ReviewedSource.commit
       /\ manifest.source.repository = ReviewedSource.repository
       /\ read.members = files
       /\ DOMAIN read.assets = PublicPaths(manifest)
=============================================================================
