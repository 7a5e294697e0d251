---------------------------- MODULE ImportSources ----------------------------
(***************************************************************************)
(* What an import reads: the detection of the source's format (detect.rs)  *)
(* and the visit of its entries (source.rs).                               *)
(*                                                                         *)
(* A source is [kind, ext, exists, context, entries]: a file, a directory  *)
(* or a ZIP archive, which may hold a context.jsonld, and its entries in   *)
(* the order of the visit (by name; as archived).  An entry is [ext, sign, *)
(* size, symlink, items]: sign is what its first bytes look like, and      *)
(* items the objects in it.                                                *)
(***************************************************************************)
EXTENDS UnitNormalization, FiniteSets

\* What an entry looks like, and how sure that is.
Sign(format, score) == [format |-> format, score |-> score]
Medium == 2
High == 3

\* adapter_for and the allowed_extensions of the adapters.
Extensions(format) ==
  CASE format = "jsonld"   -> {"json", "jsonld"}
    [] format = "simapro"  -> {"csv", "txt"}
    [] format = "xlsx"     -> {"xlsx"}
    [] format = "ecospold" -> {"spold", "xml"}
    [] format = "ilcd"     -> {"xml"}
    [] OTHER               -> {}
-----------------------------------------------------------------------------
(* Detection *)

\* scan_path, scan_directory and scan_zip: a workbook inside an archive, and an
\* archive inside a directory, are not looked at.
Scanned(source) ==
  SelectSeq(source.entries, LAMBDA e :
    /\ e.sign # Nothing
    /\ source.kind = "zip" => e.ext # "xlsx")

Signs(source) ==
  [i \in 1 .. Len(Scanned(source)) |-> Scanned(source)[i].sign]
  \o (IF source.context THEN <<Sign("jsonld", High)>> ELSE <<>>)

\* CandidateAccumulator: the scores of a format, added up.
Score(signs, format) ==
  FoldLeft(LAMBDA sum, s : IF s.format = format THEN sum + s.score ELSE sum, 0, signs)

SignedFormats(signs) == {s.format : s \in Elements(signs)}
Strongest(signs) ==
  {f \in SignedFormats(signs) :
     \A g \in SignedFormats(signs) : Score(signs, f) >= Score(signs, g)}

\* detect_format and select_candidate: the format, or why there is none.
DetectFormat(source, requested) ==
  LET signs == Signs(source)
  IN CASE ~source.exists -> "missing"
       [] source.exists /\ source.ext = "zolca" -> "zolca"
       [] source.exists /\ source.ext # "zolca" /\ requested # Nothing -> requested
       [] OTHER ->
            CASE "zolca" \in SignedFormats(signs) -> "zolca"
              [] SignedFormats(signs) = {} -> "unknown"
              [] OTHER -> IF Cardinality(Strongest(signs)) = 1
                          THEN CHOOSE f \in Strongest(signs) : TRUE ELSE "ambiguous"

Importable == {"jsonld", "simapro", "xlsx", "ecospold", "ilcd"}
-----------------------------------------------------------------------------
(* The visit *)

\* extension_allowed.
Allowed(entry, format) == entry.ext \in Extensions(format)

\* visit_source_entries takes the source: a directory, an archive, or a file
\* that the adapter reads.
Visitable(source, format) ==
  \/ source.kind \in {"directory", "zip"}
  \/ source.ext \in Extensions(format)

\* visit_file and visit_zip: an entry larger than the limit is refused, and so
\* is one whose bytes, or whose parsed form, do not fit the budget.
Expansion(format) ==
  CASE format = "jsonld"               -> 4
    [] format \in {"ecospold", "ilcd"} -> 6
    [] format = "simapro"              -> 3
    [] OTHER                           -> 0
FitsMemory(entry, format, limit, budget) ==
  /\ entry.size <= limit
  /\ entry.size + Expansion(format) * entry.size <= budget
=============================================================================
