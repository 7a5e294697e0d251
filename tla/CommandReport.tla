---------------------------- MODULE CommandReport ----------------------------
(***************************************************************************)
(* One invocation of the tidas executable (tidas-cli): the arguments are   *)
(* checked, the signal handler is installed, the command makes its calls,  *)
(* and what became of them is one report and one exit code.                *)
(*                                                                         *)
(* A call of a library returns an error inside the errors of the crates it *)
(* came through.  Such an error is the sequence of those crates and a      *)
(* cause; which of its parts a walk along Error::source sees depends on    *)
(* how each crate wraps the next.                                          *)
(***************************************************************************)
EXTENDS Naturals, Sequences

CONSTANT None

VARIABLES
  request,    \* the command line
  phase,      \* parse, install, dispatch, work, report, render, exited
  token,      \* the shared cancellation token
  done,       \* calls that have returned
  found,      \* what completed calls found: issues, warnings, unresolved
  published,  \* the command's output is in place
  failure,    \* the error that ended the work
  report,     \* OperationReportV1: its status, exit class and completeness
  exit        \* the exit class of the process

vars == <<request, phase, token, done, found, published, failure, report, exit>>
-----------------------------------------------------------------------------
(* The calls of every command *)

\* A call fails with an error of one of these paths, may find something in the
\* data it reads, and may put the output in place.
Call(paths) == [paths |-> paths, finds |-> {}, publishes |-> FALSE]
Judging(paths, finds) == [paths |-> paths, finds |-> finds, publishes |-> FALSE]
Publishing(paths) == [paths |-> paths, finds |-> {}, publishes |-> TRUE]

Cli == <<"Cli">>
Release == <<"Release">>
Converting == <<"Release", "Conversion">>
Validating == <<"Release", "Validation">>
Native == Judging({<<"Validation">>}, {"issues", "unresolved"})

ConvertCalls == <<Call({<<"Conversion">>}), Publishing({<<"Conversion">>})>>
ImportCalls ==
  << Judging({<<"Import">>, <<"Import", "Core">>, <<"Import", "Core", "Adapter">>}, {"warnings"}),
     Call({<<"Import", "Package">>}), Call({<<"Import", "Validation">>}), Call({<<"Import", "Conversion">>}),
     Call({<<"Import", "Mapping">>, <<"Import", "Bundles">>, <<"Import">>}), Publishing({<<"Import">>}) >>
ExportCalls ==
  << Call({Cli}), Call({<<"Export">>, <<"Export", "Conversion">>}), Publishing({<<"Export">>}), Call({<<"Export">>}) >>

\* The five steps of a complete validation: native checks, a workspace, the
\* projection, its validation, the recovery.
CompleteValidationCalls ==
  << Native, Call({Cli}), Call({<<"Conversion">>}), Judging({<<"Validation">>}, {"issues"}),
     Judging({Release, Converting}, {"issues"}) >>

BuildCalls ==
  << Call({Release}), Call({Validating}), Call({Release}), Call({Release, Converting}), Call({Validating}),
     Call({Release, Converting}), Call({Release}), Publishing({Release}) >>
\* The tree is read once more after it was published.
ReleaseConvertCalls == <<Call({Release}), Publishing({Converting}), Call({Release})>>
RoundtripCalls == <<Judging({Release, Converting}, {"issues"})>>
ClosureCalls == <<Judging({Release}, {"issues", "unresolved"})>>
ReleaseValidateCalls == <<Judging({Release, Validating}, {"issues", "unresolved"})>>

Calls ==
  [convert |-> ConvertCalls, import |-> ImportCalls, importStrict |-> ImportCalls, export |-> ExportCalls,
   validateTidas |-> CompleteValidationCalls,
   validateNative |-> <<Native>>,   \* --schema-only, and eILCD packages
   validateBatch |-> <<Native>>,
   releaseBuild |-> BuildCalls, releaseConvert |-> ReleaseConvertCalls, releaseRoundtrip |-> RoundtripCalls,
   releaseClosure |-> ClosureCalls, releaseValidate |-> ReleaseValidateCalls,
   ruleset |-> <<Call({Cli})>>,
   describe |-> <<Call({Cli})>>,    \* validate --describe
   version |-> <<Call({Cli})>>]

Malformed == "malformed"
Help == "help"                      \* --help, --version and completions
Requests == DOMAIN Calls \cup {Malformed, Help}

\* What a failure of a call has at its core: a RuntimeError of the token or of
\* the budget, or an error of the innermost crate.  A request is refused in the
\* first call or not at all.
Runtime == {"cancelled", "budget"}
Causes(path) ==
  LET crate == path[Len(path)]
  IN CASE path = Cli -> (CASE request = "export" -> {"usage"}
                           [] request = "validateTidas" -> {"io"}
                           [] request = "ruleset" -> {"usage", "internal"}
                           [] OTHER -> {"internal"})
       [] path = <<"Export", "Conversion">> -> {"data", "internal"}
       [] crate = "Adapter" -> Runtime \cup {"data", "io"}
       [] crate \in {"Mapping", "Bundles"} -> Runtime \cup {"io", "internal"}
       [] OTHER -> Runtime \cup {"data", "io", "internal"}
                   \cup (IF done = 0 /\ Len(path) = 1 THEN {"usage"} ELSE {})
-----------------------------------------------------------------------------
(* The translation of errors *)

\* Wrappings that Error::source passes over: #[error(transparent)] forwards it
\* to the source of the wrapped error.
Transparent ==
  {<<"Release", "Conversion">>, <<"Release", "Validation">>, <<"Release", "RuntimeError">>,
   <<"Validation", "RuntimeError">>}

\* Whether the walk along the sources comes across the RuntimeError itself.
RuntimeInChain(path) ==
  LET chain == path \o <<"RuntimeError">>
      last == Len(chain)
      source[i \in 1 .. last] ==
        CASE i = last -> 0
          [] i < last /\ <<chain[i], chain[i + 1]>> \in Transparent -> source[i + 1]
          [] OTHER -> i + 1
      seen[i \in 0 .. last] == i # 0 /\ (i = last \/ seen[source[i]])
  IN seen[1]

\* A command notices the cancellation of a library call.
IsCancelled(path) ==
  CASE request \in {"import", "importStrict", "export", "releaseBuild", "releaseConvert",
                    "releaseRoundtrip", "releaseClosure", "releaseValidate"} -> RuntimeInChain(path)
    [] OTHER -> Len(path) = 1

ByCause(cause) ==
  CASE cause = "usage" -> "usage"
    [] cause = "data" -> "data-issues"
    [] cause = "io" -> "io"
    [] OTHER -> "internal"

\* failed_release_report and classify_release_conversion_error.
ReleaseClass(path, cause) == IF path = Validating THEN "internal" ELSE ByCause(cause)

\* failed_export_report.
ExportClass(path, cause) == IF path = <<"Export", "Conversion">> THEN "data-issues" ELSE ByCause(cause)

\* failed_import_report.
ImportClass(path, cause) ==
  CASE cause = "budget" /\ RuntimeInChain(path) -> "internal"
    [] path = <<"Import">> -> ByCause(cause)
    [] path = <<"Import", "Core">> -> IF cause \in Runtime THEN "internal" ELSE ByCause(cause)
    [] path = <<"Import", "Core", "Adapter">> -> "data-issues"
    [] path = <<"Import", "Package">> -> IF cause = "data" THEN "data-issues" ELSE "internal"
    [] path[2] \in {"Mapping", "Bundles"} -> "io"
    [] OTHER -> "internal"

\* failed_validation_report, and the two steps of the full validation that
\* blame the data for whatever goes wrong.
ValidateClass(path, cause) ==
  IF path[1] \in {"Conversion", "Release"} THEN "data-issues" ELSE ByCause(cause)

ClassOf(path, cause) ==
  CASE path = Cli -> ByCause(cause)
    [] request \in {"import", "importStrict"} -> ImportClass(path, cause)
    [] request = "export" -> ExportClass(path, cause)
    [] request = "convert" -> ByCause(cause)
    [] request \in {"validateTidas", "validateNative", "validateBatch"} -> ValidateClass(path, cause)
    [] OTHER -> ReleaseClass(path, cause)
-----------------------------------------------------------------------------
(* Reports *)

Succeeded == [status |-> "succeeded", class |-> "success", completeness |-> "complete"]
WithIssues == [status |-> "completed-with-issues", class |-> "data-issues", completeness |-> "complete"]
Failed(class) == [status |-> "failed", class |-> class, completeness |-> "not-started"]
Cancelled == [status |-> "cancelled", class |-> "cancelled", completeness |-> "partial"]

\* What a command without an error makes of its findings: a batch has them in
\* its events, an import minds its warnings when it is told to.
HasIssuesWithoutRecovery ==
  "issues" \in found /\ ~(request = "validateTidas" /\ done = Len(Calls.validateTidas))

HasIssues ==
  CASE request = "validateBatch" -> FALSE
    [] request = "importStrict" -> "warnings" \in found
    [] OTHER -> "issues" \in found

\* completed_*_report.
Completed ==
  LET base == IF HasIssues THEN WithIssues ELSE Succeeded
  IN IF "unresolved" \in found /\ request # "validateBatch" THEN [base EXCEPT !.completeness = "partial"] ELSE base

\* The report of an error.
Refused(path, cause) ==
  IF cause = "cancelled" /\ IsCancelled(path) THEN Cancelled ELSE Failed(ClassOf(path, cause))
-----------------------------------------------------------------------------
Init ==
  /\ request \in Requests
  /\ phase = "parse"
  /\ token = FALSE
  /\ done = 0
  /\ found = {}
  /\ published = FALSE
  /\ failure = None
  /\ report = None
  /\ exit = None

work == <<done, found, published, failure>>

\* Arguments that are refused and pages that are printed end the process here,
\* with an I/O error where the page cannot be written.
Parse ==
  /\ phase = "parse"
  /\ IF request \in {Malformed, Help}
       THEN /\ phase' = "exited"
            /\ exit' \in {"io", IF request = Help THEN "success" ELSE "usage"}
       ELSE phase' = "install" /\ UNCHANGED exit
  /\ UNCHANGED <<request, token, work, report>>

\* Every signal from the installation of the handler on sets the token.
Signal ==
  /\ phase \in {"dispatch", "work", "report", "render"}
  /\ ~token
  /\ token' = TRUE
  /\ UNCHANGED <<request, phase, work, report, exit>>

Install ==
  /\ phase = "install"
  /\ \/ phase' = "dispatch" /\ UNCHANGED report
     \/ phase' = "render" /\ report' = Failed("internal")
  /\ UNCHANGED <<request, token, work, exit>>

Dispatch ==
  /\ phase = "dispatch"
  /\ IF token THEN phase' = "render" /\ report' = Cancelled
              ELSE phase' = "work" /\ UNCHANGED report
  /\ UNCHANGED <<request, token, work, exit>>

ThisCall == Calls[request][done + 1]
More == done < Len(Calls[request])

\* The full validation does not go on with a package that has issues.
Stops == request = "validateTidas" /\ "issues" \in found

\* Evidence that is missing is an issue as well as unresolved.
Return ==
  /\ phase = "work"
  /\ More /\ ~Stops
  /\ \E finds \in SUBSET ThisCall.finds :
       /\ "unresolved" \in finds => "issues" \in finds
       /\ found' = found \cup finds
  /\ done' = done + 1
  /\ published' = (published \/ ThisCall.publishes)
  /\ UNCHANGED <<request, phase, token, failure, report, exit>>

\* The output of a call that fails is not in place (StagedCommit).  The budget
\* may run out at any time, a cancellation needs the token.
Fail ==
  /\ phase = "work"
  /\ More /\ ~Stops
  /\ \E path \in ThisCall.paths : \E cause \in Causes(path) :
       /\ cause = "cancelled" => token
       /\ failure' = [path |-> path, cause |-> cause]
  /\ phase' = "report"
  /\ UNCHANGED <<request, token, done, found, published, report, exit>>

Complete ==
  /\ phase = "work"
  /\ ~More \/ Stops
  /\ phase' = "render"
  /\ report' = Completed
  /\ UNCHANGED <<request, token, work, exit>>

Report ==
  /\ phase = "report"
  /\ phase' = "render"
  /\ report' = Refused(failure.path, failure.cause)
  /\ UNCHANGED <<request, token, work, exit>>

\* output::render, to standard output or through a temporary file to the path
\* of --report; the report and its exit code are lost when it fails.
Render ==
  /\ phase = "render"
  /\ phase' = "exited"
  /\ exit' \in {report.class, "io"}
  /\ UNCHANGED <<request, token, work, report>>

Exited == phase = "exited" /\ UNCHANGED vars

Next == Parse \/ Signal \/ Install \/ Dispatch \/ Return \/ Fail \/ Complete \/ Report \/ Render \/ Exited

Spec == Init /\ [][Next]_vars
-----------------------------------------------------------------------------
(* Properties *)

\* The code of the process can be relied on.  Success: every call was made and
\* none found an issue (a batch has its findings in its events, an import its
\* warnings in its report).  Cancelled: somebody asked for it, and no output
\* is in place, other than an archive that could not be hashed or a tree
\* that could not be summed up.  Usage: nothing was done.  Data issues of a conversion or a
\* release: the data have some.  The errors and findings of the calls reach it
\* through eight translations, each with its own exceptions (main.rs:117-335,
\* 438-459, 489-544, 639-689, 862-1290).
ExitIsEarned ==
  /\ exit = "success" /\ request # Help =>
       /\ failure = None /\ ~More
       /\ "issues" \in found => request = "validateBatch"
       /\ "warnings" \in found => request = "import"
  /\ exit = "cancelled" =>
       /\ token
       /\ published => request \in {"export", "releaseConvert"}
  /\ exit = "usage" => done = 0 /\ ~published
  /\ exit = "data-issues" /\ request \in {"convert", "releaseBuild", "releaseConvert", "releaseClosure"} =>
       \/ found # {}
       \/ failure # None /\ failure.cause = "data"

\* "`cancelled` | 130 | shared cancellation token stopped the operation"
\* (docs/agents/cli-contract.md:480): the error that ended the work is that of
\* the token, so the report says cancelled.
CancellationIsReported ==
  phase \in {"render", "exited"} /\ failure # None =>
    (failure.cause = "cancelled" => report = Cancelled)
=============================================================================
