----------------------------- MODULE ExportRun ------------------------------
(***************************************************************************)
(* run_export of crates/tidas-export/src/lib.rs.  A producer task reads    *)
(* the queries of one database transaction, each category's under a        *)
(* savepoint, and sends the rows through a bounded channel; the main task  *)
(* writes them to a staged package, joins the producer, normalizes         *)
(* versions, downloads the external documents, builds the ZIP, publishes   *)
(* it and hashes what it published.  Publication itself is module          *)
(* StagedCommit, normalization module VersionNormalization.                *)
(***************************************************************************)
EXTENDS Naturals, Sequences, FiniteSets

CONSTANTS
  Categories,\* how many category queries follow the common one
  Rows,      \* rows of the common query (0) and of each category
  Capacity,  \* ExportRequest.queue_capacity
  Budget     \* records the memory budget has room for

Queries == 0 .. Categories

ASSUME ExportAssumption == Categories \in Nat /\ Rows \in [Queries -> Nat]

NoRecord == <<>>

\* Stands for what the output path held before the export.
Previous == {NoRecord}

VARIABLES
  format,     \* ExportRequest.format
  cancelled,  \* the token
  ppc,        \* producer: begin, open, rows, send, release, rollback, commit, gone
  query,      \* the query it is in
  row,        \* rows of it taken so far
  offer,      \* the record it is sending
  warnings,   \* categories it reported as skipped
  presult,    \* what it returned: none, ok or an error
  channel,    \* the bounded channel
  mpc,        \* main task
  hand,       \* the record it is writing
  package,    \* records written to the staged package
  counted,    \* DatabaseCounts.common + category
  target,     \* the output archive: Previous or the records it was made from
  outcome     \* what run_export returned

producer == <<ppc, query, row, offer, warnings, presult>>
main == <<mpc, hand, package, counted, target, outcome>>
exportVars == <<format, cancelled, producer, channel, main>>

ExportInit ==
  /\ format \in {"tidas", "ilcd"}
  /\ cancelled = FALSE
  /\ ppc = "begin"
  /\ query = 0
  /\ row = 0
  /\ offer = NoRecord
  /\ warnings = {}
  /\ presult = "none"
  /\ channel = <<>>
  /\ mpc = "recv"
  /\ hand = NoRecord
  /\ package = {}
  /\ counted = 0
  /\ target = Previous
  /\ outcome = "none"

Cancel ==
  /\ ~cancelled
  /\ cancelled' = TRUE
  /\ UNCHANGED <<format, producer, channel, main>>
-----------------------------------------------------------------------------
(* The producer: produce_snapshot and stream_query. *)

\* The task returns; its sender goes, what is in the channel stays.
ProducerReturns(result) ==
  /\ ppc' = "gone"
  /\ presult' = result
  /\ offer' = NoRecord
  /\ UNCHANGED <<query, row, warnings>>

\* Connecting and BEGIN.
Begin ==
  /\ ppc = "begin"
  /\ \/ ppc' = "open" /\ UNCHANGED <<query, row, offer, warnings, presult>>
     \/ ProducerReturns("database")
  /\ UNCHANGED <<format, cancelled, channel, main>>

\* SAVEPOINT and the query.  Only a failing query of a category is forgiven.
Open ==
  /\ ppc = "open"
  /\ \/ /\ query > 0 /\ cancelled
        /\ ProducerReturns("cancelled")
     \/ /\ query = 0 \/ ~cancelled
        /\ \/ ppc' = "rows"
           \/ query > 0 /\ ppc' = "rollback"
        /\ UNCHANGED <<query, row, offer, warnings, presult>>
     \/ /\ query = 0 \/ ~cancelled
        /\ ProducerReturns("database")
  /\ UNCHANGED <<format, cancelled, channel, main>>

Held(record) == IF record = NoRecord THEN 0 ELSE 1

\* Records whose reservation is alive.
Live == Len(channel) + Held(offer) + Held(hand)

\* The next row: a failing fetch or decoding is a database error like that of
\* the query, a refused reservation is not.  The stream may also fail after its
\* last row; it is only the end of the stream that does not look at the token.
Fetch ==
  /\ ppc = "rows"
  /\ \/ /\ row = Rows[query]
        /\ ppc' = IF query = 0 THEN "next" ELSE "release"
        /\ UNCHANGED <<query, row, offer, warnings, presult>>
     \/ /\ cancelled
        /\ ProducerReturns("cancelled")
     \/ /\ ~cancelled
        /\ IF query > 0
           THEN ppc' = "rollback" /\ UNCHANGED <<query, row, offer, warnings, presult>>
           ELSE ProducerReturns("database")
     \/ /\ row < Rows[query] /\ ~cancelled
        /\ Live >= Budget
        /\ ProducerReturns("budget")
     \/ /\ row < Rows[query] /\ ~cancelled
        /\ Live < Budget
        /\ ppc' = "send"
        /\ row' = row + 1
        /\ offer' = <<query, row + 1>>
        /\ UNCHANGED <<query, warnings, presult>>
  /\ UNCHANGED <<format, cancelled, channel, main>>

MainEnded == mpc = "ended"

\* sender.send waits for room and fails when the main task has returned.
Send ==
  /\ ppc = "send"
  /\ \/ /\ ~MainEnded
        /\ Len(channel) < Capacity
        /\ channel' = Append(channel, offer)
        /\ ppc' = "rows"
        /\ offer' = NoRecord
        /\ UNCHANGED <<query, row, warnings, presult>>
     \/ /\ MainEnded
        /\ ProducerReturns("disconnected")
        /\ UNCHANGED channel
  /\ UNCHANGED <<format, cancelled, main>>

\* RELEASE SAVEPOINT, or ROLLBACK TO it with a warning.
CloseCategory ==
  /\ ppc \in {"release", "rollback"}
  /\ \/ /\ ppc' = "next"
        /\ warnings' = IF ppc = "rollback" THEN warnings \cup {query} ELSE warnings
        /\ UNCHANGED <<query, row, offer, presult>>
     \/ ProducerReturns("database")
  /\ UNCHANGED <<format, cancelled, channel, main>>

NextQuery ==
  /\ ppc = "next"
  /\ IF query = Categories
     THEN ppc' = "commit" /\ UNCHANGED <<query, row>>
     ELSE ppc' = "open" /\ query' = query + 1 /\ row' = 0
  /\ UNCHANGED <<format, cancelled, offer, warnings, presult, channel, main>>

Commit ==
  /\ ppc = "commit"
  /\ ProducerReturns("ok") \/ ProducerReturns("database")
  /\ UNCHANGED <<format, cancelled, channel, main>>

\* Dropping the runtime aborts the task at its next await.
AbortProducer ==
  /\ MainEnded
  /\ ppc # "gone"
  /\ ProducerReturns("aborted")
  /\ UNCHANGED <<format, cancelled, channel, main>>

Producer == Begin \/ Open \/ Fetch \/ Send \/ CloseCategory \/ NextQuery
            \/ Commit \/ AbortProducer
-----------------------------------------------------------------------------
(* The main task. *)

\* run_export returns; the receiver goes with what the channel still holds.
MainReturns(result) ==
  /\ mpc' = "ended"
  /\ outcome' = result
  /\ hand' = NoRecord
  /\ channel' = <<>>

\* Mutant: the end of the producer is taken for the end of the records.
ReceiveHastily ==
  /\ mpc = "recv"
  /\ \/ /\ channel # <<>> /\ ~cancelled
        /\ hand' = Head(channel)
        /\ channel' = Tail(channel)
        /\ mpc' = "write"
        /\ UNCHANGED <<package, counted, target, outcome>>
     \/ /\ channel # <<>> /\ cancelled
        /\ MainReturns("cancelled")
        /\ UNCHANGED <<package, counted, target>>
     \/ /\ ppc = "gone"
        /\ mpc' = "join"
        /\ UNCHANGED <<channel, hand, package, counted, target, outcome>>
  /\ UNCHANGED <<format, cancelled, producer>>

\* Mutant: only a record ends the wait.
ReceiveForEver ==
  /\ mpc = "recv"
  /\ channel # <<>>
  /\ hand' = Head(channel)
  /\ channel' = Tail(channel)
  /\ mpc' = "write"
  /\ UNCHANGED <<package, counted, target, outcome>>
  /\ UNCHANGED <<format, cancelled, producer>>

\* receiver.recv and the check after it.
Receive ==
  /\ mpc = "recv"
  /\ \/ /\ channel # <<>> /\ ~cancelled
        /\ hand' = Head(channel)
        /\ channel' = Tail(channel)
        /\ mpc' = "write"
        /\ UNCHANGED <<package, counted, target, outcome>>
     \/ /\ channel # <<>> /\ cancelled
        /\ MainReturns("cancelled")
        /\ UNCHANGED <<package, counted, target>>
     \/ /\ channel = <<>> /\ ppc = "gone"
        /\ mpc' = "join"
        /\ UNCHANGED <<channel, hand, package, counted, target, outcome>>
  /\ UNCHANGED <<format, cancelled, producer>>

\* write_record: an unsafe path, a conversion or a write may fail.
Write ==
  /\ mpc = "write"
  /\ \/ /\ ~cancelled
        /\ package' = package \cup {hand}
        /\ counted' = counted + 1
        /\ hand' = NoRecord
        /\ mpc' = "recv"
        /\ UNCHANGED <<channel, target, outcome>>
     \/ /\ MainReturns(IF cancelled THEN "cancelled" ELSE "io")
        /\ UNCHANGED <<package, counted, target>>
  /\ UNCHANGED <<format, cancelled, producer>>

\* producer.await??, then connection_task.await?.
Join ==
  /\ mpc = "join"
  /\ \/ /\ presult = "ok"
        /\ mpc' = "normalize"
        /\ UNCHANGED <<channel, hand, package, counted, target, outcome>>
     \/ /\ MainReturns(IF presult = "ok" THEN "database" ELSE presult)
        /\ UNCHANGED <<package, counted, target>>
  /\ UNCHANGED <<format, cancelled, producer>>

After(step) ==
  CASE step = "normalize" -> "download"
    [] step = "download" -> "archive"
    [] step = "archive" -> "publish"

\* normalize_package_versions (TIDAS only), download_external_documents
\* (skipped or not) and write_deterministic_zip up to the finished temporary
\* file.  Each looks at the token, the download has time-outs, all may fail.
Prepare ==
  /\ mpc \in {"normalize", "download", "archive"}
  /\ \/ /\ mpc' = After(mpc)
        /\ mpc = "archive" => ~cancelled
        /\ mpc = "normalize" /\ format = "tidas" => ~cancelled
        /\ UNCHANGED <<channel, hand, package, counted, target, outcome>>
     \/ /\ mpc = "normalize" => format = "tidas"
        /\ MainReturns(IF cancelled THEN "cancelled" ELSE "failed")
        /\ UNCHANGED <<package, counted, target>>
  /\ UNCHANGED <<format, cancelled, producer>>

\* publish_atomically.
Publish ==
  /\ mpc = "publish"
  /\ \/ /\ target' = package
        /\ mpc' = "hash"
        /\ UNCHANGED <<channel, hand, package, counted, outcome>>
     \/ /\ MainReturns("io")
        /\ UNCHANGED <<package, counted, target>>
  /\ UNCHANGED <<format, cancelled, producer>>

\* hash_file reserves its buffer and reads the published archive.
Hash ==
  /\ mpc = "hash"
  /\ \/ ~cancelled /\ MainReturns("done")
     \/ MainReturns(IF cancelled THEN "cancelled" ELSE "failed")
  /\ UNCHANGED <<format, cancelled, producer, package, counted, target>>

Main == Receive \/ Write \/ Join \/ Prepare \/ Publish \/ Hash

Stopped == MainEnded /\ ppc = "gone" /\ UNCHANGED exportVars

ExportNext == Cancel \/ Producer \/ Main \/ Stopped

\* Both tasks keep running: the database and the store answer (a stalled
\* query has no time-out and is not modelled, see the README).
ExportSpec == ExportInit /\ [][ExportNext]_exportVars /\ WF_exportVars(Producer) /\ WF_exportVars(Main)
-----------------------------------------------------------------------------
(* Properties *)

\* What is published holds every row of every query that is not reported as
\* skipped, and the report counts exactly the rows it holds: the end of the
\* stream is never mistaken.  The error of a producer that stopped early
\* surfaces, although the channel closes as it does after the last row
\* (database.rs 58-72).
PublishedIsComplete ==
  target # Previous =>
    /\ presult \in {"none", "ok", "aborted"}
    /\ \A k \in Queries \ warnings : \A n \in 1 .. Rows[k] : <<k, n>> \in target
    /\ counted = Cardinality(target)

\* Neither task waits for the other for ever: run_export returns, and the
\* producer with it (database.rs 58-72, 147-153).
BothReturn == <>(MainEnded /\ ppc = "gone")
=============================================================================
