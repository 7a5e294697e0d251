---------------------------- MODULE ExportProofs ----------------------------
(***************************************************************************)
(* Proofs about the two halves of `tidas export`: ExportRun, for any       *)
(* number of categories and rows, any capacity of the channel and any      *)
(* memory budget, and VersionNormalization, for any packages, that is any  *)
(* number of datasets, versions and files, and any references in each.     *)
(***************************************************************************)
EXTENDS ExportRun, VersionNormalization, FiniteSetTheorems, WellFoundedInduction, TLAPS

-----------------------------------------------------------------------------
(* The invariant *)

Records == Nat \X Nat

\* Records travel in the order of their queries and rows.
Before(r, s) == r[1] < s[1] \/ (r[1] = s[1] /\ r[2] < s[2])

InChannel == {channel[i] : i \in 1 .. Len(channel)}
InHand == IF mpc = "write" THEN {hand} ELSE {}
Offered == IF ppc = "send" THEN {offer} ELSE {}
Sent == package \cup InHand \cup InChannel

\* All rows of the query were taken, or it is reported.
Through == row = Rows[query] \/ query \in warnings

Fetched(k, n) == k < query \/ (k = query /\ n <= row)

Complete(records) ==
  \A k \in Queries \ warnings : \A n \in 1 .. Rows[k] : <<k, n>> \in records

PlaceInv ==
  /\ query \in Queries /\ row \in 0 .. Rows[query]
  /\ ppc = "send" => offer = <<query, row>>
  /\ ppc = "release" => row = Rows[query]
  /\ ppc \in {"next", "commit"} => Through
  /\ ppc = "commit" => query = Categories
  /\ presult = "none" <=> ppc # "gone"
  /\ presult = "ok" => query = Categories /\ Through

OrderInv ==
  /\ channel \in Seq(Records) /\ Sent \subseteq Records
  /\ \A r \in Sent : IF ppc = "send" THEN Before(r, <<query, row>>)
                                     ELSE ~Before(<<query, row>>, r)
  /\ \A i, j \in 1 .. Len(channel) : i < j => Before(channel[i], channel[j])
  /\ \A r \in InHand, s \in InChannel : Before(r, s)
  /\ \A r \in package, s \in InHand \cup InChannel : Before(r, s)

RowsCounted == IsFiniteSet(package) /\ counted = Cardinality(package)

NoneLost ==
  mpc # "ended" /\ presult \in {"none", "ok"} =>
    \A k \in Queries \ warnings : \A n \in 1 .. Rows[k] :
      Fetched(k, n) => <<k, n>> \in Sent \cup Offered

TargetInv ==
  /\ mpc \in {"recv", "write", "join", "normalize", "download", "archive", "publish", "hash", "ended"}
  /\ mpc \notin {"recv", "write", "ended"} => ppc = "gone" /\ channel = <<>>
  /\ mpc \notin {"recv", "write", "join", "ended"} => presult = "ok"
  /\ mpc \notin {"hash", "ended"} => target = Previous
  /\ mpc = "hash" => target = package
  /\ mpc = "ended" /\ target # Previous =>
       target = package /\ presult = "ok" /\ Complete(package)

ExportInv == PlaceInv /\ OrderInv /\ RowsCounted /\ NoneLost /\ TargetInv

\* When the producer is through and the channel empty, all is written.
LEMMA NothingUnderway ==
  ASSUME ExportAssumption, PlaceInv, NoneLost, presult = "ok", channel = <<>>,
         mpc \notin {"write", "ended"}
  PROVE  Complete(package)
<1>1. InChannel = {} /\ InHand = {} /\ Offered = {}
  BY DEF InChannel, InHand, Offered, PlaceInv
<1>2. ASSUME NEW k \in Queries \ warnings, NEW n \in 1 .. Rows[k]
      PROVE  Fetched(k, n)
  BY DEF PlaceInv, Through, Fetched, Queries, ExportAssumption
<1> QED BY <1>1, <1>2 DEF NoneLost, Sent, Complete

LEMMA ExportInvImplies == ExportAssumption /\ ExportInv => PublishedIsComplete
<1> SUFFICES ASSUME ExportAssumption, ExportInv, target # Previous PROVE PublishedIsComplete
  BY DEF PublishedIsComplete
<1>1. target = package /\ presult = "ok" /\ Complete(package)
  BY NothingUnderway DEF ExportInv, TargetInv
<1> QED BY <1>1 DEF PublishedIsComplete, ExportInv, RowsCounted, Complete
-----------------------------------------------------------------------------
LEMMA InitExport == ExportAssumption /\ ExportInit => ExportInv
<1> SUFFICES ASSUME ExportAssumption, ExportInit PROVE ExportInv
  OBVIOUS
<1>1. PlaceInv
  BY DEF ExportInit, PlaceInv, Queries, ExportAssumption
<1>2. Sent = {} /\ InHand = {} /\ InChannel = {}
  BY DEF ExportInit, Sent, InHand, InChannel
<1>3. OrderInv
  BY <1>2 DEF ExportInit, OrderInv
<1>4. RowsCounted
  BY FS_EmptySet DEF ExportInit, RowsCounted
<1>5. NoneLost
  BY DEF ExportInit, NoneLost, Fetched, Queries, ExportAssumption
<1>6. TargetInv
  BY DEF ExportInit, TargetInv
<1> QED BY <1>1, <1>3, <1>4, <1>5, <1>6 DEF ExportInv

\* The producer goes on, without touching channel or main task, and takes no row.
LEMMA ProducerMoves ==
  ASSUME ExportInv, PlaceInv', ppc # "gone", UNCHANGED <<channel, main>>,
         query' = query, row' = row, warnings \subseteq warnings',
         ppc' # "send", ppc = "send" => presult' \notin {"none", "ok"}
  PROVE  ExportInv'
<1> USE DEF ExportInv
<1>1. InChannel' = InChannel /\ InHand' = InHand /\ Sent' = Sent
  BY DEF InChannel, InHand, Sent, main
<1>2. ASSUME NEW r \in Sent PROVE ~Before(<<query, row>>, r)
  <2>1. OrderInv /\ r \in Records /\ query \in Nat /\ row \in Nat
    <3>1. query \in Nat /\ row \in 0 .. Rows[query]
      BY DEF PlaceInv, Queries
    <3> QED BY <3>1 DEF OrderInv
  <2>2. Before(r, <<query, row>>) => ~Before(<<query, row>>, r)
    BY <2>1 DEF Before, Records
  <2> QED BY <2>1, <2>2 DEF OrderInv
<1>3. OrderInv'
  BY <1>1, <1>2 DEF OrderInv, main
<1>4. RowsCounted'
  BY DEF RowsCounted, main
<1>5. NoneLost'
  BY <1>1 DEF NoneLost, Fetched, Offered, main, PlaceInv
<1>6. TargetInv'
  BY DEF TargetInv, PlaceInv, main
<1> QED BY <1>3, <1>4, <1>5, <1>6

\* An action of the producer that ends with an error.
LEMMA ProducerFails ==
  ASSUME ExportInv, ppc # "gone", NEW e, e \notin {"none", "ok"}, ProducerReturns(e),
         UNCHANGED <<channel, main>>
  PROVE  ExportInv'
<1>1. PlaceInv'
  BY DEF ExportInv, PlaceInv, ProducerReturns, Through
<1> QED BY <1>1, ProducerMoves DEF ProducerReturns

LEMMA FetchStep == ExportAssumption /\ ExportInv /\ Fetch => ExportInv'
<1> SUFFICES ASSUME ExportAssumption, ExportInv, Fetch PROVE ExportInv'
  OBVIOUS
<1> USE DEF ExportInv
<1>0. ppc = "rows" /\ UNCHANGED <<channel, main>>
  BY DEF Fetch
<1>1. CASE ProducerReturns("cancelled") \/ ProducerReturns("database") \/ ProducerReturns("budget")
  BY <1>0, <1>1, ProducerFails
<1>2. CASE /\ row = Rows[query] /\ ppc' = IF query = 0 THEN "next" ELSE "release"
           /\ UNCHANGED <<query, row, offer, warnings, presult>>
  <2>1. PlaceInv'
    BY <1>0, <1>2 DEF PlaceInv, Through
  <2> QED BY <1>0, <1>2, <2>1, ProducerMoves
<1>3. CASE ppc' = "rollback" /\ UNCHANGED <<query, row, offer, warnings, presult>>
  <2>1. PlaceInv'
    BY <1>0, <1>3 DEF PlaceInv
  <2> QED BY <1>0, <1>3, <2>1, ProducerMoves
<1>4. CASE /\ row < Rows[query] /\ ppc' = "send" /\ row' = row + 1
           /\ offer' = <<query, row + 1>> /\ UNCHANGED <<query, warnings, presult>>
  <2>1. query \in Nat /\ row \in Nat /\ Rows[query] \in Nat
    BY DEF PlaceInv, Queries, ExportAssumption
  <2>2. PlaceInv'
    BY <1>0, <1>4, <2>1 DEF PlaceInv
  <2>3. InChannel' = InChannel /\ InHand' = InHand /\ Sent' = Sent
    BY <1>0 DEF InChannel, InHand, Sent, main
  <2>4. ASSUME NEW r \in Sent PROVE Before(r, <<query, row + 1>>)
    <3>1. ~Before(<<query, row>>, r) /\ r[1] \in Nat /\ r[2] \in Nat
      BY <1>0 DEF OrderInv, Records
    <3> QED BY <2>1, <3>1 DEF Before
  <2>5. OrderInv'
    BY <1>0, <1>4, <2>3, <2>4 DEF OrderInv, main
  <2>6. RowsCounted'
    BY <1>0 DEF RowsCounted, main
  <2>7. NoneLost'
    <3>1. SUFFICES ASSUME mpc # "ended", presult \in {"none", "ok"},
                          NEW k \in Queries \ warnings, NEW n \in 1 .. Rows[k],
                          Fetched(k, n)'
                   PROVE  <<k, n>> \in Sent \cup {<<query, row + 1>>}
      BY <1>0, <1>4, <2>3 DEF NoneLost, Offered, main
    <3>2. CASE Fetched(k, n)
      BY <1>0, <3>1, <3>2 DEF NoneLost, Offered
    <3>3. CASE ~Fetched(k, n)
      <4>1. k = query /\ n = row + 1
        BY <1>4, <2>1, <3>1, <3>3 DEF Fetched
      <4> QED BY <4>1
    <3> QED BY <3>2, <3>3
  <2>8. TargetInv'
    BY <1>0 DEF TargetInv, main, PlaceInv
  <2> QED BY <2>2, <2>5, <2>6, <2>7, <2>8
<1> QED BY <1>1, <1>2, <1>3, <1>4 DEF Fetch

LEMMA SendStep == ExportAssumption /\ ExportInv /\ Send => ExportInv'
<1> SUFFICES ASSUME ExportAssumption, ExportInv, Send PROVE ExportInv'
  OBVIOUS
<1> USE DEF ExportInv
<1>0. ppc = "send" /\ offer = <<query, row>> /\ UNCHANGED main
  BY DEF Send, PlaceInv
<1>1. CASE MainEnded /\ ProducerReturns("disconnected") /\ UNCHANGED channel
  BY <1>0, <1>1, ProducerFails
<1>2. CASE /\ ~MainEnded /\ channel' = Append(channel, offer) /\ ppc' = "rows"
           /\ UNCHANGED <<query, row, warnings, presult>>
  <2>1. query \in Nat /\ row \in Nat /\ offer \in Records
    BY <1>0 DEF PlaceInv, Queries, ExportAssumption, Records
  <2>2. PlaceInv'
    BY <1>0, <1>2 DEF PlaceInv
  <2>3. /\ channel \in Seq(Records) /\ channel' \in Seq(Records)
        /\ Len(channel') = Len(channel) + 1 /\ channel'[Len(channel) + 1] = offer
        /\ \A i \in 1 .. Len(channel) : channel'[i] = channel[i]
    BY <1>2, <2>1 DEF OrderInv
  <2>4. InHand' = InHand /\ InChannel' = InChannel \cup {offer} /\ UNCHANGED package
    <3>1. \A i \in 1 .. Len(channel') : i \in 1 .. Len(channel) \/ i = Len(channel) + 1
      BY <2>3
    <3>2. \A i \in 1 .. Len(channel) : i \in 1 .. Len(channel')
      BY <2>3
    <3>3. Len(channel) + 1 \in 1 .. Len(channel')
      BY <2>3
    <3>4. InChannel' \subseteq InChannel \cup {offer}
      BY <2>3, <3>1 DEF InChannel
    <3>5. InChannel \cup {offer} \subseteq InChannel'
      BY <2>3, <3>2, <3>3 DEF InChannel
    <3> QED BY <1>0, <3>4, <3>5 DEF InHand, main
  <2>5. Sent' = Sent \cup {offer}
    BY <2>4 DEF Sent
  <2>6. OrderInv'
    <3>1. \A r \in Sent : Before(r, offer)
      BY <1>0 DEF OrderInv
    <3>2. \A r \in Sent' : ~Before(<<query, row>>, r)
      BY <1>0, <2>1, <2>5, <3>1 DEF Before, OrderInv, Records
    <3>3. \A i, j \in 1 .. Len(channel') : i < j => Before(channel'[i], channel'[j])
      <4>1. SUFFICES ASSUME NEW i \in 1 .. Len(channel'), NEW j \in 1 .. Len(channel'), i < j
                     PROVE  Before(channel'[i], channel'[j])
        OBVIOUS
      <4>2. CASE j = Len(channel) + 1
        <5>1. i \in 1 .. Len(channel)
          BY <2>3, <4>1, <4>2
        <5> QED BY <2>3, <3>1, <4>2, <5>1 DEF Sent, InChannel
      <4>3. CASE j # Len(channel) + 1
        <5>1. i \in 1 .. Len(channel) /\ j \in 1 .. Len(channel)
          BY <2>3, <4>1, <4>3
        <5> QED BY <2>3, <4>1, <5>1 DEF OrderInv
      <4> QED BY <4>2, <4>3
    <3>4. \A r \in InHand', s \in InChannel' : Before(r, s)
      BY <2>4, <3>1 DEF OrderInv, Sent
    <3>5. \A r \in package', s \in InHand' \cup InChannel' : Before(r, s)
      BY <2>4, <3>1 DEF OrderInv, Sent
    <3>6. Sent' \subseteq Records
      BY <2>1, <2>5 DEF OrderInv
    <3> QED BY <1>2, <2>3, <3>2, <3>3, <3>4, <3>5, <3>6 DEF OrderInv
  <2>7. RowsCounted'
    BY <1>0 DEF RowsCounted, main
  <2>8. NoneLost'
    BY <1>0, <1>2, <2>5 DEF NoneLost, Offered, Fetched, main
  <2>9. TargetInv'
    BY <1>0 DEF TargetInv, main, PlaceInv, MainEnded
  <2> QED BY <2>2, <2>6, <2>7, <2>8, <2>9
<1> QED BY <1>1, <1>2 DEF Send

LEMMA CloseStep == ExportAssumption /\ ExportInv /\ (CloseCategory \/ Commit) => ExportInv'
<1> SUFFICES ASSUME ExportAssumption, ExportInv, CloseCategory \/ Commit PROVE ExportInv'
  OBVIOUS
<1> USE DEF ExportInv
<1>0. ppc \in {"release", "rollback", "commit"} /\ UNCHANGED <<channel, main>>
  BY DEF CloseCategory, Commit
<1>1. CASE ProducerReturns("database")
  BY <1>0, <1>1, ProducerFails
<1>2. CASE /\ ppc \in {"release", "rollback"} /\ ppc' = "next"
           /\ warnings' = IF ppc = "rollback" THEN warnings \cup {query} ELSE warnings
           /\ UNCHANGED <<query, row, offer, presult>>
  <2>1. PlaceInv'
    BY <1>0, <1>2 DEF PlaceInv, Through
  <2> QED BY <1>0, <1>2, <2>1, ProducerMoves
<1>3. CASE ppc = "commit" /\ ProducerReturns("ok")
  <2>1. PlaceInv'
    BY <1>3 DEF PlaceInv, ProducerReturns, Through
  <2> QED BY <1>0, <1>3, <2>1, ProducerMoves DEF ProducerReturns
<1> QED BY <1>1, <1>2, <1>3 DEF CloseCategory, Commit

LEMMA NextQueryStep == ExportAssumption /\ ExportInv /\ NextQuery => ExportInv'
<1> SUFFICES ASSUME ExportAssumption, ExportInv, NextQuery PROVE ExportInv'
  OBVIOUS
<1> USE DEF ExportInv
<1>0. ppc = "next" /\ Through /\ UNCHANGED <<offer, warnings, presult, channel, main>>
  BY DEF NextQuery, PlaceInv
<1>1. CASE query = Categories /\ ppc' = "commit" /\ UNCHANGED <<query, row>>
  <2>1. PlaceInv'
    BY <1>0, <1>1 DEF PlaceInv, Through
  <2> QED BY <1>0, <1>1, <2>1, ProducerMoves
<1>2. CASE query # Categories /\ ppc' = "open" /\ query' = query + 1 /\ row' = 0
  <2>1. query \in Nat /\ row \in Nat /\ query + 1 \in Queries /\ Rows[query + 1] \in Nat
    BY <1>2 DEF PlaceInv, Queries, ExportAssumption
  <2>2. PlaceInv'
    BY <1>0, <1>2, <2>1 DEF PlaceInv
  <2>3. InChannel' = InChannel /\ InHand' = InHand /\ Sent' = Sent
    BY <1>0 DEF InChannel, InHand, Sent, main
  <2>4. ASSUME NEW r \in Sent PROVE ~Before(<<query + 1, 0>>, r)
    <3>1. ~Before(<<query, row>>, r) /\ r[1] \in Nat /\ r[2] \in Nat
      BY <1>0 DEF OrderInv, Records
    <3> QED BY <2>1, <3>1 DEF Before
  <2>5. OrderInv'
    BY <1>0, <1>2, <2>3, <2>4 DEF OrderInv, main
  <2>6. RowsCounted'
    BY <1>0 DEF RowsCounted, main
  <2>7. NoneLost'
    <3>1. SUFFICES ASSUME mpc # "ended", presult \in {"none", "ok"},
                          NEW k \in Queries \ warnings, NEW n \in 1 .. Rows[k],
                          Fetched(k, n)'
                   PROVE  <<k, n>> \in Sent \cup Offered
      BY <1>0, <1>2, <2>3 DEF NoneLost, Offered, main
    <3>2. k = query => n <= row
      BY <1>0 DEF Through
    <3>3. Fetched(k, n)
      BY <1>2, <2>1, <3>1, <3>2 DEF Fetched, Queries
    <3> QED BY <3>1, <3>3 DEF NoneLost
  <2>8. TargetInv'
    BY <1>0 DEF TargetInv, main, PlaceInv
  <2> QED BY <2>2, <2>5, <2>6, <2>7, <2>8
<1> QED BY <1>1, <1>2, <1>0 DEF NextQuery

LEMMA ProducerStep == ExportAssumption /\ ExportInv /\ Producer => ExportInv'
<1> SUFFICES ASSUME ExportAssumption, ExportInv, Producer PROVE ExportInv'
  OBVIOUS
<1>1. CASE Begin \/ Open
  <2>0. ppc \in {"begin", "open"} /\ UNCHANGED <<channel, main>>
    BY <1>1 DEF Begin, Open
  <2>1. CASE ProducerReturns("database") \/ ProducerReturns("cancelled")
    BY <2>0, <2>1, ProducerFails
  <2>2. CASE ppc' \in {"open", "rows", "rollback"} /\ UNCHANGED <<query, row, offer, warnings, presult>>
    <3>1. PlaceInv'
      BY <2>0, <2>2 DEF ExportInv, PlaceInv
    <3> QED BY <2>0, <2>2, <3>1, ProducerMoves
  <2> QED BY <1>1, <2>1, <2>2 DEF Begin, Open
<1>2. CASE AbortProducer
  BY <1>2, ProducerFails DEF AbortProducer
<1> QED BY <1>1, <1>2, FetchStep, SendStep, CloseStep, NextQueryStep DEF Producer
-----------------------------------------------------------------------------
(* The main task *)

\* run_export returns without having published.
LEMMA MainFails ==
  ASSUME ExportInv, NEW e, mpc # "ended", MainReturns(e),
         UNCHANGED <<producer, package, counted, target>>,
         mpc = "hash" => Complete(package)
  PROVE  ExportInv'
<1> USE DEF ExportInv, MainReturns
<1>1. PlaceInv'
  BY DEF PlaceInv, Through, producer
<1>2. InChannel' = {} /\ InHand' = {} /\ Sent' = package
  BY DEF InChannel, InHand, Sent
<1>3. OrderInv'
  BY <1>2 DEF OrderInv, Sent, producer
<1>4. RowsCounted' /\ NoneLost'
  BY DEF RowsCounted, NoneLost
<1>5. TargetInv'
  BY DEF TargetInv, Complete, producer
<1> QED BY <1>1, <1>3, <1>4, <1>5

LEMMA ReceiveStep == ExportAssumption /\ ExportInv /\ Receive => ExportInv'
<1> SUFFICES ASSUME ExportAssumption, ExportInv, Receive PROVE ExportInv'
  OBVIOUS
<1> USE DEF ExportInv
<1>0. mpc = "recv" /\ UNCHANGED producer
  BY DEF Receive
<1>1. CASE MainReturns("cancelled") /\ UNCHANGED <<package, counted, target>>
  BY <1>0, <1>1, MainFails
<1>2. CASE /\ channel # <<>> /\ hand' = Head(channel) /\ channel' = Tail(channel) /\ mpc' = "write"
           /\ UNCHANGED <<package, counted, target, outcome>>
  <2>1. /\ channel' \in Seq(Records) /\ Len(channel) \in Nat \ {0} /\ Len(channel') = Len(channel) - 1
        /\ hand' = channel[1] /\ \A i \in 1 .. Len(channel') : channel'[i] = channel[i + 1]
    BY <1>2 DEF OrderInv
  <2>2. InHand = {} /\ InHand' = {channel[1]}
    BY <1>0, <1>2, <2>1 DEF InHand
  <2>3. InChannel = InChannel' \cup {channel[1]}
    <3>1. InChannel' \subseteq InChannel
      BY <2>1 DEF InChannel
    <3>2. \A i \in 1 .. Len(channel) : i # 1 => i - 1 \in 1 .. Len(channel') /\ channel[i] = channel'[i - 1]
      BY <2>1
    <3>3. InChannel \subseteq InChannel' \cup {channel[1]}
      BY <3>2 DEF InChannel
    <3>4. channel[1] \in InChannel
      BY <2>1 DEF InChannel
    <3> QED BY <3>1, <3>3, <3>4
  <2>4. Sent' = Sent
    BY <1>2, <2>2, <2>3 DEF Sent
  <2>5. OrderInv'
    <3>1. \A i, j \in 1 .. Len(channel') : i < j => Before(channel'[i], channel'[j])
      <4>1. SUFFICES ASSUME NEW i \in 1 .. Len(channel'), NEW j \in 1 .. Len(channel'), i < j
                     PROVE  Before(channel'[i], channel'[j])
        OBVIOUS
      <4>2. i + 1 \in 1 .. Len(channel) /\ j + 1 \in 1 .. Len(channel) /\ i + 1 < j + 1
        BY <2>1, <4>1
      <4>3. Before(channel[i + 1], channel[j + 1])
        BY <4>2 DEF OrderInv
      <4> QED BY <2>1, <4>3
    <3>2. \A s \in InChannel' : Before(channel[1], s)
      <4>1. SUFFICES ASSUME NEW i \in 1 .. Len(channel') PROVE Before(channel[1], channel'[i])
        BY Zenon DEF InChannel
      <4>2. i + 1 \in 1 .. Len(channel) /\ 1 \in 1 .. Len(channel) /\ 1 < i + 1
        BY <2>1
      <4>3. Before(channel[1], channel[i + 1])
        BY <4>2 DEF OrderInv
      <4> QED BY <2>1, <4>3
    <3>3. \A r \in package', s \in InHand' \cup InChannel' : Before(r, s)
      BY <1>2, <2>2, <2>3 DEF OrderInv
    <3>4. /\ Sent' \subseteq Records
          /\ \A r \in Sent' : IF ppc = "send" THEN Before(r, <<query, row>>) ELSE ~Before(<<query, row>>, r)
      BY <2>4 DEF OrderInv
    <3> QED BY <1>0, <2>1, <2>2, <3>1, <3>2, <3>3, <3>4 DEF OrderInv, producer
  <2>6. PlaceInv'
    BY <1>0 DEF PlaceInv, Through, producer
  <2>7. NoneLost'
    BY <1>0, <1>2, <2>4 DEF NoneLost, Offered, Fetched, producer
  <2>8. RowsCounted' /\ TargetInv'
    BY <1>0, <1>2 DEF RowsCounted, TargetInv
  <2> QED BY <2>5, <2>6, <2>7, <2>8
<1>3. CASE /\ channel = <<>> /\ ppc = "gone" /\ mpc' = "join"
           /\ UNCHANGED <<channel, hand, package, counted, target, outcome>>
  <2>1. InChannel' = InChannel /\ InHand' = InHand /\ Sent' = Sent
    BY <1>0, <1>3 DEF InChannel, InHand, Sent
  <2>2. PlaceInv'
    BY <1>0 DEF PlaceInv, Through, producer
  <2>3. OrderInv'
    BY <1>0, <1>3, <2>1 DEF OrderInv, producer
  <2>4. NoneLost'
    BY <1>0, <1>3, <2>1 DEF NoneLost, Offered, Fetched, producer
  <2>5. RowsCounted' /\ TargetInv'
    BY <1>0, <1>3 DEF RowsCounted, TargetInv, producer
  <2> QED BY <2>2, <2>3, <2>4, <2>5
<1> QED BY <1>1, <1>2, <1>3 DEF Receive

LEMMA WriteStep == ExportAssumption /\ ExportInv /\ Write => ExportInv'
<1> SUFFICES ASSUME ExportAssumption, ExportInv, Write PROVE ExportInv'
  OBVIOUS
<1> USE DEF ExportInv
<1>0. mpc = "write" /\ UNCHANGED producer
  BY DEF Write
<1>1. CASE /\ MainReturns(IF cancelled THEN "cancelled" ELSE "io")
           /\ UNCHANGED <<package, counted, target>>
  BY <1>0, <1>1, MainFails
<1>2. CASE /\ package' = package \cup {hand} /\ counted' = counted + 1 /\ mpc' = "recv"
           /\ UNCHANGED <<channel, target, outcome>>
  <2>1. InHand = {hand} /\ InHand' = {} /\ InChannel' = InChannel /\ Sent' = Sent
    BY <1>0, <1>2 DEF InHand, InChannel, Sent
  <2>2. OrderInv'
    BY <1>0, <1>2, <2>1 DEF OrderInv, producer
  <2>3. hand \notin package
    <3>1. ASSUME hand \in package PROVE FALSE
      <4>1. Before(hand, hand) /\ hand \in Records
        BY <1>0, <2>1, <3>1 DEF OrderInv, Sent
      <4> QED BY <4>1 DEF Before, Records
    <3> QED BY <3>1
  <2>4. RowsCounted'
    BY <1>2, <2>3, FS_AddElement DEF RowsCounted
  <2>5. PlaceInv'
    BY <1>0 DEF PlaceInv, Through, producer
  <2>6. NoneLost'
    BY <1>0, <1>2, <2>1 DEF NoneLost, Offered, Fetched, producer
  <2>7. TargetInv'
    BY <1>0, <1>2 DEF TargetInv
  <2> QED BY <2>2, <2>4, <2>5, <2>6, <2>7
<1> QED BY <1>1, <1>2 DEF Write

\* The main task goes on after the end of the stream.
LEMMA MainMoves ==
  ASSUME ExportInv, TargetInv', mpc \notin {"write", "ended"}, mpc' \notin {"write", "ended"},
         UNCHANGED <<producer, channel, hand, package, counted>>
  PROVE  ExportInv'
<1> USE DEF ExportInv
<1>1. InChannel' = InChannel /\ InHand' = InHand /\ Sent' = Sent
  BY DEF InChannel, InHand, Sent
<1>2. PlaceInv' /\ RowsCounted'
  BY DEF PlaceInv, RowsCounted, Through, producer
<1>3. OrderInv'
  BY <1>1 DEF OrderInv, producer
<1>4. NoneLost'
  BY <1>1 DEF NoneLost, Offered, Fetched, producer
<1> QED BY <1>2, <1>3, <1>4

LEMMA LaterStep == ExportAssumption /\ ExportInv /\ (Join \/ Prepare \/ Publish \/ Hash) => ExportInv'
<1> SUFFICES ASSUME ExportAssumption, ExportInv, Join \/ Prepare \/ Publish \/ Hash PROVE ExportInv'
  OBVIOUS
<1> USE DEF ExportInv
<1>0. mpc \in {"join", "normalize", "download", "archive", "publish", "hash"} /\ UNCHANGED producer
  BY DEF Join, Prepare, Publish, Hash
<1>1. mpc = "hash" => Complete(package)
  BY <1>0, NothingUnderway DEF TargetInv
<1>2. CASE (\E e : MainReturns(e)) /\ UNCHANGED <<package, counted, target>>
  BY <1>0, <1>1, <1>2, MainFails
<1>3. CASE /\ Join \/ Prepare
           /\ mpc' \in {"normalize", "download", "archive", "publish"} /\ (mpc = "join" => presult = "ok")
           /\ UNCHANGED <<channel, hand, package, counted, target, outcome>>
  <2>1. TargetInv'
    BY <1>0, <1>3 DEF TargetInv, producer, Join, Prepare
  <2> QED BY <1>0, <1>3, <2>1, MainMoves
<1>4. CASE /\ mpc = "publish" /\ target' = package /\ mpc' = "hash"
           /\ UNCHANGED <<channel, hand, package, counted, outcome>>
  <2>1. TargetInv'
    BY <1>0, <1>4 DEF TargetInv, producer
  <2> QED BY <1>0, <1>4, <2>1, MainMoves
<1>5. CASE Join
  BY <1>2, <1>3, <1>5 DEF Join
<1>6. CASE Prepare
  <2>1. mpc \in {"normalize", "download", "archive"} => After(mpc) \in {"download", "archive", "publish"}
    BY DEF After
  <2> QED BY <1>2, <1>3, <1>6, <2>1 DEF Prepare
<1>7. CASE Publish
  BY <1>2, <1>4, <1>7 DEF Publish
<1>8. CASE Hash
  BY <1>2, <1>8 DEF Hash
<1> QED BY <1>5, <1>6, <1>7, <1>8

LEMMA NextExport == ExportAssumption /\ ExportInv /\ [ExportNext]_exportVars => ExportInv'
<1> SUFFICES ASSUME ExportAssumption, ExportInv, [ExportNext]_exportVars PROVE ExportInv'
  OBVIOUS
<1>1. CASE Cancel \/ Stopped \/ UNCHANGED exportVars
  <2>1. UNCHANGED <<producer, channel, main>>
    BY <1>1 DEF Cancel, Stopped, exportVars
  <2>2. InChannel' = InChannel /\ InHand' = InHand /\ Sent' = Sent /\ Offered' = Offered
    BY <2>1 DEF InChannel, InHand, Sent, Offered, producer, main
  <2>3. PlaceInv' /\ RowsCounted'
    BY <2>1 DEF ExportInv, PlaceInv, RowsCounted, Through, producer, main
  <2>4. OrderInv'
    BY <2>1, <2>2 DEF ExportInv, OrderInv, producer, main
  <2>5. NoneLost'
    BY <2>1, <2>2 DEF ExportInv, NoneLost, Fetched, producer, main
  <2>6. TargetInv'
    BY <2>1 DEF ExportInv, TargetInv, Complete, producer, main
  <2> QED BY <2>3, <2>4, <2>5, <2>6 DEF ExportInv
<1> QED BY <1>1, ProducerStep, ReceiveStep, WriteStep, LaterStep DEF ExportNext, Main

\* No row is lost or counted twice on the way from the database to what is
\* published, and a producer that stopped early is never taken for one that is
\* through (database.rs 58-72), for any snapshot, channel and budget.
THEOREM CompletePublication == ExportSpec => []PublishedIsComplete
<1>1. ExportInit => ExportInv
  BY ExportAssumption, InitExport
<1>2. ExportInv /\ [ExportNext]_exportVars => ExportInv'
  BY ExportAssumption, NextExport
<1>3. ExportInv => PublishedIsComplete
  BY ExportAssumption, ExportInvImplies
<1> QED BY <1>1, <1>2, <1>3, PTL DEF ExportSpec
-----------------------------------------------------------------------------
(* Versions *)

LEMMA LastVersionIsNat == LastVersion \in Nat
BY DEF LastVersion

\* A set of numbers has a least one.
LEMMA LeastNumber ==
  ASSUME NEW T \in SUBSET Nat, T # {}
  PROVE  \E t \in T : \A u \in T : t <= u
<1> DEFINE R == OpToRel(<, Nat)
<1>1. IsWellFoundedOn(R, Nat)
  BY NatLessThanWellFounded
<1>2. \A x, y \in Nat : y < x => <<y, x>> \in R
  BY DEF OpToRel
<1> HIDE DEF R
<1>3. PICK t \in T : \A u \in T : ~(<<u, t>> \in R)
  BY <1>1, WFMin
<1>4. ASSUME NEW u \in T PROVE t <= u
  <2>1. u \in Nat /\ t \in Nat
    OBVIOUS
  <2>2. ~(u < t)
    BY <1>2, <1>3, <2>1, Zenon
  <2> QED BY <2>1, <2>2
<1> QED BY <1>4

\* A set of versions has a greatest one.
LEMMA GreatestVersion ==
  ASSUME NEW S \in SUBSET (1 .. LastVersion), S # {}
  PROVE  Max(S) \in S /\ \A v \in S : v <= Max(S)
<1> DEFINE T == {LastVersion - v : v \in S}
<1>1. \A v \in S : v \in Nat /\ LastVersion - v \in Nat
  BY LastVersionIsNat
<1>2. PICK t \in T : \A u \in T : t <= u
  <2>1. T \in SUBSET Nat /\ T # {}
    BY <1>1
  <2> HIDE DEF T
  <2> QED BY <2>1, LeastNumber
<1>3. PICK m \in S : t = LastVersion - m
  OBVIOUS
<1>4. ASSUME NEW v \in S PROVE m >= v
  <2>1. LastVersion - m <= LastVersion - v
    BY <1>2, <1>3
  <2> QED BY <1>1, <2>1, LastVersionIsNat
<1> QED BY <1>4 DEF Max

LEMMA FiniteVersions ==
  ASSUME IsFiniteSet(scanned), NEW d
  PROVE  Cardinality(VersionsOf(d)) \in Nat
<1>1. IsFiniteSet({q \in scanned : q[1] = d})
  BY FS_Subset
<1>2. IsFiniteSet(VersionsOf(d))
  <2> DEFINE Q == {q \in scanned : q[1] = d}
             f == [q \in Q |-> q[2]]
  <2>1. f \in Surjection(Q, VersionsOf(d))
    BY DEF Surjection, VersionsOf
  <2> HIDE DEF f
  <2> QED BY <1>1, <2>1, FS_Surjection
<1> QED BY <1>2, FS_CardinalityType

\* The record with the latest version of a dataset.
LEMMA LatestIsScanned ==
  ASSUME scanned \subseteq Ids, NEW d, VersionsOf(d) # {}
  PROVE  /\ <<d, Latest(d)>> \in scanned
         /\ Winner(<<d, Latest(d)>>)
         /\ \A p \in scanned : p[1] = d /\ Winner(p) => p = <<d, Latest(d)>>
<1>1. VersionsOf(d) \in SUBSET (1 .. LastVersion)
  BY NormalizationAssumption DEF VersionsOf, Ids
<1>2. Latest(d) \in VersionsOf(d)
  BY <1>1, GreatestVersion DEF Latest
<1>3. PICK q \in scanned : q[1] = d /\ q[2] = Latest(d)
  BY <1>2 DEF VersionsOf
<1>4. \A p \in scanned : p = <<p[1], p[2]>>
  BY DEF Ids
<1> QED BY <1>3, <1>4 DEF Winner

\* There are as many winners as datasets.
LEMMA WinnerPerDataset ==
  ASSUME scanned \subseteq Ids, IsFiniteSet(scanned)
  PROVE  Cardinality({p \in scanned : Winner(p)}) = Cardinality({p[1] : p \in scanned})
<1> DEFINE W == {p \in scanned : Winner(p)}
           D == {p[1] : p \in scanned}
           f == [p \in W |-> p[1]]
<1>1. IsFiniteSet(W)
  BY FS_Subset
<1>2. \A d \in D : VersionsOf(d) # {}
  BY DEF VersionsOf
<1>3. \A d \in D : <<d, Latest(d)>> \in W /\ f[<<d, Latest(d)>>] = d
  BY <1>2, LatestIsScanned
<1>4. f \in [W -> D]
  OBVIOUS
<1>5. f \in Surjection(W, D)
  BY <1>3, <1>4 DEF Surjection
<1>6. ASSUME NEW p \in W, NEW q \in W, f[p] = f[q] PROVE p = q
  <2>1. VersionsOf(p[1]) # {} /\ p[1] = q[1]
    BY <1>2, <1>6
  <2> QED BY <2>1, LatestIsScanned
<1>7. f \in Injection(W, D)
  BY <1>4, <1>6 DEF Injection, IsInjective
<1> HIDE DEF W, D, f
<1>8. Cardinality(D) = Cardinality(W)
  BY <1>1, <1>5, <1>7, FS_Surjection
<1> QED BY <1>8 DEF W, D
-----------------------------------------------------------------------------
(* The files *)

Winners == {p \in scanned : Winner(p)}
Won == {p \in visited : Winner(p)}
Lost == {p \in visited : ~Winner(p)}

\* What normalization makes of the references of a file.
Clean(r) ==
  r.place = "field" =>
    /\ VersionsOf(r.to) # {} => /\ r.version # None => r.version = Latest(r.to)
                                /\ r.uri # None => r.uri = Latest(r.to)
    /\ r.key = "preceding" => ~(Cardinality(VersionsOf(r.to)) > 1)

FileInv ==
  /\ pc = "load" => scanned = {} /\ visited = {} /\ files \in Packages
  /\ pc = "rewrite" =>
       /\ DOMAIN files = scanned
       /\ \A p \in scanned \ visited : files[p] \subseteq SourceRefs
       /\ \A p \in visited : Winner(p) => \A r \in files[p] : Clean(r)
  /\ pc \in {"remove", "done"} =>
       /\ DOMAIN files = scanned \ Lost
       /\ \A p \in Winners : \A r \in files[p] : Clean(r)
  /\ pc = "done" => visited = scanned
  /\ Winners \subseteq DOMAIN files

CountInv ==
  /\ summary \in [kept : Nat, removed : Nat]
  /\ pc = "load" => summary = [kept |-> 0, removed |-> 0]
  /\ pc = "rewrite" => summary.kept = Cardinality(Won) /\ summary.removed = 0
  /\ pc \in {"remove", "done"} =>
       summary.kept = Cardinality(Winners) /\ summary.removed = Cardinality(Lost)

NormalizationInv ==
  /\ pc \in {"load", "rewrite", "remove", "done", "cancelled"}
  /\ scanned \subseteq Ids /\ IsFiniteSet(scanned)
  /\ visited \subseteq scanned
  /\ FileInv
  /\ CountInv

\* A reference of the source that is kept or redirected is clean.
LEMMA NormalizedIsClean ==
  ASSUME NEW refs \in SUBSET SourceRefs, NEW r \in Normalized(refs)
  PROVE  Clean(r)
<1>1. PICK q \in refs : ~IsPreceding(q) /\ r = IF IsStale(q) THEN Redirected(q) ELSE q
  BY DEF Normalized
<1>2. q \in Refs /\ (q.version = None \/ q.uri = None \/ q.version = q.uri)
  BY DEF SourceRefs
<1>3. CASE q.place # "field"
  BY <1>1, <1>3 DEF IsStale, Clean
<1>4. CASE q.place = "field" /\ IsStale(q)
  <2>1. r.place = q.place /\ r.key = q.key /\ r.to = q.to
    BY <1>1, <1>2, <1>4 DEF Redirected, Refs
  <2>2. r.version = Latest(q.to) /\ (r.uri = None \/ r.uri = Latest(q.to))
    BY <1>1, <1>2, <1>4 DEF Redirected, Refs
  <2>3. q.key = "preceding" => ~(Cardinality(VersionsOf(q.to)) > 1)
    BY <1>1, <1>4 DEF IsPreceding
  <2> QED BY <2>1, <2>2, <2>3 DEF Clean
<1>5. CASE q.place = "field" /\ ~IsStale(q)
  <2>1. q.key = "preceding" => ~(Cardinality(VersionsOf(q.to)) > 1)
    BY <1>1, <1>5 DEF IsPreceding
  <2>2. VersionsOf(q.to) # {} => VersionNamed(q) = None \/ VersionNamed(q) = Latest(q.to)
    BY <1>1, <1>5 DEF IsStale
  <2> QED BY <1>1, <1>2, <1>5, <2>1, <2>2 DEF VersionNamed, Clean
<1> QED BY <1>3, <1>4, <1>5
-----------------------------------------------------------------------------
LEMMA InitNormalization == Init => NormalizationInv
<1> SUFFICES ASSUME Init PROVE NormalizationInv
  OBVIOUS
<1>1. IsFiniteSet({})
  BY FS_EmptySet
<1> QED BY <1>1 DEF Init, NormalizationInv, FileInv, CountInv, Winners

\* One more record has been visited.
LEMMA OneMoreVisited ==
  ASSUME visited \subseteq scanned, IsFiniteSet(scanned), NEW p \in scanned \ visited,
         visited' = visited \cup {p}, UNCHANGED scanned
  PROVE  /\ Winner(p) => /\ Won' = Won \cup {p} /\ Lost' = Lost
                         /\ Cardinality(Won') = Cardinality(Won) + 1
         /\ ~Winner(p) => /\ Lost' = Lost \cup {p} /\ Won' = Won
                          /\ Cardinality(Lost') = Cardinality(Lost) + 1
<1>1. \A q : Winner(q)' <=> Winner(q)
  BY DEF Winner, Latest, VersionsOf
<1>2. IsFiniteSet(Won) /\ IsFiniteSet(Lost) /\ p \notin Won /\ p \notin Lost
  BY FS_Subset DEF Won, Lost
<1>3. Winner(p) => Won' = Won \cup {p} /\ Lost' = Lost
  BY <1>1 DEF Won, Lost
<1>4. ~Winner(p) => Lost' = Lost \cup {p} /\ Won' = Won
  BY <1>1 DEF Won, Lost
<1> HIDE DEF Won, Lost
<1> QED BY <1>2, <1>3, <1>4, FS_AddElement

LEMMA NextNormalization == NormalizationInv /\ [Next]_vars => NormalizationInv'
<1> SUFFICES ASSUME NormalizationInv, [Next]_vars PROVE NormalizationInv'
  OBVIOUS
<1> USE DEF NormalizationInv
<1>1. CASE Load
  <2>1. /\ scanned' = DOMAIN files /\ IsFiniteSet(scanned') /\ scanned' \subseteq Ids
        /\ files' = files /\ files \in [scanned' -> SUBSET SourceRefs]
    BY <1>1, NormalizationAssumption DEF Load, FileInv
  <2>2. visited' = {} /\ pc' = "rewrite" /\ summary' = [kept |-> 0, removed |-> 0]
    BY <1>1 DEF Load, FileInv, CountInv
  <2>3. FileInv'
    BY <2>1, <2>2 DEF FileInv, Winners
  <2>4. Won' = {}
    BY <2>2 DEF Won, Lost
  <2>5. CountInv'
    BY <2>2, <2>4, FS_EmptySet DEF CountInv
  <2> QED BY <2>1, <2>2, <2>3, <2>5
<1>2. CASE Rewrite
  <2> DEFINE p == NextRecord
  <2>1. p \in scanned \ visited
    BY <1>2 DEF Rewrite, NextRecord
  <2>2. UNCHANGED scanned /\ visited' = visited \cup {p} /\ pc = "rewrite" /\ pc' = "rewrite"
    BY <1>2 DEF Rewrite
  <2>3. \A q, d : (Winner(q)' <=> Winner(q)) /\ VersionsOf(d)' = VersionsOf(d) /\ Latest(d)' = Latest(d)
    BY <2>2 DEF Winner, Latest, VersionsOf
  <2>4. \A r : Clean(r)' <=> Clean(r)
    BY <2>3 DEF Clean
  <2>5. Winners' = Winners
    BY <2>2, <2>3 DEF Winners
  <2> HIDE DEF p
  <2>6. CASE Winner(p)
    <3>1. files' = [files EXCEPT ![p] = Normalized(@)] /\ summary' = [summary EXCEPT !.kept = @ + 1]
      BY <1>2, <2>6 DEF Rewrite, p
    <3>2. DOMAIN files = scanned /\ files[p] \subseteq SourceRefs
      BY <2>1, <2>2 DEF FileInv
    <3>3. files'[p] = Normalized(files[p]) /\ \A q \in scanned : q # p => files'[q] = files[q]
      BY <2>1, <3>1, <3>2
    <3>4. \A r \in files'[p] : Clean(r)
      BY <3>2, <3>3, NormalizedIsClean
    <3>5. FileInv'
      BY <2>2, <2>3, <2>4, <2>5, <3>1, <3>2, <3>3, <3>4 DEF FileInv
    <3>6. Won' = Won \cup {p} /\ Cardinality(Won') = Cardinality(Won) + 1
      BY <2>1, <2>2, <2>6, OneMoreVisited
    <3>7. /\ summary' \in [kept : Nat, removed : Nat]
          /\ summary'.kept = summary.kept + 1 /\ summary'.removed = summary.removed
      BY <3>1 DEF CountInv
    <3>8. CountInv'
      BY <2>2, <3>6, <3>7 DEF CountInv
    <3> QED BY <2>1, <2>2, <3>5, <3>8
  <2>7. CASE ~Winner(p)
    <3>1. UNCHANGED <<files, summary>>
      BY <1>2, <2>7 DEF Rewrite, p
    <3>2. FileInv'
      BY <2>1, <2>2, <2>3, <2>4, <2>5, <2>7, <3>1 DEF FileInv
    <3>3. Won' = Won
      BY <2>2, <2>3, <2>7 DEF Won, Lost
    <3>4. CountInv'
      BY <2>2, <3>1, <3>3 DEF CountInv
    <3> QED BY <2>1, <2>2, <3>2, <3>4
  <2> QED BY <2>6, <2>7
<1>3. CASE StartRemoving
  <2>1. UNCHANGED <<files, scanned, summary>> /\ visited = scanned /\ visited' = {} /\ pc = "rewrite" /\ pc' = "remove"
    BY <1>3 DEF StartRemoving
  <2>2. \A q, d : (Winner(q)' <=> Winner(q)) /\ VersionsOf(d)' = VersionsOf(d) /\ Latest(d)' = Latest(d)
    BY <2>1 DEF Winner, Latest, VersionsOf
  <2>3. (\A r : Clean(r)' <=> Clean(r)) /\ Winners' = Winners
    BY <2>1, <2>2 DEF Clean, Winners
  <2>4. Lost' = {} /\ Won = Winners
    BY <2>1 DEF Won, Lost, Winners, Winner
  <2>5. FileInv'
    BY <2>1, <2>3, <2>4 DEF FileInv, Winners
  <2>6. CountInv'
    BY <2>1, <2>3, <2>4, FS_EmptySet DEF CountInv
  <2> QED BY <2>1, <2>5, <2>6
<1>4. CASE Remove
  <2> DEFINE p == NextRecord
  <2>1. p \in scanned \ visited
    BY <1>4 DEF Remove, NextRecord
  <2>2. UNCHANGED scanned /\ visited' = visited \cup {p} /\ pc = "remove" /\ pc' = "remove"
    BY <1>4 DEF Remove
  <2>3. \A q, d : (Winner(q)' <=> Winner(q)) /\ VersionsOf(d)' = VersionsOf(d) /\ Latest(d)' = Latest(d)
    BY <2>2 DEF Winner, Latest, VersionsOf
  <2>4. (\A r : Clean(r)' <=> Clean(r)) /\ Winners' = Winners
    BY <2>2, <2>3 DEF Clean, Winners
  <2> HIDE DEF p
  <2>5. CASE Winner(p)
    <3>1. UNCHANGED <<files, summary>>
      BY <1>4, <2>5 DEF Remove, p
    <3>2. Lost' = Lost
      BY <2>2, <2>3, <2>5 DEF Won, Lost, Winner
    <3>3. FileInv'
      BY <2>2, <2>4, <3>1, <3>2 DEF FileInv
    <3>4. CountInv'
      BY <2>2, <2>4, <3>1, <3>2 DEF CountInv
    <3> QED BY <2>1, <2>2, <3>3, <3>4
  <2>6. CASE ~Winner(p)
    <3>1. /\ files' = [q \in DOMAIN files \ {p} |-> files[q]]
          /\ summary' = [summary EXCEPT !.removed = @ + 1]
      BY <1>4, <2>6 DEF Remove, p
    <3>2. /\ Lost' = Lost \cup {p}
          /\ Cardinality(Lost') = Cardinality(Lost) + 1
      BY <2>1, <2>2, <2>6, OneMoreVisited
    <3>3. p \notin Winners
      BY <2>6 DEF Winners
    <3>4. FileInv'
      BY <2>2, <2>4, <3>1, <3>2, <3>3 DEF FileInv
    <3>5. /\ summary' \in [kept : Nat, removed : Nat]
          /\ summary'.kept = summary.kept /\ summary'.removed = summary.removed + 1
      BY <3>1 DEF CountInv
    <3>6. CountInv'
      BY <2>2, <2>4, <3>2, <3>5 DEF CountInv
    <3> QED BY <2>1, <2>2, <3>4, <3>6
  <2> QED BY <2>5, <2>6
<1>5. CASE Finish \/ Abort \/ UNCHANGED vars
  <2>1. UNCHANGED <<files, scanned, visited, summary>>
    BY <1>5 DEF Finish, Abort, vars
  <2>2. \A q, d : (Winner(q)' <=> Winner(q)) /\ VersionsOf(d)' = VersionsOf(d) /\ Latest(d)' = Latest(d)
    BY <2>1 DEF Winner, Latest, VersionsOf
  <2>3. /\ \A r : Clean(r)' <=> Clean(r)
        /\ Winners' = Winners /\ Won' = Won /\ Lost' = Lost
    BY <2>1, <2>2 DEF Clean, Winners, Won, Lost
  <2>4. pc' = pc \/ (pc = "remove" /\ visited = scanned /\ pc' = "done") \/ pc' = "cancelled"
    BY <1>5 DEF Finish, Abort, vars
  <2>5. CASE pc' = pc
    <3>1. FileInv'
      BY <2>1, <2>2, <2>3, <2>5 DEF FileInv
    <3>2. CountInv'
      BY <2>1, <2>3, <2>5 DEF CountInv
    <3> QED BY <2>1, <2>5, <3>1, <3>2
  <2>6. CASE pc = "remove" /\ visited = scanned /\ pc' = "done"
    <3>1. FileInv'
      BY <2>1, <2>3, <2>6 DEF FileInv
    <3>2. CountInv'
      BY <2>1, <2>3, <2>6 DEF CountInv
    <3> QED BY <2>1, <2>6, <3>1, <3>2
  <2>7. CASE pc' = "cancelled"
    BY <2>1, <2>3, <2>7 DEF FileInv, CountInv
  <2> QED BY <2>4, <2>5, <2>6, <2>7
<1> QED BY <1>1, <1>2, <1>3, <1>4, <1>5 DEF Next, Ended

LEMMA NormalizationInvariance == Spec => []NormalizationInv
BY InitNormalization, NextNormalization, PTL DEF Spec
-----------------------------------------------------------------------------
LEMMA WinnersOfInv == NormalizationInv => WinnersSurvive
<1> SUFFICES ASSUME NormalizationInv PROVE WinnersSurvive
  OBVIOUS
<1> USE DEF NormalizationInv
<1>1. \A d : VersionsOf(d) # {} => <<d, Latest(d)>> \in DOMAIN files
  BY LatestIsScanned DEF FileInv, Winners
<1>2. ASSUME pc = "done"
      PROVE  /\ \A p \in scanned : p \in DOMAIN files <=> Winner(p)
             /\ summary.kept + summary.removed = Cardinality(scanned)
             /\ summary.kept = Cardinality({p[1] : p \in scanned})
  <2>1. Lost = scanned \ Winners /\ Winners \subseteq scanned
    BY <1>2 DEF FileInv, Won, Lost, Winners, Winner
  <2>2. \A p \in scanned : p \in DOMAIN files <=> Winner(p)
    BY <1>2, <2>1 DEF FileInv, Winners
  <2>3. summary.kept = Cardinality(Winners) /\ summary.removed = Cardinality(scanned \ Winners)
    BY <1>2, <2>1 DEF CountInv
  <2>4. scanned \cap Winners = Winners /\ IsFiniteSet(Winners)
    BY <2>1, FS_Subset
  <2>5. /\ Cardinality(scanned \ Winners) = Cardinality(scanned) - Cardinality(Winners)
        /\ Cardinality(scanned) \in Nat /\ Cardinality(Winners) \in Nat
    BY <2>4, FS_Difference, FS_CardinalityType
  <2> QED BY <2>2, <2>3, <2>5, WinnerPerDataset DEF Winners
<1> QED BY <1>1, <1>2 DEF WinnersSurvive, Winner, Latest

\* Of every dataset the greatest version survives every abort, and at the end
\* it alone is left and everything is counted (versioning.rs 96-119), for any
\* package and in whatever order its files are visited.
THEOREM LatestVersionsSurvive == Spec => []WinnersSurvive
BY NormalizationInvariance, WinnersOfInv, PTL

LEMMA ReferencesOfInv == NormalizationInv => FieldReferencesResolve
<1> SUFFICES ASSUME NormalizationInv, pc = "done", NEW p \in DOMAIN files, NEW r \in files[p],
                    r.place = "field"
             PROVE  Resolves(r) /\ (r.key = "preceding" => Cardinality(VersionsOf(r.to)) <= 1)
  BY DEF FieldReferencesResolve
<1>1. p \in Winners
  BY DEF NormalizationInv, FileInv, Won, Lost, Winners, Winner
<1>2. Clean(r)
  BY <1>1 DEF NormalizationInv, FileInv
<1>3. VersionsOf(r.to) # {} => <<r.to, Latest(r.to)>> \in DOMAIN files
  BY LatestIsScanned DEF NormalizationInv, FileInv, Winners
<1>4. Cardinality(VersionsOf(r.to)) \in Nat
  BY FiniteVersions DEF NormalizationInv
<1> QED BY <1>2, <1>3, <1>4 DEF Clean, Resolves

\* No reference by key is left hanging by the removals, and none names a
\* preceding version (versioning.rs 166-190), for any package.
THEOREM ReferencesResolve == Spec => []FieldReferencesResolve
BY NormalizationInvariance, ReferencesOfInv, PTL
=============================================================================
