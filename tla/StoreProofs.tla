--------------------------- MODULE StoreProofs -----------------------------
(*
Proofs about what shares the store with a crawl: the audit that reads a
run while it goes on, the commands that drop stored HTML and the tables
of a page, the report that reads a run beside its exports, the
analyses that fold the variants of a page, and the comparison of two
crawls, for every number of reports, pages, runs and seconds.
*)
EXTENDS AuditSnapshot, Compaction, Comparison, PageStore, PageVariants, SourceReconciliation,
        FiniteSetTheorems, WellFoundedInduction, TLAPS

Statuses == EndStatus \cup {"missing", "running", "failed"}
Row == [status : Statuses, updated : Nat]
Contents == [pages : Nat, signatures : Nat]
Audit == [phase : {"none", "reading", "done"}, row : Row, began : Nat, left : Nat,
          seen : SUBSET Contents, stable : BOOLEAN, completion : Statuses \cup {"none", "partial"},
          endedThen : BOOLEAN]

SnapshotTypes ==
    /\ seconds \in Nat /\ runRow \in Row /\ rows \in Contents
    /\ crawling \in BOOLEAN /\ ended \in BOOLEAN /\ audit \in Audit

\* A run that is crawled is "running"; "complete" was written by a process that
\* came to its own end.
StatusTellsTheCrawl ==
    /\ crawling => runRow.status = "running"
    /\ runRow.status = "complete" => ended

\* The clock is ahead of whatever was written by it.
TimesPass == runRow.updated <= seconds /\ audit.began <= seconds

\* While an audit reads, the row is the one it began with, and then a complete
\* run has kept its pages; or the row has been written since, and bears it out.
ReadsAreOfTheRow ==
    audit.phase = "reading" /\ audit.began > audit.row.updated =>
        \/ runRow.updated >= audit.began
        \/ /\ runRow = audit.row
           /\ runRow.status = "complete" => \A x \in audit.seen : x.pages = rows.pages

SnapshotInv ==
    /\ SnapshotTypes /\ StatusTellsTheCrawl /\ TimesPass /\ ReadsAreOfTheRow
    /\ CompleteAuditsReadOneRun

--------------------
\* No run, no audit.
LEMMA InitSnapshot == SnapshotInit => SnapshotInv
<1> SUFFICES ASSUME SnapshotInit PROVE SnapshotInv
  OBVIOUS
<1>1. NoRow \in Row
  BY DEF NoRow, Row, Statuses
<1>2. NoAudit \in Audit
  BY <1>1 DEF NoAudit, Audit, Contents
<1>3. SnapshotTypes
  BY <1>1, <1>2 DEF SnapshotInit, SnapshotTypes, Contents
<1>4. StatusTellsTheCrawl /\ TimesPass /\ ReadsAreOfTheRow /\ CompleteAuditsReadOneRun
  BY DEF SnapshotInit, StatusTellsTheCrawl, TimesPass, ReadsAreOfTheRow, NoRow, NoAudit,
         CompleteAuditsReadOneRun, CompleteAuditReadsOneRun, CompleteAuditOfAnEndedCrawl
<1>5. QED
  BY <1>3, <1>4 DEF SnapshotInv

\* A step that leaves the audit and the row alone, but for more pages while the
\* run is crawled, or that writes the row now.
LEMMA CrawlKeepsSnapshot ==
    ASSUME SnapshotInv, UNCHANGED audit, seconds' >= seconds, SnapshotTypes', StatusTellsTheCrawl',
           \/ UNCHANGED runRow /\ (rows'.pages = rows.pages \/ runRow.status = "running")
           \/ runRow'.updated = seconds /\ UNCHANGED seconds
    PROVE  SnapshotInv'
BY DEF SnapshotInv, SnapshotTypes, TimesPass, Row, Audit, ReadsAreOfTheRow,
   CompleteAuditsReadOneRun, CompleteAuditReadsOneRun, CompleteAuditOfAnEndedCrawl

\* The audit's own steps leave the run alone.
LEMMA AuditKeepsSnapshot ==
    ASSUME SnapshotInv, BeginAudit \/ FetchReport \/ EndAudit, Reports \in Nat
    PROVE  SnapshotInv'
<1>1. UNCHANGED <<seconds, runRow, rows, crawling, ended>>
  BY DEF BeginAudit, FetchReport, EndAudit
<1>2. StatusTellsTheCrawl'
  BY <1>1 DEF SnapshotInv, StatusTellsTheCrawl
<1>3. CASE BeginAudit
  <2>1. audit' = [phase |-> "reading", row |-> runRow, began |-> seconds, left |-> Reports, seen |-> {},
                  stable |-> FALSE, completion |-> "none", endedThen |-> FALSE]
    BY <1>3 DEF BeginAudit, NoAudit
  <2>2. audit' \in Audit
    BY <2>1 DEF SnapshotInv, SnapshotTypes, Audit
  <2>3. SnapshotTypes'
    BY <1>1, <2>2 DEF SnapshotInv, SnapshotTypes
  <2>4. TimesPass' /\ ReadsAreOfTheRow' /\ CompleteAuditsReadOneRun'
    BY <1>1, <2>1 DEF SnapshotInv, SnapshotTypes, TimesPass, ReadsAreOfTheRow,
       CompleteAuditsReadOneRun, CompleteAuditReadsOneRun, CompleteAuditOfAnEndedCrawl
  <2>5. QED
    BY <1>2, <2>3, <2>4 DEF SnapshotInv
<1>4. CASE FetchReport
  <2>1. audit' = [audit EXCEPT !.left = audit.left - 1, !.seen = audit.seen \cup {rows}]
    BY <1>4 DEF FetchReport
  <2>2. audit' \in Audit
    <3>1. audit \in Audit /\ audit.seen \cup {rows} \in SUBSET Contents /\ audit.left - 1 \in Nat
      BY <1>4 DEF SnapshotInv, SnapshotTypes, Audit, FetchReport
    <3> HIDE DEF Contents, Row
    <3>2. QED
      BY <2>1, <3>1 DEF Audit
  <2>3. SnapshotTypes'
    BY <1>1, <2>2 DEF SnapshotInv, SnapshotTypes
  <2>4. /\ audit'.phase = "reading" /\ audit'.row = audit.row /\ audit'.began = audit.began
        /\ audit'.seen = audit.seen \cup {rows}
    BY <1>4, <2>1 DEF SnapshotInv, SnapshotTypes, Audit, FetchReport
  <2>5. TimesPass' /\ ReadsAreOfTheRow'
    BY <1>1, <1>4, <2>4 DEF SnapshotInv, TimesPass, ReadsAreOfTheRow, FetchReport
  <2>6. CompleteAuditsReadOneRun'
    BY <2>4 DEF CompleteAuditsReadOneRun, CompleteAuditReadsOneRun, CompleteAuditOfAnEndedCrawl
  <2>7. QED
    BY <1>2, <2>3, <2>5, <2>6 DEF SnapshotInv
<1>5. CASE EndAudit
  <2>1. /\ audit'.phase = "done" /\ audit'.row = audit.row /\ audit'.began = audit.began
        /\ audit'.seen = audit.seen /\ audit'.endedThen = (ended /\ ~crawling)
        /\ audit'.completion = IF SameRunState THEN audit.row.status ELSE "partial"
    BY <1>5 DEF SnapshotInv, SnapshotTypes, Audit, EndAudit
  <2>2. audit'.stable \in BOOLEAN /\ audit'.endedThen \in BOOLEAN
    BY <1>5 DEF SnapshotInv, SnapshotTypes, Audit, EndAudit, SameRunState
  <2>3. audit'.completion \in Statuses \cup {"none", "partial"}
    BY <2>1 DEF SnapshotInv, SnapshotTypes, Audit, Row
  <2>4. audit' \in Audit
    BY <1>5, <2>1, <2>2, <2>3 DEF SnapshotInv, SnapshotTypes, Audit, EndAudit
  <2>5. SnapshotTypes' /\ TimesPass' /\ ReadsAreOfTheRow'
    BY <1>1, <2>1, <2>4 DEF SnapshotInv, SnapshotTypes, TimesPass, ReadsAreOfTheRow
  <2>6. ASSUME audit'.completion = "complete"
        PROVE  /\ runRow.status = "complete" /\ runRow.status = audit.row.status
               /\ runRow.updated = audit.row.updated
    BY <2>1, <2>6 DEF SameRunState
  <2>7. CompleteAuditOfAnEndedCrawl'
    BY <2>1, <2>6 DEF SnapshotInv, StatusTellsTheCrawl, CompleteAuditOfAnEndedCrawl
  <2>8. ASSUME audit'.completion = "complete", audit'.began > audit'.row.updated
        PROVE  \A x \in audit.seen : x.pages = rows.pages
    <3>1. audit.phase = "reading" /\ audit.began > audit.row.updated
      BY <1>5, <2>1, <2>8 DEF EndAudit
    <3>2. audit.began \in Nat /\ audit.row.updated \in Nat
      BY DEF SnapshotInv, SnapshotTypes, Audit, Row
    <3>3. QED
      BY <2>6, <2>8, <3>1, <3>2 DEF SnapshotInv, ReadsAreOfTheRow
  <2>9. CompleteAuditReadsOneRun'
    BY <2>1, <2>8 DEF CompleteAuditReadsOneRun
  <2>10. QED
    BY <1>2, <2>5, <2>7, <2>9 DEF SnapshotInv, CompleteAuditsReadOneRun
<1>6. QED
  BY <1>3, <1>4, <1>5

LEMMA StepKeepsSnapshot ==
    ASSUME SnapshotAssumption, SnapshotInv, [SnapshotNext]_snapshotVars
    PROVE  SnapshotInv'
<1> USE DEF SnapshotInv, SnapshotTypes, StatusTellsTheCrawl, TimesPass
<1>1. CASE Tick \/ BuildSignatures
  BY <1>1, CrawlKeepsSnapshot DEF Tick, BuildSignatures, Contents
<1>2. ASSUME NEW given \in Statuses, SetStatus(given)
      PROVE  runRow' \in Row /\ runRow'.status = given /\ runRow'.updated = seconds
  BY <1>2 DEF SetStatus, Row
<1>3. CASE BeginCrawl \/ ResumeCrawl
  <2>1. SetStatus("running")
    BY <1>3 DEF BeginCrawl, ResumeCrawl
  <2>2. runRow' \in Row /\ runRow'.status = "running" /\ runRow'.updated = seconds
    BY <1>2, <2>1 DEF Statuses
  <2>3. UNCHANGED <<seconds, rows, ended, audit>> /\ crawling'
    BY <1>3 DEF BeginCrawl, ResumeCrawl
  <2>4. SnapshotTypes' /\ StatusTellsTheCrawl'
    BY <2>2, <2>3
  <2>5. seconds' >= seconds /\ runRow'.updated = seconds
    BY <2>2, <2>3
  <2> HIDE DEF SnapshotInv, SnapshotTypes, StatusTellsTheCrawl
  <2>6. QED
    BY <2>3, <2>4, <2>5, CrawlKeepsSnapshot
<1>4. CASE SavePage
  BY <1>4, CrawlKeepsSnapshot DEF SavePage, Contents
<1>5. CASE EndCrawl
  <2>1. PICK given \in EndStatus \cup {"failed"} :
             SetStatus(given) /\ ended' = (given # "failed")
    BY <1>5 DEF EndCrawl
  <2>2. runRow' \in Row /\ runRow'.status = given /\ runRow'.updated = seconds
    BY <1>2, <2>1 DEF Statuses
  <2>3. UNCHANGED <<seconds, rows, audit>> /\ crawling' = FALSE
    BY <1>5 DEF EndCrawl
  <2>4. SnapshotTypes' /\ StatusTellsTheCrawl'
    BY <2>1, <2>2, <2>3
  <2>5. seconds' >= seconds /\ runRow'.updated = seconds
    BY <2>2, <2>3
  <2> HIDE DEF SnapshotInv, SnapshotTypes, StatusTellsTheCrawl
  <2>6. QED
    BY <2>3, <2>4, <2>5, CrawlKeepsSnapshot
<1>6. CASE Crash
  <2>1. /\ UNCHANGED <<seconds, runRow, rows, audit>> /\ runRow.status = "running"
        /\ crawling' = FALSE /\ ended' = FALSE
    BY <1>6 DEF Crash
  <2>2. SnapshotTypes' /\ StatusTellsTheCrawl'
    BY <2>1
  <2>3. seconds' >= seconds
    BY <2>1
  <2> HIDE DEF SnapshotInv, SnapshotTypes, StatusTellsTheCrawl
  <2>4. QED
    BY <2>1, <2>2, <2>3, CrawlKeepsSnapshot
<1>7. CASE BeginAudit \/ FetchReport \/ EndAudit
  BY <1>7, AuditKeepsSnapshot DEF SnapshotAssumption
<1>8. CASE UNCHANGED snapshotVars
  BY <1>8, CrawlKeepsSnapshot DEF snapshotVars
<1>9. QED
  BY <1>1, <1>3, <1>4, <1>5, <1>6, <1>7, <1>8 DEF SnapshotNext

\* An audit that calls its run complete read the same pages in every report,
\* though its queries are no transaction, and of a run that had ended.
THEOREM CompleteAuditsAreOfOneRun ==
    ASSUME SnapshotAssumption
    PROVE  SnapshotSpec => []CompleteAuditsReadOneRun
<1>1. SnapshotInv /\ [SnapshotNext]_snapshotVars => SnapshotInv'
  BY StepKeepsSnapshot
<1>2. SnapshotInv => CompleteAuditsReadOneRun
  BY DEF SnapshotInv
<1>3. QED
  BY <1>1, <1>2, InitSnapshot, PTL DEF SnapshotSpec

--------------------
Html == [text : Nat, gz : BOOLEAN, hash : Nat]
Purge == [phase : {"none", "refused", "checked", "done"}, run : RunIds \cup {"none"},
          require : BOOLEAN, backfill : BOOLEAN, confirmed : BOOLEAN, late : BOOLEAN,
          unhashed : SUBSET UrlIds]

StorageTypes ==
    /\ storedResults \in Nat /\ snap \in [RunIds -> [UrlIds -> Html]] /\ purge \in Purge

\* What was found when the purge was checked holds until it is carried out: the
\* run has got no HTML without a hash, or a result of the run came late.
CheckStillHolds ==
    purge.phase = "checked" =>
        /\ purge.run \in RunIds
        /\ purge.require /\ ~purge.late => Unhashed(purge.run) = {}

StorageInv == StorageTypes /\ CheckStillHolds /\ PurgedWereHashed

\* Nothing stored and nothing purged.
LEMMA InitStorage == StorageInit => StorageInv
<1> SUFFICES ASSUME StorageInit PROVE StorageInv
  OBVIOUS
<1>1. NoHtml \in Html /\ NoPurge \in Purge
  BY DEF Html, Purge, NoHtml, NoText, NoPurge
<1>2. StorageTypes
  BY <1>1 DEF StorageInit, StorageTypes
<1>3. CheckStillHolds /\ PurgedWereHashed
  BY DEF StorageInit, NoPurge, CheckStillHolds, PurgedWereHashed
<1>4. QED
  BY <1>2, <1>3 DEF StorageInv

\* A result changes the HTML of its run only, and tells a checked purge of it.
LEMMA PersistKeepsStorage ==
    ASSUME StorageInv, NEW r \in RunIds, NEW u \in UrlIds, Persist(r, u)
    PROVE  StorageInv' /\ PurgesItsRunOnly
<1>1. PICK keep, gz, hashed \in BOOLEAN :
        LET n == storedResults + 1
            html == [text |-> IF keep THEN n ELSE NoText, gz |-> keep /\ gz,
                     hash |-> IF hashed THEN n ELSE NoText]
        IN  /\ storedResults < MaxStored /\ storedResults' = n
            /\ page' = [page EXCEPT ![u] = html]
            /\ snap' = [snap EXCEPT ![r][u] = html]
            /\ purge' = [purge EXCEPT !.late = @ \/ (purge.phase = "checked" /\ purge.run = r)]
            /\ UNCHANGED compact
  BY DEF Persist
<1> DEFINE html == [text |-> IF keep THEN storedResults + 1 ELSE NoText, gz |-> keep /\ gz,
                    hash |-> IF hashed THEN storedResults + 1 ELSE NoText]
<1>2. storedResults \in Nat /\ snap \in [RunIds -> [UrlIds -> Html]] /\ purge \in Purge
  BY DEF StorageInv, StorageTypes
<1>3. html \in Html
  BY <1>1, <1>2 DEF Html, NoText
<1>4. snap' = [snap EXCEPT ![r] = [snap[r] EXCEPT ![u] = html]]
  BY <1>1
<1> HIDE DEF html
<1>5. snap' \in [RunIds -> [UrlIds -> Html]] /\ \A s \in RunIds \ {r} : snap'[s] = snap[s]
  BY <1>2, <1>3, <1>4
<1>6. purge' = [purge EXCEPT !.late = purge.late \/ (purge.phase = "checked" /\ purge.run = r)]
  BY <1>1
<1>7. /\ purge' \in Purge /\ purge'.phase = purge.phase /\ purge'.run = purge.run
      /\ purge'.require = purge.require /\ purge'.unhashed = purge.unhashed
      /\ purge'.late = (purge.late \/ (purge.phase = "checked" /\ purge.run = r))
  BY <1>2, <1>6 DEF Purge
<1>8. storedResults' \in Nat /\ storedResults' # storedResults
  BY <1>1, <1>2
<1>9. CheckStillHolds'
  <2>1. ASSUME purge'.phase = "checked", purge'.require, ~purge'.late
        PROVE  purge.run \in RunIds /\ Unhashed(purge.run)' = {}
    <3>1. purge.phase = "checked" /\ purge.require /\ ~purge.late /\ purge.run # r
      BY <1>7, <2>1, Zenon
    <3>2. purge.run \in RunIds /\ Unhashed(purge.run) = {}
      BY <3>1 DEF StorageInv, CheckStillHolds
    <3> QED
      BY <1>5, <1>7, <3>1, <3>2 DEF Unhashed
  <2> QED
    BY <1>7, <2>1 DEF StorageInv, CheckStillHolds
<1>10. PurgedWereHashed'
  BY <1>7 DEF StorageInv, PurgedWereHashed
<1>11. QED
  BY <1>5, <1>7, <1>8, <1>9, <1>10 DEF StorageInv, StorageTypes, PurgesItsRunOnly

\* A check sees the run as it is; what compresses HTML leaves the runs alone.
LEMMA CheckKeepsStorage ==
    ASSUME StorageInv, NEW r \in RunIds, CheckPurge(r)
    PROVE  StorageInv'
BY DEF CheckPurge, Purge, CheckStillHolds, Missing, Unhashed, PurgedWereHashed, StorageInv,
   StorageTypes

\* The deletion drops texts of its run, and no hash.
LEMMA PurgeKeepsStorage ==
    ASSUME StorageInv, PurgeRun
    PROVE  StorageInv' /\ PurgesItsRunOnly
<1> DEFINE r == purge.run
<1>1. r \in RunIds /\ snap \in [RunIds -> [UrlIds -> Html]] /\ purge \in Purge /\ storedResults \in Nat
  BY DEF StorageInv, StorageTypes, CheckStillHolds, PurgeRun
<1>2. /\ snap' = [snap EXCEPT ![r] = Purged(r)] /\ UNCHANGED storedResults
      /\ purge' = [purge EXCEPT !.phase = "done", !.unhashed = Unhashed(r)]
  BY DEF PurgeRun, SnapAfter
<1>3. /\ Purged(r) \in [UrlIds -> Html]
      /\ \A u \in UrlIds : Purged(r)[u].hash = snap[r][u].hash
  <2>1. ASSUME NEW u \in UrlIds
        PROVE  /\ [snap[r][u] EXCEPT !.text = NoText, !.gz = FALSE] \in Html
               /\ [snap[r][u] EXCEPT !.text = NoText, !.gz = FALSE].hash = snap[r][u].hash
    <3>1. snap[r][u] \in Html
      BY <1>1
    <3>2. QED
      BY <3>1 DEF Html, NoText
  <2>2. QED
    BY <2>1 DEF Purged
<1>4. /\ snap' \in [RunIds -> [UrlIds -> Html]] /\ snap'[r] = Purged(r)
      /\ \A s \in RunIds \ {r} : snap'[s] = snap[s]
  BY <1>1, <1>2, <1>3
<1>5. /\ purge' \in Purge /\ purge'.phase = "done" /\ purge'.require = purge.require
      /\ purge'.late = purge.late /\ purge'.unhashed = Unhashed(r)
  BY <1>1, <1>2 DEF Purge, Unhashed
<1>6. PurgedWereHashed' /\ CheckStillHolds'
  BY <1>5 DEF PurgedWereHashed, CheckStillHolds, StorageInv, PurgeRun
<1>7. PurgesItsRunOnly
  BY <1>3, <1>4 DEF PurgeRun, PurgesItsRunOnly
<1>8. QED
  BY <1>2, <1>4, <1>5, <1>6, <1>7 DEF StorageInv, StorageTypes

LEMMA StepKeepsStorage ==
    ASSUME StorageInv, [StorageNext]_storageVars
    PROVE  StorageInv' /\ [PurgesItsRunOnly]_storageVars
<1>1. ASSUME UNCHANGED <<storedResults, snap, purge>>
      PROVE  StorageInv' /\ PurgesItsRunOnly
  BY <1>1 DEF StorageInv, StorageTypes, CheckStillHolds, PurgedWereHashed, Unhashed,
     PurgesItsRunOnly
<1>2. CASE StorageNext
  <2>1. ASSUME NEW r \in RunIds, NEW u \in UrlIds, Persist(r, u)
        PROVE  StorageInv' /\ PurgesItsRunOnly
    BY <2>1, PersistKeepsStorage
  <2>2. ASSUME NEW r \in RunIds, CheckPurge(r)
        PROVE  StorageInv' /\ PurgesItsRunOnly
    BY <2>2, CheckKeepsStorage DEF CheckPurge, PurgesItsRunOnly
  <2>3. ASSUME PurgeRun
        PROVE  StorageInv' /\ PurgesItsRunOnly
    BY <2>3, PurgeKeepsStorage
  <2>4. ASSUME NEW dry \in BOOLEAN, StartCompact(dry)
        PROVE  StorageInv' /\ PurgesItsRunOnly
    BY <1>1, <2>4 DEF StartCompact
  <2>5. ASSUME CompactHtml \/ CompactDies
        PROVE  StorageInv' /\ PurgesItsRunOnly
    BY <1>1, <2>5 DEF CompactHtml, SelectBatch, CompressRow, EndBatch, CompactDies
  <2>6. StorageInv' /\ PurgesItsRunOnly
    BY <1>2, <2>1, <2>2, <2>3, <2>4, <2>5 DEF StorageNext
  <2>7. QED
    BY <2>6
<1>3. CASE UNCHANGED storageVars
  BY <1>1, <1>3 DEF storageVars
<1>4. QED
  BY <1>2, <1>3

\* However many pages and runs: with --require-hashes no HTML without a hash is
\* dropped that the check could have seen, and another run's HTML never.
THEOREM PurgesAreCareful == StorageSpec => PurgesKeepTheirHashes
<1>1. StorageInv /\ [StorageNext]_storageVars => StorageInv' /\ [PurgesItsRunOnly]_storageVars
  BY StepKeepsStorage
<1>2. StorageInv => PurgedWereHashed
  BY DEF StorageInv
<1>3. QED
  BY <1>1, <1>2, InitStorage, PTL DEF StorageSpec, PurgesKeepTheirHashes, OnlyTheRunIsPurged

--------------------
\* The candidates that a run holds for a page.
CandidatesOf(r, u) == {x.table : x \in {y \in runFacts : y.run = r /\ y.url = u}}

\* Storing a page replaces the rows of its URL by those of the fetch, all of
\* them, and touches no other URL's.
LEMMA PageKeepsOneFetch ==
    ASSUME OneFetchOfAPage, NEW requested \in StoredUrl, NEW final \in StoredUrl, NEW found \in Finds,
           PersistPage(requested, final, found)
    PROVE  OneFetchOfAPage'
<1> DEFINE fetch == Fetch(final, found)
           tables == Upserted \cup (found \ OfTheRun)
           Rec(t) == [table |-> t, url |-> final, fetch |-> fetch]
<1>1. facts' = {x \in facts : x.url # final \/ x.table \in Kept} \cup {Rec(t) : t \in tables}
  BY DEF PersistPage, ClearPage
<1>2. fetch.url = final /\ fetch.found = found
  BY DEF Fetch
<1>3. \A t : Rec(t).table = t /\ Rec(t).url = final /\ Rec(t).fetch = fetch
  OBVIOUS
<1>4. Upserted \cap Kept = {} /\ Upserted \cap OfTheRun = {}
  BY DEF Upserted, Kept, OfTheRun
<1> HIDE DEF fetch, Rec
<1> SUFFICES ASSUME NEW u \in StoredUrl, NEW x \in RowsOf(u)', x.table \notin Kept
             PROVE  /\ x.fetch.url = u
                    /\ TablesOf(u)' = Upserted \cup (x.fetch.found \ (OfTheRun \cup Kept))
                    /\ \A y \in RowsOf(u)' : y.table \notin Kept => y.fetch = x.fetch
  BY DEF OneFetchOfAPage
<1>5. CASE u # final
  BY <1>1, <1>3, <1>5 DEF RowsOf, TablesOf, OneFetchOfAPage
<1>6. CASE u = final
  BY <1>1, <1>2, <1>3, <1>4, <1>6 DEF RowsOf, TablesOf
<1>7. QED
  BY <1>5, <1>6

\* And its run holds the candidates of the fetch that the snapshot is of.
LEMMA PageKeepsCandidates ==
    ASSUME CandidatesFollowTheContent, NEW requested \in StoredUrl, NEW final \in StoredUrl, NEW found \in Finds,
           PersistPage(requested, final, found)
    PROVE  CandidatesFollowTheContent'
<1> DEFINE fetch == Fetch(final, found)
           Rec(t) == [table |-> t, run |-> active, url |-> final, fetch |-> fetch]
           mine == [run |-> active, url |-> final, fetch |-> fetch, content |-> TRUE]
           led == [run |-> active, url |-> requested, fetch |-> fetch, content |-> FALSE]
<1>1. runFacts' = {x \in runFacts : x.run # active \/ x.url # final}
                      \cup {Rec(t) : t \in found \cap OfTheRun}
  BY DEF PersistPage, ClearCandidates
<1>2. \A s \in snapshots' : (s \in snapshots /\ (s.run # active \/ s.url # final)) \/ s \in {mine, led}
  BY DEF PersistPage, WithSnapshot
<1>3. \A t : Rec(t).table = t /\ Rec(t).run = active /\ Rec(t).url = final
  OBVIOUS
<1>4. fetch.found = found /\ mine.fetch = fetch /\ mine.run = active /\ mine.url = final /\ ~led.content
  BY DEF Fetch
<1> HIDE DEF fetch, Rec, mine, led
<1> SUFFICES ASSUME NEW s \in snapshots', s.content
             PROVE  CandidatesOf(s.run, s.url)' = s.fetch.found \cap OfTheRun
  BY DEF CandidatesFollowTheContent, CandidatesOf
<1>5. CASE s \in snapshots /\ (s.run # active \/ s.url # final)
  BY <1>1, <1>3, <1>5 DEF CandidatesOf, CandidatesFollowTheContent
<1>6. CASE s = mine
  BY <1>1, <1>3, <1>4, <1>6 DEF CandidatesOf
<1>7. QED
  BY <1>2, <1>4, <1>5, <1>6

\* A result without content leaves the rows of the pages alone.
LEMMA BareKeepsRows ==
    ASSUME RowsAreOfOneFetch, NEW requested \in StoredUrl, NEW final \in StoredUrl, PersistBare(requested, final)
    PROVE  RowsAreOfOneFetch'
<1> DEFINE led == [run |-> active, url |-> requested, fetch |-> Fetch(requested, {}), content |-> FALSE]
<1>1. UNCHANGED <<facts, runFacts, runSources, told>>
  BY DEF PersistBare
<1>2. \A s \in snapshots' : s \in snapshots \/ s = led
  BY DEF PersistBare, WithSnapshot
<1>3. led.fetch.run = active /\ led.run = active /\ ~led.content
  BY DEF Fetch
<1> HIDE DEF led
<1>4. OneFetchOfAPage'
  BY <1>1 DEF RowsAreOfOneFetch, OneFetchOfAPage, RowsOf, TablesOf
<1>5. CandidatesFollowTheContent'
  BY <1>1, <1>2, <1>3 DEF RowsAreOfOneFetch, CandidatesFollowTheContent
<1>6. RunEvidenceIsOfItsRun'
  BY <1>1, <1>2, <1>3 DEF RowsAreOfOneFetch, RunEvidenceIsOfItsRun
<1>7. QED
  BY <1>4, <1>5, <1>6 DEF RowsAreOfOneFetch

LEMMA StepKeepsRows ==
    ASSUME RowsAreOfOneFetch, [PagesNext]_pageVars
    PROVE  RowsAreOfOneFetch'
<1>1. ASSUME UNCHANGED <<facts, runFacts, snapshots>>, RunEvidenceIsOfItsRun'
      PROVE  RowsAreOfOneFetch'
  BY <1>1 DEF RowsAreOfOneFetch, OneFetchOfAPage, RowsOf, TablesOf, CandidatesFollowTheContent
<1>2. ASSUME NEW r \in Run, CreateCrawlRun(r) \/ SetActiveCrawlRun(r)
      PROVE  RowsAreOfOneFetch'
  BY <1>1, <1>2 DEF CreateCrawlRun, SetActiveCrawlRun, RowsAreOfOneFetch, RunEvidenceIsOfItsRun
<1>3. ASSUME NEW u \in StoredUrl, RecordSource(u)
      PROVE  RowsAreOfOneFetch'
  BY <1>1, <1>3 DEF RecordSource, SourceRows, RowsAreOfOneFetch, RunEvidenceIsOfItsRun
<1>4. ASSUME NEW requested \in StoredUrl, NEW final \in StoredUrl, PersistBare(requested, final)
      PROVE  RowsAreOfOneFetch'
  BY <1>4, BareKeepsRows
<1>5. ASSUME NEW requested \in StoredUrl, NEW final \in StoredUrl, NEW found \in Finds,
             PersistPage(requested, final, found)
      PROVE  RowsAreOfOneFetch'
  <2>1. OneFetchOfAPage' /\ CandidatesFollowTheContent'
    BY <1>5, PageKeepsOneFetch, PageKeepsCandidates DEF RowsAreOfOneFetch
  <2>2. \A s \in snapshots' \cup runFacts' :
            s \in snapshots \cup runFacts \/ (s.run = active /\ s.fetch = Fetch(final, found))
    BY <1>5 DEF PersistPage, WithSnapshot, ClearCandidates
  <2>3. Fetch(final, found).run = active
    BY DEF Fetch
  <2>4. \A s \in snapshots' \cup runFacts' : s.fetch.run = s.run
    BY <2>2, <2>3 DEF RowsAreOfOneFetch, RunEvidenceIsOfItsRun
  <2>5. UNCHANGED <<runSources, told>>
    BY <1>5 DEF PersistPage
  <2>6. QED
    BY <2>1, <2>4, <2>5 DEF RowsAreOfOneFetch, RunEvidenceIsOfItsRun
<1>6. CASE UNCHANGED pageVars
  BY <1>1, <1>6 DEF pageVars, RowsAreOfOneFetch, RunEvidenceIsOfItsRun
<1>7. QED
  BY <1>2, <1>3, <1>4, <1>5, <1>6 DEF PagesNext

\* For every number of URLs, runs and results, and whatever a page has rows for:
\* the tables of a page are all those of one fetch, a run's candidates are those
\* of its content, and what a run holds was fetched and learned in it.
THEOREM TablesFollowOneFetch == PagesSpec => []RowsAreOfOneFetch
<1>1. PagesInit => RowsAreOfOneFetch
  BY DEF PagesInit, RowsAreOfOneFetch, OneFetchOfAPage, RowsOf, TablesOf,
         CandidatesFollowTheContent, RunEvidenceIsOfItsRun
<1>2. RowsAreOfOneFetch /\ [PagesNext]_pageVars => RowsAreOfOneFetch'
  BY StepKeepsRows
<1>3. QED
  BY <1>1, <1>2, PTL DEF PagesSpec

--------------------
(*
SourceReconciliation
*)
\* Stages in which the frontier has been counted, and the pages read.
Counted == {"context", "inventory", "collected", "raised", "written"}
WithPages == Counted \ {"context"}

\* A task at work has a pending row of a running run; what is out of scope is
\* never queued.
TasksHaveRows ==
    /\ frontier \in [SiteUrl -> {"none", "queued", "pending", "done"}]
    /\ task \in [SiteUrl -> {"idle", "fetched", "enqueued"}]
    /\ \A u \in SiteUrl : task[u] # "idle" => frontier[u] = "pending" /\ status = "running"
    /\ \A u \in Outside : frontier[u] \in {"none", "done"}

\* A run whose frontier was counted empty never moves again.
Nothing == \A u \in SiteUrl : frontier[u] \in {"none", "done"}
ReportIsOfTheWhole ==
    /\ stage # "idle" => status # "none"
    /\ stage \in Counted /\ context.unfetched = 0 => Nothing
    /\ stage \in WithPages /\ context.unfetched = 0 => pages = runSnapshots

\* A page that answered at once with 200 did not end in a 404.
OneAnswer(found) == \A u \in DOMAIN found : found[u].initial = 200 => found[u].final # 404

ReconcileInv == TasksHaveRows /\ ReportIsOfTheWhole /\ OneAnswer(runSnapshots) /\ OneAnswer(pages)

LEMMA InitReconcile ==
    ASSUME ReconciliationAssumption, ReconciliationInit
    PROVE  ReconcileInv
BY DEF ReconciliationAssumption, ReconciliationInit, ReconcileInv, TasksHaveRows, ReportIsOfTheWhole, Counted, WithPages, OneAnswer

\* Once nothing is queued or in flight, no step of the run changes a row, a page
\* or a task.
LEMMA QuietRunRests ==
    ASSUME ReconciliationAssumption, TasksHaveRows, Nothing, status # "none",
           \/ StartRun \/ ResumeSession \/ EndRun \/ FailRun
           \/ \E u \in SiteUrl : Take(u) \/ FetchPage(u) \/ EnqueueLinks(u) \/ MarkDone(u)
    PROVE  Nothing' /\ UNCHANGED runSnapshots
<1>1. \A u \in SiteUrl : frontier[u] \notin {"queued", "pending"} /\ task[u] = "idle"
  BY DEF Nothing, TasksHaveRows
<1>2. ~StartRun
  BY DEF StartRun
<1>3. ~\E u \in SiteUrl : Take(u) \/ FetchPage(u) \/ EnqueueLinks(u) \/ MarkDone(u)
  BY <1>1 DEF Take, FetchPage, EnqueueLinks, MarkDone
<1>4. CASE ResumeSession
  BY <1>1, <1>4 DEF ResumeSession, Nothing, TasksHaveRows
<1>5. CASE EndRun \/ FailRun
  BY <1>5 DEF EndRun, FailRun, Nothing
<1> QED
  BY <1>2, <1>3, <1>4, <1>5

\* What the run does leaves the report alone, and a started run started.
LEMMA RunLeavesTheReport ==
    ASSUME \/ StartRun \/ ResumeSession \/ EndRun \/ FailRun
           \/ \E u \in SiteUrl : Take(u) \/ FetchPage(u) \/ EnqueueLinks(u) \/ MarkDone(u)
    PROVE  UNCHANGED reportVars /\ (status # "none" => status' # "none")
BY DEF StartRun, ResumeSession, EndRun, FailRun, Take, FetchPage, EnqueueLinks, MarkDone, reportVars, runVars

LEMMA RunKeepsTasks ==
    ASSUME ReconciliationAssumption, TasksHaveRows,
           \/ StartRun \/ ResumeSession \/ EndRun \/ FailRun
           \/ \E u \in SiteUrl : Take(u) \/ FetchPage(u) \/ EnqueueLinks(u) \/ MarkDone(u)
    PROVE  TasksHaveRows'
<1> USE DEF TasksHaveRows
<1>0. Outside \subseteq SiteUrl /\ Seeds \subseteq SiteUrl /\ Seeds \cap Outside = {}
  BY DEF ReconciliationAssumption
<1>1. CASE StartRun
  BY <1>0, <1>1 DEF StartRun, Enqueued
<1>2. CASE ResumeSession
  BY <1>0, <1>2 DEF ResumeSession
<1>3. CASE EndRun
  BY <1>0, <1>3 DEF EndRun, InFlight
<1>4. CASE FailRun
  BY <1>0, <1>4 DEF FailRun
<1>5. ASSUME NEW u \in SiteUrl, Take(u)
      PROVE  TasksHaveRows'
  BY <1>0, <1>5 DEF Take
<1>6. ASSUME NEW u \in SiteUrl, FetchPage(u)
      PROVE  TasksHaveRows'
  BY <1>0, <1>6 DEF FetchPage
<1>7. ASSUME NEW u \in SiteUrl, EnqueueLinks(u)
      PROVE  TasksHaveRows'
  <2> DEFINE found == LinksFound(u)
             left == Recorded(found)
  <2>1. PICK chosen \in Admissible(left, found \ Outside) : frontier' = Enqueued(left, chosen)
    BY <1>7 DEF EnqueueLinks
  <2>2. chosen \cap Outside = {}
    BY <2>1 DEF Admissible
  <2>3. \A v \in SiteUrl : left[v] = IF v \in found \cap Outside THEN "done" ELSE frontier[v]
    BY DEF Recorded
  <2> HIDE DEF found, left
  <2>4. \A v \in SiteUrl : frontier'[v] = IF v \in chosen /\ left[v] = "none" THEN "queued" ELSE left[v]
    BY <2>1 DEF Enqueued
  <2>5. frontier' \in [SiteUrl -> {"none", "queued", "pending", "done"}]
    BY <2>1, <2>3 DEF Enqueued
  <2>6. \A v \in SiteUrl : frontier[v] = "pending" => frontier'[v] = "pending"
    BY <1>0, <2>3, <2>4
  <2>7. \A v \in Outside : frontier'[v] \in {"none", "done"}
    BY <1>0, <2>2, <2>3, <2>4
  <2> QED
    BY <1>7, <2>5, <2>6, <2>7 DEF EnqueueLinks
<1>8. ASSUME NEW u \in SiteUrl, MarkDone(u)
      PROVE  TasksHaveRows'
  BY <1>0, <1>8 DEF MarkDone
<1> QED
  BY <1>1, <1>2, <1>3, <1>4, <1>5, <1>6, <1>7, <1>8

\* A fetch writes the rows of one answer.
LEMMA RunKeepsRows ==
    ASSUME OneAnswer(runSnapshots),
           \/ StartRun \/ ResumeSession \/ EndRun \/ FailRun
           \/ \E u \in SiteUrl : Take(u) \/ FetchPage(u) \/ EnqueueLinks(u) \/ MarkDone(u)
    PROVE  OneAnswer(runSnapshots')
<1>1. ASSUME NEW u \in SiteUrl, FetchPage(u)
      PROVE  OneAnswer(runSnapshots')
  <2>1. CASE answer[u] = "blocked"
    BY <1>1, <2>1 DEF FetchPage
  <2>2. CASE answer[u] = "moved"
    <3> DEFINE end == Destination[u]
    <3>1. runSnapshots' = [v \in DOMAIN runSnapshots \cup {u, end} |->
                        IF v = u THEN Bare(301, StatusOf(answer[end]))
                        ELSE IF v = end THEN ContentRow(end, 301) ELSE runSnapshots[v]]
      BY <1>1, <2>2 DEF FetchPage
    <3>2. Bare(301, StatusOf(answer[end])).initial = 301 /\ ContentRow(end, 301).initial = 301
      BY DEF Bare, ContentRow
    <3> QED
      BY <3>1, <3>2 DEF OneAnswer
  <2>3. CASE answer[u] \notin {"blocked", "moved"}
    <3>1. runSnapshots' = Store(u, ContentRow(u, StatusOf(answer[u])))
      BY <1>1, <2>3 DEF FetchPage
    <3>2. /\ ContentRow(u, StatusOf(answer[u])).initial = StatusOf(answer[u])
          /\ ContentRow(u, StatusOf(answer[u])).final = StatusOf(answer[u])
      BY DEF ContentRow
    <3> QED
      BY <3>1, <3>2 DEF Store, OneAnswer
  <2> QED
    BY <2>1, <2>2, <2>3
<1>2. CASE ~\E u \in SiteUrl : FetchPage(u)
  BY <1>2 DEF StartRun, ResumeSession, EndRun, FailRun, Take, EnqueueLinks, MarkDone
<1> QED
  BY <1>1, <1>2

\* What the report does leaves the run alone.
LEMMA ReportKeepsInv ==
    ASSUME ReconciliationAssumption, ReconcileInv,
           \/ LoadSources \/ ReadRun \/ ReadFrontier \/ ReadInventory
           \/ FetchCurrentSitemaps \/ WriteReport
    PROVE  ReconcileInv'
<1>1. UNCHANGED <<status, frontier, task, runSnapshots>>
  BY DEF LoadSources, ReadRun, ReadFrontier, ReadInventory, FetchCurrentSitemaps, WriteReport, runVars
<1>2. TasksHaveRows' /\ (Nothing' <=> Nothing)
  BY <1>1 DEF ReconcileInv, TasksHaveRows, Nothing
<1>8. OneAnswer(runSnapshots)' /\ OneAnswer(pages)'
  BY <1>1 DEF ReconcileInv, OneAnswer, LoadSources, ReadRun, ReadFrontier, ReadInventory,
              FetchCurrentSitemaps, WriteReport
<1> SUFFICES ReportIsOfTheWhole'
  BY <1>2, <1>8 DEF ReconcileInv
<1> USE DEF ReportIsOfTheWhole, Counted, WithPages
<1>3. CASE LoadSources
  BY <1>1, <1>3 DEF ReconcileInv, LoadSources
<1>4. CASE ReadRun
  BY <1>1, <1>4 DEF ReconcileInv, ReadRun
<1>5. CASE ReadFrontier
  <2>1. stage' = "context" /\ status # "none"
        /\ context'.unfetched = Cardinality(Waiting) + Cardinality(InFlight)
    BY <1>5 DEF ReconcileInv, ReadFrontier
  <2>2. IsFiniteSet(Waiting) /\ IsFiniteSet(InFlight)
    BY FS_Subset DEF Waiting, InFlight, ReconciliationAssumption
  <2>3. Cardinality(Waiting) \in Nat /\ Cardinality(InFlight) \in Nat
    BY <2>2, FS_CardinalityType
  <2>4. context'.unfetched = 0 => Waiting = {} /\ InFlight = {}
    BY <2>1, <2>2, <2>3, FS_EmptySet
  <2>5. Waiting = {} /\ InFlight = {} => Nothing
    BY DEF Waiting, InFlight, Nothing, ReconcileInv, TasksHaveRows
  <2> QED
    BY <1>1, <1>2, <2>1, <2>4, <2>5
<1>6. CASE ReadInventory
  BY <1>1, <1>2, <1>6 DEF ReconcileInv, ReadInventory
<1>7. CASE FetchCurrentSitemaps \/ WriteReport
  BY <1>1, <1>2, <1>7 DEF ReconcileInv, FetchCurrentSitemaps, WriteReport
<1> QED
  BY <1>3, <1>4, <1>5, <1>6, <1>7

LEMMA StepKeepsReconcile ==
    ASSUME ReconciliationAssumption, ReconcileInv, [ReconciliationNext]_reconciliationVars
    PROVE  ReconcileInv'
<1>1. CASE \/ StartRun \/ ResumeSession \/ EndRun \/ FailRun
           \/ \E u \in SiteUrl : Take(u) \/ FetchPage(u) \/ EnqueueLinks(u) \/ MarkDone(u)
  <2>1. TasksHaveRows'
    BY <1>1, RunKeepsTasks DEF ReconcileInv
  <2>2. UNCHANGED <<stage, context, pages>> /\ (status # "none" => status' # "none")
    BY <1>1, RunLeavesTheReport DEF reportVars
  <2>3. Nothing /\ status # "none" => Nothing' /\ UNCHANGED runSnapshots
    BY <1>1, QuietRunRests DEF ReconcileInv
  <2>4. ReportIsOfTheWhole'
    BY <2>2, <2>3 DEF ReconcileInv, ReportIsOfTheWhole, Counted, WithPages
  <2>5. OneAnswer(runSnapshots)' /\ OneAnswer(pages)'
    BY <1>1, <2>2, RunKeepsRows DEF ReconcileInv, OneAnswer
  <2> QED
    BY <2>1, <2>4, <2>5 DEF ReconcileInv
<1>2. CASE \/ LoadSources \/ ReadRun \/ ReadFrontier \/ ReadInventory
           \/ FetchCurrentSitemaps \/ WriteReport
  BY <1>2, ReportKeepsInv
<1>3. CASE UNCHANGED reconciliationVars
  BY <1>3 DEF ReconcileInv, TasksHaveRows, ReportIsOfTheWhole, Nothing, OneAnswer, reconciliationVars, runVars, reportVars
<1> QED
  BY <1>1, <1>2, <1>3 DEF ReconciliationNext

\* The first of the segments' conditions that holds is the definition of the segment.
LEMMA SegmentsAreMeant ==
    ASSUME OneAnswer(pages), NEW u \in Universe
    PROVE  /\ Meaning(Segment(u), u)
           /\ \A s \in Named : Meaning(s, u) => Segment(u) = s
<1> DEFINE answers == Initial(u) = 200 /\ Indexable(u)
           dead == Dead(u) \/ ~Linked(u)
<1>1. Crawled(u) \/ u \in Sitemap \cup request.gsc \cup request.backlinks
  BY DEF Universe, Crawled
<1>2. /\ Meaning("graph_and_sitemap", u) <=> u \in Sitemap /\ Linked(u)
      /\ Meaning("sitemap_orphan", u) <=> u \in Sitemap /\ ~Linked(u)
      /\ Meaning("unmapped_in_sitemap", u) <=> Linked(u) /\ answers /\ u \notin Sitemap
      /\ Meaning("backlink_dead_end", u) <=> IsDeadEnd(u)
      /\ Meaning("gsc_unlinked", u) <=> u \in request.gsc \ Sitemap /\ ~IsDeadEnd(u) /\ ~Linked(u)
      /\ Meaning("linked_not_in_sitemap_other", u) <=> Linked(u) /\ u \notin Sitemap /\ ~answers
      /\ Meaning("crawled_unlinked_no_source", u) <=>
            Crawled(u) /\ ~Linked(u) /\ u \notin Sitemap \cup request.gsc \cup request.backlinks
  BY DEF Meaning
<1>3. IsDeadEnd(u) <=> u \in request.backlinks /\ u \notin Sitemap /\ dead
  BY DEF IsDeadEnd
<1>4. Segment(u) =
          IF u \in Sitemap THEN IF Linked(u) THEN "graph_and_sitemap" ELSE "sitemap_orphan"
          ELSE IF Linked(u) /\ answers THEN "unmapped_in_sitemap"
          ELSE IF u \in request.backlinks /\ dead THEN "backlink_dead_end"
          ELSE IF u \in request.gsc /\ ~Linked(u) THEN "gsc_unlinked"
          ELSE IF Linked(u) THEN "linked_not_in_sitemap_other"
          ELSE "crawled_unlinked_no_source"
  BY DEF Segment
<1>5. Linked(u) \in BOOLEAN /\ answers \in BOOLEAN /\ Crawled(u) \in BOOLEAN /\ dead \in BOOLEAN
  BY DEF Linked, Indexable, Crawled, Dead
<1>6. answers /\ Linked(u) => ~dead
  BY DEF Indexable, Dead, Crawled, Initial, Final, OneAnswer
<1> HIDE DEF answers, dead
<1>7. Meaning(Segment(u), u)
  BY <1>1, <1>2, <1>3, <1>4 DEF dead
<1>8. ASSUME NEW s \in Named, Meaning(s, u)
      PROVE  Segment(u) = s
  BY <1>2, <1>3, <1>4, <1>6, <1>8 DEF Named
<1> QED
  BY <1>7, <1>8

LEMMA OrphansStay ==
    ASSUME ReconcileInv
    PROVE  ConfirmedOrphansStayOrphans
BY DEF ConfirmedOrphansStayOrphans, Written, Linkage, CoverageComplete, ReconcileInv,
   ReportIsOfTheWhole, Counted, WithPages, Linked

\* Every URL is in the segment whose definition it meets, and what is called an
\* orphan has no inlink in the whole site (_segment and _coverage of
\* source_reconciliation.py), however the run and the report interleave.
THEOREM SegmentsAreSound ==
    ASSUME ReconciliationAssumption
    PROVE  ReconciliationSpec => []SegmentsMeetTheirDefinitions
<1>1. ReconciliationInit => ReconcileInv
  BY InitReconcile
<1>2. ReconcileInv /\ [ReconciliationNext]_reconciliationVars => ReconcileInv'
  BY StepKeepsReconcile
<1>3. ReconcileInv => SegmentsMeetTheirDefinitions
  BY OrphansStay, SegmentsAreMeant
     DEF ReconcileInv, SegmentsMeetTheirDefinitions, SegmentsMatchTheirDefinitions
<1> QED
  BY <1>1, <1>2, <1>3, PTL DEF ReconciliationSpec

--------------------
(*
PageVariants
*)
Snap == [ok : BOOLEAN, redirected : BOOLEAN, words : Nat, indexable : BOOLEAN,
         canonical : Page \cup {Nobody}, amphtml : Page \cup {Nobody}, text : Nat]
Snaps == [Page -> Snap]

VariantsTypeOK ==
    /\ snapOf \in Snaps
    /\ variantOf \in [Page -> Page \cup {Nobody}]
    /\ \/ groupJob = NoGroupJob
       \/ groupJob \in [step : {"identity", "variants"}, read : Snaps]
    /\ groupJob.step = "variants" => known = Page
    /\ fresh \in [groups : BOOLEAN, labels : BOOLEAN, compared : BOOLEAN]

\* What is stored are the variants of some snapshots, if fresh of those there are.
GroupsAreOfSnapshots ==
    \/ ~fresh.groups /\ \A p \in Page : variantOf[p] = Nobody
    \/ \E s \in Snaps : variantOf = Variants(s) /\ (fresh.groups => s = snapOf)

\* The labels as they are, or as an analysis that has classified will leave them.
Labels == IF overlapJob = "classified" THEN amp ELSE label

LabelsAreOfSnapshots ==
    fresh.labels => /\ \E hashes \in HashesByKey : Labels = AmpPages(hashes)
                    /\ overlapJob = "idle" =>
                         \A p \in Page : /\ excluded[p] = "amp-variant" => p \in label
                                         /\ excluded[p] = "" => p \notin label /\ snapOf[p].ok

VariantsInv ==
    VariantsTypeOK /\ GroupsAreOfSnapshots /\ LabelsAreOfSnapshots /\ OneOfEachNormIsCompared

\* The lexicographic order written out.
Ahead(a, b, s) ==
    \/ ~s[a].redirected /\ s[b].redirected
    \/ /\ s[a].redirected = s[b].redirected
       /\ \/ s[a].ok /\ ~s[b].ok
          \/ /\ s[a].ok = s[b].ok
             /\ \/ s[a].words > s[b].words
                \/ s[a].words = s[b].words /\ a < b

LEMMA BetterIsAhead ==
    ASSUME VariantsAssumption, NEW s \in Snaps, NEW a \in Page, NEW b \in Page
    PROVE  Better(a, b, s) <=> Ahead(a, b, s)
<1> DEFINE rank(p) == <<IF s[p].redirected THEN 1 ELSE 0, IF s[p].ok THEN 0 ELSE 1, 0 - s[p].words, p>>
<1>1. /\ s[a].redirected \in BOOLEAN /\ s[a].ok \in BOOLEAN /\ s[a].words \in Int
      /\ s[b].redirected \in BOOLEAN /\ s[b].ok \in BOOLEAN /\ s[b].words \in Int
      /\ a \in Int /\ b \in Int
  BY DEF Snaps, Snap, VariantsAssumption
<1>2. Better(a, b, s) <=>
          \/ rank(a)[1] < rank(b)[1]
          \/ rank(a)[2] < rank(b)[2] /\ rank(a)[1] = rank(b)[1]
          \/ rank(a)[3] < rank(b)[3] /\ rank(a)[1] = rank(b)[1] /\ rank(a)[2] = rank(b)[2]
          \/ /\ rank(a)[4] < rank(b)[4]
             /\ rank(a)[1] = rank(b)[1] /\ rank(a)[2] = rank(b)[2] /\ rank(a)[3] = rank(b)[3]
  <2> DEFINE first(i) == rank(a)[i] < rank(b)[i] /\ \A j \in 1..(i - 1) : rank(a)[j] = rank(b)[j]
  <2>1. Better(a, b, s) <=> \E i \in 1..4 : first(i)
    BY Zenon DEF Better
  <2> HIDE DEF rank
  <2>2. first(1) <=> rank(a)[1] < rank(b)[1]
    OBVIOUS
  <2>3. first(2) <=> rank(a)[2] < rank(b)[2] /\ rank(a)[1] = rank(b)[1]
    OBVIOUS
  <2>4. first(3) <=> rank(a)[3] < rank(b)[3] /\ rank(a)[1] = rank(b)[1] /\ rank(a)[2] = rank(b)[2]
    OBVIOUS
  <2>5. first(4) <=> /\ rank(a)[4] < rank(b)[4]
                     /\ rank(a)[1] = rank(b)[1] /\ rank(a)[2] = rank(b)[2] /\ rank(a)[3] = rank(b)[3]
    OBVIOUS
  <2> HIDE DEF first
  <2>6. (\E i \in 1..4 : first(i)) <=> first(1) \/ first(2) \/ first(3) \/ first(4)
    OBVIOUS
  <2> QED
    BY <2>1, <2>2, <2>3, <2>4, <2>5, <2>6
<1>3. /\ rank(a)[1] = (IF s[a].redirected THEN 1 ELSE 0) /\ rank(b)[1] = (IF s[b].redirected THEN 1 ELSE 0)
      /\ rank(a)[2] = (IF s[a].ok THEN 0 ELSE 1) /\ rank(b)[2] = (IF s[b].ok THEN 0 ELSE 1)
      /\ rank(a)[3] = 0 - s[a].words /\ rank(b)[3] = 0 - s[b].words
      /\ rank(a)[4] = a /\ rank(b)[4] = b
  OBVIOUS
<1> HIDE DEF rank
<1> QED
  BY <1>1, <1>2, <1>3 DEF Ahead

\* _rep_rank is a strict total order.
LEMMA AheadIsAnOrder ==
    ASSUME VariantsAssumption, NEW s \in Snaps
    PROVE  /\ \A a \in Page : ~Ahead(a, a, s)
           /\ \A a, b \in Page : a # b => Ahead(a, b, s) \/ Ahead(b, a, s)
           /\ \A a, b, c \in Page : Ahead(a, b, s) /\ Ahead(b, c, s) => Ahead(a, c, s)
BY DEF Snaps, Snap, VariantsAssumption, Ahead

\* So a representative exists: the page with the fewest pages ahead of it.
LEMMA RepresentativeExists ==
    ASSUME VariantsAssumption, NEW s \in Snaps, NEW p \in Page
    PROVE  /\ Representative(p, s) \in SameNorm(p)
           /\ \A r \in SameNorm(p) \ {Representative(p, s)} : Ahead(Representative(p, s), r, s)
<1> DEFINE S == SameNorm(p)
           before(q) == {r \in S : Ahead(r, q, s)}
           family == {before(q) : q \in S}
<1>1. S \subseteq Page /\ p \in S /\ IsFiniteSet(S)
  BY FS_Subset DEF SameNorm, VariantsAssumption
<1>2. IsWellFoundedOn(StrictSubsetOrdering(S), FiniteSubsetsOf(S))
  BY FS_StrictSubsetOrderingWellFounded
<1>3. family \subseteq FiniteSubsetsOf(S) /\ family # {}
  <2>1. FiniteSubsetsOf(S) = SUBSET S
    BY <1>1, FS_FiniteSubsetsOfFinite
  <2> HIDE DEF S
  <2>2. \A q \in S : before(q) \in SUBSET S
    OBVIOUS
  <2> HIDE DEF before
  <2>3. family \subseteq SUBSET S /\ before(p) \in family
    BY <1>1, <2>2
  <2> QED
    BY <2>1, <2>3
<1>4. PICK least \in family : \A other \in family : ~(<<other, least>> \in StrictSubsetOrdering(S))
  <2> HIDE DEF family
  <2> QED
    BY <1>2, <1>3, WFMin
<1>5. PICK q \in S : least = before(q)
  BY <1>4
<1>6. before(q) = {}
  <2> SUFFICES ASSUME NEW r \in before(q)
               PROVE  FALSE
    OBVIOUS
  <2>1. before(r) \subseteq before(q) /\ r \notin before(r) /\ before(r) \in family
    BY <1>1, AheadIsAnOrder
  <2>2. <<before(r), before(q)>> \in StrictSubsetOrdering(S)
    BY <2>1 DEF StrictSubsetOrdering
  <2> QED
    BY <1>4, <1>5, <2>1, <2>2
<1>7. \A r \in S \ {q} : Better(q, r, s)
  BY <1>1, <1>6, AheadIsAnOrder, BetterIsAhead
<1>8. /\ Representative(p, s) \in S
      /\ \A r \in S \ {Representative(p, s)} : Better(Representative(p, s), r, s)
  BY <1>7, Zenon DEF Representative
<1> QED
  BY <1>1, <1>8, BetterIsAhead

\* Variants of one normal form have one representative, which has none.
LEMMA VariantsAreRepresented ==
    ASSUME VariantsAssumption, NEW s \in Snaps
    PROVE  /\ Variants(s) \in [Page -> Page \cup {Nobody}]
           /\ \A p \in Page : Variants(s)[p] # Nobody =>
                  /\ Variants(s)[p] \in Page /\ Norm[Variants(s)[p]] = Norm[p]
                  /\ Variants(s)[Variants(s)[p]] = Nobody
                  /\ s[p].ok /\ ~s[p].redirected =>
                       s[Variants(s)[p]].ok /\ ~s[Variants(s)[p]].redirected
           /\ \A p, q \in Page :
                  Norm[p] = Norm[q] /\ Variants(s)[p] = Nobody /\ Variants(s)[q] = Nobody => p = q
<1>1. \A p \in Page : Representative(p, s) \in Page /\ Norm[Representative(p, s)] = Norm[p]
  BY RepresentativeExists DEF SameNorm
<1>2. \A p, q \in Page : Norm[p] = Norm[q] => Representative(p, s) = Representative(q, s)
  BY DEF SameNorm, Representative
<1>3. \A p \in Page : Variants(s)[p] = IF Representative(p, s) = p THEN Nobody ELSE Representative(p, s)
  BY DEF Variants
<1>4. Nobody \notin Page
  BY DEF VariantsAssumption
<1>5. Variants(s) \in [Page -> Page \cup {Nobody}]
  BY <1>1 DEF Variants
<1>6. ASSUME NEW p \in Page, Variants(s)[p] # Nobody
      PROVE  /\ Variants(s)[p] \in Page /\ Norm[Variants(s)[p]] = Norm[p]
             /\ Variants(s)[Variants(s)[p]] = Nobody
             /\ s[p].ok /\ ~s[p].redirected =>
                    s[Variants(s)[p]].ok /\ ~s[Variants(s)[p]].redirected
  <2> DEFINE rep == Representative(p, s)
  <2>1. Variants(s)[p] = rep /\ rep # p
    BY <1>3, <1>6
  <2>2. rep \in Page /\ Norm[rep] = Norm[p] /\ Representative(rep, s) = rep
    BY <1>1, <1>2
  <2>3. p \in SameNorm(p) \ {rep}
    BY <2>1 DEF SameNorm
  <2>4. Ahead(rep, p, s)
    BY <2>3, RepresentativeExists
  <2>5. /\ s[p].ok \in BOOLEAN /\ s[p].redirected \in BOOLEAN
        /\ s[rep].ok \in BOOLEAN /\ s[rep].redirected \in BOOLEAN
    BY <2>2 DEF Snaps, Snap
  <2> HIDE DEF rep
  <2>6. s[p].ok /\ ~s[p].redirected => s[rep].ok /\ ~s[rep].redirected
    BY <2>4, <2>5 DEF Ahead
  <2> QED
    BY <1>3, <2>1, <2>2, <2>6
<1>7. \A p, q \in Page :
          Norm[p] = Norm[q] /\ Variants(s)[p] = Nobody /\ Variants(s)[q] = Nobody => p = q
  BY <1>1, <1>2, <1>3, <1>4
<1> QED
  BY <1>5, <1>6, <1>7

\* The evidence for AMP is in the snapshots only.
LEMMA EvidenceIsOfSnapshots ==
    ASSUME UNCHANGED snapOf
    PROVE  HashesByKey' = HashesByKey /\ \A h : AmpPages(h)' = AmpPages(h)
BY DEF HashesByKey, AmpPages, IsLinkedAsAmp, IsShapeConfirmed

LEMMA RestKeepsEvidence ==
    ASSUME GroupsAreOfSnapshots, LabelsAreOfSnapshots, OneOfEachNormIsCompared,
           UNCHANGED <<snapOf, variantOf, label, overlapJob, amp, excluded, fresh>>
    PROVE  GroupsAreOfSnapshots' /\ LabelsAreOfSnapshots' /\ OneOfEachNormIsCompared'
BY EvidenceIsOfSnapshots DEF GroupsAreOfSnapshots, LabelsAreOfSnapshots, Labels,
   OneOfEachNormIsCompared, Compared

LEMMA InitVariants ==
    ASSUME VariantsAssumption, VariantsInit
    PROVE  VariantsInv
<1>1. snapOf \in Snaps
  BY DEF VariantsAssumption, VariantsInit, Snaps, Snap
<1>2. VariantsTypeOK
  BY <1>1 DEF VariantsInit, VariantsTypeOK, NoGroupJob
<1>3. ~fresh.groups /\ ~fresh.labels /\ ~fresh.compared /\ \A p \in Page : variantOf[p] = Nobody
  BY DEF VariantsInit
<1> QED
  BY <1>2, <1>3 DEF VariantsInv, GroupsAreOfSnapshots, LabelsAreOfSnapshots, OneOfEachNormIsCompared

LEMMA RecrawlKeepsVariants ==
    ASSUME VariantsAssumption, VariantsInv, NEW p \in Page, Recrawl(p)
    PROVE  VariantsInv'
<1>1. snapOf' \in Snaps
  BY DEF Recrawl, VariantsInv, VariantsTypeOK, VariantsAssumption, Snaps, Snap
<1>2. fresh' = [groups |-> FALSE, labels |-> FALSE, compared |-> FALSE]
  BY DEF Recrawl
<1>3. VariantsTypeOK'
  BY <1>1, <1>2 DEF Recrawl, VariantsInv, VariantsTypeOK
<1>4. GroupsAreOfSnapshots'
  BY <1>2 DEF Recrawl, GroupsAreOfSnapshots, VariantsInv
<1> QED
  BY <1>2, <1>3, <1>4 DEF VariantsInv, LabelsAreOfSnapshots, OneOfEachNormIsCompared

\* The steps of hreflang-groups before its second commit, and its end.
LEMMA GroupsKeepVariants ==
    ASSUME VariantsAssumption, VariantsInv, ReadPages \/ StoreIdentity \/ StopGroups
    PROVE  VariantsInv'
<1>1. UNCHANGED <<snapOf, variantOf, label, overlapJob, amp, excluded, fresh>>
  BY DEF ReadPages, StoreIdentity, StopGroups
<1>2. VariantsTypeOK'
  <2> USE DEF VariantsInv, VariantsTypeOK
  <2>1. CASE ReadPages
    BY <1>1, <2>1 DEF ReadPages
  <2>2. CASE StoreIdentity
    <3>1. groupJob' = [groupJob EXCEPT !.step = "variants"] /\ known' = Page
      BY <2>2 DEF StoreIdentity
    <3>2. groupJob \in [step : {"identity", "variants"}, read : Snaps]
      BY <2>2 DEF StoreIdentity, NoGroupJob
    <3>3. groupJob' \in [step : {"identity", "variants"}, read : Snaps]
      <4> HIDE DEF Snaps
      <4> QED
        BY <3>1, <3>2
    <3> QED
      BY <1>1, <3>1, <3>3
  <2>3. CASE StopGroups
    BY <1>1, <2>3 DEF StopGroups, NoGroupJob
  <2> QED
    BY <2>1, <2>2, <2>3
<1>3. GroupsAreOfSnapshots' /\ LabelsAreOfSnapshots' /\ OneOfEachNormIsCompared'
  BY <1>1, RestKeepsEvidence DEF VariantsInv
<1> QED
  BY <1>2, <1>3 DEF VariantsInv

LEMMA StoreVariantsKeepsVariants ==
    ASSUME VariantsAssumption, VariantsInv, StoreVariants
    PROVE  VariantsInv'
<1>1. PICK s : s = groupJob.read
  OBVIOUS
<1>2. s \in Snaps /\ known = Page
  BY <1>1 DEF StoreVariants, NoGroupJob, VariantsInv, VariantsTypeOK
<1>3. variantOf' = Variants(s)
  BY <1>1, <1>2 DEF StoreVariants, ResetAndSet, Variants
<1>4. /\ fresh' = [fresh EXCEPT !.groups = (s = snapOf)]
      /\ UNCHANGED <<snapOf, known, label, overlapJob, amp, excluded>> /\ groupJob' = NoGroupJob
  BY <1>1 DEF StoreVariants
<1>5. /\ fresh'.groups = (s = snapOf) /\ fresh'.labels = fresh.labels /\ fresh'.compared = fresh.compared
      /\ fresh' \in [groups : BOOLEAN, labels : BOOLEAN, compared : BOOLEAN]
  BY <1>4 DEF VariantsInv, VariantsTypeOK
<1>6. VariantsTypeOK'
  BY <1>2, <1>3, <1>4, <1>5, VariantsAreRepresented DEF NoGroupJob, VariantsInv, VariantsTypeOK
<1>7. GroupsAreOfSnapshots'
  BY <1>2, <1>3, <1>4, <1>5 DEF GroupsAreOfSnapshots
<1>8. LabelsAreOfSnapshots'
  BY <1>4, <1>5, EvidenceIsOfSnapshots DEF VariantsInv, LabelsAreOfSnapshots, Labels
<1>9. OneOfEachNormIsCompared'
  BY <1>4, <1>5 DEF VariantsInv, OneOfEachNormIsCompared, Compared
<1> QED
  BY <1>6, <1>7, <1>8, <1>9 DEF VariantsInv

LEMMA ClassifyKeepsVariants ==
    ASSUME VariantsAssumption, VariantsInv, ClassifyAmp \/ StoreLabels
    PROVE  VariantsInv'
<1> DEFINE typed == fresh' \in [groups : BOOLEAN, labels : BOOLEAN, compared : BOOLEAN]
<1>1. CASE ClassifyAmp
  <2>1. fresh'.labels = TRUE /\ fresh'.groups = fresh.groups /\ fresh'.compared = fresh.compared /\ typed
    BY <1>1 DEF ClassifyAmp, VariantsInv, VariantsTypeOK
  <2>2. VariantsTypeOK' /\ GroupsAreOfSnapshots' /\ OneOfEachNormIsCompared'
    BY <1>1, <2>1 DEF ClassifyAmp, VariantsInv, VariantsTypeOK, GroupsAreOfSnapshots,
       OneOfEachNormIsCompared, Compared
  <2>3. LabelsAreOfSnapshots'
    BY <1>1, EvidenceIsOfSnapshots DEF ClassifyAmp, LabelsAreOfSnapshots, Labels
  <2> QED
    BY <2>2, <2>3 DEF VariantsInv
<1>2. CASE StoreLabels
  <2>1. VariantsTypeOK' /\ GroupsAreOfSnapshots' /\ OneOfEachNormIsCompared'
    BY <1>2 DEF StoreLabels, VariantsInv, VariantsTypeOK, GroupsAreOfSnapshots,
       OneOfEachNormIsCompared, Compared
  <2>2. LabelsAreOfSnapshots'
    BY <1>2, EvidenceIsOfSnapshots DEF StoreLabels, Relabelled, VariantsInv, LabelsAreOfSnapshots, Labels
  <2> QED
    BY <2>1, <2>2 DEF VariantsInv
<1> QED
  BY <1>1, <1>2

LEMMA FetchRowsKeepsVariants ==
    ASSUME VariantsAssumption, VariantsInv, FetchRows
    PROVE  VariantsInv'
<1>1. /\ overlapJob = "labelled" /\ overlapJob' = "idle"
      /\ fresh' = [fresh EXCEPT !.compared = fresh.groups]
      /\ UNCHANGED <<snapOf, variantOf, known, label, groupJob>>
  BY DEF FetchRows
<1>2. /\ fresh'.groups = fresh.groups /\ fresh'.labels = fresh.labels /\ fresh'.compared = fresh.groups
      /\ fresh' \in [groups : BOOLEAN, labels : BOOLEAN, compared : BOOLEAN]
  BY <1>1 DEF VariantsInv, VariantsTypeOK
<1>3. PICK base \in BaseChoices :
          excluded' = [p \in Page |->
               IF Exclusion(p) = "" /\ base[p] # Nobody /\ IsCopyOf(p, base[p])
               THEN "parameterised-duplicate" ELSE Exclusion(p)]
  BY DEF FetchRows
<1>4. \A p \in Page : /\ excluded'[p] = "" => Exclusion(p) = ""
                      /\ excluded'[p] = "amp-variant" => Exclusion(p) = "amp-variant"
  BY <1>3
<1>5. \A p \in Page : Exclusion(p) = "" => variantOf[p] = Nobody /\ ExclusionByPage(p) = ""
  BY DEF Exclusion
<1>6. \A p \in Page : Exclusion(p) = "amp-variant" => ExclusionByPage(p) = "amp-variant"
  BY DEF Exclusion
<1>7. \A p \in Page : /\ ExclusionByPage(p) = "" => p \notin label /\ snapOf[p].ok
                      /\ ExclusionByPage(p) = "amp-variant" => p \in label
  BY Zenon DEF ExclusionByPage
<1>8. VariantsTypeOK'
  BY <1>1, <1>2 DEF VariantsInv, VariantsTypeOK
<1>9. GroupsAreOfSnapshots'
  BY <1>1, <1>2 DEF VariantsInv, GroupsAreOfSnapshots
<1>10. HashesByKey' = HashesByKey /\ \A h : AmpPages(h)' = AmpPages(h)
  BY <1>1, EvidenceIsOfSnapshots
<1>11. LabelsAreOfSnapshots'
  BY <1>1, <1>2, <1>4, <1>5, <1>6, <1>7, <1>10 DEF VariantsInv, LabelsAreOfSnapshots, Labels
<1>12. OneOfEachNormIsCompared'
  <2> SUFFICES ASSUME fresh.groups, NEW p \in Page, NEW q \in Page,
                      excluded'[p] = "", excluded'[q] = "", Norm[p] = Norm[q]
               PROVE  p = q
    BY <1>2 DEF OneOfEachNormIsCompared, Compared
  <2>1. variantOf[p] = Nobody /\ variantOf[q] = Nobody
    BY <1>4, <1>5
  <2>2. variantOf = Variants(snapOf) /\ snapOf \in Snaps
    BY DEF VariantsInv, VariantsTypeOK, GroupsAreOfSnapshots
  <2>3. \A p1, q1 \in Page : /\ Norm[p1] = Norm[q1]
                             /\ Variants(snapOf)[p1] = Nobody /\ Variants(snapOf)[q1] = Nobody
                             => p1 = q1
    BY <2>2, VariantsAreRepresented
  <2> QED
    BY <2>1, <2>2, <2>3
<1> QED
  BY <1>8, <1>9, <1>11, <1>12 DEF VariantsInv

LEMMA VariantsInvImplies ==
    ASSUME VariantsAssumption, VariantsInv
    PROVE  VariantsFollowTheEvidence
<1>1. VariantsHaveARepresentative
  BY VariantsAreRepresented DEF VariantsHaveARepresentative, VariantsInv, GroupsAreOfSnapshots
<1>2. LabelsFollowTheEvidence
  BY DEF LabelsFollowTheEvidence, VariantsInv, LabelsAreOfSnapshots, Labels, AmpPages, HasAmpEvidence,
     IsLinkedAsAmp, Compared
<1> QED
  BY <1>1, <1>2 DEF VariantsInv, VariantsFollowTheEvidence

\* Variants have a representative that is not a variant, one page of each normal
\* form is compared and the AMP labels follow the snapshots, whatever is crawled
\* again between the commits (hreflang_groups.py, amp.py, intent_overlap.py).
THEOREM VariantsAreHonest ==
    ASSUME VariantsAssumption
    PROVE  VariantsSpec => []VariantsFollowTheEvidence
<1>1. VariantsInit => VariantsInv
  BY InitVariants
<1>2. VariantsInv /\ [VariantsNext]_variantVars => VariantsInv'
  <2> SUFFICES ASSUME VariantsInv, [VariantsNext]_variantVars
               PROVE  VariantsInv'
    OBVIOUS
  <2>1. CASE \E p \in Page : Recrawl(p)
    BY <2>1, RecrawlKeepsVariants
  <2>2. CASE ReadPages \/ StoreIdentity \/ StopGroups
    BY <2>2, GroupsKeepVariants
  <2>3. CASE StoreVariants
    BY <2>3, StoreVariantsKeepsVariants
  <2>4. CASE ClassifyAmp \/ StoreLabels
    BY <2>4, ClassifyKeepsVariants
  <2>5. CASE FetchRows
    BY <2>5, FetchRowsKeepsVariants
  <2>6. CASE UNCHANGED variantVars
    BY <2>6, RestKeepsEvidence DEF variantVars, VariantsInv, VariantsTypeOK
  <2> QED
    BY <2>1, <2>2, <2>3, <2>4, <2>5, <2>6 DEF VariantsNext
<1>3. VariantsInv => VariantsFollowTheEvidence
  BY VariantsInvImplies
<1> QED
  BY <1>1, <1>2, <1>3, PTL DEF VariantsSpec

--------------------
\* What a result has of the page that the crawl of its side ended at.
Faithful(s, p, r) ==
    /\ p \in Path /\ r.final = UrlAt(host[s], p)
    /\ \E q \in Path : r.requested = UrlAt(host[s], q) /\ EndOf(s, q) = p
    /\ IF r.html THEN site[s][p].kind = "page" /\ r.text = TextAt(s, p) ELSE r.text = NoBody
    /\ r.stored # NoBody => site[s][p].kind = "page" /\ r.stored = TextAt(s, p)
    /\ source[s].from # "store" =>
         /\ r.fields = BodyAt(s, p) /\ r.schema = BodyAt(s, p)
         /\ site[s][p].kind = "page" =>
              r.html /\ r.canonical = UrlAt(host[s], p) /\ r.links = ArtifactLinks(s, p)

\* Every path of a side has a result of where it ended.
IsLoadOf(s, results) ==
    /\ \A p \in DOMAIN results : Faithful(s, p, results[p])
    /\ \A q \in Path : EndOf(s, q) \in DOMAIN results

SidesAreCrawls ==
    /\ host \in [Side -> Host] /\ host["candidate"] = "prod" /\ source \in [Side -> Source]
    /\ \A s \in Side : \A p \in Path :
         /\ site[s][p].kind \in {"page", "redirect", "failed"}
         /\ site[s][p].kind = "page" =>
              site[s][p].body \in Body /\ site[s][p].mention \in BOOLEAN /\ site[s][p].links \subseteq Link
         /\ site[s][p].kind = "redirect" => site[s][p].to \in Path /\ site[s][site[s][p].to].kind = "page"

\* The inductive invariant of the comparison: what was loaded is of the sites.
ComparisonInv ==
    /\ SidesAreCrawls
    /\ DOMAIN byPath = Side
    /\ \A s \in Side : byPath[s] # <<>> => IsLoadOf(s, byPath[s])
    /\ outcome = "" => session = <<>>
    /\ SessionsAreTrue

LEMMA UrlParts == \A h, p : UrlAt(h, p).host = h /\ UrlAt(h, p).path = p
  BY DEF UrlAt

LEMMA FinalIsAPage ==
  ASSUME SidesAreCrawls, NEW s \in Side, NEW p \in Path
  PROVE  /\ EndOf(s, p) \in Path /\ site[s][EndOf(s, p)].kind \in {"page", "failed"}
         /\ EndOf(s, p) # p => site[s][p].kind = "redirect"
         /\ site[s][p].kind # "redirect" => EndOf(s, p) = p
         /\ site[s][EndOf(s, p)].kind = "failed" => EndOf(s, p) = p
  BY DEF SidesAreCrawls, EndOf

LEMMA ResultIsFaithful ==
  ASSUME SidesAreCrawls, NEW s \in Side, NEW q \in Path, NEW r,
         r = IF source[s].from = "artifact" THEN ArtifactResult(s, q) ELSE StoredResult(s, q)
  PROVE  Faithful(s, EndOf(s, q), r)
<1> DEFINE p == EndOf(s, q)
<1>0. source[s].from \in {"artifact", "store"}
  <2>1. source[s] \in Source
    BY DEF SidesAreCrawls
  <2>2. \/ source[s] \in [from : {"artifact"}, hashed : BOOLEAN, html : {TRUE}, stamp : {"none", "known", "unknown"}]
        \/ source[s] \in [from : {"store"}, hashed : BOOLEAN, html : BOOLEAN, stamp : {"none"}]
    BY <2>1, Zenon DEF Source
  <2>3. \A x \in [from : {"artifact"}, hashed : BOOLEAN, html : {TRUE}, stamp : {"none", "known", "unknown"}] :
           x.from = "artifact"
    BY ONLY TRUE
  <2>4. \A x \in [from : {"store"}, hashed : BOOLEAN, html : BOOLEAN, stamp : {"none"}] : x.from = "store"
    BY ONLY TRUE
  <2>5. QED
    BY <2>2, <2>3, <2>4, Zenon
<1>1. /\ p \in Path /\ site[s][p].kind \in {"page", "failed"}
      /\ site[s][p].kind = "failed" => p = q
      /\ source[s].from \in {"artifact", "store"}
  BY <1>0, FinalIsAPage
<1>2. p = EndOf(s, q)
  OBVIOUS
<1>3. CASE site[s][p].kind = "failed"
  <2>1. ArtifactResult(s, q) = NoPage(s, q)
    BY <1>3 DEF ArtifactResult
  <2> DEFINE n == NoPage(s, q)
  <2>2. /\ n.requested = UrlAt(host[s], q) /\ n.final = UrlAt(host[s], q) /\ n.html = FALSE /\ n.text = NoBody
        /\ n.stored = NoBody /\ n.fields = "none" /\ n.schema = "none"
    BY DEF NoPage
  <2> HIDE DEF n
  <2>3. /\ StoredResult(s, q).requested = n.requested /\ StoredResult(s, q).final = n.final
        /\ StoredResult(s, q).html = FALSE /\ StoredResult(s, q).text = NoBody /\ StoredResult(s, q).stored = NoBody
    BY <2>1, <2>2 DEF StoredResult, n
  <2>4. BodyAt(s, p) = "none"
    BY <1>3 DEF BodyAt
  <2>5. /\ r.requested = UrlAt(host[s], q) /\ r.final = UrlAt(host[s], q) /\ r.html = FALSE /\ r.text = NoBody
        /\ r.stored = NoBody
        /\ source[s].from # "store" => r.fields = "none" /\ r.schema = "none"
    BY <1>1, <2>1, <2>2, <2>3 DEF n
  <2> HIDE DEF p
  <2>6. p = q
    BY <1>1, <1>3
  <2>7. Faithful(s, p, r)
    <3>1. \E v \in Path : r.requested = UrlAt(host[s], v) /\ EndOf(s, v) = p
      BY <1>2, <2>5
    <3>2. r.final = UrlAt(host[s], p)
      BY <2>5, <2>6
    <3>3. QED
      <4>1. IF r.html THEN site[s][p].kind = "page" /\ r.text = TextAt(s, p) ELSE r.text = NoBody
        BY <2>5
      <4>2. source[s].from # "store" => r.fields = BodyAt(s, p) /\ r.schema = BodyAt(s, p)
        BY <2>4, <2>5
      <4>3. site[s][p].kind # "page" /\ r.stored = NoBody
        BY <1>3, <2>5
      <4>4. QED
        BY <1>1, <3>1, <3>2, <4>1, <4>2, <4>3, Zenon DEF Faithful
  <2>8. QED
    BY <2>7 DEF p
<1>4. CASE site[s][p].kind = "page"
  <2> DEFINE a == ArtifactResult(s, q)
             b == StoredResult(s, q)
  <2>1. a = [requested |-> UrlAt(host[s], q), final |-> UrlAt(host[s], p), html |-> TRUE,
             text |-> TextAt(s, p), stored |-> IF source[s].hashed THEN TextAt(s, p) ELSE NoBody,
             fields |-> site[s][p].body, schema |-> site[s][p].body,
             canonical |-> UrlAt(host[s], p), links |-> ArtifactLinks(s, p)]
    BY <1>4 DEF ArtifactResult
  <2> HIDE DEF a
  <2>2. /\ a.requested = UrlAt(host[s], q) /\ a.final = UrlAt(host[s], p) /\ a.html = TRUE
        /\ a.text = TextAt(s, p) /\ a.stored \in {TextAt(s, p), NoBody}
        /\ a.fields = site[s][p].body /\ a.schema = site[s][p].body
        /\ a.canonical = UrlAt(host[s], p) /\ a.links = ArtifactLinks(s, p)
    BY ONLY <2>1
  <2>3. /\ b.requested = a.requested /\ b.final = a.final /\ b.html \in BOOLEAN
        /\ b.text = IF b.html THEN a.text ELSE NoBody
        /\ b.stored \in {a.stored, NoBody}
    BY <2>2 DEF StoredResult, a
  <2> HIDE DEF b
  <2>4. BodyAt(s, p) = site[s][p].body
    BY <1>4 DEF BodyAt
  <2>5. r = IF source[s].from = "artifact" THEN a ELSE b
    BY DEF a, b
  <2>6. /\ r.requested = UrlAt(host[s], q) /\ r.final = UrlAt(host[s], p)
        /\ r.text = IF r.html THEN TextAt(s, p) ELSE NoBody
        /\ r.stored \in {TextAt(s, p), NoBody}
        /\ source[s].from # "store" =>
             /\ r.fields = BodyAt(s, p) /\ r.schema = BodyAt(s, p) /\ r.html
             /\ r.canonical = UrlAt(host[s], p) /\ r.links = ArtifactLinks(s, p)
    BY <1>1, <2>2, <2>3, <2>4, <2>5
  <2> HIDE DEF p
  <2>7. Faithful(s, p, r)
    <3>1. \E v \in Path : r.requested = UrlAt(host[s], v) /\ EndOf(s, v) = p
      BY <1>2, <2>6
    <3>2. QED
      BY <1>1, <1>4, <2>6, <3>1 DEF Faithful
  <2>8. QED
    BY <2>7 DEF p
<1>5. QED
  BY <1>1, <1>3, <1>4

LEMMA ResultsAre ==
  ASSUME SidesAreCrawls, NEW s \in Side
  PROVE  /\ \A r \in Results(s) : \E q \in Path : EndOf(s, q) = r.final.path /\ Faithful(s, EndOf(s, q), r)
         /\ \A q \in Path : \E r \in Results(s) : r.final.path = EndOf(s, q)
<1> DEFINE of(q) == IF source[s].from = "artifact" THEN ArtifactResult(s, q) ELSE StoredResult(s, q)
<1>1. \A r : r \in Results(s) <=> \E q \in Path : r = of(q)
  BY DEF Results, ArtifactResults
<1>2. \A q \in Path : Faithful(s, EndOf(s, q), of(q))
  BY ResultIsFaithful
<1> HIDE DEF of
<1>3. \A q \in Path : of(q).final = UrlAt(host[s], EndOf(s, q))
  BY <1>2 DEF Faithful
<1>4. \A q \in Path : of(q).final.path = EndOf(s, q)
  BY <1>3, UrlParts
<1>5. QED
  BY <1>1, <1>2, <1>4

LEMMA LoadIsOfTheSite ==
  ASSUME SidesAreCrawls, NEW s \in Side,
         NEW f \in [{r.final.path : r \in Results(s)} -> Results(s)],
         \A p \in {r.final.path : r \in Results(s)} : f[p].final.path = p
  PROVE  IsLoadOf(s, f)
<1>1. ASSUME NEW p \in DOMAIN f
      PROVE  Faithful(s, p, f[p])
  <2>1. f[p] \in Results(s) /\ f[p].final.path = p
    BY <1>1
  <2>2. QED
    BY <2>1, ResultsAre
<1>2. ASSUME NEW q \in Path
      PROVE  EndOf(s, q) \in DOMAIN f
  BY ResultsAre
<1>3. QED
  BY <1>1, <1>2 DEF IsLoadOf

\* What the hashes of a result are of.
LEMMA HashesAre ==
  ASSUME ComparisonAssumption, SidesAreCrawls, NEW s \in Side, NEW p, NEW r, Faithful(s, p, r)
  PROVE  /\ ContentHash(r) # NoBody => site[s][p].kind = "page" /\ ContentHash(r).body = site[s][p].body
         /\ replace /\ CanRehash(r) =>
              ContentHash(r) = [body |-> site[s][p].body, mention |-> IF site[s][p].mention THEN "prod" ELSE "none"]
         /\ CanRehash(r) => site[s][p].kind = "page"
         /\ r.html => CanRehash(r)
<1>1. /\ p \in Path
      /\ IF r.html THEN site[s][p].kind = "page" /\ r.text = TextAt(s, p) ELSE r.text = NoBody
      /\ r.stored # NoBody => site[s][p].kind = "page" /\ r.stored = TextAt(s, p)
  BY DEF Faithful
<1>2. host[s] \in {"dev", "prod"}
  BY DEF SidesAreCrawls, Host
<1>3. TextAt(s, p).body = site[s][p].body /\ TextAt(s, p).mention = IF site[s][p].mention THEN host[s] ELSE "none"
  BY DEF TextAt
<1>4. CanRehash(r) => site[s][p].kind = "page" /\ r.text = TextAt(s, p)
  BY <1>1 DEF CanRehash
<1>5. CASE replace /\ CanRehash(r)
  <2>1. ContentHash(r) = RemappedText(TextAt(s, p))
    BY <1>4, <1>5 DEF ContentHash
  <2>2. Remapped(host[s]) = "prod" /\ Remapped("none") = "none"
    BY <1>2, <1>5 DEF Remapped
  <2>3. Remapped(TextAt(s, p).mention) = IF site[s][p].mention THEN "prod" ELSE "none"
    BY <1>3, <2>2
  <2>4. ContentHash(r) = [body |-> site[s][p].body, mention |-> IF site[s][p].mention THEN "prod" ELSE "none"]
    BY <1>3, <2>1, <2>3 DEF RemappedText
  <2>5. ContentHash(r).body = site[s][p].body
    BY <2>4
  <2>6. QED
    BY <1>4, <1>5, <2>4, <2>5 DEF CanRehash
<1>6. CASE ~(replace /\ CanRehash(r))
  <2>1. ContentHash(r) = r.stored
    BY <1>6 DEF ContentHash
  <2>2. QED
    BY <1>1, <1>3, <1>4, <1>6, <2>1 DEF CanRehash
<1>7. QED
  BY <1>5, <1>6

\* A page's hash after the replacement is not that of nothing.
LEMMA PagesHaveHashes ==
  ASSUME ComparisonAssumption, SidesAreCrawls, NEW s \in Side, NEW p \in Path, site[s][p].kind = "page", NEW m
  PROVE  [body |-> site[s][p].body, mention |-> m] # NoBody
<1>1. site[s][p].body \in Body /\ "none" \notin Body
  BY DEF ComparisonAssumption, SidesAreCrawls
<1>2. NoBody.body = "none" /\ [body |-> site[s][p].body, mention |-> m].body = site[s][p].body
  BY DEF NoBody
<1>3. QED
  BY <1>1, <1>2

LEMMA LoadsAre ==
  ASSUME ComparisonInv, Loaded, NEW s \in Side
  PROVE  /\ \A p \in DOMAIN byPath[s] : Faithful(s, p, byPath[s][p])
         /\ \A q \in Path : EndOf(s, q) \in DOMAIN byPath[s]
  BY DEF ComparisonInv, Loaded, IsLoadOf

LEMMA VerdictIsSymmetric == \A a, b : Verdict(a, b) = Verdict(b, a) /\ (Verdict(a, b) = "identical" => a = b /\ a # NoBody)
  BY DEF Verdict, Distance

LEMMA VerdictsAreOfBoth == ComparisonInv => VerdictsAgree
<1> DEFINE one == byPath["baseline"]
           other == byPath["candidate"]
           there == Diff(one, other)
           back == Diff(other, one)
<1>1. there.missing = back.new /\ there.new = back.missing
  BY DEF Diff
<1>2. DOMAIN one \cap DOMAIN other = DOMAIN other \cap DOMAIN one
  OBVIOUS
<1>3. there.fallback = back.fallback
  <2>1. \A a, b : Fallback(a, b) <=> Fallback(b, a)
    BY DEF Fallback
  <2> HIDE DEF one, other
  <2>2. /\ there.fallback = {p \in DOMAIN one \cap DOMAIN other : Fallback(one[p], other[p])}
        /\ back.fallback = {p \in DOMAIN other \cap DOMAIN one : Fallback(other[p], one[p])}
    BY DEF Diff
  <2>3. {p \in DOMAIN one \cap DOMAIN other : Fallback(one[p], other[p])} =
        {p \in DOMAIN other \cap DOMAIN one : Fallback(other[p], one[p])}
    BY <2>1
  <2>4. QED
    BY <2>2, <2>3
<1>4. there.verdicts = back.verdicts
  <2> HIDE DEF one, other
  <2>1. /\ there.verdicts = [p \in DOMAIN one \cap DOMAIN other |-> Verdict(ContentHash(one[p]), ContentHash(other[p]))]
        /\ back.verdicts = [p \in DOMAIN other \cap DOMAIN one |-> Verdict(ContentHash(other[p]), ContentHash(one[p]))]
    BY DEF Diff
  <2>2. \A p : Verdict(ContentHash(one[p]), ContentHash(other[p])) = Verdict(ContentHash(other[p]), ContentHash(one[p]))
    BY VerdictIsSymmetric
  <2>3. QED
    BY <1>2, <2>1, <2>2
<1>5. QED
  BY <1>1, <1>3, <1>4 DEF VerdictsAgree, TheDiff

\* The two results of a path that both sides have.
LEMMA SharedPaths ==
  ASSUME ComparisonInv, Loaded
  PROVE  /\ DOMAIN TheDiff.verdicts = DOMAIN byPath["baseline"] \cap DOMAIN byPath["candidate"]
         /\ \A p \in DOMAIN TheDiff.verdicts :
              /\ p \in Path
              /\ \A s \in Side : Faithful(s, p, byPath[s][p])
              /\ TheDiff.verdicts[p] =
                   Verdict(ContentHash(byPath["baseline"][p]), ContentHash(byPath["candidate"][p]))
<1>1. TheDiff.verdicts = [p \in DOMAIN byPath["baseline"] \cap DOMAIN byPath["candidate"] |->
                            Verdict(ContentHash(byPath["baseline"][p]), ContentHash(byPath["candidate"][p]))]
  BY DEF Diff, TheDiff
<1>2. \A p \in DOMAIN byPath["baseline"] \cap DOMAIN byPath["candidate"] :
         \A s \in Side : p \in Path /\ Faithful(s, p, byPath[s][p])
  <2>1. \A s \in Side : s = "baseline" \/ s = "candidate"
    BY DEF Side
  <2>2. \A s \in Side : \A p \in DOMAIN byPath[s] : p \in Path /\ Faithful(s, p, byPath[s][p])
    BY LoadsAre DEF Faithful
  <2>3. QED
    BY <2>1, <2>2
<1>3. "baseline" \in Side
  BY DEF Side
<1>4. QED
  BY <1>1, <1>2, <1>3

LEMMA IdenticalPagesAreEqual ==
  ASSUME ComparisonAssumption, ComparisonInv
  PROVE  IdenticalIsEqual
<1> SUFFICES ASSUME Loaded, NEW p \in DOMAIN TheDiff.verdicts, TheDiff.verdicts[p] = "identical"
             PROVE  /\ \A s \in Side : site[s][p].kind = "page"
                    /\ BodyAt("baseline", p) = BodyAt("candidate", p)
  BY DEF IdenticalIsEqual
<1> DEFINE hash(s) == ContentHash(byPath[s][p])
<1>1. hash("baseline") = hash("candidate") /\ hash("baseline") # NoBody
  BY SharedPaths, VerdictIsSymmetric
<1>2. \A s \in Side : hash(s) # NoBody
  BY <1>1 DEF Side
<1>3. \A s \in Side : site[s][p].kind = "page" /\ hash(s).body = site[s][p].body
  BY <1>2, SharedPaths, HashesAre DEF ComparisonInv
<1>4. QED
  BY <1>1, <1>3 DEF BodyAt, Side

LEMMA HostsAreNoNoise ==
  ASSUME ComparisonAssumption, ComparisonInv
  PROVE  NoiseIsReported
<1> SUFFICES ASSUME Loaded, replace, NEW p \in DOMAIN TheDiff.verdicts,
                    \A s \in Side : site[s][p].kind = "page",
                    BodyAt("baseline", p) = BodyAt("candidate", p),
                    site["baseline"][p].mention = site["candidate"][p].mention,
                    p \notin TheDiff.fallback
             PROVE  TheDiff.verdicts[p] = "identical"
  BY DEF NoiseIsReported
<1>0. "baseline" \in Side /\ "candidate" \in Side /\ Side = {"baseline", "candidate"}
  BY DEF Side
<1>1. p \in Path /\ \A s \in Side : Faithful(s, p, byPath[s][p])
  BY SharedPaths
<1>2. \A s \in Side : CanRehash(byPath[s][p])
  <2>1. p \in DOMAIN byPath["baseline"] \cap DOMAIN byPath["candidate"]
    BY SharedPaths
  <2>2. ~Fallback(byPath["baseline"][p], byPath["candidate"][p])
    <3>1. TheDiff.fallback = {v \in DOMAIN byPath["baseline"] \cap DOMAIN byPath["candidate"] :
                                Fallback(byPath["baseline"][v], byPath["candidate"][v])}
      BY DEF Diff, TheDiff
    <3>2. QED
      BY <2>1, <3>1
  <2>3. QED
    BY <1>0, <2>2 DEF Fallback
<1> DEFINE of(s) == [body |-> site[s][p].body, mention |-> IF site[s][p].mention THEN "prod" ELSE "none"]
<1>3. \A s \in Side : ContentHash(byPath[s][p]) = of(s)
  BY <1>1, <1>2, HashesAre DEF ComparisonInv
<1>4. of("baseline") = of("candidate")
  BY <1>0 DEF BodyAt
<1>5. of("baseline") # NoBody
  BY <1>0, <1>1, PagesHaveHashes DEF ComparisonInv
<1> HIDE DEF of
<1>6. Verdict(of("baseline"), of("candidate")) = "identical"
  BY <1>4, <1>5 DEF Verdict
<1>7. QED
  BY <1>0, <1>3, <1>6, SharedPaths

LEMMA CopiesAreClean ==
  ASSUME ComparisonAssumption, ComparisonInv
  PROVE  CopyIsClean
<1> SUFFICES ASSUME Loaded, replace, site["baseline"] = site["candidate"],
                    \A s \in Side : source[s].from = "artifact",
                    \A p \in Path : site["baseline"][p].kind # "failed"
             PROVE  Clean(TheDiff)
  BY DEF CopyIsClean
<1> DEFINE one == byPath["baseline"]
           other == byPath["candidate"]
<1>0. "baseline" \in Side /\ "candidate" \in Side /\ SidesAreCrawls
  BY DEF Side, ComparisonInv
<1>1. \A s \in Side : site[s] = site["baseline"]
  BY DEF Side
<1>2. \A s \in Side : \A q \in Path : EndOf(s, q) = EndOf("baseline", q)
  BY <1>1 DEF EndOf
<1>3. \A s \in Side : \A p : p \in DOMAIN byPath[s] <=> \E q \in Path : EndOf("baseline", q) = p
  <2>1. ASSUME NEW s \in Side, NEW p \in DOMAIN byPath[s]
        PROVE  \E q \in Path : EndOf("baseline", q) = p
    <3>1. Faithful(s, p, byPath[s][p])
      BY LoadsAre
    <3>2. QED
      BY <1>2, <3>1 DEF Faithful
  <2>2. ASSUME NEW s \in Side, NEW q \in Path
        PROVE  EndOf("baseline", q) \in DOMAIN byPath[s]
    BY <1>2, LoadsAre
  <2>3. QED
    BY <2>1, <2>2
<1>4. DOMAIN one = DOMAIN other
  BY <1>0, <1>3
<1>5. ASSUME NEW s \in Side, NEW p \in DOMAIN one
      PROVE  /\ p \in Path /\ site[s][p].kind = "page" /\ Faithful(s, p, byPath[s][p])
             /\ byPath[s][p].html /\ byPath[s][p].canonical = UrlAt(host[s], p)
             /\ byPath[s][p].links = ArtifactLinks(s, p)
             /\ byPath[s][p].fields = BodyAt(s, p) /\ byPath[s][p].schema = BodyAt(s, p)
  <2>1. p \in DOMAIN byPath[s]
    BY <1>0, <1>3
  <2>2. Faithful(s, p, byPath[s][p])
    BY <2>1, LoadsAre
  <2>3. site[s][p].kind = "page"
    <3>1. PICK q \in Path : EndOf(s, q) = p
      BY <2>2 DEF Faithful
    <3>2. p \in Path /\ site[s][p].kind \in {"page", "failed"}
      BY <1>0, <3>1, FinalIsAPage
    <3>3. QED
      BY <1>1, <3>2
  <2>4. source[s].from # "store"
    OBVIOUS
  <2>5. QED
    BY <2>2, <2>3, <2>4 DEF Faithful
<1>6. \A s \in Side : Remapped(host[s]) = "prod"
  BY <1>0 DEF SidesAreCrawls, Host, Remapped
<1>7. \A s \in Side : \A p \in DOMAIN one : Canonical(byPath[s][p]) = UrlAt("prod", p)
  BY <1>5, <1>6, UrlParts DEF Canonical
<1>8. \A p \in DOMAIN one : BodyAt("baseline", p) = BodyAt("candidate", p)
  BY DEF BodyAt
<1>9. \A s \in Side : \A p \in DOMAIN one :
         LinkKeys(byPath[s][p]) = {<<"prod", link.path, link.anchor>> : link \in site["baseline"][p].links}
  <2> SUFFICES ASSUME NEW s \in Side, NEW p \in DOMAIN one
               PROVE  LinkKeys(byPath[s][p]) =
                        {<<"prod", link.path, link.anchor>> : link \in site["baseline"][p].links}
    OBVIOUS
  <2>1. \A link : /\ Remapped(Resolved(s, link).href.host) = "prod" /\ Resolved(s, link).href.path = link.path
                  /\ Resolved(s, link).anchor = link.anchor
    <3>1. Remapped("prod") = "prod"
      BY DEF Remapped
    <3>2. QED
      BY <1>6, <3>1, UrlParts DEF Resolved
  <2>2. byPath[s][p].links = {Resolved(s, link) : link \in site["baseline"][p].links}
    BY <1>1, <1>5 DEF ArtifactLinks
  <2> DEFINE key(l) == <<Remapped(l.href.host), l.href.path, l.anchor>>
             links == site["baseline"][p].links
             given == byPath[s][p].links
  <2>3. LinkKeys(byPath[s][p]) = {key(l) : l \in given}
    BY DEF LinkKeys
  <2>4. \A link : key(Resolved(s, link)) = <<"prod", link.path, link.anchor>>
    BY <2>1
  <2>5. given = {Resolved(s, link) : link \in links}
    BY <2>2
  <2> HIDE DEF key, links, given
  <2>6. \A k : k \in {key(l) : l \in given} <=> \E link \in links : k = key(Resolved(s, link))
    BY <2>5
  <2>7. \A k : k \in LinkKeys(byPath[s][p]) <=> k \in {<<"prod", link.path, link.anchor>> : link \in links}
    <3>1. \A k : k \in LinkKeys(byPath[s][p]) <=> \E link \in links : k = key(Resolved(s, link))
      BY ONLY <2>3, <2>6, Zenon
    <3>2. \A k : k \in {<<"prod", link.path, link.anchor>> : link \in links} <=>
                   \E link \in links : k = key(Resolved(s, link))
      BY ONLY <2>4
    <3>3. QED
      BY ONLY <3>1, <3>2
  <2>8. LinkKeys(byPath[s][p]) = {<<"prod", link.path, link.anchor>> : link \in links}
    <3> DEFINE lhs == LinkKeys(byPath[s][p])
               rhs == {<<"prod", link.path, link.anchor>> : link \in links}
    <3>1. \A k : k \in lhs <=> k \in rhs
      BY <2>7
    <3>3. lhs \subseteq rhs /\ rhs \subseteq lhs
      <4> HIDE DEF lhs, rhs
      <4>1. QED
        BY <3>1
    <3> HIDE DEF lhs, rhs
    <3>4. lhs = rhs
      BY <3>3
    <3>5. QED
      BY <3>4 DEF lhs, rhs
  <2>9. QED
    BY <2>8 DEF links
<1>10. \A p \in DOMAIN one : ~Fallback(one[p], other[p])
  BY <1>0, <1>5 DEF Fallback, CanRehash
<1>11. ASSUME NEW p \in DOMAIN one
       PROVE  Verdict(ContentHash(one[p]), ContentHash(other[p])) = "identical"
  <2> DEFINE hash == [body |-> site["baseline"][p].body,
                      mention |-> IF site["baseline"][p].mention THEN "prod" ELSE "none"]
  <2>1. \A s \in Side : CanRehash(byPath[s][p])
    BY <1>5 DEF CanRehash
  <2>2. \A s \in Side : ContentHash(byPath[s][p]) = hash
    BY <1>0, <1>1, <1>5, <2>1, HashesAre
  <2>3. hash # NoBody
    BY <1>0, <1>5, PagesHaveHashes
  <2> HIDE DEF hash
  <2>4. QED
    BY <1>0, <2>2, <2>3 DEF Verdict
<1>12. /\ TheDiff.missing = {} /\ TheDiff.new = {}
  BY <1>4 DEF TheDiff, Diff
<1>13. TheDiff.canonicals = {}
  <2>1. TheDiff.canonicals = {p \in DOMAIN one \cap DOMAIN other : Canonical(one[p]) # Canonical(other[p])}
    BY DEF TheDiff, Diff
  <2>2. QED
    BY <1>0, <1>7, <2>1
<1>14. TheDiff.fields = {} /\ TheDiff.schemas = {}
  <2>1. /\ TheDiff.fields = {p \in DOMAIN one \cap DOMAIN other : one[p].fields # other[p].fields}
        /\ TheDiff.schemas = {p \in DOMAIN one \cap DOMAIN other : one[p].schema # other[p].schema}
    BY DEF TheDiff, Diff
  <2>2. \A p \in DOMAIN one : one[p].fields = other[p].fields /\ one[p].schema = other[p].schema
    BY <1>0, <1>5, <1>8
  <2>3. QED
    BY <2>1, <2>2
<1>15. TheDiff.fallback = {}
  <2>1. TheDiff.fallback = {p \in DOMAIN one \cap DOMAIN other : Fallback(one[p], other[p])}
    BY DEF TheDiff, Diff
  <2>2. QED
    BY <1>10, <2>1
<1>16. \A p \in DOMAIN TheDiff.verdicts : TheDiff.verdicts[p] = "identical"
  BY <1>11, SharedPaths
<1>17. \A p \in DOMAIN TheDiff.verdicts : TheDiff.added[p] = {} /\ TheDiff.removed[p] = {}
  <2>1. /\ TheDiff.added = [p \in DOMAIN one \cap DOMAIN other |-> LinkKeys(other[p]) \ LinkKeys(one[p])]
        /\ TheDiff.removed = [p \in DOMAIN one \cap DOMAIN other |-> LinkKeys(one[p]) \ LinkKeys(other[p])]
    BY DEF TheDiff, Diff
  <2>2. \A p \in DOMAIN one : LinkKeys(one[p]) = LinkKeys(other[p])
    BY <1>0, <1>9
  <2>3. DOMAIN TheDiff.verdicts = DOMAIN one \cap DOMAIN other
    BY SharedPaths
  <2> HIDE DEF one, other
  <2>4. QED
    BY <2>1, <2>2, <2>3
<1>18. QED
  BY <1>12, <1>13, <1>14, <1>15, <1>16, <1>17 DEF Clean

--------------------
\* What is saved of two loaded sides is true of the sites.
LEMMA RowsAreTrue ==
  ASSUME ComparisonInv, Loaded
  PROVE  /\ RowPaths \subseteq Path
         /\ \A p \in RowPaths :
              LET row == ComparisonRow(p)
              IN /\ row.isMoved => site["baseline"][p].kind = "redirect"
                 /\ \A s \in Side \ row.exists : site[s][p].kind = "redirect"
                 /\ \/ row.fields["baseline"] # row.fields["candidate"]
                    \/ row.schema["baseline"] # row.schema["candidate"]
                    => \/ BodyAt("baseline", p) # BodyAt("candidate", p)
                       \/ \E s \in Side : source[s].from = "store"
<1>0. "baseline" \in Side /\ "candidate" \in Side /\ SidesAreCrawls
  BY DEF Side, ComparisonInv
<1>1. \A s \in Side : \A p \in DOMAIN byPath[s] : p \in Path /\ Faithful(s, p, byPath[s][p])
  BY LoadsAre DEF Faithful
<1>2. RowPaths \subseteq Path
  <2> DEFINE domains == {DOMAIN byPath[s] : s \in Side}
             moved == {p \in Path : MovedFrom(p)}
  <2>0. /\ \A d \in domains : \E s \in Side : d = DOMAIN byPath[s]
        /\ moved \subseteq Path /\ RowPaths = (UNION domains) \cup moved
    BY DEF RowPaths
  <2> HIDE DEF domains, moved
  <2>1. \A p : p \in RowPaths => p \in Path \/ \E s \in Side : p \in DOMAIN byPath[s]
    BY <2>0
  <2>2. \A p : p \in RowPaths => p \in Path
    BY <1>1, <2>1
  <2>3. QED
    BY <2>2
<1>3. \A p : MovedFrom(p) /\ p \in Path => site["baseline"][p].kind = "redirect"
  <2> SUFFICES ASSUME NEW p \in Path, MovedFrom(p)
               PROVE  site["baseline"][p].kind = "redirect"
    OBVIOUS
  <2>1. PICK q \in DOMAIN byPath["baseline"] :
           /\ byPath["baseline"][q].requested # byPath["baseline"][q].final
           /\ byPath["baseline"][q].requested.path = p
    BY DEF MovedFrom, TheDiff, Diff
  <2>2. PICK v \in Path : byPath["baseline"][q].requested = UrlAt(host["baseline"], v) /\ EndOf("baseline", v) = q
    BY <1>0, <1>1 DEF Faithful
  <2>3. byPath["baseline"][q].final = UrlAt(host["baseline"], q)
    BY <1>0, <1>1 DEF Faithful
  <2>4. v = p /\ v # q
    BY <2>1, <2>2, <2>3, UrlParts
  <2>5. QED
    BY <1>0, <2>2, <2>4, FinalIsAPage
<1>4. \A p \in Path : \A s \in Side : p \notin DOMAIN byPath[s] => site[s][p].kind = "redirect"
  BY <1>0, FinalIsAPage, LoadsAre
<1>5. ASSUME NEW p \in RowPaths
      PROVE  LET row == ComparisonRow(p)
             IN /\ row.isMoved => site["baseline"][p].kind = "redirect"
                /\ \A s \in Side \ row.exists : site[s][p].kind = "redirect"
                /\ \/ row.fields["baseline"] # row.fields["candidate"]
                   \/ row.schema["baseline"] # row.schema["candidate"]
                   => \/ BodyAt("baseline", p) # BodyAt("candidate", p)
                      \/ \E s \in Side : source[s].from = "store"
  <2> DEFINE row == ComparisonRow(p)
  <2>0. p \in Path
    BY <1>2, <1>5
  <2>1. /\ row.exists = {s \in Side : p \in DOMAIN byPath[s]} /\ row.isMoved = MovedFrom(p)
        /\ row.fields = IF p \in TheDiff.fields THEN [s \in Side |-> byPath[s][p].fields] ELSE [s \in Side |-> "none"]
        /\ row.schema = IF p \in TheDiff.schemas THEN [s \in Side |-> byPath[s][p].schema] ELSE [s \in Side |-> "none"]
    BY DEF ComparisonRow
  <2> HIDE DEF row
  <2>2. row.isMoved => site["baseline"][p].kind = "redirect"
    BY <1>3, <2>0, <2>1
  <2>3. \A s \in Side \ row.exists : site[s][p].kind = "redirect"
    BY <1>4, <2>0, <2>1
  <2>4. p \in TheDiff.fields \cup TheDiff.schemas => \A s \in Side : p \in DOMAIN byPath[s]
    <3>1. TheDiff.fields \cup TheDiff.schemas \subseteq DOMAIN byPath["baseline"] \cap DOMAIN byPath["candidate"]
      BY DEF TheDiff, Diff
    <3>2. QED
      BY <3>1 DEF Side
  <2>5. (\A s \in Side : source[s].from # "store") /\ (\A s \in Side : p \in DOMAIN byPath[s]) =>
           \A s \in Side : byPath[s][p].fields = BodyAt(s, p) /\ byPath[s][p].schema = BodyAt(s, p)
    BY <1>1 DEF Faithful
  <2>6. ASSUME row.fields["baseline"] # row.fields["candidate"] \/ row.schema["baseline"] # row.schema["candidate"],
               \A s \in Side : source[s].from # "store"
        PROVE  BodyAt("baseline", p) # BodyAt("candidate", p)
    <3>1. /\ row.fields["baseline"] # row.fields["candidate"] => p \in TheDiff.fields
          /\ row.schema["baseline"] # row.schema["candidate"] => p \in TheDiff.schemas
      BY <1>0, <2>1
    <3>2. \A s \in Side : byPath[s][p].fields = BodyAt(s, p) /\ byPath[s][p].schema = BodyAt(s, p)
      BY <2>4, <2>5, <2>6, <3>1
    <3>3. p \in TheDiff.fields => \A s \in Side : row.fields[s] = BodyAt(s, p)
      BY <2>1, <3>2
    <3>4. p \in TheDiff.schemas => \A s \in Side : row.schema[s] = BodyAt(s, p)
      BY <2>1, <3>2
    <3>5. QED
      BY <1>0, <2>6, <3>1, <3>3, <3>4
  <2>7. QED
    BY <2>2, <2>3, <2>6 DEF row
<1>6. QED
  BY <1>2, <1>5

LEMMA NothingHasNoDomain == DOMAIN <<>> = {}
  OBVIOUS

LEMMA ComparisonStarts ==
  ASSUME ComparisonAssumption, ComparisonInit
  PROVE  ComparisonInv
<1>1. SidesAreCrawls
  <2>1. host \in [Side -> Host] /\ host["candidate"] = "prod"
    BY DEF ComparisonInit
  <2>2. source \in [Side -> Source]
    BY DEF ComparisonInit, ComparisonAssumption
  <2>3. ASSUME NEW s \in Side, NEW p \in Path
        PROVE  /\ site[s][p].kind \in {"page", "redirect", "failed"}
               /\ site[s][p].kind = "page" =>
                    site[s][p].body \in Body /\ site[s][p].mention \in BOOLEAN /\ site[s][p].links \subseteq Link
               /\ site[s][p].kind = "redirect" => site[s][p].to \in Path /\ site[s][site[s][p].to].kind = "page"
    <3>1. site[s][p] \in Answered \/ site[s][p] \in Redirect \/ site[s][p] \in Failed
      BY Zenon DEF ComparisonInit
    <3>2. \A x \in Answered : x.kind = "page" /\ x.body \in Body /\ x.mention \in BOOLEAN /\ x.links \subseteq Link
      BY DEF Answered, ComparisonAssumption
    <3>3. \A x \in Redirect : x.kind = "redirect" /\ x.to \in Path
      BY DEF Redirect
    <3>4. \A x \in Failed : x.kind = "failed"
      BY DEF Failed
    <3>5. site[s][p].kind = "redirect" => site[s][site[s][p].to].kind = "page"
      BY Zenon DEF ComparisonInit
    <3>6. QED
      BY <3>1, <3>2, <3>3, <3>4, <3>5
  <2>4. QED
    BY <2>1, <2>2, <2>3, Zenon DEF SidesAreCrawls
<1>2. DOMAIN byPath = Side /\ (\A s \in Side : byPath[s] = <<>>) /\ outcome = "" /\ session = <<>>
  BY DEF ComparisonInit
<1>3. SessionsAreTrue
  <2>1. DOMAIN session = {}
    BY <1>2, NothingHasNoDomain
  <2>2. QED
    BY <1>2, <2>1 DEF SessionsAreTrue, UrlMoves, ContentDifferences, SchemaComparison
<1>4. QED
  BY <1>1, <1>2, <1>3 DEF ComparisonInv

LEMMA SitesStay ==
  ASSUME UNCHANGED <<host, site, source>>
  PROVE  /\ SidesAreCrawls' = SidesAreCrawls
         /\ \A s, f : IsLoadOf(s, f)' <=> IsLoadOf(s, f)
<1>1. SidesAreCrawls' = SidesAreCrawls
  BY Zenon DEF SidesAreCrawls
<1>2. \A s, p : EndOf(s, p)' = EndOf(s, p) /\ TextAt(s, p)' = TextAt(s, p) /\ BodyAt(s, p)' = BodyAt(s, p)
  BY DEF EndOf, TextAt, BodyAt
<1>3. \A s, p : ArtifactLinks(s, p)' = ArtifactLinks(s, p)
  BY Zenon DEF ArtifactLinks, Resolved
<1>4. \A s, p, r : Faithful(s, p, r)' <=> Faithful(s, p, r)
  <2> SUFFICES ASSUME NEW s, NEW p, NEW r
               PROVE  Faithful(s, p, r)' <=> Faithful(s, p, r)
    OBVIOUS
  <2>1. /\ host' = host /\ site' = site /\ source' = source
        /\ TextAt(s, p)' = TextAt(s, p) /\ BodyAt(s, p)' = BodyAt(s, p) /\ ArtifactLinks(s, p)' = ArtifactLinks(s, p)
        /\ (\E q \in Path : r.requested = UrlAt(host[s], q) /\ EndOf(s, q) = p)' <=>
           \E q \in Path : r.requested = UrlAt(host[s], q) /\ EndOf(s, q) = p
    BY <1>2, <1>3, Zenon
  <2>2. QED
    BY ONLY <2>1, SMT DEF Faithful
<1>5. QED
  BY <1>1, <1>2, <1>4 DEF IsLoadOf

LEMMA SessionsStay ==
  ASSUME UNCHANGED <<host, site, source, session>>, SessionsAreTrue, outcome' = "refused" => session = <<>>
  PROVE  SessionsAreTrue'
<1>1. UrlMoves' = UrlMoves /\ ContentDifferences' = ContentDifferences /\ SchemaComparison' = SchemaComparison
  BY DEF UrlMoves, ContentDifferences, SchemaComparison
<1>2. \A s, p : BodyAt(s, p)' = BodyAt(s, p)
  BY DEF BodyAt
<1>3. QED
  BY <1>1, <1>2 DEF SessionsAreTrue

LEMMA ComparisonKeeps ==
  ASSUME ComparisonAssumption, ComparisonInv, [ComparisonNext]_comparisonVars
  PROVE  ComparisonInv'
<1>1. ASSUME NEW s \in Side, Load(s)
      PROVE  ComparisonInv'
  <2>1. /\ UNCHANGED <<host, site, source, replace, outcome, session>> /\ outcome = ""
    BY <1>1 DEF Load, IsNext
  <2>2. PICK f \in [{r.final.path : r \in Results(s)} -> Results(s)] :
           /\ \A p \in {r.final.path : r \in Results(s)} : f[p].final.path = p
           /\ byPath' = [byPath EXCEPT ![s] = f]
    BY <1>1 DEF Load
  <2>3. SidesAreCrawls /\ DOMAIN byPath = Side
    BY DEF ComparisonInv
  <2>4. IsLoadOf(s, f)
    BY <2>2, <2>3, LoadIsOfTheSite
  <2>5. DOMAIN byPath' = Side /\ \A t \in Side : (byPath'[t] = f /\ t = s) \/ byPath'[t] = byPath[t]
    BY <2>2, <2>3
  <2>6. \A t \in Side : byPath'[t] # <<>> => IsLoadOf(t, byPath'[t])
    BY <2>4, <2>5 DEF ComparisonInv
  <2>7. SidesAreCrawls' /\ \A t \in Side : \A g : IsLoadOf(t, g)' <=> IsLoadOf(t, g)
    BY <2>1, <2>3, SitesStay
  <2>8. SessionsAreTrue' /\ outcome' = "" /\ session' = <<>>
    BY <2>1, SessionsStay DEF ComparisonInv
  <2>9. \A t \in Side : byPath'[t] # <<>> => IsLoadOf(t, byPath[t])'
    BY <2>6, <2>7
  <2>10. QED
    BY <2>5, <2>7, <2>8, <2>9 DEF ComparisonInv
<1>2. ASSUME UNCHANGED <<host, site, source, byPath>>, SessionsAreTrue', outcome' = "" => session' = <<>>
      PROVE  ComparisonInv'
  <2>1. SidesAreCrawls' /\ \A t \in Side : \A g : IsLoadOf(t, g)' <=> IsLoadOf(t, g)
    BY <1>2, SitesStay DEF ComparisonInv
  <2>2. \A t \in Side : byPath'[t] # <<>> => IsLoadOf(t, byPath[t])'
    BY <1>2, <2>1 DEF ComparisonInv
  <2>3. QED
    BY <1>2, <2>1, <2>2 DEF ComparisonInv
<1>3. ASSUME NEW s \in Side, Refuse(s)
      PROVE  ComparisonInv'
  <2>1. UNCHANGED <<host, site, source, byPath, session>> /\ outcome = "" /\ outcome' = "refused"
    BY <1>3 DEF Refuse, IsNext
  <2>2. SessionsAreTrue'
    BY <2>1, SessionsStay DEF ComparisonInv
  <2>3. QED
    BY <1>2, <2>1, <2>2
<1>4. CASE Tell
  <2>1. /\ UNCHANGED <<host, site, source, byPath>> /\ Loaded
        /\ outcome' \in {"told", "saved"}
        /\ session' = session \/ session' = [p \in RowPaths |-> ComparisonRow(p)]
    BY <1>4 DEF Tell
  <2>2. CASE session' = session
    <3>1. SessionsAreTrue'
      BY <2>1, <2>2, SessionsStay DEF ComparisonInv
    <3>2. QED
      BY <1>2, <2>1, <3>1
  <2>3. CASE session' = [p \in RowPaths |-> ComparisonRow(p)]
    <3>1. DOMAIN session' = RowPaths /\ \A p \in RowPaths : session'[p] = ComparisonRow(p)
      BY <2>3
    <3>2. \A s, p : BodyAt(s, p)' = BodyAt(s, p)
      BY <2>1 DEF BodyAt
    <3>3. \A p \in UrlMoves' : site'["baseline"][p].kind = "redirect"
      <4>1. UrlMoves' = {p \in DOMAIN session' : session'[p].isMoved}
        BY DEF UrlMoves
      <4>2. QED
        BY <2>1, <3>1, <4>1, RowsAreTrue
    <3>4. \A p \in DOMAIN session' : \A s \in Side \ session'[p].exists : site'[s][p].kind = "redirect"
      BY <2>1, <3>1, RowsAreTrue
    <3>5. \A p \in ContentDifferences' \cup SchemaComparison' :
             \/ BodyAt("baseline", p) # BodyAt("candidate", p)
             \/ \E s \in Side : source[s].from = "store"
      <4>1. \A p \in ContentDifferences' \cup SchemaComparison' :
               /\ p \in DOMAIN session'
               /\ \/ session'[p].fields["baseline"] # session'[p].fields["candidate"]
                  \/ session'[p].schema["baseline"] # session'[p].schema["candidate"]
        BY DEF ContentDifferences, SchemaComparison
      <4>2. QED
        BY <2>1, <3>1, <4>1, RowsAreTrue
    <3>6. SessionsAreTrue'
      BY <2>1, <3>2, <3>3, <3>4, <3>5 DEF SessionsAreTrue
    <3>7. QED
      BY <1>2, <2>1, <3>6
  <2>4. QED
    BY <2>1, <2>2, <2>3
<1>5. CASE UNCHANGED comparisonVars
  <2>1. UNCHANGED <<host, site, source, byPath, outcome, session>>
    BY <1>5 DEF comparisonVars
  <2>2. SessionsAreTrue'
    BY <2>1, SessionsStay DEF ComparisonInv, SessionsAreTrue
  <2>3. QED
    BY <1>2, <2>1, <2>2 DEF ComparisonInv
<1>6. QED
  BY <1>1, <1>3, <1>4, <1>5 DEF ComparisonNext

\* For every two crawls, saved as artifacts or in the store: a copy of a site on another host
\* compares clean, verdicts do not depend on which side is the baseline, "identical" is said of
\* pages of one body, what the host alone changes is no difference unless it is reported as not
\* compared, and what is saved of a comparison is true of the two sites.
THEOREM ComparisonIsTrue ==
  ASSUME ComparisonAssumption
  PROVE  ComparisonSpec => [](/\ CopyIsClean /\ VerdictsAgree /\ IdenticalIsEqual
                              /\ NoiseIsReported /\ SessionsAreTrue)
<1>1. ComparisonInit => ComparisonInv
  BY ComparisonStarts
<1>2. ComparisonInv /\ [ComparisonNext]_comparisonVars => ComparisonInv'
  BY ComparisonKeeps
<1>3. ComparisonInv => /\ CopyIsClean /\ VerdictsAgree /\ IdenticalIsEqual
                       /\ NoiseIsReported /\ SessionsAreTrue
  BY CopiesAreClean, VerdictsAreOfBoth, IdenticalPagesAreEqual, HostsAreNoNoise DEF ComparisonInv
<1>4. QED
  BY <1>1, <1>2, <1>3, PTL DEF ComparisonSpec

=============================================================================
