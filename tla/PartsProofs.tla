---------------------------- MODULE PartsProofs ----------------------------
(*
Proofs about seven parts that run on their own: the frontier of a run,
for every set of URLs and every retry limit; the history of runs, for
every set of URLs, runs and models and every sequence of commands; the
launcher, for every set of requests and runs; the transactions of the
store, for every number of writers and everything they may write; the
browser's shared context, for every set of fetching tasks and every
max_requests_per_context; the list crawl over its proxies, for every
list, every pool and every worker limit; and the collection of current
sitemaps, for every site, every answer and every limit.
*)
EXTENDS Frontier, BrowserContext, ListCrawl, RunHistory, CrawlLauncher, StoreLocks, SiteFiles,
        FiniteSetTheorems, SequenceTheorems, WellFoundedInduction, TLAPS

\* The claims a step must keep: the types, a retry time only on queued rows,
\* and retry counts within frontier_max_retries.
FrontierInv == TypeOK /\ DeferredIsQueued /\ RetriesBounded

\* A new frontier has no rows.
LEMMA InitFrontier == Init => FrontierInv
BY FrontierAssumption DEF Init, FrontierInv, TypeOK, Status, DeferredIsQueued,
                          RetriesBounded, Rows

\* Rows are added, claimed, completed and put back without touching the claims.
LEMMA StepKeepsFrontier == FrontierInv /\ [Next]_frontierVars => FrontierInv'
<1> SUFFICES ASSUME FrontierInv, [Next]_frontierVars PROVE FrontierInv'
  OBVIOUS
<1> USE FrontierAssumption DEF FrontierInv, TypeOK, Status, DeferredIsQueued,
                               RetriesBounded, Rows
<1>1. ASSUME NEW urls \in SUBSET Url, EnqueueFrontier(urls) PROVE FrontierInv'
  BY <1>1 DEF EnqueueFrontier
<1>2. ASSUME NEW urls \in SUBSET Url, FrontierNextBatch(urls) PROVE FrontierInv'
  BY <1>2 DEF FrontierNextBatch, Claimable
<1>3. ASSUME NEW urls \in SUBSET Url, FrontierMarkDone(urls) PROVE FrontierInv'
  BY <1>3 DEF FrontierMarkDone
<1>4. ASSUME NEW url \in KnownRows, NEW count \in 1..MaxRetries,
             FrontierMarkRetry(url, count)
      PROVE  FrontierInv'
  BY <1>4 DEF FrontierMarkRetry, KnownRows
<1>5. ASSUME NEW url \in Url, RetryTimeComes(url) PROVE FrontierInv'
  BY <1>5 DEF RetryTimeComes
<1>6. CASE FrontierResetAllPending
  BY <1>6 DEF FrontierResetAllPending
<1>7. CASE UNCHANGED frontierVars
  BY <1>7 DEF frontierVars
<1>8. QED
  BY <1>1, <1>2, <1>3, <1>4, <1>5, <1>6, <1>7 DEF Next

\* The claims hold of every behaviour of the frontier.
THEOREM FrontierInvariant == Spec => []FrontierInv
BY InitFrontier, StepKeepsFrontier, PTL DEF Spec

\* No row carries a stale retry time or a count above frontier_max_retries.
THEOREM RetriesKeepTheRules == Spec => []RetryRules
<1>1. FrontierInv => RetryRules
  BY DEF FrontierInv, RetryRules
<1>2. QED
  BY FrontierInvariant, <1>1, PTL

--------------------
(*
The history of runs.
*)
JobRecord == [run : RunId \cup {"none"}, model : Model \cup {"none"},
              source : JobSource \cup {"none"}, todo : SUBSET RowType, failed : BOOLEAN]

\* The rows of a job are contents of its run and of their URLs, those of a
\* signature job the current signatures.
RowsAreOfTheJob ==
    job # NoJob =>
        \A row \in job.todo :
            /\ IsOf(row.content, job.run, row.url)
            /\ job.source = "signature" =>
                  row.content = signature[job.run][row.url] /\ row.hashed

\* What a signature job has not failed at has its vector or is still to do.
SignedIsDoneOrToDo ==
    job.source = "signature" /\ ~job.failed =>
        \A u \in PageUrl :
            \/ signature[job.run][u] = NoContent
            \/ HasVector(u)
            \/ Row(u, signature[job.run][u], TRUE) \in job.todo

\* Until the legacy projection has been made or missed, every page is an old one.
MigratesOldPages ==
    ~hasSnapshots \/ migrating => \A u \in PageUrl : IsOf(pages[u], Legacy, u)

HistoryInv ==
    /\ HistoryTypes
    /\ job \in JobRecord
    /\ HistoryIsOfItsRun
    /\ MigratesOldPages
    /\ RowsAreOfTheJob
    /\ SignedIsDoneOrToDo

--------------------
LEMMA ConstantsAreTyped ==
    /\ NoContent \in Content
    /\ NoSnapshot \in SnapshotType
    /\ NoEmbedding \in EmbeddingType
    /\ NoJob \in JobRecord
    /\ \A content \in Content, found \in SUBSET Source : Snapshot(content, found) \in SnapshotType
BY DEF NoContent, Content, NoSnapshot, SnapshotType, NoEmbedding, EmbeddingType, NoJob,
       JobRecord, Snapshot, RowType

LEMMA InitHistory == HistoryInit => HistoryInv
<1> SUFFICES ASSUME HistoryInit PROVE HistoryInv
  OBVIOUS
<1>1. PICK old \in Olds :
         /\ pages = [u \in PageUrl |-> IF u \in old THEN [url |-> u, run |-> Legacy, fetch |-> 0]
                                       ELSE NoContent]
         /\ edges = [u \in PageUrl |-> IF u \in old THEN {"page"} ELSE {}]
  BY DEF HistoryInit
<1>2. \A u \in PageUrl : [url |-> u, run |-> Legacy, fetch |-> 0] \in Content
  BY HistoryAssumption DEF Content, RunId
<1>3. pages \in [PageUrl -> Content] /\ edges \in [PageUrl -> SUBSET Source]
  BY <1>1, <1>2, ConstantsAreTyped DEF Source
<1>4. HistoryTypes /\ job \in JobRecord
  <2>1. job = NoJob /\ job \in JobRecord
    BY ConstantsAreTyped DEF HistoryInit
  <2>2. /\ snap \in [RunId -> [PageUrl -> SnapshotType]]
        /\ signature \in [RunId -> [PageUrl -> Content]]
        /\ embedding \in [RunId -> [PageUrl -> EmbeddingType]]
    BY ConstantsAreTyped DEF HistoryInit
  <2>3. commands \in 0..MaxCommands /\ active \in RunId /\ listed = {} /\ runRows = {}
        /\ hasSnapshots = FALSE /\ migrating = FALSE
    BY HistoryAssumption DEF HistoryInit, RunId
  <2>4. QED
    BY <1>3, <2>1, <2>2, <2>3 DEF HistoryTypes, JobRecord
<1>5. HistoryIsOfItsRun
  BY <1>1, ConstantsAreTyped
     DEF HistoryInit, HistoryIsOfItsRun, IsOf, NoSnapshot, NoEmbedding
<1>6. RowsAreOfTheJob /\ SignedIsDoneOrToDo
  BY DEF HistoryInit, RowsAreOfTheJob, SignedIsDoneOrToDo, NoJob
<1>7. MigratesOldPages
  BY <1>1 DEF MigratesOldPages, IsOf
<1>8. QED
  BY <1>4, <1>5, <1>6, <1>7 DEF HistoryInv

\* Between jobs nothing is claimed of a job.
LEMMA NoJobClaims ==
    ASSUME job' = NoJob
    PROVE  /\ job' \in JobRecord
           /\ RowsAreOfTheJob' /\ SignedIsDoneOrToDo'
           /\ job'.run \in RunId \cup {"none"} /\ job'.model \in Model \cup {"none"}
           /\ job'.source \in JobSource \cup {"none"}
           /\ job'.todo \subseteq RowType /\ job'.failed \in BOOLEAN
BY ConstantsAreTyped DEF RowsAreOfTheJob, SignedIsDoneOrToDo, NoJob, JobRecord

\* A command that is not an enrichment job leaves the job and its claims alone.
LEMMA OtherCommand ==
    ASSUME HistoryInv, UNCHANGED <<job, signature, embedding>>
    PROVE  /\ job' \in JobRecord
           /\ RowsAreOfTheJob' /\ SignedIsDoneOrToDo'
BY DEF HistoryInv, RowsAreOfTheJob, SignedIsDoneOrToDo, HasVector

\* initialize() gives old pages their legacy snapshot, or not.
LEMMA InitializeKeeps ==
    ASSUME HistoryInv, CreateSchema \/ ProjectLegacy \/ InitializeDies
    PROVE  HistoryInv'
<1>1. CASE CreateSchema \/ InitializeDies
  <2>1. /\ hasSnapshots' \in BOOLEAN /\ migrating' \in BOOLEAN
        /\ UNCHANGED <<runRows, active, commands, pageVars, snap, signature, embedding, job>>
    BY <1>1 DEF CreateSchema, InitializeDies, HasLegacyState, HistoryInv, HistoryTypes
  <2>2. HistoryTypes' /\ HistoryIsOfItsRun'
    BY <2>1 DEF HistoryInv, HistoryTypes, HistoryIsOfItsRun, pageVars
  <2>3. MigratesOldPages'
    BY <1>1 DEF CreateSchema, InitializeDies, HistoryInv, MigratesOldPages, pageVars
  <2>4. QED
    BY <2>1, <2>2, <2>3, OtherCommand DEF HistoryInv
<1>2. CASE ProjectLegacy
  <2>1. /\ migrating' = FALSE /\ runRows' = runRows \cup {Legacy}
        /\ snap' = [snap EXCEPT ![Legacy] = [u \in PageUrl |-> LegacyRow(u)]]
        /\ UNCHANGED <<hasSnapshots, active, commands, pages, edges, listed, signature,
                       embedding, job>>
    BY <1>2 DEF ProjectLegacy, pageVars
  <2>2. Legacy \in RunId
    BY DEF RunId
  <2>3. /\ snap \in [RunId -> [PageUrl -> SnapshotType]]
        /\ \A u \in PageUrl : pages[u] \in Content /\ edges[u] \in SUBSET Source
    BY DEF HistoryInv, HistoryTypes
  <2>4. \A u \in PageUrl : LegacyRow(u) \in SnapshotType
    BY <2>2, <2>3, ConstantsAreTyped DEF LegacyRow
  <2>5. HistoryTypes'
    BY <2>1, <2>2, <2>3, <2>4 DEF HistoryInv, HistoryTypes
  <2>6. \A u \in PageUrl : IsOf(snap'[Legacy][u].content, Legacy, u)
    <3> SUFFICES ASSUME NEW u \in PageUrl
                 PROVE  IsOf(LegacyRow(u).content, Legacy, u)
      BY <2>1, <2>2, <2>3
    <3>1. IsOf(pages[u], Legacy, u)
      BY <1>2 DEF ProjectLegacy, HistoryInv, MigratesOldPages
    <3>2. IsOf(snap[Legacy][u].content, Legacy, u)
      BY <2>2 DEF HistoryInv, HistoryIsOfItsRun
    <3>3. QED
      BY <3>1, <3>2 DEF LegacyRow, Snapshot
  <2>7. HistoryIsOfItsRun'
    BY <2>1, <2>2, <2>3, <2>6 DEF HistoryInv, HistoryIsOfItsRun
  <2>8. MigratesOldPages'
    BY <1>2, <2>1 DEF ProjectLegacy, HistoryInv, MigratesOldPages
  <2>9. QED
    BY <2>1, <2>5, <2>7, <2>8, OtherCommand DEF HistoryInv
<1>3. QED
  BY <1>1, <1>2

--------------------
\* The commands of a crawl.
LEMMA CallIsTyped ==
    ASSUME HistoryInv, Call
    PROVE  /\ commands' \in 0..MaxCommands /\ commands' = commands + 1
           /\ hasSnapshots /\ ~migrating /\ job = NoJob
BY HistoryAssumption DEF HistoryInv, HistoryTypes, Call, IsReady

LEMMA RunCommandsKeep ==
    ASSUME HistoryInv, NEW r \in Run, CreateCrawlRun(r) \/ ResumeCrawlRun(r)
    PROVE  HistoryInv'
<1>1. /\ Call /\ r \in RunId
      /\ runRows' \subseteq runRows \cup {r} /\ active' = r
      /\ UNCHANGED <<hasSnapshots, migrating, pages, edges, listed, snap, signature,
                     embedding, job>>
  BY DEF CreateCrawlRun, ResumeCrawlRun, RunId, databaseVars, pageVars
<1>2. commands' \in 0..MaxCommands
  BY <1>1, CallIsTyped
<1>3. HistoryTypes'
  BY <1>1, <1>2 DEF HistoryInv, HistoryTypes
<1>4. HistoryIsOfItsRun' /\ MigratesOldPages'
  BY <1>1 DEF HistoryInv, HistoryIsOfItsRun, MigratesOldPages
<1>5. QED
  BY <1>1, <1>3, <1>4, OtherCommand DEF HistoryInv

LEMMA SitemapEdgesKeep ==
    ASSUME HistoryInv, NEW u \in PageUrl, PersistSitemapHreflang(u)
    PROVE  HistoryInv'
BY CallIsTyped, OtherCommand DEF PersistSitemapHreflang, databaseVars, HistoryInv, HistoryTypes,
   Source, HistoryIsOfItsRun, MigratesOldPages

LEMMA PersistBareKeeps ==
    ASSUME HistoryInv, NEW u \in PageUrl, PersistBare(u)
    PROVE  HistoryInv'
<1>1. /\ Call /\ runRows' = runRows \cup {active}
      /\ snap' = [snap EXCEPT ![active][u] = Snapshot(NoContent, {})]
      /\ UNCHANGED <<hasSnapshots, migrating, active, pages, edges, listed, signature,
                     embedding, job>>
  BY DEF PersistBare, databaseVars, pageVars
<1>2. commands' \in 0..MaxCommands
  BY <1>1, CallIsTyped
<1>3. Snapshot(NoContent, {}) \in SnapshotType
  BY ConstantsAreTyped
<1>4. active \in RunId /\ snap \in [RunId -> [PageUrl -> SnapshotType]]
  BY DEF HistoryInv, HistoryTypes
<1>5. HistoryTypes'
  BY <1>1, <1>2, <1>3, <1>4 DEF HistoryInv, HistoryTypes
<1>6. IsOf(Snapshot(NoContent, {}).content, active, u)
  BY DEF IsOf, Snapshot
<1>7. HistoryIsOfItsRun' /\ MigratesOldPages'
  BY <1>1, <1>4, <1>6 DEF HistoryInv, HistoryIsOfItsRun, MigratesOldPages
<1>8. QED
  BY <1>1, <1>5, <1>7, OtherCommand DEF HistoryInv

\* What a redirect served is stored under the URL that served it.
LEMMA PersistPageKeeps ==
    ASSUME HistoryInv, NEW requested \in PageUrl, NEW final \in PageUrl,
           PersistPage(requested, final)
    PROVE  HistoryInv'
<1> DEFINE content == [url |-> final, run |-> active, fetch |-> commands + 1]
           mine == [snap[active] EXCEPT ![final] = Snapshot(content, {"page"})]
<1>1. /\ Call /\ runRows' = runRows \cup {active}
      /\ pages' = [pages EXCEPT ![final] = content]
      /\ edges' = [edges EXCEPT ![final] = {"page"}]
      /\ snap' = [snap EXCEPT ![active] =
                     IF final = requested THEN mine
                     ELSE [mine EXCEPT ![requested] = Snapshot(NoContent, {})]]
      /\ UNCHANGED <<hasSnapshots, migrating, active, listed, signature, embedding, job>>
  BY DEF PersistPage, ContentUrl, databaseVars
<1>2. commands' \in 0..MaxCommands /\ commands' = commands + 1 /\ hasSnapshots /\ ~migrating
  BY <1>1, CallIsTyped
<1>3. /\ active \in RunId /\ snap \in [RunId -> [PageUrl -> SnapshotType]]
      /\ pages \in [PageUrl -> Content] /\ edges \in [PageUrl -> SUBSET Source]
  BY DEF HistoryInv, HistoryTypes
<1>4. content \in Content /\ content.url = final /\ content.run = active
  BY <1>2, <1>3 DEF Content
<1> HIDE DEF content
<1>5. /\ Snapshot(content, {"page"}) \in SnapshotType
      /\ Snapshot(NoContent, {}) \in SnapshotType
  BY <1>4, ConstantsAreTyped DEF Source
<1>6. mine \in [PageUrl -> SnapshotType]
  BY <1>3, <1>5
<1>7. \A u \in PageUrl : IsOf(mine[u].content, active, u)
  BY <1>3, <1>4 DEF HistoryInv, HistoryIsOfItsRun, IsOf, Snapshot
<1> HIDE DEF mine
<1>8. snap' \in [RunId -> [PageUrl -> SnapshotType]]
  BY <1>1, <1>3, <1>5, <1>6
<1>9. HistoryTypes'
  BY <1>1, <1>2, <1>3, <1>4, <1>8 DEF HistoryInv, HistoryTypes, Source
<1>10. \A u \in PageUrl : IsOf(snap'[active][u].content, active, u)
  BY <1>1, <1>3, <1>6, <1>7 DEF IsOf, Snapshot
<1>11. \A r \in RunId : r # active => snap'[r] = snap[r]
  BY <1>1, <1>3
<1>12. HistoryIsOfItsRun'
  BY <1>1, <1>3, <1>4, <1>10, <1>11 DEF HistoryInv, HistoryIsOfItsRun
<1>13. MigratesOldPages'
  BY <1>1, <1>2 DEF MigratesOldPages
<1>14. QED
  BY <1>1, <1>9, <1>12, <1>13, OtherCommand DEF HistoryInv

--------------------
\* The enrichment commands.
LEMMA BackfillKeeps ==
    ASSUME HistoryInv, NEW r \in RunId, BackfillSignatures(r)
    PROVE  HistoryInv'
<1>1. /\ Call /\ job = NoJob
      /\ signature' = [signature EXCEPT ![r] = [u \in PageUrl |-> SignedContent(r, u)]]
      /\ UNCHANGED <<hasSnapshots, migrating, runRows, active, pages, edges, listed, snap,
                     embedding, job>>
  BY DEF BackfillSignatures, databaseVars, pageVars, Call, IsReady
<1>2. commands' \in 0..MaxCommands
  BY <1>1, CallIsTyped
<1>3. \A u \in PageUrl : SignedContent(r, u) \in Content
                        /\ IsOf(SignedContent(r, u), r, u)
  BY DEF HistoryInv, HistoryTypes, SnapshotType, HistoryIsOfItsRun, SignedContent
<1>4. HistoryTypes'
  BY <1>1, <1>2, <1>3 DEF HistoryInv, HistoryTypes
<1>5. HistoryIsOfItsRun' /\ MigratesOldPages'
  BY <1>1, <1>3 DEF HistoryInv, HistoryTypes, HistoryIsOfItsRun, MigratesOldPages
<1>6. job' = NoJob
  BY <1>1
<1>7. QED
  BY <1>4, <1>5, <1>6, NoJobClaims DEF HistoryInv

\* The rows of a new job: what is of its run, and each signature without its
\* vector.
LEMMA RowsOfJob ==
    ASSUME HistoryInv, NEW r \in RunId, NEW m \in Model, NEW source \in JobSource,
           NEW force \in BOOLEAN
    PROVE  /\ RowsOf(source, r, m, force) \subseteq RowType
           /\ \A row \in RowsOf(source, r, m, force) :
                 /\ IsOf(row.content, r, row.url)
                 /\ source = "signature" => row.content = signature[r][row.url] /\ row.hashed
<1>1. \A u \in PageUrl :
         /\ signature[r][u] \in Content /\ IsOf(signature[r][u], r, u)
         /\ snap[r][u].content \in Content /\ IsOf(snap[r][u].content, r, u)
  BY DEF HistoryInv, HistoryTypes, SnapshotType, HistoryIsOfItsRun
<1> SUFFICES ASSUME NEW row \in RowsOf(source, r, m, force)
             PROVE  /\ row \in RowType /\ IsOf(row.content, r, row.url)
                    /\ source = "signature" => row.content = signature[r][row.url] /\ row.hashed
  OBVIOUS
<1>2. CASE source = "signature"
  <2>1. PICK u \in PageUrl : row = Row(u, signature[r][u], TRUE)
    BY <1>2 DEF RowsOf, SignatureRows
  <2>2. row.url = u /\ row.content = signature[r][u] /\ row.hashed = TRUE
    BY <2>1 DEF Row
  <2>3. row \in RowType
    BY <1>1, <2>1 DEF Row, RowType
  <2>4. QED
    BY <1>1, <2>2, <2>3
<1>3. CASE source = "page-text"
  <2>1. PICK u \in PageUrl : row = Row(u, snap[r][u].content, FALSE)
    BY <1>3 DEF RowsOf, PageTextRows, WithText
  <2>2. row.url = u /\ row.content = snap[r][u].content
    BY <2>1 DEF Row
  <2>3. row \in RowType
    BY <1>1, <2>1 DEF Row, RowType
  <2>4. QED
    BY <1>1, <1>3, <2>2, <2>3
<1>4. CASE source = "openai"
  <2>1. PICK u \in PageUrl : row = Row(u, snap[r][u].content, FALSE)
    BY <1>4 DEF RowsOf, RemoteRows, WithText
  <2>2. row.url = u /\ row.content = snap[r][u].content
    BY <2>1 DEF Row
  <2>3. row \in RowType
    BY <1>1, <2>1 DEF Row, RowType
  <2>4. QED
    BY <1>1, <1>4, <2>2, <2>3
<1>5. QED
  BY <1>2, <1>3, <1>4 DEF JobSource

LEMMA BeginJobKeeps ==
    ASSUME HistoryInv, NEW r \in RunId, NEW m \in Model, NEW source \in JobSource,
           NEW force \in BOOLEAN, BeginJob(r, m, source, force)
    PROVE  HistoryInv'
<1> DEFINE todo == RowsOf(source, r, m, force)
<1>1. /\ Call
      /\ job' = [run |-> r, model |-> m, source |-> source, todo |-> todo, failed |-> FALSE]
      /\ UNCHANGED <<hasSnapshots, migrating, runRows, active, pages, edges, listed, snap,
                     signature, embedding>>
  BY DEF BeginJob, databaseVars, pageVars
<1>2. commands' \in 0..MaxCommands
  BY <1>1, CallIsTyped
<1>3. /\ todo \subseteq RowType
      /\ \A row \in todo :
            /\ IsOf(row.content, r, row.url)
            /\ source = "signature" => row.content = signature[r][row.url] /\ row.hashed
  BY RowsOfJob
<1>4. SignedIsDoneOrToDo'
  BY <1>1 DEF SignedIsDoneOrToDo, HasVector, RowsOf, SignatureRows, IsEmbedded
<1> HIDE DEF todo
<1>5. HistoryTypes' /\ job' \in JobRecord
  BY <1>1, <1>2, <1>3 DEF HistoryInv, HistoryTypes, JobRecord
<1>6. RowsAreOfTheJob'
  BY <1>1, <1>3 DEF RowsAreOfTheJob
<1>7. HistoryIsOfItsRun' /\ MigratesOldPages'
  BY <1>1 DEF HistoryInv, HistoryIsOfItsRun, MigratesOldPages
<1>8. QED
  BY <1>4, <1>5, <1>6, <1>7 DEF HistoryInv

\* A vector is stored under the run, the URL and the content of its row.
LEMMA StoreEmbeddingKeeps ==
    ASSUME HistoryInv, NEW row \in job.todo, StoreEmbedding(row)
    PROVE  HistoryInv'
<1>1. job # NoJob /\ job \in JobRecord /\ job.run \in RunId
  BY DEF NoJob, HistoryInv, HistoryTypes
<1>2. /\ row \in RowType /\ row.url \in PageUrl /\ row.content \in Content
      /\ row.hashed \in BOOLEAN
  BY DEF HistoryInv, HistoryTypes, RowType
<1>3. /\ job' \in JobRecord /\ job'.run = job.run /\ job'.model = job.model
      /\ job'.source = job.source /\ job'.todo = job.todo \ {row}
      /\ ~job'.failed => ~job.failed
      /\ UNCHANGED <<hasSnapshots, migrating, runRows, active, commands, pages, edges,
                     listed, snap, signature>>
  BY <1>1 DEF StoreEmbedding, JobRecord, databaseVars, pageVars
<1>4. MigratesOldPages'
  BY <1>3 DEF HistoryInv, MigratesOldPages
<1>5. CASE UNCHANGED embedding /\ job'.failed
  <2>1. HistoryTypes'
    BY <1>1, <1>3, <1>5 DEF HistoryInv, HistoryTypes, JobRecord
  <2>2. HistoryIsOfItsRun' /\ RowsAreOfTheJob' /\ SignedIsDoneOrToDo'
    BY <1>1, <1>3, <1>5
       DEF HistoryInv, HistoryIsOfItsRun, RowsAreOfTheJob, SignedIsDoneOrToDo
  <2>3. QED
    BY <1>3, <1>4, <2>1, <2>2 DEF HistoryInv
<1>6. CASE embedding' = [embedding EXCEPT ![job.run][row.url] =
                            [of |-> row.content, model |-> job.model, hashed |-> row.hashed]]
  <2> DEFINE vector == [of |-> row.content, model |-> job.model, hashed |-> row.hashed]
  <2>1. embedding \in [RunId -> [PageUrl -> EmbeddingType]]
    BY DEF HistoryInv, HistoryTypes
  <2>2. vector \in EmbeddingType /\ vector.of = row.content /\ vector.model = job.model
    BY <1>1, <1>2 DEF EmbeddingType, JobRecord
  <2> HIDE DEF vector
  <2>3. /\ embedding' \in [RunId -> [PageUrl -> EmbeddingType]]
        /\ embedding'[job.run][row.url] = vector
        /\ \A r \in RunId, u \in PageUrl :
              r # job.run \/ u # row.url => embedding'[r][u] = embedding[r][u]
    BY <1>1, <1>2, <1>6, <2>1, <2>2 DEF vector
  <2>4. HistoryTypes'
    BY <1>1, <1>3, <2>3 DEF HistoryInv, HistoryTypes, JobRecord
  <2>5. IsOf(row.content, job.run, row.url)
    BY <1>1 DEF HistoryInv, RowsAreOfTheJob
  <2>6. HistoryIsOfItsRun'
    BY <1>3, <2>2, <2>3, <2>5 DEF HistoryInv, HistoryIsOfItsRun
  <2>7. RowsAreOfTheJob'
    BY <1>1, <1>3 DEF HistoryInv, RowsAreOfTheJob
  <2>8. SignedIsDoneOrToDo'
    BY <1>1, <1>3, <2>2, <2>3 DEF SignedIsDoneOrToDo, HasVector, HistoryInv, RowsAreOfTheJob, Row
  <2>9. QED
    BY <1>3, <1>4, <2>4, <2>6, <2>7, <2>8 DEF HistoryInv
<1>7. job'.failed \/ embedding' = [embedding EXCEPT ![job.run][row.url] =
                            [of |-> row.content, model |-> job.model, hashed |-> row.hashed]]
  BY <1>1 DEF StoreEmbedding, JobRecord
<1>8. QED
  BY <1>1, <1>5, <1>6, <1>7 DEF StoreEmbedding, JobRecord

LEMMA EndJobKeeps ==
    ASSUME HistoryInv, EndJob PROVE HistoryInv'
BY NoJobClaims DEF EndJob, databaseVars, pageVars, HistoryInv, HistoryTypes, HistoryIsOfItsRun,
   MigratesOldPages

LEMMA PurgeKeeps ==
    ASSUME HistoryInv, NEW r \in RunId, PurgeRunSnapshotHtml(r)
    PROVE  HistoryInv'
<1>1. /\ Call
      /\ snap' = [snap EXCEPT ![r] = [u \in PageUrl |-> [snap[r][u] EXCEPT !.html = FALSE]]]
      /\ UNCHANGED <<hasSnapshots, migrating, runRows, active, pages, edges, listed,
                     signature, embedding, job>>
  BY DEF PurgeRunSnapshotHtml, databaseVars, pageVars
<1>2. commands' \in 0..MaxCommands
  BY <1>1, CallIsTyped
<1>3. snap \in [RunId -> [PageUrl -> SnapshotType]]
  BY DEF HistoryInv, HistoryTypes
<1>4. \A u \in PageUrl : /\ [snap[r][u] EXCEPT !.html = FALSE] \in SnapshotType
                        /\ [snap[r][u] EXCEPT !.html = FALSE].content = snap[r][u].content
  <2>1. \A s \in SnapshotType : /\ [s EXCEPT !.html = FALSE] \in SnapshotType
                               /\ [s EXCEPT !.html = FALSE].content = s.content
    BY DEF SnapshotType
  <2>2. QED
    BY <1>3, <2>1
<1>5. HistoryTypes'
  BY <1>1, <1>2, <1>3, <1>4 DEF HistoryInv, HistoryTypes
<1>6. HistoryIsOfItsRun' /\ MigratesOldPages'
  BY <1>1, <1>3, <1>4 DEF HistoryInv, HistoryIsOfItsRun, MigratesOldPages
<1>7. QED
  BY <1>1, <1>5, <1>6, OtherCommand DEF HistoryInv

LEMMA TruncateKeeps ==
    ASSUME HistoryInv, TruncateCrawlTables PROVE HistoryInv'
<1>1. /\ Call /\ job' = NoJob /\ runRows' = {} /\ listed' = {}
      /\ pages' = [u \in PageUrl |-> NoContent] /\ edges' = [u \in PageUrl |-> {}]
      /\ snap' = [r \in RunId |-> [u \in PageUrl |-> NoSnapshot]]
      /\ signature' = [r \in RunId |-> [u \in PageUrl |-> NoContent]]
      /\ embedding' = [r \in RunId |-> [u \in PageUrl |-> NoEmbedding]]
      /\ UNCHANGED <<hasSnapshots, migrating, active>>
  BY DEF TruncateCrawlTables, databaseVars, Call, IsReady
<1>2. commands' \in 0..MaxCommands
  BY <1>1, CallIsTyped
<1>3. HistoryTypes'
  BY <1>1, <1>2, ConstantsAreTyped, NoJobClaims DEF HistoryInv, HistoryTypes
<1>4. HistoryIsOfItsRun' /\ MigratesOldPages'
  BY <1>1 DEF HistoryIsOfItsRun, MigratesOldPages, IsOf, NoSnapshot, NoEmbedding
<1>5. QED
  BY <1>1, <1>3, <1>4, NoJobClaims DEF HistoryInv

LEMMA HistoryStepKeeps ==
    ASSUME HistoryInv, [HistoryNext]_historyVars PROVE HistoryInv'
<1>1. CASE UNCHANGED historyVars
  BY <1>1 DEF historyVars, databaseVars, pageVars, HistoryInv, HistoryTypes,
              HistoryIsOfItsRun, MigratesOldPages, RowsAreOfTheJob, SignedIsDoneOrToDo,
              HasVector
<1>2. CASE Crawl
  BY <1>2, RunCommandsKeep, SitemapEdgesKeep, PersistBareKeeps, PersistPageKeeps DEF Crawl
<1>3. CASE Enrich
  BY <1>3, BackfillKeeps, PurgeKeeps, BeginJobKeeps, StoreEmbeddingKeeps, EndJobKeeps
     DEF Enrich
<1>4. QED
  BY <1>1, <1>2, <1>3, InitializeKeeps, TruncateKeeps DEF HistoryNext

LEMMA HistoryInvariant == HistorySpec => []HistoryInv
<1>1. HistoryInit => HistoryInv
  BY InitHistory
<1>2. HistoryInv /\ [HistoryNext]_historyVars => HistoryInv'
  BY HistoryStepKeeps
<1>3. QED
  BY <1>1, <1>2, PTL DEF HistorySpec

--------------------
\* For every set of URLs, runs and models and every sequence of commands, the
\* pages, snapshots, signatures and vectors of a run and a URL come from a fetch
\* of that run that the URL served.
THEOREM ContentsAreOfTheirRun == HistorySpec => []HistoryIsOfItsRun
<1>1. HistoryInv => HistoryIsOfItsRun
  BY DEF HistoryInv
<1>2. QED
  BY <1>1, HistoryInvariant, PTL

\* A signature job that ends without a failure leaves a vector of its model for
\* every current signature of its run.
THEOREM SignatureJobsAreComplete == HistorySpec => []JobsRefreshWhatIsStale
<1>1. HistoryInv => JobsRefreshWhatIsStale
  BY DEF HistoryInv, SignedIsDoneOrToDo, JobsRefreshWhatIsStale
<1>2. QED
  BY <1>1, HistoryInvariant, PTL

\* Nothing but the deletion of the crawl takes the last content of a page away.
THEOREM ContentOutlivesFailures == HistorySpec => PagesSurviveFailures
<1> DEFINE Survives ==
        \A u \in PageUrl : pages[u] # NoContent /\ runRows' # {} => pages'[u] # NoContent
<1>1. HistoryInv /\ [HistoryNext]_historyVars => [Survives]_historyVars
  <2> SUFFICES ASSUME HistoryInv, HistoryNext PROVE Survives
    OBVIOUS
  <2>1. CASE UNCHANGED pages
    BY <2>1
  <2>2. CASE TruncateCrawlTables
    BY <2>2 DEF TruncateCrawlTables
  <2>3. ASSUME NEW requested \in PageUrl, NEW final \in PageUrl,
               PersistPage(requested, final)
        PROVE  Survives
    BY <2>3 DEF HistoryInv, HistoryTypes, NoContent, PersistPage, ContentUrl
  <2>4. QED
    BY <2>1, <2>2, <2>3
       DEF HistoryNext, CreateSchema, ProjectLegacy, InitializeDies, Crawl, CreateCrawlRun,
           ResumeCrawlRun, PersistSitemapHreflang, PersistBare, Enrich, BackfillSignatures,
           PurgeRunSnapshotHtml, BeginJob, StoreEmbedding, EndJob, pageVars
<1>2. QED
  BY <1>1, HistoryInvariant, PTL DEF HistorySpec, PagesSurviveFailures

\* What a report of a run reads is of that run, whole when a job says so, and
\* outlives later failures, for every sequence of commands.
THEOREM HistoriesAreSound == HistorySpec => HistoryIsSound
BY ContentsAreOfTheirRun, SignatureJobsAreComplete, ContentOutlivesFailures, PTL DEF HistoryIsSound

--------------------
(*
The launcher: a request that is being spawned, and a process at work,
belong to the active job, whose state is still "running".
*)
AtWorkIsActive ==
    \A j \in Job : j \in AtWork => activeId = j /\ jobState[j] = "running"

\* A process is that of an accepted request, and a watcher that of a process.
ProcessesAreAccepted ==
    \A j \in Job : /\ process[j] # "none" => request[j] = "accepted"
                   /\ j \in watched => process[j] # "none"

LauncherInv == LauncherTypes /\ AtWorkIsActive /\ ProcessesAreAccepted

\* No request, no process.
LEMMA InitLauncher == LauncherInit => LauncherInv
BY DEF LauncherInit, LauncherInv, LauncherTypes, AtWorkIsActive, ProcessesAreAccepted,
       AtWork, Requests

\* Only an idle launcher reserves its slot.
LEMMA ReserveKeeps ==
    ASSUME LauncherInv, NEW j \in Job, NEW from \in {"none", "planned"},
           NEW to \in {"spawning", "resuming"}, ReserveOrRefuse(j, from, to),
           UNCHANGED <<runStatus, runWork, process, watched>>
    PROVE  LauncherInv'
<1> USE DEF LauncherInv
<1>1. /\ process[j] = "none" /\ j \notin watched
      /\ request[j] = from /\ UNCHANGED jobRun
  BY DEF ReserveOrRefuse, Handler, ProcessesAreAccepted
<1>2. CASE IsBusy
  BY <1>1, <1>2 DEF ReserveOrRefuse, Handler, LauncherTypes, Requests, AtWorkIsActive, AtWork,
     ProcessesAreAccepted
<1>3. CASE ~IsBusy
  <2>1. /\ request' = [request EXCEPT ![j] = to] /\ activeId' = j
        /\ jobState' = [jobState EXCEPT ![j] = "running"]
    BY <1>3 DEF ReserveOrRefuse, Handler
  <2>2. \A i \in Job : i \notin AtWork
    BY <1>3 DEF IsBusy, AtWorkIsActive
  <2>3. LauncherTypes'
    BY <1>1, <2>1 DEF LauncherTypes, Requests
  <2>4. \A i \in Job : i \in AtWork' => i = j
    BY <2>1, <2>2 DEF LauncherTypes, AtWork
  <2>5. AtWorkIsActive'
    BY <2>1, <2>4 DEF LauncherTypes, AtWorkIsActive
  <2>6. ProcessesAreAccepted'
    BY <1>1, <2>1 DEF LauncherTypes, ProcessesAreAccepted
  <2>7. QED
    BY <2>3, <2>5, <2>6
<1>4. QED
  BY <1>2, <1>3

LEMMA LauncherStepKeeps == LauncherInv /\ [LauncherNext]_launcherVars => LauncherInv'
<1> SUFFICES ASSUME LauncherInv, [LauncherNext]_launcherVars PROVE LauncherInv'
  OBVIOUS
<1> USE DEF LauncherInv, LauncherTypes, AtWorkIsActive, ProcessesAreAccepted, AtWork
<1>1. ASSUME NEW j \in Job, Start(j) \/ Resume(j) PROVE LauncherInv'
  BY <1>1, ReserveKeeps DEF Start, Resume
<1>2. ASSUME NEW j \in Job, ReadRow(j) \/ ReadCounts(j) PROVE LauncherInv'
  BY <1>2 DEF ReadRow, ReadCounts, Handler, Requests
<1>3. ASSUME NEW j \in Job, Spawned(j) PROVE LauncherInv'
  BY <1>3 DEF Spawned, Handler, Requests
<1>4. ASSUME NEW j \in Job, SpawnFails(j) PROVE LauncherInv'
  BY <1>4 DEF SpawnFails, Handler, Requests
<1>5. ASSUME NEW j \in Job, Begin(j) PROVE LauncherInv'
  BY <1>5 DEF Begin, Becomes
<1>6. ASSUME NEW j \in Job, End(j) PROVE LauncherInv'
  BY <1>6 DEF End, Becomes
<1>7. ASSUME NEW j \in Job, WatchEnds(j) PROVE LauncherInv'
  BY <1>7 DEF WatchEnds
<1>8. ASSUME NEW j \in Job, WatchRaises(j) PROVE LauncherInv'
  BY <1>8 DEF WatchRaises
<1>9. CASE UNCHANGED launcherVars
  BY <1>9 DEF launcherVars
<1>10. QED
  BY <1>1, <1>2, <1>3, <1>4, <1>5, <1>6, <1>7, <1>8, <1>9 DEF LauncherNext

\* However many requests, plans and spawns overlap, and whatever becomes of a
\* watcher, CrawlLauncher has one process at most being spawned or at work.
THEOREM OneProcessAtATime == LauncherSpec => []OneAtATime
<1>1. LauncherInv => OneAtATime
  BY DEF LauncherInv, AtWorkIsActive, OneAtATime, AtWork
<1>2. LauncherSpec => []LauncherInv
  BY InitLauncher, LauncherStepKeeps, PTL DEF LauncherSpec
<1>3. QED
  BY <1>1, <1>2, PTL

--------------------
(*
The transactions of the store.
*)
\* The row is there for t: committed, or inserted by t itself.
Present(t, r) == rowState[r] = "stored" \/ (Inserting(r) /\ rowHolder[r] = t)

\* A transaction that is not running holds nothing.
IdleHoldNothing ==
    \A t \in Writer :
        /\ stage[t] \in {"waiting", "stored", "failed"} =>
              \A r \in SharedRow : rowHolder[r] # t
        /\ stage[t] \in {"waiting", "touching", "stored", "failed"} => at[t] = 1

\* Only a page has links and values to resolve, after its last upsert.
StagesOfPages ==
    \A t \in Writer :
        /\ stage[t] \in {"linking", "valuing"} => write[t].kind = "page"
        /\ write[t].kind = "page" /\ stage[t] \in {"linking", "valuing", "written"} =>
              at[t] = Len(write[t].order) + 1
        /\ at[t] \in 1 .. Len(write[t].order) + 1

\* Every row that a transaction has upserted is locked by it.
UpsertsAreHeld ==
    \A t \in Writer :
        stage[t] \in {"updating", "linking", "valuing", "written"} =>
            \A i \in DOMAIN write[t].order : i < at[t] => rowHolder[write[t].order[i]] = t

\* What a page's pre-touch has passed is there.
TouchedArePresent ==
    \A t \in Writer :
        /\ stage[t] = "touching" => \A r \in PreTouched(write[t]) \ toInsert[t] : Present(t, r)
        /\ write[t].kind = "page" /\ stage[t] \in {"updating", "linking", "valuing", "written"} =>
              \A r \in PreTouched(write[t]) : Present(t, r)

\* URLs come before values.
UrlsBeforeValues ==
    \A t \in Writer :
        /\ stage[t] \in {"touching", "updating", "linking"} =>
              \A r \in SharedRow : rowHolder[r] = t => r \in UrlRow
        /\ stage[t] = "touching" => toInsert[t] \subseteq PreTouched(write[t])
        /\ stage[t] = "linking" => toInsert[t] \subseteq write[t].links
        /\ stage[t] = "valuing" => toInsert[t] \subseteq write[t].values

\* A bulk statement has inserted nothing beyond the rows it has still to insert.
InsertedBelow ==
    \A t \in Writer : stage[t] \in Bulk =>
        \A r \in SharedRow : Inserting(r) /\ rowHolder[r] = t =>
            \A q \in toInsert[t] : r < q \/ Present(t, q)

\* The links of a page are all in the answer to its second statement.
LinksAreSeen ==
    \A t \in Writer :
        /\ stage[t] = "linking" => write[t].links \subseteq seen[t]
        /\ write[t].kind = "page" => unresolved[t] \cap write[t].links = {}

\* Only a row that exists is held; an inserted one is held by its inserter.
HeldRowsExist ==
    \A r \in SharedRow :
        /\ rowState[r] = "absent" => rowHolder[r] = NoWriter
        /\ Inserting(r) => rowHolder[r] \in Writer

LocksInv ==
    /\ LocksTypes /\ HeldRowsExist /\ IdleHoldNothing /\ StagesOfPages /\ UpsertsAreHeld /\ TouchedArePresent
    /\ UrlsBeforeValues /\ InsertedBelow /\ LinksAreSeen

\* The least row of a set of natural numbers is below all others.
LEMMA LeastRow ==
    ASSUME NEW S \in SUBSET SharedRow, S # {}
    PROVE  Least(S) \in S /\ \A q \in S : Least(S) <= q
<1>1. S \subseteq Nat
  BY LocksAssumption DEF SharedRow
<1> DEFINE R == {ss \in Nat \X Nat : ss[1] < ss[2]}
<1>2. IsWellFoundedOn(R, Nat)
  BY NatLessThanWellFounded DEF OpToRel
<1> HIDE DEF R
<1>3. PICK m \in S : \A q \in S : ~(<<q, m>> \in R)
  BY <1>1, <1>2, WFMin
<1>4. ASSUME NEW q \in S
      PROVE  m <= q
  <2>1. m \in Nat /\ q \in Nat /\ <<q, m>> \in Nat \X Nat
    BY <1>1
  <2>2. <<q, m>> \in R <=> q < m
    BY <2>1, Zenon DEF R
  <2>3. QED
    BY <1>3, <2>1, <2>2
<1>5. QED
  BY <1>4 DEF Least

\* What a writer writes, as the types of its parts.
LEMMA WriteShapes ==
    ASSUME LocksTypes, NEW t \in Writer
    PROVE  /\ write[t].order \in Seq(UrlRow)
           /\ write[t].links \subseteq UrlRow /\ write[t].values \subseteq ValueRow
           /\ write[t].kind \in {"page", "links", "marks"}
           /\ write[t].kind = "links" => write[t].order = <<>>
           /\ write[t].kind = "page" => Len(write[t].order) >= 2
           /\ PreTouched(write[t]) \subseteq UrlRow
           /\ \A i \in DOMAIN write[t].order : write[t].order[i] \in UrlRow
<1>1. write[t] \in Writes /\ write[t] \in PageWrites \cup LinkWrites \cup MarkWrites
  BY LocksAssumption DEF LocksTypes
<1>2. /\ write[t].order \in Seq(UrlRow)
      /\ write[t].links \subseteq UrlRow /\ write[t].values \subseteq ValueRow
      /\ write[t].kind \in {"page", "links", "marks"}
      /\ write[t].kind = "links" => write[t].order = <<>>
  <2>1. CASE write[t] \in PageWrites
    BY <2>1 DEF PageWrites
  <2>2. CASE write[t] \in LinkWrites
    <3>1. /\ write[t].order = <<>> /\ write[t].links \subseteq UrlRow
          /\ write[t].values = {} /\ write[t].kind = "links"
      BY <2>2 DEF LinkWrites
    <3>2. <<>> \in Seq(UrlRow)
      OBVIOUS
    <3>3. QED
      BY <3>1, <3>2
  <2>3. CASE write[t] \in MarkWrites
    BY <2>3 DEF MarkWrites
  <2>4. QED
    BY <1>1, <2>1, <2>2, <2>3
<1>3. \A i \in DOMAIN write[t].order : write[t].order[i] \in UrlRow
  BY <1>2
<1>4. QED
  BY <1>1, <1>2, <1>3, LocksAssumption DEF PreTouched, Ordered

\* URLs and values are different rows.
LEMMA RowsAreTwoKinds ==
    /\ SharedRow \subseteq Nat /\ UrlRow \subseteq SharedRow /\ ValueRow \subseteq SharedRow
    /\ UrlRow \cap ValueRow = {}
    /\ \A u \in UrlRow, v \in ValueRow : u < v
BY LocksAssumption DEF SharedRow

LEMMA LocksBegin == LocksInit => LocksInv
<1> SUFFICES ASSUME LocksInit PROVE LocksInv
  OBVIOUS
<1>1. LocksTypes
  BY DEF LocksInit, LocksTypes, Stages
<1>2. IdleHoldNothing /\ StagesOfPages /\ HeldRowsExist
  BY <1>1, LocksAssumption DEF LocksInit, LocksTypes, IdleHoldNothing, StagesOfPages,
                               HeldRowsExist, Inserting
<1>3. UpsertsAreHeld /\ TouchedArePresent /\ UrlsBeforeValues
  BY DEF LocksInit, UpsertsAreHeld, TouchedArePresent, UrlsBeforeValues
<1>4. InsertedBelow /\ LinksAreSeen
  BY DEF LocksInit, InsertedBelow, LinksAreSeen, Bulk
<1>5. QED
  BY <1>1, <1>2, <1>3, <1>4 DEF LocksInv

\* BeginWrite: a transaction that holds nothing begins.
LEMMA BeginWriteKeeps ==
    ASSUME LocksInv, NEW t \in Writer, BeginWrite(t)
    PROVE  LocksInv'
<1>1. PICK next \in {"touching", "updating"} :
          /\ stage' = [stage EXCEPT ![t] = next]
          /\ next = "updating" => write[t].kind = "marks" /\ UNCHANGED <<toInsert, seen>>
          /\ next = "touching" =>
                /\ toInsert' = [toInsert EXCEPT ![t] =
                                   {r \in PreTouched(write[t]) : rowState[r] # "stored"}]
                /\ seen' = [seen EXCEPT ![t] = Visible(t)]
  BY DEF BeginWrite, Statement
<1>2. /\ stage[t] = "waiting" /\ begun' = [begun EXCEPT ![t] = @ + 1]
      /\ UNCHANGED <<rowState, rowHolder, write, at, unresolved>>
  BY DEF BeginWrite, Attempt
<1>3. /\ PreTouched(write[t]) \subseteq SharedRow
      /\ write[t].kind = "marks" => PreTouched(write[t]) \subseteq UrlRow
  BY WriteShapes, RowsAreTwoKinds DEF LocksInv
<1> USE DEF LocksInv, LocksTypes
<1>4. LocksTypes'
  BY <1>1, <1>2, <1>3 DEF Stages, Visible
<1>5. IdleHoldNothing' /\ StagesOfPages' /\ HeldRowsExist'
  BY <1>1, <1>2 DEF IdleHoldNothing, StagesOfPages, HeldRowsExist, Inserting
<1>6. UpsertsAreHeld'
  BY <1>1, <1>2, WriteShapes DEF IdleHoldNothing, UpsertsAreHeld
<1>7. TouchedArePresent'
  BY <1>1, <1>2, <1>3 DEF TouchedArePresent, Present, Inserting
<1>8. UrlsBeforeValues'
  BY <1>1, <1>2 DEF UrlsBeforeValues, IdleHoldNothing
<1>9. InsertedBelow'
  BY <1>1, <1>2 DEF InsertedBelow, IdleHoldNothing, Bulk, Inserting, Present
<1>10. LinksAreSeen'
  BY <1>1, <1>2 DEF LinksAreSeen
<1>11. QED
  BY <1>4, <1>5, <1>6, <1>7, <1>8, <1>9, <1>10

\* InsertRow: the least of the rows still to insert.
LEMMA InsertRowKeeps ==
    ASSUME LocksInv, NEW t \in Writer, InsertRow(t)
    PROVE  LocksInv'
<1>1. PICK r \in SharedRow :
          /\ r = NextRow(t)
          /\ r \in toInsert[t] /\ \A q \in toInsert[t] : r <= q
          /\ toInsert[t] \subseteq SharedRow
  BY LeastRow DEF LocksInv, LocksTypes, InsertRow, NextRow
<1>2. /\ stage[t] \in Bulk /\ UNCHANGED <<write, stage, at, begun, unresolved>>
      /\ toInsert' = [toInsert EXCEPT ![t] = @ \ {r}]
      /\ Inserting(r) => rowHolder[r] = t
      /\ \/ /\ rowState[r] = "absent"
            /\ rowState' = [rowState EXCEPT ![r] = "inserted"]
            /\ rowHolder' = [rowHolder EXCEPT ![r] = t]
            /\ seen' = [seen EXCEPT ![t] = @ \cup {r}]
         \/ rowState[r] # "absent" /\ UNCHANGED <<rowState, rowHolder, seen>>
  BY <1>1 DEF InsertRow
<1>3. LocksTypes'
  BY <1>1, <1>2 DEF LocksInv, LocksTypes
<1>4. /\ \A q \in SharedRow :
            \/ rowState'[q] = rowState[q] /\ rowHolder'[q] = rowHolder[q]
            \/ /\ q = r /\ rowState[q] = "absent" /\ rowHolder[q] = NoWriter
               /\ rowState'[q] = "inserted" /\ rowHolder'[q] = t
      /\ \A s \in Writer : toInsert'[s] = IF s = t THEN toInsert[s] \ {r} ELSE toInsert[s]
      /\ \A s \in Writer : seen[s] \subseteq seen'[s]
      /\ \A s \in Writer : write'[s] = write[s] /\ stage'[s] = stage[s] /\ at'[s] = at[s]
                          /\ unresolved'[s] = unresolved[s]
  <2>1. rowState[r] = "absent" => rowHolder[r] = NoWriter
    BY <1>1 DEF LocksInv, HeldRowsExist
  <2>2. CASE rowState[r] = "absent"
    <3>1. /\ rowState' = [rowState EXCEPT ![r] = "inserted"]
          /\ rowHolder' = [rowHolder EXCEPT ![r] = t]
          /\ seen' = [seen EXCEPT ![t] = @ \cup {r}]
      BY <1>2, <2>2
    <3>2. \A q \in SharedRow : rowState'[q] = IF q = r THEN "inserted" ELSE rowState[q]
      BY <3>1 DEF LocksInv, LocksTypes
    <3>3. \A q \in SharedRow : rowHolder'[q] = IF q = r THEN t ELSE rowHolder[q]
      BY <3>1 DEF LocksInv, LocksTypes
    <3>4. \A s \in Writer : seen[s] \subseteq seen'[s]
      BY <3>1 DEF LocksInv, LocksTypes
    <3>5. QED
      BY <1>2, <2>1, <2>2, <3>2, <3>3, <3>4 DEF LocksInv, LocksTypes
  <2>3. CASE rowState[r] # "absent"
    BY <1>1, <1>2, <2>3 DEF LocksInv, LocksTypes
  <2>4. QED
    BY <2>2, <2>3
<1>5. NoWriter \notin Writer /\ stage[t] \in Bulk
  BY <1>2, LocksAssumption
<1>6. \A s \in Writer, q \in SharedRow : Present(s, q) => Present(s, q)'
  BY <1>4, <1>5 DEF Present, Inserting
<1>7. IdleHoldNothing' /\ StagesOfPages'
  BY <1>4, <1>5 DEF LocksInv, IdleHoldNothing, StagesOfPages, Bulk
<1>8. HeldRowsExist'
  BY <1>4 DEF LocksInv, HeldRowsExist, Inserting
<1>9. UpsertsAreHeld'
  <2>1. \A q \in SharedRow, s \in Writer : rowHolder[q] = s => rowHolder'[q] = s
    BY <1>4, <1>5
  <2>2. ASSUME NEW s \in Writer, NEW i \in DOMAIN write[s].order
        PROVE  write[s].order[i] \in SharedRow
    BY WriteShapes, RowsAreTwoKinds DEF LocksInv
  <2>3. QED
    BY <1>4, <2>1, <2>2 DEF LocksInv, UpsertsAreHeld
<1>10. Present(t, r)'
  BY <1>1, <1>2, <1>4 DEF Present, Inserting, LocksInv, LocksTypes
<1>11. TouchedArePresent'
  BY <1>4, <1>6, <1>10, WriteShapes, RowsAreTwoKinds DEF LocksInv, TouchedArePresent
<1>12. UrlsBeforeValues'
  <2>1. stage[t] \in {"touching", "linking"} => r \in UrlRow
    BY <1>1, WriteShapes DEF LocksInv, UrlsBeforeValues
  <2>2. ASSUME NEW s \in Writer, stage[s] \in {"touching", "updating", "linking"},
               NEW q \in SharedRow, rowHolder'[q] = s
        PROVE  q \in UrlRow
    BY <1>4, <1>5, <2>1, <2>2 DEF LocksInv, UrlsBeforeValues, Bulk
  <2>3. \A s \in Writer : toInsert'[s] \subseteq toInsert[s]
    BY <1>4
  <2>4. QED
    BY <1>4, <2>2, <2>3 DEF LocksInv, UrlsBeforeValues
<1>13. InsertedBelow'
  <2> SUFFICES ASSUME NEW s \in Writer, stage[s] \in Bulk, NEW p \in SharedRow,
                      Inserting(p)', rowHolder'[p] = s, NEW q \in toInsert'[s]
               PROVE  p < q \/ Present(s, q)'
    BY <1>4 DEF InsertedBelow
  <2>1. q \in toInsert[s] /\ q \in SharedRow
    BY <1>4 DEF LocksInv, LocksTypes
  <2>2. CASE rowState[p] = "absent"
    <3>1. p = r /\ s = t /\ q # r
      BY <1>4, <2>2 DEF Inserting
    <3>2. p <= q /\ p \in Nat /\ q \in Nat
      BY <1>1, <2>1, <3>1, RowsAreTwoKinds
    <3>3. QED
      BY <3>1, <3>2
  <2>3. CASE rowState[p] # "absent"
    BY <1>4, <1>6, <2>1, <2>3 DEF LocksInv, InsertedBelow, Inserting
  <2>4. QED
    BY <2>2, <2>3
<1>14. LinksAreSeen'
  BY <1>4 DEF LocksInv, LinksAreSeen
<1>15. QED
  BY <1>3, <1>7, <1>8, <1>9, <1>11, <1>12, <1>13, <1>14 DEF LocksInv

\* A transaction that only goes on to its next stage: the rows stay, and what the
\* invariant says of its new stage holds.
LEMMA StageKeeps ==
    ASSUME LocksInv, NEW t \in Writer, NEW next \in Stages,
           stage' = [stage EXCEPT ![t] = next],
           UNCHANGED <<rowState, rowHolder, write, at>>,
           toInsert' \in [Writer -> SUBSET SharedRow], seen' \in [Writer -> SUBSET SharedRow],
           unresolved' \in [Writer -> SUBSET SharedRow], begun' = begun,
           \A s \in Writer \ {t} : /\ toInsert'[s] = toInsert[s] /\ seen'[s] = seen[s]
                                   /\ unresolved'[s] = unresolved[s],
           stage[t] \in {"touching", "updating", "linking", "valuing"},
           next \in {"updating", "linking", "valuing", "written"},
           write[t].kind = "page" =>
              /\ stage[t] # "updating" \/ at[t] = Len(write[t].order) + 1
              /\ stage[t] = "touching" => next = "updating" /\ toInsert[t] = {}
              /\ unresolved'[t] \cap write[t].links = {},
           next \in {"linking", "valuing"} => write[t].kind = "page",
           next = "linking" => /\ stage[t] = "updating"
                               /\ toInsert'[t] \subseteq write[t].links
                               /\ write[t].links \subseteq seen'[t],
           next = "valuing" => stage[t] = "linking" /\ toInsert'[t] \subseteq write[t].values,
           next = "updating" => stage[t] = "touching"
    PROVE  LocksInv'
<1>1. \A s \in Writer : stage'[s] = IF s = t THEN next ELSE stage[s]
  BY DEF LocksInv, LocksTypes
<1>2. \A s \in Writer, q \in SharedRow : Present(s, q)' <=> Present(s, q)
  BY DEF Present, Inserting
<1>3. LocksTypes'
  BY DEF LocksInv, LocksTypes
<1>4. HeldRowsExist'
  BY DEF LocksInv, HeldRowsExist, Inserting
<1>5. IdleHoldNothing'
  BY <1>1 DEF LocksInv, IdleHoldNothing
<1>6. StagesOfPages'
  BY <1>1 DEF LocksInv, StagesOfPages
<1>7. UpsertsAreHeld'
  BY <1>1, WriteShapes DEF LocksInv, IdleHoldNothing, UpsertsAreHeld
<1>8. TouchedArePresent'
  <2>1. \A s \in Writer : PreTouched(write[s]) \subseteq SharedRow
    BY WriteShapes, RowsAreTwoKinds DEF LocksInv
  <2>2. \A s \in Writer : PreTouched(write'[s]) = PreTouched(write[s])
    OBVIOUS
  <2>3. QED
    BY <1>1, <1>2, <2>1, <2>2 DEF LocksInv, TouchedArePresent
<1>9. UrlsBeforeValues'
  BY <1>1 DEF LocksInv, UrlsBeforeValues
<1>10. InsertedBelow'
  <2> SUFFICES ASSUME NEW s \in Writer, stage'[s] \in Bulk, NEW p \in SharedRow,
                      Inserting(p), rowHolder[p] = s, NEW q \in toInsert'[s]
               PROVE  p < q \/ Present(s, q)
    BY <1>2 DEF InsertedBelow, Inserting
  <2>1. CASE s # t
    BY <1>1, <2>1 DEF LocksInv, InsertedBelow
  <2>2. CASE s = t /\ next = "linking"
    BY <1>1, <2>2 DEF LocksInv, TouchedArePresent, PreTouched
  <2>3. CASE s = t /\ next = "valuing"
    BY <2>3, WriteShapes, RowsAreTwoKinds DEF LocksInv, UrlsBeforeValues
  <2>4. QED
    BY <1>1, <2>1, <2>2, <2>3 DEF Bulk
<1>11. LinksAreSeen'
  BY <1>1 DEF LocksInv, LinksAreSeen
<1>12. QED
  BY <1>3, <1>4, <1>5, <1>6, <1>7, <1>8, <1>9, <1>10, <1>11 DEF LocksInv

\* The stages between the statements of a transaction.
LEMMA StagesKeep ==
    ASSUME LocksInv, NEW t \in Writer,
           EndTouch(t) \/ EndUpdates(t) \/ EndLinks(t) \/ EndValues(t)
    PROVE  LocksInv'
<1> USE DEF LocksInv
<1>1. write[t].links \subseteq SharedRow /\ write[t].values \subseteq SharedRow
  BY WriteShapes, RowsAreTwoKinds
<1>2. write[t].links \cap write[t].values = {}
  BY WriteShapes, RowsAreTwoKinds
<1>3. CASE EndTouch(t)
  BY <1>3, StageKeeps DEF EndTouch, LocksTypes, Stages, LinksAreSeen
<1>4. CASE EndUpdates(t) /\ write[t].kind = "page"
  <2>1. at[t] = Len(write[t].order) + 1
    BY <1>4, WriteShapes DEF EndUpdates, LocksTypes, StagesOfPages
  <2>2. write[t].links \subseteq Visible(t)
    BY <1>1, <1>4 DEF EndUpdates, TouchedArePresent, Present, Visible, PreTouched
  <2>3. /\ stage' = [stage EXCEPT ![t] = "linking"]
        /\ toInsert' = [toInsert EXCEPT ![t] = {r \in write[t].links : rowState[r] # "stored"}]
        /\ seen' = [seen EXCEPT ![t] = Visible(t)]
        /\ stage[t] = "updating" /\ UNCHANGED <<rowState, rowHolder, write, at, begun, unresolved>>
    BY <1>4 DEF EndUpdates, Statement
  <2>4. /\ toInsert' \in [Writer -> SUBSET SharedRow] /\ seen' \in [Writer -> SUBSET SharedRow]
        /\ toInsert'[t] \subseteq write[t].links /\ write[t].links \subseteq seen'[t]
        /\ \A s \in Writer \ {t} : toInsert'[s] = toInsert[s] /\ seen'[s] = seen[s]
    BY <1>1, <2>2, <2>3 DEF LocksTypes, Visible
  <2>5. QED
    BY <1>4, <2>1, <2>3, <2>4, StageKeeps DEF LocksTypes, Stages, LinksAreSeen
<1>5. CASE EndUpdates(t) /\ write[t].kind # "page"
  BY <1>5, StageKeeps DEF EndUpdates, LocksTypes, Stages, LinksAreSeen
<1>6. CASE EndLinks(t)
  <2>1. /\ stage' = [stage EXCEPT ![t] = "valuing"]
        /\ toInsert' = [toInsert EXCEPT ![t] = {r \in write[t].values : rowState[r] # "stored"}]
        /\ seen' = [seen EXCEPT ![t] = Visible(t)]
        /\ unresolved' = [unresolved EXCEPT ![t] = @ \cup (write[t].links \ seen[t])]
        /\ stage[t] = "linking" /\ UNCHANGED <<rowState, rowHolder, write, at, begun>>
    BY <1>6 DEF EndLinks, Statement
  <2>2. write[t].kind = "page" /\ write[t].links \ seen[t] = {}
    BY <2>1 DEF StagesOfPages, LinksAreSeen
  <2>3. /\ toInsert' \in [Writer -> SUBSET SharedRow] /\ seen' \in [Writer -> SUBSET SharedRow]
        /\ toInsert'[t] \subseteq write[t].values /\ unresolved' = unresolved
        /\ \A s \in Writer \ {t} : toInsert'[s] = toInsert[s] /\ seen'[s] = seen[s]
    BY <1>1, <2>1, <2>2 DEF LocksTypes, Visible
  <2>4. /\ unresolved' \in [Writer -> SUBSET SharedRow] /\ begun' = begun
        /\ \A s \in Writer \ {t} : unresolved'[s] = unresolved[s]
        /\ unresolved'[t] \cap write[t].links = {}
    BY <2>1, <2>2, <2>3 DEF LocksTypes, LinksAreSeen
  <2>5. "valuing" \in Stages
    BY DEF Stages
  <2>6. /\ stage[t] \in {"touching", "updating", "linking", "valuing"}
        /\ UNCHANGED <<rowState, rowHolder, write, at>>
        /\ stage[t] # "updating" /\ stage[t] # "touching"
    BY <2>1
  <2>7. QED
    BY <2>1, <2>2, <2>3, <2>4, <2>5, <2>6, StageKeeps
<1>7. CASE EndValues(t)
  BY <1>1, <1>2, <1>7, StageKeeps DEF EndValues, LocksTypes, LinksAreSeen, StagesOfPages, Stages
<1>8. QED
  BY <1>3, <1>4, <1>5, <1>6, <1>7

\* UpdateRow: an upsert of a row that no other transaction holds.
LEMMA UpdateRowKeeps ==
    ASSUME LocksInv, NEW t \in Writer, UpdateRow(t)
    PROVE  LocksInv'
<1>1. PICK r \in SharedRow :
          /\ r = write[t].order[at[t]] /\ r \in UrlRow /\ rowHolder[r] \in {NoWriter, t}
          /\ rowHolder' = [rowHolder EXCEPT ![r] = t]
          /\ rowState' = [rowState EXCEPT ![r] = IF @ = "absent" THEN "inserted" ELSE @]
  BY WriteShapes, RowsAreTwoKinds DEF LocksInv, UpdateRow, UpsertHolder
<1>2. /\ stage[t] = "updating" /\ at[t] \in DOMAIN write[t].order
      /\ at' = [at EXCEPT ![t] = @ + 1]
      /\ UNCHANGED <<write, stage, toInsert, seen, begun, unresolved>>
  BY DEF UpdateRow
<1>3. LocksTypes'
  BY <1>1, <1>2 DEF LocksInv, LocksTypes
<1>4. /\ \A q \in SharedRow \ {r} : rowState'[q] = rowState[q] /\ rowHolder'[q] = rowHolder[q]
      /\ rowHolder'[r] = t
      /\ rowState'[r] = IF rowState[r] = "absent" THEN "inserted" ELSE rowState[r]
      /\ \A s \in Writer : at'[s] = IF s = t THEN at[s] + 1 ELSE at[s]
      /\ NoWriter \notin Writer
  BY <1>1, <1>2, LocksAssumption DEF LocksInv, LocksTypes
<1>5. HeldRowsExist'
  BY <1>4 DEF LocksInv, LocksTypes, HeldRowsExist, Inserting
<1>6. \A s \in Writer, q \in SharedRow : Present(s, q) => Present(s, q)'
  BY <1>1, <1>4 DEF LocksInv, HeldRowsExist, Present, Inserting
<1>7. IdleHoldNothing'
  BY <1>1, <1>2, <1>4 DEF LocksInv, IdleHoldNothing
<1>8. StagesOfPages'
  BY <1>1, <1>2, <1>4, WriteShapes DEF LocksInv, LocksTypes, StagesOfPages
<1>9. UpsertsAreHeld'
  <2>1. \A q \in SharedRow, s \in Writer : rowHolder[q] = s => rowHolder'[q] = s
    BY <1>1, <1>4
  <2> SUFFICES ASSUME NEW s \in Writer,
                      stage[s] \in {"updating", "linking", "valuing", "written"},
                      NEW i \in DOMAIN write[s].order, i < at'[s]
               PROVE  rowHolder'[write[s].order[i]] = s
    BY <1>2 DEF UpsertsAreHeld
  <2>2. write[s].order[i] \in SharedRow /\ i \in Nat /\ at[s] \in Nat
    <3>1. write[s].order \in Seq(UrlRow) /\ write[s].order[i] \in UrlRow
      BY WriteShapes DEF LocksInv
    <3>2. i \in Nat
      BY <3>1
    <3>3. QED
      BY <3>1, <3>2, RowsAreTwoKinds DEF LocksInv, LocksTypes
  <2>3. CASE i < at[s]
    BY <2>1, <2>2, <2>3 DEF LocksInv, UpsertsAreHeld
  <2>4. CASE ~(i < at[s])
    BY <1>1, <1>4, <2>2, <2>4
  <2>5. QED
    BY <2>3, <2>4
<1>10. TouchedArePresent'
  BY <1>2, <1>6, WriteShapes, RowsAreTwoKinds DEF LocksInv, TouchedArePresent
<1>11. UrlsBeforeValues'
  BY <1>1, <1>2, <1>4 DEF LocksInv, UrlsBeforeValues
<1>12. InsertedBelow'
  BY <1>2, <1>4, <1>6 DEF InsertedBelow, Bulk, Inserting, LocksInv, LocksTypes
<1>13. LinksAreSeen'
  BY <1>2 DEF LocksInv, LinksAreSeen
<1>14. QED
  BY <1>3, <1>5, <1>7, <1>8, <1>9, <1>10, <1>11, <1>12, <1>13 DEF LocksInv

\* The end of a transaction: stored, or rolled back.
LEMMA EndTransactionKeeps ==
    ASSUME LocksInv, NEW t \in Writer, NEW next \in {"absent", "stored"},
           NEW idle \in {"waiting", "stored", "failed"},
           EndTransaction(t, next),
           stage' = [stage EXCEPT ![t] = idle], UNCHANGED <<write, begun>>,
           unresolved' \in [Writer -> SUBSET SharedRow],
           \A s \in Writer \ {t} : unresolved'[s] = unresolved[s],
           write[t].kind = "page" => unresolved'[t] \cap write[t].links = {}
    PROVE  LocksInv'
<1>1. /\ \A q \in SharedRow : rowHolder'[q] = IF rowHolder[q] = t THEN NoWriter ELSE rowHolder[q]
      /\ \A q \in SharedRow : rowState'[q] =
            IF Inserting(q) /\ rowHolder[q] = t THEN next ELSE rowState[q]
      /\ \A s \in Writer : /\ stage'[s] = IF s = t THEN idle ELSE stage[s]
                           /\ toInsert'[s] = IF s = t THEN {} ELSE toInsert[s]
                           /\ seen'[s] = IF s = t THEN {} ELSE seen[s]
                           /\ at'[s] = IF s = t THEN 1 ELSE at[s]
      /\ NoWriter \notin Writer
  BY LocksAssumption DEF LocksInv, LocksTypes, EndTransaction
<1>2. LocksTypes'
  BY DEF LocksInv, LocksTypes, EndTransaction, Stages
<1>3. \A s \in Writer \ {t}, q \in SharedRow : Present(s, q) => Present(s, q)'
  BY <1>1 DEF Present, Inserting
<1>4. HeldRowsExist'
  BY <1>1 DEF LocksInv, HeldRowsExist, Inserting
<1>5. IdleHoldNothing'
  BY <1>1 DEF LocksInv, IdleHoldNothing
<1>6. StagesOfPages'
  BY <1>1, WriteShapes DEF LocksInv, StagesOfPages
<1>7. UpsertsAreHeld'
  <2> SUFFICES ASSUME NEW s \in Writer,
                      stage'[s] \in {"updating", "linking", "valuing", "written"},
                      NEW i \in DOMAIN write[s].order, i < at'[s]
               PROVE  rowHolder'[write[s].order[i]] = s
    BY DEF UpsertsAreHeld
  <2>1. s # t /\ write[s].order[i] \in SharedRow
    BY <1>1, WriteShapes, RowsAreTwoKinds DEF LocksInv
  <2>2. rowHolder[write[s].order[i]] = s
    BY <1>1, <2>1 DEF LocksInv, UpsertsAreHeld
  <2>3. QED
    BY <1>1, <2>1, <2>2
<1>8. TouchedArePresent'
  <2>1. \A s \in Writer : PreTouched(write[s]) \subseteq SharedRow
    BY WriteShapes, RowsAreTwoKinds DEF LocksInv
  <2>2. \A s \in Writer : PreTouched(write'[s]) = PreTouched(write[s])
    OBVIOUS
  <2>3. QED
    BY <1>1, <1>3, <2>1, <2>2 DEF LocksInv, TouchedArePresent
<1>9. UrlsBeforeValues'
  BY <1>1 DEF LocksInv, UrlsBeforeValues
<1>10. InsertedBelow'
  BY <1>1, <1>3 DEF InsertedBelow, LocksInv, LocksTypes, Bulk, Inserting
<1>11. LinksAreSeen'
  BY <1>1 DEF LocksInv, LinksAreSeen
<1>12. QED
  BY <1>2, <1>4, <1>5, <1>6, <1>7, <1>8, <1>9, <1>10, <1>11 DEF LocksInv

\* The steps by which transactions end, EndResolve among them.
LEMMA EndsKeep ==
    ASSUME LocksInv, NEW t \in Writer, EndResolve(t) \/ Commit(t) \/ Deadlock(t)
    PROVE  LocksInv'
<1> USE DEF LocksInv
<1>1. CASE Commit(t)
  BY <1>1, EndTransactionKeeps DEF Commit, LocksTypes, LinksAreSeen
<1>2. CASE Deadlock(t)
  BY <1>2, EndTransactionKeeps DEF Deadlock, LocksTypes
<1>3. CASE EndResolve(t)
  <2>1. PICK missing \in SUBSET SharedRow :
            /\ unresolved' = [unresolved EXCEPT ![t] = missing]
            /\ \/ /\ stage' = [stage EXCEPT ![t] = "written"]
                  /\ UNCHANGED <<rowState, rowHolder, toInsert, seen, at>>
               \/ /\ stage' = [stage EXCEPT ![t] = "failed"]
                  /\ EndTransaction(t, "absent")
    <3>1. PreTouched(write[t]) \ seen[t] \in SUBSET SharedRow
      BY WriteShapes, RowsAreTwoKinds
    <3>2. QED
      BY <1>3, <3>1 DEF EndResolve
  <2>2. /\ stage[t] = "touching" /\ write[t].kind = "links" /\ UNCHANGED <<write, begun>>
    BY <1>3 DEF EndResolve
  <2>3. /\ unresolved' \in [Writer -> SUBSET SharedRow]
        /\ \A s \in Writer \ {t} : unresolved'[s] = unresolved[s]
    BY <2>1 DEF LocksTypes
  <2>4. CASE stage' = [stage EXCEPT ![t] = "failed"] /\ EndTransaction(t, "absent")
    BY <2>2, <2>3, <2>4, EndTransactionKeeps
  <2>5. CASE /\ stage' = [stage EXCEPT ![t] = "written"]
             /\ UNCHANGED <<rowState, rowHolder, toInsert, seen, at>>
    BY <2>2, <2>3, <2>5, StageKeeps DEF Stages, LocksTypes
  <2>6. QED
    BY <2>1, <2>4, <2>5
<1>4. QED
  BY <1>1, <1>2, <1>3

\* The rows of LocksInv stay true of every behaviour of the transactions.
LEMMA LocksInvariant == LocksSpec => []LocksInv
<1>1. LocksInv /\ [LocksNext]_lockVars => LocksInv'
  <2> SUFFICES ASSUME LocksInv, [LocksNext]_lockVars PROVE LocksInv'
    OBVIOUS
  <2>1. ASSUME NEW t \in Writer, WriteStep(t) \/ Deadlock(t)
        PROVE  LocksInv'
    BY <2>1, BeginWriteKeeps, InsertRowKeeps, StagesKeep, UpdateRowKeeps, EndsKeep DEF WriteStep
  <2>2. CASE UNCHANGED lockVars
    BY <2>2 DEF lockVars, LocksInv, LocksTypes, HeldRowsExist, IdleHoldNothing, StagesOfPages,
                UpsertsAreHeld, TouchedArePresent, UrlsBeforeValues, InsertedBelow,
                LinksAreSeen, Inserting, Present
  <2>3. QED
    BY <2>1, <2>2 DEF LocksNext
<1>2. QED
  BY <1>1, LocksBegin, PTL DEF LocksSpec

\* For any writers, rows and writes: two persists never write the tables of the
\* same page at the same time, because the one that got past the upsert of its
\* final URL holds that row until it ends.
THEOREM PagesAreWrittenInTurn == LocksSpec => []PageWritersTakeTurns
<1>1. LocksInv => PageWritersTakeTurns
  <2> SUFFICES ASSUME LocksInv, NEW s \in Writer, NEW t \in Writer,
                      WritesPage(s), WritesPage(t), s # t
               PROVE  write[s].order[2] # write[t].order[2]
    BY DEF PageWritersTakeTurns
  <2>1. ASSUME NEW w \in Writer, WritesPage(w)
        PROVE  rowHolder[write[w].order[2]] = w
    BY <2>1, WriteShapes DEF WritesPage, LocksInv, LocksTypes, StagesOfPages, UpsertsAreHeld
  <2>2. QED
    BY <2>1
<1>2. QED
  BY <1>1, LocksInvariant, PTL

\* For any writers, rows and writes: the links of a page that is persisted keep
\* their targets, because the page's pre-touch left every one of them either
\* committed or inserted by its own transaction.
THEOREM LinksResolve == LocksSpec => []LinksKeepTheirTargets
<1>1. LocksInv => LinksKeepTheirTargets
  BY DEF LocksInv, LinksAreSeen, LinksKeepTheirTargets
<1>2. QED
  BY <1>1, LocksInvariant, PTL

\* For any writers, rows and writes: among sorted bulk statements every wait
\* is for a row before the one that is waited for in turn, so they alone
\* cannot wait in a circle.
THEOREM SortedInsertsWaitUpwards == LocksSpec => []InsertersWaitUpwards
<1>1. LocksInv => InsertersWaitUpwards
  <2> SUFFICES ASSUME LocksInv, NEW s \in Writer, NEW t \in Writer,
                      stage[s] \in Bulk, stage[t] \in Bulk,
                      s \in WaitsFor(t), WaitsFor(s) # {}
               PROVE  NextRow(t) < NextRow(s)
    BY DEF InsertersWaitUpwards
  <2>1. \A w \in Writer : stage[w] \in Bulk => stage[w] # "updating"
    BY DEF Bulk
  <2>2. ASSUME NEW w \in Writer, stage[w] \in Bulk, NEW v \in WaitsFor(w)
        PROVE  /\ toInsert[w] # {} /\ Inserting(NextRow(w))
               /\ v = rowHolder[NextRow(w)] /\ v # w
    BY <2>1, <2>2 DEF WaitsFor
  <2>3. ASSUME NEW w \in Writer, toInsert[w] # {}
        PROVE  NextRow(w) \in toInsert[w] /\ NextRow(w) \in SharedRow
    BY <2>3, LeastRow DEF NextRow, LocksInv, LocksTypes
  <2>4. /\ NextRow(t) \in SharedRow /\ Inserting(NextRow(t)) /\ rowHolder[NextRow(t)] = s
        /\ NextRow(s) \in toInsert[s] /\ NextRow(s) \in SharedRow
        /\ Inserting(NextRow(s)) /\ rowHolder[NextRow(s)] # s
    BY <2>2, <2>3
  <2>5. ~Present(s, NextRow(s))
    BY <2>4 DEF Present, Inserting
  <2>6. QED
    BY <2>4, <2>5 DEF LocksInv, InsertedBelow
<1>2. QED
  BY <1>1, LocksInvariant, PTL

\* For any writers, rows and writes: pages are written in turn, links resolve and
\* sorted statements cannot wait in a circle.
THEOREM WritersTakeTurns == LocksSpec => []WritesTakeTurns
BY PagesAreWrittenInTurn, LinksResolve, SortedInsertsWaitUpwards,
   PTL DEF WritesTakeTurns

--------------------
(*
The shared browser context.
*)
Recycling == {"closing_old", "creating"}

\* The lock is held by the one task that awaits something in a locked section.
LockedIsHolder == \A t \in Task : phase[t] \in Locked <=> lock = t

\* While a context is replaced there is none; while the browser is launched
\* there is no browser.
LockedState ==
    \A t \in Task : /\ phase[t] \in Recycling => context = NoContext
                    /\ phase[t] = "launching" => ~started

\* Until close() is called, pages are counted exactly, all are on the current
\* context, and none is open while a context is replaced or none was made yet.
PagesAreCounted ==
    closing = "no" =>
        /\ activePages = Cardinality(In(Counted))
        /\ context # NoContext => context \in live
        /\ \A t \in Task : phase[t] \in Counted => started
        /\ \A t \in Task : phase[t] = "open" => page[t] = context /\ context # NoContext
        /\ (\E t \in Task : phase[t] \in Recycling) => In(Counted) = {}

\* A recycle that was requested always has a page that is counted.
RequestHasPage == recycleRequested => activePages > 0

\* In a browser that somebody else runs, the backend owns no context once it
\* has begun.
NothingIsOwned ==
    mode = "cdp" =>
        /\ Default \in live
        /\ owned => /\ ~started /\ ~recycleRequested
                    /\ \A t \in Task : phase[t] # "closing_old"

BrowserInv ==
    /\ BrowserTypes
    /\ LockedIsHolder
    /\ LockedState
    /\ PagesAreCounted
    /\ RequestHasPage
    /\ NothingIsOwned

--------------------
LEMMA InitBrowser == BrowserInit => BrowserInv
<1> SUFFICES ASSUME BrowserInit PROVE BrowserInv
  OBVIOUS
<1>1. BrowserTypes
  <2>1. phase \in [Task -> Phases] /\ page \in [Task -> {NoContext} \cup Nat]
    BY DEF BrowserInit, Phases
  <2>2. live \subseteq Nat
    BY DEF BrowserInit, Default
  <2>3. QED
    BY <2>1, <2>2 DEF BrowserInit, BrowserTypes
<1>2. In(Counted) = {} /\ Cardinality({}) = 0
  BY FS_EmptySet DEF BrowserInit, In, Counted
<1>3. LockedIsHolder /\ LockedState
  BY BrowserAssumption DEF BrowserInit, LockedIsHolder, LockedState, Locked, Recycling
<1>4. PagesAreCounted
  BY <1>2 DEF BrowserInit, Counted, Recycling, PagesAreCounted
<1>5. RequestHasPage /\ NothingIsOwned
  BY DEF BrowserInit, RequestHasPage, NothingIsOwned, Default
<1>6. QED
  BY <1>1, <1>3, <1>4, <1>5 DEF BrowserInv

\* The counted pages are finitely many.
LEMMA CountedIsFinite == IsFiniteSet(In(Counted)) /\ Cardinality(In(Counted)) \in Nat
<1>1. In(Counted) \subseteq Task
  BY DEF In
<1>2. QED
  BY <1>1, BrowserAssumption, FS_Subset, FS_CardinalityType

\* One task that comes or goes changes the count by one, any other move by none.
LEMMA Counting ==
    ASSUME phase \in [Task -> Phases], NEW t \in Task, NEW next \in Phases,
           Goto(t, next)
    PROVE  /\ (phase[t] \in Counted <=> next \in Counted) =>
                 In(Counted)' = In(Counted)
           /\ phase[t] \notin Counted /\ next \in Counted =>
                 Cardinality(In(Counted))' = Cardinality(In(Counted)) + 1
           /\ phase[t] \in Counted /\ next \notin Counted =>
                 /\ Cardinality(In(Counted))' = Cardinality(In(Counted)) - 1
                 /\ In(Counted)' = In(Counted) \ {t}
<1>1. phase' = [phase EXCEPT ![t] = next]
  BY DEF Goto
<1>2. CASE phase[t] \in Counted <=> next \in Counted
  BY <1>1, <1>2 DEF In
<1>3. CASE phase[t] \notin Counted /\ next \in Counted
  BY <1>1, <1>3, CountedIsFinite, FS_AddElement DEF In
<1>4. CASE phase[t] \in Counted /\ next \notin Counted
  <2>1. In(Counted)' = In(Counted) \ {t} /\ t \in In(Counted)
    BY <1>1, <1>4 DEF In
  <2>2. QED
    BY <1>4, <2>1, CountedIsFinite, FS_RemoveElement
<1>5. QED
  BY <1>2, <1>3, <1>4

\* A move that opens and closes no page keeps the count, if it leaves the
\* current context alone or no page is open on it.
LEMMA MoveKeepsCount ==
    ASSUME BrowserTypes, PagesAreCounted, NEW t \in Task, NEW next \in Phases,
           Goto(t, next),
           phase[t] \in Counted <=> next \in Counted, next # "open",
           next \in Recycling => phase[t] \in Recycling,
           UNCHANGED <<activePages, closing, started>>,
           closing = "no" /\ context' # NoContext => context' \in live',
           closing = "no" => context' = context \/ In(Counted) = {},
           \A u \in Task \ {t} : page'[u] = page[u]
    PROVE  PagesAreCounted'
BY Counting DEF PagesAreCounted, Goto, BrowserTypes, In, Counted

\* A page is opened on the current context while none is being replaced.
LEMMA OpeningKeepsCount ==
    ASSUME BrowserTypes, PagesAreCounted, NEW t \in Task, Goto(t, "open"),
           phase[t] \notin Counted,
           \A u \in Task \ {t} : phase[u] \notin Recycling,
           activePages' = activePages + 1, UNCHANGED closing, started',
           page' = [page EXCEPT ![t] = context'],
           closing = "no" => context' # NoContext /\ context' \in live',
           closing = "no" => context' = context \/ In(Counted) = {}
    PROVE  PagesAreCounted'
BY Counting DEF PagesAreCounted, Goto, BrowserTypes, Phases, Counted, Recycling, In

\* Moves that neither hold nor release the lock, and into none of its sections.
LEMMA UnlockedMove ==
    ASSUME BrowserInv, NEW t \in Task, NEW next \in Phases \ Locked, Goto(t, next),
           phase[t] \notin Locked, UNCHANGED <<lock, started, context>>
    PROVE  LockedIsHolder' /\ LockedState'
BY DEF Goto, BrowserInv, BrowserTypes, Recycling, Locked, LockedIsHolder, LockedState

\* The end of a locked section.
LEMMA UnlockingMove ==
    ASSUME BrowserInv, NEW t \in Task, NEW next \in Phases \ Locked, Goto(t, next),
           phase[t] \in Locked, Unlock
    PROVE  LockedIsHolder' /\ LockedState'
BY BrowserAssumption DEF Goto, BrowserInv, BrowserTypes, LockedIsHolder, Recycling, Locked, Unlock,
   LockedState

\* One holder: while a task is in a locked section, no other is; while the lock
\* is free, none is.
LEMMA OneHolder ==
    ASSUME BrowserInv
    PROVE  /\ lock = Nobody => \A u \in Task : phase[u] \notin Locked
           /\ \A t \in Task : phase[t] \in Locked =>
                  \A u \in Task \ {t} : phase[u] \notin Locked
BY BrowserAssumption DEF BrowserInv, LockedIsHolder

LEMMA PhaseKinds ==
    /\ {"idle", "entering"} \subseteq Phases \ (Locked \cup Counted)
    /\ Locked \subseteq Phases \ Counted
    /\ Counted \subseteq Phases \ Locked
    /\ Recycling \subseteq Locked
    /\ {"open", "leaving"} = Counted
    /\ {"launching", "closing_old", "creating"} = Locked
    /\ "launching" \notin Recycling
    /\ {"closing_old", "creating"} = Recycling
BY DEF Phases, Locked, Counted, Recycling

--------------------
\* One step per action.
LEMMA CallKeeps ==
    ASSUME BrowserInv, NEW t \in Task, CallFetch(t) PROVE BrowserInv'
<1>1. /\ phase[t] = "idle" /\ Goto(t, "entering")
      /\ fetches' = fetches + 1
      /\ UNCHANGED <<mode, started, context, owned, requestCount, recycleRequested,
                     activePages, lock, page, live, made, closing>>
  BY DEF CallFetch, held, counts
<1>2. BrowserTypes'
  BY <1>1, PhaseKinds DEF BrowserInv, BrowserTypes, Goto
<1>3. LockedIsHolder' /\ LockedState'
  BY <1>1, PhaseKinds, UnlockedMove
<1>4. PagesAreCounted'
  BY <1>1, PhaseKinds, MoveKeepsCount DEF BrowserInv, PagesAreCounted
<1>5. RequestHasPage' /\ NothingIsOwned'
  BY <1>1 DEF BrowserInv, BrowserTypes, RequestHasPage, NothingIsOwned, Goto
<1>6. QED
  BY <1>2, <1>3, <1>4, <1>5 DEF BrowserInv

LEMMA EnterColdKeeps ==
    ASSUME BrowserInv, NEW t \in Task, EnterCold(t) PROVE BrowserInv'
<1>1. /\ phase[t] = "entering" /\ Goto(t, "launching") /\ lock = Nobody /\ lock' = t
      /\ ~started
      /\ UNCHANGED <<mode, started, context, owned, requestCount, recycleRequested,
                     activePages, page, live, made, fetches, closing>>
  BY DEF EnterCold, held, counts
<1>2. BrowserTypes'
  BY <1>1, PhaseKinds DEF BrowserInv, BrowserTypes, Goto
<1>3. LockedIsHolder' /\ LockedState'
  BY <1>1, PhaseKinds, OneHolder DEF Goto, BrowserInv, BrowserTypes, LockedIsHolder, LockedState
<1>4. PagesAreCounted'
  BY <1>1, PhaseKinds, MoveKeepsCount DEF BrowserInv, PagesAreCounted
<1>5. RequestHasPage' /\ NothingIsOwned'
  BY <1>1 DEF BrowserInv, BrowserTypes, RequestHasPage, NothingIsOwned, Goto
<1>6. QED
  BY <1>2, <1>3, <1>4, <1>5 DEF BrowserInv

LEMMA PageEndsKeeps ==
    ASSUME BrowserInv, NEW t \in Task, PageEnds(t) PROVE BrowserInv'
<1>1. /\ phase[t] = "open" /\ Goto(t, "leaving")
      /\ UNCHANGED <<mode, started, context, owned, requestCount, recycleRequested,
                     activePages, lock, page, live, made, fetches, closing>>
  BY DEF PageEnds, held, counts
<1>2. BrowserTypes'
  BY <1>1, PhaseKinds DEF BrowserInv, BrowserTypes, Goto
<1>3. LockedIsHolder' /\ LockedState'
  BY <1>1, PhaseKinds, UnlockedMove
<1>4. PagesAreCounted'
  BY <1>1, PhaseKinds, MoveKeepsCount DEF BrowserInv, PagesAreCounted
<1>5. RequestHasPage' /\ NothingIsOwned'
  BY <1>1 DEF BrowserInv, BrowserTypes, RequestHasPage, NothingIsOwned, Goto
<1>6. QED
  BY <1>2, <1>3, <1>4, <1>5 DEF BrowserInv

\* A launch that failed, a replacement that failed or was overtaken by close().
LEMMA GivingUpKeeps ==
    ASSUME BrowserInv, NEW t \in Task,
           LaunchFails(t) \/ CreateFails(t) \/ BrowserGone(t)
    PROVE  BrowserInv'
<1>1. /\ phase[t] \in {"launching", "creating"} /\ Goto(t, "idle") /\ Unlock
      /\ page' = [page EXCEPT ![t] = NoContext]
      /\ UNCHANGED <<mode, started, context, owned, requestCount, recycleRequested,
                     activePages, live, made, fetches, closing>>
  BY DEF LaunchFails, CreateFails, BrowserGone, Return, held, counts
<1>2. BrowserTypes'
  BY <1>1, PhaseKinds DEF BrowserInv, BrowserTypes, Goto, Unlock
<1>3. LockedIsHolder' /\ LockedState'
  BY <1>1, PhaseKinds, UnlockingMove
<1>4. PagesAreCounted'
  BY <1>1, PhaseKinds, MoveKeepsCount DEF BrowserInv, PagesAreCounted, BrowserTypes
<1>5. RequestHasPage' /\ NothingIsOwned'
  BY <1>1 DEF BrowserInv, BrowserTypes, RequestHasPage, NothingIsOwned, Goto
<1>6. QED
  BY <1>2, <1>3, <1>4, <1>5 DEF BrowserInv

LEMMA OldIsClosedKeeps ==
    ASSUME BrowserInv, NEW t \in Task, OldIsClosed(t) PROVE BrowserInv'
<1>1. /\ phase[t] = "closing_old" /\ Goto(t, "creating")
      /\ live' \in {CloseOld(page[t]), live}
      /\ UNCHANGED <<mode, started, context, owned, requestCount, recycleRequested,
                     activePages, lock, page, made, fetches, closing>>
  BY DEF OldIsClosed, held, counts
<1>2. BrowserTypes'
  BY <1>1, PhaseKinds DEF BrowserInv, BrowserTypes, Goto, CloseOld
<1>3. LockedIsHolder' /\ LockedState'
  BY <1>1, PhaseKinds DEF Goto, BrowserInv, BrowserTypes, LockedIsHolder, LockedState
<1>4. PagesAreCounted'
  BY <1>1, PhaseKinds, MoveKeepsCount DEF BrowserInv, LockedState
<1>5. RequestHasPage' /\ NothingIsOwned'
  BY <1>1 DEF BrowserInv, BrowserTypes, RequestHasPage, NothingIsOwned, Goto, CloseOld
<1>6. QED
  BY <1>2, <1>3, <1>4, <1>5 DEF BrowserInv

LEMMA CreateKeeps ==
    ASSUME BrowserInv, NEW t \in Task, Create(t) PROVE BrowserInv'
<1>1. /\ phase[t] = "creating" /\ started
      /\ Goto(t, "idle") /\ Unlock /\ Fresh
      /\ page' = [page EXCEPT ![t] = NoContext]
      /\ UNCHANGED <<mode, started, activePages, fetches, closing>>
      /\ IF Existing(t) # {}
         THEN context' \in Existing(t) /\ owned' = FALSE /\ UNCHANGED <<live, made>>
         ELSE /\ made' = made + 1 /\ context' = made + 1 /\ owned' = TRUE
              /\ live' = live \cup {made + 1}
  BY DEF Create, Return
<1>2. /\ context' \in live' /\ context' \in Nat /\ live \subseteq live' /\ live' \subseteq Nat
      /\ owned' \in BOOLEAN /\ made' \in Nat
      /\ mode = "cdp" => ~owned'
  <2>1. live \subseteq Nat /\ made \in Nat /\ (mode = "cdp" => Default \in live)
    BY DEF BrowserInv, BrowserTypes, NothingIsOwned
  <2>2. Existing(t) \subseteq live /\ (mode = "cdp" => Existing(t) # {})
    BY <2>1 DEF Existing, Borrows
  <2>3. CASE Existing(t) # {}
    BY <1>1, <2>1, <2>2, <2>3
  <2>4. CASE Existing(t) = {}
    <3>1. made + 1 \in Nat /\ {made + 1} \subseteq Nat /\ mode # "cdp"
      BY <2>1, <2>2, <2>4
    <3>2. QED
      BY <1>1, <2>1, <2>4, <3>1
  <2>5. QED
    BY <2>3, <2>4
<1>3. LockedIsHolder' /\ LockedState'
  BY <1>1, PhaseKinds, UnlockingMove
<1>4. PagesAreCounted'
  BY <1>1, <1>2, PhaseKinds, MoveKeepsCount DEF BrowserInv, PagesAreCounted, BrowserTypes
<1>5. RequestHasPage' /\ NothingIsOwned'
  BY <1>1, <1>2 DEF BrowserInv, BrowserTypes, RequestHasPage, NothingIsOwned, Fresh
<1>6. BrowserTypes'
  BY <1>1, <1>2, PhaseKinds DEF BrowserInv, BrowserTypes, Goto, Unlock, Fresh
<1>7. QED
  BY <1>3, <1>4, <1>5, <1>6 DEF BrowserInv

LEMMA EnterWarmKeeps ==
    ASSUME BrowserInv, NEW t \in Task, EnterWarm(t) PROVE BrowserInv'
<1>1. /\ phase[t] = "entering" /\ lock = Nobody /\ started
      /\ UNCHANGED <<mode, started, context, owned, lock, live, made, fetches, closing>>
  BY DEF EnterWarm, held
<1>2. CASE context = NoContext
  <2>1. /\ Goto(t, "idle") /\ page' = [page EXCEPT ![t] = NoContext]
        /\ UNCHANGED <<requestCount, recycleRequested, activePages>>
    BY <1>2 DEF EnterWarm, Return, counts
  <2>2. BrowserTypes'
    BY <1>1, <2>1, PhaseKinds DEF BrowserInv, BrowserTypes, Goto
  <2>3. LockedIsHolder' /\ LockedState'
    BY <1>1, <2>1, PhaseKinds, UnlockedMove
  <2>4. PagesAreCounted'
    BY <1>1, <1>2, <2>1, PhaseKinds, MoveKeepsCount DEF BrowserInv, BrowserTypes
  <2>5. RequestHasPage' /\ NothingIsOwned'
    BY <1>1, <2>1 DEF BrowserInv, BrowserTypes, RequestHasPage, NothingIsOwned, Goto
  <2>6. QED
    BY <2>2, <2>3, <2>4, <2>5 DEF BrowserInv
<1>3. CASE context # NoContext
  <2>1. /\ Goto(t, "open") /\ page' = [page EXCEPT ![t] = context]
        /\ activePages' = activePages + 1 /\ requestCount' = requestCount + 1
        /\ recycleRequested' = (recycleRequested \/ IsUsedUp(requestCount + 1))
    BY <1>3 DEF EnterWarm
  <2>2. recycleRequested' \in BOOLEAN /\ activePages' \in Nat /\ activePages' > 0
    BY <2>1 DEF BrowserInv, BrowserTypes, IsUsedUp
  <2>3. BrowserTypes'
    BY <1>1, <2>1, <2>2, PhaseKinds DEF BrowserInv, BrowserTypes, Goto
  <2>4. LockedIsHolder' /\ LockedState'
    BY <1>1, <2>1, PhaseKinds, UnlockedMove
  <2>5. PagesAreCounted'
    BY <1>1, <1>3, <2>1, PhaseKinds, OneHolder, OpeningKeepsCount DEF BrowserInv, PagesAreCounted
  <2>6. RequestHasPage' /\ NothingIsOwned'
    BY <1>1, <2>1, <2>2 DEF BrowserInv, BrowserTypes, RequestHasPage, NothingIsOwned, Goto
  <2>7. QED
    BY <2>3, <2>4, <2>5, <2>6 DEF BrowserInv
<1>4. QED
  BY <1>2, <1>3

LEMMA LaunchKeeps ==
    ASSUME BrowserInv, NEW t \in Task, Launch(t) PROVE BrowserInv'
<1>1. /\ phase[t] = "launching" /\ Goto(t, "open") /\ Unlock
      /\ started' = TRUE
      /\ page' = [page EXCEPT ![t] = context']
      /\ activePages' = activePages + 1 /\ requestCount' = 1
      /\ recycleRequested' = IsUsedUp(1)
      /\ UNCHANGED <<mode, fetches, closing>>
  BY DEF Launch
<1>2. /\ context' \in live' /\ context' \in Nat /\ live \subseteq live' /\ live' \subseteq Nat
      /\ owned' \in BOOLEAN /\ made' \in Nat
      /\ mode = "cdp" => ~owned'
  <2>1. live \subseteq Nat /\ made \in Nat /\ (mode = "cdp" => Default \in live)
    BY DEF BrowserInv, BrowserTypes, NothingIsOwned
  <2>2. CASE mode = "cdp"
    <3>1. context' = Default /\ owned' = FALSE /\ live' = live /\ made' = made
      BY <2>2 DEF Launch, Borrows
    <3>2. Default \in Nat
      BY DEF Default
    <3>3. QED
      BY <2>1, <2>2, <3>1, <3>2
  <2>3. CASE mode # "cdp"
    <3>1. made + 1 \in Nat /\ {made + 1} \subseteq Nat
      BY <2>1
    <3>2. /\ made' = made + 1 /\ context' = made + 1 /\ owned' = TRUE
          /\ live' = live \cup {made + 1}
      BY <2>3 DEF Launch, Borrows
    <3>3. QED
      BY <2>1, <2>3, <3>1, <3>2
  <2>4. QED
    BY <2>2, <2>3
<1>3. recycleRequested' \in BOOLEAN /\ activePages' \in Nat /\ activePages' > 0
  BY <1>1 DEF BrowserInv, BrowserTypes, IsUsedUp
<1>4. BrowserTypes'
  BY <1>1, <1>2, <1>3, PhaseKinds DEF BrowserInv, BrowserTypes, Goto, Unlock
<1>5. LockedIsHolder' /\ LockedState'
  BY <1>1, PhaseKinds, UnlockingMove
<1>6. PagesAreCounted'
  <2>1. PagesAreCounted /\ BrowserTypes
    BY DEF BrowserInv
  <2>2. \A u \in Task \ {t} : phase[u] \notin Recycling
    BY <1>1, PhaseKinds, OneHolder
  <2>3. phase[t] \notin Counted
    BY <1>1, PhaseKinds
  <2>4. closing = "no" => In(Counted) = {}
    BY <1>1 DEF BrowserInv, LockedState, PagesAreCounted, In
  <2>5. context' # NoContext
    BY <1>2 DEF NoContext
  <2>6. QED
    BY <1>1, <1>2, <2>1, <2>2, <2>3, <2>4, <2>5, OpeningKeepsCount
<1>7. RequestHasPage' /\ NothingIsOwned'
  BY <1>1, <1>2, <1>3 DEF BrowserInv, BrowserTypes, RequestHasPage, NothingIsOwned
<1>8. QED
  BY <1>4, <1>5, <1>6, <1>7 DEF BrowserInv

\* The last page to leave carries a requested recycle out, and no other does.
LEMMA LeaveKeeps ==
    ASSUME BrowserInv, NEW t \in Task, Leave(t) PROVE BrowserInv'
<1>1. /\ phase[t] = "leaving" /\ lock = Nobody
      /\ activePages' = IF activePages > 0 THEN activePages - 1 ELSE 0
      /\ UNCHANGED <<mode, started, owned, live, made, fetches, closing>>
  BY DEF Leave, held
<1>2. activePages \in Nat /\ activePages' \in Nat
  BY <1>1 DEF BrowserInv, BrowserTypes
<1>3. phase[t] \in Counted /\ phase[t] \notin Locked /\ t \in In(Counted)
  BY <1>1, PhaseKinds DEF In
<1>4. CASE recycleRequested /\ activePages' = 0
  <2>1. /\ lock' = t /\ Goto(t, "closing_old") /\ context' = NoContext
        /\ page' = [page EXCEPT ![t] = context]
        /\ requestCount' = 0 /\ recycleRequested' = FALSE
    BY <1>4 DEF Leave, Recycle, Fresh
  <2>2. phase' = [phase EXCEPT ![t] = "closing_old"] /\ phase \in [Task -> Phases]
    BY <2>1 DEF Goto, BrowserInv, BrowserTypes
  <2>3. BrowserTypes'
    BY <1>1, <1>2, <2>1, PhaseKinds DEF BrowserInv, BrowserTypes, Goto
  <2>4. \A u \in Task : phase'[u] \in Locked <=> u = t
    BY <1>1, <2>2, PhaseKinds, OneHolder
  <2>5. LockedIsHolder' /\ LockedState'
    BY <2>1, <2>2, <2>4, PhaseKinds DEF LockedIsHolder, LockedState
  <2>6. PagesAreCounted'
    <3> SUFFICES ASSUME closing = "no" PROVE PagesAreCounted'
      BY <1>1 DEF PagesAreCounted
    <3>1. "closing_old" \in Phases /\ "closing_old" \notin Counted
      BY PhaseKinds
    <3>2. /\ Cardinality(In(Counted))' = Cardinality(In(Counted)) - 1
          /\ In(Counted)' = In(Counted) \ {t}
      BY <1>3, <2>1, <2>2, <3>1, Counting
    <3>3. activePages = Cardinality(In(Counted))
      BY DEF BrowserInv, PagesAreCounted
    <3>4. Cardinality(In(Counted)) = 1 /\ activePages' = Cardinality(In(Counted)')
      BY <1>1, <1>2, <1>3, <1>4, <3>2, <3>3, CountedIsFinite, FS_EmptySet
    <3>5. In(Counted)' = {}
      BY <1>3, <3>2, <3>4, CountedIsFinite, FS_Singleton
    <3>6. \A u \in Task : phase'[u] \notin Counted
      BY <3>5 DEF In
    <3>7. QED
      BY <2>1, <3>4, <3>5, <3>6, PhaseKinds DEF PagesAreCounted
  <2>7. RequestHasPage' /\ NothingIsOwned'
    BY <1>1, <1>4, <2>1 DEF BrowserInv, RequestHasPage, NothingIsOwned
  <2>8. QED
    BY <2>3, <2>5, <2>6, <2>7 DEF BrowserInv
<1>5. CASE ~(recycleRequested /\ activePages' = 0)
  <2>1. /\ Goto(t, "idle") /\ page' = [page EXCEPT ![t] = NoContext]
        /\ UNCHANGED <<context, requestCount, recycleRequested, lock>>
    BY <1>5 DEF Leave, Return, held
  <2>2. phase' = [phase EXCEPT ![t] = "idle"] /\ phase \in [Task -> Phases]
        /\ page \in [Task -> {NoContext} \cup Nat]
    BY <2>1 DEF Goto, BrowserInv, BrowserTypes
  <2>3. BrowserTypes'
    BY <1>1, <1>2, <2>1, PhaseKinds DEF BrowserInv, BrowserTypes, Goto
  <2>4. LockedIsHolder' /\ LockedState'
    BY <1>1, <1>3, <2>1, PhaseKinds, UnlockedMove
  <2>5. PagesAreCounted'
    <3> SUFFICES ASSUME closing = "no" PROVE PagesAreCounted'
      BY <1>1 DEF PagesAreCounted
    <3>1. "idle" \in Phases /\ "idle" \notin Counted /\ "idle" \notin Recycling
          /\ "idle" # "open"
      BY PhaseKinds
    <3>2. /\ Cardinality(In(Counted))' = Cardinality(In(Counted)) - 1
          /\ In(Counted)' = In(Counted) \ {t}
      BY <1>3, <2>1, <2>2, <3>1, Counting
    <3>3. activePages' = Cardinality(In(Counted)')
      BY <1>1, <1>2, <1>3, <3>2, CountedIsFinite, FS_EmptySet DEF BrowserInv, PagesAreCounted
    <3>4. \A u \in Task : u # t => phase'[u] = phase[u] /\ page'[u] = page[u]
      BY <2>1, <2>2
    <3>5. phase'[t] = "idle"
      BY <2>2
    <3>6. QED
      BY <1>1, <2>1, <3>1, <3>2, <3>3, <3>4, <3>5 DEF BrowserInv, PagesAreCounted
  <2>6. RequestHasPage'
    BY <1>2, <1>5, <2>1 DEF BrowserInv, BrowserTypes, RequestHasPage
  <2>7. NothingIsOwned'
    BY <1>1, <2>1, <2>2, PhaseKinds DEF BrowserInv, NothingIsOwned
  <2>8. QED
    BY <2>3, <2>4, <2>5, <2>6, <2>7 DEF BrowserInv
<1>6. QED
  BY <1>4, <1>5

\* close() ends the promise on pages, and leaves a borrowed browser its context.
LEMMA CloseKeeps ==
    ASSUME BrowserInv, BeginClose \/ EndClose PROVE BrowserInv'
<1>1. CASE BeginClose
  BY <1>1 DEF BeginClose, CloseOld, held, counts, BrowserInv, BrowserTypes,
              LockedIsHolder, LockedState, PagesAreCounted, RequestHasPage, NothingIsOwned
<1>2. CASE EndClose
  <2>1. /\ closing' = "closed" /\ started' = FALSE /\ context' = NoContext
        /\ requestCount' = 0 /\ recycleRequested' = FALSE /\ activePages' = 0
        /\ live' = live \cap {Default}
        /\ UNCHANGED <<mode, owned, lock, phase, page, made, fetches>>
    BY <1>2 DEF EndClose, Fresh
  <2>2. BrowserTypes'
    BY <2>1 DEF BrowserInv, BrowserTypes
  <2>3. LockedIsHolder' /\ LockedState' /\ PagesAreCounted' /\ RequestHasPage'
    BY <2>1 DEF BrowserInv, LockedIsHolder, LockedState, PagesAreCounted, RequestHasPage
  <2>4. NothingIsOwned'
    BY <2>1 DEF BrowserInv, NothingIsOwned
  <2>5. QED
    BY <2>2, <2>3, <2>4 DEF BrowserInv
<1>3. QED
  BY <1>1, <1>2

LEMMA BrowserStepKeeps ==
    ASSUME BrowserInv, [BrowserNext]_browserVars PROVE BrowserInv'
<1>1. CASE UNCHANGED browserVars
  BY <1>1 DEF browserVars, held, counts, BrowserInv, BrowserTypes, LockedIsHolder,
              LockedState, PagesAreCounted, RequestHasPage, NothingIsOwned, In
<1>2. ASSUME NEW t \in Task, CallFetch(t) \/ Step(t) PROVE BrowserInv'
  BY <1>2, CallKeeps, EnterColdKeeps, EnterWarmKeeps, LaunchKeeps, OldIsClosedKeeps,
     CreateKeeps, GivingUpKeeps, PageEndsKeeps, LeaveKeeps DEF Step
<1>3. QED
  BY <1>1, <1>2, CloseKeeps DEF BrowserNext

LEMMA BrowserInvariant == BrowserSpec => []BrowserInv
<1>1. BrowserInit => BrowserInv
  BY InitBrowser
<1>2. BrowserInv /\ [BrowserNext]_browserVars => BrowserInv'
  BY BrowserStepKeeps
<1>3. QED
  BY <1>1, <1>2, PTL DEF BrowserSpec

--------------------
\* For any number of overlapping fetches and any max_requests_per_context, a
\* recycle closes no context that a page is open on: it is carried out by the
\* last counted page, and the lock keeps new pages out until it ends.  The
\* default context of a browser reached over CDP is never closed.
THEOREM ContextsOutliveTheirPages == BrowserSpec => []ContextsAreKept
<1>1. BrowserInv => PagesKeepTheirContext
  BY DEF BrowserInv, PagesAreCounted, PagesKeepTheirContext, In
<1>2. BrowserInv => BorrowedIsKept
  BY DEF BrowserInv, NothingIsOwned, BorrowedIsKept
<1>3. BrowserInv => ContextsAreKept
  BY <1>1, <1>2 DEF ContextsAreKept
<1>4. QED
  BY <1>3, BrowserInvariant, PTL

\* A requested recycle always has a counted page that will carry it out.
THEOREM RecyclesAreCarried == BrowserSpec => []RecycleHasACarrier
<1>1. BrowserInv => RecycleHasACarrier
  BY DEF BrowserInv, RequestHasPage, RecycleHasACarrier
<1>2. QED
  BY <1>1, BrowserInvariant, PTL

\* Both: no context closes under a page, and no recycle is forgotten.
THEOREM ContextsServe == BrowserSpec => []ContextsServeTheirPages
BY ContextsOutliveTheirPages, RecyclesAreCarried,
   PTL DEF ContextsServeTheirPages

--------------------
(*
ProxyPool
*)
\* In turns, how often a proxy was passed over and how far ahead it lies add up
\* to less than a round.
PoolInv ==
    /\ rotation \in Rotations
    /\ cooling \in [Proxy -> Nat]
    /\ passedOver \in [Proxy -> Nat]
    /\ assigned \in [Host -> Proxy \cup {NoProxy}]
    /\ rotation = "round-robin" => /\ rrIndex \in 0..(Size - 1)
                                   /\ \A p \in Proxy : passedOver[p] + Ahead(p) < Size

\* What is left of the next proxies when the index is at r.
LEMMA AheadIsTheDistance ==
    ASSUME PoolConstants, rrIndex \in 0..(Size - 1), NEW p \in Proxy
    PROVE  Ahead(p) = IF p - 1 >= rrIndex THEN p - 1 - rrIndex ELSE p - 1 - rrIndex + Size
BY DEF PoolConstants, Proxy, Ahead

LEMMA NextLiveIsNext ==
    ASSUME PoolConstants, rrIndex \in 0..(Size - 1), Available # {}
    PROVE  NextLive \in Available /\ \A q \in Available : Ahead(NextLive) <= Ahead(q)
<1> DEFINE before(p) == {q \in Available : Ahead(q) < Ahead(p)}
           family == {before(p) : p \in Available}
<1>1. IsFiniteSet(Available) /\ Available \subseteq Proxy
  <2>1. Size \in Int /\ 1 \in Int
    BY DEF PoolConstants
  <2>2. IsFiniteSet(Proxy)
    BY <2>1, FS_Interval DEF Proxy
  <2>3. Available \subseteq Proxy
    BY DEF Available
  <2> QED
    BY <2>2, <2>3, FS_Subset
<1>2. \A p \in Available : Ahead(p) \in Int
  BY <1>1, AheadIsTheDistance DEF PoolConstants, Proxy
<1>3. IsWellFoundedOn(StrictSubsetOrdering(Available), FiniteSubsetsOf(Available))
  BY FS_StrictSubsetOrderingWellFounded
<1>4. family \subseteq FiniteSubsetsOf(Available) /\ family # {}
  <2>1. FiniteSubsetsOf(Available) = SUBSET Available
    BY <1>1, FS_FiniteSubsetsOfFinite
  <2>2. \A p \in Available : before(p) \in SUBSET Available
    OBVIOUS
  <2> HIDE DEF before
  <2>3. family \subseteq SUBSET Available
    BY <2>2
  <2> QED
    BY <2>1, <2>3
<1>5. PICK least \in family :
          \A other \in family : ~(<<other, least>> \in StrictSubsetOrdering(Available))
  <2> HIDE DEF family
  <2> QED
    BY <1>3, <1>4, WFMin
<1>6. PICK p \in Available : least = before(p)
  BY <1>5
<1>7. before(p) = {}
  <2> SUFFICES ASSUME NEW q \in before(p)
               PROVE  FALSE
    OBVIOUS
  <2>1. before(q) \subseteq before(p) /\ q \notin before(q) /\ before(q) \in family
    BY <1>2
  <2>2. <<before(q), before(p)>> \in StrictSubsetOrdering(Available)
    BY <2>1 DEF StrictSubsetOrdering
  <2> QED
    BY <1>5, <1>6, <2>1, <2>2
<1>8. \A q \in Available : Ahead(p) <= Ahead(q)
  BY <1>2, <1>7
<1> QED
  BY <1>8, Zenon DEF NextLive

\* Places on a ring of n, seen from r and, when the place a is behind, from there.
LEMMA PlacesOnARing ==
    ASSUME NEW n \in Nat \ {0}, NEW r \in 0..(n - 1), NEW b \in 1..n
    PROVE  /\ (IF b - 1 >= r THEN b - 1 - r ELSE b - 1 - r + n) \in 0..(n - 1)
           /\ \A a \in 1..n, t \in 0..(n - 1) :
                /\ a # b /\ t = (IF a = n THEN 0 ELSE a)
                /\ (IF a - 1 >= r THEN a - 1 - r ELSE a - 1 - r + n)
                       <= (IF b - 1 >= r THEN b - 1 - r ELSE b - 1 - r + n)
                => (IF b - 1 >= t THEN b - 1 - t ELSE b - 1 - t + n) + 1
                       <= (IF b - 1 >= r THEN b - 1 - r ELSE b - 1 - r + n)
OBVIOUS

\* A choice takes the next live proxy, and every other comes a place nearer.
LEMMA TurnsComeNearer ==
    ASSUME PoolConstants, PoolInv, rotation = "round-robin", NEW p \in Proxy, SelectRoundRobin(p)
    PROVE  /\ rrIndex' \in 0..(Size - 1)
           /\ \A q \in Proxy : Ahead(q)' < Size
           /\ \A q \in Available \ {p} : Ahead(q)' + 1 <= Ahead(q)
<1>1. Size \in Nat \ {0} /\ p \in 1..Size /\ rrIndex \in 0..(Size - 1) /\ Proxy = 1..Size
  BY DEF PoolConstants, PoolInv, Proxy
<1>2. rrIndex' = IF Available # {} THEN p % Size ELSE rrIndex
  BY DEF SelectRoundRobin
<1>3. p % Size = IF p = Size THEN 0 ELSE p
  BY <1>1
<1>4. rrIndex' \in 0..(Size - 1)
  BY <1>1, <1>2, <1>3
<1>5. \A q \in Proxy : Ahead(q) = IF q - 1 >= rrIndex THEN q - 1 - rrIndex ELSE q - 1 - rrIndex + Size
  BY <1>1, AheadIsTheDistance
<1>6. \A q \in Proxy :
          Ahead(q)' = IF q - 1 >= rrIndex' THEN q - 1 - rrIndex' ELSE q - 1 - rrIndex' + Size
  <2>1. \A n \in 1..Size, r \in 0..(Size - 1) :
            (n - 1 - r) % Size = IF n - 1 >= r THEN n - 1 - r ELSE n - 1 - r + Size
    BY <1>1
  <2> QED
    BY <1>1, <1>4, <2>1 DEF Ahead
<1>7. ASSUME NEW q \in Proxy
      PROVE  Ahead(q)' < Size
  BY <1>1, <1>4, <1>6, PlacesOnARing
<1>8. ASSUME NEW q \in Available \ {p}
      PROVE  Ahead(q)' + 1 <= Ahead(q)
  <2>1. p \in Available /\ Ahead(p) <= Ahead(q)
    BY <1>1, <1>8, NextLiveIsNext DEF SelectRoundRobin
  <2>2. q \in 1..Size /\ q # p
    BY <1>8 DEF Available, Proxy
  <2>3. rrIndex' = IF p = Size THEN 0 ELSE p
    BY <1>2, <1>3, <1>8
  <2>4. /\ Ahead(p) = IF p - 1 >= rrIndex THEN p - 1 - rrIndex ELSE p - 1 - rrIndex + Size
        /\ Ahead(q) = IF q - 1 >= rrIndex THEN q - 1 - rrIndex ELSE q - 1 - rrIndex + Size
    BY <1>1, <1>5, <2>2
  <2>5. Ahead(q)' = IF q - 1 >= rrIndex' THEN q - 1 - rrIndex' ELSE q - 1 - rrIndex' + Size
    BY <1>1, <1>6, <2>2
  <2> QED
    BY <1>1, <1>4, <2>1, <2>2, <2>3, <2>4, <2>5, PlacesOnARing
<1> QED
  BY <1>4, <1>7, <1>8

LEMMA SelectKeepsPool ==
    ASSUME PoolConstants, PoolInv, NEW host \in Host, NEW p \in Proxy, Select(host, p)
    PROVE  PoolInv'
<1>1. UNCHANGED <<rotation, cooling>>
  BY DEF Select
<1>2. passedOver' = [q \in Proxy |->
           IF rotation # "round-robin" \/ q = p \/ cooling[q] > 0 THEN 0
           ELSE passedOver[q] + 1]
  BY DEF Select
<1>3. passedOver' \in [Proxy -> Nat]
  BY <1>2 DEF PoolInv
<1>4. assigned' \in [Host -> Proxy \cup {NoProxy}]
  BY DEF PoolInv, Select, SelectRoundRobin, SelectPerHost
<1>5. CASE rotation # "round-robin"
  BY <1>1, <1>3, <1>4, <1>5 DEF PoolInv
<1>6. CASE rotation = "round-robin"
  <2>1. SelectRoundRobin(p)
    BY <1>6 DEF Select
  <2>2. /\ rrIndex' \in 0..(Size - 1)
        /\ \A q \in Proxy : Ahead(q)' < Size
        /\ \A q \in Available \ {p} : Ahead(q)' + 1 <= Ahead(q)
    BY <1>6, <2>1, TurnsComeNearer
  <2>3. \A q \in Proxy : Ahead(q) \in Int /\ Ahead(q)' \in Int
    <3>1. Size \in Nat \ {0} /\ rrIndex \in Int /\ rrIndex' \in Int /\ Proxy \subseteq Int
      BY <1>6, <2>2 DEF PoolConstants, PoolInv, Proxy
    <3> QED
      BY <3>1 DEF Ahead
  <2>4. ASSUME NEW q \in Proxy
        PROVE  passedOver'[q] + Ahead(q)' < Size
    BY <1>2, <1>6, <2>2, <2>3 DEF Available, PoolInv, PoolConstants
  <2> QED
    BY <1>1, <1>3, <1>4, <2>2, <2>4 DEF PoolInv
<1> QED
  BY <1>5, <1>6

LEMMA ReportsKeepPool ==
    ASSUME PoolConstants, PoolInv, NEW p \in Proxy, ReportSuccess(p) \/ ReportFailure(p)
    PROVE  PoolInv'
<1>1. UNCHANGED <<rotation, rrIndex>>
  BY DEF ReportSuccess, ReportFailure
<1>2. cooling' \in [Proxy -> Nat] /\ assigned' \in [Host -> Proxy \cup {NoProxy}]
  BY DEF ReportSuccess, ReportFailure, PoolInv, PoolConstants
<1>3. passedOver' \in [Proxy -> Nat] /\ \A q \in Proxy : passedOver'[q] <= passedOver[q]
  BY DEF ReportSuccess, ReportFailure, PoolInv
<1>4. ASSUME rotation = "round-robin", NEW q \in Proxy
      PROVE  passedOver'[q] + Ahead(q)' < Size
  <2>1. Ahead(q)' = Ahead(q)
    BY <1>1 DEF Ahead
  <2>2. Ahead(q) \in Int /\ Size \in Int
    BY <1>4 DEF PoolConstants, PoolInv, Proxy, Ahead
  <2>3. passedOver[q] + Ahead(q) < Size /\ passedOver[q] \in Nat /\ passedOver'[q] \in Nat
        /\ passedOver'[q] <= passedOver[q]
    BY <1>3, <1>4 DEF PoolInv
  <2> QED
    BY <2>1, <2>2, <2>3
<1> QED
  BY <1>1, <1>2, <1>3, <1>4 DEF PoolInv

LEMMA RestKeepsPool ==
    ASSUME PoolInv, PoolTick \/ UNCHANGED poolVars
    PROVE  PoolInv'
BY DEF PoolTick, poolVars, PoolInv, Ahead

\* A host's proxy changes only when that is benched or was cooling.
LEMMA SelectKeepsAssignments ==
    ASSUME PoolInv, NEW host \in Host, NEW p \in Proxy, Select(host, p), rotation = "per-host",
           NEW h \in Host, KeepsAssignment(h)
    PROVE  assigned'[h] = assigned[h]
BY DEF Select, SelectPerHost, KeepsAssignment, PoolInv

LEMMA ReportsKeepAssignments ==
    ASSUME PoolConstants, PoolInv, NEW p \in Proxy, ReportSuccess(p) \/ ReportFailure(p),
           NEW h \in Host, KeepsAssignment(h)
    PROVE  assigned'[h] = assigned[h] \/ cooling'[assigned[h]] > 0
BY DEF ReportSuccess, ReportFailure, KeepsAssignment, PoolInv, PoolConstants

--------------------
(*
ListCrawl
*)
\* A URL waits once if it is neither in flight nor answered, and is not both.
ListInv ==
    /\ loop \in {"snapshot", "wait", "ended"}
    /\ pending \in Seq(Index)
    /\ tasks \in [Index -> {"none", "running", "fetching"} \cup Results]
    /\ proxy \in [Index -> Proxy \cup {NoProxy}]
    /\ \A i \in Index : tasks[i] = "fetching" => proxy[i] \in Proxy
    /\ ordered \in [Index -> {"none"} \cup Results]
    /\ \A k, l \in DOMAIN pending : pending[k] = pending[l] => k = l
    /\ \A i \in Index : (\E k \in DOMAIN pending : pending[k] = i)
                            <=> tasks[i] = "none" /\ ordered[i] = "none"
    /\ \A i \in Index : tasks[i] # "none" => ordered[i] = "none"
    /\ loop = "ended" => InFlight = {} /\ (Stopping \/ pending = <<>>)

LEMMA InitList ==
    ASSUME ListConstants, ListInit
    PROVE  PoolInv /\ ListInv
BY AheadIsTheDistance DEF ListConstants, ListInit, ListInv, Index, PoolInit, PoolConstants, Proxy,
   PoolInv

\* A step of a task touches its own state only, and ends no URL's turn.
LEMMA TasksKeepList ==
    ASSUME ListConstants, ListInv, NEW i \in Index, CrawlStep(i)
    PROVE  ListInv'
<1>1. UNCHANGED <<loop, pending, ordered, stopRequested, exhausted>>
  BY DEF CrawlStep, SkipPage, BeginFetch, FetchAnswers, FetchRaises, FetchIsEmpty, EndTask,
         RetryThroughGateway
<1>2. /\ tasks[i] # "none"
      /\ \E s \in {"fetching"} \cup Results :
            /\ tasks' = [tasks EXCEPT ![i] = s]
            /\ s = "fetching" => proxy'[i] \in Proxy
      /\ proxy' \in [Index -> Proxy \cup {NoProxy}]
      /\ \A j \in Index \ {i} : proxy'[j] = proxy[j]
  <2> USE DEF ListInv, Results
  <2>1. CASE SkipPage(i)
    BY <2>1 DEF SkipPage
  <2>2. CASE BeginFetch(i)
    BY <2>2 DEF BeginFetch
  <2>3. CASE FetchAnswers(i) \/ FetchRaises(i) \/ FetchIsEmpty(i)
    BY <2>3 DEF FetchAnswers, FetchRaises, FetchIsEmpty, EndTask
  <2>4. CASE RetryThroughGateway(i)
    BY <2>4 DEF RetryThroughGateway
  <2> QED
    BY <2>1, <2>2, <2>3, <2>4 DEF CrawlStep
<1>3. loop # "ended"
  BY <1>2 DEF ListInv, InFlight
<1>4. PICK s \in {"fetching"} \cup Results :
          tasks' = [tasks EXCEPT ![i] = s] /\ (s = "fetching" => proxy'[i] \in Proxy)
  BY <1>2
<1>5. /\ \A j \in Index : tasks'[j] = IF j = i THEN s ELSE tasks[j]
      /\ tasks' \in [Index -> {"none", "running", "fetching"} \cup Results]
      /\ s # "none"
  BY <1>4 DEF ListInv, Results
<1>6. \A j \in Index : tasks'[j] = "none" <=> tasks[j] = "none"
  BY <1>2, <1>5
<1>7. \A j \in Index : tasks'[j] = "fetching" => proxy'[j] \in Proxy
  BY <1>2, <1>4, <1>5 DEF ListInv
<1> QED
  BY <1>1, <1>2, <1>3, <1>5, <1>6, <1>7 DEF ListInv

\* What is taken from the front of the list is no longer on it.
LEMMA FillKeepsList ==
    ASSUME ListConstants, ListInv, Fill
    PROVE  ListInv'
<1>1. PICK limit \in 1..MaxConcurrency :
          LET free == IF limit > Cardinality(InFlight)
                      THEN limit - Cardinality(InFlight) ELSE 0
              n == IF Stopping THEN 0
                   ELSE IF free < Len(pending) THEN free ELSE Len(pending)
              taken == {pending[k] : k \in 1..n}
          IN  /\ tasks' = [i \in Index |-> IF i \in taken THEN "running" ELSE tasks[i]]
              /\ pending' = SubSeq(pending, n + 1, Len(pending))
              /\ loop' = IF IsDrained(taken) THEN "ended" ELSE "wait"
  BY DEF Fill
<1> DEFINE free == IF limit > Cardinality(InFlight) THEN limit - Cardinality(InFlight) ELSE 0
           n == IF Stopping THEN 0 ELSE IF free < Len(pending) THEN free ELSE Len(pending)
           taken == {pending[k] : k \in 1..n}
<1>2. /\ tasks' = [i \in Index |-> IF i \in taken THEN "running" ELSE tasks[i]]
      /\ pending' = SubSeq(pending, n + 1, Len(pending))
      /\ loop' = IF IsDrained(taken) THEN "ended" ELSE "wait"
      /\ UNCHANGED <<proxy, ordered, stopRequested, exhausted>>
  BY <1>1 DEF Fill
<1>3. Len(pending) \in Nat /\ limit \in Nat \ {0} /\ Cardinality(InFlight) \in Nat
  <2>1. IsFiniteSet(InFlight)
    BY FS_Interval, FS_Subset DEF InFlight, Index, ListConstants
  <2> QED
    BY <2>1, FS_CardinalityType DEF ListInv, ListConstants
<1>4. n \in 0..Len(pending) /\ (n = 0 => Stopping \/ pending = <<>> \/ InFlight # {})
  <2>1. InFlight = {} => Cardinality(InFlight) = 0
    BY FS_EmptySet
  <2>2. Len(pending) = 0 => pending = <<>>
    BY DEF ListInv
  <2> QED
    BY <1>3, <2>1, <2>2
<1>5. n \in Nat
  BY <1>3, <1>4
<1> HIDE DEF n
<1>6. /\ pending' \in Seq(Index) /\ Len(pending') = Len(pending) - n
      /\ \A k \in 1..Len(pending') : pending'[k] = pending[k + n]
  BY <1>2, <1>3, <1>4 DEF ListInv
<1>7. DOMAIN pending = 1..Len(pending) /\ DOMAIN pending' = 1..Len(pending')
  BY <1>6 DEF ListInv
<1>8. \A i \in taken : tasks[i] = "none" /\ ordered[i] = "none" /\ i \in Index
  BY <1>3, <1>4, <1>7 DEF ListInv
<1>9. ASSUME NEW k \in DOMAIN pending', NEW l \in DOMAIN pending', pending'[k] = pending'[l]
      PROVE  k = l
  <2>1. k + n \in DOMAIN pending /\ l + n \in DOMAIN pending /\ k \in Nat /\ l \in Nat
    BY <1>3, <1>5, <1>6, <1>7
  <2>2. pending[k + n] = pending[l + n]
    BY <1>6, <1>7, <1>9
  <2>3. k + n = l + n
    BY <2>1, <2>2 DEF ListInv
  <2> QED
    BY <1>5, <2>1, <2>3
<1>10. \A i \in Index : (\E k \in DOMAIN pending' : pending'[k] = i)
                            <=> (\E k \in DOMAIN pending : pending[k] = i) /\ i \notin taken
  <2> SUFFICES ASSUME NEW i \in Index
               PROVE  (\E k \in DOMAIN pending' : pending'[k] = i)
                            <=> (\E k \in DOMAIN pending : pending[k] = i) /\ i \notin taken
    OBVIOUS
  <2>1. ASSUME NEW k \in DOMAIN pending', pending'[k] = i
        PROVE  (\E l \in DOMAIN pending : pending[l] = i) /\ i \notin taken
    <3>1. k + n \in DOMAIN pending /\ pending[k + n] = i /\ k + n \notin 1..n
      BY <1>3, <1>5, <1>4, <1>6, <1>7, <2>1
    <3>2. \A l \in 1..n : l \in DOMAIN pending /\ l # k + n
      BY <1>3, <1>4, <1>7, <3>1
    <3> QED
      BY <3>1, <3>2 DEF ListInv
  <2>2. ASSUME NEW k \in DOMAIN pending, pending[k] = i, i \notin taken
        PROVE  \E l \in DOMAIN pending' : pending'[l] = i
    <3>1. k \notin 1..n
      BY <2>2
    <3>2. k - n \in DOMAIN pending' /\ pending'[k - n] = pending[k - n + n] /\ k - n + n = k
      BY <1>3, <1>4, <1>5, <1>6, <1>7, <3>1
    <3> QED
      BY <2>2, <3>2
  <2> QED
    BY <2>1, <2>2
<1>11. tasks' \in [Index -> {"none", "running", "fetching"} \cup Results]
  BY <1>2 DEF ListInv
<1>12. \A i \in Index : tasks'[i] = IF i \in taken THEN "running" ELSE tasks[i]
  BY <1>2
<1>13. \A i \in Index : (\E k \in DOMAIN pending' : pending'[k] = i)
                            <=> tasks'[i] = "none" /\ ordered'[i] = "none"
  BY <1>2, <1>8, <1>10, <1>12 DEF ListInv
<1>14. ASSUME loop' = "ended"
       PROVE  InFlight' = {} /\ (Stopping' \/ pending' = <<>>)
  <2>1. InFlight = {} /\ taken = {}
    BY <1>2, <1>14 DEF IsDrained
  <2>2. InFlight' = {}
    BY <1>12, <2>1 DEF InFlight
  <2>3. n = 0
    <3>1. 1 \notin 1..n
      BY <2>1
    <3> QED
      BY <1>5, <3>1
  <2>4. Stopping \/ pending = <<>>
    BY <1>4, <2>1, <2>3
  <2>5. Stopping' <=> Stopping
    BY <1>2 DEF Stopping
  <2>6. pending = <<>> => pending' = <<>>
    BY <1>6, <1>3, <1>5
  <2> QED
    BY <2>2, <2>4, <2>5, <2>6
<1> HIDE DEF taken
<1>15. /\ \A i \in Index : tasks'[i] = "fetching" => proxy'[i] \in Proxy
       /\ \A i \in Index : tasks'[i] # "none" => ordered'[i] = "none"
       /\ loop' \in {"snapshot", "wait", "ended"}
  BY <1>2, <1>8, <1>12 DEF ListInv
<1> QED
  BY <1>2, <1>6, <1>9, <1>11, <1>13, <1>14, <1>15 DEF ListInv

\* Each ended task leaves a result or goes back on the list, once.
LEMMA CollectKeepsList ==
    ASSUME ListConstants, ListInv, Collect
    PROVE  ListInv'
<1> DEFINE again == {i \in Ended : IsRetried(i)}
<1>1. PICK front \in SetToSeqs(again) : pending' = front \o pending
  BY DEF Collect
<1>2. /\ ordered' = [i \in Index |-> IF i \in Ended \ again THEN tasks[i] ELSE ordered[i]]
      /\ tasks' = [i \in Index |-> IF i \in Ended THEN "none" ELSE tasks[i]]
      /\ loop' = IF pending' = <<>> /\ InFlight = Ended THEN "ended" ELSE "snapshot"
      /\ UNCHANGED <<proxy, stopRequested, exhausted>>
  BY DEF Collect
<1>3. IsFiniteSet(again) /\ again \subseteq Ended /\ Ended \subseteq Index
  BY FS_Interval, FS_Subset DEF Ended, Index, ListConstants
<1>4. Cardinality(again) \in Nat
  BY <1>3, FS_CardinalityType
<1>5. /\ front \in [1..Cardinality(again) -> again]
      /\ \A k, l \in 1..Cardinality(again) : k # l => front[k] # front[l]
  BY <1>1, Zenon DEF SetToSeqs
<1>6. \A i \in again : \E k \in 1..Cardinality(again) : front[k] = i
  <2>1. front \in Injection(1..Cardinality(again), again)
    BY <1>5 DEF Injection, IsInjective
  <2>2. Cardinality(1..Cardinality(again)) = Cardinality(again)
    BY <1>4, FS_Interval
  <2>3. front \in Surjection(1..Cardinality(again), again)
    BY <1>3, <2>1, <2>2, FS_Injection
  <2> QED
    BY <2>3 DEF Surjection
<1> HIDE DEF again
<1>7. front \in Seq(Index) /\ Len(front) = Cardinality(again) /\ front \in Seq(again)
  BY <1>3, <1>4, <1>5
<1>8. /\ pending' \in Seq(Index) /\ Len(pending') = Len(front) + Len(pending)
      /\ \A k \in 1..Len(pending') :
            pending'[k] = IF k <= Len(front) THEN front[k] ELSE pending[k - Len(front)]
  <2>1. pending \in Seq(Index)
    BY DEF ListInv
  <2> HIDE DEF ListInv
  <2> QED
    BY <1>1, <1>7, <2>1, ConcatProperties
<1>9. /\ DOMAIN pending = 1..Len(pending) /\ DOMAIN pending' = 1..Len(pending')
      /\ Len(pending) \in Nat /\ Len(front) \in Nat
  <2>1. pending \in Seq(Index)
    BY DEF ListInv
  <2> HIDE DEF ListInv
  <2> QED
    BY <1>7, <1>8, <2>1, LenProperties
<1>10. \A k \in 1..Len(front) : front[k] \in again
  BY <1>5, <1>7
<1>11. \A i \in Ended : tasks[i] \in Results /\ tasks[i] # "none" /\ ordered[i] = "none"
  BY <1>3 DEF Ended, Results, ListInv
<1>12. \A k \in DOMAIN pending : pending[k] \notin Ended
  BY <1>3, <1>11, <1>9 DEF ListInv
<1>13. \A k, l \in DOMAIN pending' : pending'[k] = pending'[l] => k = l
  <2> SUFFICES ASSUME NEW k \in DOMAIN pending', NEW l \in DOMAIN pending', k < l
               PROVE  pending'[k] # pending'[l]
    BY <1>9
  <2>1. CASE l <= Len(front)
    BY <1>5, <1>7, <1>8, <1>9, <2>1
  <2>2. CASE k <= Len(front) /\ Len(front) < l
    BY <1>3, <1>8, <1>9, <1>10, <1>12, <2>2
  <2>3. CASE Len(front) < k
    <3>1. /\ k - Len(front) \in DOMAIN pending /\ l - Len(front) \in DOMAIN pending
          /\ pending'[k] = pending[k - Len(front)] /\ pending'[l] = pending[l - Len(front)]
          /\ k - Len(front) # l - Len(front)
      BY <1>8, <1>9, <2>3
    <3> QED
      BY <3>1 DEF ListInv
  <2> QED
    BY <1>9, <2>1, <2>2, <2>3
<1>14. \A i \in Index : (\E k \in DOMAIN pending' : pending'[k] = i)
                            <=> i \in again \/ \E k \in DOMAIN pending : pending[k] = i
  <2> SUFFICES ASSUME NEW i \in Index
               PROVE  (\E k \in DOMAIN pending' : pending'[k] = i)
                            <=> i \in again \/ \E k \in DOMAIN pending : pending[k] = i
    OBVIOUS
  <2>1. ASSUME NEW k \in DOMAIN pending', pending'[k] = i
        PROVE  i \in again \/ \E l \in DOMAIN pending : pending[l] = i
    BY <1>8, <1>9, <1>10, <2>1
  <2>2. ASSUME i \in again
        PROVE  \E k \in DOMAIN pending' : pending'[k] = i
    <3>1. PICK k \in 1..Len(front) : front[k] = i
      BY <1>6, <1>7, <2>2
    <3>2. k \in DOMAIN pending' /\ pending'[k] = front[k]
      BY <1>8, <1>9
    <3> QED
      BY <3>1, <3>2
  <2>3. ASSUME NEW k \in DOMAIN pending, pending[k] = i
        PROVE  \E l \in DOMAIN pending' : pending'[l] = i
    <3>1. /\ k + Len(front) \in DOMAIN pending' /\ k + Len(front) - Len(front) = k
          /\ pending'[k + Len(front)] = pending[k + Len(front) - Len(front)]
      BY <1>8, <1>9
    <3> QED
      BY <2>3, <3>1
  <2> QED
    BY <2>1, <2>2, <2>3
<1>15. /\ \A i \in Index : tasks'[i] = IF i \in Ended THEN "none" ELSE tasks[i]
       /\ \A i \in Index : ordered'[i] = IF i \in Ended \ again THEN tasks[i] ELSE ordered[i]
  BY <1>2
<1>16. \A i \in Index : (\E k \in DOMAIN pending' : pending'[k] = i)
                            <=> tasks'[i] = "none" /\ ordered'[i] = "none"
  BY <1>3, <1>11, <1>14, <1>15 DEF ListInv
<1>17. /\ tasks' \in [Index -> {"none", "running", "fetching"} \cup Results]
       /\ ordered' \in [Index -> {"none"} \cup Results]
  BY <1>2, <1>11 DEF ListInv
<1>18. \A i \in Index : tasks'[i] # "none" => ordered'[i] = "none"
  BY <1>15 DEF ListInv
<1>19. \A i \in Index : tasks'[i] = "fetching" => proxy'[i] \in Proxy
  BY <1>2, <1>15 DEF ListInv
<1>20. ASSUME loop' = "ended"
       PROVE  InFlight' = {} /\ pending' = <<>>
  BY <1>2, <1>15, <1>20 DEF InFlight
<1>21. loop' \in {"snapshot", "wait", "ended"}
  BY <1>2
<1> QED
  BY <1>2, <1>8, <1>13, <1>16, <1>17, <1>18, <1>19, <1>20, <1>21 DEF ListInv

LEMMA StepKeepsList ==
    ASSUME ListConstants, PoolInv, ListInv, [ListNext]_allVars
    PROVE  /\ PoolInv' /\ ListInv'
           /\ \A h \in Host : rotation = "per-host" /\ KeepsAssignment(h)
                  => assigned'[h] = assigned[h] \/ cooling'[assigned[h]] > 0
<1> DEFINE HostsKeep == \A h \in Host : rotation = "per-host" /\ KeepsAssignment(h)
                            => assigned'[h] = assigned[h] \/ cooling'[assigned[h]] > 0
<1>0. PoolConstants /\ \A i \in Index : UrlHost[i] \in Host
  BY DEF ListConstants, Index
<1>1. ASSUME NEW i \in Index, CrawlStep(i)
      PROVE  PoolInv' /\ HostsKeep
  <2>1. CASE SkipPage(i) \/ FetchIsEmpty(i)
    BY <2>1, RestKeepsPool DEF SkipPage, FetchIsEmpty, poolVars
  <2>2. CASE BeginFetch(i)
    BY <1>0, <2>2, SelectKeepsPool, SelectKeepsAssignments DEF BeginFetch
  <2>3. CASE FetchAnswers(i) \/ FetchRaises(i)
    BY <1>0, <2>3, ReportsKeepPool, ReportsKeepAssignments DEF FetchAnswers, FetchRaises, EndTask,
       ListInv
  <2>4. CASE RetryThroughGateway(i)
    BY <1>0, <2>4, SelectKeepsPool, SelectKeepsAssignments DEF RetryThroughGateway, ListInv
  <2> QED
    BY <1>1, <2>1, <2>2, <2>3, <2>4 DEF CrawlStep
<1>2. CASE \E i \in Index : CrawlStep(i)
  BY <1>1, <1>2, TasksKeepList
<1>3. CASE Fill \/ Collect
  BY <1>3, RestKeepsPool, FillKeepsList, CollectKeepsList DEF Fill, Collect, poolVars
<1>4. CASE RequestStop \/ RunOut
  BY <1>4, RestKeepsPool DEF RequestStop, RunOut, ListInv, poolVars
<1>5. CASE TimePasses
  BY <1>5, RestKeepsPool DEF TimePasses, PoolTick, listVars, ListInv, InFlight, Stopping
<1>6. CASE UNCHANGED allVars
  BY <1>6, RestKeepsPool DEF allVars, listVars, ListInv, InFlight, Stopping, poolVars
<1> QED
  BY <1>2, <1>3, <1>4, <1>5, <1>6 DEF ListNext, LoopStep

LEMMA AnswersFollow ==
    ASSUME ListInv
    PROVE  EveryUrlIsAnswered
<1>1. ASSUME NEW i \in Index
      PROVE  Cardinality({k \in DOMAIN pending : pending[k] = i})
                 = IF tasks[i] = "none" /\ ordered[i] = "none" THEN 1 ELSE 0
  <2>1. CASE tasks[i] = "none" /\ ordered[i] = "none"
    <3>1. PICK k \in DOMAIN pending : pending[k] = i
      BY <2>1 DEF ListInv
    <3>2. {l \in DOMAIN pending : pending[l] = i} = {k}
      BY <3>1 DEF ListInv
    <3> QED
      BY <2>1, <3>2, FS_Singleton
  <2>2. CASE ~(tasks[i] = "none" /\ ordered[i] = "none")
    <3>1. {l \in DOMAIN pending : pending[l] = i} = {}
      BY <2>2 DEF ListInv
    <3> QED
      BY <2>2, <3>1, FS_EmptySet
  <2> QED
    BY <2>1, <2>2
<1>2. ASSUME loop = "ended", ~Stopping, NEW i \in Index
      PROVE  ordered[i] # "none"
  BY <1>2 DEF ListInv, InFlight
<1> QED
  BY <1>1, <1>2 DEF EveryUrlIsAnswered

LEMMA RotationFollows ==
    ASSUME PoolConstants, PoolInv
    PROVE  RotationIsFair
<1> SUFFICES ASSUME rotation = "round-robin", NEW p \in Available
             PROVE  passedOver[p] < Size
  BY DEF RotationIsFair
<1>1. p \in Proxy
  BY DEF Available
<1>2. rrIndex \in 0..(Size - 1) /\ passedOver[p] \in Nat /\ passedOver[p] + Ahead(p) < Size
  BY <1>1 DEF PoolInv
<1>3. Ahead(p) \in Nat /\ Size \in Nat
  BY <1>1, <1>2, AheadIsTheDistance DEF PoolConstants, Proxy
<1> QED
  BY <1>2, <1>3

\* Every URL of a list is waiting, in flight or answered, no live proxy is passed
\* over by a round of selections and a host keeps its proxy until that is benched
\* (crawl_many of engine.py over proxy_pool.py), for lists and pools of any size.
THEOREM ListsAreFair == ListSpec => ListsAreServed
<1>0. ListConstants /\ PoolConstants
  BY ListAssumption DEF ListConstants
<1>1. ListInit => PoolInv /\ ListInv
  BY <1>0, InitList
<1>2. PoolInv /\ ListInv /\ [ListNext]_allVars => (PoolInv /\ ListInv)'
  BY <1>0, StepKeepsList
<1>3. PoolInv /\ ListInv => EveryUrlIsAnswered /\ RotationIsFair
  BY <1>0, AnswersFollow, RotationFollows
<1>4. PoolInv /\ ListInv /\ [ListNext]_allVars
          => [\A h \in Host : rotation = "per-host" /\ KeepsAssignment(h)
                 => assigned'[h] = assigned[h] \/ cooling'[assigned[h]] > 0]_poolVars
  BY <1>0, StepKeepsList
<1> QED
  BY <1>1, <1>2, <1>3, <1>4, PTL DEF ListSpec, ListsAreServed, HostsKeepTheirProxy

--------------------
(*
The collection of current sitemaps.
*)
Item == File \X BOOLEAN \X Nat
Queued == {item[1] : item \in ToSet(files)}
HasEntry(f, k) == <<f, k>> \in ToSet(entries)

SiteTypes ==
    /\ children \in [File -> Seq(File)] /\ answer \in [File -> Answers]
    /\ readable \subseteq ToSet(Seed) /\ budget \in Nat
    /\ step \in {"begin", "refused", "roots", "walk", "select", "told"}
    /\ seeds \in Seq(ToSet(Seed)) /\ files \in Seq(Item)
    /\ visited \subseteq File /\ Cardinality(visited) <= budget
    /\ parsed \subseteq visited \cap Admitted /\ \A f \in parsed : Answer(f) = "read"
    /\ entries \in Seq(File \X Nat) /\ Len(entries) <= EntryLimit

\* What is queued or visited is in every set that is closed.
WalkIsOfTheSite ==
    \A closed \in SUBSET File : IsClosed(closed) => visited \cup Queued \subseteq closed

GuessesAreOptional == \A item \in ToSet(files) : item[2] => item[1] \in Optional

EntriesAreOfLists ==
    /\ \A k \in DOMAIN entries :
          entries[k][1] \in Lists /\ entries[k][2] \in DOMAIN UrlsOf[entries[k][1]]
    /\ IsInjective(entries)

\* While nothing has been given up, what is known of is queued or visited,
NothingIsForgotten ==
    complete =>
        /\ \A seed \in readable :
              \/ step \in {"begin", "roots"} /\ seed \in ToSet(seeds)
              \/ step = "refused"
              \/ ToSet(Declared[seed]) \cup ToSet(WellKnown[seed]) \subseteq visited \cup Queued
        /\ \A f \in parsed : ToSet(children[f]) \subseteq visited \cup Queued

\* and what is visited has been read whole, or is not missed.
NothingIsSkipped ==
    complete =>
        /\ \A f \in visited \cap Admitted :
              f \in parsed \/ (Answer(f) = "missing" /\ f \in Optional)
        /\ \A f \in Lists : \A k \in DOMAIN UrlsOf[f] : HasEntry(f, k)

StepsFollow ==
    /\ step \in {"begin", "roots"} => complete
    /\ step \in {"select", "told"} => files = <<>>
    /\ step = "told" => joined = {UrlAt(k) : k \in InScope}

SiteInv ==
    /\ SiteTypes /\ WalkIsOfTheSite /\ GuessesAreOptional /\ EntriesAreOfLists
    /\ NothingIsForgotten /\ NothingIsSkipped /\ StepsFollow

\* The items of a sequence are at its positions.
LEMMA ItemsAreAt ==
    ASSUME NEW S, NEW s \in Seq(S)
    PROVE  /\ ToSet(s) = {s[i] : i \in 1..Len(s)}
           /\ \A i \in 1..Len(s) : s[i] \in ToSet(s)
BY LenProperties DEF ToSet

\* A queue without its head has the other items.
LEMMA ItemsOfTail ==
    ASSUME NEW S, NEW s \in Seq(S), s # <<>>
    PROVE  /\ Head(s) \in S /\ Head(s) \in ToSet(s)
           /\ Tail(s) \in Seq(S) /\ ToSet(s) = {Head(s)} \cup ToSet(Tail(s))
<1>1. /\ Head(s) \in S /\ Tail(s) \in Seq(S) /\ Head(s) = s[1]
      /\ Len(s) \in Nat \ {0} /\ Len(Tail(s)) = Len(s) - 1
      /\ \A i \in 1..Len(Tail(s)) : Tail(s)[i] = s[i + 1]
  BY HeadTailProperties, EmptySeq
<1>2. ASSUME NEW i \in 1..Len(s) PROVE s[i] \in {Head(s)} \cup ToSet(Tail(s))
  <2>1. CASE i = 1
    BY <1>1, <2>1
  <2>2. CASE i # 1
    <3>1. i - 1 \in 1..Len(Tail(s)) /\ Tail(s)[i - 1] = s[i]
      BY <1>1, <2>2
    <3>2. QED
      BY <1>1, <3>1, ItemsAreAt
  <2>3. QED
    BY <2>1, <2>2
<1>3. ASSUME NEW i \in 1..Len(Tail(s)) PROVE Tail(s)[i] \in ToSet(s)
  BY <1>1, ItemsAreAt
<1>4. Head(s) \in ToSet(s)
  BY <1>1, ItemsAreAt
<1>5. ToSet(s) = {s[i] : i \in 1..Len(s)}
  BY ItemsAreAt
<1>6. ToSet(Tail(s)) = {Tail(s)[i] : i \in 1..Len(Tail(s))}
  BY <1>1, ItemsAreAt
<1>7. QED
  BY <1>1, <1>2, <1>3, <1>4, <1>5, <1>6

\* Two sequences on end have the items of both.
LEMMA ItemsOfBoth ==
    ASSUME NEW S, NEW s \in Seq(S), NEW t \in Seq(S)
    PROVE  s \o t \in Seq(S) /\ ToSet(s \o t) = ToSet(s) \cup ToSet(t)
<1>1. /\ s \o t \in Seq(S) /\ Len(s \o t) = Len(s) + Len(t)
      /\ \A i \in 1..(Len(s) + Len(t)) :
            (s \o t)[i] = IF i <= Len(s) THEN s[i] ELSE t[i - Len(s)]
      /\ Len(s) \in Nat /\ Len(t) \in Nat
  BY ConcatProperties
<1>2. ASSUME NEW i \in 1..Len(s \o t) PROVE (s \o t)[i] \in ToSet(s) \cup ToSet(t)
  BY <1>1, ItemsAreAt
<1>3. ASSUME NEW i \in 1..Len(s) PROVE s[i] \in ToSet(s \o t)
  <2>1. i \in 1..Len(s \o t) /\ (s \o t)[i] = s[i]
    BY <1>1
  <2>2. QED
    BY <1>1, <2>1, ItemsAreAt
<1>4. ASSUME NEW i \in 1..Len(t) PROVE t[i] \in ToSet(s \o t)
  <2>1. i + Len(s) \in 1..Len(s \o t) /\ (s \o t)[i + Len(s)] = t[i]
    BY <1>1
  <2>2. QED
    BY <1>1, <2>1, ItemsAreAt
<1>5. ToSet(s \o t) \subseteq ToSet(s) \cup ToSet(t)
  <2>1. ToSet(s \o t) = {(s \o t)[i] : i \in 1..Len(s \o t)}
    BY <1>1, ItemsAreAt
  <2>2. QED
    BY <1>2, <2>1
<1>6. ToSet(s) \subseteq ToSet(s \o t)
  BY <1>3, ItemsAreAt
<1>7. ToSet(t) \subseteq ToSet(s \o t)
  BY <1>4, ItemsAreAt
<1>8. QED
  BY <1>1, <1>5, <1>6, <1>7

\* The first so many are a beginning of the sequence, or all of it.
LEMMA FirstAreThere ==
    ASSUME NEW S, NEW s \in Seq(S), NEW n \in Nat
    PROVE  /\ First(s, n) \in Seq(S) /\ Len(First(s, n)) <= n
           /\ Len(First(s, n)) <= Len(s)
           /\ \A i \in 1..Len(First(s, n)) : First(s, n)[i] = s[i]
           /\ ToSet(First(s, n)) \subseteq ToSet(s)
           /\ Len(s) <= n => First(s, n) = s
<1> DEFINE m == IF n < Len(s) THEN n ELSE Len(s)
<1>1. m \in 0..Len(s) /\ m <= n /\ First(s, n) = SubSeq(s, 1, m) /\ Len(s) \in Nat
  BY DEF First
<1>2. /\ First(s, n) \in Seq(S) /\ Len(First(s, n)) = m
      /\ \A i \in 1..m : First(s, n)[i] = s[i]
  <2> HIDE DEF m
  <2>1. \A i \in 1..m : s[i] \in S
    BY <1>1
  <2>2. QED
    BY <1>1, <2>1, SubSeqProperties
<1>3. Len(s) <= n => First(s, n) = s
  BY SubSeqFull DEF First
<1>4. ToSet(First(s, n)) \subseteq ToSet(s)
  <2> HIDE DEF m
  <2>1. ASSUME NEW i \in 1..m PROVE First(s, n)[i] \in ToSet(s)
    BY <1>1, <1>2, ItemsAreAt
  <2>2. QED
    BY <1>2, <2>1, ItemsAreAt
<1>5. QED
  BY <1>1, <1>2, <1>3, <1>4

LEMMA InputsStay ==
    ASSUME UNCHANGED siteInputs
    PROVE  /\ Roots' = Roots /\ Optional' = Optional
           /\ children' = children /\ answer' = answer /\ readable' = readable
           /\ budget' = budget
           /\ \A f : Answer(f)' = Answer(f)
           /\ \A closed : IsClosed(closed)' <=> IsClosed(closed)
<1>1. /\ children' = children /\ answer' = answer /\ readable' = readable
      /\ budget' = budget
  BY DEF siteInputs
<1>2. \A f : Answer(f)' = Answer(f)
  BY <1>1 DEF Answer, HasRules
<1>3. Roots' = Roots /\ Optional' = Optional
  BY <1>1 DEF Roots, Optional
<1>4. \A closed : IsClosed(closed)' <=> IsClosed(closed)
  BY <1>1, <1>2, <1>3 DEF IsClosed
<1>5. QED
  BY <1>1, <1>2, <1>3, <1>4

\* What a readable seed gives: its declared and its well-known sitemaps, and
\* only the latter as guesses.
LEMMA RootsOfSeed ==
    ASSUME NEW seed \in ToSet(Seed)
    PROVE  /\ RootsOf(seed) \in Seq(Item)
           /\ {item[1] : item \in ToSet(RootsOf(seed))}
              = ToSet(Declared[seed]) \cup ToSet(WellKnown[seed])
           /\ \A item \in ToSet(RootsOf(seed)) : item[2] => item[1] \in ToSet(WellKnown[seed])
<1> DEFINE known == [k \in DOMAIN Declared[seed] |-> <<Declared[seed][k], FALSE, 0>>]
           guess == [k \in DOMAIN WellKnown[seed] |->
                       <<WellKnown[seed][k], WellKnown[seed][k] \notin ToSet(Declared[seed]), 0>>]
<1>1. Declared[seed] \in Seq(File) /\ WellKnown[seed] \in Seq(File)
  BY FilesAssumption DEF SiteAssumption
<1>2. known \in Seq(Item) /\ guess \in Seq(Item)
  <2>1. \A k \in 1..Len(Declared[seed]) : <<Declared[seed][k], FALSE, 0>> \in Item
    BY <1>1, ElementOfSeq DEF Item
  <2>2. \A k \in 1..Len(WellKnown[seed]) :
           <<WellKnown[seed][k], WellKnown[seed][k] \notin ToSet(Declared[seed]), 0>> \in Item
    <3> TAKE k \in 1..Len(WellKnown[seed])
    <3>1. WellKnown[seed][k] \in File
      BY <1>1, ElementOfSeq
    <3>2. QED
      BY <3>1 DEF Item
  <2>3. /\ DOMAIN Declared[seed] = 1..Len(Declared[seed]) /\ Len(Declared[seed]) \in Nat
        /\ DOMAIN WellKnown[seed] = 1..Len(WellKnown[seed]) /\ Len(WellKnown[seed]) \in Nat
    BY <1>1, LenProperties
  <2>4. known \in Seq(Item)
    <3>1. known \in [1..Len(Declared[seed]) -> Item]
      BY <2>1, <2>3
    <3> HIDE DEF known
    <3>2. QED
      BY <2>3, <3>1
  <2>5. guess \in Seq(Item)
    BY <2>2, <2>3
  <2>6. QED
    BY <2>4, <2>5
<1>3. {item[1] : item \in ToSet(known)} = ToSet(Declared[seed])
  <2>1. DOMAIN known = DOMAIN Declared[seed] /\ \A k \in DOMAIN known : known[k][1] = Declared[seed][k]
    OBVIOUS
  <2> HIDE DEF known
  <2>2. QED
    BY <2>1 DEF ToSet
<1>4. {item[1] : item \in ToSet(guess)} = ToSet(WellKnown[seed])
  <2>1. DOMAIN guess = DOMAIN WellKnown[seed] /\ \A k \in DOMAIN guess : guess[k][1] = WellKnown[seed][k]
    OBVIOUS
  <2> HIDE DEF guess
  <2>2. QED
    BY <2>1 DEF ToSet
<1>5. \A item \in ToSet(known) : ~item[2]
  <2>1. \A k \in DOMAIN known : ~known[k][2]
    OBVIOUS
  <2> HIDE DEF known
  <2>2. QED
    BY <2>1 DEF ToSet
<1>6. \A item \in ToSet(guess) : item[1] \in ToSet(WellKnown[seed])
  BY <1>4
<1>7. RootsOf(seed) = known \o guess
  BY DEF RootsOf
<1> HIDE DEF known, guess
<1>8. RootsOf(seed) \in Seq(Item) /\ ToSet(RootsOf(seed)) = ToSet(known) \cup ToSet(guess)
  BY <1>2, <1>7, ItemsOfBoth
<1>9. QED
  BY <1>3, <1>4, <1>5, <1>6, <1>8

LEMMA InitSite == FilesInit => SiteInv
<1> SUFFICES ASSUME FilesInit PROVE SiteInv
  OBVIOUS
<1>1. /\ children \in [File -> Seq(File)] /\ answer \in [File -> Answers]
      /\ readable \subseteq ToSet(Seed) /\ budget \in Nat /\ EntryLimit \in Nat
      /\ seeds = Seed /\ seeds \in Seq(ToSet(Seed)) /\ step = "begin"
  BY FilesAssumption DEF SiteAssumption, FilesInit
<1>2. files = <<>> /\ visited = {} /\ parsed = {} /\ entries = <<>> /\ Lists = {}
  BY DEF FilesInit, Lists
<1>3. ToSet(files) = {} /\ Queued = {} /\ Cardinality(visited) = 0
  BY <1>2, FS_EmptySet DEF ToSet, Queued
<1>4. files \in Seq(Item) /\ entries \in Seq(File \X Nat) /\ Len(entries) = 0
  BY <1>2
<1>5. SiteTypes
  BY <1>1, <1>2, <1>3, <1>4 DEF SiteTypes
<1>6. EntriesAreOfLists
  BY <1>2 DEF EntriesAreOfLists, IsInjective
<1>7. WalkIsOfTheSite /\ GuessesAreOptional
  BY <1>2, <1>3 DEF WalkIsOfTheSite, GuessesAreOptional
<1>8. NothingIsForgotten /\ NothingIsSkipped
  BY <1>1, <1>2 DEF NothingIsForgotten, NothingIsSkipped
<1>9. StepsFollow
  BY DEF StepsFollow, FilesInit
<1>10. QED
  BY <1>5, <1>6, <1>7, <1>8, <1>9 DEF SiteInv

\* Nothing is claimed of a step that leaves the walk alone, but for the step it
\* ends and the join of a report.
LEMMA AsideKeeps ==
    ASSUME SiteInv, UNCHANGED <<siteInputs, seeds, files, visited, parsed, entries>>,
           complete' => complete, step' \in {"begin", "roots"} => complete',
           step' \in {"begin", "refused", "roots", "walk", "select", "told"},
           step' = step \/ (step = "begin" /\ step' \in {"refused", "roots"})
                        \/ (step = "walk" /\ step' = "select" /\ files = <<>>)
                        \/ (step = "select" /\ step' = "told"),
           step' = "told" => joined' = {UrlAt(k) : k \in InScope}
    PROVE  SiteInv'
<1>1. /\ Queued' = Queued /\ Lists' = Lists /\ ToSet(files)' = ToSet(files)
      /\ \A f, k : HasEntry(f, k)' <=> HasEntry(f, k)
  BY InputsStay DEF Queued, Lists, HasEntry
<1>2. SiteTypes'
  BY InputsStay DEF SiteInv, SiteTypes
<1>3. WalkIsOfTheSite' /\ GuessesAreOptional'
  BY <1>1, InputsStay DEF SiteInv, WalkIsOfTheSite, GuessesAreOptional
<1>4. EntriesAreOfLists'
  BY <1>1 DEF SiteInv, EntriesAreOfLists
<1>5. NothingIsForgotten'
  BY <1>1, InputsStay DEF SiteInv, NothingIsForgotten
<1>6. NothingIsSkipped'
  BY <1>1, InputsStay DEF SiteInv, NothingIsSkipped
<1>7. StepsFollow'
  <2>1. {UrlAt(k) : k \in InScope}' = {UrlAt(k) : k \in InScope}
    BY DEF UrlAt, InScope
  <2>2. /\ step' \in {"select", "told"} => files' = <<>>
        /\ step' \in {"begin", "roots"} => complete'
    BY DEF SiteInv, StepsFollow
  <2>3. QED
    BY <2>1, <2>2 DEF StepsFollow
<1>8. QED
  BY <1>2, <1>3, <1>4, <1>5, <1>6, <1>7 DEF SiteInv

\* The roots of a seed are put behind those of the seeds before it.
LEMMA AskSeedKeeps == ASSUME SiteInv, AskSeed PROVE SiteInv'
<1> DEFINE seed == Head(seeds)
<1>1. /\ UNCHANGED siteInputs
      /\ step = "roots" /\ step' = "roots" /\ seeds # <<>> /\ seeds' = Tail(seeds)
      /\ visited' = visited /\ parsed' = parsed /\ entries' = entries /\ complete' = complete
      /\ files' = IF seed \in readable THEN files \o RootsOf(seed) ELSE files
  BY DEF AskSeed
<1>2. /\ seed \in ToSet(Seed) /\ seeds' \in Seq(ToSet(Seed))
      /\ ToSet(seeds) = {seed} \cup ToSet(seeds')
  BY <1>1, ItemsOfTail DEF SiteInv, SiteTypes
<1> HIDE DEF seed
<1>3. /\ files' \in Seq(Item)
      /\ ToSet(files') = ToSet(files) \cup (IF seed \in readable THEN ToSet(RootsOf(seed)) ELSE {})
  <2>1. RootsOf(seed) \in Seq(Item) /\ files \in Seq(Item)
    BY <1>2, RootsOfSeed DEF SiteInv, SiteTypes
  <2>2. QED
    BY <1>1, <2>1, ItemsOfBoth
<1>4. Queued' = Queued \cup
         (IF seed \in readable THEN ToSet(Declared[seed]) \cup ToSet(WellKnown[seed]) ELSE {})
  <2>1. Queued' = {item[1] : item \in ToSet(files')}
    BY DEF Queued
  <2>2. QED
    BY <1>2, <1>3, <2>1, RootsOfSeed DEF Queued
<1>5. Lists' = Lists /\ (\A f, k : HasEntry(f, k)' <=> HasEntry(f, k))
  BY <1>1, InputsStay DEF Lists, HasEntry
<1>6. SiteTypes'
  BY <1>1, <1>2, <1>3, InputsStay DEF SiteInv, SiteTypes
<1>7. WalkIsOfTheSite'
  <2>1. ASSUME NEW closed \in SUBSET File, IsClosed(closed)
        PROVE  visited' \cup Queued' \subseteq closed
    <3>1. visited \cup Queued \subseteq closed /\ Roots \subseteq closed
      BY <2>1 DEF SiteInv, WalkIsOfTheSite, IsClosed
    <3>2. QED
      BY <1>1, <1>4, <3>1 DEF Roots
  <2>2. QED
    BY <1>1, <2>1, InputsStay DEF WalkIsOfTheSite
<1>8. GuessesAreOptional'
  <2>1. \A item \in ToSet(files') : item[2] => item[1] \in Optional
    BY <1>2, <1>3, RootsOfSeed DEF SiteInv, GuessesAreOptional, Optional
  <2>2. QED
    BY <1>1, <2>1, InputsStay DEF GuessesAreOptional
<1>9. EntriesAreOfLists' /\ NothingIsSkipped'
  <2>1. EntriesAreOfLists'
    BY <1>1, <1>5 DEF SiteInv, EntriesAreOfLists
  <2>2. NothingIsSkipped'
    BY <1>1, <1>5, InputsStay DEF SiteInv, NothingIsSkipped
  <2>3. QED
    BY <2>1, <2>2
<1>10. NothingIsForgotten' /\ StepsFollow'
  <2>1. NothingIsForgotten'
    <3>1. ASSUME complete', NEW other \in readable'
          PROVE  \/ other \in ToSet(seeds')
                 \/ ToSet(Declared[other]) \cup ToSet(WellKnown[other])
                    \subseteq visited' \cup Queued'
      BY <1>1, <1>2, <1>4, <3>1, InputsStay DEF SiteInv, NothingIsForgotten
    <3>2. ASSUME complete', NEW f \in parsed'
          PROVE  ToSet(children'[f]) \subseteq visited' \cup Queued'
      BY <1>1, <1>4, <3>2, InputsStay DEF SiteInv, NothingIsForgotten
    <3>3. QED
      BY <1>1, <3>1, <3>2 DEF NothingIsForgotten
  <2>2. QED
    BY <1>1, <2>1 DEF SiteInv, StepsFollow
<1>11. QED
  BY <1>6, <1>7, <1>8, <1>9, <1>10 DEF SiteInv

\* Roots are cut off only where the collection is no longer complete.
LEMMA CutRootsKeeps == ASSUME SiteInv, CutRoots PROVE SiteInv'
<1>1. /\ UNCHANGED siteInputs
      /\ step = "roots" /\ step' = "walk" /\ seeds = <<>> /\ seeds' = seeds
      /\ visited' = visited /\ parsed' = parsed /\ entries' = entries
      /\ files' = First(files, budget) /\ complete' = (Len(files) <= budget)
  BY DEF CutRoots
<1>2. /\ files \in Seq(Item) /\ budget \in Nat /\ files' \in Seq(Item)
      /\ ToSet(files') \subseteq ToSet(files) /\ complete
      /\ complete' => files' = files
  BY <1>1, FirstAreThere DEF SiteInv, SiteTypes, StepsFollow
<1>3. Queued' \subseteq Queued /\ (complete' => Queued' = Queued)
  BY <1>2 DEF Queued
<1>4. Lists' = Lists /\ (\A f, k : HasEntry(f, k)' <=> HasEntry(f, k))
  BY <1>1, InputsStay DEF Lists, HasEntry
<1>5. SiteTypes'
  BY <1>1, <1>2, InputsStay DEF SiteInv, SiteTypes
<1>6. WalkIsOfTheSite' /\ GuessesAreOptional'
  <2>1. WalkIsOfTheSite'
    BY <1>1, <1>3, InputsStay DEF SiteInv, WalkIsOfTheSite
  <2>2. GuessesAreOptional'
    BY <1>1, <1>2, InputsStay DEF SiteInv, GuessesAreOptional
  <2>3. QED
    BY <2>1, <2>2
<1>7. EntriesAreOfLists' /\ NothingIsSkipped'
  <2>1. EntriesAreOfLists'
    BY <1>1, <1>4 DEF SiteInv, EntriesAreOfLists
  <2>2. NothingIsSkipped'
    BY <1>1, <1>2, <1>4, InputsStay DEF SiteInv, NothingIsSkipped
  <2>3. QED
    BY <2>1, <2>2
<1>8. NothingIsForgotten' /\ StepsFollow'
  <2>1. \A seed : seed \notin ToSet(seeds)
    BY <1>1 DEF ToSet
  <2>2. NothingIsForgotten'
    BY <1>1, <1>2, <1>3, <2>1, InputsStay DEF SiteInv, NothingIsForgotten
  <2>3. QED
    BY <1>1, <2>2 DEF StepsFollow
<1>9. QED
  BY <1>5, <1>6, <1>7, <1>8 DEF SiteInv

\* What every step on the head of the queue keeps, whatever it adds to the
\* queue: children of a file that is admitted and read, and none of it a guess.
LEMMA PoppedKeeps ==
    ASSUME SiteInv, UNCHANGED <<siteInputs, step, seeds>>, step = "walk", files # <<>>,
           NEW f, f = Head(files)[1],
           NEW more, more \in Seq(Item), files' = Tail(files) \o more,
           more # <<>> => f \in Admitted /\ Answer(f) = "read",
           \A item \in ToSet(more) : item[1] \in ToSet(children[f]) /\ ~item[2],
           visited' \in {visited, visited \cup {f}}, Cardinality(visited') <= budget,
           parsed' \in {parsed, parsed \cup {f}},
           f \in parsed' \ parsed => f \in visited' \cap Admitted /\ Answer(f) = "read",
           complete' => complete /\ f \in visited',
           complete' /\ f \in parsed' \ parsed =>
               ToSet(children[f]) \subseteq {item[1] : item \in ToSet(more)},
           entries' \in Seq(File \X Nat), Len(entries') <= EntryLimit
    PROVE  /\ SiteTypes' /\ WalkIsOfTheSite' /\ GuessesAreOptional' /\ NothingIsForgotten'
           /\ StepsFollow'
<1>1. /\ Head(files) \in Item /\ Head(files) \in ToSet(files) /\ f \in File
      /\ Tail(files) \in Seq(Item) /\ ToSet(files) = {Head(files)} \cup ToSet(Tail(files))
  <2>1. files \in Seq(Item)
    BY DEF SiteInv, SiteTypes
  <2>2. /\ Head(files) \in Item /\ Head(files) \in ToSet(files)
        /\ Tail(files) \in Seq(Item) /\ ToSet(files) = {Head(files)} \cup ToSet(Tail(files))
    BY <2>1, ItemsOfTail
  <2>3. QED
    BY <2>2 DEF Item
<1>2. files' \in Seq(Item) /\ ToSet(files') = ToSet(Tail(files)) \cup ToSet(more)
  <2>1. \A s, t \in Seq(Item) : s \o t \in Seq(Item) /\ ToSet(s \o t) = ToSet(s) \cup ToSet(t)
    BY ItemsOfBoth
  <2>2. QED
    BY <1>1, <2>1
<1>3. /\ Queued' = {item[1] : item \in ToSet(Tail(files))} \cup {item[1] : item \in ToSet(more)}
      /\ Queued = {f} \cup {item[1] : item \in ToSet(Tail(files))}
  BY <1>1, <1>2 DEF Queued
<1>4. ToSet(more) # {} => more # <<>>
  BY DEF ToSet
<1>5. SiteTypes'
  BY <1>1, <1>2, InputsStay DEF SiteInv, SiteTypes
<1>6. WalkIsOfTheSite'
  <2>1. ASSUME NEW closed \in SUBSET File, IsClosed(closed)
        PROVE  visited' \cup Queued' \subseteq closed
    <3>1. visited \cup Queued \subseteq closed
      BY <2>1 DEF SiteInv, WalkIsOfTheSite
    <3>2. ASSUME NEW item \in ToSet(more) PROVE item[1] \in closed
      BY <1>3, <1>4, <2>1, <3>1, <3>2 DEF IsClosed
    <3>3. QED
      BY <1>3, <3>1, <3>2
  <2>2. QED
    BY <2>1, InputsStay DEF WalkIsOfTheSite
<1>7. GuessesAreOptional'
  BY <1>1, <1>2, InputsStay DEF SiteInv, GuessesAreOptional
<1>8. NothingIsForgotten'
  <2>1. complete' => visited \cup Queued \subseteq visited' \cup Queued'
    BY <1>3
  <2>2. ASSUME complete', NEW seed \in readable
        PROVE  ToSet(Declared[seed]) \cup ToSet(WellKnown[seed]) \subseteq visited' \cup Queued'
    BY <2>1, <2>2 DEF SiteInv, NothingIsForgotten
  <2>3. ASSUME complete', NEW g \in parsed'
        PROVE  ToSet(children[g]) \subseteq visited' \cup Queued'
    <3>1. CASE g \in parsed
      BY <2>1, <2>3, <3>1 DEF SiteInv, NothingIsForgotten
    <3>2. CASE g \notin parsed
      BY <1>3, <2>3, <3>2
    <3>3. QED
      BY <3>1, <3>2
  <2>4. QED
    BY <2>2, <2>3, InputsStay DEF NothingIsForgotten
<1>9. StepsFollow'
  BY DEF SiteInv, StepsFollow
<1>10. QED
  BY <1>5, <1>6, <1>7, <1>8, <1>9

\* A file counts once against the budget.
LEMMA VisitCounts ==
    ASSUME SiteInv, NEW f \in File, Visits(f)
    PROVE  visited' = visited \cup {f} /\ f \notin visited /\ Cardinality(visited') <= budget
<1>1. IsFiniteSet(visited) /\ Cardinality(visited) \in Nat /\ budget \in Nat
  BY FilesAssumption, FS_Subset, FS_CardinalityType DEF SiteAssumption, SiteInv, SiteTypes
<1>2. Cardinality(visited \cup {f}) = Cardinality(visited) + 1
  BY <1>1, FS_AddElement DEF Visits
<1>3. QED
  BY <1>1, <1>2 DEF Visits

\* What a step that reads no list leaves as it is.
LEMMA NoListKeeps ==
    ASSUME SiteInv, UNCHANGED siteInputs, entries' = entries, Lists' = Lists,
           complete' => complete,
           complete' => \A f \in visited' \cap Admitted :
                           f \in visited \/ f \in parsed' \/ (Answer(f) = "missing" /\ f \in Optional),
           parsed \subseteq parsed'
    PROVE  EntriesAreOfLists' /\ NothingIsSkipped'
<1>1. EntriesAreOfLists'
  BY DEF SiteInv, EntriesAreOfLists
<1>2. NothingIsSkipped'
  <2>1. ASSUME complete', NEW f \in Lists', NEW k \in DOMAIN UrlsOf[f] PROVE HasEntry(f, k)'
    BY <2>1 DEF SiteInv, NothingIsSkipped, HasEntry
  <2>2. ASSUME complete', NEW f \in visited' \cap Admitted
        PROVE  f \in parsed' \/ (Answer(f) = "missing" /\ f \in Optional)
    BY <2>2 DEF SiteInv, NothingIsSkipped
  <2>3. QED
    BY <2>1, <2>2, InputsStay DEF NothingIsSkipped
<1>3. QED
  BY <1>1, <1>2

\* Files that are passed by, out of scope or not to be read.
LEMMA PassedKeeps == ASSUME SiteInv, PassBy \/ Reject \/ Miss PROVE SiteInv'
<1> DEFINE f == Head(files)[1]
<1>1. /\ UNCHANGED <<siteInputs, step, seeds, parsed, entries>>
      /\ step = "walk" /\ files # <<>> /\ files' = Tail(files)
  BY DEF PassBy, Reject, Miss, PopFile
<1>2. files \in Seq(Item) /\ Head(files) \in Item /\ Head(files) \in ToSet(files)
      /\ Tail(files) \in Seq(Item) /\ f \in File
  <2>1. files \in Seq(Item)
    BY DEF SiteInv, SiteTypes
  <2>2. Head(files) \in Item /\ Head(files) \in ToSet(files) /\ Tail(files) \in Seq(Item)
    BY <1>1, <2>1, ItemsOfTail
  <2>3. QED
    BY <2>1, <2>2 DEF Item
<1>3. files' = Tail(files) \o <<>> /\ ToSet(<<>>) = {} /\ <<>> \in Seq(Item)
  BY <1>1, <1>2, ConcatEmptySeq DEF ToSet
<1>4. /\ visited' \in {visited, visited \cup {f}} /\ Cardinality(visited') <= budget
      /\ complete' => complete /\ f \in visited'
      /\ complete' /\ f \in Admitted =>
            f \in visited \/ (Answer(f) = "missing" /\ f \in Optional)
  <2> HIDE DEF f
  <2>1. CASE PassBy
    BY <2>1 DEF PassBy, SiteInv, SiteTypes, f
  <2>2. CASE Reject
    BY <1>2, <2>2, VisitCounts DEF Reject, f
  <2>3. CASE Miss
    <3>1. Visits(f) /\ complete' = (complete /\ IsGuessedInVain(f, Head(files)[2]))
      BY <2>3 DEF Miss, f
    <3>2. Head(files)[2] => f \in Optional
      BY <1>2 DEF SiteInv, GuessesAreOptional, f
    <3>3. QED
      BY <1>2, <3>1, <3>2, VisitCounts DEF IsGuessedInVain
  <2>4. QED
    BY <2>1, <2>2, <2>3
<1>5. f \notin parsed' \ parsed /\ Lists' = Lists
  BY <1>1, InputsStay DEF Lists
<1> HIDE DEF f
<1>6. SiteTypes' /\ WalkIsOfTheSite' /\ GuessesAreOptional' /\ NothingIsForgotten' /\ StepsFollow'
  <2>1. entries' \in Seq(File \X Nat) /\ Len(entries') <= EntryLimit
    BY <1>1 DEF SiteInv, SiteTypes
  <2>2. QED
    BY <1>1, <1>3, <1>4, <1>5, <2>1, PoppedKeeps DEF f
<1>7. EntriesAreOfLists' /\ NothingIsSkipped'
  BY <1>1, <1>4, <1>5, NoListKeeps
<1>8. QED
  BY <1>6, <1>7 DEF SiteInv

\* An index that is read queues the children there is room for.
LEMMA ReadIndexKeeps == ASSUME SiteInv, ReadIndex PROVE SiteInv'
<1> DEFINE f == Head(files)[1]
           depth == Head(files)[3]
           room == budget - Cardinality(visited') - Len(Tail(files))
           taken == IF depth >= DepthLimit THEN <<>>
                    ELSE First(children[f], IF room > 0 THEN room ELSE 0)
           more == [k \in DOMAIN taken |-> <<taken[k], FALSE, depth + 1>>]
<1>1. /\ UNCHANGED <<siteInputs, step, seeds, entries>>
      /\ step = "walk" /\ files # <<>> /\ files' = Tail(files) \o more
      /\ Visits(f) /\ f \in Admitted /\ Answer(f) = "read" /\ children[f] # <<>>
      /\ parsed' = parsed \cup {f} /\ complete' = (complete /\ taken = children[f])
  BY DEF ReadIndex
<1>2. /\ f \in File /\ depth \in Nat /\ Tail(files) \in Seq(Item) /\ children[f] \in Seq(File)
  <2>1. files \in Seq(Item) /\ children \in [File -> Seq(File)]
    BY DEF SiteInv, SiteTypes
  <2>2. Head(files) \in Item /\ Tail(files) \in Seq(Item)
    BY <1>1, <2>1, ItemsOfTail
  <2>3. QED
    BY <2>1, <2>2 DEF Item
<1>3. visited' = visited \cup {f} /\ f \notin visited /\ Cardinality(visited') <= budget
  BY <1>1, <1>2, VisitCounts
<1>4. taken \in Seq(File) /\ ToSet(taken) \subseteq ToSet(children[f])
  <2>1. CASE depth >= DepthLimit
    BY <2>1 DEF ToSet
  <2>2. CASE ~(depth >= DepthLimit)
    <3> DEFINE some == IF room > 0 THEN room ELSE 0
    <3>1. some \in Nat
      <4>1. budget \in Nat /\ IsFiniteSet(visited') /\ Cardinality(visited') \in Nat
        BY <1>2, <1>3, FilesAssumption, FS_Subset, FS_CardinalityType
           DEF SiteAssumption, SiteInv, SiteTypes
      <4>2. Len(Tail(files)) \in Nat
        BY <1>2, LenProperties
      <4>3. QED
        BY <4>1, <4>2
    <3>2. taken = First(children[f], some)
      BY <2>2
    <3> HIDE DEF some, taken
    <3>3. QED
      BY <1>2, <3>1, <3>2, FirstAreThere
  <2>3. QED
    BY <2>1, <2>2
<1> HIDE DEF f, depth, taken
<1>5. /\ more \in Seq(Item) /\ (\A item \in ToSet(more) : ~item[2])
      /\ {item[1] : item \in ToSet(more)} = ToSet(taken)
  <2>1. /\ DOMAIN more = DOMAIN taken /\ DOMAIN taken = 1..Len(taken) /\ Len(taken) \in Nat
        /\ \A k \in DOMAIN more : more[k] = <<taken[k], FALSE, depth + 1>>
    BY <1>4, LenProperties
  <2>2. \A k \in 1..Len(taken) : <<taken[k], FALSE, depth + 1>> \in Item
    <3> TAKE k \in 1..Len(taken)
    <3>1. taken[k] \in File /\ depth + 1 \in Nat
      BY <1>2, <1>4, ElementOfSeq
    <3>2. QED
      BY <3>1 DEF Item
  <2>3. more \in Seq(Item)
    <3>1. more \in [1..Len(taken) -> Item]
      BY <2>1, <2>2
    <3> HIDE DEF more
    <3>2. QED
      BY <2>1, <3>1
  <2>4. \A k \in DOMAIN more : more[k][1] = taken[k] /\ ~more[k][2]
    OBVIOUS
  <2> HIDE DEF more
  <2>5. (\A item \in ToSet(more) : ~item[2]) /\ {item[1] : item \in ToSet(more)} = ToSet(taken)
    BY <2>1, <2>4 DEF ToSet
  <2>6. QED
    BY <2>3, <2>5
<1> HIDE DEF more
<1>6. entries' \in Seq(File \X Nat) /\ Len(entries') <= EntryLimit
  BY <1>1 DEF SiteInv, SiteTypes
<1>7. \A item \in ToSet(more) : item[1] \in ToSet(children[f]) /\ ~item[2]
  BY <1>4, <1>5
<1>8. complete' => ToSet(children[f]) \subseteq {item[1] : item \in ToSet(more)}
  BY <1>1, <1>5
<1>9. SiteTypes' /\ WalkIsOfTheSite' /\ GuessesAreOptional' /\ NothingIsForgotten' /\ StepsFollow'
  BY <1>1, <1>3, <1>5, <1>6, <1>7, <1>8, PoppedKeeps DEF f
<1>10. EntriesAreOfLists' /\ NothingIsSkipped'
  <2>1. Lists' = Lists
    BY <1>1, InputsStay DEF Lists
  <2>2. QED
    BY <1>1, <1>3, <2>1, NoListKeeps
<1>11. QED
  BY <1>9, <1>10 DEF SiteInv

\* A list that is read adds the entries there is room for, each its own.
LEMMA ReadListKeeps == ASSUME SiteInv, ReadList PROVE SiteInv'
<1> DEFINE f == Head(files)[1]
           room == EntryLimit - Len(entries)
           taken == First(EntriesOf(f), room)
<1>1. /\ UNCHANGED <<siteInputs, step, seeds>>
      /\ step = "walk" /\ files # <<>> /\ files' = Tail(files)
      /\ Visits(f) /\ f \in Admitted /\ Answer(f) = "read" /\ children[f] = <<>>
      /\ parsed' = parsed \cup {f} /\ entries' = entries \o taken
      /\ complete' = (complete /\ taken = EntriesOf(f))
  BY DEF ReadList, PopFile
<1>2. /\ f \in File /\ Tail(files) \in Seq(Item) /\ UrlsOf[f] \in Seq(FileUrl)
      /\ entries \in Seq(File \X Nat) /\ Len(entries) \in Nat
      /\ EntryLimit \in Nat /\ room \in Nat
  <2>1. files \in Seq(Item) /\ entries \in Seq(File \X Nat) /\ Len(entries) <= EntryLimit
    BY DEF SiteInv, SiteTypes
  <2>2. Head(files) \in Item /\ Tail(files) \in Seq(Item) /\ Len(entries) \in Nat
    BY <1>1, <2>1, ItemsOfTail, LenProperties
  <2>3. f \in File
    BY <2>2 DEF Item
  <2>4. UrlsOf[f] \in Seq(FileUrl) /\ EntryLimit \in Nat
    BY <2>3, FilesAssumption DEF SiteAssumption
  <2>5. QED
    BY <2>1, <2>2, <2>3, <2>4
<1>3. visited' = visited \cup {f} /\ f \notin visited /\ Cardinality(visited') <= budget
  BY <1>1, <1>2, VisitCounts
<1> HIDE DEF f, room
<1>4. /\ EntriesOf(f) \in Seq(File \X Nat) /\ Len(EntriesOf(f)) = Len(UrlsOf[f])
      /\ DOMAIN UrlsOf[f] = 1..Len(UrlsOf[f])
      /\ \A k \in DOMAIN UrlsOf[f] : EntriesOf(f)[k] = <<f, k>>
  <2>1. DOMAIN UrlsOf[f] = 1..Len(UrlsOf[f]) /\ Len(UrlsOf[f]) \in Nat
    BY <1>2, LenProperties
  <2>2. EntriesOf(f) \in [1..Len(UrlsOf[f]) -> File \X Nat]
    BY <1>2, <2>1 DEF EntriesOf
  <2>3. \A k \in DOMAIN UrlsOf[f] : EntriesOf(f)[k] = <<f, k>>
    BY DEF EntriesOf
  <2>4. QED
    BY <2>1, <2>2, <2>3
<1>5. /\ taken \in Seq(File \X Nat) /\ Len(taken) <= room /\ Len(taken) \in Nat
      /\ \A k \in 1..Len(taken) : k \in DOMAIN UrlsOf[f] /\ taken[k] = <<f, k>>
  <2>1. /\ taken \in Seq(File \X Nat) /\ Len(taken) <= room /\ Len(taken) <= Len(EntriesOf(f))
        /\ \A k \in 1..Len(taken) : taken[k] = EntriesOf(f)[k]
    BY <1>2, <1>4, FirstAreThere
  <2> HIDE DEF taken
  <2>2. Len(taken) \in Nat /\ Len(UrlsOf[f]) \in Nat
    BY <1>2, <2>1, LenProperties
  <2>3. ASSUME NEW k \in 1..Len(taken) PROVE k \in DOMAIN UrlsOf[f] /\ taken[k] = <<f, k>>
    <3>1. k \in DOMAIN UrlsOf[f]
      BY <1>4, <2>1, <2>2
    <3>2. QED
      BY <1>4, <2>1, <3>1
  <2>4. QED
    BY <2>1, <2>2, <2>3
<1> HIDE DEF taken
<1>6. /\ entries' \in Seq(File \X Nat) /\ Len(entries') = Len(entries) + Len(taken)
      /\ \A k \in 1..Len(entries) : entries'[k] = entries[k]
      /\ \A k \in (Len(entries) + 1)..Len(entries') : entries'[k] = taken[k - Len(entries)]
      /\ Len(entries') <= EntryLimit
  <2>1. /\ entries \o taken \in Seq(File \X Nat)
        /\ Len(entries \o taken) = Len(entries) + Len(taken)
        /\ \A i \in 1..(Len(entries) + Len(taken)) :
              (entries \o taken)[i] = IF i <= Len(entries) THEN entries[i]
                                      ELSE taken[i - Len(entries)]
    BY <1>2, <1>5, ConcatProperties
  <2>2. QED
    BY <1>1, <1>2, <1>5, <2>1 DEF room
<1>7. Lists' = Lists \cup {f} /\ f \notin Lists
  BY <1>1, <1>3, InputsStay DEF Lists, SiteInv, SiteTypes
<1>8. SiteTypes' /\ WalkIsOfTheSite' /\ GuessesAreOptional' /\ NothingIsForgotten' /\ StepsFollow'
  <2>1. files' = Tail(files) \o <<>> /\ ToSet(<<>>) = {} /\ <<>> \in Seq(Item)
    BY <1>1, <1>2, ConcatEmptySeq DEF ToSet
  <2>2. ToSet(children[f]) = {}
    BY <1>1 DEF ToSet
  <2>3. QED
    BY <1>1, <1>3, <1>6, <2>1, <2>2, PoppedKeeps DEF f
<1>9. EntriesAreOfLists'
  <2>1. /\ DOMAIN entries = 1..Len(entries) /\ DOMAIN entries' = 1..Len(entries')
    BY <1>2, <1>6, LenProperties
  <2>2. ASSUME NEW k \in 1..Len(entries)
        PROVE  /\ entries'[k] = entries[k] /\ entries[k][1] \in Lists
               /\ entries[k][2] \in DOMAIN UrlsOf[entries[k][1]]
    BY <1>6, <2>1 DEF SiteInv, EntriesAreOfLists
  <2>3. ASSUME NEW k \in 1..Len(entries'), k > Len(entries)
        PROVE  /\ entries'[k] = <<f, k - Len(entries)>>
               /\ k - Len(entries) \in DOMAIN UrlsOf[f]
    <3>1. k - Len(entries) \in 1..Len(taken)
      BY <1>2, <1>5, <1>6, <2>3
    <3>2. k \in (Len(entries) + 1)..Len(entries')
      BY <1>2, <2>3
    <3>3. entries'[k] = taken[k - Len(entries)]
      BY <1>6, <3>2
    <3>4. QED
      BY <1>5, <3>1, <3>3
  <2>4. ASSUME NEW k \in DOMAIN entries'
        PROVE  entries'[k][1] \in Lists' /\ entries'[k][2] \in DOMAIN UrlsOf[entries'[k][1]]
    <3>1. CASE k <= Len(entries)
      BY <1>2, <1>7, <2>1, <2>2, <2>4, <3>1
    <3>2. CASE k > Len(entries)
      BY <1>2, <1>7, <2>1, <2>3, <2>4, <3>2
    <3>3. QED
      BY <1>2, <2>1, <2>4, <3>1, <3>2
  <2>5. ASSUME NEW i \in DOMAIN entries', NEW j \in DOMAIN entries', entries'[i] = entries'[j]
        PROVE  i = j
    <3>1. CASE i <= Len(entries) /\ j <= Len(entries)
      <4>1. i \in DOMAIN entries /\ j \in DOMAIN entries /\ entries[i] = entries[j]
        BY <1>2, <2>1, <2>2, <2>5, <3>1
      <4>2. QED
        BY <4>1 DEF SiteInv, EntriesAreOfLists, IsInjective
    <3>2. CASE i > Len(entries) /\ j > Len(entries)
      <4>1. i \in 1..Len(entries') /\ j \in 1..Len(entries') /\ Len(entries) \in Nat
        BY <1>2, <2>1, <2>5
      <4>2. entries'[i] = <<f, i - Len(entries)>> /\ entries'[j] = <<f, j - Len(entries)>>
        BY <2>3, <3>2, <4>1
      <4>3. <<f, i - Len(entries)>>[2] = <<f, j - Len(entries)>>[2]
        BY <2>5, <4>2, Zenon
      <4>4. i - Len(entries) = j - Len(entries)
        BY ONLY <4>3
      <4>5. QED
        BY ONLY <4>1, <4>4
    <3>3. CASE i <= Len(entries) /\ j > Len(entries)
      <4>1. entries'[i][1] \in Lists /\ entries'[j][1] = f
        BY <1>2, <2>1, <2>2, <2>3, <2>5, <3>3
      <4>2. QED
        BY <1>7, <2>5, <4>1
    <3>4. CASE i > Len(entries) /\ j <= Len(entries)
      <4>1. entries'[j][1] \in Lists /\ entries'[i][1] = f
        BY <1>2, <2>1, <2>2, <2>3, <2>5, <3>4
      <4>2. QED
        BY <1>7, <2>5, <4>1
    <3>5. QED
      BY <1>2, <2>1, <2>5, <3>1, <3>2, <3>3, <3>4
  <2>6. QED
    BY <2>4, <2>5 DEF EntriesAreOfLists, IsInjective
<1>10. NothingIsSkipped'
  <2>1. ASSUME complete', NEW g \in visited' \cap Admitted
        PROVE  g \in parsed' \/ (Answer(g) = "missing" /\ g \in Optional)
    BY <1>1, <1>3, <2>1 DEF SiteInv, NothingIsSkipped
  <2>2. ASSUME complete', NEW g \in Lists', NEW k \in DOMAIN UrlsOf[g]
        PROVE  HasEntry(g, k)'
    <3>1. ToSet(entries') = ToSet(entries) \cup ToSet(taken)
      BY <1>1, <1>2, <1>5, ItemsOfBoth
    <3>2. CASE g = f
      <4>1. taken = EntriesOf(f) /\ k \in DOMAIN taken /\ taken[k] = <<g, k>>
        BY <1>1, <1>4, <1>5, <2>2, <3>2, LenProperties
      <4>2. QED
        BY <3>1, <4>1 DEF ToSet, HasEntry
    <3>3. CASE g # f
      BY <1>1, <1>7, <2>2, <3>1, <3>3 DEF SiteInv, NothingIsSkipped, HasEntry
    <3>4. QED
      BY <3>2, <3>3
  <2>3. QED
    BY <1>1, <2>1, <2>2, InputsStay DEF NothingIsSkipped
<1>11. QED
  BY <1>8, <1>9, <1>10 DEF SiteInv

\* Every step keeps the invariant.
LEMMA SiteStepKeeps == SiteInv /\ [FilesNext]_siteVars => SiteInv'
<1> SUFFICES ASSUME SiteInv, [FilesNext]_siteVars PROVE SiteInv'
  OBVIOUS
<1>1. CASE BeginOrRefuse
  <2>1. complete /\ step' \in {"refused", "roots"}
    BY <1>1 DEF BeginOrRefuse, SiteInv, StepsFollow
  <2>2. QED
    BY <1>1, <2>1, AsideKeeps DEF BeginOrRefuse
<1>2. CASE AskSeed
  BY <1>2, AskSeedKeeps
<1>3. CASE CutRoots
  BY <1>3, CutRootsKeeps
<1>4. CASE PassBy \/ Reject \/ Miss
  BY <1>4, PassedKeeps
<1>5. CASE ReadIndex
  BY <1>5, ReadIndexKeeps
<1>6. CASE ReadList
  BY <1>6, ReadListKeeps
<1>7. CASE EndWalk
  BY <1>7, AsideKeeps DEF EndWalk, SiteInv, StepsFollow
<1>8. CASE SelectSample
  BY <1>8, AsideKeeps DEF SelectSample, SiteInv, SiteTypes
<1>9. CASE RequestSample
  BY <1>9, AsideKeeps DEF RequestSample, SiteInv, SiteTypes
<1>10. CASE Conclude
  BY <1>10, AsideKeeps DEF Conclude
<1>11. CASE UNCHANGED siteVars
  <2>1. complete' = complete /\ step' = step /\ joined' = joined
    BY <1>11 DEF siteVars, sampleVars
  <2>2. UNCHANGED <<siteInputs, seeds, files, visited, parsed, entries>>
    BY <1>11 DEF siteVars
  <2>3. QED
    BY <2>1, <2>2, AsideKeeps DEF SiteInv, SiteTypes, StepsFollow
<1>12. QED
  BY <1>1, <1>2, <1>3, <1>4, <1>5, <1>6, <1>7, <1>8, <1>9, <1>10, <1>11 DEF FilesNext

LEMMA SiteInvariant == FilesSpec => []SiteInv
BY InitSite, SiteStepKeeps, PTL DEF FilesSpec

\* For every site, every order of answers, every budget and every depth: what
\* collect_current_site_files calls complete has every admitted sitemap of the
\* site, each of its entries once, and joins the graph with all they admit.
THEOREM CompleteMeansAll == FilesSpec => []CompleteIsComplete
<1>1. SiteInv => CompleteIsComplete
  <2> SUFFICES ASSUME SiteInv PROVE CompleteIsComplete
    OBVIOUS
  <2>1. Cardinality(visited) <= budget /\ Len(entries) <= EntryLimit
    BY DEF SiteInv, SiteTypes
  <2>2. parsed \subseteq TheSite \cap Admitted
    BY DEF SiteInv, SiteTypes, WalkIsOfTheSite, TheSite
  <2>3. ASSUME step = "told", complete
        PROVE  /\ \A f \in TheSite \cap Admitted :
                     f \in parsed \/ (Answer(f) = "missing" /\ f \in Optional)
               /\ ToSet(entries) = UNION {ToSet(EntriesOf(f)) : f \in Lists}
               /\ IsInjective(entries)
               /\ joined = {u \in Admitted : \E f \in Lists : u \in ToSet(UrlsOf[f])}
    <3>1. Queued = {}
      BY <2>3 DEF SiteInv, StepsFollow, Queued, ToSet
    <3>2. IsClosed(visited)
      <4>1. Roots \subseteq visited
        BY <2>3, <3>1 DEF SiteInv, NothingIsForgotten, Roots
      <4>2. ASSUME NEW f \in visited \cap Admitted, Answer(f) = "read"
            PROVE  ToSet(children[f]) \subseteq visited
        BY <2>3, <3>1, <4>2 DEF SiteInv, NothingIsForgotten, NothingIsSkipped
      <4>3. QED
        BY <4>1, <4>2 DEF IsClosed
    <3>3. TheSite \subseteq visited
      BY <3>2 DEF TheSite, SiteInv, SiteTypes
    <3>4. \A f \in TheSite \cap Admitted :
             f \in parsed \/ (Answer(f) = "missing" /\ f \in Optional)
      BY <2>3, <3>3 DEF SiteInv, NothingIsSkipped
    <3>5. \A f : ToSet(EntriesOf(f)) = {<<f, k>> : k \in DOMAIN UrlsOf[f]}
      BY DEF EntriesOf, ToSet
    <3>6. \A e \in ToSet(entries) : /\ e[1] \in Lists /\ e[2] \in DOMAIN UrlsOf[e[1]]
                                    /\ e = <<e[1], e[2]>>
      <4>1. entries \in Seq(File \X Nat)
        BY DEF SiteInv, SiteTypes
      <4>2. \A k \in DOMAIN entries : entries[k] \in File \X Nat
        BY <4>1
      <4>3. QED
        BY <4>2 DEF SiteInv, EntriesAreOfLists, ToSet
    <3>7. \A f \in Lists : \A k \in DOMAIN UrlsOf[f] : <<f, k>> \in ToSet(entries)
      BY <2>3 DEF SiteInv, NothingIsSkipped, HasEntry
    <3>8. ToSet(entries) = UNION {ToSet(EntriesOf(f)) : f \in Lists}
      BY <3>5, <3>6, <3>7
    <3>9. joined = {u \in Admitted : \E f \in Lists : u \in ToSet(UrlsOf[f])}
      <4>1. joined = {UrlAt(k) : k \in InScope}
        BY <2>3 DEF SiteInv, StepsFollow
      <4>2. ASSUME NEW k \in InScope
            PROVE  UrlAt(k) \in Admitted /\ \E f \in Lists : UrlAt(k) \in ToSet(UrlsOf[f])
        <5>1. /\ entries[k][1] \in Lists /\ entries[k][2] \in DOMAIN UrlsOf[entries[k][1]]
              /\ UrlAt(k) \in Admitted /\ UrlAt(k) = UrlsOf[entries[k][1]][entries[k][2]]
          BY <4>2 DEF InScope, UrlAt, SiteInv, EntriesAreOfLists
        <5>2. UrlAt(k) \in ToSet(UrlsOf[entries[k][1]])
          BY <5>1 DEF ToSet
        <5>3. QED
          BY <5>1, <5>2
      <4>3. ASSUME NEW f \in Lists, NEW k \in DOMAIN UrlsOf[f], UrlsOf[f][k] \in Admitted
            PROVE  UrlsOf[f][k] \in {UrlAt(j) : j \in InScope}
        <5>1. PICK j \in DOMAIN entries : entries[j] = <<f, k>>
          BY <3>7 DEF ToSet
        <5>2. UrlAt(j) = UrlsOf[f][k] /\ j \in InScope
          BY <4>3, <5>1 DEF UrlAt, InScope
        <5>3. QED
          BY <5>2
      <4>4. ASSUME NEW f \in Lists, NEW u \in ToSet(UrlsOf[f]), u \in Admitted PROVE u \in joined
        <5>1. PICK k \in DOMAIN UrlsOf[f] : u = UrlsOf[f][k]
          BY DEF ToSet
        <5>2. QED
          BY <4>1, <4>3, <4>4, <5>1
      <4>5. \A u : u \in joined <=> u \in Admitted /\ \E f \in Lists : u \in ToSet(UrlsOf[f])
        BY <4>1, <4>2, <4>4
      <4>6. QED
        BY <4>5
    <3>10. QED
      BY <3>4, <3>8, <3>9 DEF SiteInv, EntriesAreOfLists
  <2>4. QED
    BY <2>1, <2>2, <2>3 DEF CompleteIsComplete
<1>2. QED
  BY SiteInvariant, <1>1, PTL

=============================================================================
