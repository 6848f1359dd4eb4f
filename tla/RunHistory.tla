----------------------------- MODULE RunHistory -----------------------------
(*
What AsyncpgStore (crawler_cli/persistence.py) keeps of the pages it is
given, and what the enrichment commands make of it: the current state
of each URL, overwritten by every crawl, and one snapshot per URL of
each crawl run, from which intent signatures (intent_signature.py) and
embeddings (embeddings.py) of the run are built.

A page's content is the fetch it came from: its URL, its run and a
number.  The commands that use the store run one after another; each
method is one action, but an embedding job stores its vectors one by
one and initialize() commits each of its statements by itself.
*)
EXTENDS Integers, FiniteSets

CONSTANTS PageUrl, Model,
          Listed,      \* URLs with alternates in a sitemap
          Run,         \* crawl run ids that the commands of a crawl may get
          Legacy,      \* DEFAULT_CRAWL_RUN_ID
          Olds,        \* URLs that a database may have pages of beforehand
          MaxCommands  \* bound: commands and store methods called

ASSUME HistoryAssumption ==
    /\ Listed \subseteq PageUrl
    /\ \A old \in Olds : old \subseteq PageUrl
    /\ MaxCommands \in Nat

VARIABLES hasSnapshots,  \* the database has the table page_run_snapshots
          migrating,     \* initialize() stands before the legacy projection
          runRows,       \* run ids with a crawl_runs row
          active,        \* the crawling store's active_run_id
          commands,      \* called so far
          pages,         \* current content of each URL
          edges,         \* current hreflang edges of each URL, by their source
          listed,        \* history: <<run, url>> whose sitemap gave an edge
          snap,          \* page_run_snapshots
          signature,     \* run_intent_signatures: the content that was hashed
          embedding,     \* run_page_embeddings
          job            \* the running embedding job

databaseVars == <<hasSnapshots, migrating>>
pageVars == <<pages, edges, listed>>
historyVars == <<databaseVars, runRows, active, commands, pageVars, snap, signature, embedding, job>>

RunId == Run \cup {Legacy}
NoContent == [url |-> "none", run |-> "none", fetch |-> -1]
Content == {NoContent} \cup [url : PageUrl, run : RunId, fetch : 0..MaxCommands]
Source == {"page", "sitemap"}
JobSource == {"signature", "page-text", "openai"}

NoSnapshot == [stored |-> FALSE, content |-> NoContent, html |-> FALSE, edges |-> {}]
Snapshot(content, found) ==
    [stored |-> TRUE, content |-> content, html |-> content # NoContent, edges |-> found]

NoEmbedding == [of |-> NoContent, model |-> "none", hashed |-> FALSE]
NoJob == [run |-> "none", model |-> "none", source |-> "none", todo |-> {}, failed |-> FALSE]

\* A database of the time before runs had snapshots, or a new one.
HistoryInit ==
    /\ hasSnapshots = FALSE /\ migrating = FALSE
    /\ runRows = {} /\ active = Legacy /\ commands = 0
    /\ \E old \in Olds :
          /\ pages = [u \in PageUrl |-> IF u \in old THEN [url |-> u, run |-> Legacy, fetch |-> 0]
                                   ELSE NoContent]
          /\ edges = [u \in PageUrl |-> IF u \in old THEN {"page"} ELSE {}]
    /\ listed = {}
    /\ snap = [r \in RunId |-> [u \in PageUrl |-> NoSnapshot]]
    /\ signature = [r \in RunId |-> [u \in PageUrl |-> NoContent]]
    /\ embedding = [r \in RunId |-> [u \in PageUrl |-> NoEmbedding]]
    /\ job = NoJob

--------------------
\* Every command begins with initialize().

HasLegacyState == \E u \in PageUrl : pages[u] # NoContent

\* The schema statements, each committed when it ends.
CreateSchema ==
    /\ ~hasSnapshots
    /\ hasSnapshots' = TRUE
    /\ migrating' = HasLegacyState
    /\ UNCHANGED <<runRows, active, commands, pageVars, snap, signature, embedding, job>>

LegacyRow(u) ==
    IF snap[Legacy][u].stored \/ pages[u] = NoContent THEN snap[Legacy][u]
    ELSE Snapshot(pages[u], edges[u])

ProjectLegacy ==
    /\ migrating
    /\ migrating' = FALSE
    /\ runRows' = runRows \cup {Legacy}
    /\ snap' = [snap EXCEPT ![Legacy] = [u \in PageUrl |-> LegacyRow(u)]]
    /\ UNCHANGED <<hasSnapshots, active, commands, pageVars, signature, embedding, job>>

\* The process ends, or loses its connection, between the two.
InitializeDies ==
    /\ migrating
    /\ migrating' = FALSE
    /\ UNCHANGED <<hasSnapshots, runRows, active, commands, pageVars, snap, signature, embedding, job>>

\* The store is initialized and no command is at work on it.
IsReady == hasSnapshots /\ ~migrating /\ job = NoJob
Call == IsReady /\ commands < MaxCommands /\ commands' = commands + 1

--------------------
\* The crawl.

CreateCrawlRun(r) ==
    /\ Call /\ r \notin runRows
    /\ runRows' = runRows \cup {r}
    /\ active' = r
    /\ UNCHANGED <<databaseVars, pageVars, snap, signature, embedding, job>>

\* A resumed run: get_crawl_run and set_active_crawl_run.
ResumeCrawlRun(r) ==
    /\ Call /\ r \in runRows \ {active}
    /\ active' = r
    /\ UNCHANGED <<databaseVars, runRows, pageVars, snap, signature, embedding, job>>

\* persist_sitemap_hreflang_bulk
PersistSitemapHreflang(u) ==
    /\ Call /\ active \in runRows /\ u \in Listed
    /\ edges' = [edges EXCEPT ![u] = @ \cup {"sitemap"}]
    /\ listed' = listed \cup {<<active, u>>}
    /\ UNCHANGED <<databaseVars, runRows, active, pages, snap, signature, embedding, job>>

\* The URL that served the content owns it.
ContentUrl(requested, final) == final

\* Mutant: the URL's current state is cleared with its snapshot.
PersistBareClears(requested) ==
    /\ Call
    /\ runRows' = runRows \cup {active}
    /\ pages' = [pages EXCEPT ![requested] = NoContent]
    /\ snap' = [snap EXCEPT ![active][requested] = Snapshot(NoContent, {})]
    /\ UNCHANGED <<databaseVars, active, edges, listed, signature, embedding, job>>

\* persist() of a result without extractable content: what earlier results
\* left in pages stays; the run's snapshot becomes that of this fetch.
PersistBare(requested) ==
    /\ Call
    /\ runRows' = runRows \cup {active}
    /\ snap' = [snap EXCEPT ![active][requested] = Snapshot(NoContent, {})]
    /\ UNCHANGED <<databaseVars, active, pageVars, signature, embedding, job>>

\* persist() of a page.  The edges of the URL are cleared, those of its sitemap
\* too, and only the page's own are put back.
PersistPage(requested, final) ==
    LET owner == ContentUrl(requested, final)
        content == [url |-> final, run |-> active, fetch |-> commands + 1]
        mine == [snap[active] EXCEPT ![owner] = Snapshot(content, {"page"})]
    IN  /\ Call
        /\ runRows' = runRows \cup {active}
        /\ pages' = [pages EXCEPT ![owner] = content]
        /\ edges' = [edges EXCEPT ![owner] = {"page"}]
        /\ snap' = [snap EXCEPT ![active] =
                       IF owner = requested THEN mine
                       ELSE [mine EXCEPT ![requested] = Snapshot(NoContent, {})]]
        /\ UNCHANGED <<databaseVars, active, listed, signature, embedding, job>>

--------------------
\* Enrichment of one run, which resolve_reporting_run_id has found.

\* Mutant: signatures are made from the current state of the pages.
SignedContentOfPages(r, u) == pages[u]

\* fetch_pages_for_signatures: snapshots that have kept their HTML.
SignedContent(r, u) ==
    IF snap[r][u].html THEN snap[r][u].content ELSE signature[r][u]

BackfillSignatures(r) ==
    /\ Call /\ r \in runRows
    /\ signature' = [signature EXCEPT ![r] = [u \in PageUrl |-> SignedContent(r, u)]]
    /\ UNCHANGED <<databaseVars, runRows, active, pageVars, snap, embedding, job>>

\* Mutant: a vector is up to date if its model is.
IsEmbeddedAnyHash(r, m, u) == embedding[r][u].model = m

\* The hash gate of signature embeddings.
IsEmbedded(r, m, u) ==
    /\ embedding[r][u].model = m
    /\ embedding[r][u].hashed /\ embedding[r][u].of = signature[r][u]

WithText(r) == {u \in PageUrl : snap[r][u].html}
Row(u, content, hashed) == [url |-> u, content |-> content, hashed |-> hashed]

\* generate_signature_embeddings_for_store, source = "signature"
SignatureRows(r, m, force) ==
    {Row(u, signature[r][u], TRUE) :
        u \in {v \in PageUrl : signature[r][v] # NoContent /\ (force \/ ~IsEmbedded(r, m, v))}}

\* source = "page-text": each row says it is embedded with the model asked for.
PageTextRows(r, m, force) ==
    {Row(u, snap[r][u].content, FALSE) : u \in {v \in WithText(r) : force}}

\* generate_embeddings_for_store (OpenAI)
RemoteRows(r, m, force) ==
    {Row(u, snap[r][u].content, FALSE) :
        u \in {v \in WithText(r) : force \/ embedding[r][v].model # m}}

RowsOf(source, r, m, force) ==
    CASE source = "signature" -> SignatureRows(r, m, force)
      [] source = "page-text" -> PageTextRows(r, m, force)
      [] source = "openai"    -> RemoteRows(r, m, force)

BeginJob(r, m, source, force) ==
    /\ Call /\ r \in runRows
    /\ job' = [run |-> r, model |-> m, source |-> source,
               todo |-> RowsOf(source, r, m, force), failed |-> FALSE]
    /\ UNCHANGED <<databaseVars, runRows, active, pageVars, snap, signature, embedding>>

\* The encoder or the insert raises: the row is counted as failed.
StoreEmbedding(row) ==
    /\ row \in job.todo
    /\ \/ /\ embedding' = [embedding EXCEPT ![job.run][row.url] =
                              [of |-> row.content, model |-> job.model, hashed |-> row.hashed]]
          /\ job' = [job EXCEPT !.todo = @ \ {row}]
       \/ /\ job' = [job EXCEPT !.todo = @ \ {row}, !.failed = TRUE]
          /\ UNCHANGED embedding
    /\ UNCHANGED <<databaseVars, runRows, active, commands, pageVars, snap, signature>>

EndJob ==
    /\ job # NoJob /\ (job.todo = {} \/ job.failed)
    /\ job' = NoJob
    /\ UNCHANGED <<databaseVars, runRows, active, commands, pageVars, snap, signature, embedding>>

\* compact-crawl: the run's HTML goes, its facts stay.
PurgeRunSnapshotHtml(r) ==
    /\ Call /\ r \in runRows
    /\ snap' = [snap EXCEPT ![r] = [u \in PageUrl |-> [snap[r][u] EXCEPT !.html = FALSE]]]
    /\ UNCHANGED <<databaseVars, runRows, active, pageVars, signature, embedding, job>>

\* delete-crawl: every table of the crawler is emptied, for all runs.
TruncateCrawlTables ==
    /\ Call
    /\ runRows' = {}
    /\ pages' = [u \in PageUrl |-> NoContent] /\ edges' = [u \in PageUrl |-> {}]
    /\ listed' = {}
    /\ snap' = [r \in RunId |-> [u \in PageUrl |-> NoSnapshot]]
    /\ signature' = [r \in RunId |-> [u \in PageUrl |-> NoContent]]
    /\ embedding' = [r \in RunId |-> [u \in PageUrl |-> NoEmbedding]]
    /\ UNCHANGED <<databaseVars, active, job>>

Crawl ==
    \/ \E r \in Run : CreateCrawlRun(r) \/ ResumeCrawlRun(r)
    \/ \E u \in PageUrl : PersistSitemapHreflang(u) \/ PersistBare(u)
    \/ \E requested, final \in PageUrl : PersistPage(requested, final)

Enrich ==
    \/ \E r \in RunId : BackfillSignatures(r) \/ PurgeRunSnapshotHtml(r)
    \/ \E r \in RunId, m \in Model, force \in BOOLEAN,
          source \in JobSource : BeginJob(r, m, source, force)
    \/ \E row \in job.todo : StoreEmbedding(row)
    \/ EndJob

HistoryNext == CreateSchema \/ ProjectLegacy \/ InitializeDies \/ Crawl \/ Enrich \/ TruncateCrawlTables

HistorySpec == HistoryInit /\ [][HistoryNext]_historyVars

--------------------
SnapshotType == [stored : BOOLEAN, content : Content, html : BOOLEAN, edges : SUBSET Source]
EmbeddingType == [of : Content, model : Model \cup {"none"}, hashed : BOOLEAN]
RowType == [url : PageUrl, content : Content, hashed : BOOLEAN]

HistoryTypes ==
    /\ hasSnapshots \in BOOLEAN /\ migrating \in BOOLEAN
    /\ runRows \subseteq RunId /\ active \in RunId /\ commands \in 0..MaxCommands
    /\ pages \in [PageUrl -> Content] /\ edges \in [PageUrl -> SUBSET Source]
    /\ listed \subseteq RunId \X PageUrl
    /\ snap \in [RunId -> [PageUrl -> SnapshotType]]
    /\ signature \in [RunId -> [PageUrl -> Content]]
    /\ embedding \in [RunId -> [PageUrl -> EmbeddingType]]
    /\ job.run \in RunId \cup {"none"} /\ job.model \in Model \cup {"none"}
    /\ job.source \in JobSource \cup {"none"}
    /\ job.todo \subseteq RowType /\ job.failed \in BOOLEAN
    /\ job # NoJob => job.run \in RunId

IsOf(content, r, u) == content # NoContent => content.url = u /\ content.run = r

\* A report of one run reads nothing that another run fetched or another URL
\* served: no redirect, retry, resume, enrichment or migration, in any order,
\* puts a content under a run or a URL that is not its own.
HistoryIsOfItsRun ==
    /\ \A u \in PageUrl : pages[u] # NoContent => pages[u].url = u
    /\ \A r \in RunId, u \in PageUrl :
          /\ IsOf(snap[r][u].content, r, u)
          /\ IsOf(signature[r][u], r, u)
          /\ IsOf(embedding[r][u].of, r, u)

\* When a signature job ends without a failure, every signed page of its run
\* has a vector of its model for just that signature, whatever jobs, models,
\* failures and recrawls came before.
HasVector(u) ==
    /\ embedding[job.run][u].model = job.model
    /\ embedding[job.run][u].of = signature[job.run][u]

JobsRefreshWhatIsStale ==
    job.source = "signature" /\ job.todo = {} /\ ~job.failed =>
        \A u \in PageUrl : signature[job.run][u] # NoContent => HasVector(u)

\* Neither a later fetch that fails nor any enrichment takes the last content of
\* a page away: only the deletion of the crawl does.
PagesSurviveFailures ==
    [][\A u \in PageUrl : pages[u] # NoContent /\ runRows' # {} => pages'[u] # NoContent]_historyVars

\* What reports read is of their run, complete when a job says so, and outlives
\* the failures of later fetches.
HistoryIsSound ==
    [](HistoryIsOfItsRun /\ JobsRefreshWhatIsStale) /\ PagesSurviveFailures

--------------------
(*
What the repository says and the code does not keep.
*)
\* "the crawler's already-captured hreflang edges (the three tables ...)": an
\* edge that a run took from a sitemap is among those of the run's page, from
\* which fetch_hreflang_edges builds the groups.
SitemapEdgesCount ==
    \A r \in RunId, u \in PageUrl :
        <<r, u>> \in listed /\ snap[r][u].content # NoContent =>
            "sitemap" \in snap[r][u].edges

=============================================================================
