----------------------------- MODULE PageStore -----------------------------
(*
The tables into which AsyncpgStore.persist (crawler_cli/persistence.py)
spreads one fetched page: rows of the URL that are replaced in place,
rows that are deleted and inserted again, rows of a run, and where the
run learned of its URLs.  RunHistory follows what later commands make
of a page as a whole; here a page is what was found in it.

persist is one transaction that holds the rows of its URLs and is tried
again from its beginning after a deadlock, so it is one action.
*)
EXTENDS Naturals, FiniteSets

CONSTANTS StoredUrl, Document,  \* URLs; those with the suffix of an office document
          Run,
          Legacy,         \* DEFAULT_CRAWL_RUN_ID
          Finds,          \* sets of tables that a page may have rows for
          MaxFetches      \* bound: results given to persist

Upserted == {"pages", "content", "indexability"}
Deleted == {"robots_directives", "canonical_urls", "hreflang", "schema", "internal_links", "analytics"}
Kept == {"amphtml_urls"}
OfTheRun == {"javascript_url_candidates", "css_url_candidates", "render_url_candidates"}

PagesAssumption ==
    /\ Document \subseteq StoredUrl /\ MaxFetches \in Nat
    /\ Finds \subseteq SUBSET (Deleted \cup Kept \cup OfTheRun)

VARIABLES runRows,     \* run ids of crawl_runs
          active,      \* active_run_id of the crawling store
          fetches,     \* results persisted so far
          kind,        \* of each row of urls, "none" without a row
          facts,       \* rows of a URL: table, URL and the fetch they are from
          runFacts,    \* rows of a run and a URL
          snapshots,   \* page_run_snapshots
          urlSources,  \* URLs with a source
          runSources,  \* and in which run
          told         \* history: the calls of record_source, with their run

pageVars == <<runRows, active, fetches, kind, facts, runFacts, snapshots, urlSources, runSources, told>>

PagesInit ==
    /\ runRows = {} /\ active = Legacy /\ fetches = 0
    /\ kind = [u \in StoredUrl |-> "none"]
    /\ facts = {} /\ runFacts = {} /\ snapshots = {}
    /\ urlSources = {} /\ runSources = {} /\ told = {}

\* Every row of urls that the store writes is of the kind it defaults to.
WithRows(us) == [u \in StoredUrl |-> IF u \in us THEN "html" ELSE kind[u]]

CreateCrawlRun(r) ==
    /\ r \notin runRows
    /\ runRows' = runRows \cup {r} /\ active' = r
    /\ UNCHANGED <<fetches, kind, facts, runFacts, snapshots, urlSources, runSources, told>>

\* A run that is resumed becomes the active one of its store again.
SetActiveCrawlRun(r) ==
    /\ r \in runRows \ {active}
    /\ active' = r
    /\ UNCHANGED <<runRows, fetches, kind, facts, runFacts, snapshots, urlSources, runSources, told>>

\* A copy of all that is known of the URL.
SourceRowsOfAnyTime(u) ==
    IF active \in runRows THEN {active} \X (urlSources \cup {u}) ELSE {}

\* The insertion into run_url_sources depends on the run's row.
SourceRows(u) == IF active \in runRows THEN {<<active, u>>} ELSE {}

RecordSource(u) ==
    /\ kind' = WithRows({u})
    /\ urlSources' = urlSources \cup {u}
    /\ runSources' = runSources \cup SourceRows(u)
    /\ told' = told \cup {<<active, u>>}
    /\ UNCHANGED <<runRows, active, fetches, facts, runFacts, snapshots>>

Fetch(url, found) == [n |-> fetches + 1, run |-> active, url |-> url, found |-> found]

\* The one row of the run and the URL, whatever stood there.
WithSnapshot(stored, u, fetch, content) ==
    {s \in stored : s.run # active \/ s.url # u} \cup
        {[run |-> active, url |-> u, fetch |-> fetch, content |-> content]}

\* A result without content: a failure, a challenge, a skip.
PersistBare(requested, final) ==
    /\ fetches < MaxFetches /\ fetches' = fetches + 1
    /\ runRows' = runRows \cup {active}
    /\ kind' = WithRows({requested, final})
    /\ snapshots' = WithSnapshot(snapshots, requested, Fetch(requested, {}), FALSE)
    /\ UNCHANGED <<active, facts, runFacts, urlSources, runSources, told>>

\* Without the two tables of structured data.
ClearPageOfLinks(stored, u) == {x \in stored : x.url # u \/ x.table \in Kept \cup {"schema"}}

\* _clear_page_snapshot, and the rows that ON CONFLICT replaces.
ClearPage(stored, u) == {x \in stored : x.url # u \/ x.table \in Kept}

\* Candidates are deleted only when there are some to put in their place.
ClearCandidatesIfAny(u, found) ==
    {x \in runFacts : x.run # active \/ x.url # u \/ x.table \notin found}

ClearCandidates(u, found) == {x \in runFacts : x.run # active \/ x.url # u}

\* The content belongs to the URL that served it; a URL that only led there
\* gets a snapshot without content.
PersistPage(requested, final, found) ==
    LET fetch == Fetch(final, found)
        mine == WithSnapshot(snapshots, final, fetch, TRUE)
    IN  /\ fetches < MaxFetches /\ fetches' = fetches + 1
        /\ runRows' = runRows \cup {active}
        /\ kind' = WithRows({requested, final})
        /\ facts' = ClearPage(facts, final) \cup
              {[table |-> t, url |-> final, fetch |-> fetch] : t \in Upserted \cup (found \ OfTheRun)}
        /\ runFacts' = ClearCandidates(final, found) \cup
              {[table |-> t, run |-> active, url |-> final, fetch |-> fetch] : t \in found \cap OfTheRun}
        /\ snapshots' = IF requested = final THEN mine ELSE WithSnapshot(mine, requested, fetch, FALSE)
        /\ UNCHANGED <<active, urlSources, runSources, told>>

PagesNext ==
    \/ \E r \in Run : CreateCrawlRun(r) \/ SetActiveCrawlRun(r)
    \/ \E u \in StoredUrl : RecordSource(u)
    \/ \E requested, final \in StoredUrl :
          PersistBare(requested, final) \/ \E found \in Finds : PersistPage(requested, final, found)

PagesSpec == PagesInit /\ [][PagesNext]_pageVars

--------------------
\* nonhtml_search_assets: documents of the run that are not of the kind html.
DocumentsOf(r) ==
    {u \in Document : kind[u] # "html" /\ \E s \in snapshots : s.run = r /\ s.url = u}

--------------------
RowsOf(u) == {x \in facts : x.url = u}
TablesOf(u) == {x.table : x \in {y \in RowsOf(u) : y.table \notin Kept}}

\* The current rows of a URL are those of one fetch and all of them: whatever
\* redirects, failures and runs came between, no table keeps what the last page
\* served there no longer says, and none lacks what it says.
OneFetchOfAPage ==
    \A u \in StoredUrl : \A x \in RowsOf(u) : x.table \notin Kept =>
        /\ x.fetch.url = u
        /\ TablesOf(u) = Upserted \cup (x.fetch.found \ (OfTheRun \cup Kept))
        /\ \A y \in RowsOf(u) : y.table \notin Kept => y.fetch = x.fetch

\* The candidates a run holds for a page with content are those of the fetch
\* that its snapshot is of.
CandidatesFollowTheContent ==
    \A s \in snapshots : s.content =>
        {x.table : x \in {y \in runFacts : y.run = s.run /\ y.url = s.url}} = s.fetch.found \cap OfTheRun

\* A run holds what was fetched and found while it was the active one, and
\* nothing else, however runs alternate in one store.
RunEvidenceIsOfItsRun ==
    /\ \A s \in snapshots \cup runFacts : s.fetch.run = s.run
    /\ runSources \subseteq told

\* The rows of a URL are all those of one fetch of it, its candidates those of the
\* content, and what a run says was fetched and learned in it was.
RowsAreOfOneFetch == OneFetchOfAPage /\ CandidatesFollowTheContent /\ RunEvidenceIsOfItsRun

\* "Store the immutable values observed for this URL in the active run": what a
\* run has of a page is not replaced by a later result without content.
SnapshotIsImmutable ==
    [][\A s \in snapshots : s.content =>
          \E t \in snapshots' : t.run = s.run /\ t.url = s.url /\ t.content]_pageVars

\* "Return fetched office/PDF documents": a document of the run is among those
\* that nonhtml_search_assets looks at.
DocumentsAreFound ==
    \A s \in snapshots : s.url \in Document => s.url \in DocumentsOf(s.run)

\* "mirroring _persist_canonical": the amphtml edges of a page are those of the
\* fetch that its canonical ones are of.
AmphtmlIsOfThePage ==
    \A x, y \in facts : x.table = "amphtml_urls" /\ y.table = "pages" /\ x.url = y.url => x.fetch = y.fetch

=============================================================================
