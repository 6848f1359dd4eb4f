------------------------ MODULE SourceReconciliation ------------------------
(*
The command reconcile-sources (crawler_cli/source_reconciliation.py,
with reports.py for what it reads): the links between the pages that a
run has stored are joined with sitemaps and two exports, every URL is
put into one segment, and the report says whether a URL without links
has none in the site or only none that was seen.  The run may still be
going, end, die and be resumed while the report is made.

A snapshot is what persist makes of an answer: the page at the end of a
redirect is stored by the fetch of the URL that led there, too.
*)
EXTENDS Integers, FiniteSets

CONSTANTS SiteUrl, ForeignUrl,   \* URLs of the site; URLs of a host that is not crawled
          Seeds,
          Outside,        \* URLs of the site that the run is not to enter
          LinksOf,        \* what each page links to
          Destination,    \* where each URL leads if it redirects
          Worlds,         \* what the URLs answer, for every site considered
          Requests,       \* what the command is given
          SitemapOfRun,   \* URLs that the run learned of from a sitemap
          Limits,         \* values of max_urls, 0 for none
          MaxSessions     \* bound: starts and resumes of the run

ReconciliationAssumption ==
    /\ Seeds \cup Outside \subseteq SiteUrl /\ SiteUrl \cap ForeignUrl = {} /\ Seeds \cap Outside = {}
    /\ IsFiniteSet(SiteUrl) /\ Limits \subseteq Nat /\ MaxSessions \in Nat
    /\ \A w \in Worlds, u \in SiteUrl : w[u] = "moved" => w[Destination[u]] \notin {"moved", "blocked"}

VARIABLES answer, limit,              \* inputs
          status, frontier, task,     \* the run; its rows; where the task of a URL is
          runSnapshots, sessions, taken, \* page_run_snapshots; bound; pages of the session
          stage, request, context, pages, provenance, collected  \* the report

runVars == <<status, frontier, task, runSnapshots, sessions, taken>>
reportVars == <<stage, request, context, pages, provenance, collected>>
runInputs == <<answer, limit>>
reconciliationVars == <<runInputs, runVars, reportVars>>

Answers == {"page", "half", "noindex", "alias", "missing", "moved", "blocked"}

ReconciliationInit ==
    /\ answer \in Worlds /\ limit \in Limits
    /\ status = "none" /\ frontier = [u \in SiteUrl |-> "none"] /\ task = [u \in SiteUrl |-> "idle"]
    /\ runSnapshots = [u \in {} |-> {}] /\ sessions = 0 /\ taken = 0
    /\ stage = "idle" /\ request = [readable |-> FALSE, current |-> FALSE]
    /\ context = [run_status |-> "unknown"] /\ pages = runSnapshots
    /\ provenance = {} /\ collected = {}

--------------------
\* A row goes into the frontier only once.
Enqueued(rows, us) ==
    [u \in SiteUrl |-> IF u \in us /\ rows[u] = "none" THEN "queued" ELSE rows[u]]

\* A URL that is out of scope is recorded as done.
Recorded(us) == [u \in SiteUrl |-> IF u \in us \cap Outside THEN "done" ELSE frontier[u]]

StartRun ==
    /\ status = "none" /\ sessions < MaxSessions
    /\ status' = "running" /\ frontier' = Enqueued(frontier, Seeds)
    /\ sessions' = sessions + 1 /\ taken' = 0
    /\ UNCHANGED <<runInputs, task, runSnapshots, reportVars>>

ResumeSession ==
    /\ status \notin {"none", "running"} /\ sessions < MaxSessions
    /\ status' = "running" /\ sessions' = sessions + 1 /\ taken' = 0
    /\ frontier' = [u \in SiteUrl |-> IF frontier[u] = "pending" THEN "queued" ELSE frontier[u]]
    /\ UNCHANGED <<runInputs, task, runSnapshots, reportVars>>

Take(u) ==
    /\ status = "running" /\ frontier[u] = "queued" /\ (limit = 0 \/ taken < limit)
    /\ frontier' = [frontier EXCEPT ![u] = "pending"] /\ taken' = taken + 1
    /\ UNCHANGED <<runInputs, status, task, runSnapshots, sessions, reportVars>>

StatusOf(kind) == IF kind = "missing" THEN 404 ELSE 200

\* The status of the first hop stands in every row that a fetch writes.
ContentRow(u, first) ==
    [initial |-> first, final |-> StatusOf(answer[u]), extracted |-> TRUE,
     rendered |-> answer[u] # "half", links |-> LinksOf[u],
     indexable |-> answer[u] \in {"page", "half", "alias"},
     canonical |-> IF answer[u] = "alias" THEN "noncanonical" ELSE "declared_self"]

Bare(first, last) ==
    [initial |-> first, final |-> last, extracted |-> FALSE, rendered |-> TRUE,
     links |-> {}, indexable |-> FALSE, canonical |-> "implicit_self"]

Store(u, row) == [v \in DOMAIN runSnapshots \cup {u} |-> IF v = u THEN row ELSE runSnapshots[v]]

\* A page that robots.txt forbids is skipped before anything is persisted.
FetchPage(u) ==
    /\ status = "running" /\ frontier[u] = "pending" /\ task[u] = "idle"
    /\ task' = [task EXCEPT ![u] = "fetched"]
    /\ runSnapshots' =
          IF answer[u] = "blocked" THEN runSnapshots
          ELSE IF answer[u] = "moved"
          THEN LET end == Destination[u]
               IN  [v \in DOMAIN runSnapshots \cup {u, end} |->
                      IF v = u THEN Bare(301, StatusOf(answer[end]))
                      ELSE IF v = end THEN ContentRow(end, 301) ELSE runSnapshots[v]]
          ELSE Store(u, ContentRow(u, StatusOf(answer[u])))
    /\ UNCHANGED <<runInputs, status, frontier, sessions, taken, reportVars>>

LinksFound(u) ==
    CASE answer[u] = "blocked" -> {}
      [] answer[u] = "moved" -> LinksOf[Destination[u]]
      [] OTHER -> LinksOf[u]

\* With a limit, links for which the frontier has no room are dropped.
Admissible(rows, us) ==
    LET room == limit - Cardinality({u \in SiteUrl : rows[u] # "none"})
    IN  {chosen \in SUBSET us :
            IF limit = 0 THEN chosen = us
            ELSE IF room <= 0 THEN chosen = {}
            ELSE Cardinality(chosen) <= room /\ (Cardinality(chosen) = room \/ chosen = us)}

EnqueueLinks(u) ==
    /\ status = "running" /\ task[u] = "fetched"
    /\ task' = [task EXCEPT ![u] = "enqueued"]
    /\ LET found == LinksFound(u)
           rows == Recorded(found)
       IN  \E chosen \in Admissible(rows, found \ Outside) : frontier' = Enqueued(rows, chosen)
    /\ UNCHANGED <<runInputs, status, runSnapshots, sessions, taken, reportVars>>

MarkDone(u) ==
    /\ status = "running" /\ task[u] = "enqueued"
    /\ task' = [task EXCEPT ![u] = "idle"] /\ frontier' = [frontier EXCEPT ![u] = "done"]
    /\ UNCHANGED <<runInputs, status, runSnapshots, sessions, taken, reportVars>>

Waiting == {u \in SiteUrl : frontier[u] = "queued"}
InFlight == {u \in SiteUrl : frontier[u] = "pending"}

\* Nothing is left, or the session has all the pages it may take.
EndRun ==
    /\ status = "running" /\ InFlight = {} /\ (Waiting = {} \/ (limit > 0 /\ taken = limit))
    /\ status' = "complete"
    /\ UNCHANGED <<runInputs, frontier, task, runSnapshots, sessions, taken, reportVars>>

\* An error in a session: its tasks are gone, its rows stay pending.
FailRun ==
    /\ status = "running" /\ status' = "failed"
    /\ task' = [u \in SiteUrl |-> "idle"]
    /\ UNCHANGED <<runInputs, frontier, runSnapshots, sessions, taken, reportVars>>

--------------------
\* A file that cannot be read ends the command before the store is opened.
LoadSources ==
    /\ stage = "idle" /\ status # "none"
    /\ request' \in Requests
    /\ stage' = IF request'.readable THEN "loaded" ELSE "invalid"
    /\ UNCHANGED <<runInputs, runVars, context, pages, provenance, collected>>

\* technical_audit_context reads the run before it counts the frontier.
ReadRun ==
    /\ stage = "loaded" /\ stage' = "run"
    /\ context' = [run_status |-> status, seed_hosts |-> {"site"}]
    /\ UNCHANGED <<runInputs, runVars, request, pages, provenance, collected>>

ReadFrontier ==
    /\ stage = "run" /\ stage' = "context"
    /\ context' = [run_status |-> context.run_status, seed_hosts |-> context.seed_hosts,
                   unfetched |-> Cardinality(Waiting) + Cardinality(InFlight)]
    /\ UNCHANGED <<runInputs, runVars, request, pages, provenance, collected>>

\* source_reconciliation_inventory: every snapshot, for every row is of the
\* kind html; memberships of sitemaps only of URLs in the run's frontier.
ReadInventory ==
    /\ stage = "context" /\ stage' = "inventory"
    /\ pages' = runSnapshots
    /\ provenance' = IF request.provenance THEN {u \in SitemapOfRun : frontier[u] # "none"} ELSE {}
    /\ UNCHANGED <<runInputs, runVars, request, context, collected>>

\* run_context.get("seed_origins", [])
SeedOrigins ==
    IF "seed_origins" \in DOMAIN context THEN context["seed_origins"] ELSE {}

\* collect_current_site_files raises without a seed.
FetchCurrentSitemaps ==
    /\ stage = "inventory" /\ request.current
    /\ stage' = IF SeedOrigins = {} THEN "raised" ELSE "collected"
    /\ collected' = SeedOrigins
    /\ UNCHANGED <<runInputs, runVars, request, context, pages, provenance>>

WriteReport ==
    /\ stage = IF request.current THEN "collected" ELSE "inventory"
    /\ stage' = "written"
    /\ UNCHANGED <<runInputs, runVars, request, context, pages, provenance, collected>>

ReconciliationNext ==
    \/ StartRun \/ ResumeSession \/ EndRun \/ FailRun
    \/ \E u \in SiteUrl : Take(u) \/ FetchPage(u) \/ EnqueueLinks(u) \/ MarkDone(u)
    \/ LoadSources \/ ReadRun \/ ReadFrontier \/ ReadInventory
    \/ FetchCurrentSitemaps \/ WriteReport

ReconciliationSpec == ReconciliationInit /\ [][ReconciliationNext]_reconciliationVars

--------------------
\* The report, from what was read.
Sitemap == request.sitemap \cup provenance

\* Hosts are those of the pages.
Universe ==
    IF DOMAIN pages = {} THEN {}
    ELSE DOMAIN pages \cup ((Sitemap \cup request.gsc \cup request.backlinks) \ ForeignUrl)

\* _build_link_graph
Linked(u) == \E v \in DOMAIN pages \ {u} : u \in pages[v].links

GraphComplete ==
    DOMAIN pages # {} /\ \A v \in DOMAIN pages : pages[v].extracted /\ pages[v].rendered

\* Mutant: what the run left in its frontier is not looked at.
CompleteAsTheRunSays == GraphComplete /\ context.run_status = "complete"

\* _coverage
CoverageComplete == GraphComplete /\ context.run_status = "complete" /\ context.unfetched = 0

Crawled(u) == u \in DOMAIN pages
Initial(u) == IF Crawled(u) THEN pages[u].initial ELSE 0
Final(u) == IF Crawled(u) THEN pages[u].final ELSE 0
Indexable(u) == Crawled(u) /\ pages[u].indexable
Dead(u) == 404 \in {Initial(u), Final(u)}

\* Mutant: the two exports are looked at in the other order.
SegmentGscFirst(u) ==
    CASE u \in Sitemap /\ Linked(u) -> "graph_and_sitemap"
      [] u \in Sitemap /\ ~Linked(u) -> "sitemap_orphan"
      [] u \notin Sitemap /\ Linked(u) /\ Initial(u) = 200 /\ Indexable(u) -> "unmapped_in_sitemap"
      [] u \in request.gsc \ Sitemap /\ ~Linked(u) -> "gsc_unlinked"
      [] OTHER -> IF u \in request.backlinks /\ (Dead(u) \/ ~Linked(u)) THEN "backlink_dead_end"
                  ELSE IF Linked(u) THEN "linked_not_in_sitemap_other"
                  ELSE "crawled_unlinked_no_source"

\* _segment: the first that applies.
Segment(u) ==
    IF u \in Sitemap THEN IF Linked(u) THEN "graph_and_sitemap" ELSE "sitemap_orphan"
    ELSE IF Linked(u) /\ Initial(u) = 200 /\ Indexable(u) THEN "unmapped_in_sitemap"
    ELSE IF u \in request.backlinks /\ (Dead(u) \/ ~Linked(u)) THEN "backlink_dead_end"
    ELSE IF u \in request.gsc /\ ~Linked(u) THEN "gsc_unlinked"
    ELSE IF Linked(u) THEN "linked_not_in_sitemap_other"
    ELSE "crawled_unlinked_no_source"

Linkage(u) ==
    IF Linked(u) THEN "observed_inlinks"
    ELSE IF CoverageComplete THEN "orphan_complete_graph" ELSE "no_inlinks_from_crawled_pages"

\* _action: what is said of a URL, for each segment.
SitemapAdvice(u) ==
    IF ~Crawled(u) THEN "recrawl"
    ELSE IF Initial(u) # 200 THEN "replace by the final 200 URL or remove"
    ELSE IF ~Indexable(u) THEN "remove or make indexable"
    ELSE IF pages[u].canonical = "noncanonical" THEN "list the canonical" ELSE "none"

BacklinkAdvice(u) ==
    IF Initial(u) = 404 THEN "redirect: it is 404"
    ELSE IF ~Crawled(u) THEN "fetch it" ELSE "has no internal links: link or redirect"

LinkedAdvice(u) ==
    IF ~Crawled(u) THEN "recrawl"
    ELSE IF Initial(u) = 301 THEN "links point at a redirect: update them"
    ELSE IF Initial(u) = 404 THEN "links point at an error" ELSE "not indexable"

Action(u) ==
    CASE Segment(u) = "graph_and_sitemap" -> SitemapAdvice(u)
      [] Segment(u) = "sitemap_orphan" ->
           IF Crawled(u) /\ Initial(u) # 200 THEN "has no internal links: remove from sitemap"
           ELSE "has no internal links: link or remove"
      [] Segment(u) = "unmapped_in_sitemap" ->
           IF pages[u].canonical = "noncanonical" THEN "review the canonical" ELSE "add to the sitemap"
      [] Segment(u) = "backlink_dead_end" -> BacklinkAdvice(u)
      [] Segment(u) = "gsc_unlinked" -> "has no internal links: link, redirect or retire"
      [] Segment(u) = "linked_not_in_sitemap_other" -> LinkedAdvice(u)
      [] OTHER -> "has no internal links: confirm"

--------------------
Written == stage = "written"

IsDeadEnd(u) == u \in request.backlinks \ Sitemap /\ (Dead(u) \/ ~Linked(u))

\* SEGMENT_DEFINITIONS, the sentences that go into the report.
Meaning(segment, u) ==
    CASE segment = "graph_and_sitemap" -> u \in Sitemap /\ Linked(u)
      [] segment = "sitemap_orphan" -> u \in Sitemap /\ ~Linked(u)
      [] segment = "unmapped_in_sitemap" ->
           Linked(u) /\ Initial(u) = 200 /\ Indexable(u) /\ u \notin Sitemap
      [] segment = "backlink_dead_end" -> IsDeadEnd(u)
      [] segment = "gsc_unlinked" -> u \in request.gsc \ Sitemap /\ ~IsDeadEnd(u) /\ ~Linked(u)
      [] segment = "linked_not_in_sitemap_other" ->
           Linked(u) /\ u \notin Sitemap /\ ~(Initial(u) = 200 /\ Indexable(u))
      [] segment = "crawled_unlinked_no_source" ->
           Crawled(u) /\ ~Linked(u) /\ u \notin Sitemap \cup request.gsc \cup request.backlinks

Named == {"graph_and_sitemap", "sitemap_orphan", "unmapped_in_sitemap", "backlink_dead_end", "gsc_unlinked"}

\* The segments are what the report itself says they are, whatever a URL is
\* listed in and however it answered: each row fits its definition, and a row
\* that fits one of the five named segments is in it.
SegmentsMatchTheirDefinitions ==
    Written => \A u \in Universe :
        /\ Meaning(Segment(u), u)
        /\ \A s \in Named : Meaning(s, u) => Segment(u) = s

\* A URL that is called an orphan of a complete graph is linked by no page the
\* run ever stores, though the run ended, was resumed or went on while its
\* status, its frontier and its pages were read one after the other.
ConfirmedOrphansStayOrphans ==
    Written => \A u \in Universe : Linkage(u) = "orphan_complete_graph" =>
        \A v \in DOMAIN runSnapshots \ {u} : u \notin runSnapshots[v].links

\* Every URL is in the segment whose definition it meets, and what is called an
\* orphan has no inlink in the whole site.
SegmentsMeetTheirDefinitions == SegmentsMatchTheirDefinitions /\ ConfirmedOrphansStayOrphans

\* "The crawl fetched every discovered URL and extracted links from every
\* crawled page" (source_reconciliation.py:303).
CompleteSaysAllWasFetched ==
    Written /\ CoverageComplete =>
        \A u \in SiteUrl : frontier[u] # "none" => u \in DOMAIN runSnapshots

\* "The coverage block states whether the crawl fetched everything it
\* discovered" (README.md:750): no page of its scope that a stored page links to
\* is missing from a frontier that is said to be done.
CompleteLeftNoLinkOut ==
    Written /\ CoverageComplete =>
        \A v \in DOMAIN runSnapshots : \A u \in runSnapshots[v].links \ Outside : frontier[u] # "none"

\* A page that has inlinks, answers 200, may be indexed and is in no sitemap is
\* unmapped_in_sitemap (source_reconciliation.py:46), whatever leads to it.
AnsweringPagesAreUnmapped ==
    Written => \A u \in Universe :
        (Crawled(u) /\ answer[u] = "page" /\ Linked(u) /\ u \notin Sitemap)
            => Segment(u) = "unmapped_in_sitemap"

\* A row that is said to have no internal links has none
\* (source_reconciliation.py:48 and 349).
UnlinkedAdviceIsOfUnlinked ==
    Written => \A u \in Universe :
        Action(u) = "has no internal links: link or redirect" => ~Linked(u)

\* --fetch-current-sitemaps fetches the sitemaps of the run's hosts
\* (__main__.py:5086), or the command refuses its options.
CurrentSitemapsAreFetched == stage # "raised"

=============================================================================
