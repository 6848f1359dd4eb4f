# A formal model of crawler_cli

This directory holds TLA+ modules of the crawler's core (`src/src/crawler_cli`), the TLC
configurations that check them on small instances, and TLAPS proofs of their most important
properties for every value of their constants. `PROJECT.json` maps every definition to the
lines it models and lists the runs, mutants, theorems, findings and hazards.

`tlc -config X.cfg M.tla` checks a model (section 4 and `runs` in PROJECT.json pair configurations with
modules), `tlapm XProofs.tla` a proof.

## 1. Inventory

The crawler is one asyncio process. Coroutines interleave at their awaits only, so code between
two awaits is one step of a model. Several `crawl()` tasks share the engine's objects; the store
(PostgreSQL or memory) is the only thing that survives a session.

| Part | State it keeps | Operations | Interacts with | What is hard | What makes it correct |
|---|---|---|---|---|---|
| Run budget (`budget.py`) | requests started and in flight, accounted and reserved bytes, leases, stop reason | reserve, reserve_bytes, settle_bytes, record_decoded_bytes, settle | called by every guarded fetch | concurrent leases at a limit, wire against decoded bytes | counts are exact, limits hold, the first stop reason stays |
| Guarded fetch (`backends.py`) | the body read so far, decoder, its slot and lease | admission, lease, read, decode, flush, close | run budget, network | errors in the middle of a chunk, compressed bodies | everything taken is given back, no response passes its cap |
| Frontier (`persistence.py`) | one row per URL: status, retry count, retry time | enqueue, claim, retry, done, reset, statistics | open crawl | crashes, retries, rows changed by several paths | no row lost, bounded retries |
| Open crawl (`engine.py`) | tasks in flight, results, counters, run status | set-up, claim, flush, retry, link discovery, finish, stop, resume | store, `crawl()`, signals | interrupted sessions, failing writes, limits, deferred rows | no page lost or fetched twice, honest final status, limits, termination |
| Adaptive rate (`adaptive_rate.py`) | per origin: limit, ceiling, spacing, pause, samples, history | slot, record_response, calibration, recommendation | `crawl()`, the report | late answers, overlapping pauses, condition waiters | spacing and pauses are kept, waiters are served, the report adds up |
| Robots policy (`robots.py`), crawl delay (`engine.py`) | rules per host with a TTL, failed hosts, locks, last permit | is_allowed, get_crawl_delay, host delay | `crawl()`, HTTP | many tasks ask at once, expiry between two reads | one fetch for all, failure refuses, permits are spaced |
| Circuit breaker (`circuit_breaker.py`) and semaphores | state, failure count, opened_at, free slots | should_allow, record_success, record_failure | `crawl()` | answers arrive long after admission | opens for a reason, always lets go |
| List crawl (`engine.py`) | pending and in-flight indices, retries | fill, collect, re-queue 429/503 | `crawl()`, budget, stop flag | stop between a retry and its turn | one result per URL, in input order |
| Proxy pool (`proxy_pool.py`) | failures, cooldowns, rotation, host assignments | select, report_success, report_failure | backends | index over a changing list, late failures | a live proxy is used while there is one, none is passed over |
| Browser backend (`backends.py`) | context, active pages, recycle request | open page, close, recycle | playwright | recycling under load, closing | no page on a closed context, recycling happens |
| Subresource discovery (`engine.py`) | one shared task per script or stylesheet, render attempts | fetch and scan once, follow imports | `crawl()`, breaker, host semaphore | pages that hold a slot wait for tasks that queue for the host | every page ends |
| Sitemap discovery (`engine.py`, `sitemap.py`) | levels of sitemap URLs, pages found | fetch, nest, enqueue | frontier, robots | cycles, shortcuts, duplicates, limits | exactly the pages in reach, within the frontier's limit |
| Current site files (`current_site_files.py`) | queue of sitemaps, documents, entries, `complete` | collect, cut, conclude | robots, guarded fetch | four budgets that share room | what is called complete is complete |
| Store transactions (`persistence.py`) | rows of `urls` and of lookup tables that pages share | persist, enqueue_frontier, frontier_mark_done | PostgreSQL, each other | what a statement sees, lock order, deadlocks | pages are written in turn, links resolve, every write ends |
| History of runs (`persistence.py`, `embeddings.py`, `intent_signature.py`) | pages, snapshots per run, signatures, vectors | initialize, persist, sign, embed, compact, delete | crawls and commands over one database | commands in any order, migrations that die | a run's facts are its own, jobs leave nothing stale |
| Intent overlap (`intent_overlap.py`, `hreflang_groups.py`) | pairs, clusters, risks | group, scan, cluster, rate | the stored run | an order that the data decide, flags set on the way | clusters and labels follow the pairs |
| Run set-up (`__main__.py`, `engine.py`, `exit_codes.py`) | a run's row with its fingerprint and manifest | create, resume, compare, waive, end | store, archive.org, signals | two processes with one run id, a resume under other settings | a run has one manifest, and one configuration unless it was waived; the exit code is true of the run |
| Tables of a page (`persistence.py`) | rows replaced in place, rows deleted and written again, rows of a run | persist | crawls, audits | one URL reached directly and by redirects, several runs | the rows of a URL are those of one fetch |
| Clean-up (`__main__.py`, `persistence.py`) | - (the stored HTML) | compact-html, compact-crawl | a crawl that goes on | a row that changes between its reading and its writing | what is dropped had its hash, what is compressed is what was stored |
| Authorisation manifest (`authorisation.py`), exposure inventory (`exposure_inventory.py`) | origins, paths, window | preflight, admit, check a request, a redirect, a response; derive and request hosts | engine, backends | time passes in between, a backend that follows redirects itself | every fetch begins at a declared URL within the window, redirects recorded as a page are declared |
| Depths and audits (`crawl_depth_audit.py`, `technical_audit*.py`, `profile_indexability_audit.py`, `hreflang_audit.py`, `source_reconciliation.py`, `reports.py`) | - (a stored run) | collect facts, answer questions, put URLs into segments | the run, which may be going on | facts not recorded, partial runs, many queries without a transaction | an answer rests on what was tested, "complete" says what it means |
| Probes for the audit (`accept_language_audit.py`, `ai_governance.py`, `audit_observations.py`) | records of a bundle | request with and without a header, read robots.txt and llms.txt | guarded fetch, robots, audit | pages that change by themselves, answers cut off or missing | a finding rests on answers, a clean bill compared everything |
| Comparisons (`comparison.py`, `remap.py`, `compare_urls.py`, `compare_renders.py`) | - (two crawls, or a sample) | load, replace hosts, diff, judge a redirect, render | artifacts, store, browser | sides of which one knows less, waits that time out | a copy compares clean, "equivalent" is |
| Page variants (`hreflang_groups.py`, `amp.py`, `intent_overlap.py`) | labels of pages in a run | fold normal forms, label AMP, exclude | the stored run | several commands that each commit alone | one page of each form is compared |
| Sheet publication (`google_sheets.py`) | - (a remote spreadsheet) | copy, check, clear, fill, verify, receipt | the remote service | every call may fail, others edit the copy | the receipt says what the copy holds |
| Crawl launcher (`crawler_gui/server.py`) | jobs, the active one | start, resume, watch | child process | two starts at once | one job at a time |
| Everything else | none | pure functions, readers, writers, reports | - | - | see `components` in PROJECT.json |

Hazards of these parts, each at its line and with the property that covers it, are listed under
`hazards` in PROJECT.json.

## 2. Plan

All of it is built:

1. `RunBudget`, then `GuardedFetch` on top: the run's hard limits.
2. `Frontier` (the store's contract), then `CrawlOpen`, which composes it with the engine.
3. `AdaptiveRate`, `RobotsPolicy`, `HostGate`: what stands between a task and a host.
4. `PageTasks` over `HostGate`: pages, their shared subresource tasks and render discovery.
5. `ProxyPool`, then `ListCrawl` over it: the list crawl through proxies.
6. `BrowserContext`, `SitemapWalk`, `SiteFiles`, `CrawlLauncher`.
7. `RunHistory` and `StoreLocks`: what the store keeps over runs, and how its transactions meet.
8. `IntentOverlap`: the one analysis with an algorithm of its own. `MCParts` runs it beside the parts of steps 2, 3 and 5 to 7.
9. Proofs for the modules of steps 1 to 7, `SiteFiles` among them, with an invariant worth more than its instance.
10. `RunSettings` and `ScopeManifest`, `ExposureInventory`: what a run may be and touch.
11. `PageStore` and `Compaction`: the tables beneath `RunHistory`.
12. `AuditSnapshot`, `AuditAnswers`, `CrawlDepths`, `HreflangFacts`, `SourceReconciliation`: how an
    audit reads a run and what it makes of it; `LanguageProbes`, `AiGovernance`: what it asks of the site.
13. `Comparison`, `UrlPairs`, `RenderParity`: two crawls, or two documents, side by side.
14. `PageVariants`, `SheetPublish`.
15. Proofs for the modules of steps 10 to 14 that keep a state over many steps: `RunSettings`,
    `ScopeManifest`, `ExposureInventory`, `PageStore`, `Compaction`, `AuditSnapshot`,
    `SourceReconciliation`, `PageVariants`, `SheetPublish`; and for the rules of `AuditAnswers`.

Left, in this order: the checks that `technical_audit.py` computes from the reports; the remaining reports.

Abstract specifications: `RunBudget` is what a fetch may do with the ledger (`ImplementsLedger`);
`Frontier` is what any engine may do with the rows (`ImplementsFrontier`).

## 3. Modules

### RunBudget, GuardedFetch
Each method of the ledger holds its lock without awaiting, so each is an action, with one more
action per refusal. The reservation ids are the constant `Request`. `accountedBytes` is the sum over
responses of the larger of wire and decoded bytes; the entry of a settled response is kept as history.
`flushedBytes` is history: bytes that `record_decoded_bytes` charged without a lease.

`GuardedFetch` is one request of `_fetch_pinned` and `_read_budgeted_body`: `Admit`/`Refuse`,
`Connect`, then rounds of `TakeLease`, `ReadChunk` or `DrainTail`, ended by `ReadEof`, `ReadError`,
`LeaseRefused` or a cap, then `Flush` until `FlushDone`, then `Close`. The body, the error and
how much a read returns are nondeterministic. It EXTENDS the ledger and calls its actions as the
code calls its methods.

### Frontier, CrawlOpen
A row has a status (absent, queued, pending, done), a retry count and a retry time, of which only
"not yet" (`deferred`) matters. The actions are the store's methods; `RetryTimeComes` is time.

`CrawlOpen` has a program counter `pc` for the await at which the engine's coroutine stands.
`Answer(u)` is all of `crawl()` for one URL, including its persist with retries; its result is
transient or not, and saved, skipped or failed to save. `EngineStep` is the loop: `DrainOrFinish`,
`FinishAtLimit`, `ClaimBatch`, `RuleOutClaimed`, `FinishIdle`, `FlushCompleted`, then per batch
`Retry`, `CollectFinals`, `RuleOutLinks`, `EnqueueLinks`, `MarkFinalsDone`. `Crash` ends a session
anywhere without a word in the store, `FailRun` is an exception of the store inside the loop.
`scope` is what `should_crawl_url` accepts in this session: a resume may change it.
A batch is collected with its retries first; the code takes tasks in any order and only awaits in a
retry, and nothing that happens in between looks at what the others leave.

### AdaptiveRate
`ctl` is the controller; its decisions (`Throttle`, `Recover`, `Backoff`, `ApplyCalibration`) are
operators from one controller to the next. A task waits for a slot, may have been notified, sleeps
out a pause or the spacing, fetches, and records its answer after it has given its slot back, as
`crawl()` does. Clocks are relative (`pauseLeft`, `sinceStart`) and `Tick` moves them. History
variables: `pausedFor` (the length of the union of all pauses) and the controller fields `lowest`
(the least limit of the run) and `recorded` (the least limit in the history). After a sleep
the pause and the spacing are looked at again, which is what `StartsKeepTheirDistance` rests on.

### RobotsPolicy
One host. A task that is past `is_allowed` runs on to `get_crawl_delay` without an await, which
`GoingOn` expresses. Rules are what they say about the task's URL and their Crawl-delay. An expired
entry is none, and a TTL may be over as soon as it begins. `get_rules` looks at the cache again under the
lock but not at `failed`, so checks that queued before a failure ask a failed host once more, which the
model follows: what does hold is `RobotsAreAskedOnce` (one request at a time, none beside a fresh
answer, and after a failure only by those that queued before it), and what the documents say is the run
`failed_host`.

### HostGate, PageTasks
One host's breaker and semaphore under the engine's semaphore. `openFor` is the time since
`opened_at`, cut off at the recovery timeout. What a task tells the breaker at its end is a choice
of success, failure or nothing.

`PageTasks` is `crawl()` for the pages of that host. A page that was answered reads the scripts and
stylesheets it needs (`toRead`, with the depth of the import), each through one task that all pages
await; the task queues for the host like a page but holds no slot of the engine. Afterwards the page
may be rendered once more. A page gives its host slot back before it awaits: `PagesEnd` fails for
a task that needed the engine's semaphore too (its mutant).

### ProxyPool, ListCrawl
The methods of the pool hold its lock and are one action each; proxies are their places in the
list, `cooling` the time until `cooled_until`; how many failures in a row bench one is chosen from
`FailureLimits`. The rotation index is kept modulo `Period`, a common
multiple of all lengths the list can have. `passedOver` is history: how often a proxy was not chosen
since it last was or came back. `ListCrawl` is `crawl_many` from one of its awaits to the next: the
budget's snapshot at the head of the loop, and `asyncio.wait`. `Collect` takes a finished index,
puts a refused one back at the front up to `PressureRetries` times, or sets its place in `ordered`.

### BrowserContext
A context is the number under which it was made. `EnterWarm`, `EnterCold`, `Launch`, `Create` and
their failures are `_ensure_started`, `Leave` the end of `fetch()` with its recycle, `Recycle`,
`OldIsClosed` and `BrowserGone` what the recycle awaits; `BeginClose` and `EndClose` are the
engine's `close()`, which does not take the lock.

### SitemapWalk, SiteFiles
`SitemapWalk` plans a level, fetches it in batches as wide as the worker limit, and queues the pages;
the order of a batch is the order of its entries, since `gather` keeps it. `SiteFiles` is the other
reader of sitemaps, `collect_current_site_files` from its refusals to its report: each seed gives the
files its robots file declares and the well-known paths, or nothing if that file cannot be had
(`AskSeed`); the roots are cut to the budget; files are taken first in first out, one request after
another, with budgets for documents, depth and entries (`PassBy`, `Reject`, `Miss`, `ReadIndex`, `ReadList`).
Of the URLs found a few are requested as samples, in turns from strata of paths (`SelectSample`,
`RequestSample`), and `Conclude` joins the graph, lists what is doubtful and says whether all was
collected. What each file answers is an input of either.

### RunHistory
`pages` is the current state of a URL, `snapshots` what each run keeps of it. Content is
the fetch it came from, so that a signature or vector can be compared with what it was made of. Each
method of the store is one action; `initialize()` commits its statements one by one
(`CreateSchema`, `InitializeDies`, `ProjectLegacy`), an embedding job stores its vectors one by one.

### StoreLocks
A writer is one transaction of `persist`, `enqueue_frontier` or `frontier_mark_done`, taken through
its statements: the sorted pre-touch (`ON CONFLICT DO NOTHING`, which waits for a row that another
transaction is inserting but locks none that exists), upserts in the page's own order, the sorted
bulk statements for links and values, commit. `Deadlock` rolls one of a circle back, and
`_retry_on_deadlock` begins it again. PostgreSQL is external and enters by the four rules in the
module's header.

### CrawlLauncher
A request reads its plan in two queries, reserves the launcher or is refused, and spawns a process;
`_watch` reads its output. `ReserveOrRefuse` has no await in it, which is all that `OneAtATime`
rests on.

### IntentOverlap
The hreflang forest (`groups`), the scan of the pairs with the path-halving forest of the clusters,
and single or complete linkage. Of a similarity only its level is kept, so complete linkage takes
the edges of a level in any order: every order that real similarities may have. `signs` are the flags
that a page's pairs set; `RiskOf` reads them in the code's order. Languages are scanned in one go,
since no pair crosses them. `Advice` is what a cluster's report recommends: reviewing it, with the reason, or
the page to keep, by depth, words and alternates. The counts of the summary follow, and `Judge` is
`--fail-on`.

### MCParts, MCReports
Parts that share no state run side by side in one instance: initially one of the parts in `Running` is
chosen and only it moves, under the fairness of its own module. Every property is about the part its
variables belong to. `MCParts` stands for ten small models: `Frontier` under any legal caller,
`BrowserContext`, `ListCrawl`, `RunHistory`, `CrawlLauncher`, `StoreLocks` and `SiteFiles`, which it
EXTENDS, and `SitemapWalk`, `IntentOverlap` and `RobotsPolicy`, which it instantiates. `MCReports` does the same for the
modules below: it EXTENDS `RunSettings`, `ScopeManifest`, `PageStore`, `Compaction`, `PageVariants`,
`SheetPublish`, `AuditSnapshot`, `SourceReconciliation` and `AuditAnswers`, and instantiates the others
over the variables `s1` to `s12`, `RenderParity` twice: once for the comparison, once for the choice of
its sample. A property of an extended module is the very definition that the run checks and a theorem
is about.

### RunSettings
A command line is a record of what matters of it: seeds, file, archive seeds, manifest, run id,
waiver. `Invoke` hands it to a process, which refuses it, creates or resumes a run, crawls (reduced
to claims and answers) and ends with an exit code, by itself, by a signal, killed, or by a write
that failed. Generated run ids are never taken, so every run of the module is a named one.

### PageStore, Compaction
`PageStore` takes a page as the set of tables for which something was found in it. `persist` is one
transaction that holds the rows of its URLs, hence one action. It keeps apart the tables that are
deleted and filled again, those that only grow, and those that carry the run. `Compaction` has
compact-html in its steps (select a batch, compress in Python, update one by one) and compact-crawl
(count missing hashes, purge, purge sidecars) with a crawl that stores pages between any two. A text
is the number of the result that stored it, so that a hash is right or wrong of it.

### ScopeManifest, ExposureInventory
`ScopeManifest` follows a URL through every place at which the crawl consults the manifest. A path is
the pair of its normalised forms, written and decoded, and a form is known by the prefixes it is
under. The check of a fetch (`Check`) and its request (`Send`) are two steps, with the wait for an address
and a slot between them. A pinning backend looks at each redirect before it follows it, again in two steps;
any other follows redirects by itself (`Redirect`), may begin again without another look (`Retry`), and is
checked when its answer comes (`ReceiveAnswer`). After that check nobody looks at the manifest: a bot
challenge is fetched again by a browser (`Escalate`, `Cleared`), whose answer is recorded as it is, and the
page may be rendered for its links (`RenderPage`). The properties say what is left of the manifest's promise
under all this, and section 5 what is not. Time passes between any two steps. The redirects of a robots.txt,
and the scripts and stylesheets read for URLs, are left out. `ExposureInventory` derives hosts from the crawled
ones and takes them through authorisation, resolution, one request and the counts. Its origins come from
the command, normalised, or from a program, as written.

### AuditSnapshot, AuditAnswers
`AuditSnapshot` is an audit's queries, one action each, between its two reads of the run's row, while
one process at a time crawls, ends, dies, resumes or enriches the run. `AuditAnswers` is the rules
of the observed answers, profiles, anchors, performance and contract checks, and the runner. A
record has fields that say yes, no, or were not recorded; `Learn` collects one more field. The
properties compare an answer with the one that every completion of the records would give.

### CrawlDepths, HreflangFacts
`CrawlDepths` has the depth of each frontier row, queued with the first answer that links to it, under
tasks, retries, resumption and the claim order (by a score that falls with the depth and the path).
`HreflangFacts` stores pages and sitemap edges and judges them as `iter_hreflang_facts` does, with
the lookup by normal form.

### SourceReconciliation
Snapshots as `persist` leaves them (a redirect stores the page it ends at, too), the links between
them, sitemaps and two exports. `Segment` gives each URL its segment by the first rule that
holds, and the properties compare this with the definitions in the report's own texts.
A redirect here does not lead to another or to a forbidden page. Failed link enqueues and kills are
in `CrawlOpen` and left out.

### LanguageProbes, AiGovernance
`LanguageProbes` sends the requests for a target one after another and follows redirects by hand; each
is answered in the site's usual way or in any other. The evidence goes the code's way into rows,
records and the answer to Q25. Vary headers are left out, any two bodies are further apart than
the simhash tolerance, and the audit is of a complete run. `AiGovernance` reads robots.txt twice, as
the code does: for the right to ask for /llms.txt, and for the record.

### Comparison, UrlPairs, RenderParity
`Comparison` loads each side from an artifact or a stored run, replaces hosts and diffs; an artifact whose
version is not known, or that holds no result, is refused. What it found is saved as a session, from
which the views by URL, by content and by schema are told. A text is what its hashes see: the body and the host in it. `UrlPairs` is one pair of a mapping, resolved in an
artifact, a stored run or by a fetch. `RenderParity` chooses the sample, loads at most two pages at
a time and compares what the server sent with what the scripts made of it. The waits are assumed to
outlast the scripts unless they time out. A text is its number of words, what it says (two texts of one matter
are similar, a ratio of 0.7 or more) and how it was extracted; it makes a finding only if there is one on both
sides, thirty words longer or shorter, and of another matter. `EquivalentIsAlike` says no more than that of the text
of equivalent pages.

### PageVariants, SheetPublish
`PageVariants` has hreflang-groups and the AMP labels with their commits, and who remains for the
overlap analysis; a snapshot may be replaced between any two of them, also between the reading of the
snapshots for the AMP labels and their storing, which use two connections (`ClassifyAmp`, `StoreLabels`). `SheetPublish` takes one remote call
as one action; each may fail, and somebody may edit the copy between two. A tab has rows of which
one word says what they hold, and rows with a dropdown.

## 4. Runs

| Run | Instance | Shows |
|---|---|---|
| `guarded_fetch` | 3 requests, 2 slots, 3 bytes, cap 2 | refinement of the ledger, the byte limit is passed by flushed bytes only, caps and charges, every slot given back (liveness) |
| `guarded_fetch_ceiling` | 2 requests | *finding*: a flush beside a sibling's lease passes `max_bytes` |
| `crawl_open` | 2 URLs, 3 sessions, budget, changing scope | a done row is a stored, skipped or ruled-out page; no URL in flight is claimable; complete leaves nothing pending; finished stays done; the frontier's contract |
| `crawl_open_limit` | 4 URLs, 3 seeds, limit 2 | session and frontier limits; every session ends (liveness) |
| `crawl_open_seeds` | as `crawl_open` | *finding*: complete without its seeds after an early death |
| `adaptive_rate` | 3 tasks, 2 slots, 4 fetches, pauses up to 2 | spacing, pauses, report, waiters have a releaser and are served (liveness) |
| `failed_host` | 2 tasks of one host | *finding*: a failed host is asked again by a queued check, and its page goes on |
| `page_tasks` | 2 pages, 2 stylesheets that import each other, 1 host slot | the breaker opens for enough failures; it lets go and every page ends (liveness) |
| `parts` | ten parts, see below | their properties, `PartsEnd` as liveness |
| `store_locks` | the transactions of `parts` | *finding*: a bulk statement does not answer for a row it waited for |
| `reports` | eighteen parts, see below | their properties |
| `reconcile_complete` | the reconciliation of `reports` | *finding*: pages that robots.txt forbade count as fetched |

A property of `parts` or `reports` is the conjunction of what the named modules state:

| Property | Parts | Says |
|---|---|---|
| `RetryRules` | frontier | retry times on queued rows only, bounded counts, done rows have neither |
| `ContextsServeTheirPages` | browser | no context is closed under a page, a borrowed one never; a requested recycle has a fetch that will carry it out |
| `ListsAreServed` | list | one result per URL or its place in the list; no live proxy is passed over, and a host keeps its proxy until that is benched |
| `CompleteIsComplete` | files | a collection called complete read every admitted file of the site but missing well-known ones, holds each of their entries once, and joined the graph with every admitted URL |
| `SiteReportsAreTrue` | walk, files, overlap | exactly the pages in reach, up to the limit; samples as many and as spread as they can be, none without the rules of its origin; single linkage gives the connected components, complete linkage cliques that no reported pair could enlarge by itself; labels, advice and exit code as the docstring and `src/README.md:519-560` define them |
| `HistoryIsSound` | history | a snapshot holds what its own run stored; a finished job leaves nothing stale; failed fetches erase no content |
| `OneAtATime` | launcher | one crawl at a time |
| `WritesTakeTurns` | locks | a page's tables have one writer; the targets of links are found; sorted statements alone cannot deadlock |
| `PermitsAreSpaced` | robots | two permits of a host are the second one's delay apart, whatever order the tasks queue, sleep and wake in |
| `RobotsAreAskedOnce` | robots | one request for a robots.txt at a time and none beside a fresh answer; once the host failed, only checks that queued before ask again, and no page goes on but by their answers |
| `PartsEnd` | list, locks, robots | a list crawl ends, every write is stored or failed after its attempts, and a page that asks for its robots.txt again and again gets its answer and its permit each time |
| `RunsKeepTheirSettings` | settings | what the sessions of a run have in common, what a refusal leaves and an exit code says |
| `ManifestGovernsFetches` | scope | every fetch begins at a declared URL, after a look at the clock within the window; a recorded page came of a declared chain, but for challenged URLs of a crawl that may hand them to a browser; inputs are taken whole or not at all |
| `RowsAreOfOneFetch` | tables | the rows of a URL are those of one fetch, a run's evidence is the run's |
| `PurgesKeepTheirHashes` | cleanup | a purge touches one run and keeps every hash it had looked for |
| `VariantsFollowTheEvidence` | variants | who stands for whom, who is compared, who is labelled |
| `ReceiptsAreOfTheCopy` | sheet | receipts are true, both ways of copying agree, a refusal writes nothing |
| `CompleteAuditsReadOneRun` | snapshot | what is called complete was read of one state of an ended run |
| `SavedFactsAreSound` | depths, hreflang | a saved depth is never too small, and exact when nothing races; facts agree with the groups and spare a sound cluster |
| `AnswersRestOnEvidence` | answers | a confirmed answer is not taken back by what had not been recorded |
| `ProbesRestOnAnswers` | inventory, language, governance | only named hosts are requested and the counts are of what was done; findings rest on answers, Healthy compared and read everything |
| `SegmentsMeetTheirDefinitions` | reconciliation | the segment of every URL, and what is an orphan |
| `ComparisonsAreTrue` | compare, pairs, render, sample | a copy compares clean, what a saved session tells is the comparison, "kept" and "equivalent" are, gates hold back changes, samples are spread |

To run one part alone, give `Running` that part; the commands share no variables' meaning, so a
behaviour is one part's and the runs lose nothing by being one.

### Bounds and why they are enough
- `guarded_fetch`: with three requests one is refused a slot while two share the byte limit; three
  bytes do not suffice for two responses of two. `MaxLeases` does not bind: a response of two bytes
  takes at most five leases.
- `crawl_open`: two URLs suffice for a page that rules out, links to or races the other; three sessions
  for a run that dies, resumes under another scope and resumes again; one retry for a row that is
  deferred and one that has used up its retries.
- `crawl_open_limit`: more seeds than the limit, and one more page than seeds, so that both limits bind.
- `adaptive_rate`: three tasks at two slots make one wait and two be notified together; pauses of up to
  two units overlap partly; four fetches bring the limit down, the spacing up and one of them back.
- `page_tasks`: one host slot for two pages and two tasks queues everything on everything; the imports
  are a circle cut off by the depth; threshold two needs two failures in a row, and `MaxCount` leaves
  room above it.
- `parts`: frontier 3 URLs and 2 retries. Browser 3 fetching tasks, `MaxRequests` 2 and 5 fetches, so
  that a recycle is asked for twice. List 2 URLs of 2 hosts through 3 proxies, one or two failures
  in a row bench for 2 units (a gateway is never benched), 2 retries of an index, 1 of the gateway. Robots two tasks, a holder and a waiter of each lock, and delays up to two, so that
  two permits have different ones. Walk 3 sitemaps in every shape out of five, every
  set of them broken, depth 1, with limit 2 or none, with or without a known page. Files 4 sitemaps
  (one out of scope) of 2 seeds, one of which declares what it does not guess, at most one deviating
  answer, budgets 2 (roots are cut) and 5, one level of indexes, 3 entries (a list is cut), 2 samples of
  three candidates in two strata; one URL out of scope reads like another once its values are redacted.
  Overlap 4 pages, all 729 matrices of levels, five sites: four pages are the fewest of which complete
  linkage can refuse to merge two clusters. History 2 URLs, 2 models, 2 runs and the legacy run, 5
  commands: crawl, sign, refetch, sign or embed again. Launcher 3 requests and 2 runs. Locks 3 writers
  over 4 URLs and a text, five kinds of writes, 2 attempts.
- `reports`:
  - settings: two processes and two invocations are a start and a resume, or two starts at once; two
    URLs make a list, a seed and a manifest that leaves one of them out.
  - scope: three points in time put the window before, over or after every step; of the three URLs one
    differs from a declared one in its decoded form only, one in its origin only; two redirects make a chain with a middle. A pinning crawl does not
    escalate: the settings refuse the two together.
  - inventory: one label in two domains, so that one host can be declared without the other.
  - tables: two results store a page twice, or a page and a redirect to it, in one run or in two; where a run
    learned of a URL is recorded in every run of one of them and in one of the other.
  - cleanup: a batch of one makes the loop select again, two results fall on either side of a selection
    or a check; the first result is of the first run and page, since runs and pages are interchangeable,
    and keeps its HTML.
  - variants: the fewest pages with every relation; one replaced snapshot at any step.
  - sheet: three rows - written, cleared beneath, and untouched; one edit, since a second one could only
    undo the first.
  - snapshot: two reports straddle a change, one page is saved between them or not, two seconds tell its second from the next.
  - depths: four URLs give two paths of different length to one page, in every graph.
  - hreflang: two URLs of one normal form are the least that the lookup can mix up, and a translation.
  - answers: two records separate some of the population from all of it; thresholds on shares of it are
    met by one of two; the records are interchangeable and come in order. A flaw is alone: the run has it, or
    its collections are partial; with a flawed run nothing else of the evidence is given.
  - language: one answer out of the usual among up to four of a target, so that a repeated one may agree
    with it or not. governance: two origins, so that one is left out or unread beside a good one; a
    saved file that stands beside live records agrees with both policies, so that a finding is of the live ones.
  - reconciliation: two seeds and a page behind them, in four sites that give one or both of the
    latter another answer than a page; one page outside the scope, one foreign URL; a limit of one ends a run
    that has a seed left; two sessions let a run end and be resumed under a report.
  - compare, pairs: a page that gains, loses or changes its links or body beside a plain one (the bodies are
    interchangeable, so the first page has the first); three URLs
    hold a loop, a chain and a wrong target; the URLs are interchangeable, so one source and two targets
    are enough. A page is looked for in the artifact first, so the two sides hold different pages.
  - render, sample: two pages that differ in one field each, or in none, or in their text: much longer,
    rewritten at about one length, or there on one side only; three strata of uneven size.

Deadlock is not checked where the system may stop: crawls, requests and commands that have ended, and
the parts that are done. The gate of `adaptive_rate` is checked for it (`Rest`
in `AdaptiveRate` stands for the end of the bounded fetches), and `PartsEnd` does it for the robots part.

### Fairness
- `GuardedFetch`: weak fairness of each request once it is admitted. A read ends or times out
  (`ClientTimeout`), and the event loop runs it then.
- `CrawlOpen`: weak fairness of the engine's step and of each task. Nothing is assumed of retry times,
  signals, crashes or the next session: a session ends without them.
- `AdaptiveRate`: weak fairness of time and of each task that has been let in, notified or woken.
  `asyncio.Condition` notifies all waiters.
- `RobotsPolicy` (where its part of `MCParts` runs), `PageTasks`: strong fairness of each task, since `asyncio.Lock` and
  `asyncio.Semaphore` serve their waiters in order of arrival; weak fairness of time, and in
  `PageTasks` of the arrival of pages, without which nobody asks an open breaker.
- `ListCrawl`: weak fairness of the loop and of each fetch; nothing of stops, time and the budget.
- `StoreLocks`: weak fairness of each transaction's next statement, and of PostgreSQL's detection of a
  deadlock, which runs after `deadlock_timeout`.
- The modules of commands and audits state none: their properties are of what has been written.

## 5. Findings

1. `budget.py:219`: a decoder flush is not compared with siblings' leases; a run can pass `max_bytes`
   (`WithinMaxBytes`). What does hold is `OverrunBoundedByFlush`, which is proved.
2. `engine.py:1943`: a run that dies before its seeds are queued is resumed to complete with an empty
   frontier (`CompleteKnowsTheSeeds`).
3. `persistence.py:2041`: a bulk get-or-create that waits for another transaction's insertion finds the
   row in neither half of its answer; enqueueing raises, a link is stored without its text
   (`BulkAnswersForAll`).
4. `source_reconciliation.py:282`: pages that robots.txt forbade count as fetched, and the report calls
   its graph complete (`CompleteSaysAllWasFetched`).
5. `robots.py:362`: a check queued for the lock does not look again whether the host failed meanwhile, asks
   it again and lets its page go on, although `src/README.md:916` refuses such a host for the session
   (`FailedHostIsDisallowed`). `RobotsAreAskedOnce` says how far this goes.

The modules also state the following sentences of documents, comments or texts, of which TLC found a
counterexample while the module was written. They are not runs of their own: to see one, check its
definition as an invariant of its module (for a part, through the instance in `MCParts` or `MCReports`).

| Statement | Line | What the code does |
|---|---|---|
| `CrawlOpen!CompleteMeansDrained` | `engine.py:2357` | a run whose queued rows are all deferred is recorded complete |
| `RunHistory!SitemapEdgesCount` | `persistence.py:2661` | hreflang edges from sitemaps reach no group: the groups are read from snapshots of the page alone, and persisting a page deletes its sitemap edges |
| `RunSettings!SeedsGivenAreCrawled` | `engine.py:1943` | seeds added by a waived resume are never queued; the run completes without them |
| `RunSettings!SameCommandResumes` | `engine.py:1868` | archive.org's answer is part of the fingerprint, so the same command may be refused on resume |
| `RunSettings!ResumeReachesTheRun` | `__main__.py:1747` | `--resume` with a list crawls the list, leaves the run as it is and succeeds |
| `PageStore!DocumentsAreFound` | `persistence.py:2003` | every row of `urls` has kind html, so the report of documents is always empty |
| `PageStore!AmphtmlIsOfThePage` | `persistence.py:2657` | AMP edges of earlier fetches stay |
| `PageStore!SnapshotIsImmutable` | `persistence.py:2772` | a failed fetch replaces the "immutable" snapshot of its run by one without content |
| `Compaction!HtmlIsOfItsHash` | `persistence.py:4683` | HTML stored between select and update is overwritten by the earlier text |
| `Compaction!NeverPurgedUnhashed` | `__main__.py:4462` | HTML stored between check and purge is dropped unhashed in spite of `--require-hashes` |
| `Compaction!BackfillIsPossible` | `__main__.py:4471` | `--backfill-hashes` always refuses |
| `ScopeManifest!BrowsedIsDeclared` | `engine.py:944` | the answer of a browser that cleared a challenge takes the place of the checked one and is recorded without a look at its redirects, where `engine.py:1517` says that a hop outside the manifest discards the result |
| `ScopeManifest!DeniedWasNotRequested` | `engine.py:1158` | "no request was made" is said of a redirect that was followed and refused afterwards |
| `ScopeManifest!InputsAreNotOmitted` | `engine.py:899` | inputs are omitted when the window closes during the run, which ends with success |
| `ExposureInventory!DeclaredIsAuthorised` | `exposure_inventory.py:233` | origins with a port written out match none of the candidates: nothing is authorised |
| `ExposureInventory!TestedHasAnswered` | `exposure_inventory.py:456` | a result of status 0 counts as tested and clean |
| `AuditSnapshot!ChangedRunIsDowngraded` | `__main__.py:2756` | pages saved by a running crawl change neither status nor time of the run: "stable" |
| `AuditAnswers!UntestedIsNotHealthy` | `technical_audit_observed_answers.py:492` | Q35 and Q95 count records without a needed field as tested; Q66 takes an image whose place was not recorded for content: one legacy image of six is below the fifth, and reaches it when another is found not to be content |
| `AuditAnswers!CompleteRulesOut` | `profile_indexability_audit.py:298` | Q78's evidence is complete with a needed field lacking |
| `AuditAnswers!IssueIsOfThePopulation` | `technical_audit_questions.py:956` | a share of the tested records is taken for one of the population |
| `AuditAnswers!HealthyIsAPass` | `technical_audit_questions.py:948` | a partial check without a denominator makes its question Healthy |
| `CrawlDepths!ListedPagesAreDeep` | `engine.py:2057` | a depth is that of the first discovery, and taken for the shortest |
| `HreflangFacts!FactIsOfItsTarget` | `hreflang_audit.py:206` | the state of an alternate is that of another URL with its normal form |
| `HreflangFacts!BadTargetsAreReported` | `reports.py:871` | a target that answered 404 without a document is not reported |
| `HreflangFacts!BloatIsWithoutSitemap` | `reports.py:879` | sitemap edges are not looked at when their absence is reported |
| `SourceReconciliation!CompleteLeftNoLinkOut` | `engine.py:2180` | links dropped at the limit leave the run complete |
| `SourceReconciliation!AnsweringPagesAreUnmapped` | `persistence.py:2825` | a redirect gives its status to the page it ends at |
| `SourceReconciliation!UnlinkedAdviceIsOfUnlinked` | `source_reconciliation.py:341` | a linked URL is said to have no internal links |
| `SourceReconciliation!CurrentSitemapsAreFetched` | `__main__.py:2564` | `--fetch-current-sitemaps` ends with an uncaught error |
| `LanguageProbes!VolatilePagesAreNotFindings` | `technical_audit_observed_answers.py:747` | status and Location that change at every request are findings about language |
| `AiGovernance!CompleteReadsEveryOrigin` | `__main__.py:3090` | a robots.txt that answered 503 leaves the collection complete |
| `Comparison!StoreServesAsASide` | `persistence.py:4076` | a side from the store has no links and no schema items |
| `Comparison!LinksAreSorted` | `comparison.py:325` | two links made equal by the replacement, one without text, raise TypeError |
| `UrlPairs!StoredVerdictIsOfTheChain` | `persistence.py:4077` | a side from the store has no redirect chain: a temporary redirect is ok |
| `RenderParity!EquivalentHasTheText` | `compare_renders.py:252`, `:391` | no similarity without text on both sides: a page made by scripts is equivalent; so is one rewritten at about its length, or lengthened by text that keeps the ratio at 0.7 |
| `RenderParity!EveryPageHasAState` | `compare_renders.py:132` | a canonical whose port is no number loses the whole sample |
| `SiteFiles!SamplesAreAdmitted` | `current_site_files.py:449` | of two URLs that read the same once redacted the first stands for both, admitted or not |
| `PageVariants!AmpIsOfAnotherPage` | `persistence.py:4221` | a page that names itself as its AMP form is left out |

Met on the way, not runs of their own:
- `robots.py:407`: the cache is read again after `get_rules`, so rules whose TTL is over at once give their verdict but
  not their Crawl-delay.
- `persistence.py:1594`: a migration that dies between schema and projection leaves the old rows without
  snapshots for good, since the next one takes the table for a sign that they were projected.
- `persistence.py:2874`: the pre-touch locks only what it inserts. Pages with crossing alternates that
  exist already deadlock in their upserts and rely on `_retry_on_deadlock`.
- A snapshot that lost its content keeps its signature and vector. `backfill_content_hashes`, which
  no command calls, reads and then updates without a lock.
- `embeddings.py:144`: without `--force` no page-text embedding is made again after the page changed.
- `server.py:717`: a line of output beyond the stream's limit ends `_watch`; the job stays running and
  later starts are refused until the server is restarted. The resume plan is read before, and not with,
  the start.
- A `new_context` that fails in a recycle leaves none, and the next fetch fails on an assertion.
  A connection error of aiohttp or curl is never retried through a gateway.
- `engine.py:1282`: a page that was taken back for a 429 has no result if a stop or the budget comes
  first. A page skipped for an open breaker is marked done and not tried again on resume.
  `engine.py:1942`: an exception before the loop leaves the run marked running.
- `engine.py:1647`: a sitemap listed twice within one level is fetched twice, and pages that the frontier
  knows use up slots of its limit.
- `current_site_files.py:109`: a seed whose robots file cannot be had gives no roots, and the
  collection may still call itself complete; `CompleteIsComplete` therefore speaks of the seeds that
  could be asked. The test at line 144 is never true: `available` keeps queue and visits within the budget.
- `intent_overlap.py:731` is never reached: a pair at the threshold sets one of the flags before it.
- `variants.py:126`: a probe changes `follow_redirects` of the shared engine and puts it back, so
  concurrent probes may leave it changed.

## 6. Proofs

All proofs are of the specifications without fairness, which the fair ones imply, from the modules' named assumptions about
their constants (finite sets of requests, URLs or tasks; limits that are natural numbers).

- `GuardedFetchProofs`, over two modules:
  - The ledger. `LedgerInv`: typing, exact counts, exact reserved bytes, every lease owned by an
    active request, lease ids below the counter, and the byte bound. The reserved total is the
    cardinality of a set (one element for each leased byte, `LeasedBytes`), so that taking or settling
    a lease adds or removes a block of known size and no induction over a sum is needed. The ids below
    the counter make a new lease a new element; without the exact total the byte bound is not kept by a
    settlement, which moves bytes from reserved to accounted. `ChargeInv` does the same with what is
    charged (`ChargedBytes`, one element for each byte of each response), and needs `FreshIsFree`: a
    response that has not been answered is charged nothing. Theorems: `LedgerTypes`, `RequestLimit`,
    `ReservedTotal`, `ByteLimit`, `ChargedBytesLimit`, `FirstStopReason`, `ChargesAreExact`.
  - The fetch. `ReadInv`: typing, no response beyond its cap, a reader that has room below the cap
    in wire and decoded bytes, a lease whose allowance fits the response, one lease to a request, and the
    byte bound. Every step is then a step of the ledger or a stutter (`FetchImplementsLedger`), and what
    holds of the ledger holds of the fetches. `SlotInv` ties the two together: a request is between its
    admission and its settlement exactly while the ledger has a reservation for it (`ConnectionsHoldSlots`), so
    no connection is open beyond the slots counted. Theorems `ResponseCap`, `FetchesOverrunByFlush`,
    `FetchImplementsLedger`, `FetchesAreCharged`, `FetchesAreAdmitted`.
- `CrawlOpenProofs` - `OpenInv`: typing; a URL in flight has a pending row or one that a link ruled
  out (`FlightRows`); a page whose task answered "saved" is stored; what waits to be marked done is
  stored or skipped and no longer in flight; nothing is in flight outside the loop. Each step of the
  code leaves half of a row's story to a later one, which is why the invariant speaks of the sets in
  between. Theorems `OpenTypes`, `NothingIsLostAsDone`, `OneFetchPerUrl`, `RowsTellTheTruth`, `NoSecondFetch`, and the
  refinement `UsesTheFrontier` (initial states map to initial states, each step to a step of `Frontier`
  or a stutter). `BooksInv`, on top of it, is about what a session knows of its rows: a first session
  begins with no rows but ruled out ones, a session that works is recorded as running, and every pending
  row is of a task in flight or about to be marked done (`PendingIsHeld`; between a crash and the next
  session's reset, and after an error of the store, this does not hold and nothing rests on it). The limits are
  cardinalities. Theorems `LimitsAreKept`, `CompleteMeansFinished`.
- `AdaptiveRateProofs` - `GateInv`: typing, the soundness of the controller, the slot count, a
  releaser for every waiter, and the pause ledger. Without the slot count a waiter's releaser may
  vanish in `Leave`; without the soundness of the controller recovery may pass the ceiling.
  Theorems `GateTypes`, `NobodyWaitsForNothing`, `OnlyEverTightens`, `PausesAreCountedOnce`,
  `RecommendationHeld`, `ReportsTellTheTruth`, `StartsAreSpaced`. And `HreflangFacts`. `HreflangInv`: pages and
  rows do not change once the report reads them, and the facts are those of the rows judged so far. That a normal
  form with a row has a last one rests on `ExtremesExist` (a finite set of numbers has a greatest member), which
  follows from the well-founded order of its subsets. Theorem `HreflangIsSound`.
- `RobotsPolicyProofs` - `RobotsInv`: typing; a task that sleeps holds the delay lock, and the rest of its sleep
  with the time since the last permit makes up its delay (`SleepersHoldTheLock`); only one task at a time
  is past `is_allowed` without an await (`OneRuns`). On top of it `FetchersHoldTheLock`: who requests the robots.txt
  holds its lock and the cache is empty, which makes the request the only one and the cache stay empty until it
  is answered. Theorems `RobotsTypes`, `RobotsAreAsked` (one request, and after a failure only what queued
  before it), `PermitsKeepTheirDistance`. And `RenderParity`, in two parts. `ParityInv`: a verdict is none, inconclusive, or
  made of the capture that its page still has, and a settled capture shows what the scripts made. `SampleInv`: the
  strata are in a round (`InRounds`: those before the cursor gave one more, if they had one), and a candidate is
  chosen exactly if fewer of its stratum come before it than were taken, from which no page is chosen twice and
  none is left when the strata are empty. Theorems `SampleIsFair`, `RendersAreTrue`.
- `HostGateProofs` - `GateInv`: typing, the slot count (`SlotsAreKept`, on which the type of
  `hostFree` rests), a clock for every open breaker, enough failures behind every breaker that is not
  closed, and a breaker's count that never runs ahead of the failures it was told. Theorems `GateTypes`,
  `OpenHasAClock`, `OpensForAReason`, `NoSlotIsLost`. And `GovernanceInv` of `AiGovernance`: the row of an
  /llms.txt is one of those that a probe makes (`Probed`, each of which was answered or has a reason), the second
  requests begin when every row is there, and a written bundle is what the answers make. That the command accepts
  it is no invariant of a step but follows from the rows: `LiveIsValid` and `SavedIsValid`. Theorem
  `GovernanceIsHonest`.
- `PartsProofs`, over eight modules:
  - `BrowserInv`: typing, who is inside the lock holds it (`LockedIsHolder`) and what
    the context is meanwhile (`LockedState`), the count of active pages is the number of fetches that have
    one (`PagesAreCounted`), a requested recycle has a page (`RequestHasPage`), a borrowed browser's context
    is not ours. The count is a cardinality, so that a fetch that leaves takes exactly one off.
    Theorems `ContextsOutliveTheirPages`, `RecyclesAreCarried`,
    `ContextsServe`.
  - `FrontierInv`: typing and the rules of retries. Theorem `RetriesKeepTheRules`.
  - `HistoryInv`: typing, `MigratesOldPages` (while a migration stands before its projection there are
    old pages only), `RowsAreOfTheJob` (what a job still has to do are rows of its run) and
    `SignedIsDoneOrToDo` (in a signing run without failures a signed row has its vector or is still to come), which carries
    `JobsRefreshWhatIsStale` over the steps of a job. Theorems `ContentsAreOfTheirRun`,
    `SignatureJobsAreComplete`, `ContentOutlivesFailures`, `HistoriesAreSound`.
  - `LauncherInv`: typing; a request at work on a start is the active one, and only accepted
    requests have a process. Theorem `OneProcessAtATime`.
  - `LocksInv`: typing, `UpsertsAreHeld` (a transaction that is past its first upsert holds the row),
    `TouchedArePresent` (what a pre-touch has gone by is committed or its own), `HeldRowsExist`,
    `StagesOfPages` (which stages a kind of write has) and `InsertedBelow` (a sorted statement has inserted
    only rows below those still to insert). Theorems `PagesAreWrittenInTurn`,
    `LinksResolve`, `SortedInsertsWaitUpwards`, `WritersTakeTurns`.
  - `PoolInv`: in turns, how often a proxy was passed over and how far ahead of the index it lies on the ring
    add up to less than a round; a selection that passes it over adds one to the former and takes at least one
    off the latter. The arithmetic of the ring is a lemma about numbers alone (`PlacesOnARing`). `ListInv`: a URL waits
    exactly once if it is neither in flight nor answered, and is never both. Without the first part a
    retry put back at the front could be there twice. Theorem `ListsAreFair`.
  - `SiteInv`: typing; what is queued, visited and parsed are files of the site (`WalkIsOfTheSite`), and what
    is queued as a guess is a well-known path (`GuessesAreOptional`); every entry is of a list that was
    parsed, and none is there twice (`EntriesAreOfLists`). While the collection may still call itself complete,
    every root and every child of a parsed index is queued or visited (`NothingIsForgotten`), and every
    admitted file visited was parsed or is a missing guess, with all its entries (`NothingIsSkipped`). When the
    queue has run empty the visited files are closed under the site's own rule, and the site is the least
    such set. Neither half is inductive without the other: what is taken off the queue must be visited,
    and what is visited must not be lost. Theorem `CompleteMeansAll`.
- `StoreProofs`, over six modules:
  - `SnapshotInv`: typing; a run that is crawled is "running", and only a process that came to its end wrote
    "complete" (`StatusTellsTheCrawl`); no time is of the future; while an audit reads, either the row
    is the one it began with, and then a complete run has kept its pages, or the row's time tells that it
    was written since (`ReadsAreOfTheRow`). Theorem `CompleteAuditsAreOfOneRun`.
  - `StorageInv`: typing; until a purge is carried out, what its check found still holds, unless a result
    of the run came late (`CheckStillHolds`); what was purged with hashes required had them. Theorem `PurgesAreCareful`, an
    action property with it.
  - `RowsAreOfOneFetch` is inductive as it stands. Theorem `TablesFollowOneFetch`.
  - `ReconcileInv`: a task at work has a pending row of a running run (`TasksHaveRows`), a frontier that a
    report counted empty never moves again, and the pages it read are the run's (`ReportIsOfTheWhole`), and
    no URL that answered 200 at once ended in a 404 (`OneAnswer`). The first rule that holds is then the one definition that holds. Theorem `SegmentsAreSound`.
  - `VariantsInv`: typing; the variants stored are those of some snapshots, of the present ones if none
    was replaced since (`GroupsAreOfSnapshots`), and so are the AMP labels, stored or about to be, and what they exclude. That every group has one representative takes an order of its pages: each has the
    set of pages ahead of it, sets of better pages are strictly smaller, and a page with the least
    set is it (`RepresentativeExists`). Theorem `VariantsAreHonest`.
  - `ComparisonInv`: what a side has loaded for a path is of the page its crawl ended at there, as far as its
    source kept it (`Faithful`), no path of the site is lost (`IsLoadOf`), and what a saved session says is true of
    the sites. That a copy compares clean and that the host alone is no difference both follow from what the
    hashes of a result are made of (`HashesAre`). Theorem `ComparisonIsTrue`, for any number of
    paths, bodies and links.
- `ScopeProofs`, over five modules:
  - `ScopeInv`: typing; for every URL and wherever its fetch stands (`FetchIsSound`), its chain begins at
    itself, declared and found so within the window; a pinning backend's chain is declared to its end, also the
    hop that waits to be requested; an answer that passed its check has a declared chain, and only a crawl that
    escalates has one of a browser. Without escalation what is rendered is the declared end of such a chain
    (`RenderedIsDeclared`); a crawl that began was asked for nothing undeclared. Theorem `CrawlStaysDeclared`, with
    the exception for challenged URLs that the property names.
  - `InventoryInv`: typing; the state of a host tells what has been done for it (`StateTellsTheWork`).
    Theorem `OnlyNamedHostsAreRequested`.
  - `SettingsInv`: `JobIsSound` (what a process holds at each stage agrees with its command line and its run)
    and `RunIsSound` (a run's row agrees with all its sessions), over states that two processes share;
    `RunsGrow` (no step takes a session from a run) keeps one process's facts over the other's steps. Theorem `SettingsAreKept`.
  - `SheetInv`: typing, and by the way of the publish what the copy is: tabs that arrived in order
    (`TabsArrive`), the template but for rows that somebody edited (`CopyIsWhole`), then with the new
    tabs at their place and no name or header lost (`TabsStay`); without edits how far the tickets have
    come (`ContentsFollow`); and what was read back and not edited since is as it was read
    (`ReadsAreTrue`). That new tabs keep the order of the others is arithmetic of places
    (`InsertedTabs`). Theorem `ReceiptsAreHonest`.
  - `AnswersInv`: typing. The argument is about the rules: `FindingStays` and `CleanStays` say, rule by rule,
    that a finding, or a record that was tested and found clean, stays what it is when more is recorded of it;
    a lemma for each evidence (`EvaluateIs`, `ProfileIs`, `HostsIs`, ...) says what it claims of the records.
    A Healthy answer has then either only records that stay clean or every field recorded. The questions in
    `PassesOverGaps` and `CountsGaps` are those for which the lemmas are false; the proof added Q66
    to the former, which the two records of the run are too few to show. Theorem `AnswersRest`.

The modules beneath `StoreProofs` and `ScopeProofs` state their assumptions as definitions, which the
theorems take as hypotheses (`ASSUME ... PROVE`); `InstancesAreSound` in `MCReports` has TLC evaluate each of
them for the instance that is checked.

Only model-checked:
- Every liveness property (`SlotsAreReturned`, `SessionsEnd`, `WaitersAreServed`,
  `NothingIsHeldForEver`, `PartsEnd`) and `ENABLED`, which are beyond the provers used.
- `SiteReportsAreTrue`: `SitemapWalk` and `IntentOverlap` compute with folds over sequences and forests, and
  the provers cannot do induction over data; the spread of the samples is a count by strata.
- `SavedFactsAreSound`, `ProbesRestOnAnswers`, `ComparisonsAreTrue`: `CrawlDepths`,
  `LanguageProbes` and `UrlPairs` compute a verdict from a fixed input in few steps, and over their bounded inputs the runs
  are exhaustive. (Of `SavedFactsAreSound` the part about hreflang is proved: `HreflangIsSound`;
  of `ProbesRestOnAnswers` the parts about the inventory
  and the crawler rules are proved: `OnlyNamedHostsAreRequested`, `GovernanceIsHonest`;
  of `ComparisonsAreTrue` those about compare and compare-renders: `ComparisonIsTrue`, `SampleIsFair`,
  `RendersAreTrue`. `UrlPairs` follows redirects
  by recursion.)

## 7. Not modelled

The map covers a little less than a third of the implementation. What remains is for the larger part code that
has no state and no concurrency: argument parsing and printing (`__main__.py`), SQL text and its row
mapping (`persistence.py` beyond the statements modelled), single queries printed as tables
(`reports.py`), tickets' texts (`technical_audit.py`), the GUI's readers, scanners and parsers of text
(`extract.py`, `detection/`). A model of those would be their text again.

- Contents: pages, headers, parsing, scoring and priorities. A page is the set of links it may contain,
  or the fetch it came from.
- In `StoreLocks` the lookup rows of single values (`_get_or_create_lookup`, `persistence.py:2019`: meta
  descriptions, languages, directives): each is upserted on its own and its row locked until the commit, in the
  page's own order, as the upserts of URLs are that the module has; what they may deadlock on is rolled back
  in the same way.
- `--archive-org-check` without PostgreSQL (`__main__.py:1716`): refused before there is a store or a run.
- The groups' edges come from every snapshot of a run (`persistence.py:3938`), the audit's from those whose
  document was extracted. A snapshot without a document has no annotations (`persistence.py:2700`), so for rows
  that this version wrote the two are the same, as `HreflangFacts` has them; rows of earlier versions are left out.
- That a late failure should not bench a proxy again (`proxy_pool.py:163`): nothing in the code says so. It
  happens in `ProxyPool`, and what must hold nevertheless is in `ListsAreServed`.
- The refresh filter and the save file of an open crawl: they add seeds or links, or write files.
- Redirect hops, address resolution and the policies' verdicts on an address: decided before a request.
- Cancellation of a page by the shutdown of the process, and with it of a shared subresource task.
- Floating point: times are whole units, similarities are levels. The backoff's overflow after a thousand
  refusals in a row (`adaptive_rate.py:489`) is out of range.
- Two processes that crawl the rows of one run, which the store does not tell apart, outside
  `RunSettings`: `CrawlOpen` has one process.
- The guards on addresses, headers and cookies in the settings of a run; the percent-decoding of a path
  under a manifest, which enters as the pair of its forms.
- Of the audit's questions those that are one field of a report; of the AI context files the two that
  nothing reads.
- In `SiteFiles` the text of the report, in `IntentOverlap` the approximate index and percentiles.
- The parts marked `not_modelled` in PROJECT.json, with the reason there.
