----------------------------- MODULE MCReports ------------------------------
(*
The commands beside and after a crawl, which share no state with one
another: run set-up, manifests, the tables of a page and their clean-
up, audits, probes, comparisons and publication.  Initially one of
those in Running is chosen, and only it moves.  The modules that are
extended have their own variables; those that are instantiated share
s1, s2, ... in the order of their module, and what one does not need
stays 0.

Bounds given in the .cfg: an audit of two reports, the fewest that can
differ, and two seconds after the first, which let a run end, be
audited and be resumed in seconds of their own; two pages cleaned in
batches of one, so that a batch leaves rows for the next; two results
of a page and a document, which let a URL be stored and be replaced or
reached by a redirect, in two runs.
*)
EXTENDS RunSettings, ScopeManifest, PageStore, Compaction, PageVariants, AuditSnapshot,
        SheetPublish, SourceReconciliation, AuditAnswers

CONSTANTS Running, d1, d2

VARIABLES part, s1, s2, s3, s4, s5, s6, s7, s8, s9, s10, s11, s12

shared == <<s1, s2, s3, s4, s5, s6, s7, s8, s9, s10, s11, s12>>

--------------------
\* Two processes and one run id; "u2" is outside the narrow manifest.
Crawl == [seeds |-> {"u1"}, csv |-> NoFile, csvSeed |-> FALSE, archive |-> FALSE,
          manifest |-> None, widens |-> FALSE, tuning |-> 0, resume |-> None, runId |-> "run",
          waive |-> FALSE, bestEffort |-> FALSE]
Resumption == [Crawl EXCEPT !.resume = "run", !.runId = None]
CommandLines ==
    {Crawl, Resumption,
     [Crawl EXCEPT !.manifest = "wide", !.bestEffort = TRUE],
     [Crawl EXCEPT !.manifest = "narrow", !.seeds = {"u1", "u2"}],
     [Resumption EXCEPT !.waive = TRUE, !.manifest = "wide"],
     [Resumption EXCEPT !.waive = TRUE, !.tuning = 1],
     [Crawl EXCEPT !.seeds = {}, !.csv = {"u2"}, !.csvSeed = TRUE],
     [Crawl EXCEPT !.seeds = {}, !.csv = {}, !.csvSeed = TRUE],
     [Crawl EXCEPT !.archive = TRUE],
     [Crawl EXCEPT !.manifest = "wide", !.archive = TRUE],
     [Crawl EXCEPT !.resume = "run", !.csv = {"u2"}],
     [Resumption EXCEPT !.csv = {"u2"}]}

ManifestScopes == [wide |-> {"u1", "u2"}, narrow |-> {"u1"}]

\* A URL in scope, one whose encoding hides an excluded path, one of another
\* origin; every window over three points in time; fetches of two redirects.
At(origin, raw, decoded) == [origin |-> origin, raw |-> raw, decoded |-> decoded]

ScopeUrls == {At("o1", "allowed", "allowed"), At("o1", "allowed", "excluded"),
              At("o2", "allowed", "allowed")}

\* A declared host beside an undeclared one, in the same domain and in another.
Inventory == INSTANCE ExposureInventory
    WITH Label <- {"dev"}, Domain <- {d1, d2},
         caller <- s1, origins <- s2, policed <- s3, crawled <- s4, published <- s5, stage <- s6,
         decision <- s7, answers <- s8, state <- s9, evidence <- s10, asked <- s11,
         answered <- s12

--------------------
\* A page and a document.  Two results let a URL be stored and be replaced or
\* reached by a redirect, in two runs; a page has links and an AMP edge, or
\* rows in every table.
FoundTables ==
    {{"internal_links", "amphtml_urls"},
     {"robots_directives", "canonical_urls", "hreflang", "schema", "internal_links", "analytics",
      "amphtml_urls", "javascript_url_candidates", "css_url_candidates",
      "render_url_candidates"}}

\* /a and /a/, one page to its AMP form /a/amp and its copy /a?x=1.
Good == [ok |-> TRUE, redirected |-> FALSE, words |-> 1, indexable |-> TRUE,
         canonical |-> 0, amphtml |-> 0, text |-> 1]
PageSnapshots ==
    <<{Good, [Good EXCEPT !.amphtml = 3], [Good EXCEPT !.amphtml = 1],
       [Good EXCEPT !.ok = FALSE, !.text = 0]},
      {Good, [Good EXCEPT !.words = 2], [Good EXCEPT !.redirected = TRUE],
       [Good EXCEPT !.indexable = FALSE]},
      {[Good EXCEPT !.canonical = 2, !.text = 2], [Good EXCEPT !.text = 2]},
      {[Good EXCEPT !.text = 2], [Good EXCEPT !.canonical = 1]}>>

Norms == <<"a", "a", "amp", "query">>
AmpBases == <<"none", "none", "a", "none">>
QueryBases == <<"none", "none", "none", "a">>

\* Templates with and without a ticket header, a detail tab of their own and a
\* cell that no clear reaches; none, no, one and three tickets; one foreign edit.
Empty(name) == [name |-> name, header |-> FALSE, rows |-> [r \in 1..3 |-> "template"],
                rules |-> {}, crossing |-> FALSE, beyond |-> FALSE]
Tickets == [Empty("Tickets") EXCEPT !.header = TRUE, !.rules = {1, 2}, !.crossing = TRUE]
Config == [Empty("Config") EXCEPT !.rules = {3}]
Workbooks ==
    {<<Config, Tickets>>, <<Tickets, Empty("Detail"), Config>>,
     <<[Tickets EXCEPT !.header = FALSE], Config>>,
     <<[Empty("Detail") EXCEPT !.beyond = TRUE], Tickets>>, <<Empty("Intro"), Config>>}
Ask(n, details) == [tickets |-> n, details |-> details, rows |-> 2, valid |-> TRUE]
Publications ==
    {Ask(-1, <<"Detail">>), Ask(0, <<"Detail", "More">>), Ask(1, <<>>),
     Ask(3, <<"More", "Detail">>), Ask(1, <<"Config">>), [Ask(1, <<>>) EXCEPT !.valid = FALSE]}

--------------------
\* Every link graph of four URLs.  Links back to the homepage or to the page
\* itself change nothing: the row is there.
Four == {"home", "hub", "list", "goal"}
FourGraphs == {g \in [Four -> SUBSET (Four \ {"home"})] : \A u \in Four : u \notin g[u]}
Flat == [u \in Four |-> 0]
Steep == [home |-> 0, hub |-> 1, list |-> 4, goal |-> 2]
FourSettings == {[tasks |-> 1, retries |-> 0, segments |-> Flat],
                 [tasks |-> 2, retries |-> 0, segments |-> Flat],
                 [tasks |-> 2, retries |-> 1, segments |-> Steep]}

Depths == INSTANCE CrawlDepths
    WITH DepthUrl <- Four, Home <- "home", Graphs <- FourGraphs, CrawlSettings <- FourSettings,
         Priority <- {"goal"}, MaxDepth <- 2,
         graph <- s1, setting <- s2, row <- s3

\* /en/a and /en/a/, of one normal form, and /fr/a.
Hint(u, l) == [to |-> u, lang |-> l, source |-> "html_head"]
Doc == [kind |-> "page", ok |-> TRUE, indexable |-> TRUE, canonical |-> 0, lang |-> "none",
        heads |-> {}]
Both(u) == [Doc EXCEPT !.heads = {Hint(u, "en"), Hint(3, "fr")}, !.lang = "en"]
Annotated ==
    <<{Both(1), [Both(1) EXCEPT !.canonical = 2], [Both(1) EXCEPT !.indexable = FALSE],
       [Both(1) EXCEPT !.lang = "fr"], [Doc EXCEPT !.heads = {Hint(3, "fr")}],
       [Doc EXCEPT !.kind = "redirect"]},
      {Both(1), Doc, [Doc EXCEPT !.ok = FALSE], [Doc EXCEPT !.indexable = FALSE],
       [Both(2) EXCEPT !.canonical = 3]},
      {[Doc EXCEPT !.heads = {Hint(1, "en"), Hint(3, "fr")}, !.lang = "fr", !.canonical = 3],
       [Doc EXCEPT !.heads = {Hint(2, "en"), [Hint(3, "fr") EXCEPT !.source = "http_header"]}],
       Doc, [Doc EXCEPT !.ok = FALSE], [Doc EXCEPT !.ok = FALSE, !.kind = "other"],
       [Doc EXCEPT !.heads = {Hint(1, "fr"), Hint(2, "en"), Hint(3, "fr")}]}>>

Hreflang == INSTANCE HreflangFacts
    WITH Url <- 1..3, Norm <- <<1, 1, 3>>, Folder <- <<"en", "en", "fr">>, Answers <- Annotated,
         SitemapEdges <- {<<1, 3>>, <<3, 1>>}, MaxHtml <- 2,
         page <- s1, sitemap <- s2, rows <- s3, todo <- s4, facts <- s5, at <- s6

\* Two records of one question, in a run without or with one flaw.
Flaws == {"partial", "changed", "pending", "rateLimited"}

RunContexts == {[f \in Flaws |-> f = flaw] : flaw \in Flaws \cup {"none"}}

\* The records are interchangeable: what is given with them is in order.  A flaw
\* is alone: the run has it, or the collections do, and nothing in what is given.
InOrder == \A f \in GivenOf[question] : given[1][f] = "yes" => given[2][f] = "yes"
OneFlaw ==
    \/ run_context = SoundContext
    \/ covered /\ \A i \in RecordIds : \A f \in GivenOf[question] : given[i][f] = "no"

--------------------
\* One language next to the wildcard; one or both targets are requested, and one
\* of the answers is not the usual one.
Language == INSTANCE LanguageProbes
    WITH Languages <- {"es"}, MaxHops <- 1, TargetLimits <- {1, 2}, MaxOdd <- 1,
         locale <- s1, max_targets <- s2, usual <- s3, odd <- s4, probes <- s5, stage <- s6,
         session <- s7, bundle <- s8

\* Two origins and two agents.
Policies == {[training |-> "disallow", search |-> "allow"], [training |-> "undeclared", search |-> "allow"]}

Governance == INSTANCE AiGovernance
    WITH Seeds <- <<"a", "b">>, Agents <- {"training", "search"}, Policies <- Policies,
         Caps <- {0, 2},
         policy <- s1, max_origins <- s2, saved <- s3, live <- s4, rules <- s5, llms <- s6,
         response <- s7, collections <- s8, stage <- s9

\* Beside live records, the saved file agrees with both policies.
OneSaved == s4 /\ s3 # <<>> => s3["a"] = {"training"}

\* Two seeds, of which one links to the other, and a page behind them; each but
\* the first may not be an ordinary page.  A page out of scope and a URL of
\* another host.
Site == {"home", "a", "b", "out"}
SiteLinks == [home |-> {"home", "a", "out"}, a |-> {"b"}, b |-> {"a", "out"}, out |-> {"home"}]
LeadsTo == [home |-> "a", a |-> "b", b |-> "a", out |-> "home"]
World(a, b) == [home |-> "page", a |-> a, b |-> b, out |-> "page"]
SiteWorlds ==
    {World("page", "blocked"), World("moved", "page"), World("noindex", "missing"), World("half", "alias")}
Export(sitemap, gsc, backlinks) ==
    [sitemap |-> sitemap, gsc |-> gsc, backlinks |-> backlinks,
     readable |-> TRUE, provenance |-> TRUE, current |-> FALSE]
Exports ==
    {Export({}, {"a", "other"}, {"a", "b"}),
     [Export({"b"}, {"home", "out", "b"}, {"home", "out"}) EXCEPT !.provenance = FALSE],
     [Export({}, {}, {}) EXCEPT !.readable = FALSE], [Export({}, {}, {}) EXCEPT !.current = TRUE]}

--------------------
\* Two paths, the second plain, and two bodies; the first page links to its own
\* host or to nothing.
Artifact(hashed) == [from |-> "artifact", hashed |-> hashed, html |-> TRUE, stamp |-> "known"]
Unknown == [Artifact(TRUE) EXCEPT !.stamp = "unknown"]
Stored(hashed, html) == [from |-> "store", hashed |-> hashed, html |-> html, stamp |-> "none"]
LoadedFrom(b, c) == [baseline |-> b, candidate |-> c]

Compare == INSTANCE Comparison
    WITH Path <- {"p1", "p2"}, Body <- {"b1", "b2"}, Plain <- {"p2"},
         Loads <- {LoadedFrom(Artifact(TRUE), Artifact(TRUE)), LoadedFrom(Artifact(TRUE), Artifact(FALSE)),
                   LoadedFrom(Stored(TRUE, TRUE), Artifact(TRUE)), LoadedFrom(Artifact(FALSE), Stored(FALSE, TRUE)),
                   LoadedFrom(Stored(TRUE, FALSE), Stored(TRUE, TRUE)),
                   LoadedFrom(Artifact(TRUE), Unknown)},
         LinkSet <- {{}, {[to |-> "own", path |-> "p2", anchor |-> "text"]}},
         host <- s1, site <- s2, source <- s3, replace <- s4, byPath <- s5,
         outcome <- s6, session <- s7

\* The bodies are interchangeable: the first page of the baseline has the first.
FirstBody == s2["baseline"]["p1"].kind = "page" => s2["baseline"]["p1"].body = "b1"

\* Three URLs: redirects of two hops, loops, and a chain past the target.
\* They are interchangeable, so the source is the first and the target not the last.
\* What the artifact has is not in the stored run as well.
Pairs == INSTANCE UrlPairs
    WITH Url <- {"u1", "u2", "u3"},
         site <- s1, pair <- s2, artifact <- s3, stored <- s4, fetching <- s5, at <- s6, found <- s7

\* Two pages with every kind of difference; the sample of five URLs in three
\* strata has one kind of page and ends where the comparison begins.
Same == [f \in {"title", "meta_description", "canonical", "html_lang", "meta_robots", "hreflang", "h1",
                 "structured_data"} |-> "a"]
Shown(fields, links, text) == [field |-> fields, links |-> links, text |-> text]
Loaded(raw, dom, conflict) == [raw |-> raw, dom |-> dom, conflict |-> conflict]
TextOf(n, matter, method) == [words |-> n, matter |-> matter, method |-> method]
Much == TextOf(300, "a", "trafilatura")
Rewritten == TextOf(290, "b", "trafilatura")
Few == TextOf(10, "b", "fallback")
Whole == Shown(Same, {"l"}, Much)
Plainest == Shown(Same, {}, Few)
Changed(f, v) == Shown([Same EXCEPT ![f] = v], {"l"}, Much)
LoadedPages ==
    {Loaded(Whole, Whole, FALSE), Loaded(Whole, Whole, TRUE),
     Loaded(Whole, Changed("canonical", "b"), FALSE),
     Loaded(Whole, Changed("canonical", "malformed"), FALSE),
     Loaded(Whole, Changed("hreflang", "b"), FALSE), Loaded(Whole, Plainest, FALSE),
     Loaded(Shown(Same, {"l"}, TextOf(100, "b", "trafilatura")), Whole, FALSE),
     Loaded(Whole, Shown(Same, {"l"}, Rewritten), FALSE),
     Loaded(Shown(Same, {"l"}, TextOf(0, "none", "none")), Whole, FALSE)}

Render == INSTANCE RenderParity
    WITH Url <- {1, 2}, Stratum <- {1}, Link <- {"l"}, Pages <- LoadedPages, MaxPages <- 2,
         from <- s1, page <- s2, stratum <- s3, candidates <- s4, selected <- s5, position <- s6,
         cursor <- s7, slots <- s8, capture <- s9, verdict <- s10, outcome <- s11

\* The two URLs are interchangeable.
GivenInOrder == s5' # <<2, 1>>

Sample == INSTANCE RenderParity
    WITH Url <- 1..5, Stratum <- 1..3, Link <- {"l"}, Pages <- {Loaded(Whole, Whole, FALSE)},
         MaxPages <- 4,
         from <- s1, page <- s2, stratum <- s3, candidates <- s4, selected <- s5, position <- s6,
         cursor <- s7, slots <- s8, capture <- s9, verdict <- s10, outcome <- s11

\* The sample of five is chosen and not loaded.
OnlyChosen == s1 = "run" /\ s8 = 1

--------------------
ASSUME InstancesAreSound ==
    /\ SettingsAssumption /\ ScopeAssumption /\ PagesAssumption /\ StorageAssumption
    /\ VariantsAssumption /\ SheetAssumption /\ SnapshotAssumption /\ ReconciliationAssumption
    /\ Depths!Assumption /\ Hreflang!HreflangAssumption /\ AnswersAssumption
    /\ Language!Assumption /\ Governance!GovernanceAssumption /\ Compare!ComparisonAssumption
    /\ Render!RenderAssumption /\ Sample!RenderAssumption

ButSettings == <<part, answerVars, scopeVars, pageVars, storageVars, variantVars, snapshotVars, sheetVars,
                 reconciliationVars, shared>>
ButScope == <<part, answerVars, vars, pageVars, storageVars, variantVars, snapshotVars, sheetVars,
              reconciliationVars, shared>>
ButTables == <<part, answerVars, vars, scopeVars, storageVars, variantVars, snapshotVars, sheetVars,
               reconciliationVars, shared>>
ButCleanup == <<part, answerVars, vars, scopeVars, pageVars, variantVars, snapshotVars, sheetVars,
                reconciliationVars, shared>>
ButVariants == <<part, answerVars, vars, scopeVars, pageVars, storageVars, snapshotVars, sheetVars,
                 reconciliationVars, shared>>
ButSnapshot == <<part, answerVars, vars, scopeVars, pageVars, storageVars, variantVars, sheetVars,
                 reconciliationVars, shared>>
ButSheet == <<part, answerVars, vars, scopeVars, pageVars, storageVars, variantVars, snapshotVars,
              reconciliationVars, shared>>
ButReconciliation == <<part, answerVars, vars, scopeVars, pageVars, storageVars, variantVars, snapshotVars,
                       sheetVars, shared>>
ButShared == <<part, answerVars, vars, scopeVars, pageVars, storageVars, variantVars, snapshotVars,
               sheetVars, reconciliationVars>>
ButAnswers == <<part, vars, scopeVars, pageVars, storageVars, variantVars, snapshotVars,
                sheetVars, reconciliationVars, shared>>

From4 == <<s4, s5, s6, s7, s8, s9, s10, s11, s12>>
From6 == <<s6, s7, s8, s9, s10, s11, s12>>
From7 == <<s7, s8, s9, s10, s11, s12>>
From8 == <<s8, s9, s10, s11, s12>>
From9 == <<s9, s10, s11, s12>>
From10 == <<s10, s11, s12>>
From12 == <<s12>>

Zero12 == s12 = 0
Zero11 == s11 = 0 /\ Zero12
Zero10 == s10 = 0 /\ Zero11
Zero9 == s9 = 0 /\ Zero10
Zero8 == s8 = 0 /\ Zero9
Zero7 == s7 = 0 /\ Zero8
Zero6 == s6 = 0 /\ Zero7
Zero5 == s5 = 0 /\ Zero6
Zero4 == s4 = 0 /\ Zero5
Zero1 == s1 = 0 /\ s2 = 0 /\ s3 = 0 /\ Zero4

Extended == {"settings", "scope", "tables", "cleanup", "variants", "snapshot", "sheet",
             "reconciliation", "answers"}

\* What is chosen at the beginning of an extended module, where it does not move.
FirstChoices ==
    /\ IF part = "scope" THEN TRUE
       ELSE /\ manifest = (CHOOSE m \in Manifests : TRUE) /\ pinned = FALSE
            /\ options = (CHOOSE o \in Options : TRUE) /\ inputs = ScopeUrl
    /\ IF part = "variants" THEN TRUE
       ELSE snapOf = [p \in Page |-> CHOOSE s \in Snapshots[p] : TRUE]
    /\ IF part = "sheet" THEN TRUE
       ELSE /\ template = (CHOOSE w \in Templates : TRUE) /\ driveCopies = TRUE
            /\ publication = (CHOOSE q \in Publication : TRUE)
    /\ IF part = "reconciliation" THEN TRUE
       ELSE answer = (CHOOSE w \in Worlds : TRUE) /\ limit = 0
    /\ IF part = "answers" THEN InOrder /\ OneFlaw
       ELSE /\ question = "Q43" /\ run_context = SoundContext /\ covered = TRUE
            /\ oneTemplate = FALSE /\ given = [i \in RecordIds |-> [f \in {} |-> "no"]]

\* A page that may be rendered need not be, and a confirmation without
\* --ignore-robots is not read.
ScopeChoices == part = "scope" => options.renders /\ (options.confirmed => options.ignoreRobots)

ReportsInit ==
    /\ part \in Running
    /\ AnswersInit /\ FirstChoices
    /\ Init /\ PagesInit /\ StorageInit /\ SnapshotInit
    /\ ScopeInit /\ ScopeChoices /\ VariantsInit /\ SheetInit /\ ReconciliationInit
    /\ \/ part \in Extended /\ Zero1
       \/ part = "inventory" /\ Inventory!InventoryInit
       \/ part = "depths" /\ Depths!DepthsInit /\ Zero4
       \/ part = "hreflang" /\ Hreflang!HreflangInit /\ Zero7
       \/ part = "language" /\ Language!Init /\ Zero9
       \/ part = "governance" /\ Governance!GovernanceInit /\ OneSaved /\ Zero10
       \/ part = "compare" /\ Compare!ComparisonInit /\ FirstBody /\ Zero8
       \/ part = "pairs" /\ Pairs!PairsInit /\ s2.source = "u1" /\ s2.target # "u3"
                         /\ s3 \cap s4 = {} /\ Zero8
       \/ part = "render" /\ Render!RenderInit /\ Zero12
       \/ part = "sample" /\ Sample!RenderInit /\ OnlyChosen /\ Zero12

\* Of the document a source is recorded in one run.
OneOfTheDocument == \A a, b \in told' : a[2] = "doc" /\ b[2] = "doc" => a = b

\* The first result that a clean-up finds is of the first run and the first page, and
\* has HTML.
FirstOfFirst ==
    storedResults = 0 => /\ snap'["r2"] = snap["r2"] /\ snap'["r1"][2] = snap["r1"][2]
                         /\ storedResults' = 1 => snap'["r1"][1].text # NoText

ReportsNext ==
    \/ part = "settings" /\ Next /\ UNCHANGED ButSettings
    \/ part = "scope" /\ ScopeNext /\ UNCHANGED ButScope
    \/ part = "tables" /\ PagesNext /\ OneOfTheDocument /\ UNCHANGED ButTables
    \/ part = "cleanup" /\ StorageNext /\ FirstOfFirst /\ UNCHANGED ButCleanup
    \/ part = "variants" /\ VariantsNext /\ UNCHANGED ButVariants
    \/ part = "snapshot" /\ SnapshotNext /\ UNCHANGED ButSnapshot
    \/ part = "sheet" /\ SheetNext /\ UNCHANGED ButSheet
    \/ part = "reconciliation" /\ ReconciliationNext /\ UNCHANGED ButReconciliation
    \/ part = "answers" /\ AnswersNext /\ UNCHANGED ButAnswers
    \/ /\ UNCHANGED ButShared
       /\ \/ part = "inventory" /\ Inventory!InventoryNext
          \/ part = "depths" /\ Depths!DepthsNext /\ UNCHANGED From4
          \/ part = "hreflang" /\ Hreflang!HreflangNext /\ UNCHANGED From7
          \/ part = "language" /\ Language!Next /\ UNCHANGED From9
          \/ part = "governance" /\ Governance!GovernanceNext /\ UNCHANGED From10
          \/ part = "compare" /\ Compare!ComparisonNext /\ UNCHANGED From8
          \/ part = "pairs" /\ Pairs!PairsNext /\ UNCHANGED From8
          \/ part = "render" /\ Render!RenderNext /\ GivenInOrder /\ UNCHANGED From12
          \/ part = "sample" /\ (Sample!TakeFromStratum \/ Sample!StartComparing) /\ UNCHANGED From12

ReportsSpec == ReportsInit /\ [][ReportsNext]_<<part, vars, scopeVars, pageVars, storageVars,
    variantVars, snapshotVars, sheetVars, reconciliationVars,
    answerVars, shared>>

--------------------
\* No saved depth is too small, and none is too large when nothing races; the
\* hreflang facts agree with the groups and spare a sound cluster.
SavedFactsAreSound ==
    /\ part = "depths" => Depths!DepthTypes /\ Depths!NeverTooShallow /\ Depths!ShortestWhenCalm
    /\ part = "hreflang" => Hreflang!AgreesWithGroups /\ Hreflang!SoundClusterIsSilent

\* What the three probes record and what is answered from it: Healthy compared
\* every target and read every origin, findings rest on answers, and what the
\* inventory of non-production hosts looks up and requests is declared in the
\* manifest, its counts being of what was done.
ProbesRestOnAnswers ==
    /\ part = "language" => /\ Language!HealthyComparedAll /\ Language!FindingsRestOnAnswers
                            /\ Language!StoredRedirectsAreFound
    /\ part = "governance" => Governance!GovernanceRestsOnAnswers
    /\ part = "inventory" => Inventory!OnlyTheNamedIsRequested

\* What is called equal, kept or equivalent is, whichever side is the baseline; a
\* sample is as large and as evenly spread as it can be.
ComparisonsAreTrue ==
    /\ part = "compare" => /\ Compare!CopyIsClean /\ Compare!VerdictsAgree
                           /\ Compare!IdenticalIsEqual /\ Compare!NoiseIsReported
                           /\ Compare!SessionsAreTrue
    /\ part = "pairs" => Pairs!PassingPairIsKept /\ Pairs!VerdictIsOfTheChain
    /\ part = "render" => Render!EquivalentIsAlike /\ Render!GateHoldsBackChanges
    /\ part = "sample" => Sample!SampleIsRepresentative

=============================================================================
