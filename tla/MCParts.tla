------------------------------ MODULE MCParts -------------------------------
(*
The parts that share no state with one another, side by side: the
frontier store under any caller, the browser context, the list crawl
with its proxies, the sitemap walk, the collection of current sitemaps,
the overlap of pages, the history of runs, concurrent transactions of
the store, the launcher of the GUI and the robots.txt of a host.
Initially one part of Running is chosen; the others stay as they begin.
*)
EXTENDS Frontier, BrowserContext, ListCrawl, RunHistory, CrawlLauncher, StoreLocks, SiteFiles,
        TLC

CONSTANTS Running, h1, h2, a, b, c, d, w, x, y, z

VARIABLES part,
          site, broken, limit, known, pc, level, queue, fetched, next, found, seenPages,
          frontier,
          corpus, similarity, overlapPhase, groups, left, suppressed, forest, pairs, signs,
          linkage, cluster, risk, advice, summary, exit,
          entry, hostFailed, rulesLock, delayLock, sinceFetch, robotsPhase, robotsDelay, wakeIn

walkVars == <<site, broken, limit, known, pc, level, queue, fetched, next, found,
              seenPages, frontier>>
overlapVars == <<corpus, similarity, overlapPhase, groups, left, suppressed, forest, pairs, signs,
                 linkage, cluster, risk, advice, summary, exit>>
robotsVars == <<entry, hostFailed, rulesLock, delayLock, sinceFetch, robotsPhase, robotsDelay,
                wakeIn>>

--------------------
\* Two URLs of two hosts, each taken back up to twice, through three proxies.
ListHosts == <<h1, h2>>

\* Indexes that share, repeat and contain one another, over lists that overlap.
Walk == INSTANCE SitemapWalk
        WITH Sitemap <- {a, b, c},
             PagesOf <- (a :> <<x, y>> @@ b :> <<y, z, x>> @@ c :> <<z, z>>),
             Sites <- [{a, b, c} -> {<<>>, <<a>>, <<b>>, <<c, b>>, <<c, c>>}],
             Roots <- <<a>>, InScope <- {a, b, c, x, y, z},
             MaxDepth <- 1, MaxUrls <- 2, Limits <- {0, 2}, Knowns <- {{}, {x}},
             MaxWorkers <- 2, pages <- found

\* Two seeds that declare and guess overlapping sitemaps; d is out of scope, and
\* of the URLs x and y, of one stratum, only the values of the query differ.
Seeds == <<h1, h2>>
Origins == [item \in {a, d, x} |-> h1] @@ [item \in {b, c, w, y, z} |-> h2]
DeclaredAt == h1 :> <<a>> @@ h2 :> <<a, b>>
GuessedAt == h1 :> <<a>> @@ h2 :> <<c>>
Admissible == {a, b, c, w, y, z}
IndexTrees == {f \in [{a, b, c, d} -> {<<>>, <<b>>, <<d, c>>}] : f[d] = <<>>}
UrlLists == a :> <<x, y>> @@ b :> <<y>> @@ c :> <<w, z>> @@ d :> <<z>>
OneFails == {r \in [{a, b, c, d} -> Answers] : Cardinality({f \in {a, b, c, d} : r[f] # "read"}) <= 1}
WithoutValues == [u \in {w, x, y, z} |-> IF u = x THEN y ELSE u]
Strata == [u \in {w, x, y, z} |-> IF u = z THEN 2 ELSE 1]

\* Four pages of five sites: thin ones, sections, alternates and languages.
Plain == [mode |-> "suppress", primary |-> "en", langSplit |-> TRUE,
          lang |-> <<"en", "en", "en", "en">>, alternates |-> <<>>, thin |-> {},
          section |-> <<0, 0, 0, 0>>, words |-> <<1, 2, 2, 3>>, depth |-> <<1, 2, 1, 1>>,
          below |-> {<<1, 2>>}]
Sections == [Plain EXCEPT !.section = <<1, 1, 2, 2>>, !.thin = {1, 4}, !.mode = "off",
                          !.alternates = <<<<1, 2>>>>,
                          !.lang = <<"unknown", "unknown", "unknown", "en">>]
Corpora ==
    {Sections,
     [Plain EXCEPT !.thin = {1, 2, 3}, !.section = <<0, 0, 1, 1>>,
                   !.below = {<<1, 2>>, <<1, 4>>}, !.depth = <<1, 2, 1, 2>>],
     [Plain EXCEPT !.alternates = <<<<1, 2>>, <<3, 4>>, <<2, 1>>, <<2, 4>>>>],
     [Plain EXCEPT !.alternates = <<<<2, 1>>>>, !.lang = <<"fr", "unknown", "unknown", "unknown">>,
                   !.below = {<<1, 2>>, <<1, 3>>, <<2, 3>>}, !.depth = <<1, 2, 3, 1>>],
     [Plain EXCEPT !.alternates = <<<<2, 1>>, <<4, 2>>>>, !.mode = "primary-only",
                   !.lang = <<"fr", "unknown", "en", "en">>]}

Overlap == INSTANCE IntentOverlap
           WITH N <- 4, Corpora <- Corpora, level <- similarity, edges <- pairs,
                phase <- overlapPhase

\* Two pages and the engine's loop over four URLs and a link text.  The pages
\* are each other's alternates, in orders that cross, or one redirects to the
\* other.
Page(requested, final, alternates, links) ==
    [kind |-> "page", order |-> <<requested, final>> \o alternates, links |-> links,
     values |-> ValueRow]

PartWrites ==
    {Page(1, 1, <<2, 3>>, {2, 4}), Page(2, 1, <<3, 2>>, {4}), Page(3, 3, <<2>>, {1, 4}),
     [kind |-> "links", order |-> <<>>, links |-> {3, 4}, values |-> {}],
     [kind |-> "marks", order |-> <<2, 1>>, links |-> {}, values |-> {}]}

\* Two pages of a host.
Robots == INSTANCE RobotsPolicy
          WITH Task <- {w, x}, MaxDelay <- 2, failed <- hostFailed, phase <- robotsPhase,
               delay <- robotsDelay

ASSUME InstancesAreSound == Robots!RobotsAssumption

\* Which writer has the first page does not matter.
WithFirstPage ==
    LET first == write[CHOOSE t \in Writer : TRUE] IN first.kind = "page" /\ first.order[1] = 1

--------------------
PartsInit ==
    /\ part \in Running
    /\ Init
    /\ BrowserInit /\ (part # "browser" => mode = "launched")
    /\ HistoryInit /\ (part # "history" => \A u \in PageUrl : edges[u] = {})
    /\ LauncherInit
    /\ part # "launcher" => jobRun = [j \in Job |-> CHOOSE r \in CrawlRun : TRUE]
    /\ LocksInit
    /\ IF part = "locks" THEN WithFirstPage
       ELSE /\ write = [t \in Writer |-> CHOOSE wr \in Writes : wr.kind = "page"]
            /\ \A r \in SharedRow : rowState[r] = "absent"
    /\ ListInit /\ (part # "list" => rotation = "gateway") /\ (rotation = "gateway" => maxFailures = 1)
    /\ Walk!WalkInit
    /\ part # "walk" => /\ limit = 0 /\ known = {} /\ broken = {}
                       /\ site = [sm \in {a, b, c} |-> <<>>]
    /\ IF part = "files" THEN TRUE
       ELSE /\ children = [f \in {a, b, c, d} |-> <<>>] /\ budget = 2
            /\ answer = [f \in {a, b, c, d} |-> "read"] /\ readable = {}
    /\ FilesInit
    /\ IF part = "overlap" THEN TRUE
       ELSE corpus = Sections /\ similarity = [e \in Overlap!Pair |-> 0]
    /\ Overlap!OverlapInit
    /\ Robots!Init

\* What the list crawl and the transactions leave alone.
ButList == <<part, frontierVars, browserVars, walkVars, siteVars, overlapVars, historyVars,
             launcherVars, lockVars, robotsVars>>
ButLocks == <<part, frontierVars, browserVars, allVars, walkVars, siteVars, overlapVars,
              historyVars, launcherVars, robotsVars>>
ButRobots == <<part, frontierVars, browserVars, allVars, walkVars, siteVars, overlapVars,
               historyVars, launcherVars, lockVars>>

FrontierPart ==
    /\ part = "frontier" /\ Next
    /\ UNCHANGED <<part, browserVars, allVars, walkVars, siteVars, overlapVars, historyVars,
                   launcherVars, lockVars, robotsVars>>
BrowserPart ==
    /\ part = "browser" /\ BrowserNext
    /\ UNCHANGED <<part, frontierVars, allVars, walkVars, siteVars, overlapVars, historyVars,
                   launcherVars, lockVars, robotsVars>>
ListPart == part = "list" /\ ListNext /\ UNCHANGED ButList
WalkPart ==
    /\ part = "walk" /\ Walk!WalkNext
    /\ UNCHANGED <<part, frontierVars, browserVars, allVars, siteVars, overlapVars,
                   historyVars, launcherVars, lockVars, robotsVars>>
FilesPart ==
    /\ part = "files" /\ FilesNext
    /\ UNCHANGED <<part, frontierVars, browserVars, allVars, walkVars, overlapVars,
                   historyVars, launcherVars, lockVars, robotsVars>>
OverlapPart ==
    /\ part = "overlap" /\ Overlap!OverlapNext
    /\ UNCHANGED <<part, frontierVars, browserVars, allVars, walkVars, siteVars, historyVars,
                   launcherVars, lockVars, robotsVars>>
HistoryPart ==
    /\ part = "history" /\ HistoryNext
    /\ UNCHANGED <<part, frontierVars, browserVars, allVars, walkVars, siteVars, overlapVars,
                   launcherVars, lockVars, robotsVars>>
LauncherPart ==
    /\ part = "launcher" /\ LauncherNext
    /\ UNCHANGED <<part, frontierVars, browserVars, allVars, walkVars, siteVars, overlapVars,
                   historyVars, lockVars, robotsVars>>
LocksPart == part = "locks" /\ LocksNext /\ UNCHANGED ButLocks
RobotsPart == part = "robots" /\ Robots!Next /\ UNCHANGED ButRobots

PartsNext ==
    FrontierPart \/ BrowserPart \/ ListPart \/ WalkPart \/ FilesPart \/ OverlapPart
    \/ HistoryPart \/ LauncherPart \/ LocksPart \/ RobotsPart

partsVars == <<part, frontierVars, browserVars, allVars, walkVars, siteVars, overlapVars,
               historyVars, launcherVars, lockVars, robotsVars>>

\* ListFairness, LocksFairness and the Fairness of RobotsPolicy, each where its part runs.
PartsSpec ==
    /\ PartsInit /\ [][PartsNext]_partsVars
    /\ WF_allVars(part = "list" /\ LoopStep)
    /\ \A i \in {1, 2} : WF_allVars(part = "list" /\ CrawlStep(i))
    /\ \A t \in Writer : /\ WF_lockVars(part = "locks" /\ WriteStep(t))
                         /\ WF_lockVars(part = "locks" /\ Deadlock(t))
    /\ WF_robotsVars(part = "robots" /\ Robots!Tick)
    /\ \A t \in {w, x} : SF_robotsVars(part = "robots" /\ Robots!Step(t))

--------------------
\* Whatever is begun comes to its end: a list crawl; the writes of the store,
\* stored or failed after their attempts; the checks of a page that asks for the
\* robots.txt of its host, again and again, which gets its answer and its permit
\* (w stands for both pages).
Busy ==
    \/ part = "list" /\ loop # "ended"
    \/ part = "locks" /\ \E t \in Writer : stage[t] \notin {"stored", "failed"}
    \/ part = "robots" /\ robotsPhase[w] # "idle"

PartsEnd == []<>~Busy

\* The sitemap walk finds the pages of the sitemaps within its depth and no
\* other, keeps to the frontier's limit and uses it up; the sample of the current
\* sitemaps is spread over the strata; clusters, risks and advice on alike pages
\* are those of the reported pairs.
SiteReportsAreTrue ==
    Walk!WalkIsExact /\ SamplesAreSpread /\ Overlap!ReportFollowsThePairs

\* Permits of a host keep their distance, and its robots.txt is not requested in
\* vain.
PermitsAreSpaced == Robots!PermitsAreSpaced
RobotsAreAskedOnce == Robots!RobotsAreAskedOnce

=============================================================================
