----------------------------- MODULE CrawlDepths ----------------------------
(*
The depth that the frontier keeps of each URL (enqueue_frontier,
frontier_next_batch and the link discovery of CrawlEngine.crawl_open),
and what question Q44 of the technical audit makes of it
(crawl_depth_audit.py): a priority page is deep if its depth is.

A link graph, a number of path segments per URL, a number of tasks and
of retries are chosen at the beginning.  All URLs are in scope, and
none is seeded but the homepage: with others Q44 is not answered.
*)
EXTENDS Integers, FiniteSets

CONSTANTS DepthUrl, Home,
          Graphs,    \* link graphs: for each URL the URLs it links to
          CrawlSettings,  \* records of tasks, retries and segments of each URL
          Priority,  \* pages that the site profile names
          MaxDepth   \* Q44's max_depth

Assumption ==
    /\ Home \in DepthUrl /\ IsFiniteSet(DepthUrl)
    /\ \A g \in Graphs : g \in [DepthUrl -> SUBSET DepthUrl]
    /\ \A s \in CrawlSettings : s.tasks \in Nat \ {0} /\ s.retries \in Nat
    /\ Priority \subseteq DepthUrl /\ MaxDepth \in Nat

VARIABLES graph, setting,
          row  \* the frontier's row of each URL

depthVars == <<graph, setting, row>>

NoRow == [status |-> "absent", depth |-> 0, parent |-> Home, retries |-> 0]
QueuedRow(depth, parent) == [NoRow EXCEPT !.status = "queued", !.depth = depth, !.parent = parent]

DepthsInit ==
    /\ graph \in Graphs /\ setting \in CrawlSettings
    /\ row = [u \in DepthUrl |-> IF u = Home THEN QueuedRow(0, Home) ELSE NoRow]

HasStatus(s) == {u \in DepthUrl : row[u].status = s}

PriorityScore(u) == 100 - 5 * row[u].depth - 2 * setting.segments[u]

\* A row that waits for its retry time may be passed over.
IsDue(u) == row[u].retries = 0

FrontierNext(u) ==
    /\ u \in HasStatus("queued") /\ Cardinality(HasStatus("pending")) < setting.tasks
    /\ \A v \in HasStatus("queued") : IsDue(v) => PriorityScore(v) <= PriorityScore(u)
    /\ row' = [row EXCEPT ![u].status = "pending"]
    /\ UNCHANGED <<graph, setting>>

\* Mutant: ON CONFLICT the row is queued again at the new depth.
WithLinksAgain(rows, u) ==
    [v \in DepthUrl |-> IF v \in graph[u] THEN QueuedRow(rows[u].depth + 1, u) ELSE rows[v]]

\* ON CONFLICT DO NOTHING: a row keeps the depth it was found at.
WithLinks(rows, u) ==
    [v \in DepthUrl |-> IF v \in graph[u] /\ rows[v].status = "absent"
                        THEN QueuedRow(rows[u].depth + 1, u) ELSE rows[v]]

\* A page is fetched: its links are queued, one deeper than itself.
PageAnswers(u) ==
    /\ u \in HasStatus("pending")
    /\ row' = WithLinks([row EXCEPT ![u].status = "answered"], u)
    /\ UNCHANGED <<graph, setting>>

\* A page without links to follow: skipped, refused or not HTML.
PageFails(u) ==
    /\ u \in HasStatus("pending")
    /\ row' = [row EXCEPT ![u].status = "failed"]
    /\ UNCHANGED <<graph, setting>>

PageRetries(u) ==
    /\ u \in HasStatus("pending") /\ row[u].retries < setting.retries
    /\ row' = [row EXCEPT ![u].status = "queued", ![u].retries = @ + 1]
    /\ UNCHANGED <<graph, setting>>

\* The process dies and the run is resumed.
RunResumes ==
    /\ HasStatus("pending") # {}
    /\ row' = [u \in DepthUrl |-> IF row[u].status = "pending"
                                  THEN [row[u] EXCEPT !.status = "queued"] ELSE row[u]]
    /\ UNCHANGED <<graph, setting>>

DepthsNext ==
    \/ \E u \in DepthUrl : FrontierNext(u) \/ PageAnswers(u) \/ PageFails(u) \/ PageRetries(u)
    \/ RunResumes

DepthsSpec == DepthsInit /\ [][DepthsNext]_depthVars

--------------------
\* The run is complete: the graph that Q44 is given has all its pages.
RunIsComplete == HasStatus("queued") \cup HasStatus("pending") = {}

\* analyse_priority_crawl_depth: the pages listed, and whether the list counts
\* as evidence of all priority pages.
DeepPages == {u \in Priority : row[u].status # "absent" /\ row[u].depth > MaxDepth}
EveryHubObserved == \A u \in Priority : row[u].status # "absent"
DepthCheckComplete == RunIsComplete /\ Priority # {} /\ EveryHubObserved

\* URLs within n links of the homepage, through pages that answered.
Within[n \in 0..Cardinality(DepthUrl)] ==
    IF n = 0 THEN {Home}
    ELSE LET near == Within[n - 1]
         IN  near \cup UNION {graph[u] : u \in near \cap HasStatus("answered")}

DepthTypes ==
    /\ graph \in Graphs /\ setting \in CrawlSettings
    /\ row \in [DepthUrl -> [status : {"absent", "queued", "pending", "answered", "failed"},
                             depth : 0..Cardinality(DepthUrl), parent : DepthUrl,
                             retries : Nat]]

\* A page is never nearer in the report than on the site, whatever order, retries
\* and resumptions gave its row: an audit without a deep page is right.
NeverTooShallow == \A u \in DepthUrl : row[u].status # "absent" => u \in Within[row[u].depth]

\* One task, no retry and paths of one length: the priority makes the crawl
\* breadth first, and every depth is the shortest.
IsCalm == /\ setting.tasks = 1 /\ setting.retries = 0
          /\ \A u, v \in DepthUrl : setting.segments[u] = setting.segments[v]
ShortestWhenCalm ==
    IsCalm => \A u \in DepthUrl, n \in 0..Cardinality(DepthUrl) :
                  row[u].status # "absent" /\ u \in Within[n] => row[u].depth <= n

--------------------
(*
What the repository says and the code does not keep.
*)
\* "more than the configured depth from the homepage by shortest click path": no
\* page that a complete check lists is within that depth of the homepage.
ListedPagesAreDeep ==
    DepthCheckComplete => DeepPages \cap Within[MaxDepth] = {}

=============================================================================
