----------------------------- MODULE CrawlOpen -----------------------------
(*
CrawlEngine.crawl_open of crawler_cli/engine.py: one run of an open
crawl over a durable frontier, through retries, failures of the store,
a requested stop, crashes and resumes.

pc is the await at which the engine's main coroutine stands.  The
crawl() tasks it has started answer at any time in between.  What the
store keeps (status, retryCount, deferred, persisted, runStatus)
survives the end of a session; everything else is lost with it.
*)
EXTENDS Integers, FiniteSets

CONSTANTS Url, MaxRetries,
          Seed,         \* the seed URLs
          Link,         \* the links a page may contain
          Scopes,       \* what should_crawl_url may accept, in some session
          Unfollowed,   \* link shapes skipped although crawlable (AMP variants)
          Limit,        \* max_urls, 0 for unlimited
          Workers,      \* max_concurrency
          BudgetOn,     \* whether the run has a request or byte budget
          MaxSessions   \* bound on the number of sessions of the run

ASSUME CrawlAssumption ==
    /\ IsFiniteSet(Url) /\ Seed \subseteq Url /\ Unfollowed \subseteq Url
    /\ Link \in [Url -> SUBSET Url]
    /\ Scopes \subseteq SUBSET Url
    /\ MaxRetries \in Nat /\ Limit \in Nat /\ MaxSessions \in Nat
    /\ Workers \in Nat \ {0}
    /\ BudgetOn \in BOOLEAN

VARIABLES status, retryCount, deferred,  \* the frontier rows
          persisted,      \* URLs with a stored page
          runStatus,      \* of the crawl_runs row, "none" without one
          pc, scope,      \* of the session
          inFlight,       \* URLs with a running or finished task
          attempt,        \* the retry_count each task was claimed with
          answered,       \* tasks that have finished
          answer,         \* their results
          batch,          \* tasks being flushed
          found,          \* links to enqueue
          rejects,        \* URLs to mark done without a fetch
          finals,         \* URLs whose result is final and stored or skipped
          crawled,        \* session_crawled
          stopRequested, budgetStopped,
          storeErrors,    \* persist or mark-done failures in this session
          sessions,
          skippedOut, ruledOut  \* history: skipped by a task; recorded without
                                \* a task

frontierVars == <<status, retryCount, deferred>>
durableVars == <<status, retryCount, deferred, persisted, runStatus>>
flightVars == <<inFlight, attempt, answered, answer>>
flushVars == <<batch, found, rejects, finals>>
signalVars == <<stopRequested, budgetStopped>>
historyVars == <<skippedOut, ruledOut>>
vars == <<status, retryCount, deferred, persisted, runStatus, pc, scope,
          inFlight, attempt, answered, answer, batch, found, rejects, finals,
          crawled, stopRequested, budgetStopped, storeErrors, sessions,
          skippedOut, ruledOut>>

Store == INSTANCE Frontier

\* A result: whether its status or its timeout is transient, and whether the
\* page was persisted, skipped before persisting, or failed to persist.
Result == [transient : BOOLEAN, saved : {"saved", "skipped", "failed"}]
NoResult == [transient |-> FALSE, saved |-> "skipped"]

PcValues == {"down", "seeding", "enqueueing", "resetting", "loop", "skipping",
             "waiting", "flushing", "ruling", "linking", "marking"}
RunStatuses == {"none", "running", "interrupted", "partial_budget_exhausted",
                "complete_with_errors", "complete", "failed"}

Smaller(a, b) == IF a < b THEN a ELSE b
Larger(a, b) == IF a > b THEN a ELSE b

Init ==
    /\ Store!Init
    /\ persisted = {} /\ runStatus = "none"
    /\ pc = "down" /\ scope = {}
    /\ inFlight = {} /\ answered = {}
    /\ attempt = [u \in Url |-> 0]
    /\ answer = [u \in Url |-> NoResult]
    /\ batch = {} /\ found = {} /\ rejects = {} /\ finals = {}
    /\ crawled = 0 /\ sessions = 0
    /\ stopRequested = FALSE /\ budgetStopped = FALSE /\ storeErrors = FALSE
    /\ skippedOut = {} /\ ruledOut = {}

--------------------
\* _prepare_crawl_run: a new run, or an existing one taken up again, perhaps
\* with another configuration (--allow-run-config-mismatch).
OpenSession(next) ==
    /\ pc = "down"
    /\ sessions < MaxSessions
    /\ sessions' = sessions + 1
    /\ runStatus' = "running"
    /\ scope' \in Scopes
    /\ pc' = next
    /\ UNCHANGED <<frontierVars, persisted, flightVars, flushVars, crawled,
                   signalVars, storeErrors, historyVars>>

StartRun == runStatus = "none" /\ OpenSession("seeding")
ResumeRun == runStatus # "none" /\ OpenSession("resetting")

\* _record_out_of_scope_urls: the URLs become done rows, queued or not.
RuleOut(urls) ==
    /\ Store!FrontierMarkDone(urls)
    /\ ruledOut' = ruledOut \cup urls
    /\ rejects' = {}

RuleOutSeeds ==
    /\ pc = "seeding"
    /\ RuleOut(Seed \ scope)
    /\ pc' = "enqueueing"
    /\ UNCHANGED <<persisted, runStatus, scope, flightVars, batch, found, finals,
                   crawled, signalVars, storeErrors, sessions, skippedOut>>

\* Seeds are queued without regard to max_urls.
EnqueueSeeds ==
    /\ pc = "enqueueing"
    /\ Store!EnqueueFrontier(Seed \cap scope)
    /\ pc' = "loop"
    /\ UNCHANGED <<persisted, runStatus, scope, flightVars, flushVars, crawled,
                   signalVars, storeErrors, sessions, skippedOut, ruledOut>>

ResetPending ==
    /\ pc = "resetting"
    /\ Store!FrontierResetAllPending
    /\ pc' = "loop"
    /\ UNCHANGED <<persisted, runStatus, scope, flightVars, flushVars, crawled,
                   signalVars, storeErrors, sessions, historyVars>>

--------------------
\* The end of a session: what the engine held in memory is gone.
SessionEnds ==
    /\ pc' = "down"
    /\ scope' = {}
    /\ inFlight' = {} /\ answered' = {}
    /\ attempt' = [u \in Url |-> 0]
    /\ answer' = [u \in Url |-> NoResult]
    /\ batch' = {} /\ found' = {} /\ rejects' = {} /\ finals' = {}
    /\ crawled' = 0
    /\ stopRequested' = FALSE /\ budgetStopped' = FALSE /\ storeErrors' = FALSE
    /\ UNCHANGED <<frontierVars, persisted, sessions, historyVars>>

\* Mutant: bookkeeping failures are not looked at.
FinalStatusIgnoresErrors(interrupted) ==
    IF interrupted THEN "interrupted"
    ELSE IF budgetStopped THEN "partial_budget_exhausted" ELSE "complete"

FinalStatus(interrupted) ==
    CASE interrupted -> "interrupted"
      [] ~interrupted /\ budgetStopped -> "partial_budget_exhausted"
      [] ~interrupted /\ ~budgetStopped /\ storeErrors -> "complete_with_errors"
      [] OTHER -> "complete"

FinishRun(interrupted) ==
    /\ runStatus' = FinalStatus(interrupted)
    /\ SessionEnds

\* An exception of the store outside a best-effort call ends the run as
\* failed, if that status can still be written.
FailRun ==
    /\ pc \in {"loop", "skipping", "flushing", "ruling"}
    /\ runStatus' \in {"failed", runStatus}
    /\ SessionEnds

\* The process dies, a second signal quits it, or its set-up raises.
Crash ==
    /\ pc # "down"
    /\ UNCHANGED runStatus
    /\ SessionEnds

\* The first SIGINT or SIGTERM.
RequestStop ==
    /\ pc # "down"
    /\ ~stopRequested
    /\ stopRequested' = TRUE
    /\ UNCHANGED <<durableVars, pc, scope, flightVars, flushVars, crawled,
                   budgetStopped, storeErrors, sessions, historyVars>>

\* A running task meets the run budget.
ExhaustBudget ==
    /\ BudgetOn
    /\ inFlight # {}
    /\ ~budgetStopped
    /\ budgetStopped' = TRUE
    /\ UNCHANGED <<durableVars, pc, scope, flightVars, flushVars, crawled,
                   stopRequested, storeErrors, sessions, historyVars>>

--------------------
\* The head of the main loop once a stop is requested or the budget is gone:
\* running tasks are drained, nothing new is claimed.
Stopping == stopRequested \/ budgetStopped

DrainOrFinish ==
    /\ pc = "loop"
    /\ Stopping
    /\ \/ /\ inFlight = {}
          /\ FinishRun(stopRequested)
       \/ /\ inFlight # {}
          /\ pc' = "waiting"
          /\ UNCHANGED <<durableVars, scope, flightVars, flushVars, crawled,
                         signalVars, storeErrors, sessions, historyVars>>

\* Mutant: tasks in flight are not counted against the limit.
RemainingByResults == Limit - crawled

\* How many more tasks this session may start, of workers in use.
Remaining == Limit - crawled - Cardinality(inFlight)
FillCount(workers) ==
    LET free == Larger(0, workers - Cardinality(inFlight))
    IN  IF Limit = 0 THEN free ELSE Smaller(free, Larger(0, Remaining))

LimitReached == Limit > 0 /\ Remaining <= 0

FinishAtLimit ==
    /\ pc = "loop"
    /\ ~Stopping
    /\ LimitReached
    /\ inFlight = {}
    /\ FinishRun(FALSE)

\* LIMIT n: frontier_next_batch hands out less only when there is no more.
IsBatch(urls, n) ==
    /\ Cardinality(urls) <= n
    /\ Cardinality(urls) < n => urls = Store!Claimable

\* Memory pressure moves the worker limit between 1 and max_concurrency.
ClaimBatch ==
    /\ pc = "loop"
    /\ ~Stopping
    /\ ~(LimitReached /\ inFlight = {})
    /\ \E workers \in 1..Workers, urls \in SUBSET Store!Claimable :
          /\ IsBatch(urls, FillCount(workers))
          /\ Store!FrontierNextBatch(urls)
          /\ inFlight' = inFlight \cup (urls \cap scope)
          /\ attempt' = [u \in Url |-> IF u \in urls \cap scope
                                       THEN retryCount[u] ELSE attempt[u]]
          /\ rejects' = urls \ scope
    /\ pc' = IF rejects' = {} THEN "waiting" ELSE "skipping"
    /\ UNCHANGED <<persisted, runStatus, scope, answered, answer, batch, found,
                   finals, crawled, signalVars, storeErrors, sessions,
                   historyVars>>

\* Claimed URLs that a resumed run's configuration no longer accepts.
RuleOutClaimed ==
    /\ pc = "skipping"
    /\ RuleOut(rejects)
    /\ pc' = "waiting"
    /\ UNCHANGED <<persisted, runStatus, scope, flightVars, batch, found, finals,
                   crawled, signalVars, storeErrors, sessions, skippedOut>>

\* "Nothing queued and nothing running - crawl is complete."
FinishIdle ==
    /\ pc = "waiting"
    /\ inFlight = {}
    /\ FinishRun(FALSE)

--------------------
\* _persist_with_retry: only a result that was saved leaves a page behind.
Persist(u, result) ==
    persisted' = IF result.saved = "saved" THEN persisted \cup {u} ELSE persisted

\* crawl() of one URL: fetched, and persisted before it returns.
Answer(u) ==
    /\ u \in inFlight \ answered
    /\ \E result \in Result :
          /\ answer' = [answer EXCEPT ![u] = result]
          /\ Persist(u, result)
    /\ answered' = answered \cup {u}
    /\ UNCHANGED <<frontierVars, runStatus, pc, scope, inFlight, attempt,
                   flushVars, crawled, signalVars, storeErrors, sessions,
                   historyVars>>

\* asyncio.wait(..., FIRST_COMPLETED) hands over every finished task.
FlushCompleted ==
    /\ pc = "waiting"
    /\ answered # {}
    /\ batch' = answered
    /\ pc' = "flushing"
    /\ UNCHANGED <<durableVars, scope, flightVars, found, rejects, finals,
                   crawled, signalVars, storeErrors, sessions, historyVars>>

\* in_flight.pop(task)
Forget(urls) ==
    /\ inFlight' = inFlight \ urls
    /\ answered' = answered \ urls
    /\ attempt' = [u \in Url |-> IF u \in urls THEN 0 ELSE attempt[u]]
    /\ answer' = [u \in Url |-> IF u \in urls THEN NoResult ELSE answer[u]]

\* Mutant: off by one in the retry limit.
RetryableOnceMore(u) == answer[u].transient /\ attempt[u] <= MaxRetries

Retryable(u) == answer[u].transient /\ attempt[u] < MaxRetries

\* Mutant: the retried row keeps its count.
SameAttempt(u) == attempt[u]

NextAttempt(u) == attempt[u] + 1

Retry(u) ==
    /\ pc = "flushing"
    /\ u \in batch
    /\ Retryable(u)
    /\ Store!FrontierMarkRetry(u, NextAttempt(u))
    /\ batch' = batch \ {u}
    /\ Forget({u})
    /\ UNCHANGED <<persisted, runStatus, pc, scope, found, rejects, finals,
                   crawled, signalVars, storeErrors, sessions, historyVars>>

\* Mutant: a page that failed to persist is finished like any other.
DurablyFinalOfAll(urls) == urls

\* Persist failures stay pending, so that a resume retries the write.
DurablyFinal(urls) == {u \in urls : answer[u].saved # "failed"}

\* The links of a page, and those of them that are only recorded.
LinksOf(urls) == UNION {Link[u] : u \in {v \in urls : answer[v].saved # "skipped"}}
IsRejected(u) == u \in Unfollowed \/ u \notin scope

\* The other results are final: they are counted, and their links sorted.  The
\* code takes the tasks of a batch one by one, in no particular order; the
\* retries, its only awaits, are put first.
CollectFinals ==
    /\ pc = "flushing"
    /\ \A u \in batch : ~Retryable(u)
    /\ \E links \in SUBSET LinksOf(batch) :
          /\ found' = {u \in links : ~IsRejected(u)}
          /\ rejects' = {u \in links : IsRejected(u)}
    /\ finals' = DurablyFinal(batch)
    /\ skippedOut' = skippedOut \cup {u \in batch : answer[u].saved = "skipped"}
    /\ storeErrors' = (storeErrors \/ \E u \in batch : answer[u].saved = "failed")
    /\ crawled' = crawled + Cardinality(batch)
    /\ Forget(batch)
    /\ batch' = {}
    /\ pc' = "ruling"
    /\ UNCHANGED <<durableVars, scope, signalVars, sessions, ruledOut>>

RuleOutLinks ==
    /\ pc = "ruling"
    /\ RuleOut(rejects)
    /\ pc' = "linking"
    /\ UNCHANGED <<persisted, runStatus, scope, flightVars, batch, found, finals,
                   crawled, signalVars, storeErrors, sessions, skippedOut>>

\* Mutant: rows that are being fetched do not count.
FrontierRoomWithoutPending ==
    Larger(0, Limit - Cardinality(Store!Rows("queued") \cup Store!Rows("done")))

\* remaining_frontier_budget: every row of the run counts.
FrontierRoom == Larger(0, Limit - Cardinality(Store!KnownRows))

\* Best effort: a failure of the store loses the links, not the crawl.
EnqueueLinks ==
    /\ pc = "linking"
    /\ \E urls \in SUBSET found :
          /\ urls = found \/ urls = {} \/ Limit > 0
          /\ Limit > 0 => Cardinality(urls) <= FrontierRoom
          /\ Store!EnqueueFrontier(urls)
    /\ found' = {}
    /\ pc' = "marking"
    /\ UNCHANGED <<persisted, runStatus, scope, flightVars, batch, rejects,
                   finals, crawled, signalVars, storeErrors, sessions,
                   historyVars>>

\* frontier_mark_done of the final URLs; a failure leaves them pending.
MarkFinalsDone ==
    /\ pc = "marking"
    /\ \/ /\ Store!FrontierMarkDone(finals)
          /\ UNCHANGED storeErrors
       \/ /\ finals # {}
          /\ storeErrors' = TRUE
          /\ UNCHANGED frontierVars
    /\ finals' = {}
    /\ pc' = "loop"
    /\ UNCHANGED <<persisted, runStatus, scope, flightVars, batch, found,
                   rejects, crawled, signalVars, sessions, skippedOut, ruledOut>>

RetryTimeComes(u) ==
    /\ Store!RetryTimeComes(u)
    /\ UNCHANGED <<persisted, runStatus, pc, scope, flightVars, flushVars,
                   crawled, signalVars, storeErrors, sessions, historyVars>>

--------------------
EngineStep ==
    \/ RuleOutSeeds \/ EnqueueSeeds \/ ResetPending
    \/ DrainOrFinish \/ FinishAtLimit \/ ClaimBatch \/ RuleOutClaimed
    \/ FinishIdle \/ FlushCompleted
    \/ \E u \in Url : Retry(u)
    \/ CollectFinals \/ RuleOutLinks \/ EnqueueLinks \/ MarkFinalsDone

Next ==
    \/ StartRun \/ ResumeRun
    \/ EngineStep
    \/ \E u \in Url : Answer(u) \/ RetryTimeComes(u)
    \/ FailRun \/ Crash \/ RequestStop \/ ExhaustBudget

Spec == Init /\ [][Next]_vars

\* The event loop runs every coroutine that is ready, and a fetch has a
\* timeout: the engine and each task make progress.  Sessions, signals and
\* the passing of retry delays are not assumed.
FairSpec == Spec /\ WF_vars(EngineStep) /\ \A u \in Url : WF_vars(Answer(u))

--------------------
TypeOK ==
    /\ Store!TypeOK
    /\ persisted \subseteq Url /\ runStatus \in RunStatuses
    /\ pc \in PcValues /\ scope \subseteq Url
    /\ inFlight \subseteq Url /\ answered \subseteq inFlight
    /\ attempt \in [Url -> Nat] /\ answer \in [Url -> Result]
    /\ batch \subseteq answered /\ found \subseteq Url
    /\ rejects \subseteq Url /\ finals \subseteq Url
    /\ crawled \in Nat /\ sessions \in Nat
    /\ stopRequested \in BOOLEAN /\ budgetStopped \in BOOLEAN
    /\ storeErrors \in BOOLEAN
    /\ skippedOut \subseteq Url /\ ruledOut \subseteq Url

\* A done row means that the page is stored, that its final result was a skip,
\* or that the URL was ruled out: no persist failure, mark-done failure, crash
\* or resume turns a lost page into a done one (ticket 092).
DoneIsAccountedFor ==
    Store!Rows("done") \subseteq persisted \cup skippedOut \cup ruledOut

\* A URL with a task is not claimable, so two fetches of one URL never run at
\* once, whatever is linked, retried, ruled out or reset in the meantime.
InFlightIsNotQueued == inFlight \cap Store!Rows("queued") = {}

\* Every row tells the truth: done rows are accounted for, queued ones are free.
RowsAreAccountedFor == DoneIsAccountedFor /\ InFlightIsNotQueued

\* A URL that was fetched and marked done is not queued again in this run, in
\* this session or a later one; rows ruled out by another page's link are not
\* so safe, their own running fetch may still be retried.
FinishedStaysDone ==
    [][Store!Rows("done") \ ruledOut \subseteq Store!Rows("done")']_vars

\* A session never has more pages fetched or in flight than max_urls.
WithinLimit == Limit > 0 => crawled + Cardinality(inFlight) <= Limit

\* The frontier holds at most max_urls rows besides the seeds and the URLs
\* recorded without a fetch, over all sessions of the run.
FrontierWithinLimit ==
    Limit > 0 => Cardinality(Store!KnownRows \ ruledOut) <= Larger(Limit, Cardinality(Seed))

\* max_urls holds for a session and, but for seeds, for the frontier.
LimitsHold == WithinLimit /\ FrontierWithinLimit

\* A run that ends "complete" has left no claimed URL behind; README.md:928-936
\* makes the status the signal that nothing needs a resume.
CompleteLeavesNothingPending ==
    pc = "down" /\ runStatus = "complete" => Store!Rows("pending") = {}

\* README.md:923 promises a "resumable bounded open crawl from a seed set": a
\* run reported complete has at least met every seed, in whichever session.
CompleteKnowsTheSeeds ==
    pc = "down" /\ runStatus = "complete" => Seed \subseteq Store!KnownRows

\* "Nothing queued and nothing running - crawl is complete." (engine.py:2358):
\* an unlimited crawl that ends complete leaves nothing queued.
CompleteMeansDrained ==
    pc = "down" /\ runStatus = "complete" /\ Limit = 0 => Store!Rows("queued") = {}

\* Every session comes to an end, through retries, drains and failures.
SessionsEnd == pc # "down" ~> pc = "down"

\* The engine uses the frontier as its contract says.
ImplementsFrontier == Store!Spec

=============================================================================
