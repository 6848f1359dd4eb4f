-------------------------- MODULE CrawlOpenProofs --------------------------
(*
Proofs about an open crawl, for every site, scope, limit, number of
workers and number of sessions.

The properties are not inductive: that a done row is accounted for
rests on what the running tasks have answered and on which of them are
final, that a finished page stays done on the rows of the URLs in
flight.  OpenInv adds those facts.  BooksInv adds, for the limits and
the status of a run, which rows there can be in a first session and who
holds a pending row.
*)
EXTENDS CrawlOpen, FiniteSetTheorems, TLAPS

\* A URL in flight has a pending row, or one that a link to it ruled out.
FlightRows ==
    \A u \in inFlight : status[u] = "pending" \/ (status[u] = "done" /\ u \in ruledOut)

\* The page of a task that answered "saved" is stored.
AnswersAreStored == \A u \in answered : answer[u].saved = "saved" => u \in persisted

\* What is to be marked done is stored or skipped, and no longer in flight.
FinalsAreSettled ==
    /\ finals \subseteq persisted \cup skippedOut
    /\ finals \cap inFlight = {}
    /\ finals # {} => pc \in {"ruling", "linking", "marking"}

\* Nothing is in flight outside the main loop.
SetUp == {"down", "seeding", "enqueueing", "resetting"}
IdleOutsideTheLoop == pc \in SetUp => inFlight = {}

OpenInv ==
    /\ TypeOK
    /\ FlightRows
    /\ AnswersAreStored
    /\ FinalsAreSettled
    /\ IdleOutsideTheLoop
    /\ DoneIsAccountedFor

USE DEF Result, NoResult

--------------------
\* An empty frontier and no session satisfy the invariant.
LEMMA InitOpen == Init => OpenInv
<1> SUFFICES ASSUME Init PROVE OpenInv
  OBVIOUS
<1> USE DEF Init, Store!Init
<1>1. TypeOK
  BY CrawlAssumption DEF TypeOK, PcValues, RunStatuses, Store!TypeOK, Store!Status
<1>2. FlightRows /\ AnswersAreStored /\ FinalsAreSettled /\ IdleOutsideTheLoop
  BY DEF FlightRows, AnswersAreStored, FinalsAreSettled, IdleOutsideTheLoop
<1>3. DoneIsAccountedFor
  BY DEF DoneIsAccountedFor, Store!Rows
<1>4. QED
  BY <1>1, <1>2, <1>3 DEF OpenInv

\* Whatever ends a session, the store keeps its rows and pages.
LEMMA EndKeeps ==
    ASSUME OpenInv, SessionEnds, runStatus' \in RunStatuses
    PROVE  OpenInv'
BY DEF OpenInv, TypeOK, FlightRows, AnswersAreStored, FinalsAreSettled,
       IdleOutsideTheLoop, SetUp, DoneIsAccountedFor, PcValues, SessionEnds,
       frontierVars, historyVars, Store!TypeOK, Store!Rows, Store!Status

--------------------
\* The set-up of a session: nothing is in flight, so a reset or a ruling out
\* concerns no running task.
LEMMA SetUpKeeps ==
    ASSUME OpenInv, StartRun \/ ResumeRun \/ RuleOutSeeds \/ EnqueueSeeds \/ ResetPending
    PROVE  OpenInv'
<1> USE CrawlAssumption
    DEF OpenInv, TypeOK, FlightRows, AnswersAreStored, FinalsAreSettled,
        IdleOutsideTheLoop, SetUp, DoneIsAccountedFor, PcValues, RunStatuses,
        Store!TypeOK, Store!Rows, Store!Status, frontierVars, flightVars,
        flushVars, signalVars, historyVars
<1>1. CASE StartRun \/ ResumeRun
  BY <1>1 DEF StartRun, ResumeRun, OpenSession
<1>2. CASE RuleOutSeeds
  BY <1>2 DEF RuleOutSeeds, RuleOut, Store!FrontierMarkDone
<1>3. CASE EnqueueSeeds
  BY <1>3 DEF EnqueueSeeds, Store!EnqueueFrontier
<1>4. CASE ResetPending
  BY <1>4 DEF ResetPending, Store!FrontierResetAllPending
<1>5. QED
  BY <1>1, <1>2, <1>3, <1>4

\* Signals, the clock and the answers of tasks, which come at any time.
LEMMA SurroundingsKeep ==
    ASSUME OpenInv,
           \/ RequestStop \/ ExhaustBudget
           \/ \E u \in Url : Answer(u) \/ RetryTimeComes(u)
    PROVE  OpenInv'
<1> USE DEF OpenInv, TypeOK, FlightRows, AnswersAreStored, FinalsAreSettled,
        IdleOutsideTheLoop, SetUp, DoneIsAccountedFor, PcValues, RunStatuses,
        Store!TypeOK, Store!Rows, Store!Status, frontierVars, durableVars,
        flightVars, flushVars, signalVars, historyVars
<1>1. CASE RequestStop \/ ExhaustBudget
  <2>1. CASE RequestStop
    BY <2>1 DEF RequestStop
  <2>2. CASE ExhaustBudget
    BY <2>2 DEF ExhaustBudget
  <2> QED
    BY <1>1, <2>1, <2>2
<1>2. ASSUME NEW u \in Url, Answer(u) PROVE OpenInv'
  BY <1>2 DEF Answer, Persist
<1>3. ASSUME NEW u \in Url, RetryTimeComes(u) PROVE OpenInv'
  BY <1>3 DEF RetryTimeComes, Store!RetryTimeComes
<1>4. QED
  BY <1>1, <1>2, <1>3

\* The head of the main loop: a claimed row was queued, so it had no task.
LEMMA LoopKeeps ==
    ASSUME OpenInv,
           \/ DrainOrFinish \/ FinishAtLimit \/ ClaimBatch \/ RuleOutClaimed
           \/ FinishIdle \/ FlushCompleted
    PROVE  OpenInv'
<1>1. ASSUME NEW interrupted \in BOOLEAN, FinishRun(interrupted) PROVE OpenInv'
  BY <1>1, EndKeeps DEF FinishRun, FinalStatus, RunStatuses
<1> USE DEF OpenInv, TypeOK, FlightRows, AnswersAreStored, FinalsAreSettled,
        IdleOutsideTheLoop, SetUp, DoneIsAccountedFor, PcValues, RunStatuses,
        Store!TypeOK, Store!Rows, Store!Status, frontierVars, durableVars,
        flightVars, flushVars, signalVars, historyVars
<1>2. CASE DrainOrFinish
  BY <1>1, <1>2 DEF DrainOrFinish
<1>3. CASE FinishAtLimit \/ FinishIdle
  BY <1>1, <1>3 DEF FinishAtLimit, FinishIdle
<1>4. CASE ClaimBatch
  BY <1>4 DEF ClaimBatch, Store!FrontierNextBatch, Store!Claimable
<1>5. CASE RuleOutClaimed
  BY <1>5 DEF RuleOutClaimed, RuleOut, Store!FrontierMarkDone
<1>6. CASE FlushCompleted
  BY <1>6 DEF FlushCompleted
<1>7. QED
  BY <1>2, <1>3, <1>4, <1>5, <1>6

\* The flush: what was answered is retried or settled.
LEMMA FlushKeeps ==
    ASSUME OpenInv,
           \/ \E u \in Url : Retry(u)
           \/ CollectFinals \/ RuleOutLinks \/ EnqueueLinks \/ MarkFinalsDone
    PROVE  OpenInv'
<1> USE CrawlAssumption
    DEF OpenInv, TypeOK, FlightRows, AnswersAreStored, FinalsAreSettled,
        IdleOutsideTheLoop, SetUp, DoneIsAccountedFor, PcValues, RunStatuses,
        Store!TypeOK, Store!Rows, Store!Status, frontierVars, durableVars,
        flightVars, flushVars, signalVars, historyVars
<1>1. ASSUME NEW u \in Url, Retry(u) PROVE OpenInv'
  BY <1>1 DEF Retry, Forget, NextAttempt, Retryable, Store!FrontierMarkRetry
<1>2. CASE CollectFinals
  <2>1. crawled + Cardinality(batch) \in Nat
    BY FS_Subset, FS_CardinalityType
  <2>2. LinksOf(batch) \subseteq Url
    BY DEF LinksOf
  <2>3. TypeOK'
    BY <1>2, <2>1, <2>2 DEF CollectFinals, Forget, DurablyFinal
  <2>4. FlightRows' /\ AnswersAreStored' /\ IdleOutsideTheLoop'
    BY <1>2 DEF CollectFinals, Forget
  <2>5. FinalsAreSettled' /\ DoneIsAccountedFor'
    BY <1>2 DEF CollectFinals, Forget, DurablyFinal
  <2>6. QED
    BY <2>3, <2>4, <2>5
<1>3. CASE RuleOutLinks
  BY <1>3 DEF RuleOutLinks, RuleOut, Store!FrontierMarkDone
<1>4. CASE EnqueueLinks
  BY <1>4 DEF EnqueueLinks, Store!EnqueueFrontier
<1>5. CASE MarkFinalsDone
  <2>1. storeErrors' \in BOOLEAN /\ Store!TypeOK'
    <3>1. CASE Store!FrontierMarkDone(finals) /\ UNCHANGED storeErrors
      BY <3>1 DEF Store!FrontierMarkDone
    <3>2. CASE storeErrors' = TRUE /\ UNCHANGED frontierVars
      BY <3>2
    <3>3. QED
      BY <1>5, <3>1, <3>2 DEF MarkFinalsDone
  <2>2. TypeOK'
    BY <1>5, <2>1 DEF MarkFinalsDone
  <2>3. FlightRows'
    BY <1>5 DEF MarkFinalsDone, Store!FrontierMarkDone
  <2>4. AnswersAreStored' /\ FinalsAreSettled' /\ IdleOutsideTheLoop'
    BY <1>5 DEF MarkFinalsDone
  <2>5. DoneIsAccountedFor'
    BY <1>5 DEF MarkFinalsDone, Store!FrontierMarkDone
  <2>6. QED
    BY <2>2, <2>3, <2>4, <2>5
<1>6. QED
  BY <1>1, <1>2, <1>3, <1>4, <1>5

--------------------
\* Every step of the crawl keeps the invariant.
LEMMA StepKeepsOpen == OpenInv /\ [Next]_vars => OpenInv'
<1> SUFFICES ASSUME OpenInv, [Next]_vars PROVE OpenInv'
  OBVIOUS
<1>1. CASE StartRun \/ ResumeRun
  BY <1>1, SetUpKeeps
<1>2. CASE EngineStep
  BY <1>2, SetUpKeeps, LoopKeeps, FlushKeeps DEF EngineStep
<1>3. ASSUME NEW u \in Url, Answer(u) \/ RetryTimeComes(u) PROVE OpenInv'
  BY <1>3, SurroundingsKeep
<1>4. CASE FailRun \/ Crash
  BY <1>4, EndKeeps DEF FailRun, Crash, OpenInv, TypeOK, RunStatuses
<1>5. CASE RequestStop \/ ExhaustBudget
  BY <1>5, SurroundingsKeep
<1>6. CASE UNCHANGED vars
  BY <1>6 DEF vars, OpenInv, TypeOK, FlightRows, AnswersAreStored, FinalsAreSettled,
       IdleOutsideTheLoop, SetUp, DoneIsAccountedFor, Store!TypeOK, Store!Rows
<1>7. QED
  BY <1>1, <1>2, <1>3, <1>4, <1>5, <1>6 DEF Next

THEOREM OpenInvariant == Spec => []OpenInv
BY InitOpen, StepKeepsOpen, PTL DEF Spec

\* Type correctness.
THEOREM OpenTypes == Spec => []TypeOK
<1>1. OpenInv => TypeOK
  BY DEF OpenInv
<1>2. QED
  BY OpenInvariant, <1>1, PTL

\* A done row stands for a stored page, a skip or a URL that was ruled out,
\* through every crash, resume and failure of the store.
THEOREM NothingIsLostAsDone == Spec => []DoneIsAccountedFor
<1>1. OpenInv => DoneIsAccountedFor
  BY DEF OpenInv
<1>2. QED
  BY OpenInvariant, <1>1, PTL

\* No URL is claimable while it has a task.
THEOREM OneFetchPerUrl == Spec => []InFlightIsNotQueued
<1>1. OpenInv => InFlightIsNotQueued
  BY DEF OpenInv, FlightRows, InFlightIsNotQueued, Store!Rows
<1>2. QED
  BY OpenInvariant, <1>1, PTL

\* A done row is accounted for and a queued one is free, in every open crawl.
THEOREM RowsTellTheTruth == Spec => []RowsAreAccountedFor
BY NothingIsLostAsDone, OneFetchPerUrl,
   PTL DEF RowsAreAccountedFor

--------------------
\* What a step of the crawl asks of the store.
LEMMA RowsOfAStep ==
    ASSUME OpenInv, [Next]_vars
    PROVE  \/ \E urls \in SUBSET Url : \/ Store!EnqueueFrontier(urls)
                                       \/ Store!FrontierNextBatch(urls)
                                       \/ Store!FrontierMarkDone(urls)
           \/ \E u \in Url : Retry(u) \/ Store!RetryTimeComes(u)
           \/ Store!FrontierResetAllPending
           \/ UNCHANGED frontierVars
<1> USE CrawlAssumption DEF OpenInv, TypeOK
<1>1. CASE RuleOutSeeds \/ RuleOutClaimed \/ RuleOutLinks
  BY <1>1 DEF RuleOutSeeds, RuleOutClaimed, RuleOutLinks, RuleOut
<1>2. CASE EnqueueSeeds \/ EnqueueLinks
  BY <1>2 DEF EnqueueSeeds, EnqueueLinks
<1>3. CASE ClaimBatch
  BY <1>3 DEF ClaimBatch, Store!Claimable, Store!Rows
<1>4. CASE ResetPending \/ MarkFinalsDone
  BY <1>4 DEF ResetPending, MarkFinalsDone
<1>5. ASSUME NEW u \in Url, Answer(u) PROVE UNCHANGED frontierVars
  BY <1>5 DEF Answer, Persist
<1>6. ASSUME NEW u \in Url, RetryTimeComes(u) PROVE Store!RetryTimeComes(u)
  BY <1>6 DEF RetryTimeComes
<1>7. CASE DrainOrFinish \/ FinishAtLimit \/ FinishIdle \/ FailRun \/ Crash
  BY <1>7 DEF DrainOrFinish, FinishAtLimit, FinishIdle, FailRun, Crash, FinishRun,
              SessionEnds, durableVars, frontierVars
<1>8. CASE StartRun \/ ResumeRun \/ FlushCompleted \/ CollectFinals
           \/ RequestStop \/ ExhaustBudget \/ UNCHANGED vars
  BY <1>8 DEF StartRun, ResumeRun, OpenSession, FlushCompleted, CollectFinals,
              RequestStop, ExhaustBudget, durableVars, frontierVars, vars
<1>9. QED
  BY <1>1, <1>2, <1>3, <1>4, <1>5, <1>6, <1>7, <1>8 DEF Next, EngineStep

\* Each of these requests is one the store's contract allows: a retry is asked
\* only for a row that exists, with a count within the limit.
LEMMA StepUsesStore == OpenInv /\ [Next]_vars => [Store!Next]_(Store!frontierVars)
<1> SUFFICES ASSUME OpenInv, [Next]_vars
             PROVE  Store!Next \/ UNCHANGED frontierVars
  BY DEF frontierVars, Store!frontierVars
<1>1. ASSUME NEW u \in Url, Retry(u) PROVE Store!Next
  <2>1. u \in Store!KnownRows
    BY <1>1 DEF OpenInv, TypeOK, Retry, FlightRows, Store!KnownRows, Store!Rows
  <2>2. NextAttempt(u) \in 1..MaxRetries
    BY <1>1, CrawlAssumption DEF OpenInv, TypeOK, Retry, Retryable, NextAttempt
  <2>3. Store!FrontierMarkRetry(u, NextAttempt(u))
    BY <1>1 DEF Retry
  <2>4. QED
    BY <2>1, <2>2, <2>3 DEF Store!Next
<1>2. QED
  BY <1>1, RowsOfAStep DEF Store!Next

\* An open crawl uses the frontier as its contract says, so whatever holds of
\* the frontier under that contract holds of it in every crawl.
THEOREM UsesTheFrontier == Spec => ImplementsFrontier
<1>1. Init => Store!Init
  BY DEF Init
<1>2. QED
  BY OpenInvariant, StepUsesStore, <1>1, PTL
     DEF Spec, ImplementsFrontier, Store!Spec

\* A page that was fetched and marked done is never queued again.
THEOREM NoSecondFetch == Spec => FinishedStaysDone
<1>1. OpenInv /\ [Next]_vars
        => [Store!Rows("done") \ ruledOut \subseteq Store!Rows("done")']_vars
  <2> SUFFICES ASSUME OpenInv, Next, NEW u \in Url, status[u] = "done", u \notin ruledOut
               PROVE  status'[u] = "done"
    BY DEF Store!Rows
  <2> USE DEF OpenInv, TypeOK, Store!TypeOK, Store!Status
  <2>1. CASE \E urls \in SUBSET Url :
               \/ Store!EnqueueFrontier(urls)
               \/ Store!FrontierNextBatch(urls)
               \/ Store!FrontierMarkDone(urls)
    BY <2>1 DEF Store!EnqueueFrontier, Store!FrontierNextBatch,
                Store!FrontierMarkDone, Store!Claimable, Store!Rows
  <2>2. ASSUME NEW v \in Url, Retry(v) PROVE status'[u] = "done"
    BY <2>2 DEF Retry, FlightRows, Store!FrontierMarkRetry
  <2>3. CASE Store!FrontierResetAllPending \/ UNCHANGED status
    BY <2>3 DEF Store!FrontierResetAllPending
  <2>4. QED
    BY <2>1, <2>2, <2>3, RowsOfAStep DEF Store!RetryTimeComes, frontierVars
<1>2. QED
  BY OpenInvariant, <1>1, PTL DEF Spec, FinishedStaysDone

--------------------
\* The pages a session has fetched and those it is fetching stay within
\* max_urls: only a claim adds to them, and it counts both.
LEMMA StepKeepsLimit == OpenInv /\ WithinLimit /\ [Next]_vars => WithinLimit'
<1> SUFFICES ASSUME OpenInv, WithinLimit, [Next]_vars, Limit > 0
             PROVE  crawled' + Cardinality(inFlight') <= Limit
  BY DEF WithinLimit
<1> USE CrawlAssumption DEF WithinLimit
<1>1. /\ IsFiniteSet(inFlight) /\ Cardinality(inFlight) \in Nat
      /\ crawled \in Nat /\ crawled + Cardinality(inFlight) <= Limit
  BY FS_Subset, FS_CardinalityType DEF OpenInv, TypeOK
<1>2. ASSUME SessionEnds PROVE crawled' + Cardinality(inFlight') <= Limit
  BY <1>2, FS_EmptySet DEF SessionEnds
<1>3. ASSUME NEW u \in Url, Retry(u) PROVE crawled' + Cardinality(inFlight') <= Limit
  BY <1>1, <1>3, FS_Subset, FS_CardinalityType DEF Retry, Forget
<1>4. CASE CollectFinals
  <2>1. /\ batch \subseteq inFlight
        /\ crawled' = crawled + Cardinality(batch) /\ inFlight' = inFlight \ batch
    BY <1>4 DEF OpenInv, TypeOK, CollectFinals, Forget
  <2>2. Cardinality(batch) \in Nat
    BY <1>1, <2>1, FS_Subset, FS_CardinalityType
  <2>3. Cardinality(inFlight \ batch) = Cardinality(inFlight) - Cardinality(inFlight \cap batch)
    BY <1>1, FS_Difference
  <2>4. inFlight \cap batch = batch
    BY <2>1
  <2>5. Cardinality(inFlight') = Cardinality(inFlight) - Cardinality(batch)
    BY <2>1, <2>3, <2>4
  <2>6. crawled' = crawled + Cardinality(batch)
    BY <2>1
  <2>7. QED
    BY <1>1, <2>2, <2>5, <2>6
<1>5. CASE ClaimBatch
  <2>1. PICK workers \in 1..Workers, urls \in SUBSET Store!Claimable :
           /\ Cardinality(urls) <= FillCount(workers)
           /\ inFlight' = inFlight \cup (urls \cap scope)
    BY <1>5 DEF ClaimBatch, IsBatch
  <2>2. crawled' = crawled /\ (LimitReached => inFlight # {})
    BY <1>5 DEF ClaimBatch
  <2>3. FillCount(workers) <= Larger(0, Limit - crawled - Cardinality(inFlight))
    BY <1>1, <2>1 DEF FillCount, Remaining, Smaller, Larger
  <2>4. IsFiniteSet(urls) /\ Cardinality(urls) \in Nat
    BY <2>1, FS_Subset, FS_CardinalityType DEF Store!Claimable, Store!Rows
  <2>5. /\ IsFiniteSet(urls \cap scope) /\ Cardinality(urls \cap scope) \in Nat
        /\ Cardinality(urls \cap scope) <= Cardinality(urls)
    BY <2>4, FS_Subset, FS_CardinalityType
  <2>6. Cardinality(inFlight \cup (urls \cap scope))
          = Cardinality(inFlight) + Cardinality(urls \cap scope)
              - Cardinality(inFlight \cap (urls \cap scope))
    BY <1>1, <2>5, FS_Union
  <2>7. Cardinality(inFlight \cap (urls \cap scope)) \in Nat
    BY <1>1, FS_Subset, FS_CardinalityType
  <2>8. Cardinality(inFlight') <= Cardinality(inFlight) + Cardinality(urls \cap scope)
    BY <1>1, <2>1, <2>5, <2>6, <2>7
  <2>9. /\ Cardinality(inFlight') \in Nat
        /\ Cardinality(urls \cap scope) <= Larger(0, Limit - crawled - Cardinality(inFlight))
    <3>1. IsFiniteSet(inFlight')
      BY <1>1, <2>1, <2>5, FS_Union
    <3>2. Cardinality(urls) <= Larger(0, Limit - crawled - Cardinality(inFlight))
      BY <1>1, <2>1, <2>3, <2>4 DEF FillCount, Remaining, Smaller, Larger
    <3>3. Larger(0, Limit - crawled - Cardinality(inFlight)) \in Int
      BY <1>1 DEF Larger
    <3>4. QED
      BY <2>4, <2>5, <3>1, <3>2, <3>3, FS_CardinalityType
  <2>10. QED
    BY <1>1, <2>2, <2>5, <2>8, <2>9 DEF Larger
<1>6. CASE UNCHANGED <<crawled, inFlight>>
  BY <1>1, <1>6
<1>7. CASE DrainOrFinish \/ FinishAtLimit \/ FinishIdle \/ FailRun \/ Crash
  BY <1>2, <1>6, <1>7 DEF DrainOrFinish, FinishAtLimit, FinishIdle, FailRun, Crash,
                          FinishRun, flightVars
<1>8. CASE RuleOutSeeds \/ EnqueueSeeds \/ ResetPending \/ RuleOutClaimed
           \/ FlushCompleted \/ RuleOutLinks \/ EnqueueLinks \/ MarkFinalsDone
  BY <1>6, <1>8 DEF RuleOutSeeds, EnqueueSeeds, ResetPending, RuleOutClaimed,
                    FlushCompleted, RuleOutLinks, EnqueueLinks, MarkFinalsDone, flightVars
<1>9. CASE StartRun \/ ResumeRun \/ RequestStop \/ ExhaustBudget \/ UNCHANGED vars
  BY <1>6, <1>9 DEF StartRun, ResumeRun, OpenSession, RequestStop, ExhaustBudget,
                    flightVars, vars
<1>10. ASSUME NEW u \in Url, Answer(u) \/ RetryTimeComes(u)
       PROVE  crawled' + Cardinality(inFlight') <= Limit
  BY <1>6, <1>10 DEF Answer, RetryTimeComes, flightVars
<1>11. QED
  BY <1>3, <1>4, <1>5, <1>7, <1>8, <1>9, <1>10 DEF Next, EngineStep

--------------------
\* Only a first session queues seeds, and it finds no rows but ruled out ones.
FirstSessionIsFresh ==
    /\ runStatus = "none" => pc = "down" /\ Store!KnownRows = {}
    /\ pc = "seeding" => Store!KnownRows = {}
    /\ pc = "enqueueing" => Store!KnownRows \subseteq ruledOut

\* A session's run is "running" until the session ends.
SessionIsRecorded == pc # "down" => runStatus = "running"

\* Without an error of the store, a pending row is of a running task, or about
\* to be marked done.
Held == inFlight \cup finals \cup (IF pc = "skipping" THEN rejects ELSE {})
PendingIsHeld ==
    pc \notin {"down", "resetting"} /\ ~storeErrors => Store!Rows("pending") \subseteq Held

BooksInv ==
    /\ FirstSessionIsFresh /\ SessionIsRecorded /\ PendingIsHeld
    /\ finals \subseteq Store!KnownRows
    /\ FrontierWithinLimit
    /\ CompleteLeavesNothingPending

LEMMA InitBooks == Init => BooksInv
<1> SUFFICES ASSUME Init PROVE BooksInv
  OBVIOUS
<1>1. Store!KnownRows = {} /\ Store!Rows("pending") = {}
  BY DEF Init, Store!Init, Store!KnownRows, Store!Rows
<1>2. FrontierWithinLimit
  BY <1>1, FS_EmptySet, CrawlAssumption, FS_Subset, FS_CardinalityType DEF FrontierWithinLimit,
     Larger
<1>3. QED
  BY <1>1, <1>2 DEF Init, BooksInv, FirstSessionIsFresh, SessionIsRecorded,
     PendingIsHeld, CompleteLeavesNothingPending

\* What the end of a session leaves in the books: complete is written only
\* with no error of the store and nothing held.
LEMMA EndKeepsBooks ==
    ASSUME OpenInv, BooksInv, SessionEnds, pc # "down",
           runStatus' # "none", runStatus' = "complete" => Store!Rows("pending") = {}
    PROVE  BooksInv'
<1>1. UNCHANGED <<frontierVars, ruledOut>> /\ pc' = "down" /\ finals' = {}
  BY DEF SessionEnds, historyVars
<1>2. FrontierWithinLimit'
  BY <1>1 DEF BooksInv, FrontierWithinLimit, Store!KnownRows, Store!Rows, frontierVars
<1>3. CompleteLeavesNothingPending'
  BY <1>1 DEF CompleteLeavesNothingPending, Store!Rows, frontierVars
<1>4. QED
  BY <1>1, <1>2, <1>3 DEF BooksInv, FirstSessionIsFresh, SessionIsRecorded, PendingIsHeld

LEMMA FinishKeepsBooks ==
    ASSUME OpenInv, BooksInv, pc \in {"loop", "waiting"}, inFlight = {},
           NEW interrupted \in BOOLEAN, FinishRun(interrupted)
    PROVE  BooksInv'
BY EndKeepsBooks DEF FinishRun, FinalStatus, OpenInv, TypeOK, BooksInv, PendingIsHeld, Held,
   FinalsAreSettled

\* Steps that leave the rows alone.
LEMMA SameRowsKeepBooks ==
    ASSUME OpenInv, BooksInv, UNCHANGED <<status, runStatus, rejects, ruledOut, finals>>,
           UNCHANGED <<inFlight, pc>> \/ (pc = "waiting" /\ pc' = "flushing" /\ UNCHANGED inFlight)
             \/ (pc = "loop" /\ pc' = "waiting" /\ UNCHANGED inFlight),
           UNCHANGED storeErrors
    PROVE  BooksInv'
BY DEF BooksInv, FirstSessionIsFresh, SessionIsRecorded, PendingIsHeld, Held,
       FrontierWithinLimit, CompleteLeavesNothingPending, Store!KnownRows, Store!Rows

\* The opening of a session.
LEMMA OpeningKeepsBooks ==
    ASSUME OpenInv, BooksInv, StartRun \/ ResumeRun
    PROVE  BooksInv'
<1>1. /\ UNCHANGED <<status, ruledOut, finals, inFlight>>
      /\ runStatus' = "running" /\ pc' \in {"seeding", "resetting"}
      /\ pc' = "seeding" => runStatus = "none"
  BY DEF StartRun, ResumeRun, OpenSession, frontierVars, flightVars, flushVars, historyVars
<1>2. Store!KnownRows' = Store!KnownRows /\ Store!Rows("pending")' = Store!Rows("pending")
  BY <1>1 DEF Store!KnownRows, Store!Rows
<1>3. FrontierWithinLimit'
  BY <1>1, <1>2 DEF BooksInv, FrontierWithinLimit
<1>4. PendingIsHeld'
  BY <1>1, <1>2 DEF BooksInv, FirstSessionIsFresh, Store!KnownRows, Store!Rows, PendingIsHeld
<1>5. QED
  BY <1>1, <1>2, <1>3, <1>4 DEF BooksInv, FirstSessionIsFresh, SessionIsRecorded,
     CompleteLeavesNothingPending

\* URLs that are ruled out get a row, but none that counts.
LEMMA RulingKeepsBooks ==
    ASSUME OpenInv, BooksInv, RuleOutSeeds \/ RuleOutClaimed \/ RuleOutLinks
    PROVE  BooksInv'
<1> USE CrawlAssumption DEF OpenInv, TypeOK, FinalsAreSettled
<1>1. PICK urls \in SUBSET Url :
        /\ Store!FrontierMarkDone(urls) /\ ruledOut' = ruledOut \cup urls
        /\ pc = "seeding" \/ urls = rejects
  BY DEF RuleOutSeeds, RuleOutClaimed, RuleOutLinks, RuleOut
<1>2. /\ Store!KnownRows' = Store!KnownRows \cup urls
      /\ Store!Rows("pending")' = Store!Rows("pending") \ urls
  BY <1>1 DEF Store!FrontierMarkDone, Store!KnownRows, Store!Rows, Store!TypeOK
<1>3. Store!KnownRows' \ ruledOut' \subseteq Store!KnownRows \ ruledOut
  BY <1>1, <1>2
<1>4. FrontierWithinLimit'
  <2>1. IsFiniteSet(Store!KnownRows \ ruledOut)
    BY FS_Subset DEF Store!KnownRows
  <2>2. /\ Cardinality(Store!KnownRows' \ ruledOut') <= Cardinality(Store!KnownRows \ ruledOut)
        /\ Cardinality(Store!KnownRows' \ ruledOut') \in Nat
        /\ Cardinality(Store!KnownRows \ ruledOut) \in Nat
    BY <1>3, <2>1, FS_Subset, FS_CardinalityType
  <2>3. Cardinality(Seed) \in Nat
    BY FS_Subset, FS_CardinalityType
  <2>4. QED
    BY <2>2, <2>3 DEF BooksInv, FrontierWithinLimit, Larger
<1>5. /\ UNCHANGED <<runStatus, finals, inFlight, storeErrors>>
      /\ \/ pc = "seeding" /\ pc' = "enqueueing"
         \/ pc = "skipping" /\ pc' = "waiting" /\ urls = rejects
         \/ pc = "ruling" /\ pc' = "linking"
  BY <1>1 DEF RuleOutSeeds, RuleOutClaimed, RuleOutLinks, flightVars
<1>6. PendingIsHeld'
  BY <1>2, <1>5 DEF BooksInv, PendingIsHeld, Held
<1>7. QED
  BY <1>1, <1>2, <1>4, <1>5, <1>6 DEF BooksInv, FirstSessionIsFresh, SessionIsRecorded,
     CompleteLeavesNothingPending

\* Queueing is where rows that count come from: seeds once, links while there is room.
LEMMA QueueingKeepsBooks ==
    ASSUME OpenInv, BooksInv, EnqueueSeeds \/ EnqueueLinks
    PROVE  BooksInv'
<1> USE CrawlAssumption
<1>1. PICK urls \in SUBSET Url :
        /\ Store!EnqueueFrontier(urls)
        /\ \/ pc = "enqueueing" /\ urls \subseteq Seed
           \/ Limit > 0 => Cardinality(urls) <= FrontierRoom
  BY DEF EnqueueSeeds, EnqueueLinks, OpenInv, TypeOK
<1>2. /\ Store!KnownRows' = Store!KnownRows \cup urls
      /\ Store!Rows("pending")' = Store!Rows("pending")
  BY <1>1 DEF Store!EnqueueFrontier, Store!KnownRows, Store!Rows, OpenInv, TypeOK, Store!TypeOK
<1>3. UNCHANGED <<runStatus, ruledOut, finals, inFlight, rejects, storeErrors>>
  BY DEF EnqueueSeeds, EnqueueLinks, flightVars, flushVars, historyVars
<1>4. ASSUME Limit > 0
      PROVE  Cardinality(Store!KnownRows' \ ruledOut') <= Larger(Limit, Cardinality(Seed))
  <2> DEFINE Counted == Store!KnownRows \ ruledOut
  <2>1. /\ IsFiniteSet(Seed) /\ Cardinality(Seed) \in Nat
        /\ IsFiniteSet(urls) /\ Cardinality(urls) \in Nat
        /\ IsFiniteSet(Store!KnownRows) /\ Cardinality(Store!KnownRows) \in Nat
    BY FS_Subset, FS_CardinalityType DEF Store!KnownRows
  <2>2. /\ IsFiniteSet(Counted) /\ Cardinality(Counted) \in Nat
        /\ Cardinality(Counted) <= Cardinality(Store!KnownRows)
    BY <2>1, FS_Subset, FS_CardinalityType
  <2>3. CASE pc = "enqueueing" /\ urls \subseteq Seed
    BY <1>2, <1>3, <2>1, <2>3, FS_Subset, FS_CardinalityType DEF BooksInv, FirstSessionIsFresh,
       Larger
  <2>4. CASE urls = {}
    BY <1>2, <1>3, <1>4, <2>4 DEF BooksInv, FrontierWithinLimit
  <2>5. CASE urls # {} /\ Cardinality(urls) <= FrontierRoom
    <3> HIDE DEF Counted
    <3>1. Cardinality(urls) # 0
      BY <2>1, <2>5, FS_EmptySet
    <3>2. Cardinality(Store!KnownRows) + Cardinality(urls) <= Limit
      BY <2>1, <2>5, <3>1 DEF FrontierRoom, Larger
    <3>3. /\ IsFiniteSet(Counted \cup urls)
          /\ Cardinality(Counted \cup urls)
               = Cardinality(Counted) + Cardinality(urls) - Cardinality(Counted \cap urls)
      BY <2>1, <2>2, FS_Union
    <3>4. Cardinality(Counted \cap urls) \in Nat
      BY <2>2, FS_Subset, FS_CardinalityType
    <3>5. Cardinality(Counted \cup urls) \in Nat /\ Cardinality(Counted \cup urls) <= Limit
      BY <2>1, <2>2, <3>2, <3>3, <3>4, FS_CardinalityType
    <3>6. Store!KnownRows' \ ruledOut' \subseteq Counted \cup urls
      BY <1>2, <1>3 DEF Counted
    <3>7. /\ Cardinality(Store!KnownRows' \ ruledOut') \in Nat
          /\ Cardinality(Store!KnownRows' \ ruledOut') <= Cardinality(Counted \cup urls)
      BY <3>3, <3>6, FS_Subset, FS_CardinalityType
    <3>8. Cardinality(Store!KnownRows' \ ruledOut') <= Limit
      BY <3>5, <3>7
    <3>9. QED
      BY <2>1, <3>7, <3>8 DEF Larger
  <2>6. QED
    BY <1>1, <1>4, <2>3, <2>4, <2>5
<1>5. FrontierWithinLimit'
  BY <1>4 DEF FrontierWithinLimit
<1>6. \/ pc = "enqueueing" /\ pc' = "loop"
      \/ pc = "linking" /\ pc' = "marking"
  BY DEF EnqueueSeeds, EnqueueLinks
<1>7. QED
  BY <1>2, <1>3, <1>5, <1>6 DEF BooksInv, FirstSessionIsFresh, SessionIsRecorded,
     PendingIsHeld, Held, CompleteLeavesNothingPending

\* The other changes of rows make none that counts, and what they leave
\* pending is held by a task, by the flush, or known as an error.
LEMMA ClaimingKeepsBooks ==
    ASSUME OpenInv, BooksInv,
           \/ ResetPending \/ ClaimBatch \/ CollectFinals \/ MarkFinalsDone
           \/ \E u \in Url : Retry(u)
    PROVE  BooksInv'
<1> USE CrawlAssumption DEF OpenInv, TypeOK, Store!TypeOK, Store!KnownRows, Store!Rows
<1>1. /\ UNCHANGED <<runStatus, ruledOut>>
      /\ pc \notin {"down", "seeding", "enqueueing"} /\ pc' \notin {"down", "seeding", "enqueueing"}
  BY DEF ResetPending, ClaimBatch, CollectFinals, MarkFinalsDone, Retry, durableVars, historyVars
<1>2. Store!KnownRows' = Store!KnownRows
  <2>1. CASE ResetPending
    BY <2>1 DEF ResetPending, Store!FrontierResetAllPending
  <2>2. CASE ClaimBatch
    BY <2>2 DEF ClaimBatch, Store!FrontierNextBatch, Store!Claimable
  <2>3. CASE CollectFinals
    BY <2>3 DEF CollectFinals, durableVars
  <2>4. CASE MarkFinalsDone
    BY <2>4 DEF MarkFinalsDone, Store!FrontierMarkDone, frontierVars, BooksInv
  <2>5. ASSUME NEW u \in Url, Retry(u) PROVE Store!KnownRows' = Store!KnownRows
    BY <2>5 DEF Retry, Store!FrontierMarkRetry, FlightRows
  <2>6. QED
    BY <2>1, <2>2, <2>3, <2>4, <2>5
<1>3. FrontierWithinLimit'
  BY <1>1, <1>2 DEF BooksInv, FrontierWithinLimit
<1>4. finals' \subseteq Store!KnownRows
  BY DEF BooksInv, FlightRows, ResetPending, ClaimBatch, CollectFinals, DurablyFinal,
         MarkFinalsDone, Retry, flushVars
<1>5. PendingIsHeld'
  <2> USE DEF PendingIsHeld, Held
  <2>1. CASE ResetPending
    BY <2>1 DEF ResetPending, Store!FrontierResetAllPending
  <2>2. CASE ClaimBatch
    BY <2>2 DEF BooksInv, ClaimBatch, Store!FrontierNextBatch, Store!Claimable
  <2>3. CASE CollectFinals
    BY <2>3 DEF CollectFinals, Forget, durableVars, FinalsAreSettled, DurablyFinal, BooksInv
  <2>4. CASE MarkFinalsDone
    BY <2>4 DEF BooksInv, MarkFinalsDone, Store!FrontierMarkDone, flightVars
  <2>5. ASSUME NEW u \in Url, Retry(u) PROVE PendingIsHeld'
    BY <2>5 DEF BooksInv, Retry, Forget, Store!FrontierMarkRetry
  <2>6. QED
    BY <2>1, <2>2, <2>3, <2>4, <2>5
<1>6. QED
  BY <1>1, <1>2, <1>3, <1>4, <1>5 DEF BooksInv, FirstSessionIsFresh, SessionIsRecorded,
     CompleteLeavesNothingPending

\* Every step of the crawl keeps the books.
LEMMA StepKeepsBooks == OpenInv /\ BooksInv /\ [Next]_vars => BooksInv'
<1> SUFFICES ASSUME OpenInv, BooksInv, [Next]_vars PROVE BooksInv'
  OBVIOUS
<1>1. CASE StartRun \/ ResumeRun
  BY <1>1, OpeningKeepsBooks
<1>2. CASE RuleOutSeeds \/ RuleOutClaimed \/ RuleOutLinks
  BY <1>2, RulingKeepsBooks
<1>3. CASE EnqueueSeeds \/ EnqueueLinks
  BY <1>3, QueueingKeepsBooks
<1>4. CASE ResetPending \/ ClaimBatch \/ CollectFinals \/ MarkFinalsDone
             \/ \E u \in Url : Retry(u)
  BY <1>4, ClaimingKeepsBooks
<1>5. CASE FinishAtLimit \/ FinishIdle
  BY <1>5, FinishKeepsBooks DEF FinishAtLimit, FinishIdle
<1>6. CASE DrainOrFinish
  <2>1. CASE inFlight = {} /\ FinishRun(stopRequested)
    BY <1>6, <2>1, FinishKeepsBooks DEF DrainOrFinish, OpenInv, TypeOK
  <2>2. CASE pc' = "waiting" /\ UNCHANGED <<durableVars, flightVars, flushVars, storeErrors, historyVars>>
    BY <1>6, <2>2, SameRowsKeepBooks
       DEF DrainOrFinish, durableVars, flightVars, flushVars, historyVars
  <2>3. QED
    BY <1>6, <2>1, <2>2 DEF DrainOrFinish
<1>7. CASE FailRun \/ Crash
  BY <1>7, EndKeepsBooks DEF FailRun, Crash, BooksInv, SessionIsRecorded
<1>8. CASE FlushCompleted \/ RequestStop \/ ExhaustBudget \/ UNCHANGED vars
  BY <1>8, SameRowsKeepBooks DEF FlushCompleted, RequestStop, ExhaustBudget, vars,
     durableVars, flightVars, flushVars, historyVars
<1>9. ASSUME NEW u \in Url, Answer(u) \/ RetryTimeComes(u) PROVE BooksInv'
  BY <1>9, SameRowsKeepBooks DEF Answer, RetryTimeComes, Store!RetryTimeComes,
     frontierVars, flightVars, flushVars, historyVars
<1>10. QED
  BY <1>1, <1>2, <1>3, <1>4, <1>5, <1>6, <1>7, <1>8, <1>9 DEF Next, EngineStep

\* max_urls bounds the pages of a session, and together with the seeds the
\* frontier of a run, over all its sessions.
THEOREM LimitsAreKept == Spec => []LimitsHold
<1>1. Init => WithinLimit
  BY CrawlAssumption, FS_EmptySet DEF Init, WithinLimit
<1>2. OpenInv /\ BooksInv /\ WithinLimit /\ [Next]_vars => (BooksInv /\ WithinLimit)'
  BY StepKeepsBooks, StepKeepsLimit
<1>3. BooksInv /\ WithinLimit => LimitsHold
  BY DEF BooksInv, LimitsHold
<1>4. QED
  BY <1>1, <1>2, <1>3, InitBooks, OpenInvariant, PTL DEF Spec

\* A run recorded complete has left no row claimed: what was not finished was
\* an error of the store, and the run is then complete_with_errors.
THEOREM CompleteMeansFinished == Spec => []CompleteLeavesNothingPending
<1>1. BooksInv => CompleteLeavesNothingPending
  BY DEF BooksInv
<1>2. QED
  BY <1>1, InitBooks, StepKeepsBooks, OpenInvariant, PTL DEF Spec

=============================================================================
