------------------------------ MODULE Frontier ------------------------------
(*
The frontier of one crawl run as the store keeps it: the frontier_*
methods of AsyncpgStore and MemoryStore in crawler_cli/persistence.py.
Each method is one transaction (one run of the event loop in the memory
store), so each is one action.

Time is what retry_at <= now sees of it: a row is deferred from the
moment its retry is scheduled until its delay has passed.  Priorities,
depths and timestamps only order the rows of a batch, and are left to
chance.
*)
EXTENDS Integers, FiniteSets

CONSTANTS Url,        \* the URLs a run can meet
          MaxRetries  \* frontier_max_retries

ASSUME FrontierAssumption == IsFiniteSet(Url) /\ MaxRetries \in Nat

VARIABLES status,      \* of the row of each URL, "absent" without a row
          retryCount,
          deferred     \* rows whose retry_at lies in the future

frontierVars == <<status, retryCount, deferred>>

Status == {"absent", "queued", "pending", "done"}

Rows(s) == {u \in Url : status[u] = s}
KnownRows == Url \ Rows("absent")
Claimable == Rows("queued") \ deferred

Init ==
    /\ status = [u \in Url |-> "absent"]
    /\ retryCount = [u \in Url |-> 0]
    /\ deferred = {}

--------------------
\* Mutant: an existing row is queued again instead of being left alone.
EnqueueFrontierUpsert(urls) ==
    /\ status' = [u \in Url |-> IF u \in urls THEN "queued" ELSE status[u]]
    /\ UNCHANGED <<retryCount, deferred>>

\* enqueue_frontier: only URLs without a row get one.
EnqueueFrontier(urls) ==
    /\ status' = [u \in Url |-> IF u \in urls /\ status[u] = "absent"
                                THEN "queued" ELSE status[u]]
    /\ UNCHANGED <<retryCount, deferred>>

\* frontier_next_batch: claims up to n queued rows whose retry time has come.
FrontierNextBatch(urls) ==
    /\ urls \subseteq Claimable
    /\ status' = [u \in Url |-> IF u \in urls THEN "pending" ELSE status[u]]
    /\ UNCHANGED <<retryCount, deferred>>

\* Mutants: the count is added to the stored one; the row gets a status that
\* no claim looks for.
FrontierMarkRetryAdds(url, count) ==
    /\ status' = [status EXCEPT ![url] = "queued"]
    /\ retryCount' = [retryCount EXCEPT ![url] = @ + count]
    /\ deferred' = deferred \cup {url}

\* frontier_mark_retry: back to the queue, whatever the row's status is.
FrontierMarkRetry(url, count) ==
    /\ status' = [status EXCEPT ![url] = "queued"]
    /\ retryCount' = [retryCount EXCEPT ![url] = count]
    /\ deferred' = deferred \cup {url}

\* Mutant: retry_at survives the completion.
FrontierMarkDoneKeepsRetry(urls) ==
    /\ status' = [u \in Url |-> IF u \in urls THEN "done" ELSE status[u]]
    /\ UNCHANGED <<retryCount, deferred>>

\* frontier_mark_done: creates the row if there is none.
FrontierMarkDone(urls) ==
    /\ status' = [u \in Url |-> IF u \in urls THEN "done" ELSE status[u]]
    /\ retryCount' = [u \in Url |-> IF u \in urls THEN 0 ELSE retryCount[u]]
    /\ deferred' = deferred \ urls

\* Mutant: a resume queues every known row again.
FrontierResetAll ==
    /\ status' = [u \in Url |-> IF status[u] = "absent" THEN "absent" ELSE "queued"]
    /\ UNCHANGED <<retryCount, deferred>>

\* frontier_reset_all_pending_to_queued
FrontierResetAllPending ==
    /\ status' = [u \in Url |-> IF status[u] = "pending" THEN "queued" ELSE status[u]]
    /\ UNCHANGED <<retryCount, deferred>>

\* The clock passes a row's retry_at.
RetryTimeComes(url) ==
    /\ url \in deferred
    /\ deferred' = deferred \ {url}
    /\ UNCHANGED <<status, retryCount>>

--------------------
(*
The frontier under the callers of the engine: a retry is scheduled only
for a row that was claimed, with a count within the limit.
*)
Next ==
    \/ \E urls \in SUBSET Url :
          \/ EnqueueFrontier(urls)
          \/ FrontierNextBatch(urls)
          \/ FrontierMarkDone(urls)
    \/ \E url \in KnownRows, count \in 1..MaxRetries : FrontierMarkRetry(url, count)
    \/ \E url \in Url : RetryTimeComes(url)
    \/ FrontierResetAllPending

Spec == Init /\ [][Next]_frontierVars

TypeOK ==
    /\ status \in [Url -> Status]
    /\ retryCount \in [Url -> Nat]
    /\ deferred \subseteq Url

\* Only a queued row waits for a retry time: a claim, a completion or a new
\* row never carries a stale retry_at that would hide it from the next batch.
DeferredIsQueued == deferred \subseteq Rows("queued")

\* No sequence of retries, completions, crashes and resumes raises the stored
\* count above frontier_max_retries.
RetriesBounded == \A u \in Url : retryCount[u] <= MaxRetries

\* What crashes, late answers and resumes may do to the retry columns of a row:
\* neither a stale retry_at nor a count above the limit.
RetryRules == DeferredIsQueued /\ RetriesBounded

=============================================================================
