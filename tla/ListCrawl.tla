----------------------------- MODULE ListCrawl ------------------------------
(*
crawl_many of crawler_cli/engine.py: a list of URLs through a pool of
workers, each fetched through a proxy of the backend's pool.  Answers
of 429 and 503 go back to the front of the list, a stop request or an
exhausted budget ends the taking of URLs and drains what is in flight.

The loop runs from one of its awaits to the next in a step: the
budget's snapshot at its head, and asyncio.wait.
*)
EXTENDS ProxyPool

CONSTANTS UrlHost,         \* the host of each URL of the list, a sequence
          MaxConcurrency,  \* the widest worker limit
          PressureRetries, \* frontier_max_retries
          GatewayRetries   \* proxy_gateway_max_retries

ListConstants ==
    /\ PoolConstants
    /\ UrlHost \in Seq(Host)
    /\ MaxConcurrency \in Nat \ {0} /\ PressureRetries \in Nat /\ GatewayRetries \in Nat

ASSUME ListAssumption == ListConstants

VARIABLES loop,       \* the await of the loop: snapshot, wait, or ended
          pending,    \* pending_indices
          tasks,      \* per index: none, running, fetching, or how it ended
          proxy,      \* per index: the proxy of its fetch
          tries,      \* per index: fetches through the gateway so far
          ordered,    \* per index: its result, "none" without one
          retries,    \* pressure_retries
          stopRequested, exhausted

listVars == <<loop, pending, tasks, proxy, tries, ordered, retries, stopRequested,
              exhausted>>
allVars == <<poolVars, listVars>>

Index == 1..Len(UrlHost)
Results == {"answered", "pressure", "failed", "refused"}
InFlight == {i \in Index : tasks[i] # "none"}
Ended == {i \in Index : tasks[i] \in Results}
Stopping == stopRequested \/ exhausted

ListInit ==
    /\ PoolInit
    /\ loop = "snapshot" /\ pending = [i \in Index |-> i]
    /\ tasks = [i \in Index |-> "none"] /\ proxy = [i \in Index |-> NoProxy]
    /\ tries = [i \in Index |-> 0]
    /\ ordered = [i \in Index |-> "none"] /\ retries = [i \in Index |-> 0]
    /\ stopRequested = FALSE /\ exhausted = FALSE

--------------------
\* crawl() of one URL.

\* A page may be skipped before its fetch: by the budget, once that is
\* exhausted, or by its breaker, robots.txt or the scope.
SkipPage(i) ==
    /\ tasks[i] = "running"
    /\ \E result \in {"failed"} \cup (IF exhausted THEN {"refused"} ELSE {}) :
          tasks' = [tasks EXCEPT ![i] = result]
    /\ UNCHANGED <<poolVars, loop, pending, proxy, tries, ordered, retries,
                   stopRequested, exhausted>>

BeginFetch(i) ==
    /\ tasks[i] = "running"
    /\ \E p \in Proxy : Select(UrlHost[i], p) /\ proxy' = [proxy EXCEPT ![i] = p]
    /\ tasks' = [tasks EXCEPT ![i] = "fetching"]
    /\ tries' = [tries EXCEPT ![i] = @ + 1]
    /\ UNCHANGED <<loop, pending, ordered, retries, stopRequested, exhausted>>

EndTask(i, result) ==
    /\ tasks[i] = "fetching"
    /\ tasks' = [tasks EXCEPT ![i] = result]
    /\ proxy' = [proxy EXCEPT ![i] = NoProxy]
    /\ tries' = [tries EXCEPT ![i] = 0]
    /\ UNCHANGED <<loop, pending, ordered, retries, stopRequested, exhausted>>

\* The backend tells the pool of an answer or of an exception ...
FetchAnswers(i) ==
    /\ \E result \in {"answered", "pressure"} : EndTask(i, result)
    /\ ReportSuccess(proxy[i])

FetchRaises(i) ==
    /\ EndTask(i, "failed")
    /\ ReportFailure(proxy[i])

\* ... and not of a status 0, for which fetch_resilient asks a gateway again.
MayRetry(i) == rotation = "gateway" /\ tries[i] <= GatewayRetries

FetchIsEmpty(i) ==
    /\ ~MayRetry(i)
    /\ EndTask(i, "failed")
    /\ UNCHANGED poolVars

RetryThroughGateway(i) ==
    /\ tasks[i] = "fetching" /\ MayRetry(i)
    /\ Select(UrlHost[i], proxy[i])
    /\ tries' = [tries EXCEPT ![i] = @ + 1]
    /\ UNCHANGED <<loop, pending, tasks, proxy, ordered, retries, stopRequested,
                   exhausted>>

--------------------
\* The loop.

\* Mutant: the loop goes on waiting while URLs are pending.
IsDoneWithAll(taken) == InFlight \cup taken = {} /\ pending = <<>>

IsDrained(taken) == InFlight \cup taken = {}

\* The worker limit shrinks and grows with the memory in use.
Fill ==
    /\ loop = "snapshot"
    /\ \E limit \in 1..MaxConcurrency :
          LET free == IF limit > Cardinality(InFlight)
                      THEN limit - Cardinality(InFlight) ELSE 0
              n == IF Stopping THEN 0
                   ELSE IF free < Len(pending) THEN free ELSE Len(pending)
              taken == {pending[k] : k \in 1..n}
          IN  /\ tasks' = [i \in Index |-> IF i \in taken THEN "running" ELSE tasks[i]]
              /\ pending' = SubSeq(pending, n + 1, Len(pending))
              /\ loop' = IF IsDrained(taken) THEN "ended" ELSE "wait"
    /\ UNCHANGED <<poolVars, proxy, tries, ordered, retries, stopRequested, exhausted>>

IsRetried(i) == tasks[i] = "pressure" /\ retries[i] < PressureRetries

\* Mutant: a result that is to be retried is put at the front in place of
\* what waits there.
CollectReplacesFirst ==
    /\ loop = "wait" /\ Ended # {}
    /\ LET again == {i \in Ended : IsRetried(i)}
       IN  /\ \E front \in SetToSeqs(again) :
                 pending' = IF again = {} \/ pending = <<>> THEN front \o pending
                            ELSE front \o Tail(pending)
           /\ retries' = [i \in Index |-> IF i \in again THEN retries[i] + 1
                                          ELSE retries[i]]
           /\ ordered' = [i \in Index |-> IF i \in Ended \ again THEN tasks[i]
                                          ELSE ordered[i]]
    /\ tasks' = [i \in Index |-> IF i \in Ended THEN "none" ELSE tasks[i]]
    /\ loop' = "snapshot"
    /\ UNCHANGED <<poolVars, proxy, tries, stopRequested, exhausted>>

\* Every ended task is collected; those under pressure go to the front, in the
\* order in which a set gives them.
Collect ==
    /\ loop = "wait" /\ Ended # {}
    /\ LET again == {i \in Ended : IsRetried(i)}
       IN  /\ \E front \in SetToSeqs(again) : pending' = front \o pending
           /\ retries' = [i \in Index |-> IF i \in again THEN retries[i] + 1
                                          ELSE retries[i]]
           /\ ordered' = [i \in Index |-> IF i \in Ended \ again THEN tasks[i]
                                          ELSE ordered[i]]
    /\ tasks' = [i \in Index |-> IF i \in Ended THEN "none" ELSE tasks[i]]
    /\ loop' = IF pending' = <<>> /\ InFlight = Ended THEN "ended" ELSE "snapshot"
    /\ UNCHANGED <<poolVars, proxy, tries, stopRequested, exhausted>>

RequestStop ==
    /\ loop # "ended" /\ ~stopRequested
    /\ stopRequested' = TRUE
    /\ UNCHANGED <<poolVars, loop, pending, tasks, proxy, tries, ordered, retries,
                   exhausted>>

\* Some fetch, of this crawl or of a subresource, is refused by the budget.
RunOut ==
    /\ loop # "ended" /\ ~exhausted
    /\ exhausted' = TRUE
    /\ UNCHANGED <<poolVars, loop, pending, tasks, proxy, tries, ordered, retries,
                   stopRequested>>

TimePasses == PoolTick /\ loop # "ended" /\ UNCHANGED listVars

CrawlStep(i) ==
    \/ SkipPage(i) \/ BeginFetch(i)
    \/ FetchAnswers(i) \/ FetchRaises(i) \/ FetchIsEmpty(i)
    \/ RetryThroughGateway(i)

LoopStep == Fill \/ Collect

ListNext ==
    \/ LoopStep
    \/ \E i \in Index : CrawlStep(i)
    \/ RequestStop \/ RunOut
    \/ TimePasses

ListSpec == ListInit /\ [][ListNext]_allVars

\* The event loop runs what can run, and a fetch answers or times out.
ListFairness == WF_allVars(LoopStep) /\ \A i \in Index : WF_allVars(CrawlStep(i))

ListFairSpec == ListSpec /\ ListFairness

--------------------
\* Every URL is at one place at a time: waiting, in flight, or with a result.
\* At the end only URLs that a stop or the budget left waiting have none.
EveryUrlIsAnswered ==
    /\ \A i \in Index : Cardinality({k \in DOMAIN pending : pending[k] = i})
           = IF tasks[i] = "none" /\ ordered[i] = "none" THEN 1 ELSE 0
    /\ loop = "ended" /\ ~Stopping => \A i \in Index : ordered[i] # "none"

\* Every URL of a list is waiting, in flight or answered, and at the end
\* answered unless a stop or the budget left it waiting.  Round robin passes no
\* live proxy over, whatever is benched in between, and a host keeps its proxy
\* until that is benched.
ListsAreServed ==
    [](EveryUrlIsAnswered /\ RotationIsFair) /\ HostsKeepTheirProxy

=============================================================================
