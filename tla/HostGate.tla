------------------------------ MODULE HostGate ------------------------------
(*
The gate between the engine's workers and one host: the concurrency
semaphore of CrawlEngine, the host's CircuitBreaker
(crawler_cli/circuit_breaker.py) and the host's semaphore.

crawl() asks the breaker before it queues for the host's semaphore and
tells it the outcome only after the page has been processed, so answers
reach the breaker long after it has changed state.  openFor is
monotonic() - opened_at, cut off at the recovery timeout.
*)
EXTENDS Integers, FiniteSets

CONSTANTS Task,
          Page,             \* the tasks that hold a slot of the engine: pages
                            \* and sitemaps, not scripts and stylesheets
          MaxConcurrency,   \* slots of the engine's semaphore
          PerHost,          \* slots of the host's semaphore
          Threshold,        \* failure_threshold
          Recovery,         \* recovery_timeout_seconds
          MaxCount          \* failure_count is cut off here

ASSUME GateAssumption ==
    /\ IsFiniteSet(Task) /\ Page \subseteq Task
    /\ MaxConcurrency \in Nat \ {0} /\ PerHost \in Nat \ {0}
    /\ Threshold \in Nat \ {0} /\ Recovery \in Nat
    /\ MaxCount \in Nat /\ MaxCount >= Threshold

VARIABLES state, failureCount,
          openFor,   \* monotonic() - opened_at, NotOpened if it is None
          phase,     \* where each task is in crawl()
          hostFree,  \* slots the host's semaphore has left
          failures   \* history: failures told since the last success

vars == <<state, failureCount, openFor, phase, hostFree, failures>>
breakerVars == <<state, failureCount, openFor, failures>>

Closed == "CLOSED"
Open == "OPEN"
HalfOpen == "HALF_OPEN"
NotOpened == -1
Phases == {"idle", "gated", "queued", "fetching", "answered"}

Smaller(a, b) == IF a < b THEN a ELSE b
In(places) == {t \in Task : phase[t] \in places}

Init ==
    /\ state = Closed /\ failureCount = 0 /\ openFor = NotOpened
    /\ phase = [t \in Task |-> "idle"]
    /\ hostFree = PerHost
    /\ failures = 0

Goto(t, next) == phase' = [phase EXCEPT ![t] = next]

--------------------
\* The breaker.

TimedOut == openFor # NotOpened /\ openFor >= Recovery
ShouldAllow == state # Open \/ TimedOut

\* should_allow: an open breaker past its timeout goes half open.
Allow ==
    /\ ShouldAllow
    /\ state' = IF state = Open THEN HalfOpen ELSE state
    /\ UNCHANGED <<failureCount, openFor, failures>>

\* Mutant: a success closes the breaker and keeps the count.
RecordSuccessKeepsCount ==
    /\ state' = Closed /\ openFor' = NotOpened
    /\ failures' = 0
    /\ UNCHANGED failureCount

\* Mutant: a success forgets to close the breaker.
RecordSuccessStaysOpen ==
    /\ failureCount' = 0 /\ openFor' = NotOpened
    /\ failures' = 0
    /\ UNCHANGED state

RecordSuccess ==
    /\ state' = Closed /\ failureCount' = 0 /\ openFor' = NotOpened
    /\ failures' = 0

Trip == state' = Open /\ openFor' = 0

\* A half-open breaker opens at the first failure, any other counts.
RecordFailure ==
    /\ failures' = Smaller(MaxCount, failures + 1)
    /\ IF state = HalfOpen
       THEN Trip /\ failureCount' = Threshold
       ELSE /\ failureCount' = Smaller(MaxCount, failureCount + 1)
            /\ IF failureCount + 1 >= Threshold THEN Trip
               ELSE UNCHANGED <<state, openFor>>

--------------------
\* The tasks.

HasEngineSlot == In(Phases \ {"idle"}) \cap Page

\* The engine's semaphore, then robots, delays and the rate limiter; pages
\* that are skipped there do not come as far as the breaker.
Begin(t) ==
    /\ phase[t] = "idle"
    /\ t \in Page => Cardinality(HasEngineSlot) < MaxConcurrency
    /\ Goto(t, "gated")
    /\ UNCHANGED <<breakerVars, hostFree>>

Refused(t) ==
    /\ phase[t] = "gated" /\ ~ShouldAllow
    /\ Goto(t, "idle")
    /\ UNCHANGED <<breakerVars, hostFree>>

Admitted(t) ==
    /\ phase[t] = "gated" /\ Allow
    /\ IF hostFree > 0
       THEN Goto(t, "fetching") /\ hostFree' = hostFree - 1
       ELSE Goto(t, "queued") /\ UNCHANGED hostFree

\* The semaphore lets a waiter in; the breaker is not asked again.
Acquire(t) ==
    /\ phase[t] = "queued" /\ hostFree > 0
    /\ Goto(t, "fetching")
    /\ hostFree' = hostFree - 1
    /\ UNCHANGED breakerVars

Release(t, next) ==
    /\ phase[t] = "fetching"
    /\ Goto(t, next)
    /\ hostFree' = hostFree + 1

\* The response is processed after the host's slot was given back.
Respond(t) == Release(t, "answered") /\ UNCHANGED breakerVars

\* The fetch raised: a failure, or a scope, destination or budget refusal,
\* which the breaker does not hear of.
Raise(t) == Release(t, "idle") /\ (RecordFailure \/ UNCHANGED breakerVars)

\* The end of crawl(), or of a script or stylesheet fetch: they tell the
\* breaker less.  Processing may raise, which is a failure too.
Finish(t) ==
    /\ phase[t] = "answered"
    /\ Goto(t, "idle")
    /\ RecordSuccess \/ RecordFailure \/ UNCHANGED breakerVars
    /\ UNCHANGED hostFree

Tick ==
    /\ openFor # NotOpened /\ openFor < Recovery
    /\ openFor' = openFor + 1
    /\ UNCHANGED <<state, failureCount, phase, hostFree, failures>>

Step(t) == Refused(t) \/ Admitted(t) \/ Acquire(t) \/ Respond(t) \/ Raise(t)
           \/ Finish(t)

Next == (\E t \in Task : Begin(t) \/ Step(t)) \/ Tick

Spec == Init /\ [][Next]_vars

--------------------
TypeOK ==
    /\ state \in {Closed, Open, HalfOpen}
    /\ failureCount \in 0..MaxCount /\ failures \in 0..MaxCount
    /\ openFor \in {NotOpened} \cup 0..Recovery
    /\ phase \in [Task -> Phases]
    /\ hostFree \in 0..PerHost

\* Every slot of the host is free or with the task that fetches.
SlotsAreKept == hostFree + Cardinality(In({"fetching"})) = PerHost

\* A breaker that is open knows since when, or it would never let go: the
\* late answers of fetches it admitted before must leave its clock running.
OpenIsTimed == state = Open => openFor # NotOpened

\* A breaker leaves CLOSED only after Threshold failures without a success in
\* between, whatever late answers arrive in whatever state.
OpenedByEnoughFailures ==
    /\ state # Closed => failures >= Threshold
    /\ state = Closed => failureCount < Threshold

\* An open breaker lets pages through again: late failures restart its clock,
\* but only so many were let through.
OpenLetsGo == state = Open ~> state # Open

=============================================================================
