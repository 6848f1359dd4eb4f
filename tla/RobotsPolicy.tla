---------------------------- MODULE RobotsPolicy ----------------------------
(*
The robots.txt of one host (crawler_cli/robots.py RobotsCache and
RobotsPolicyCache) and the politeness wait of CrawlEngine.crawl:
is_allowed, then get_crawl_delay and _wait_for_host_delay, which lets
the page fetch go on.

A task awaits the lock of the host's robots.txt, its fetch, the lock of
the host's delay and the sleep under it; between two awaits it runs
alone, so while one is past is_allowed (phase "allowed") no other runs.

Robots rules are abstracted to whether they allow the task's URL and to
their Crawl-delay.  An entry whose TTL has passed is dropped by the
next reader, so it is modelled as none.  Clocks are relative:
sinceFetch is now - _host_last_fetch, cut off at MaxDelay.
*)
EXTENDS Integers, FiniteSets

CONSTANTS Task,
          MaxDelay   \* the largest Crawl-delay of any rules

\* The holder of a lock that nobody holds.
NoTask == "nobody"

RobotsAssumption == MaxDelay \in Nat /\ NoTask \notin Task

VARIABLES entry,      \* _cache[domain]: the rules, NoRules if none or expired
          failed,     \* domain in _failed_domains
          rulesLock,  \* holder of _locks[domain]
          delayLock,  \* holder of _host_delays[host]
          sinceFetch, \* now - _host_last_fetch
          phase,      \* where each task is
          delay,      \* the delay _wait_for_host_delay enforces
          wakeIn      \* what is left of the sleep

vars == <<entry, failed, rulesLock, delayLock, sinceFetch, phase, delay, wakeIn>>

NoRules == [allows |-> TRUE, delay |-> -1]
Rules == [allows : BOOLEAN, delay : 0..MaxDelay]
AllowAll == [allows |-> TRUE, delay |-> 0]

Larger(a, b) == IF a > b THEN a ELSE b
Smaller(a, b) == IF a < b THEN a ELSE b

\* The two calls of get_rules wait and fetch in phases of their own.
Checking == "checking"
Asking == "asking"
Locking == {Checking, Asking}
FetchOf(call) == IF call = Checking THEN "checkFetch" ELSE "askFetch"
Phases == {"idle", "allowed", "delayed", "sleeping"} \cup Locking
          \cup {FetchOf(call) : call \in Locking}

Cached == entry # NoRules
GoingOn == {t \in Task : phase[t] = "allowed"}

\* The tasks whose request for robots.txt is under way, and with them those
\* that queue to make one.
Fetching == {t \in Task : \E call \in Locking : phase[t] = FetchOf(call)}
Asked == Fetching \cup {t \in Task : phase[t] \in Locking}

Init ==
    /\ entry = NoRules /\ failed = FALSE
    /\ rulesLock = NoTask /\ delayLock = NoTask
    /\ sinceFetch = MaxDelay
    /\ phase = [t \in Task |-> "idle"]
    /\ delay = [t \in Task |-> 0]
    /\ wakeIn = [t \in Task |-> 0]

--------------------
Goto(t, next) == phase' = [phase EXCEPT ![t] = next]

\* check(): no rules mean disallow if the host failed, allow otherwise.
Verdict(rules, unreachable) ==
    IF rules = NoRules THEN ~unreachable ELSE rules.allows

\* RobotsCache.get_crawl_delay on what a call left in the cache: 0 for None.
CachedDelay(rules) == IF rules = NoRules THEN 0 ELSE rules.delay

\* A call of get_rules returned: is_allowed goes on to the delay or skips the
\* page, get_crawl_delay reads the cache once more.
Returned(t, call, rules) ==
    IF call = Checking
    THEN /\ Goto(t, IF Verdict(rules, failed') THEN "allowed" ELSE "idle")
         /\ UNCHANGED delay
    ELSE /\ Goto(t, "delayed")
         /\ delay' = [delay EXCEPT ![t] = CachedDelay(entry')]

\* Mutant: whether the host failed is not looked up.
GetRulesOfFailed(t, call) ==
    /\ UNCHANGED <<entry, failed, rulesLock, delayLock, sinceFetch, wakeIn>>
    /\ IF Cached THEN Returned(t, call, entry)
       ELSE Goto(t, call) /\ UNCHANGED delay

\* get_rules before the lock: a failed host has no rules, a fresh entry is
\* returned, otherwise the task queues for the lock.
GetRules(t, call) ==
    /\ UNCHANGED <<entry, failed, rulesLock, delayLock, sinceFetch, wakeIn>>
    /\ IF failed \/ Cached
       THEN Returned(t, call, IF failed THEN NoRules ELSE entry)
       ELSE Goto(t, call) /\ UNCHANGED delay

Check(t) ==
    /\ phase[t] = "idle" /\ GoingOn = {}
    /\ GetRules(t, Checking)

\* crawl() goes on without an await.
AskDelay(t) == phase[t] = "allowed" /\ GetRules(t, Asking)

\* Mutant: the cache is not looked up again under the lock.
LockedWithoutLook(t, call) ==
    /\ phase[t] = call /\ rulesLock = NoTask /\ GoingOn = {}
    /\ rulesLock' = t
    /\ Goto(t, FetchOf(call))
    /\ UNCHANGED <<entry, failed, delayLock, sinceFetch, delay, wakeIn>>

\* get_rules under the lock: another task may have fetched meanwhile.  Whether
\* the host failed meanwhile is not asked.
Locked(t, call) ==
    /\ phase[t] = call /\ rulesLock = NoTask /\ GoingOn = {}
    /\ UNCHANGED <<entry, failed, delayLock, sinceFetch, wakeIn>>
    /\ IF Cached THEN Returned(t, call, entry) /\ UNCHANGED rulesLock
       ELSE /\ rulesLock' = t
            /\ Goto(t, FetchOf(call))
            /\ UNCHANGED delay

\* _fetch_and_parse stores what the answer says and gives up the lock.
Fetched(t, call) ==
    /\ phase[t] = FetchOf(call) /\ GoingOn = {}
    /\ rulesLock' = NoTask
    /\ UNCHANGED <<delayLock, sinceFetch, wakeIn>>

\* 200: the TTL comes from the headers and may be over at once.
FetchedRules(t, call) ==
    /\ Fetched(t, call)
    /\ \E rules \in Rules :
          /\ entry' \in {rules, NoRules}
          /\ UNCHANGED failed
          /\ Returned(t, call, rules)

\* 4xx: allow all, under the default TTL.
FetchedMissing(t, call) ==
    /\ Fetched(t, call)
    /\ entry' = AllowAll
    /\ UNCHANGED failed
    /\ Returned(t, call, AllowAll)

\* 5xx, a network error, a denied request or rules that do not parse.
FetchedUnreachable(t, call) ==
    /\ Fetched(t, call)
    /\ failed' = TRUE
    /\ UNCHANGED entry
    /\ Returned(t, call, NoRules)

\* Another status without a body: nothing is stored.
FetchedNothing(t, call) ==
    /\ Fetched(t, call)
    /\ UNCHANGED <<entry, failed>>
    /\ Returned(t, call, NoRules)

\* Time outlives the TTL.
Expire ==
    /\ Cached
    /\ entry' = NoRules
    /\ UNCHANGED <<failed, rulesLock, delayLock, sinceFetch, phase, delay,
                   wakeIn>>

--------------------
\* The host's last fetch is now and the page is fetched.
Permit(t) ==
    /\ sinceFetch' = 0
    /\ Goto(t, "idle")

\* Without a delay the page is fetched at once.
PermitUndelayed(t) ==
    /\ phase[t] = "delayed" /\ delay[t] = 0 /\ GoingOn = {}
    /\ Goto(t, "idle")
    /\ UNCHANGED <<entry, failed, rulesLock, delayLock, sinceFetch,
                   delay, wakeIn>>

\* Mutant: the sleep is not under the lock.
WaitUnlocked(t) ==
    /\ phase[t] = "delayed" /\ delay[t] > 0 /\ GoingOn = {}
    /\ IF sinceFetch >= delay[t]
       THEN Permit(t) /\ UNCHANGED <<wakeIn, delayLock>>
       ELSE /\ Goto(t, "sleeping")
            /\ wakeIn' = [wakeIn EXCEPT ![t] = delay[t] - sinceFetch]
            /\ UNCHANGED <<sinceFetch, delayLock>>
    /\ UNCHANGED <<entry, failed, rulesLock, delay>>

\* The lock is held over the sleep, so permits of a host are one by one.
WaitForHostDelay(t) ==
    /\ phase[t] = "delayed" /\ delay[t] > 0 /\ GoingOn = {}
    /\ delayLock = NoTask
    /\ IF sinceFetch >= delay[t]
       THEN Permit(t) /\ UNCHANGED <<wakeIn, delayLock>>
       ELSE /\ Goto(t, "sleeping")
            /\ wakeIn' = [wakeIn EXCEPT ![t] = delay[t] - sinceFetch]
            /\ delayLock' = t
            /\ UNCHANGED sinceFetch
    /\ UNCHANGED <<entry, failed, rulesLock, delay>>

\* Mutant: the lock is not given up after the sleep.
WakeKeepsLock(t) ==
    /\ phase[t] = "sleeping" /\ wakeIn[t] = 0 /\ GoingOn = {}
    /\ Permit(t)
    /\ UNCHANGED <<delayLock, entry, failed, rulesLock, delay, wakeIn>>

Wake(t) ==
    /\ phase[t] = "sleeping" /\ wakeIn[t] = 0 /\ GoingOn = {}
    /\ Permit(t)
    /\ delayLock' = NoTask
    /\ UNCHANGED <<entry, failed, rulesLock, delay, wakeIn>>

\* One unit of time.
Tick ==
    /\ sinceFetch < MaxDelay \/ \E t \in Task : wakeIn[t] > 0
    /\ sinceFetch' = Smaller(MaxDelay, sinceFetch + 1)
    /\ wakeIn' = [t \in Task |-> Larger(0, wakeIn[t] - 1)]
    /\ UNCHANGED <<entry, failed, rulesLock, delayLock, phase, delay>>

Answer(t, call) == FetchedRules(t, call) \/ FetchedMissing(t, call)
                   \/ FetchedUnreachable(t, call) \/ FetchedNothing(t, call)

\* What a task does once it has asked.
Step(t) ==
    \/ AskDelay(t)
    \/ \E call \in Locking : Locked(t, call) \/ Answer(t, call)
    \/ PermitUndelayed(t) \/ WaitForHostDelay(t) \/ Wake(t)

Next == (\E t \in Task : Check(t) \/ Step(t)) \/ Expire \/ Tick

Spec == Init /\ [][Next]_vars

\* The event loop runs ready tasks and hands a lock to its waiters in order
\* of arrival, so a task that can go on again and again does: strong
\* fairness.  Requests end and time passes.
Fairness == WF_vars(Tick) /\ \A t \in Task : SF_vars(Step(t))

--------------------
TypeOK ==
    /\ entry \in Rules \cup {NoRules}
    /\ failed \in BOOLEAN
    /\ rulesLock \in Task \cup {NoTask} /\ delayLock \in Task \cup {NoTask}
    /\ sinceFetch \in 0..MaxDelay
    /\ phase \in [Task -> Phases]
    /\ delay \in [Task -> 0..MaxDelay]
    /\ wakeIn \in [Task -> 0..MaxDelay]

\* Two permits of a host are at least the second task's delay apart, whatever
\* order the tasks queue, sleep and wake in.
PermitsAreSpaced ==
    [][\A t \in Task :
         phase[t] \in {"delayed", "sleeping"} /\ phase'[t] = "idle" =>
           sinceFetch >= delay[t]]_vars

\* Requests for robots.txt are not made in vain: none is under way together
\* with another or with a fresh answer in the cache.
OneFetch ==
    \A t \in Fetching : ~Cached /\ Fetching = {t}

\* Once the host has failed, only checks that queued before ask again, and no
\* page goes on but by their answers.
OnlyTheQueuedAsk ==
    failed => /\ failed' /\ Asked' \subseteq Asked
              /\ GoingOn' \subseteq GoingOn \cup Asked

RobotsAreAskedOnce == [][OneFetch' /\ OnlyTheQueuedAsk]_vars

\* README.md: "5xx/network unreachable -> session disallow"; the docstring of
\* RobotsPolicyCache: "complete disallow for the rest of the session".  A check
\* that queued for the lock before the failure asks again and may go on.
FailedHostIsDisallowed == failed => GoingOn = {}

=============================================================================
