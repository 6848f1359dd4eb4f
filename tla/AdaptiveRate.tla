---------------------------- MODULE AdaptiveRate ----------------------------
(*
One origin's AdaptiveRateController (crawler_cli/adaptive_rate.py) and
the page fetches of CrawlEngine.crawl that pass through its slot().

asyncio runs one task at a time, so the code between two awaits is one
action.  A fetch may await the per-host semaphore, the condition of
slot(), the sleeps of _wait_for_timing, the fetch and, when the answer
is a bot challenge, the escalated fetch: its slot is given back before
the response is recorded.

Time is an integer and clocks are relative, so it needs no bound:
pauseLeft is _pause_until - now, sinceStart is now - _last_start, both
cut off at MaxRetryAfter, which no pause or interval exceeds.  Halving
an interval rounds down, so the epsilon below which the code drops an
interval is less than one unit.  Response times are abstracted to
whether the rolling median is over the threshold, and every answer is
taken to carry one; the counters of the report that no decision reads
are left out.
*)
EXTENDS Integers, FiniteSets

CONSTANTS Task,
          Configured,     \* configured_concurrency
          MaxRetryAfter,  \* max_retry_after_seconds
          DelayFloor,     \* _THROTTLE_DELAY_FLOOR_SECONDS
          BackoffBase,    \* _BACKOFF_BASE_SECONDS
          Baselines,      \* values of baseline_ttfb
          RecoveryWindow, \* recovery_window
          MinSamples,     \* _MIN_ROLLING_SAMPLES
          HistoryLimit,   \* _HISTORY_LIMIT
          MaxFetches      \* bound on the page fetches that enter the gate

ASSUME AdaptiveAssumption ==
    /\ IsFiniteSet(Task)
    /\ Configured \in Nat \ {0} /\ MaxRetryAfter \in Nat \ {0}
    /\ DelayFloor \in Nat \ {0} /\ BackoffBase \in Nat \ {0}
    /\ RecoveryWindow \in Nat \ {0} /\ MinSamples \in Nat \ {0}
    /\ Baselines \subseteq Nat \ {0}
    /\ HistoryLimit \in Nat /\ MaxFetches \in Nat

VARIABLES ctl,        \* the controller's decisions, see Controller
          inFlight,   \* _in_flight
          pauseLeft,  \* _pause_until - now, 0 once it is past
          sinceStart, \* now - _last_start, NotStarted before the first start
          phase,      \* where each task is in crawl()
          wakeIn,     \* what is left of each task's sleep
          calibrated, \* host in registry.calibrated_hosts
          fetches,    \* bound: fetches that entered the gate
          pausedFor   \* history: time spent inside a pause

vars == <<ctl, inFlight, pauseLeft, sinceStart, phase, wakeIn, calibrated,
          fetches, pausedFor>>

Larger(a, b) == IF a > b THEN a ELSE b
Smaller(a, b) == IF a < b THEN a ELSE b
NotStarted == -1
Phases == {"idle", "waiting", "notified", "sleeping", "fetching", "answered"}

Controller ==
    [limit : 1..Configured,          \* concurrency_limit
     ceiling : 1..Configured,
     interval : 0..MaxRetryAfter,    \* min_interval_seconds
     floor : 0..MaxRetryAfter,       \* the calibrated interval, 0 if none
     lowest : 1..Configured,         \* min_concurrency_reached
     baseline : Baselines \cup {0},  \* baseline_ttfb, 0 for None
     samples : 0..MinSamples,        \* size of _rolling, cut off
     streak : 0..RecoveryWindow - 1, \* _healthy_streak
     backoff : 0..MaxRetryAfter,     \* the pause after _consecutive_backoffs
     throttled : Nat,                \* throttled_seconds
     events : 0..HistoryLimit + 1,   \* length of history, one more once
                                     \* history_truncated is set
     recorded : 1..Configured]       \* least concurrency of a throttle entry

\* BACKOFF_BASE * 2^_consecutive_backoffs, cut off, when there were none.
FirstBackoff == Smaller(MaxRetryAfter, BackoffBase)

NewController ==
    [limit |-> Configured, ceiling |-> Configured, interval |-> 0,
     floor |-> 0, lowest |-> Configured, baseline |-> 0, samples |-> 0,
     streak |-> 0, backoff |-> FirstBackoff, throttled |-> 0, events |-> 0,
     recorded |-> Configured]

--------------------
\* The controller's decisions, from one state of it to the next.

Full(c) == c.events >= HistoryLimit
Truncated(c) == c.events > HistoryLimit

\* _event: a full history drops the entry and says so.
Event(c) == [c EXCEPT !.events = Smaller(HistoryLimit + 1, @ + 1)]

Slower(c) ==
    IF c.limit > 1
    THEN [c EXCEPT !.limit = @ \div 2]
    ELSE [c EXCEPT !.interval =
            Smaller(MaxRetryAfter,
                    Larger(DelayFloor, Larger(@ * 2, c.baseline)))]

\* Mutant: the entry carries the limit from before it was halved.
ThrottleRecordsFirst(c) ==
    LET s == Slower(c)
    IN  Event([s EXCEPT !.lowest = Smaller(@, s.limit),
                        !.recorded = IF Full(s) THEN @
                                     ELSE Smaller(@, c.limit)])

\* _throttle: halve the concurrency, then stretch the spacing.
Throttle(c) ==
    LET s == Slower(c)
    IN  Event([s EXCEPT !.lowest = Smaller(@, s.limit),
                        !.recorded = IF Full(s) THEN @
                                     ELSE Smaller(@, s.limit)])

Halved(c) == Larger(c.interval \div 2, c.floor)

MayWiden(c) == c.limit < c.ceiling

\* _recover: first the spacing, then one slot.
Recover(c) ==
    CASE c.interval > c.floor -> Event([c EXCEPT !.interval = Halved(c)])
      [] c.interval <= c.floor /\ MayWiden(c) ->
             Event([c EXCEPT !.limit = @ + 1])
      [] OTHER -> c

\* Mutant: a pause inside a running one is counted again.
NewlyPausedTwice(pause) == pause

\* The part of a pause that a running one does not cover already.
NewlyPaused(pause) == Larger(0, pause - pauseLeft)

\* The pause of a 429 or 503: its Retry-After, NoRetryAfter if it has none.
NoRetryAfter == -1
PauseOf(c, retryAfter) ==
    IF retryAfter = NoRetryAfter THEN c.backoff
    ELSE Smaller(MaxRetryAfter, retryAfter)

\* Where a pause leaves the clock: it extends and never shortens.
Paused(pause) == Larger(pauseLeft, pause)

\* _record_backoff
Backoff(c, retryAfter) ==
    Throttle([c EXCEPT
        !.streak = 0,
        !.backoff = Smaller(MaxRetryAfter, @ * 2),
        !.throttled = @ + NewlyPaused(PauseOf(c, retryAfter))])

\* record_response of any other status: degraded is the verdict of
\* _record_ttfb, which needs a baseline and enough samples.
CanDegrade(c) == c.baseline > 0 /\ c.samples >= MinSamples - 1
Answered(c, degraded) ==
    LET b == [c EXCEPT !.backoff = FirstBackoff,
                       !.samples = Smaller(MinSamples, @ + 1)]
    IN  CASE degraded -> [Throttle(b) EXCEPT !.samples = 0]
          [] ~degraded /\ c.streak + 1 < RecoveryWindow ->
                 [b EXCEPT !.streak = @ + 1]
          [] OTHER -> Recover([b EXCEPT !.streak = 0])

\* apply_calibration
ApplyCalibration(c, baseline, concurrency, delay) ==
    LET ceiling == Smaller(Configured, concurrency)
        limit == Smaller(c.limit, ceiling)
    IN  Event([c EXCEPT !.baseline = IF baseline > 0 THEN baseline ELSE @,
                        !.ceiling = ceiling, !.limit = limit,
                        !.lowest = Smaller(@, limit), !.floor = delay,
                        !.interval = Larger(@, delay)])

--------------------
\* Tasks and their slots.

In(places) == {t \in Task : phase[t] \in places}
HoldsSlot == In({"sleeping", "fetching"})

\* What _wait_for_timing still has to wait for.
Spacing ==
    IF sinceStart = NotStarted THEN 0
    ELSE Larger(0, ctl.interval - sinceStart)
Wait == Larger(pauseLeft, Spacing)

Init ==
    /\ ctl = NewController
    /\ inFlight = 0 /\ pauseLeft = 0 /\ sinceStart = NotStarted
    /\ phase = [t \in Task |-> "idle"]
    /\ wakeIn = [t \in Task |-> 0]
    /\ calibrated \in BOOLEAN
    /\ fetches = 0 /\ pausedFor = 0

Start(t) ==
    /\ phase' = [phase EXCEPT ![t] = "fetching"]
    /\ sinceStart' = 0
    /\ UNCHANGED wakeIn

Sleep(t) ==
    /\ phase' = [phase EXCEPT ![t] = "sleeping"]
    /\ wakeIn' = [wakeIn EXCEPT ![t] = Wait]
    /\ UNCHANGED sinceStart

\* One round of _wait_for_timing.
CheckTiming(t) == IF Wait = 0 THEN Start(t) ELSE Sleep(t)

\* Inside the condition of slot(): take a slot, or wait to be notified.
TakeSlotOrWait(t) ==
    IF inFlight < ctl.limit
    THEN /\ inFlight' = inFlight + 1
         /\ CheckTiming(t)
    ELSE /\ phase' = [phase EXCEPT ![t] = "waiting"]
         /\ UNCHANGED <<inFlight, sinceStart, wakeIn>>

\* crawl() has the per-host semaphore and enters slot().
Enter(t) ==
    /\ phase[t] = "idle"
    /\ fetches < MaxFetches
    /\ Cardinality(In(Phases \ {"idle", "answered"})) < Configured
    /\ fetches' = fetches + 1
    /\ TakeSlotOrWait(t)
    /\ UNCHANGED <<ctl, pauseLeft, calibrated, pausedFor>>

\* A notified task runs and tests the condition again.
Retest(t) ==
    /\ phase[t] = "notified"
    /\ TakeSlotOrWait(t)
    /\ UNCHANGED <<ctl, pauseLeft, calibrated, fetches, pausedFor>>

\* Mutant: the sleeper starts without looking at the clocks again.
WakeUnchecked(t) ==
    /\ phase[t] = "sleeping" /\ wakeIn[t] = 0
    /\ Start(t)
    /\ UNCHANGED <<ctl, inFlight, pauseLeft, calibrated, fetches, pausedFor>>

\* The sleep is over and _wait_for_timing looks again.
Wake(t) ==
    /\ phase[t] = "sleeping" /\ wakeIn[t] = 0
    /\ CheckTiming(t)
    /\ UNCHANGED <<ctl, inFlight, pauseLeft, calibrated, fetches, pausedFor>>

\* Mutant: a failed fetch gives the slot back and tells nobody.
LeaveQuietly(t, next) == phase' = [phase EXCEPT ![t] = next]

\* notify_all
Leave(t, next) ==
    phase' = [u \in Task |-> IF u = t THEN next
                             ELSE IF phase[u] = "waiting" THEN "notified"
                             ELSE phase[u]]

\* The finally block of slot().
GiveBack(t, next) ==
    /\ phase[t] = "fetching"
    /\ inFlight' = inFlight - 1
    /\ Leave(t, next)
    /\ UNCHANGED <<pauseLeft, sinceStart, wakeIn, calibrated, fetches,
                   pausedFor>>

Respond(t) == GiveBack(t, "answered") /\ UNCHANGED ctl

\* The fetch raised: record_fetch_error.
Fail(t) == GiveBack(t, "idle") /\ ctl' = [ctl EXCEPT !.streak = 0]

Record(t) ==
    /\ phase[t] = "answered"
    /\ phase' = [phase EXCEPT ![t] = "idle"]
    /\ UNCHANGED <<inFlight, sinceStart, wakeIn, calibrated, fetches,
                   pausedFor>>

\* A challenge that persists, or a status of 0, decides nothing.
RecordNothing(t) == Record(t) /\ UNCHANGED <<ctl, pauseLeft>>

RecordPressure(t) ==
    /\ Record(t)
    /\ \E retryAfter \in {NoRetryAfter} \cup 0..MaxRetryAfter :
          /\ ctl' = Backoff(ctl, retryAfter)
          /\ pauseLeft' = Paused(PauseOf(ctl, retryAfter))

\* The runtime baseline may be learnt by this response.
RecordAnswer(t) ==
    /\ Record(t)
    /\ \E baseline \in IF ctl.baseline = 0 THEN Baselines \cup {0}
                       ELSE {ctl.baseline} :
          LET c == [ctl EXCEPT !.baseline = baseline]
          IN  \E degraded \in {FALSE} \cup {CanDegrade(c)} :
                ctl' = Answered(c, degraded)
    /\ UNCHANGED pauseLeft

--------------------
\* _calibrate_adaptive_rate runs before the fetches of a job.  Probes do not
\* take slots; a 429 or 503 ends them and starts the pause.
Calibrate ==
    /\ ~calibrated /\ calibrated' = TRUE
    /\ In({"idle"}) = Task
    /\ UNCHANGED <<inFlight, sinceStart, phase, wakeIn, fetches, pausedFor>>

ProbesAnswered ==
    /\ Calibrate
    /\ \E failed \in BOOLEAN, baseline \in Baselines \cup {0},
          concurrency \in 1..Configured, delay \in 0..MaxRetryAfter :
          LET c == IF failed THEN [ctl EXCEPT !.streak = 0] ELSE ctl
          IN  ctl' = ApplyCalibration(c, baseline, concurrency, delay)
    /\ UNCHANGED pauseLeft

\* summarize_calibration recommends one slot and at least the pause.
ProbeRefused ==
    /\ Calibrate
    /\ \E retryAfter \in {NoRetryAfter} \cup 0..MaxRetryAfter,
          baseline \in Baselines \cup {0}, spacing \in 0..MaxRetryAfter :
          LET wait == IF retryAfter = NoRetryAfter THEN FirstBackoff
                      ELSE Smaller(MaxRetryAfter, retryAfter)
          IN  /\ ctl' = ApplyCalibration(Backoff(ctl, retryAfter), baseline,
                                         1, Larger(wait, spacing))
              /\ pauseLeft' = Paused(PauseOf(ctl, retryAfter))

Passed(left) == Larger(0, left - 1)

\* One unit of time passes while a clock still runs.
Tick ==
    /\ \/ pauseLeft > 0
       \/ sinceStart \in 0..MaxRetryAfter - 1
       \/ \E t \in Task : wakeIn[t] > 0
    /\ pauseLeft' = Passed(pauseLeft)
    /\ pausedFor' = IF pauseLeft > 0 THEN pausedFor + 1 ELSE pausedFor
    /\ sinceStart' = IF sinceStart = NotStarted THEN NotStarted
                     ELSE Smaller(MaxRetryAfter, sinceStart + 1)
    /\ wakeIn' = [t \in Task |-> Passed(wakeIn[t])]
    /\ UNCHANGED <<ctl, inFlight, phase, calibrated, fetches>>

Step(t) == Enter(t) \/ Retest(t) \/ Wake(t) \/ Respond(t) \/ Fail(t)
           \/ RecordNothing(t) \/ RecordPressure(t) \/ RecordAnswer(t)

\* The bounded fetches are over.
Rest ==
    /\ fetches = MaxFetches /\ In({"idle"}) = Task
    /\ UNCHANGED vars

Next ==
    \/ \E t \in Task : Step(t)
    \/ ProbesAnswered \/ ProbeRefused
    \/ Tick \/ Rest

Spec == Init /\ [][Next]_vars

\* The event loop runs what is ready, fetches end and time passes.
Fairness ==
    /\ WF_vars(Tick)
    /\ \A t \in Task :
          WF_vars(\/ Retest(t) \/ Wake(t) \/ Respond(t) \/ Fail(t)
                  \/ RecordNothing(t) \/ RecordPressure(t) \/ RecordAnswer(t))

FairSpec == Spec /\ Fairness

--------------------
TypeOK ==
    /\ ctl \in Controller
    /\ inFlight \in 0..Configured
    /\ pauseLeft \in 0..MaxRetryAfter
    /\ sinceStart \in {NotStarted} \cup 0..MaxRetryAfter
    /\ phase \in [Task -> Phases]
    /\ wakeIn \in [Task -> 0..MaxRetryAfter]
    /\ calibrated \in BOOLEAN
    /\ fetches \in 0..MaxFetches
    /\ pausedFor \in Nat

\* Slots are counted exactly, whatever order fetches end, fail and wait in.
SlotsAreCounted == inFlight = Cardinality(HoldsSlot)

\* "any waiter implies at least one fetch in flight, so one always follows"
\* (_recover, which widens the limit and notifies nobody).
WaitersHaveAReleaser == In({"waiting"}) # {} => HoldsSlot # {}

\* The controller only tightens what was configured and calibrated.
OnlyTightens ==
    /\ ctl.limit <= ctl.ceiling
    /\ ctl.interval >= ctl.floor

\* throttled_seconds is the length of the union of all pauses: what has
\* passed inside one and what is left of the last.
ThrottledIsPausedTime == ctl.throttled = pausedFor + pauseLeft

\* While history holds every event, the recommendation of the report is not
\* above the concurrency the crawl was driven down to.
Recommended == Smaller(ctl.ceiling, ctl.recorded)
RecommendsWhatHeld == ~Truncated(ctl) => Recommended <= ctl.lowest

\* What the report says of a crawl was so.
ReportIsTrue == ThrottledIsPausedTime /\ RecommendsWhatHeld

\* No fetch starts inside a pause or before the spacing has passed, also
\* when a sibling's 429 extended either while the task slept.
StartsKeepTheirDistance ==
    [][\A t \in Task :
         phase[t] # "fetching" /\ phase'[t] = "fetching" =>
           /\ pauseLeft = 0
           /\ sinceStart # NotStarted => sinceStart >= ctl.interval]_vars

\* A fetch that waits for a slot gets through the gate.
WaitersAreServed ==
    \A t \in Task : phase[t] \in {"waiting", "notified", "sleeping"}
                     ~> phase[t] = "fetching"

=============================================================================
