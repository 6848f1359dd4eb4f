------------------------- MODULE AdaptiveRateProofs -------------------------
(*
Proofs about the adaptive gate, for every number of tasks, every limit
and every history length; and about the hreflang facts, for every site
and sitemap.
*)
EXTENDS AdaptiveRate, HreflangFacts, FiniteSetTheorems, WellFoundedInduction, TLAPS

\* What every decision of the controller keeps.  The recommendation needs
\* that the least limit so far is at most the current one.
Sound(c) ==
    /\ c \in Controller
    /\ c.limit <= c.ceiling
    /\ c.interval >= c.floor
    /\ c.lowest <= c.limit
    /\ ~Truncated(c) => Smaller(c.ceiling, c.recorded) <= c.lowest

\* The inductive invariant.  Before the calibration the ceiling is the
\* configured cap; the calibration then lowers it.
GateInv ==
    /\ TypeOK
    /\ Sound(ctl)
    /\ ~calibrated => ctl.ceiling = Configured
    /\ SlotsAreCounted
    /\ WaitersHaveAReleaser
    /\ ThrottledIsPausedTime

--------------------
\* Halving the concurrency or stretching the spacing, and recording it.
LEMMA ThrottleIsSound ==
    ASSUME NEW c \in Controller, Sound(c)
    PROVE  /\ Sound(Throttle(c))
           /\ Throttle(c).throttled = c.throttled
           /\ Throttle(c).ceiling = c.ceiling
<1> USE AdaptiveAssumption
<1>1. /\ Slower(c) \in Controller
      /\ Slower(c).limit <= c.limit
      /\ Slower(c).interval >= c.interval
      /\ \A f \in {"ceiling", "floor", "lowest", "throttled", "events",
                   "recorded"} : Slower(c)[f] = c[f]
  BY DEF Slower, Sound, Controller, Smaller, Larger
<1> DEFINE s == Slower(c)
<1>2. Throttle(c) =
        [s EXCEPT !.lowest = Smaller(s.lowest, s.limit),
                  !.recorded = IF Full(s) THEN s.recorded
                               ELSE Smaller(s.recorded, s.limit),
                  !.events = Smaller(HistoryLimit + 1, s.events + 1)]
  BY <1>1 DEF Throttle, Event, Controller
<1> HIDE DEF s
<1>3. s \in Controller
  BY <1>1 DEF s
<1>4. Throttle(c) \in Controller
  <2>1. /\ Smaller(s.lowest, s.limit) \in 1..Configured
        /\ (IF Full(s) THEN s.recorded ELSE Smaller(s.recorded, s.limit))
             \in 1..Configured
        /\ Smaller(HistoryLimit + 1, s.events + 1) \in 0..HistoryLimit + 1
    BY <1>3 DEF Controller, Smaller
  <2>2. QED
    BY <1>2, <1>3, <2>1, Zenon DEF Controller
<1>5. /\ Throttle(c).limit = s.limit /\ Throttle(c).ceiling = s.ceiling
      /\ Throttle(c).interval = s.interval /\ Throttle(c).floor = s.floor
      /\ Throttle(c).throttled = s.throttled
      /\ Throttle(c).lowest = Smaller(s.lowest, s.limit)
      /\ Throttle(c).events = Smaller(HistoryLimit + 1, s.events + 1)
      /\ ~Full(s) => Throttle(c).recorded = Smaller(s.recorded, s.limit)
  BY <1>2, <1>3 DEF Controller
<1>6. QED
  BY <1>1, <1>3, <1>4, <1>5 DEF s, Sound, Full, Truncated, Smaller, Controller

\* Going back towards the calibrated rate stops there.
LEMMA RecoverIsSound ==
    ASSUME NEW c \in Controller, Sound(c)
    PROVE  /\ Sound(Recover(c))
           /\ Recover(c).throttled = c.throttled
           /\ Recover(c).ceiling = c.ceiling
<1> USE AdaptiveAssumption
<1> DEFINE events == Smaller(HistoryLimit + 1, c.events + 1)
<1>1. events \in 0..HistoryLimit + 1 /\ events >= c.events
  BY DEF Smaller, Controller
<1>2. CASE c.interval > c.floor
  <2>1. Recover(c) = [c EXCEPT !.interval = Halved(c), !.events = events]
    BY <1>2 DEF Recover, Event, Controller
  <2>2. Halved(c) \in 0..MaxRetryAfter /\ Halved(c) >= c.floor
    BY DEF Halved, Larger, Controller
  <2> HIDE DEF events
  <2>3. Recover(c) \in Controller
    BY <1>1, <2>1, <2>2, Zenon DEF Controller
  <2>4. QED
    BY <1>1, <2>1, <2>2, <2>3 DEF Sound, Truncated, Smaller, Controller
<1>3. CASE c.interval <= c.floor /\ MayWiden(c)
  <2>1. Recover(c) = [c EXCEPT !.limit = c.limit + 1, !.events = events]
    BY <1>3 DEF Recover, Event, Controller
  <2>2. c.limit + 1 \in 1..Configured /\ c.limit + 1 <= c.ceiling
    BY <1>3 DEF MayWiden, Controller
  <2> HIDE DEF events
  <2>3. Recover(c) \in Controller
    BY <1>1, <2>1, <2>2, Zenon DEF Controller
  <2>4. QED
    BY <1>1, <2>1, <2>2, <2>3 DEF Sound, Truncated, Smaller, Controller
<1>4. CASE c.interval <= c.floor /\ ~MayWiden(c)
  BY <1>4 DEF Recover, Controller
<1>5. QED
  BY <1>2, <1>3, <1>4 DEF Controller

\* The calibration only lowers what a throttle has not lowered before.
LEMMA CalibrationIsSound ==
    ASSUME NEW c \in Controller, Sound(c), c.ceiling = Configured,
           NEW baseline \in Baselines \cup {0},
           NEW concurrency \in 1..Configured, NEW delay \in 0..MaxRetryAfter
    PROVE  /\ Sound(ApplyCalibration(c, baseline, concurrency, delay))
           /\ ApplyCalibration(c, baseline, concurrency, delay).throttled
                = c.throttled
<1> DEFINE a == ApplyCalibration(c, baseline, concurrency, delay)
<1> USE AdaptiveAssumption
<1>1. a = [c EXCEPT !.baseline = IF baseline > 0 THEN baseline ELSE c.baseline,
                    !.ceiling = concurrency,
                    !.limit = Smaller(c.limit, concurrency),
                    !.lowest = Smaller(c.lowest, Smaller(c.limit, concurrency)),
                    !.floor = delay, !.interval = Larger(c.interval, delay),
                    !.events = Smaller(HistoryLimit + 1, c.events + 1)]
  <2>1. Smaller(Configured, concurrency) = concurrency
    BY DEF Smaller
  <2> DEFINE d == [c EXCEPT
                    !.baseline = IF baseline > 0 THEN baseline ELSE c.baseline,
                    !.ceiling = concurrency,
                    !.limit = Smaller(c.limit, concurrency),
                    !.lowest = Smaller(c.lowest, Smaller(c.limit, concurrency)),
                    !.floor = delay, !.interval = Larger(c.interval, delay)]
  <2>2. a = Event(d)
    BY <2>1 DEF ApplyCalibration
  <2>3. d.events = c.events
    BY DEF Controller
  <2>4. QED
    BY <2>2, <2>3 DEF Event, Controller
<1>2. /\ a.ceiling = concurrency
      /\ a.limit = Smaller(c.limit, concurrency)
      /\ a.lowest = Smaller(c.lowest, a.limit)
      /\ a.floor = delay /\ a.interval = Larger(c.interval, delay)
      /\ a.recorded = c.recorded /\ a.throttled = c.throttled
      /\ a.events = Smaller(HistoryLimit + 1, c.events + 1)
  BY <1>1 DEF Controller
<1>3. a \in Controller
  <2> DEFINE b == [c EXCEPT
                    !.baseline = IF baseline > 0 THEN baseline ELSE c.baseline,
                    !.ceiling = concurrency,
                    !.limit = Smaller(c.limit, concurrency)]
  <2>1. /\ (IF baseline > 0 THEN baseline ELSE c.baseline) \in Baselines \cup {0}
        /\ Smaller(c.limit, concurrency) \in 1..Configured
        /\ Smaller(c.lowest, Smaller(c.limit, concurrency)) \in 1..Configured
        /\ Larger(c.interval, delay) \in 0..MaxRetryAfter
        /\ Smaller(HistoryLimit + 1, c.events + 1) \in 0..HistoryLimit + 1
    BY DEF Smaller, Larger, Controller
  <2>2. b \in Controller
    BY <2>1, Zenon DEF Controller
  <2> DEFINE d == [b EXCEPT
                    !.lowest = Smaller(c.lowest, Smaller(c.limit, concurrency)),
                    !.floor = delay, !.interval = Larger(c.interval, delay)]
  <2>3. d \in Controller
    BY <2>1, <2>2, Zenon DEF Controller
  <2>4. a = [d EXCEPT !.events = Smaller(HistoryLimit + 1, c.events + 1)]
    BY <1>1 DEF Controller
  <2> HIDE DEF a, d
  <2>5. QED
    BY <2>1, <2>3, <2>4, Zenon DEF Controller
<1> HIDE DEF a
<1>4. Sound(a)
  BY <1>2, <1>3 DEF Sound, Truncated, Smaller, Larger, Controller
<1>5. QED
  BY <1>2, <1>4 DEF a

\* A pause adds to the throttled time what the running pause does not cover.
LEMMA BackoffIsSound ==
    ASSUME NEW c \in Controller, Sound(c), pauseLeft \in 0..MaxRetryAfter,
           NEW retryAfter \in {NoRetryAfter} \cup 0..MaxRetryAfter
    PROVE  /\ PauseOf(c, retryAfter) \in 0..MaxRetryAfter
           /\ Sound(Backoff(c, retryAfter))
           /\ Backoff(c, retryAfter).ceiling = c.ceiling
           /\ Backoff(c, retryAfter).throttled =
                c.throttled + NewlyPaused(PauseOf(c, retryAfter))
<1> DEFINE pause == PauseOf(c, retryAfter)
           b == [c EXCEPT !.streak = 0,
                          !.backoff = Smaller(MaxRetryAfter, @ * 2),
                          !.throttled = @ + NewlyPaused(pause)]
<1> USE AdaptiveAssumption
<1>1. pause \in 0..MaxRetryAfter
  BY DEF PauseOf, NoRetryAfter, Smaller, Controller
<1>2. NewlyPaused(pause) \in Nat
  BY <1>1 DEF NewlyPaused, Larger
<1> HIDE DEF pause
<1>3. b \in Controller /\ b.throttled = c.throttled + NewlyPaused(pause)
      /\ b.ceiling = c.ceiling
  <2>1. /\ 0 \in 0..RecoveryWindow - 1
        /\ Smaller(MaxRetryAfter, c.backoff * 2) \in 0..MaxRetryAfter
        /\ c.throttled + NewlyPaused(pause) \in Nat
    BY <1>2 DEF Smaller, Controller
  <2>2. b \in Controller
    BY <2>1, Zenon DEF Controller
  <2>3. QED
    BY <2>2 DEF Controller
<1>4. Sound(b)
  BY <1>3 DEF Sound, Truncated, Controller
<1>5. Backoff(c, retryAfter) = Throttle(b)
  BY DEF Backoff, pause
<1> HIDE DEF b
<1>6. QED
  BY <1>1, <1>3, <1>4, <1>5, ThrottleIsSound DEF pause

\* An answer either throttles, counts towards recovery, or recovers.
LEMMA AnswerIsSound ==
    ASSUME NEW c \in Controller, Sound(c), NEW degraded \in BOOLEAN
    PROVE  /\ Sound(Answered(c, degraded))
           /\ Answered(c, degraded).throttled = c.throttled
           /\ Answered(c, degraded).ceiling = c.ceiling
<1> DEFINE b == [c EXCEPT !.backoff = FirstBackoff,
                          !.samples = Smaller(MinSamples, @ + 1)]
           r == [b EXCEPT !.streak = 0]
<1> USE AdaptiveAssumption
<1>1. /\ b \in Controller /\ Sound(b) /\ b.throttled = c.throttled
      /\ b.ceiling = c.ceiling /\ b.streak = c.streak
  <2>1. /\ FirstBackoff \in 0..MaxRetryAfter
        /\ Smaller(MinSamples, c.samples + 1) \in 0..MinSamples
    BY DEF FirstBackoff, Smaller, Controller
  <2>2. b \in Controller
    BY <2>1, Zenon DEF Controller
  <2>3. QED
    BY <2>2 DEF Sound, Truncated, Controller
<1>2. r \in Controller /\ Sound(r) /\ r.throttled = c.throttled
      /\ r.ceiling = c.ceiling
  <2>1. 0 \in 0..RecoveryWindow - 1
    OBVIOUS
  <2> HIDE DEF b
  <2>2. r \in Controller
    BY <1>1, <2>1, Zenon DEF Controller
  <2>3. QED
    BY <1>1, <2>2 DEF Sound, Truncated, Controller
<1>3. CASE degraded
  <2>1. Answered(c, degraded) = [Throttle(b) EXCEPT !.samples = 0]
    BY <1>3 DEF Answered
  <2> HIDE DEF b
  <2>2. QED
    BY <1>1, <2>1, ThrottleIsSound DEF Sound, Truncated, Controller
<1>4. CASE ~degraded /\ c.streak + 1 < RecoveryWindow
  <2>1. Answered(c, degraded) = [b EXCEPT !.streak = @ + 1]
    BY <1>4 DEF Answered
  <2> HIDE DEF b
  <2>2. QED
    BY <1>1, <1>4, <2>1 DEF Sound, Truncated, Controller
<1>5. CASE ~degraded /\ ~(c.streak + 1 < RecoveryWindow)
  <2>1. Answered(c, degraded) = Recover(r)
    BY <1>5 DEF Answered
  <2> HIDE DEF b, r
  <2>2. QED
    BY <1>2, <2>1, RecoverIsSound
<1>6. QED
  BY <1>3, <1>4, <1>5

--------------------
\* Taking a slot counts it, waiting leaves a slot holder to wait for.
LEMMA TakingASlot ==
    ASSUME GateInv, NEW t \in Task, phase[t] \in {"idle", "notified"},
           TakeSlotOrWait(t)
    PROVE  /\ inFlight' \in 0..Configured
           /\ phase' \in [Task -> Phases]
           /\ sinceStart' \in {NotStarted} \cup 0..MaxRetryAfter
           /\ wakeIn' \in [Task -> 0..MaxRetryAfter]
           /\ SlotsAreCounted'
           /\ WaitersHaveAReleaser'
<1> USE AdaptiveAssumption DEF GateInv, TypeOK
<1>1. IsFiniteSet(HoldsSlot) /\ HoldsSlot \subseteq Task /\ t \notin HoldsSlot
  BY FS_Subset DEF HoldsSlot, In
<1>2. ctl.limit \in 1..Configured /\ ctl.interval \in 0..MaxRetryAfter
  BY DEF Controller
<1>3. Wait \in 0..MaxRetryAfter
  BY <1>2 DEF Wait, Spacing, Larger, NotStarted
<1>4. CASE inFlight < ctl.limit
  <2>1. inFlight' = inFlight + 1 /\ CheckTiming(t)
    BY <1>4 DEF TakeSlotOrWait
  <2>2. \E p \in {"fetching", "sleeping"} : phase' = [phase EXCEPT ![t] = p]
    BY <2>1 DEF CheckTiming, Start, Sleep
  <2>3. /\ sinceStart' \in {NotStarted} \cup 0..MaxRetryAfter
        /\ wakeIn' \in [Task -> 0..MaxRetryAfter]
    BY <2>1, <1>3 DEF CheckTiming, Start, Sleep
  <2>4. HoldsSlot' = HoldsSlot \cup {t}
    BY <2>2 DEF HoldsSlot, In
  <2>5. SlotsAreCounted'
    BY <1>1, <2>1, <2>4, FS_AddElement DEF SlotsAreCounted
  <2>6. inFlight' \in 0..Configured
    BY <1>2, <1>4, <2>1
  <2>7. phase' \in [Task -> Phases]
    BY <2>2 DEF Phases
  <2>8. WaitersHaveAReleaser'
    BY <2>4 DEF WaitersHaveAReleaser
  <2>9. QED
    BY <2>3, <2>5, <2>6, <2>7, <2>8
<1>5. CASE ~(inFlight < ctl.limit)
  <2>1. /\ phase' = [phase EXCEPT ![t] = "waiting"]
        /\ UNCHANGED <<inFlight, sinceStart, wakeIn>>
    BY <1>5 DEF TakeSlotOrWait
  <2>2. HoldsSlot' = HoldsSlot
    BY <2>1 DEF HoldsSlot, In
  <2>3. HoldsSlot # {}
    BY <1>2, <1>5, FS_EmptySet DEF SlotsAreCounted
  <2>4. QED
    BY <2>1, <2>2, <2>3 DEF SlotsAreCounted, WaitersHaveAReleaser, Phases
<1>6. QED
  BY <1>4, <1>5

\* Giving a slot back counts it and leaves nobody waiting unnotified.
LEMMA GivingBackASlot ==
    ASSUME GateInv, NEW t \in Task, NEW next \in {"idle", "answered"},
           GiveBack(t, next)
    PROVE  /\ inFlight' \in 0..Configured
           /\ phase' \in [Task -> Phases]
           /\ SlotsAreCounted'
           /\ WaitersHaveAReleaser'
<1> USE AdaptiveAssumption DEF GateInv, TypeOK
<1>1. IsFiniteSet(HoldsSlot) /\ HoldsSlot \subseteq Task /\ t \in HoldsSlot
  BY FS_Subset DEF HoldsSlot, In, GiveBack
<1>2. /\ inFlight' = inFlight - 1
      /\ phase' = [u \in Task |-> IF u = t THEN next
                                  ELSE IF phase[u] = "waiting" THEN "notified"
                                  ELSE phase[u]]
  BY DEF GiveBack, Leave
<1>3. HoldsSlot' = HoldsSlot \ {t}
  BY <1>2 DEF HoldsSlot, In
<1>4. Cardinality(HoldsSlot') = Cardinality(HoldsSlot) - 1
  BY <1>1, <1>3, FS_RemoveElement
<1>5. Cardinality(HoldsSlot') \in Nat
  BY <1>1, <1>3, FS_RemoveElement, FS_CardinalityType
<1>6. In({"waiting"})' = {}
  BY <1>2 DEF In
<1>7. phase' \in [Task -> Phases]
  BY <1>2 DEF Phases
<1>8. QED
  BY <1>2, <1>4, <1>5, <1>6, <1>7 DEF SlotsAreCounted, WaitersHaveAReleaser

\* A new gate is idle.
LEMMA InitGate == Init => GateInv
<1> SUFFICES ASSUME Init PROVE GateInv
  OBVIOUS
<1> USE AdaptiveAssumption DEF Init
<1>1. FirstBackoff \in 0..MaxRetryAfter
  BY DEF FirstBackoff, Smaller
<1>2. NewController \in Controller
  BY <1>1 DEF NewController, Controller
<1>3. Sound(ctl) /\ ctl.throttled = 0 /\ ctl.ceiling = Configured
  BY <1>2 DEF Sound, NewController, Truncated, Smaller
<1>4. HoldsSlot = {} /\ In({"waiting"}) = {}
  BY DEF HoldsSlot, In
<1>5. TypeOK
  BY <1>2 DEF TypeOK, Phases, NotStarted
<1>6. QED
  BY <1>3, <1>4, <1>5, FS_EmptySet
     DEF GateInv, SlotsAreCounted, WaitersHaveAReleaser, ThrottledIsPausedTime

\* Every step of a task, the calibration and the clock keep the invariant.
LEMMA StepKeepsGate == GateInv /\ [Next]_vars => GateInv'
<1> SUFFICES ASSUME GateInv, [Next]_vars PROVE GateInv'
  OBVIOUS
<1> USE AdaptiveAssumption DEF GateInv
<1>1. ASSUME NEW t \in Task, Enter(t) PROVE GateInv'
  BY <1>1, TakingASlot DEF Enter, TypeOK, Sound, ThrottledIsPausedTime
<1>2. ASSUME NEW t \in Task, Retest(t) PROVE GateInv'
  BY <1>2, TakingASlot DEF Retest, TypeOK, Sound, ThrottledIsPausedTime
<1>3. ASSUME NEW t \in Task, Wake(t) PROVE GateInv'
  <2>1. /\ phase[t] = "sleeping" /\ CheckTiming(t)
        /\ UNCHANGED <<ctl, inFlight, pauseLeft, calibrated, fetches, pausedFor>>
    BY <1>3 DEF Wake
  <2>2. Wait \in 0..MaxRetryAfter
    BY DEF TypeOK, Controller, Wait, Spacing, Larger, NotStarted
  <2>3. \E p \in {"fetching", "sleeping"} : phase' = [phase EXCEPT ![t] = p]
    BY <2>1 DEF CheckTiming, Start, Sleep
  <2>4. /\ sinceStart' \in {NotStarted} \cup 0..MaxRetryAfter
        /\ wakeIn' \in [Task -> 0..MaxRetryAfter]
    BY <2>1, <2>2 DEF CheckTiming, Start, Sleep, TypeOK
  <2>5. HoldsSlot' = HoldsSlot /\ In({"waiting"})' = In({"waiting"})
    BY <2>1, <2>3 DEF HoldsSlot, In, TypeOK
  <2>6. phase' \in [Task -> Phases]
    BY <2>3 DEF TypeOK, Phases
  <2>7. QED
    BY <2>1, <2>4, <2>5, <2>6 DEF TypeOK, Sound, SlotsAreCounted,
                              WaitersHaveAReleaser, ThrottledIsPausedTime
<1>4. ASSUME NEW t \in Task, Respond(t) PROVE GateInv'
  BY <1>4, GivingBackASlot DEF Respond, GiveBack, TypeOK, Sound, ThrottledIsPausedTime
<1>5. ASSUME NEW t \in Task, Fail(t) PROVE GateInv'
  BY <1>5, GivingBackASlot DEF Fail, GiveBack, TypeOK, Controller, Sound, Truncated,
     ThrottledIsPausedTime
<1>6. ASSUME NEW t \in Task, Record(t), Sound(ctl'), ctl'.ceiling = ctl.ceiling,
             pauseLeft' \in 0..MaxRetryAfter,
             ctl'.throttled - pauseLeft' = ctl.throttled - pauseLeft
      PROVE  GateInv'
  <2>1. /\ phase[t] = "answered" /\ phase' = [phase EXCEPT ![t] = "idle"]
        /\ UNCHANGED <<inFlight, sinceStart, wakeIn, calibrated, fetches, pausedFor>>
    BY <1>6 DEF Record
  <2>2. HoldsSlot' = HoldsSlot /\ In({"waiting"})' = In({"waiting"})
    BY <2>1 DEF HoldsSlot, In, TypeOK
  <2>3. TypeOK'
    BY <1>6, <2>1 DEF TypeOK, Phases, Sound
  <2>4. ThrottledIsPausedTime'
    BY <1>6, <2>1 DEF ThrottledIsPausedTime, TypeOK, Sound, Controller
  <2>5. QED
    BY <1>6, <2>1, <2>2, <2>3, <2>4 DEF SlotsAreCounted, WaitersHaveAReleaser
<1>7. ASSUME NEW t \in Task, RecordNothing(t) PROVE GateInv'
  BY <1>6, <1>7 DEF RecordNothing, Sound, TypeOK
<1>8. ASSUME NEW retryAfter \in {NoRetryAfter} \cup 0..MaxRetryAfter,
             ctl' = Backoff(ctl, retryAfter),
             pauseLeft' = Paused(PauseOf(ctl, retryAfter))
      PROVE  /\ Sound(ctl') /\ ctl'.ceiling = ctl.ceiling
             /\ pauseLeft' \in 0..MaxRetryAfter
             /\ ctl'.throttled - pauseLeft' = ctl.throttled - pauseLeft
  BY <1>8, BackoffIsSound DEF TypeOK, Controller, Paused, NewlyPaused, Larger
<1>9. ASSUME NEW t \in Task, RecordPressure(t) PROVE GateInv'
  BY <1>6, <1>8, <1>9 DEF RecordPressure
<1>10. ASSUME NEW t \in Task, RecordAnswer(t) PROVE GateInv'
  <2>1. PICK baseline \in Baselines \cup {0}, degraded \in BOOLEAN :
          ctl' = Answered([ctl EXCEPT !.baseline = baseline], degraded)
    BY <1>10 DEF TypeOK, Controller, CanDegrade, RecordAnswer
  <2>2. Record(t) /\ UNCHANGED pauseLeft
    BY <1>10 DEF RecordAnswer
  <2> DEFINE c == [ctl EXCEPT !.baseline = baseline]
  <2>3. c \in Controller
    BY Zenon DEF TypeOK, Controller
  <2>4. Sound(c) /\ c.throttled = ctl.throttled /\ c.ceiling = ctl.ceiling
    BY <2>3 DEF Sound, Truncated, TypeOK, Controller
  <2>5. ctl' = Answered(c, degraded)
    BY <2>1
  <2> HIDE DEF c
  <2>6. /\ Sound(ctl') /\ ctl'.throttled = ctl.throttled
        /\ ctl'.ceiling = ctl.ceiling
    BY <2>3, <2>4, <2>5, AnswerIsSound
  <2>7. QED
    BY <1>6, <2>2, <2>6 DEF TypeOK
<1>11. CASE ProbesAnswered
  <2>1. PICK failed \in BOOLEAN, baseline \in Baselines \cup {0},
             concurrency \in 1..Configured, delay \in 0..MaxRetryAfter :
          ctl' = ApplyCalibration(
                   IF failed THEN [ctl EXCEPT !.streak = 0] ELSE ctl,
                   baseline, concurrency, delay)
    BY <1>11 DEF ProbesAnswered
  <2>2. /\ ~calibrated /\ calibrated' = TRUE
        /\ UNCHANGED <<inFlight, sinceStart, phase, wakeIn, fetches, pausedFor,
                       pauseLeft>>
    BY <1>11 DEF ProbesAnswered, Calibrate
  <2> DEFINE c == IF failed THEN [ctl EXCEPT !.streak = 0] ELSE ctl
  <2>3. c \in Controller
    BY DEF TypeOK, Controller
  <2>4. Sound(c) /\ c.throttled = ctl.throttled /\ c.ceiling = Configured
    BY <2>2, <2>3 DEF Sound, Truncated, TypeOK, Controller
  <2>5. ctl' = ApplyCalibration(c, baseline, concurrency, delay)
    BY <2>1
  <2> HIDE DEF c
  <2>6. Sound(ctl') /\ ctl'.throttled = ctl.throttled
    BY <2>3, <2>4, <2>5, CalibrationIsSound
  <2>7. QED
    BY <2>2, <2>6 DEF TypeOK, Sound, HoldsSlot, In, SlotsAreCounted,
                      WaitersHaveAReleaser, ThrottledIsPausedTime
<1>12. CASE ProbeRefused
  <2>1. PICK retryAfter \in {NoRetryAfter} \cup 0..MaxRetryAfter,
             baseline \in Baselines \cup {0}, spacing \in 0..MaxRetryAfter :
          LET wait == IF retryAfter = NoRetryAfter THEN FirstBackoff
                      ELSE Smaller(MaxRetryAfter, retryAfter)
          IN  /\ ctl' = ApplyCalibration(Backoff(ctl, retryAfter), baseline,
                                         1, Larger(wait, spacing))
              /\ pauseLeft' = Paused(PauseOf(ctl, retryAfter))
    BY <1>12 DEF ProbeRefused
  <2>2. /\ ~calibrated /\ calibrated' = TRUE
        /\ UNCHANGED <<inFlight, sinceStart, phase, wakeIn, fetches, pausedFor>>
    BY <1>12 DEF ProbeRefused, Calibrate
  <2> DEFINE c == Backoff(ctl, retryAfter)
             pause == PauseOf(ctl, retryAfter)
             delay == Larger(IF retryAfter = NoRetryAfter THEN FirstBackoff
                             ELSE Smaller(MaxRetryAfter, retryAfter), spacing)
  <2>3. /\ Sound(c) /\ c.ceiling = Configured /\ pause \in 0..MaxRetryAfter
        /\ c.throttled = ctl.throttled + NewlyPaused(pause)
    BY <2>2, BackoffIsSound DEF TypeOK
  <2>4. delay \in 0..MaxRetryAfter
    BY DEF Larger, Smaller, FirstBackoff, NoRetryAfter
  <2>5. /\ ctl' = ApplyCalibration(c, baseline, 1, delay)
        /\ pauseLeft' = Paused(pause)
    BY <2>1
  <2> HIDE DEF c, delay, pause
  <2>6. Sound(ctl') /\ ctl'.throttled = c.throttled
    BY <2>3, <2>4, <2>5, CalibrationIsSound DEF Sound
  <2>7. /\ pauseLeft' \in 0..MaxRetryAfter
        /\ ctl'.throttled - pauseLeft' = ctl.throttled - pauseLeft
    BY <2>3, <2>5, <2>6 DEF TypeOK, Controller, Paused, NewlyPaused, Larger
  <2>8. ThrottledIsPausedTime'
    BY <2>2, <2>6, <2>7 DEF ThrottledIsPausedTime, TypeOK, Sound, Controller
  <2>9. QED
    BY <2>2, <2>6, <2>7, <2>8 DEF TypeOK, Sound, HoldsSlot, In, SlotsAreCounted,
                                  WaitersHaveAReleaser
<1>13. CASE Tick
  <2>1. /\ pauseLeft' = Passed(pauseLeft)
        /\ pausedFor' = IF pauseLeft > 0 THEN pausedFor + 1 ELSE pausedFor
        /\ sinceStart' = IF sinceStart = NotStarted THEN NotStarted
                         ELSE Smaller(MaxRetryAfter, sinceStart + 1)
        /\ wakeIn' = [t \in Task |-> Passed(wakeIn[t])]
        /\ UNCHANGED <<ctl, inFlight, phase, calibrated, fetches>>
    BY <1>13 DEF Tick
  <2>2. TypeOK'
    BY <2>1 DEF TypeOK, Passed, Larger, Smaller, NotStarted
  <2>3. ThrottledIsPausedTime'
    BY <2>1 DEF ThrottledIsPausedTime, TypeOK, Controller, Passed, Larger
  <2>4. QED
    BY <2>1, <2>2, <2>3 DEF Sound, HoldsSlot, In, SlotsAreCounted,
                            WaitersHaveAReleaser
<1>14. CASE UNCHANGED vars
  BY <1>14 DEF vars, TypeOK, Sound, HoldsSlot, In, SlotsAreCounted,
              WaitersHaveAReleaser, ThrottledIsPausedTime
<1>15. QED
  BY <1>1, <1>2, <1>3, <1>4, <1>5, <1>7, <1>9, <1>10, <1>11, <1>12, <1>13,
     <1>14 DEF Next, Step, Rest

THEOREM GateInvariant == Spec => []GateInv
BY InitGate, StepKeepsGate, PTL DEF Spec

\* The gate keeps its types.
THEOREM GateTypes == Spec => []TypeOK
<1>1. GateInv => TypeOK
  BY DEF GateInv
<1>2. QED
  BY GateInvariant, <1>1, PTL

\* A task that waits unnotified waits for a fetch that will give back a slot.
THEOREM NobodyWaitsForNothing == Spec => []WaitersHaveAReleaser
<1>1. GateInv => WaitersHaveAReleaser
  BY DEF GateInv
<1>2. QED
  BY GateInvariant, <1>1, PTL

\* Concurrency stays within the calibrated ceiling and spacing above the
\* calibrated interval.
THEOREM OnlyEverTightens == Spec => []OnlyTightens
<1>1. GateInv => OnlyTightens
  BY DEF GateInv, Sound, OnlyTightens
<1>2. QED
  BY GateInvariant, <1>1, PTL

\* Overlapping pauses are counted once.
THEOREM PausesAreCountedOnce == Spec => []ThrottledIsPausedTime
<1>1. GateInv => ThrottledIsPausedTime
  BY DEF GateInv
<1>2. QED
  BY GateInvariant, <1>1, PTL

\* While the history is whole, the recommendation is what the crawl came down
\* to.
THEOREM RecommendationHeld == Spec => []RecommendsWhatHeld
<1>1. GateInv => RecommendsWhatHeld
  BY DEF GateInv, Sound, RecommendsWhatHeld, Recommended
<1>2. QED
  BY GateInvariant, <1>1, PTL

\* The report's throttled time and recommendation are those of the crawl.
THEOREM ReportsTellTheTruth == Spec => []ReportIsTrue
BY PausesAreCountedOnce, RecommendationHeld,
   PTL DEF ReportIsTrue

\* A start is a round of _wait_for_timing that found nothing to wait for.
LEMMA StartsAreChecked ==
    ASSUME TypeOK, NEW t \in Task, NEW u \in Task,
           CheckTiming(u) \/ TakeSlotOrWait(u),
           phase[t] # "fetching", phase'[t] = "fetching"
    PROVE  /\ pauseLeft = 0
           /\ sinceStart # NotStarted => sinceStart >= ctl.interval
BY DEF TakeSlotOrWait, TypeOK, CheckTiming, Sleep, Wait, Spacing, Larger, Controller, NotStarted

\* No fetch starts inside a pause or closer to the last start than the spacing.
THEOREM StartsAreSpaced == Spec => StartsKeepTheirDistance
<1>1. TypeOK /\ [Next]_vars =>
        [\A t \in Task :
           phase[t] # "fetching" /\ phase'[t] = "fetching" =>
             /\ pauseLeft = 0
             /\ sinceStart # NotStarted => sinceStart >= ctl.interval]_vars
  <2> SUFFICES ASSUME TypeOK, Next, NEW t \in Task,
                      phase[t] # "fetching", phase'[t] = "fetching"
               PROVE  /\ pauseLeft = 0
                      /\ sinceStart # NotStarted => sinceStart >= ctl.interval
    OBVIOUS
  <2>1. ASSUME NEW u \in Task, Enter(u) \/ Retest(u) \/ Wake(u)
        PROVE  /\ pauseLeft = 0
               /\ sinceStart # NotStarted => sinceStart >= ctl.interval
    BY <2>1, StartsAreChecked DEF Enter, Retest, Wake
  <2>2. ASSUME NEW u \in Task, Respond(u) \/ Fail(u) PROVE FALSE
    BY <2>2 DEF Respond, Fail, GiveBack, Leave, TypeOK
  <2>3. ASSUME NEW u \in Task,
               RecordNothing(u) \/ RecordPressure(u) \/ RecordAnswer(u)
        PROVE  FALSE
    BY <2>3 DEF RecordNothing, RecordPressure, RecordAnswer, Record, TypeOK
  <2>4. CASE ProbesAnswered \/ ProbeRefused
    BY <2>4 DEF ProbesAnswered, ProbeRefused, Calibrate
  <2>5. CASE Tick
    BY <2>5 DEF Tick
  <2>6. CASE Rest
    BY <2>6 DEF Rest, vars
  <2>7. QED
    BY <2>1, <2>2, <2>3, <2>4, <2>5, <2>6 DEF Next, Step
<1>2. QED
  BY GateTypes, <1>1, PTL DEF Spec, StartsKeepTheirDistance

--------------------
\* Of any sets of members of a finite set one has no other within it.
Collections(S) == (SUBSET (SUBSET S)) \ {{}}

HasMinimal(T) == \E x \in T : \A y \in T : y \subseteq x => y = x

LEMMA MinimalExists ==
  ASSUME NEW S, IsFiniteSet(S), NEW T \in Collections(S)
  PROVE  HasMinimal(T)
<1>0. T \subseteq SUBSET S /\ T # {}
  BY DEF Collections
<1>1. FiniteSubsetsOf(S) = SUBSET S
  BY FS_FiniteSubsetsOfFinite
<1>2. IsWellFoundedOn(StrictSubsetOrdering(S), SUBSET S)
  BY <1>1, FS_StrictSubsetOrderingWellFounded
<1> DEFINE R == StrictSubsetOrdering(S)
           P == SUBSET S
<1>3. IsWellFoundedOn(R, P) /\ T \subseteq P
  BY <1>0, <1>2
<1>4. \E x \in T : \A y \in T : ~(<<y, x>> \in R)
  <2> HIDE DEF R, P
  <2>1. QED
    BY <1>0, <1>3, WFMin
<1>5. QED
  BY <1>0, <1>4 DEF StrictSubsetOrdering, HasMinimal

\* A finite set of numbers has a least and a greatest member.
LEMMA ExtremesExist ==
  ASSUME NEW S, S \subseteq Nat, IsFiniteSet(S), S # {}
  PROVE  (\E u \in S : \A v \in S : u <= v) /\ (\E u \in S : \A v \in S : v <= u)
<1>0. \A T : T \in Collections(S) => HasMinimal(T)
  BY MinimalExists
<1>1. \E u \in S : \A v \in S : u <= v
  <2> DEFINE Upto(u) == {w \in S : w <= u}
             T == {Upto(u) : u \in S}
  <2>0. T \in Collections(S)
    <3>1. T \subseteq SUBSET S /\ T # {}
      OBVIOUS
    <3> HIDE DEF T
    <3>2. QED
      BY <3>1 DEF Collections
  <2>1. HasMinimal(T)
    <3> HIDE DEF T
    <3>1. QED
      BY <1>0, <2>0
  <2>2. PICK x \in T : \A y \in T : y \subseteq x => y = x
    <3> HIDE DEF T
    <3>1. QED
      BY <2>1 DEF HasMinimal
  <2>3. PICK u \in S : x = Upto(u)
    BY <2>2
  <2>4. ASSUME NEW v \in S, v < u
        PROVE  FALSE
    <3>1. \A w \in S : w <= v => w <= u
      BY <2>4
    <3>2. u <= u /\ ~(u <= v)
      BY <2>4
    <3>3. Upto(v) \subseteq Upto(u)
      BY <3>1
    <3>4. u \in Upto(u) /\ u \notin Upto(v)
      BY <3>2
    <3>5. Upto(v) \in T
      OBVIOUS
    <3>6. QED
      BY <2>2, <2>3, <3>3, <3>4, <3>5
  <2>5. QED
    BY <2>4
<1>2. \E u \in S : \A v \in S : v <= u
  <2> DEFINE From(u) == {w \in S : u <= w}
             T == {From(u) : u \in S}
  <2>0. T \in Collections(S)
    <3>1. T \subseteq SUBSET S /\ T # {}
      OBVIOUS
    <3> HIDE DEF T
    <3>2. QED
      BY <3>1 DEF Collections
  <2>1. HasMinimal(T)
    <3> HIDE DEF T
    <3>1. QED
      BY <1>0, <2>0
  <2>2. PICK x \in T : \A y \in T : y \subseteq x => y = x
    <3> HIDE DEF T
    <3>1. QED
      BY <2>1 DEF HasMinimal
  <2>3. PICK u \in S : x = From(u)
    BY <2>2
  <2>4. ASSUME NEW v \in S, u < v
        PROVE  FALSE
    <3>1. \A w \in S : v <= w => u <= w
      BY <2>4
    <3>2. u <= u /\ ~(v <= u)
      BY <2>4
    <3>3. From(v) \subseteq From(u)
      BY <3>1
    <3>4. u \in From(u) /\ u \notin From(v)
      BY <3>2
    <3>5. From(v) \in T
      OBVIOUS
    <3>6. QED
      BY <2>2, <2>3, <3>3, <3>4, <3>5
  <2>5. QED
    BY <2>4
<1>3. QED
  BY <1>1, <1>2

--------------------
\* The inductive invariant of the hreflang audit: its facts are those of the
\* pages judged so far.
HreflangInv ==
    /\ at \in {"crawl", "judge", "ended"}
    /\ \A u \in Url : page[u] \in Answers[u] \cup {Unfetched}
    /\ DOMAIN page = Url
    /\ rows \subseteq Url /\ todo \subseteq rows
    /\ at = "crawl" => rows = {} /\ facts = {}
    /\ at = "ended" => todo = {}
    /\ facts = UNION {FactsOf(u) : u \in rows \ todo}

LEMMA RowOfIs ==
  ASSUME HreflangAssumption, rows \subseteq Url, NEW n, RowOf(n) # Absent
  PROVE  RowOf(n) \in rows /\ Norm[RowOf(n)] = n
<1> DEFINE same == {u \in rows : Norm[u] = n}
<1>1. same \subseteq Nat /\ IsFiniteSet(same)
  BY FS_Subset DEF HreflangAssumption
<1>2. RowOf(n) = IF same = {} THEN Absent ELSE CHOOSE u \in same : \A v \in same : v <= u
  BY DEF RowOf
<1>3. same # {} => RowOf(n) \in same
  <2> HIDE DEF same
  <2>1. QED
    BY <1>1, <1>2, ExtremesExist
<1>4. QED
  BY <1>2, <1>3

LEMMA FactsStay ==
  ASSUME UNCHANGED <<page, rows>>
  PROVE  \A u : FactsOf(u)' = FactsOf(u)
<1>1. page' = page /\ rows' = rows
  OBVIOUS
<1>2. \A n : RowOf(n)' = RowOf(n)
  BY <1>1 DEF RowOf
<1>3. EdgePairs' = EdgePairs /\ Languages' = Languages
  <2>1. EdgePairs' = EdgePairs
    BY <1>1, Zenon DEF EdgePairs
  <2>2. Languages' = Languages
    BY <1>1, Zenon DEF Languages
  <2>3. QED
    BY <2>1, <2>2
<1>4. \A u, h : NonReciprocal(u, h)' <=> NonReciprocal(u, h)
  BY <1>3, Zenon DEF NonReciprocal
<1>5. \A k, u, t, h : Applies(k, u, t, h)' <=> Applies(k, u, t, h)
  <2>1. \A t, h : Noncanonical(t, h)' <=> Noncanonical(t, h)
    BY <1>1, Zenon DEF Noncanonical
  <2>2. \A t : page'[t] = page[t]
    BY <1>1
  <2>3. ASSUME NEW k, NEW u, NEW t, NEW h
        PROVE  Applies(k, u, t, h)' <=> Applies(k, u, t, h)
    <3>1. /\ NonReciprocal(u, h)' <=> NonReciprocal(u, h)
          /\ Noncanonical(t, h)' <=> Noncanonical(t, h)
          /\ page'[t] = page[t]
      BY <1>4, <2>1, <2>2
    <3>2. QED
      BY ONLY <3>1, SMT DEF Applies
  <2>4. QED
    BY <2>3
<1>6. \A u, t, h : TargetFacts(u, t, h)' = TargetFacts(u, t, h)
  BY <1>5 DEF TargetFacts, Fact
<1>7. \A u : AlternateFacts(u)' = AlternateFacts(u)
  BY <1>1, <1>2, <1>6 DEF AlternateFacts
<1>8. \A u : LocaleFacts(u)' = LocaleFacts(u) /\ BloatFacts(u)' = BloatFacts(u)
  BY <1>1, <1>3, Zenon DEF LocaleFacts, Declared, BloatFacts, HtmlCount
<1>9. QED
  BY <1>7, <1>8, Zenon DEF FactsOf

LEMMA HreflangStarts == HreflangInit => HreflangInv
  BY DEF HreflangInit, HreflangInv

LEMMA HreflangKeeps ==
  ASSUME HreflangAssumption, HreflangInv, [HreflangNext]_hreflangVars
  PROVE  HreflangInv'
<1> USE DEF HreflangInv
<1>1. ASSUME NEW u \in Url, SavePage(u)
      PROVE  HreflangInv'
  <2>1. PICK a \in Answers[u] : page' = [page EXCEPT ![u] = a]
    BY <1>1 DEF SavePage
  <2>2. /\ UNCHANGED <<sitemap, rows, todo, facts, at>> /\ at = "crawl"
        /\ rows = {} /\ facts = {} /\ todo = {}
    BY <1>1 DEF SavePage
  <2>3. \A v \in Url : page'[v] \in Answers[v] \cup {Unfetched}
    BY <2>1
  <2>4. DOMAIN page' = Url
    BY <2>1
  <2>5. UNION {FactsOf(v) : v \in rows \ todo}' = {}
    BY <2>2
  <2>6. QED
    BY <2>2, <2>3, <2>4, <2>5
<1>2. CASE SaveSitemapEdges \/ EndReport \/ UNCHANGED hreflangVars
  <2>1. /\ UNCHANGED <<page, rows, todo, facts>>
        /\ at' = at \/ (at' = "ended" /\ todo = {} /\ at = "judge")
    BY <1>2 DEF SaveSitemapEdges, EndReport, hreflangVars
  <2>2. UNION {FactsOf(v) : v \in rows \ todo}' = UNION {FactsOf(v) : v \in rows \ todo}
    BY <2>1, FactsStay
  <2>3. QED
    BY <2>1, <2>2
<1>3. CASE ReadPages
  <2>1. /\ UNCHANGED <<page, facts>> /\ rows' \subseteq Url /\ todo' = rows' /\ at' = "judge" /\ facts = {}
    BY <1>3 DEF ReadPages
  <2>2. UNION {FactsOf(v) : v \in rows \ todo}' = {}
    BY <2>1
  <2>3. QED
    BY <2>1, <2>2
<1>4. CASE JudgePage
  <2> DEFINE u == CHOOSE v \in todo : \A w \in todo : v <= w
  <2>1. /\ UNCHANGED <<page, rows, at>> /\ at = "judge" /\ todo # {}
        /\ facts' = facts \cup FactsOf(u) /\ todo' = todo \ {u}
    BY <1>4 DEF JudgePage
  <2>2. todo \subseteq Nat /\ IsFiniteSet(todo)
    BY FS_Subset DEF HreflangAssumption
  <2>3. u \in todo
    BY <2>1, <2>2, ExtremesExist
  <2> HIDE DEF u
  <2>4. rows' \ todo' = (rows \ todo) \cup {u}
    BY <2>1, <2>3
  <2> DEFINE before == UNION {FactsOf(v) : v \in rows \ todo}
             after == UNION {FactsOf(v) : v \in rows \ todo}'
  <2>5. \A f : f \in after <=> \E v \in (rows \ todo) \cup {u} : f \in FactsOf(v)
    BY <2>1, <2>4, FactsStay
  <2>6. \A f : f \in after <=> f \in before \/ f \in FactsOf(u)
    BY <2>5
  <2>7. facts = before
    OBVIOUS
  <2>8. facts' = after
    <3> HIDE DEF before, after, HreflangInv
    <3>1. QED
      BY <2>1, <2>6, <2>7
  <2>9. QED
    BY <2>1, <2>8
<1>5. QED
  BY <1>1, <1>2, <1>3, <1>4 DEF HreflangNext

--------------------
\* The annotations without a return link that the audit reports of a page.
LEMMA UnreturnedOf ==
  ASSUME NEW u, NEW f
  PROVE  f \in FactsOf(u) /\ f.kind = "non-reciprocal" <=>
            \E h \in page[u].heads : /\ RowOf(Norm[h.to]) # Absent /\ NonReciprocal(u, h)
                                     /\ f = Fact("non-reciprocal", u, RowOf(Norm[h.to]), h)
<1>1. \A k, t, h : Fact(k, u, t, h).kind = k
  BY DEF Fact
<1>2. f \in LocaleFacts(u) => f.kind = "locale-mismatch"
  BY DEF LocaleFacts
<1>3. f \in BloatFacts(u) => f.kind = "html-bloat-without-sitemap"
  BY DEF BloatFacts
<1>4. f \in AlternateFacts(u) <=> \E h \in page[u].heads : f \in TargetFacts(u, RowOf(Norm[h.to]), h)
  BY DEF AlternateFacts
<1>5. \A t, h : f \in TargetFacts(u, t, h) /\ f.kind = "non-reciprocal" <=>
                   t # Absent /\ NonReciprocal(u, h) /\ f = Fact("non-reciprocal", u, t, h)
  <2>1. \A t, h : f \in TargetFacts(u, t, h) <=>
                     \E k \in Faults : t # Absent /\ Applies(k, u, t, h) /\ f = Fact(k, u, t, h)
    BY DEF TargetFacts
  <2>2. \A t, h : Applies("non-reciprocal", u, t, h) <=> NonReciprocal(u, h)
    BY DEF Applies
  <2>3. "non-reciprocal" \in Faults
    BY DEF Faults
  <2>4. QED
    BY <1>1, <2>1, <2>2, <2>3
<1>6. f \in FactsOf(u) /\ f.kind = "non-reciprocal" <=> f \in AlternateFacts(u) /\ f.kind = "non-reciprocal"
  BY <1>2, <1>3 DEF FactsOf
<1>7. QED
  BY <1>4, <1>5, <1>6

LEMMA GroupsAgree ==
  ASSUME HreflangInv
  PROVE  AgreesWithGroups
<1> SUFFICES ASSUME at = "ended"
             PROVE  {<<f.url, f.to>> : f \in {g \in facts : g.kind = "non-reciprocal"}} =
                    {e \in ReciprocityIssues(EdgesAsWritten) : RowOf(Norm[e[2]]) # Absent}
  BY DEF AgreesWithGroups
<1> DEFINE Told == {<<f.url, f.to>> : f \in {g \in facts : g.kind = "non-reciprocal"}}
           Found == {e \in ReciprocityIssues(EdgesAsWritten) : RowOf(Norm[e[2]]) # Absent}
           IsUnreturned(u, h) == RowOf(Norm[h.to]) # Absent /\ NonReciprocal(u, h)
<1>1. \A e : e \in EdgesAsWritten <=> \E u \in rows : \E h \in page[u].heads : e = <<u, h.to>>
  BY DEF EdgesAsWritten
<1>2. \A e : e \in EdgePairs <=> \E u \in rows : \E h \in page[u].heads : e = <<Norm[u], Norm[h.to]>>
  BY DEF EdgePairs
<1>3. \A u, h : <<Norm[h.to], Norm[u]>> \in EdgePairs <=>
                   \E b \in EdgesAsWritten : Norm[b[1]] = Norm[h.to] /\ Norm[b[2]] = Norm[u]
  <2>1. ASSUME NEW u, NEW h, <<Norm[h.to], Norm[u]>> \in EdgePairs
        PROVE  \E b \in EdgesAsWritten : Norm[b[1]] = Norm[h.to] /\ Norm[b[2]] = Norm[u]
    <3>1. PICK v \in rows : \E k \in page[v].heads : <<Norm[h.to], Norm[u]>> = <<Norm[v], Norm[k.to]>>
      BY <1>2, <2>1
    <3>2. PICK k \in page[v].heads : Norm[h.to] = Norm[v] /\ Norm[u] = Norm[k.to]
      BY <3>1
    <3>3. <<v, k.to>> \in EdgesAsWritten
      BY <1>1, <3>2
    <3>4. QED
      BY <3>2, <3>3
  <2>2. ASSUME NEW u, NEW h, NEW b \in EdgesAsWritten, Norm[b[1]] = Norm[h.to], Norm[b[2]] = Norm[u]
        PROVE  <<Norm[h.to], Norm[u]>> \in EdgePairs
    <3>1. PICK v \in rows : \E k \in page[v].heads : b = <<v, k.to>>
      BY <1>1
    <3>2. PICK k \in page[v].heads : b = <<v, k.to>>
      BY <3>1
    <3>3. <<Norm[v], Norm[k.to]>> \in EdgePairs
      BY <1>2, <3>2
    <3>4. QED
      BY <2>2, <3>2, <3>3
  <2>3. QED
    BY <2>1, <2>2
<1>4. \A p : p \in Told <=> \E u \in rows : \E h \in page[u].heads : IsUnreturned(u, h) /\ p = <<u, h.to>>
  <2>1. facts = UNION {FactsOf(u) : u \in rows}
    <3>1. rows \ todo = rows
      BY DEF HreflangInv
    <3>2. QED
      BY <3>1 DEF HreflangInv
  <2>2. \A p : p \in Told <=> \E u \in rows : \E f \in FactsOf(u) : f.kind = "non-reciprocal" /\ p = <<f.url, f.to>>
    BY <2>1
  <2>3. \A u, t, h : Fact("non-reciprocal", u, t, h).url = u /\ Fact("non-reciprocal", u, t, h).to = h.to
    BY DEF Fact
  <2>4. \A u, p : (\E f \in FactsOf(u) : f.kind = "non-reciprocal" /\ p = <<f.url, f.to>>)
                     <=> \E h \in page[u].heads : IsUnreturned(u, h) /\ p = <<u, h.to>>
    BY <2>3, UnreturnedOf
  <2> HIDE DEF Told, IsUnreturned
  <2>5. QED
    BY <2>2, <2>4
<1>5. \A p : p \in Found <=> \E u \in rows : \E h \in page[u].heads : IsUnreturned(u, h) /\ p = <<u, h.to>>
  <2>1. \A p : p \in Found <=>
           /\ p \in EdgesAsWritten /\ RowOf(Norm[p[2]]) # Absent /\ Norm[p[1]] # Norm[p[2]]
           /\ ~\E b \in EdgesAsWritten : Norm[b[1]] = Norm[p[2]] /\ Norm[b[2]] = Norm[p[1]]
    BY DEF ReciprocityIssues
  <2>2. \A u, h : IsUnreturned(u, h) <=>
           /\ RowOf(Norm[h.to]) # Absent /\ Norm[h.to] # Norm[u]
           /\ ~\E b \in EdgesAsWritten : Norm[b[1]] = Norm[h.to] /\ Norm[b[2]] = Norm[u]
    BY <1>3 DEF NonReciprocal
  <2> HIDE DEF Found, IsUnreturned
  <2>3. QED
    BY <1>1, <2>1, <2>2
<1>6. Told = Found
  <2> HIDE DEF Told, Found, IsUnreturned
  <2>1. \A p : p \in Told <=> p \in Found
    BY <1>4, <1>5
  <2>2. Told \subseteq Found /\ Found \subseteq Told
    BY <2>1
  <2>3. QED
    BY <2>2
<1>7. QED
  BY <1>6

LEMMA SilenceFollows ==
  ASSUME HreflangAssumption, HreflangInv
  PROVE  SoundClusterIsSilent
<1> SUFFICES ASSUME at = "ended",
                    NEW u \in rows,
                    \A v \in rows :
                       /\ page[v].ok /\ page[v].indexable
                       /\ page[v].canonical # Absent => Norm[page[v].canonical] = Norm[v]
                       /\ Declared(v) \subseteq {Folder[v]} /\ HtmlCount(v) <= MaxHtml
                       /\ \A w \in rows : \E h \in page[v].heads : Norm[h.to] = Norm[w]
             PROVE  FactsOf(u) = {}
  BY DEF SoundClusterIsSilent, HreflangInv
<1>1. rows \subseteq Url
  BY DEF HreflangInv
<1>2. AlternateFacts(u) = {}
  <2>1. SUFFICES ASSUME NEW h \in page[u].heads, RowOf(Norm[h.to]) # Absent, NEW k \in Faults
                 PROVE  ~Applies(k, u, RowOf(Norm[h.to]), h)
    BY DEF AlternateFacts, TargetFacts
  <2> DEFINE t == RowOf(Norm[h.to])
  <2>2. t \in rows /\ Norm[t] = Norm[h.to]
    BY <1>1, <2>1, RowOfIs
  <2>3. PICK back \in page[t].heads : Norm[back.to] = Norm[u]
    BY <2>2
  <2>4. <<Norm[h.to], Norm[u]>> \in EdgePairs
    <3>1. <<Norm[t], Norm[back.to]>> \in EdgePairs
      BY <2>2, <2>3 DEF EdgePairs
    <3>2. QED
      BY <2>2, <2>3, <3>1
  <2>5. page[t].ok /\ page[t].indexable /\ ~Noncanonical(t, h) /\ ~NonReciprocal(u, h)
    BY <2>2, <2>4 DEF Noncanonical, NonReciprocal
  <2> HIDE DEF t
  <2>6. ~Applies(k, u, t, h)
    BY <2>5 DEF Applies
  <2>7. QED
    BY <2>6 DEF t
<1>3. LocaleFacts(u) = {}
  BY DEF LocaleFacts
<1>4. BloatFacts(u) = {}
  <2>1. HtmlCount(u) \in Nat
    <3>1. IsFiniteSet(page[u].heads)
      <4>1. Unfetched.heads = {} /\ page[u] \in Answers[u] \cup {Unfetched}
        BY <1>1 DEF HreflangInv, Unfetched
      <4>2. QED
        BY <1>1, <4>1, FS_EmptySet DEF HreflangAssumption
    <3>2. QED
      BY <3>1, FS_Subset, FS_CardinalityType DEF HtmlCount
  <2>2. ~(HtmlCount(u) > MaxHtml)
    BY <2>1 DEF HreflangAssumption
  <2>3. QED
    BY <2>2 DEF BloatFacts
<1>5. QED
  BY <1>2, <1>3, <1>4 DEF FactsOf

\* For every site, sitemap and normalisation of URLs: the audit and hreflang-groups name the
\* same annotations without a return link, and a cluster without fault gives no fact.
THEOREM HreflangIsSound ==
  ASSUME HreflangAssumption
  PROVE  HreflangSpec => [](AgreesWithGroups /\ SoundClusterIsSilent)
<1>1. HreflangInit => HreflangInv
  BY HreflangStarts
<1>2. HreflangInv /\ [HreflangNext]_hreflangVars => HreflangInv'
  BY HreflangKeeps
<1>3. HreflangInv => AgreesWithGroups /\ SoundClusterIsSilent
  BY GroupsAgree, SilenceFollows
<1>4. QED
  BY <1>1, <1>2, <1>3, PTL DEF HreflangSpec

=============================================================================
