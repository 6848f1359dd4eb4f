------------------------- MODULE RobotsPolicyProofs -------------------------
(*
Permits of a host and requests for its robots.txt, for every set of tasks
and every Crawl-delay.

A sleeper's remaining sleep and the time since the host's last fetch
add up to its delay; what keeps it so is that nobody else permits a
page while it holds the delay's lock.

Then compare-renders: what its verdicts say of a page, and how its
sample is spread.  A verdict is of the capture that the page still has
(ParityInv); the strata take turns in rounds, and a candidate is chosen
once as many of its stratum were taken as come before it (SampleInv).
*)
EXTENDS RobotsPolicy, RenderParity, FiniteSetTheorems, TLAPS

\* A sleeper holds the delay's lock, and wakes when its delay is over.
SleepersHoldTheLock ==
    \A t \in Task : phase[t] = "sleeping" =>
        delayLock = t /\ sinceFetch + wakeIn[t] >= delay[t]

\* Between is_allowed and get_crawl_delay there is no await.
OneRuns ==
    \A t, u \in Task : phase[t] = "allowed" /\ phase[u] = "allowed" => t = u

\* A request for robots.txt is under way only under the lock, and only while the
\* cache has no answer.
FetchersHoldTheLock ==
    \A t \in Task : \A call \in Locking :
        phase[t] = FetchOf(call) => rulesLock = t /\ entry = NoRules

RobotsInv == TypeOK /\ SleepersHoldTheLock /\ OneRuns

--------------------
LEMMA PhaseNames ==
    /\ {"idle", "allowed", "delayed", "sleeping"} \subseteq Phases
    /\ Locking \subseteq Phases
    /\ \A call \in Locking :
          /\ FetchOf(call) \in Phases
          /\ call \notin {"idle", "allowed", "delayed", "sleeping"}
          /\ FetchOf(call) \notin {"idle", "allowed", "delayed", "sleeping"}
BY DEF Phases, Locking, Checking, Asking, FetchOf

LEMMA RulesAreTyped ==
    ASSUME RobotsAssumption PROVE
    /\ NoRules \notin Rules /\ AllowAll \in Rules
    /\ \A rules \in Rules \cup {NoRules} : CachedDelay(rules) \in 0..MaxDelay
BY DEF RobotsAssumption, NoRules, Rules, AllowAll, CachedDelay

LEMMA InitRobots ==
    ASSUME RobotsAssumption PROVE Init => RobotsInv
<1> SUFFICES ASSUME Init PROVE RobotsInv
  OBVIOUS
<1>1. MaxDelay \in 0..MaxDelay /\ 0 \in 0..MaxDelay
  BY DEF RobotsAssumption
<1>2. \A t \in Task : phase[t] = "idle"
  BY DEF Init
<1>3. TypeOK
  BY <1>1, PhaseNames DEF Init, TypeOK
<1>4. QED
  BY <1>2, <1>3 DEF RobotsInv, SleepersHoldTheLock, OneRuns

\* A task that has its rules goes on, is skipped or learns its delay; no other
\* task may be past is_allowed.
LEMMA ReturnedKeeps ==
    ASSUME RobotsAssumption, RobotsInv, NEW t \in Task, NEW call \in Locking,
           NEW rules \in Rules \cup {NoRules}, Returned(t, call, rules),
           GoingOn \subseteq {t}, phase[t] # "sleeping",
           entry' \in Rules \cup {NoRules}, failed' \in BOOLEAN,
           rulesLock' \in Task \cup {NoTask},
           UNCHANGED <<delayLock, sinceFetch, wakeIn>>
    PROVE  RobotsInv'
<1>1. \/ phase' = [phase EXCEPT ![t] = "allowed"] /\ UNCHANGED delay
      \/ phase' = [phase EXCEPT ![t] = "idle"] /\ UNCHANGED delay
      \/ /\ phase' = [phase EXCEPT ![t] = "delayed"]
         /\ delay' = [delay EXCEPT ![t] = CachedDelay(entry')]
  BY DEF Returned, Goto
<1>2. CachedDelay(entry') \in 0..MaxDelay
  BY RulesAreTyped
<1>3. TypeOK'
  BY <1>1, <1>2, PhaseNames DEF RobotsInv, TypeOK
<1>4. \A u \in Task : u # t => phase'[u] = phase[u] /\ delay'[u] = delay[u]
  BY <1>1 DEF RobotsInv, TypeOK
<1>5. phase'[t] \in {"allowed", "idle", "delayed"}
  BY <1>1 DEF RobotsInv, TypeOK
<1>6. SleepersHoldTheLock'
  BY <1>4, <1>5 DEF RobotsInv, SleepersHoldTheLock
<1>7. OneRuns'
  BY <1>4 DEF OneRuns, GoingOn
<1>8. QED
  BY <1>3, <1>6, <1>7 DEF RobotsInv

\* Queueing for a lock, or starting the fetch under it, concerns no one else.
LEMMA QueueingKeeps ==
    ASSUME RobotsAssumption, RobotsInv, NEW t \in Task, NEW next \in Phases \ {"allowed", "sleeping"},
           Goto(t, next), phase[t] # "sleeping",
           rulesLock' \in Task \cup {NoTask},
           UNCHANGED <<entry, failed, delayLock, sinceFetch, wakeIn, delay>>
    PROVE  RobotsInv'
BY DEF RobotsInv, TypeOK, SleepersHoldTheLock, OneRuns, Goto

LEMMA GetRulesKeeps ==
    ASSUME RobotsAssumption, RobotsInv, NEW t \in Task, NEW call \in Locking, GetRules(t, call),
           GoingOn \subseteq {t}, phase[t] # "sleeping"
    PROVE  RobotsInv'
BY ReturnedKeeps, QueueingKeeps, PhaseNames DEF GetRules, RobotsInv, TypeOK

LEMMA LockedKeeps ==
    ASSUME RobotsAssumption, RobotsInv, NEW t \in Task, NEW call \in Locking, Locked(t, call)
    PROVE  RobotsInv'
BY PhaseNames, ReturnedKeeps, QueueingKeeps DEF Locked, RobotsInv, TypeOK

LEMMA AnswerKeeps ==
    ASSUME RobotsAssumption, RobotsInv, NEW t \in Task, NEW call \in Locking, Answer(t, call)
    PROVE  RobotsInv'
<1>1. /\ phase[t] = FetchOf(call) /\ GoingOn = {} /\ rulesLock' = NoTask
      /\ UNCHANGED <<delayLock, sinceFetch, wakeIn>>
      /\ entry \in Rules \cup {NoRules} /\ failed \in BOOLEAN
  BY DEF Answer, FetchedRules, FetchedMissing, FetchedUnreachable, FetchedNothing,
         Fetched, RobotsInv, TypeOK
<1>2. phase[t] # "sleeping"
  BY <1>1, PhaseNames
<1>3. PICK rules \in Rules \cup {NoRules} :
         Returned(t, call, rules) /\ entry' \in Rules \cup {NoRules} /\ failed' \in BOOLEAN
  BY <1>1, RulesAreTyped
     DEF Answer, FetchedRules, FetchedMissing, FetchedUnreachable, FetchedNothing
<1>4. QED
  BY <1>1, <1>2, <1>3, ReturnedKeeps

--------------------
\* Permits, sleeps and time.
LEMMA ExpireKeeps ==
    ASSUME RobotsAssumption PROVE RobotsInv /\ Expire => RobotsInv'
BY DEF RobotsInv, TypeOK, SleepersHoldTheLock, OneRuns, Expire

LEMMA PermitUndelayedKeeps ==
    ASSUME RobotsAssumption, RobotsInv, NEW t \in Task, PermitUndelayed(t) PROVE RobotsInv'
BY PhaseNames, QueueingKeeps DEF PermitUndelayed, RobotsInv, TypeOK

\* A permit is given only when no one else sleeps.
LEMMA PermitKeeps ==
    ASSUME RobotsAssumption, RobotsInv, NEW t \in Task, Permit(t),
           \A u \in Task \ {t} : phase[u] # "sleeping",
           delayLock' \in Task \cup {NoTask},
           UNCHANGED <<entry, failed, rulesLock, delay, wakeIn>>
    PROVE  RobotsInv'
<1>1. phase' = [phase EXCEPT ![t] = "idle"] /\ sinceFetch' = 0
  BY DEF Permit, Goto
<1>2. TypeOK'
  BY <1>1, PhaseNames DEF RobotsAssumption, RobotsInv, TypeOK
<1>3. \A u \in Task : phase'[u] # "sleeping"
  BY <1>1 DEF RobotsInv, TypeOK
<1>4. OneRuns'
  BY <1>1 DEF RobotsInv, TypeOK, OneRuns
<1>5. QED
  BY <1>2, <1>3, <1>4 DEF RobotsInv, SleepersHoldTheLock

LEMMA WaitKeeps ==
    ASSUME RobotsAssumption, RobotsInv, NEW t \in Task, WaitForHostDelay(t) PROVE RobotsInv'
<1>1. /\ phase[t] = "delayed" /\ delayLock = NoTask
      /\ UNCHANGED <<entry, failed, rulesLock, delay>>
  BY DEF WaitForHostDelay
<1>2. \A u \in Task : phase[u] # "sleeping"
  BY <1>1 DEF RobotsAssumption, RobotsInv, SleepersHoldTheLock
<1>3. CASE sinceFetch >= delay[t]
  BY <1>1, <1>2, <1>3, PermitKeeps DEF WaitForHostDelay, RobotsInv, TypeOK
<1>4. CASE ~(sinceFetch >= delay[t])
  <2>1. /\ phase' = [phase EXCEPT ![t] = "sleeping"]
        /\ wakeIn' = [wakeIn EXCEPT ![t] = delay[t] - sinceFetch]
        /\ delayLock' = t /\ UNCHANGED sinceFetch
    BY <1>4 DEF WaitForHostDelay, Goto
  <2>2. delay[t] \in 0..MaxDelay /\ sinceFetch \in 0..MaxDelay
    BY DEF RobotsInv, TypeOK
  <2>3. /\ delay[t] - sinceFetch \in 0..MaxDelay
        /\ sinceFetch + (delay[t] - sinceFetch) >= delay[t]
    BY <1>4, <2>2 DEF RobotsAssumption
  <2>4. TypeOK'
    BY <1>1, <2>1, <2>3, PhaseNames DEF RobotsInv, TypeOK
  <2>5. \A u \in Task : phase'[u] = "sleeping" => u = t
    BY <1>2, <2>1 DEF RobotsInv, TypeOK
  <2>6. wakeIn'[t] = delay[t] - sinceFetch
    BY <2>1 DEF RobotsInv, TypeOK
  <2>7. SleepersHoldTheLock'
    BY <1>1, <2>1, <2>3, <2>5, <2>6 DEF SleepersHoldTheLock
  <2>8. OneRuns'
    BY <2>1 DEF RobotsInv, TypeOK, OneRuns
  <2>9. QED
    BY <2>4, <2>7, <2>8 DEF RobotsInv
<1>5. QED
  BY <1>3, <1>4

LEMMA WakeKeeps ==
    ASSUME RobotsAssumption, RobotsInv, NEW t \in Task, Wake(t) PROVE RobotsInv'
BY PermitKeeps DEF Wake, RobotsInv, SleepersHoldTheLock

LEMMA TickKeeps ==
    ASSUME RobotsAssumption PROVE RobotsInv /\ Tick => RobotsInv'
<1> SUFFICES ASSUME RobotsInv, Tick PROVE RobotsInv'
  OBVIOUS
<1>1. /\ sinceFetch' = Smaller(MaxDelay, sinceFetch + 1)
      /\ wakeIn' = [u \in Task |-> Larger(0, wakeIn[u] - 1)]
      /\ UNCHANGED <<entry, failed, rulesLock, delayLock, phase, delay>>
  BY DEF Tick
<1>2. sinceFetch \in 0..MaxDelay
  BY DEF RobotsInv, TypeOK
<1>3. sinceFetch' \in 0..MaxDelay
  BY <1>1, <1>2 DEF RobotsAssumption, Smaller
<1>4. \A u \in Task : wakeIn'[u] \in 0..MaxDelay
  BY <1>1 DEF RobotsAssumption, RobotsInv, TypeOK, Larger
<1>5. TypeOK'
  BY <1>1, <1>3, <1>4 DEF RobotsInv, TypeOK
<1>6. SleepersHoldTheLock'
  <2> SUFFICES ASSUME NEW u \in Task, phase[u] = "sleeping"
               PROVE  delayLock = u /\ sinceFetch' + wakeIn'[u] >= delay[u]
    BY <1>1 DEF SleepersHoldTheLock
  <2>1. /\ delayLock = u /\ sinceFetch + wakeIn[u] >= delay[u]
        /\ wakeIn[u] \in 0..MaxDelay /\ delay[u] \in 0..MaxDelay
    BY DEF RobotsInv, TypeOK, SleepersHoldTheLock
  <2>2. wakeIn'[u] = Larger(0, wakeIn[u] - 1)
    BY <1>1
  <2>3. QED
    BY <1>1, <1>2, <2>1, <2>2 DEF RobotsAssumption, Smaller, Larger
<1>7. OneRuns'
  BY <1>1 DEF RobotsInv, OneRuns
<1>8. QED
  BY <1>5, <1>6, <1>7 DEF RobotsInv

LEMMA RobotsStepKeeps ==
    ASSUME RobotsAssumption, RobotsInv, [Next]_vars PROVE RobotsInv'
<1>1. CASE UNCHANGED vars
  BY <1>1 DEF vars, RobotsInv, TypeOK, SleepersHoldTheLock, OneRuns
<1>2. ASSUME NEW t \in Task, Check(t) \/ AskDelay(t) PROVE RobotsInv'
  <2>1. GoingOn \subseteq {t} /\ phase[t] # "sleeping"
    BY <1>2 DEF Check, AskDelay, GoingOn, RobotsInv, OneRuns
  <2>2. QED
    BY <1>2, <2>1, GetRulesKeeps DEF Check, AskDelay, Locking
<1>3. ASSUME NEW t \in Task, Step(t) PROVE RobotsInv'
  BY <1>2, <1>3, LockedKeeps, AnswerKeeps, PermitUndelayedKeeps, WaitKeeps, WakeKeeps
     DEF Step
<1>4. QED
  BY <1>1, <1>2, <1>3, ExpireKeeps, TickKeeps DEF Next

LEMMA RobotsInvariant ==
    ASSUME RobotsAssumption PROVE Spec => []RobotsInv
<1>1. Init => RobotsInv
  BY InitRobots
<1>2. RobotsInv /\ [Next]_vars => RobotsInv'
  BY RobotsStepKeeps
<1>3. QED
  BY <1>1, <1>2, PTL DEF Spec

--------------------
\* A request is under way only under the lock and without a fresh answer.
LEMMA FetchersKeepTheLock ==
    ASSUME RobotsAssumption, RobotsInv, FetchersHoldTheLock, [Next]_vars
    PROVE  FetchersHoldTheLock'
<1>1. phase \in [Task -> Phases] /\ NoTask \notin Task
  BY DEF RobotsAssumption, RobotsInv, TypeOK
<1>2. CASE UNCHANGED vars \/ Expire \/ Tick
  BY <1>2 DEF vars, Expire, Tick, FetchersHoldTheLock
<1>3. ASSUME NEW t \in Task, NEW call \in Locking,
             GetRules(t, call) \/ Locked(t, call) \/ Answer(t, call)
      PROVE  FetchersHoldTheLock'
  <2>1. CASE GetRules(t, call)
    <3>1. PICK next \in {"idle", "allowed", "delayed", call} :
                 phase' = [phase EXCEPT ![t] = next] /\ UNCHANGED <<rulesLock, entry>>
      BY <2>1 DEF GetRules, Returned, Goto
    <3>2. \A other \in Locking : next # FetchOf(other)
      BY <3>1, PhaseNames DEF FetchOf, Locking, Checking, Asking
    <3>3. QED
      BY <1>1, <3>1, <3>2 DEF FetchersHoldTheLock
  <2>2. CASE Locked(t, call)
    BY <1>1, <2>2, PhaseNames DEF Locked, Returned, Goto, FetchersHoldTheLock, Cached
  <2>3. CASE Answer(t, call)
    <3>1. /\ phase[t] = FetchOf(call) /\ rulesLock = t
          /\ \E next \in {"idle", "allowed", "delayed"} : phase' = [phase EXCEPT ![t] = next]
      BY <2>3 DEF Answer, FetchedRules, FetchedMissing, FetchedUnreachable, FetchedNothing,
                  Fetched, Returned, Goto, FetchersHoldTheLock
    <3>2. QED
      BY <1>1, <3>1, PhaseNames DEF FetchersHoldTheLock
  <2>4. QED
    BY <1>3, <2>1, <2>2, <2>3
<1>4. ASSUME NEW t \in Task, PermitUndelayed(t) \/ WaitForHostDelay(t) \/ Wake(t)
      PROVE  FetchersHoldTheLock'
  BY <1>1, <1>4, PhaseNames
     DEF PermitUndelayed, WaitForHostDelay, Wake, Permit, Goto, FetchersHoldTheLock
<1>5. QED
  BY <1>2, <1>3, <1>4 DEF Next, Step, Check, AskDelay, Locking

LEMMA FetchersInvariant ==
    ASSUME RobotsAssumption PROVE Spec => []FetchersHoldTheLock
<1>1. Init => FetchersHoldTheLock
  BY PhaseNames DEF Init, FetchersHoldTheLock
<1>2. RobotsInv /\ FetchersHoldTheLock /\ [Next]_vars => FetchersHoldTheLock'
  BY FetchersKeepTheLock
<1>3. QED
  BY <1>1, <1>2, RobotsInvariant, PTL DEF Spec

\* A step of one task moves no other; a task asks only if the host has not failed
\* or it asked before, and goes on only from a check that asked.
LEMMA OnlyTheQueuedAskStep ==
    ASSUME RobotsAssumption, RobotsInv, Next PROVE OnlyTheQueuedAsk
<1> SUFFICES ASSUME failed PROVE failed' /\ Asked' \subseteq Asked /\ GoingOn' \subseteq GoingOn \cup Asked
  BY DEF OnlyTheQueuedAsk
<1>1. phase \in [Task -> Phases]
  BY DEF RobotsInv, TypeOK
<1>2. CASE Expire \/ Tick
  BY <1>2 DEF Expire, Tick, Asked, Fetching, GoingOn
<1>3. ASSUME NEW t \in Task, NEW call \in Locking, GetRules(t, call),
             call = Checking \/ phase[t] = "allowed"
      PROVE  failed' /\ Asked' \subseteq Asked /\ GoingOn' \subseteq GoingOn \cup Asked
  <2>1. failed' /\ Returned(t, call, NoRules)
    BY <1>3 DEF GetRules
  <2>2. phase' = [phase EXCEPT ![t] = "idle"] \/ phase' = [phase EXCEPT ![t] = "delayed"]
    BY <2>1 DEF Returned, Verdict, Goto
  <2>3. QED
    BY <1>1, <2>1, <2>2, PhaseNames DEF Asked, Fetching, GoingOn
<1>4. ASSUME NEW t \in Task, NEW call \in Locking, Locked(t, call) \/ Answer(t, call)
      PROVE  failed' /\ Asked' \subseteq Asked /\ GoingOn' \subseteq GoingOn \cup Asked
  <2>1. failed' /\ t \in Asked
    BY <1>4 DEF Locked, Answer, FetchedRules, FetchedMissing, FetchedUnreachable,
                FetchedNothing, Fetched, Asked, Fetching
  <2>2. \E next : phase' = [phase EXCEPT ![t] = next]
    BY <1>4 DEF Locked, Answer, FetchedRules, FetchedMissing, FetchedUnreachable,
                FetchedNothing, Returned, Goto
  <2>3. QED
    BY <1>1, <2>1, <2>2 DEF Asked, Fetching, GoingOn
<1>5. ASSUME NEW t \in Task, PermitUndelayed(t) \/ WaitForHostDelay(t) \/ Wake(t)
      PROVE  failed' /\ Asked' \subseteq Asked /\ GoingOn' \subseteq GoingOn \cup Asked
  BY <1>1, <1>5, PhaseNames
     DEF PermitUndelayed, WaitForHostDelay, Wake, Permit, Goto, Asked, Fetching, GoingOn
<1>6. QED
  BY <1>2, <1>3, <1>4, <1>5 DEF Next, Step, Check, AskDelay, Locking

--------------------
\* The rules, locks, delays and sleeps of a host keep their types.
THEOREM RobotsTypes == ASSUME RobotsAssumption PROVE Spec => []TypeOK
<1>1. RobotsInv => TypeOK
  BY DEF RobotsInv
<1>2. QED
  BY <1>1, RobotsInvariant, PTL

\* For any number of tasks and any answers: a request for robots.txt is made
\* alone and without a fresh answer in the cache, and once the host has failed only
\* the checks that queued before ask again and go on by the answers.
THEOREM RobotsAreAsked ==
    ASSUME RobotsAssumption PROVE Spec => RobotsAreAskedOnce
<1>1. RobotsInv /\ FetchersHoldTheLock /\ [Next]_vars
        => [OneFetch' /\ OnlyTheQueuedAsk]_vars
  <2> SUFFICES ASSUME RobotsInv, FetchersHoldTheLock, Next
               PROVE  OneFetch' /\ OnlyTheQueuedAsk
    OBVIOUS
  <2>1. FetchersHoldTheLock'
    BY FetchersKeepTheLock
  <2>2. OneFetch'
    BY <2>1 DEF FetchersHoldTheLock, OneFetch, Fetching, Cached
  <2>3. OnlyTheQueuedAsk
    BY OnlyTheQueuedAskStep
  <2>4. QED
    BY <2>2, <2>3
<1>2. QED
  BY <1>1, RobotsInvariant, FetchersInvariant, PTL DEF Spec, RobotsAreAskedOnce

\* For any number of tasks and any Crawl-delay, _wait_for_host_delay spaces the
\* permits of a host by at least the delay of the later one.
THEOREM PermitsKeepTheirDistance ==
    ASSUME RobotsAssumption PROVE Spec => PermitsAreSpaced
<1> DEFINE Spaced ==
        \A t \in Task :
            phase[t] \in {"delayed", "sleeping"} /\ phase'[t] = "idle" =>
                sinceFetch >= delay[t]
<1>1. RobotsInv /\ [Next]_vars => [Spaced]_vars
  <2> SUFFICES ASSUME RobotsInv, Next, NEW t \in Task,
                      phase[t] \in {"delayed", "sleeping"}, phase'[t] = "idle"
               PROVE  sinceFetch >= delay[t]
    OBVIOUS
  <2>1. sinceFetch \in 0..MaxDelay /\ phase \in [Task -> Phases]
    BY DEF RobotsInv, TypeOK
  <2>2. CASE Expire \/ Tick
    BY <2>2 DEF Expire, Tick
  <2>3. ASSUME NEW u \in Task, Check(u) \/ Step(u) PROVE u = t
    <3>1. u # t => phase'[t] = phase[t]
      BY <2>1, <2>3
         DEF Check, Step, AskDelay, GetRules, Returned, Locked, Answer, FetchedRules,
             FetchedMissing, FetchedUnreachable, FetchedNothing, PermitUndelayed,
             WaitForHostDelay, Wake, Permit, Goto
    <3>2. QED
      BY <3>1
  <2>4. CASE PermitUndelayed(t)
    BY <2>1, <2>4 DEF RobotsAssumption, PermitUndelayed
  <2>5. CASE WaitForHostDelay(t)
    BY <2>1, <2>5 DEF WaitForHostDelay, Goto
  <2>6. CASE Wake(t)
    BY <2>1, <2>6 DEF Wake, RobotsInv, SleepersHoldTheLock
  <2>7. ~Check(t) /\ ~AskDelay(t)
        /\ \A call \in Locking : ~Locked(t, call) /\ ~Answer(t, call)
    BY PhaseNames
       DEF Check, AskDelay, Locked, Answer, FetchedRules, FetchedMissing,
           FetchedUnreachable, FetchedNothing, Fetched
  <2>8. QED
    BY <2>2, <2>3, <2>4, <2>5, <2>6, <2>7 DEF Next, Step
<1>2. QED
  BY <1>1, RobotsInvariant, PTL DEF Spec, PermitsAreSpaced

--------------------
\* What the browser may have given for a page.
CaptureIs(u, c) ==
    \/ c \in {Waiting, Loading, Unavailable}
    \/ c \in Captured(u) /\ (c.settled => c.dom = page[u].dom)

\* A verdict is of the capture that the page still has.
VerdictIs(u, v, c) ==
    \/ v \in {NoVerdict, Inconclusive}
    \/ /\ c \in Captured(u) /\ ~c.truncated
       /\ v = Compared(u, c)

ParityInv ==
    /\ page \in [Url -> Pages]
    /\ DOMAIN capture = Url /\ DOMAIN verdict = Url
    /\ \A u \in Url : CaptureIs(u, capture[u])
    /\ \A u \in Url : VerdictIs(u, verdict[u], capture[u])

LEMMA CapturedIs ==
  ASSUME NEW u, NEW c \in Captured(u)
  PROVE  /\ c.state = "captured" /\ c.settled \in BOOLEAN /\ c.truncated \in BOOLEAN
         /\ ~c.truncated => c.raw = page[u].raw
         /\ c \notin {Waiting, Loading, Unavailable}
<1>1. PICK settled \in BOOLEAN, cut \in BOOLEAN, dom \in {page[u].dom, page[u].raw} :
         c = [state |-> "captured", settled |-> settled, truncated |-> cut, dom |-> dom,
              raw |-> IF cut THEN Cut(page[u].raw) ELSE page[u].raw]
  BY DEF Captured
<1>2. /\ c.state = "captured" /\ c.settled = settled /\ c.truncated = cut
      /\ c.raw = IF cut THEN Cut(page[u].raw) ELSE page[u].raw
  BY ONLY <1>1
<1>3. Waiting.state = "waiting" /\ Loading.state = "loading" /\ Unavailable.state = "unavailable"
  BY DEF Waiting, Loading, Unavailable
<1>4. QED
  BY <1>2, <1>3

LEMMA ParityStarts == RenderInit => ParityInv
<1> SUFFICES ASSUME RenderInit
             PROVE  ParityInv
  OBVIOUS
<1>1. capture = [u \in Url |-> Waiting] /\ verdict = [u \in Url |-> NoVerdict] /\ page \in [Url -> Pages]
  BY DEF RenderInit
<1>2. \A u \in Url : capture[u] = Waiting /\ verdict[u] = NoVerdict
  BY <1>1
<1>3. QED
  BY <1>1, <1>2 DEF ParityInv, CaptureIs, VerdictIs

LEMMA ParityKeeps ==
  ASSUME ParityInv, [RenderNext]_renderVars
  PROVE  ParityInv'
<1>1. CASE UNCHANGED <<page, capture, verdict>>
  BY <1>1 DEF ParityInv, CaptureIs, VerdictIs, Captured, Compared, ConflictFindings
<1>2. ASSUME NEW u \in Url, NEW c, CaptureIs(u, c),
             UNCHANGED <<page, verdict>>, capture' = [capture EXCEPT ![u] = c],
             capture[u] \in {Waiting, Loading}
      PROVE  ParityInv'
  <2>1. /\ DOMAIN capture' = Url /\ capture'[u] = c
        /\ \A v \in Url \ {u} : capture'[v] = capture[v]
    BY <1>2 DEF ParityInv
  <2>2. verdict[u] \in {NoVerdict, Inconclusive}
    BY <1>2, CapturedIs DEF ParityInv, VerdictIs
  <2>3. \A d : \A v \in Url : (CaptureIs(v, d)' <=> CaptureIs(v, d))
    BY <1>2 DEF CaptureIs, Captured
  <2>4. \A w, d : \A v \in Url : (VerdictIs(v, w, d)' <=> VerdictIs(v, w, d))
    BY <1>2 DEF VerdictIs, Captured, Compared, ConflictFindings
  <2>5. ASSUME NEW v \in Url
        PROVE  CaptureIs(v, capture'[v]) /\ VerdictIs(v, verdict[v], capture'[v])
    <3>1. CASE v = u
      BY <1>2, <2>1, <2>2, <3>1 DEF VerdictIs
    <3>2. CASE v # u
      BY <2>1, <3>2 DEF ParityInv
    <3>3. QED
      BY <3>1, <3>2
  <2>6. QED
    BY <1>2, <2>1, <2>3, <2>4, <2>5 DEF ParityInv
<1>3. ASSUME NEW u \in Url, LoadPage(u)
      PROVE  ParityInv'
  BY <1>2, <1>3 DEF LoadPage, CaptureIs
<1>4. ASSUME NEW u \in Url, CapturePage(u)
      PROVE  ParityInv'
  <2>1. PICK c \in Captured(u) : (c.settled => c.dom = page[u].dom) /\ capture' = [capture EXCEPT ![u] = c]
    BY <1>4 DEF CapturePage
  <2>2. QED
    BY <1>2, <1>4, <2>1 DEF CapturePage, CaptureIs
<1>5. ASSUME NEW u \in Url, LosePage(u)
      PROVE  ParityInv'
  BY <1>2, <1>5 DEF LosePage, CaptureIs
<1>6. ASSUME NEW u \in Url, ComparePage(u)
      PROVE  ParityInv'
  <2>1. /\ UNCHANGED <<page, capture>> /\ capture[u] \notin {Waiting, Loading}
        /\ verdict' = [verdict EXCEPT ![u] = IF NotComparable(capture[u]) THEN Inconclusive
                                             ELSE Compared(u, capture[u])]
    BY <1>6 DEF ComparePage, IsCaptured
  <2>2. /\ DOMAIN verdict' = Url
        /\ verdict'[u] = (IF NotComparable(capture[u]) THEN Inconclusive ELSE Compared(u, capture[u]))
        /\ \A v \in Url \ {u} : verdict'[v] = verdict[v]
    BY <2>1 DEF ParityInv
  <2>3. VerdictIs(u, verdict'[u], capture[u])
    BY <2>1, <2>2 DEF ParityInv, CaptureIs, VerdictIs, NotComparable
  <2>4. \A w, d : \A v \in Url : (VerdictIs(v, w, d)' <=> VerdictIs(v, w, d))
    BY <2>1 DEF VerdictIs, Captured, Compared, ConflictFindings
  <2>5. \A d : \A v \in Url : (CaptureIs(v, d)' <=> CaptureIs(v, d))
    BY <2>1 DEF CaptureIs, Captured
  <2>6. QED
    BY <2>1, <2>2, <2>3, <2>4, <2>5 DEF ParityInv
<1>7. CASE TakeFromStratum \/ StartComparing \/ WriteComparison \/ PersistSession
           \/ (\E u \in Url : CompareRaises(u)) \/ UNCHANGED renderVars
  BY <1>1, <1>7 DEF TakeFromStratum, StartComparing, WriteComparison, PersistSession, CompareRaises, renderVars
<1>8. QED
  BY <1>3, <1>4, <1>5, <1>6, <1>7 DEF RenderNext

--------------------
\* A verdict other than none and inconclusive has the findings of its capture.
LEMMA ComparedIs ==
  ASSUME ParityInv, NEW u \in Url, verdict[u].state \notin {"none", "inconclusive"}
  PROVE  LET c == capture[u]
         IN  /\ c \in Captured(u) /\ ~c.truncated /\ c.raw = page[u].raw
             /\ verdict[u].state = StateOf(c)
             /\ c.settled => c.dom = page[u].dom
             /\ FieldFindings(c.raw, c.dom) \cup LinkFindings(c.raw, c.dom)
                   \cup TextFindings(c.raw, c.dom) \subseteq verdict[u].findings
             /\ verdict[u].summary = "equivalent" => verdict[u].findings = {} /\ c.settled
<1> DEFINE c == capture[u]
           all == FieldFindings(c.raw, c.dom) \cup LinkFindings(c.raw, c.dom)
                      \cup TextFindings(c.raw, c.dom) \cup ConflictFindings(u)
                      \cup (IF StateOf(c) = "partial" THEN {Incomplete} ELSE {})
           summary == IF StateOf(c) = "partial" THEN "partial"
                      ELSE IF all = {} THEN "equivalent" ELSE "different"
<1>1. NoVerdict.state = "none" /\ Inconclusive.state = "inconclusive"
  BY DEF NoVerdict, Inconclusive
<1>2. c \in Captured(u) /\ ~c.truncated /\ verdict[u] = Compared(u, c)
  BY <1>1 DEF ParityInv, VerdictIs
<1>3. verdict[u] = [state |-> StateOf(c), findings |-> all, summary |-> summary]
  BY <1>2, Zenon DEF Compared
<1>4. c.raw = page[u].raw /\ (c.settled => c.dom = page[u].dom)
  BY <1>2, CapturedIs DEF ParityInv, CaptureIs
<1>5. summary = "equivalent" => all = {} /\ c.settled
  BY DEF StateOf
<1>6. FieldFindings(c.raw, c.dom) \cup LinkFindings(c.raw, c.dom) \cup TextFindings(c.raw, c.dom) \subseteq all
  OBVIOUS
<1> HIDE DEF all, summary
<1>7. verdict[u].state = StateOf(c) /\ verdict[u].findings = all /\ verdict[u].summary = summary
  BY ONLY <1>3
<1>8. QED
  BY <1>2, <1>4, <1>5, <1>6, <1>7

LEMMA PageIs ==
  ASSUME RenderAssumption, ParityInv, NEW u \in Url
  PROVE  page[u].raw \in Rendering /\ page[u].dom \in Rendering
  BY DEF RenderAssumption, ParityInv

LEMMA EquivalentFollows ==
  ASSUME RenderAssumption, ParityInv
  PROVE  EquivalentIsAlike
<1> SUFFICES ASSUME NEW u \in Url, verdict[u].state # "none", verdict[u].summary = "equivalent"
             PROVE  /\ page[u].raw.field = page[u].dom.field /\ page[u].raw.links = page[u].dom.links
                    /\ Alike(page[u].raw.text, page[u].dom.text)
  BY DEF EquivalentIsAlike
<1> DEFINE raw == page[u].raw
           dom == page[u].dom
<1>1. verdict[u].state # "inconclusive"
  <2>1. Inconclusive.summary = "inconclusive" /\ NoVerdict.state = "none"
    BY DEF Inconclusive, NoVerdict
  <2>2. CASE verdict[u] \in {NoVerdict, Inconclusive}
    BY <2>1, <2>2
  <2>3. CASE verdict[u] = Compared(u, capture[u])
    <3>1. verdict[u].state = StateOf(capture[u])
      BY <2>3 DEF Compared
    <3>2. QED
      BY <3>1 DEF StateOf
  <2>4. QED
    BY <2>2, <2>3 DEF ParityInv, VerdictIs
<1>2. FieldFindings(raw, dom) = {} /\ LinkFindings(raw, dom) = {} /\ TextFindings(raw, dom) = {}
  BY <1>1, ComparedIs
<1>3. raw \in Rendering /\ dom \in Rendering
  BY PageIs
<1> HIDE DEF raw, dom
<1>4. raw.field = dom.field
  <2>1. \A f \in Field : raw.field[f] = dom.field[f]
    BY <1>2 DEF FieldFindings
  <2>2. raw.field \in [Field -> Value] /\ dom.field \in [Field -> Value]
    BY <1>3 DEF Rendering
  <2>3. QED
    BY <2>1, <2>2
<1>5. raw.links = dom.links
  BY <1>2 DEF LinkFindings
<1>6. Alike(raw.text, dom.text)
  BY <1>2 DEF TextFindings
<1>7. QED
  BY <1>4, <1>5, <1>6 DEF raw, dom

LEMMA GateFollows ==
  ASSUME RenderAssumption, ParityInv, Sample \subseteq Url
  PROVE  GateHoldsBackChanges
<1> SUFFICES ASSUME ExitOf("high", TRUE) = "ok", NEW u \in Sample, NEW f \in {"canonical", "meta_robots"},
                    page[u].raw.field[f] # page[u].dom.field[f]
             PROVE  FALSE
  BY DEF GateHoldsBackChanges
<1>1. /\ \A v \in Verdicts : v.state = "complete"
      /\ \A v \in Verdicts : \A g \in v.findings : ~(Rank[g.severity] >= Rank["high"])
  BY Zenon DEF ExitOf
<1>2. u \in Url /\ verdict[u] \in Verdicts
  BY DEF Verdicts
<1>3. verdict[u].state = "complete"
  BY <1>1, <1>2
<1>4. LET c == capture[u]
      IN  c.raw = page[u].raw /\ c.dom = page[u].dom /\ FieldFindings(c.raw, c.dom) \subseteq verdict[u].findings
  <2>1. verdict[u].state = StateOf(capture[u]) /\ capture[u] \in Captured(u)
    BY <1>2, <1>3, ComparedIs
  <2>2. capture[u].settled
    BY <1>3, <2>1 DEF StateOf
  <2>3. QED
    BY <1>2, <1>3, <2>2, ComparedIs
<1>5. Finding(f, Weight[f]) \in verdict[u].findings
  BY <1>4 DEF FieldFindings, Field, Weight
<1>6. Weight[f] = "high"
  BY DEF Weight
<1>7. Finding(f, Weight[f]).severity = "high"
  BY <1>6 DEF Finding
<1>8. Rank["high"] = 3
  BY DEF Rank
<1>9. QED
  BY <1>1, <1>2, <1>5, <1>7, <1>8

--------------------
\* How many of its bucket come before a candidate.
Ahead(u) == Cardinality({v \in Bucket(stratum[u]) : v < u})
Size(s) == Cardinality(Bucket(s))

\* Before the cursor a stratum gave one more than behind it, if it had one.
InRounds ==
    \E r \in Nat : \A s \in Stratum :
        position[s] = IF s < cursor THEN (IF Size(s) < r + 1 THEN Size(s) ELSE r + 1)
                      ELSE (IF Size(s) < r THEN Size(s) ELSE r)

SampleInv ==
    /\ stratum \in [Url -> Stratum] /\ candidates \subseteq Url
    /\ position \in [Stratum -> Nat] /\ cursor \in Stratum
    /\ selected \in Seq(Url)
    /\ from = "run" =>
          /\ IsInjective(selected) /\ Len(selected) <= MaxPages
          /\ Range(selected) \subseteq candidates
          /\ \A u \in candidates : u \in Range(selected) <=> Ahead(u) < position[stratum[u]]
          /\ InRounds
          /\ outcome # "selecting" => SampleIsFull

LEMMA StrataAreCounted ==
  ASSUME RenderAssumption
  PROVE  \E n \in Nat \ {0} : Stratum = 1..n
<1>1. Cardinality(Stratum) \in Nat /\ Stratum # {} /\ Stratum = 1..Cardinality(Stratum)
  BY FS_CardinalityType DEF RenderAssumption
<1>2. Cardinality(Stratum) # 0
  BY <1>1
<1>3. QED
  BY <1>1, <1>2

LEMMA BucketsAreFinite ==
  ASSUME RenderAssumption, candidates \subseteq Url
  PROVE  /\ \A s : IsFiniteSet(Bucket(s)) /\ Size(s) \in Nat
         /\ \A u : IsFiniteSet({v \in Bucket(stratum[u]) : v < u}) /\ Ahead(u) \in Nat
<1>1. \A s : IsFiniteSet(Bucket(s))
  BY FS_Subset DEF RenderAssumption, Bucket
<1>2. \A u : IsFiniteSet({v \in Bucket(stratum[u]) : v < u})
  BY <1>1, FS_Subset
<1>3. QED
  BY <1>1, <1>2, FS_CardinalityType DEF Size, Ahead

LEMMA AheadGrows ==
  ASSUME RenderAssumption, candidates \subseteq Url, NEW u \in candidates, NEW w \in candidates,
         stratum[u] = stratum[w], u < w
  PROVE  Ahead(u) < Ahead(w)
<1> DEFINE U == {v \in Bucket(stratum[u]) : v < u}
           W == {v \in Bucket(stratum[w]) : v < w}
<1>1. candidates \subseteq Nat /\ Bucket(stratum[u]) = Bucket(stratum[w]) /\ Bucket(stratum[u]) \subseteq candidates
  BY DEF RenderAssumption, Bucket
<1>2. U \subseteq W
  <2>1. ASSUME NEW v \in Bucket(stratum[u]), v < u
        PROVE  v < w
    <3>1. v \in Nat /\ u \in Nat /\ w \in Nat
      BY <1>1
    <3>2. QED
      BY <2>1, <3>1
  <2>2. QED
    BY <1>1, <2>1
<1>3. u \in W /\ u \notin U
  BY <1>1 DEF Bucket
<1>4. IsFiniteSet(W)
  BY BucketsAreFinite
<1>5. Cardinality(U) # Cardinality(W) /\ Cardinality(U) <= Cardinality(W)
  BY <1>2, <1>3, <1>4, FS_Subset
<1>6. Ahead(u) = Cardinality(U) /\ Ahead(w) = Cardinality(W) /\ Ahead(u) \in Nat /\ Ahead(w) \in Nat
  BY BucketsAreFinite DEF Ahead
<1> HIDE DEF U, W
<1>7. QED
  BY <1>5, <1>6

LEMMA AheadIsInBucket ==
  ASSUME RenderAssumption, candidates \subseteq Url, NEW u \in candidates
  PROVE  Ahead(u) < Size(stratum[u])
<1> DEFINE U == {v \in Bucket(stratum[u]) : v < u}
<1>1. U \subseteq Bucket(stratum[u]) /\ u \in Bucket(stratum[u]) /\ u \notin U
  BY DEF Bucket, RenderAssumption
<1>2. Cardinality(U) # Size(stratum[u]) /\ Cardinality(U) <= Size(stratum[u])
  BY <1>1, BucketsAreFinite, FS_Subset DEF Size
<1>3. QED
  BY <1>2, BucketsAreFinite DEF Ahead

LEMMA Appended ==
  ASSUME selected \in Seq(Url), NEW u \in Url
  PROVE  /\ Append(selected, u) \in Seq(Url) /\ Len(Append(selected, u)) = Len(selected) + 1
         /\ Range(Append(selected, u)) = Range(selected) \cup {u}
         /\ IsInjective(selected) /\ u \notin Range(selected) => IsInjective(Append(selected, u))
<1> DEFINE t == Append(selected, u)
<1>1. /\ t \in Seq(Url) /\ Len(t) = Len(selected) + 1 /\ Len(selected) \in Nat
      /\ DOMAIN t = 1..(Len(selected) + 1) /\ DOMAIN selected = 1..Len(selected)
      /\ \A i \in 1..Len(selected) : t[i] = selected[i]
      /\ t[Len(selected) + 1] = u
  OBVIOUS
<1> HIDE DEF t
<1>2. \A x : x \in Range(t) <=> x \in Range(selected) \cup {u}
  BY <1>1 DEF Range
<1>3. IsInjective(selected) /\ u \notin Range(selected) => IsInjective(t)
  BY <1>1 DEF IsInjective, Range
<1>4. QED
  BY <1>1, <1>2, <1>3 DEF t

--------------------
LEMMA SampleStarts ==
  ASSUME RenderAssumption
  PROVE  RenderInit => SampleInv
<1> SUFFICES ASSUME RenderInit
             PROVE  SampleInv
  OBVIOUS
<1>1. /\ selected = <<>> /\ position = [s \in Stratum |-> 0] /\ cursor = 1 /\ outcome = "selecting"
      /\ candidates \subseteq Url /\ stratum \in [Url -> Stratum]
  BY DEF RenderInit, StoredSnapshots
<1>2. PICK n \in Nat \ {0} : Stratum = 1..n
  BY StrataAreCounted
<1>3. cursor \in Stratum /\ position \in [Stratum -> Nat] /\ \A s \in Stratum : ~(s < cursor) /\ position[s] = 0
  BY <1>1, <1>2
<1>4. selected \in Seq(Url) /\ IsInjective(selected) /\ Range(selected) = {} /\ Len(selected) = 0
  BY <1>1 DEF IsInjective, Range
<1>5. InRounds
  <2>1. \A s \in Stratum : position[s] = IF s < cursor THEN (IF Size(s) < 0 + 1 THEN Size(s) ELSE 0 + 1)
                                        ELSE (IF Size(s) < 0 THEN Size(s) ELSE 0)
    BY <1>1, <1>3, BucketsAreFinite
  <2>2. QED
    BY <2>1 DEF InRounds
<1>6. \A u \in candidates : ~(Ahead(u) < position[stratum[u]])
  <2>1. \A u : Ahead(u) \in Nat
    BY <1>1, BucketsAreFinite
  <2>2. \A u \in candidates : position[stratum[u]] = 0
    BY <1>1, <1>3
  <2>3. QED
    BY <2>1, <2>2
<1>7. MaxPages \in Nat
  BY DEF RenderAssumption
<1>8. QED
  BY <1>1, <1>3, <1>4, <1>5, <1>6, <1>7 DEF SampleInv

LEMMA CursorMoves ==
  ASSUME RenderAssumption, cursor \in Stratum
  PROVE  /\ NextStratum \in Stratum
         /\ \/ NextStratum = cursor + 1
            \/ NextStratum = 1 /\ \A s \in Stratum : s <= cursor /\ s >= 1
<1>1. PICK n \in Nat \ {0} : Stratum = 1..n
  BY StrataAreCounted
<1>2. Cardinality(Stratum) = n
  BY <1>1, FS_Interval
<1>3. QED
  BY <1>1, <1>2 DEF NextStratum

LEMMA RoundsGoOn ==
  ASSUME RenderAssumption, SampleInv, from = "run", TakeFromStratum
  PROVE  InRounds'
<1>1. PICK r \in Nat : \A s \in Stratum :
         position[s] = IF s < cursor THEN (IF Size(s) < r + 1 THEN Size(s) ELSE r + 1)
                       ELSE (IF Size(s) < r THEN Size(s) ELSE r)
  BY DEF SampleInv, InRounds
<1>2. /\ candidates \subseteq Url /\ cursor \in Stratum /\ position \in [Stratum -> Nat]
      /\ candidates' = candidates /\ stratum' = stratum /\ cursor' = NextStratum
  BY DEF SampleInv, TakeFromStratum, AfterTaking
<1>3. \A s : Size(s)' = Size(s) /\ Size(s) \in Nat
  BY <1>2, BucketsAreFinite DEF Size, Bucket
<1>4. Stratum \subseteq Nat
  BY StrataAreCounted
<1>5. /\ position'[cursor] = IF Size(cursor) < r + 1 THEN Size(cursor) ELSE r + 1
      /\ \A s \in Stratum \ {cursor} : position'[s] = position[s]
  <2>1. CASE Left(cursor)
    <3>1. position' = [position EXCEPT ![cursor] = @ + 1] /\ position[cursor] < Size(cursor)
      BY <2>1 DEF TakeFromStratum, Left, Size
    <3>2. position[cursor] = r /\ r < Size(cursor)
      BY <1>1, <1>2, <1>3, <1>4, <3>1
    <3>3. QED
      BY <1>2, <1>3, <3>1, <3>2
  <2>2. CASE ~Left(cursor)
    <3>1. position' = position /\ ~(position[cursor] < Size(cursor))
      BY <2>2 DEF TakeFromStratum, Left, Size
    <3>2. position[cursor] = Size(cursor) /\ Size(cursor) <= r
      BY <1>1, <1>2, <1>3, <1>4, <3>1
    <3>3. QED
      BY <1>3, <3>1, <3>2
  <2>3. QED
    BY <2>1, <2>2
<1>6. CASE NextStratum = cursor + 1
  <2>1. \A s \in Stratum : position'[s] = IF s < cursor' THEN (IF Size(s)' < r + 1 THEN Size(s)' ELSE r + 1)
                                          ELSE (IF Size(s)' < r THEN Size(s)' ELSE r)
    BY <1>1, <1>2, <1>3, <1>4, <1>5, <1>6
  <2>2. QED
    BY <2>1 DEF InRounds
<1>7. CASE NextStratum = 1 /\ \A s \in Stratum : s <= cursor /\ s >= 1
  <2>1. \A s \in Stratum :
           position'[s] = IF s < cursor' THEN (IF Size(s)' < r + 1 + 1 THEN Size(s)' ELSE r + 1 + 1)
                          ELSE (IF Size(s)' < r + 1 THEN Size(s)' ELSE r + 1)
    BY <1>1, <1>2, <1>3, <1>4, <1>5, <1>7
  <2>2. QED
    BY <2>1 DEF InRounds
<1>8. QED
  BY <1>2, <1>6, <1>7, CursorMoves

LEMMA TakingKeeps ==
  ASSUME RenderAssumption, SampleInv, TakeFromStratum
  PROVE  SampleInv'
<1>1. /\ from = "run" /\ outcome = "selecting" /\ ~SampleIsFull
      /\ UNCHANGED <<from, stratum, candidates, outcome>> /\ cursor' = NextStratum
  BY DEF TakeFromStratum, AfterTaking
<1>2. /\ stratum \in [Url -> Stratum] /\ candidates \subseteq Url
      /\ position \in [Stratum -> Nat] /\ cursor \in Stratum /\ selected \in Seq(Url)
      /\ IsInjective(selected) /\ Len(selected) <= MaxPages /\ Range(selected) \subseteq candidates
      /\ \A u \in candidates : u \in Range(selected) <=> Ahead(u) < position[stratum[u]]
  BY <1>1 DEF SampleInv
<1>3. cursor' \in Stratum /\ InRounds'
  BY <1>1, <1>2, CursorMoves, RoundsGoOn
<1>4. \A u : Ahead(u)' = Ahead(u)
  BY <1>1 DEF Ahead, Bucket
<1>5. CASE ~Left(cursor)
  <2>1. selected' = selected /\ position' = position
    BY <1>5 DEF TakeFromStratum
  <2>2. QED
    BY <1>1, <1>2, <1>3, <1>4, <2>1 DEF SampleInv
<1>6. CASE Left(cursor)
  <2>1. PICK u \in Url : IsAt(u, cursor, position[cursor]) /\ selected' = Append(selected, u)
    BY <1>6 DEF TakeFromStratum
  <2>2. position' = [position EXCEPT ![cursor] = @ + 1]
    BY <1>6 DEF TakeFromStratum
  <2>3. u \in candidates /\ stratum[u] = cursor /\ Ahead(u) = position[cursor]
    BY <2>1 DEF IsAt, Bucket, Ahead
  <2>4. u \notin Range(selected)
    BY <1>2, <2>3
  <2>5. /\ selected' \in Seq(Url) /\ Len(selected') = Len(selected) + 1 /\ IsInjective(selected')
        /\ Range(selected') = Range(selected) \cup {u}
    BY <1>2, <2>1, <2>4, Appended
  <2>6. Len(selected') <= MaxPages
    BY <1>1, <1>2, <2>5 DEF SampleIsFull, RenderAssumption
  <2>7. ASSUME NEW v \in candidates
        PROVE  v \in Range(selected') <=> Ahead(v) < position'[stratum[v]]
    <3>1. CASE stratum[v] # cursor
      <4>1. v # u /\ stratum[v] \in Stratum
        BY <1>2, <2>3, <3>1
      <4>2. QED
        BY <1>2, <2>2, <2>5, <3>1, <4>1
    <3>2. CASE stratum[v] = cursor
      <4>1. position'[cursor] = position[cursor] + 1 /\ position[cursor] \in Nat
        BY <1>2, <2>2
      <4>2. Ahead(v) \in Nat
        BY <1>2, BucketsAreFinite
      <4>3. Ahead(v) = Ahead(u) => v = u
        <5>1. Url \subseteq Nat /\ Ahead(u) \in Nat
          BY <1>2, BucketsAreFinite DEF RenderAssumption
        <5>2. v < u => Ahead(v) < Ahead(u)
          BY <1>2, <2>3, <3>2, AheadGrows
        <5>3. u < v => Ahead(u) < Ahead(v)
          BY <1>2, <2>3, <3>2, AheadGrows
        <5>4. QED
          BY <1>2, <2>3, <4>2, <5>1, <5>2, <5>3
      <4>4. QED
        BY <1>2, <2>3, <2>5, <3>2, <4>1, <4>2, <4>3
    <3>3. QED
      BY <3>1, <3>2
  <2>8. position' \in [Stratum -> Nat] /\ Range(selected') \subseteq candidates
    BY <1>2, <2>2, <2>3, <2>5
  <2>9. QED
    BY <1>1, <1>2, <1>3, <1>4, <2>5, <2>6, <2>7, <2>8 DEF SampleInv
<1>7. QED
  BY <1>5, <1>6

LEMMA SampleKeeps ==
  ASSUME RenderAssumption, SampleInv, [RenderNext]_renderVars
  PROVE  SampleInv'
<1> USE DEF Ahead, Size, Bucket, InRounds, SampleIsFull, Left
<1>1. CASE TakeFromStratum
  BY <1>1, TakingKeeps
<1>2. ASSUME UNCHANGED <<from, stratum, candidates, selected, position, cursor>>,
             outcome' # "selecting" => outcome # "selecting" \/ (from = "run" => SampleIsFull)
      PROVE  SampleInv'
  BY <1>2 DEF SampleInv
<1>3. CASE StartComparing
  <2>1. CASE from = "run"
    BY <1>2, <1>3, <2>1 DEF StartComparing
  <2>2. CASE from # "run"
    <3>1. selected' \in FirstGiven /\ UNCHANGED <<from, stratum, candidates, position, cursor>>
      BY <1>3, <2>2 DEF StartComparing
    <3>2. candidates \subseteq Url
      BY DEF SampleInv
    <3>3. AtMost(Cardinality(candidates)) \in Nat
      BY <3>2, FS_Subset, FS_CardinalityType DEF AtMost, RenderAssumption
    <3>4. selected' \in Seq(Url)
      BY <3>1, <3>2, <3>3 DEF FirstGiven
    <3>5. QED
      BY <2>2, <3>1, <3>4 DEF SampleInv
  <2>3. QED
    BY <2>1, <2>2
<1>4. CASE \E u \in Url : LoadPage(u) \/ CapturePage(u) \/ LosePage(u) \/ ComparePage(u) \/ CompareRaises(u)
  BY <1>2, <1>4 DEF LoadPage, CapturePage, LosePage, ComparePage, CompareRaises
<1>5. CASE WriteComparison \/ PersistSession \/ UNCHANGED renderVars
  BY <1>2, <1>5 DEF WriteComparison, PersistSession, renderVars
<1>6. QED
  BY <1>1, <1>3, <1>4, <1>5 DEF RenderNext

--------------------
LEMMA SampleFollows ==
  ASSUME RenderAssumption, SampleInv
  PROVE  SampleIsRepresentative
<1> SUFFICES ASSUME outcome # "selecting", from = "run"
             PROVE  /\ Len(selected) = AtMost(Cardinality(candidates))
                    /\ IsInjective(selected)
                    /\ \A s, t \in Stratum : Left(t) => position[s] <= position[t] + 1
  BY DEF SampleIsRepresentative
<1>1. /\ stratum \in [Url -> Stratum] /\ candidates \subseteq Url /\ position \in [Stratum -> Nat]
      /\ cursor \in Stratum /\ selected \in Seq(Url)
      /\ IsInjective(selected) /\ Len(selected) <= MaxPages /\ Range(selected) \subseteq candidates
      /\ \A u \in candidates : u \in Range(selected) <=> Ahead(u) < position[stratum[u]]
      /\ InRounds /\ SampleIsFull
  BY DEF SampleInv
<1>2. \A s, t \in Stratum : Left(t) => position[s] <= position[t] + 1
  <2>1. PICK r \in Nat : \A s \in Stratum :
           position[s] = IF s < cursor THEN (IF Size(s) < r + 1 THEN Size(s) ELSE r + 1)
                         ELSE (IF Size(s) < r THEN Size(s) ELSE r)
    BY <1>1 DEF InRounds
  <2>2. \A s : Size(s) \in Nat
    BY <1>1, BucketsAreFinite
  <2>3. \A s \in Stratum : position[s] <= r + 1 /\ position[s] \in Nat
    BY <1>1, <2>1, <2>2
  <2>4. \A t \in Stratum : Left(t) => position[t] >= r
    BY <2>1, <2>2 DEF Left, Size
  <2>5. QED
    BY <2>3, <2>4
<1>3. IsFiniteSet(candidates) /\ Cardinality(candidates) \in Nat
  BY <1>1, FS_Subset, FS_CardinalityType DEF RenderAssumption
<1>4. /\ Len(selected) \in Nat /\ DOMAIN selected = 1..Len(selected)
      /\ selected \in Injection(1..Len(selected), candidates)
      /\ IsFiniteSet(1..Len(selected)) /\ Cardinality(1..Len(selected)) = Len(selected)
  <2>1. Len(selected) \in Nat /\ DOMAIN selected = 1..Len(selected)
    BY <1>1
  <2>2. \A i \in 1..Len(selected) : selected[i] \in candidates
    BY <1>1, <2>1 DEF Range
  <2>3. selected \in [1..Len(selected) -> candidates]
    BY <1>1, <2>1, <2>2
  <2>4. IsFiniteSet(1..Len(selected)) /\ Cardinality(1..Len(selected)) = Len(selected)
    <3>1. \A n \in Nat : IsFiniteSet(1..n) /\ Cardinality(1..n) = n
      BY FS_Interval
    <3>2. QED
      BY <2>1, <3>1
  <2>5. QED
    BY <1>1, <2>1, <2>3, <2>4 DEF Injection, IsInjective
<1>5. /\ Len(selected) <= Cardinality(candidates)
      /\ selected \in Surjection(1..Len(selected), candidates) => Len(selected) = Cardinality(candidates)
  BY <1>3, <1>4, FS_Injection
<1>6. CASE Len(selected) = MaxPages
  BY <1>1, <1>2, <1>3, <1>5, <1>6 DEF AtMost, RenderAssumption
<1>7. CASE \A s \in Stratum : ~Left(s)
  <2>1. \A u \in candidates : u \in Range(selected)
    <3>1. SUFFICES ASSUME NEW u \in candidates
                   PROVE  Ahead(u) < position[stratum[u]]
      BY <1>1
    <3>2. Ahead(u) < Size(stratum[u]) /\ Ahead(u) \in Nat /\ Size(stratum[u]) \in Nat
      BY <1>1, AheadIsInBucket, BucketsAreFinite
    <3>3. ~(position[stratum[u]] < Size(stratum[u])) /\ position[stratum[u]] \in Nat
      BY <1>1, <1>7 DEF Left, Size
    <3>4. QED
      BY <3>2, <3>3
  <2>2. selected \in Surjection(1..Len(selected), candidates)
    BY <1>4, <2>1 DEF Surjection, Injection, Range
  <2>3. QED
    BY <1>1, <1>2, <1>3, <1>5, <2>2 DEF AtMost, RenderAssumption
<1>8. QED
  BY <1>1, <1>6, <1>7 DEF SampleIsFull

\* For every population, every division of it into strata and every limit: the sample of a
\* run gives each stratum its turn and is as large as it may be.
THEOREM SampleIsFair ==
  ASSUME RenderAssumption
  PROVE  RenderSpec => []SampleIsRepresentative
<1>1. RenderInit => SampleInv
  BY SampleStarts
<1>2. SampleInv /\ [RenderNext]_renderVars => SampleInv'
  BY SampleKeeps
<1>3. SampleInv => SampleIsRepresentative
  BY SampleFollows
<1>4. QED
  BY <1>1, <1>2, <1>3, PTL DEF RenderSpec

\* For every page, and whatever the browser gives of it: a page called equivalent has the
\* same fields and links before and after its scripts and, where there is text on both
\* sides, texts that are less than thirty words apart or similar; and a complete sample that
\* the gate lets by has no changed canonical or robots directive.
THEOREM RendersAreTrue ==
  ASSUME RenderAssumption
  PROVE  RenderSpec => [](EquivalentIsAlike /\ GateHoldsBackChanges)
<1>1. RenderInit => ParityInv /\ SampleInv
  BY ParityStarts, SampleStarts
<1>2. ParityInv /\ SampleInv /\ [RenderNext]_renderVars => (ParityInv /\ SampleInv)'
  BY ParityKeeps, SampleKeeps
<1>3. ParityInv /\ SampleInv => EquivalentIsAlike /\ GateHoldsBackChanges
  <2>1. SampleInv => Sample \subseteq Url
    BY DEF SampleInv, Sample, Range
  <2>2. QED
    BY <2>1, EquivalentFollows, GateFollows
<1>4. QED
  BY <1>1, <1>2, <1>3, PTL DEF RenderSpec

=============================================================================
