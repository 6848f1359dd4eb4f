--------------------------- MODULE HostGateProofs ---------------------------
(*
Proofs about the breaker and the host's semaphore, for every number of
pages, slots and failures and every recovery timeout.

The breaker's own count is what opens it, the failures told since the
last success are what it ought to open for: that the first never runs
ahead of the second is what makes the property inductive.  The type of
hostFree rests on SlotsAreKept.

Then what the audit asks of a site's AI crawler rules: the row of each
/llms.txt was answered or has a reason, and a written bundle is the one
that the answers make.
*)
EXTENDS HostGate, AiGovernance, FiniteSetTheorems, TLAPS

\* The breaker counts no failure that was not told.
CountsWhatWasTold == failureCount <= failures

GateInv ==
    /\ TypeOK
    /\ SlotsAreKept
    /\ OpenIsTimed
    /\ OpenedByEnoughFailures
    /\ CountsWhatWasTold

BreakerInv ==
    /\ state \in {Closed, Open, HalfOpen}
    /\ failureCount \in 0..MaxCount /\ failures \in 0..MaxCount
    /\ openFor \in {NotOpened} \cup 0..Recovery
    /\ OpenIsTimed /\ OpenedByEnoughFailures /\ CountsWhatWasTold

SlotsInv ==
    /\ phase \in [Task -> Phases]
    /\ hostFree \in 0..PerHost
    /\ SlotsAreKept

\* The invariant is about the breaker and about the slots, separately.
LEMMA TwoHalves == GateInv <=> BreakerInv /\ SlotsInv
BY DEF GateInv, BreakerInv, SlotsInv, TypeOK

LEMMA InitGate == Init => GateInv
<1> SUFFICES ASSUME Init PROVE GateInv
  OBVIOUS
<1>1. In({"fetching"}) = {}
  BY DEF Init, In
<1>2. Cardinality(In({"fetching"})) = 0
  BY <1>1, FS_EmptySet
<1>3. SlotsAreKept
  BY <1>2, GateAssumption DEF SlotsAreKept, Init
<1>4. TypeOK /\ OpenIsTimed /\ OpenedByEnoughFailures /\ CountsWhatWasTold
  BY GateAssumption DEF Init, TypeOK, OpenIsTimed, OpenedByEnoughFailures,
     CountsWhatWasTold, Phases, Closed, Open, HalfOpen, NotOpened
<1>5. QED
  BY <1>3, <1>4 DEF GateInv

--------------------
\* Each of the breaker's operations keeps its half.
LEMMA AllowKeeps == BreakerInv /\ Allow => BreakerInv'
BY GateAssumption
   DEF BreakerInv, Allow, ShouldAllow, TimedOut, OpenIsTimed,
       OpenedByEnoughFailures, CountsWhatWasTold, Closed, Open, HalfOpen, NotOpened

LEMMA SuccessKeeps == BreakerInv /\ RecordSuccess => BreakerInv'
BY GateAssumption
   DEF BreakerInv, RecordSuccess, OpenIsTimed, OpenedByEnoughFailures,
       CountsWhatWasTold, Closed, Open, HalfOpen, NotOpened

LEMMA FailureKeeps == BreakerInv /\ RecordFailure => BreakerInv'
<1> SUFFICES ASSUME BreakerInv, RecordFailure PROVE BreakerInv'
  OBVIOUS
<1> USE GateAssumption
    DEF BreakerInv, RecordFailure, Trip, Smaller, OpenIsTimed,
        OpenedByEnoughFailures, CountsWhatWasTold, Closed, Open, HalfOpen, NotOpened
<1>1. CASE state = HalfOpen
  BY <1>1
<1>2. CASE state # HalfOpen /\ failureCount + 1 >= Threshold
  BY <1>2
<1>3. CASE state # HalfOpen /\ failureCount + 1 < Threshold
  BY <1>3
<1>4. QED
  BY <1>1, <1>2, <1>3

LEMMA TimeKeeps == BreakerInv /\ Tick => BreakerInv'
BY GateAssumption
   DEF BreakerInv, Tick, OpenIsTimed, OpenedByEnoughFailures,
       CountsWhatWasTold, Closed, Open, HalfOpen, NotOpened

LEMMA BreakerUnchanged == BreakerInv /\ UNCHANGED breakerVars => BreakerInv'
BY DEF BreakerInv, breakerVars, OpenIsTimed, OpenedByEnoughFailures, CountsWhatWasTold

--------------------
\* A page that takes a free slot takes exactly one.
LEMMA TakesOne ==
    ASSUME SlotsInv, NEW t \in Task, phase[t] # "fetching", hostFree > 0,
           Goto(t, "fetching"), hostFree' = hostFree - 1
    PROVE  SlotsInv'
<1> DEFINE F == In({"fetching"})
<1>1. IsFiniteSet(F)
  BY GateAssumption, FS_Subset DEF In
<1>2. F' = F \cup {t} /\ t \notin F
  BY DEF SlotsInv, Goto, In
<1>3. Cardinality(F \cup {t}) = Cardinality(F) + 1
  BY <1>1, <1>2, FS_AddElement
<1>4. phase' \in [Task -> Phases]
  BY DEF SlotsInv, Goto, Phases
<1>5. Cardinality(F) \in Nat
  BY <1>1, FS_CardinalityType
<1>6. Cardinality(In({"fetching"}))' = Cardinality(F) + 1
  BY <1>2, <1>3
<1>7. hostFree \in Nat /\ hostFree <= PerHost /\ hostFree + Cardinality(F) = PerHost
  BY GateAssumption DEF SlotsInv, SlotsAreKept
<1> HIDE DEF F
<1>8. SlotsAreKept' /\ hostFree' \in 0..PerHost
  BY <1>5, <1>6, <1>7, GateAssumption DEF SlotsAreKept
<1>9. QED
  BY <1>4, <1>8 DEF SlotsInv

\* A page that ends its fetch gives one back.
LEMMA GivesOneBack ==
    ASSUME SlotsInv, NEW t \in Task, NEW next \in Phases \ {"fetching"},
           Release(t, next)
    PROVE  SlotsInv'
<1> DEFINE F == In({"fetching"})
<1>1. IsFiniteSet(F)
  BY GateAssumption, FS_Subset DEF In
<1>2. F' = F \ {t} /\ t \in F
  BY DEF SlotsInv, Release, Goto, In
<1>3. Cardinality(F \ {t}) = Cardinality(F) - 1
  BY <1>1, <1>2, FS_RemoveElement
<1>4. phase' \in [Task -> Phases]
  BY DEF SlotsInv, Release, Goto
<1>5. Cardinality(F) \in Nat /\ Cardinality(F \ {t}) \in Nat
  BY <1>1, FS_CardinalityType, FS_Subset
<1>6. Cardinality(In({"fetching"}))' = Cardinality(F \ {t})
  BY <1>2
<1>7. hostFree \in Nat /\ hostFree' = hostFree + 1 /\ hostFree + Cardinality(F) = PerHost
  BY GateAssumption DEF SlotsInv, SlotsAreKept, Release
<1> HIDE DEF F
<1>8. SlotsAreKept' /\ hostFree' \in 0..PerHost
  BY <1>3, <1>5, <1>6, <1>7, GateAssumption DEF SlotsAreKept
<1>9. QED
  BY <1>4, <1>8 DEF SlotsInv

\* The other moves of a page leave the slots alone.
LEMMA MovesKeepSlots ==
    ASSUME SlotsInv, NEW t \in Task, NEW next \in Phases \ {"fetching"},
           phase[t] # "fetching", Goto(t, next), UNCHANGED hostFree
    PROVE  SlotsInv'
BY DEF SlotsInv, Goto, In, SlotsAreKept

--------------------
LEMMA StepGate == GateInv /\ [Next]_vars => GateInv'
<1> SUFFICES ASSUME GateInv, [Next]_vars PROVE GateInv'
  OBVIOUS
<1>a. BreakerInv /\ SlotsInv
  BY TwoHalves
<1>b. SUFFICES BreakerInv' /\ SlotsInv'
  BY DEF GateInv, BreakerInv, SlotsInv, TypeOK
<1> USE <1>a
<1>1. ASSUME NEW t \in Task, Begin(t) PROVE BreakerInv' /\ SlotsInv'
  BY <1>1, BreakerUnchanged, MovesKeepSlots DEF Begin, Phases
<1>2. ASSUME NEW t \in Task, Refused(t) PROVE BreakerInv' /\ SlotsInv'
  BY <1>2, BreakerUnchanged, MovesKeepSlots DEF Refused, Phases
<1>3. ASSUME NEW t \in Task, Admitted(t) PROVE BreakerInv' /\ SlotsInv'
  BY <1>3, AllowKeeps, TakesOne, MovesKeepSlots DEF Admitted, Phases
<1>4. ASSUME NEW t \in Task, Acquire(t) PROVE BreakerInv' /\ SlotsInv'
  BY <1>4, BreakerUnchanged, TakesOne DEF Acquire
<1>5. ASSUME NEW t \in Task, Respond(t) PROVE BreakerInv' /\ SlotsInv'
  BY <1>5, BreakerUnchanged, GivesOneBack DEF Respond, Phases
<1>6. ASSUME NEW t \in Task, Raise(t) PROVE BreakerInv' /\ SlotsInv'
  BY <1>6, BreakerUnchanged, FailureKeeps, GivesOneBack DEF Raise, Phases
<1>7. ASSUME NEW t \in Task, Finish(t) PROVE BreakerInv' /\ SlotsInv'
  BY <1>7, BreakerUnchanged, FailureKeeps, SuccessKeeps, MovesKeepSlots DEF Finish, Phases
<1>8. CASE Tick
  BY <1>8, TimeKeeps DEF Tick, SlotsInv, SlotsAreKept, In
<1>9. CASE UNCHANGED vars
  BY <1>9, BreakerUnchanged DEF vars, breakerVars, SlotsInv, SlotsAreKept, In
<1>10. QED
  BY <1>1, <1>2, <1>3, <1>4, <1>5, <1>6, <1>7, <1>8, <1>9 DEF Next, Step

\* The invariant holds in every reachable state.
THEOREM GateInvariant == Spec => []GateInv
BY InitGate, StepGate, PTL DEF Spec

\* Type correctness: the host's semaphore never goes below zero or above its
\* size.
THEOREM GateTypes == Spec => []TypeOK
<1>1. GateInv => TypeOK
  BY DEF GateInv
<1>2. QED
  BY GateInvariant, <1>1, PTL

\* An open breaker always has the clock that should_allow needs to let go.
THEOREM OpenHasAClock == Spec => []OpenIsTimed
<1>1. GateInv => OpenIsTimed
  BY DEF GateInv
<1>2. QED
  BY GateInvariant, <1>1, PTL

\* The breaker leaves CLOSED only after failure_threshold failures without a
\* success in between.
THEOREM OpensForAReason == Spec => []OpenedByEnoughFailures
<1>1. GateInv => OpenedByEnoughFailures
  BY DEF GateInv
<1>2. QED
  BY GateInvariant, <1>1, PTL

\* Every slot of a host is free or held by the page that fetches.
THEOREM NoSlotIsLost == Spec => []SlotsAreKept
<1>1. GateInv => SlotsAreKept
  BY DEF GateInv
<1>2. QED
  BY GateInvariant, <1>1, PTL

--------------------
\* The rows that are recorded of an /llms.txt.
Probed ==
    {LlmsRow("robots_unavailable_not_fetched", "unknown", "robots_unavailable"),
     LlmsRow("robots_disallowed_not_fetched", "unknown", "robots_disallowed"),
     LlmsRow("fetch_unavailable", "unknown", "timeout")}
        \cup {[LlmsRow(Classify(r), "fetched", "none") EXCEPT !.answer = r] :
                 r \in LlmsResponses \ {"timeout"}}

\* What is recorded of an origin's /llms.txt says whether it was answered, and with what.
RowIsTrue(row) ==
    \/ /\ row.outcome = "unknown" /\ row.reason # "none" /\ row.answer = "none"
    \/ /\ row.outcome = "fetched" /\ row.reason = "none"
       /\ row.answer \in LlmsResponses \ {"timeout"} /\ row.state = Classify(row.answer)

LEMMA ProbedRowsAreTrue ==
  ASSUME NEW row \in Probed
  PROVE  RowIsTrue(row) /\ row # NotProbed
<1>1. CASE \E r \in LlmsResponses \ {"timeout"} :
              row = [LlmsRow(Classify(r), "fetched", "none") EXCEPT !.answer = r]
  <2>1. PICK r \in LlmsResponses \ {"timeout"} :
           row = [LlmsRow(Classify(r), "fetched", "none") EXCEPT !.answer = r]
    BY <1>1
  <2>2. /\ row.outcome = "fetched" /\ row.reason = "none" /\ row.answer = r
        /\ row.state = Classify(r)
    BY <2>1 DEF LlmsRow
  <2>3. NotProbed.outcome = "none"
    BY DEF NotProbed, LlmsRow
  <2>4. QED
    BY <2>2, <2>3 DEF RowIsTrue
<1>2. CASE row \in {LlmsRow("robots_unavailable_not_fetched", "unknown", "robots_unavailable"),
                    LlmsRow("robots_disallowed_not_fetched", "unknown", "robots_disallowed"),
                    LlmsRow("fetch_unavailable", "unknown", "timeout")}
  BY <1>2 DEF RowIsTrue, NotProbed, LlmsRow
<1>3. QED
  BY <1>1, <1>2 DEF Probed

LEMMA OutcomeIs ==
  ASSUME NEW row, RowIsTrue(row)
  PROVE  /\ row.outcome = "unknown" => LlmsOutcome(row) = <<"unknown", row.reason>>
         /\ row.outcome = "fetched" => LlmsOutcome(row) = <<"fetched", "none">>
<1> DEFINE unread == [fetch_unavailable |-> "no_response",
                      robots_unavailable_not_fetched |-> "robots_unavailable",
                      robots_disallowed_not_fetched |-> "robots_disallowed"]
<1>1. CASE row.outcome = "unknown"
  BY <1>1, Zenon DEF RowIsTrue, LlmsOutcome
<1>2. CASE row.outcome = "fetched"
  <2>1. row.state \in {"absent", "http_error", "html_soft_404", "empty", "unexpected_content_type",
                       "missing_h1_title", "valid"}
    BY <1>2, Zenon DEF RowIsTrue, Classify, LlmsResponses
  <2>2. row.state # "none" /\ row.state \notin DOMAIN unread
    BY <2>1
  <2>3. QED
    BY <1>2, <2>2, Zenon DEF LlmsOutcome
<1>3. QED
  BY <1>1, <1>2

--------------------
GovernanceInv ==
    /\ policy \in Policies /\ live \in BOOLEAN
    /\ saved \in [{} -> {}] \cup [{Seeds[1]} -> SUBSET Agents]
    /\ llms \in [Origins -> {NotProbed} \cup Probed]
    /\ response \in [Origins -> {Pending} \cup RobotsResponses]
    /\ \A o \in Selected : response[o] # Pending => \A p \in Selected : llms[p] # NotProbed
    /\ stage \in {"collecting", "refused", "written"}
    /\ stage # "written" => collections = {}
    /\ stage = "written" => collections = Bundle /\ (live => \A o \in Selected : response[o] # Pending)
    /\ OwnBundlesAreValid

LEMMA SelectedAreOrigins == Selected \subseteq Origins
  BY DEF Selected, Origins, Range

LEMMA ResponsesAre ==
  ASSUME NEW r \in RobotsResponses
  PROVE  /\ r.status \in {0, 200, 301, 404, 503} /\ (r.status # 200 => r.blocks = {})
         /\ r.blocks \subseteq Agents
  BY DEF RobotsResponses, NoResponse

--------------------
\* What the command collects passes the check of its own bundle.
LEMMA SavedIsValid == ~Problem(SavedCollection)
<1>1. ASSUME NEW o
      PROVE  ~RecordProblem(SavedRecord(o))
  BY DEF RecordProblem, SavedRecord
<1>2. QED
  BY <1>1 DEF Problem, SavedCollection

\* A record of an origin whose two requests were answered, or not.
LEMMA RecordIs ==
  ASSUME NEW o, response[o] \in RobotsResponses, RowIsTrue(llms[o])
  PROVE  LET r == RobotsRecord(o)
         IN  /\ r.host = o /\ r.status = response[o].status
             /\ r.status = 200 => r.body = response[o].blocks
             /\ IF r.status = 0 THEN r.fetch_outcome = "unknown" /\ r.unknown_reason # "none"
                ELSE r.status > 0 /\ r.fetch_outcome = "fetched" /\ r.unknown_reason = "none"
             /\ r.llms_status = llms[o].state
             /\ r.llms_outcome = llms[o].outcome
             /\ llms[o].outcome = "unknown" => r.llms_reason = llms[o].reason
             /\ llms[o].outcome = "fetched" => r.llms_reason = "none"
<1> DEFINE file == [host |-> o, status |-> response[o].status, fetch_outcome |-> "fetched",
                    unknown_reason |-> "none",
                    body |-> IF response[o].status = 200 THEN response[o].blocks ELSE {"none"},
                    llms_status |-> llms[o].state, llms_outcome |-> LlmsOutcome(llms[o])[1],
                    llms_reason |-> LlmsOutcome(llms[o])[2]]
           reason == IF response[o].reason # "none" THEN response[o].reason ELSE "no_response"
<1>1. RobotsRecord(o) = IF response[o].status > 0 THEN file
                        ELSE [file EXCEPT !.fetch_outcome = "unknown", !.unknown_reason = reason]
  BY Zenon DEF RobotsRecord
<1>2. response[o].status \in {0, 200, 301, 404, 503} /\ reason # "none"
  BY ResponsesAre
<1>3. /\ llms[o].outcome \in {"unknown", "fetched"}
      /\ LlmsOutcome(llms[o])[1] = llms[o].outcome
      /\ llms[o].outcome = "unknown" => LlmsOutcome(llms[o])[2] = llms[o].reason
      /\ llms[o].outcome = "fetched" => LlmsOutcome(llms[o])[2] = "none"
  <2>1. llms[o].outcome \in {"unknown", "fetched"}
    BY DEF RowIsTrue
  <2>2. QED
    BY <2>1, OutcomeIs
<1> HIDE DEF reason
<1>4. CASE response[o].status > 0
  BY <1>1, <1>2, <1>3, <1>4
<1>5. CASE ~(response[o].status > 0)
  BY <1>1, <1>2, <1>3, <1>5
<1>6. QED
  BY <1>4, <1>5

LEMMA LiveIsValid ==
  ASSUME \A o \in Selected : response[o] \in RobotsResponses /\ RowIsTrue(llms[o])
  PROVE  ~Problem(LiveCollection)
<1>1. ASSUME NEW o \in Selected
      PROVE  ~RecordProblem(RobotsRecord(o))
  <2> DEFINE r == RobotsRecord(o)
  <2>1. /\ IF r.status = 0 THEN r.fetch_outcome = "unknown" /\ r.unknown_reason # "none"
           ELSE r.status > 0 /\ r.fetch_outcome = "fetched" /\ r.unknown_reason = "none"
        /\ r.llms_status = llms[o].state
        /\ r.llms_outcome = llms[o].outcome
        /\ llms[o].outcome = "unknown" => r.llms_reason = llms[o].reason
        /\ llms[o].outcome = "fetched" => r.llms_reason = "none"
    BY RecordIs
  <2>2. /\ llms[o].outcome = "unknown" => llms[o].reason # "none"
        /\ llms[o].outcome = "fetched" => llms[o].state # "none"
        /\ llms[o].outcome \in {"unknown", "fetched"}
    BY Zenon DEF RowIsTrue, Classify
  <2>3. r.status = 0 \/ (r.status > 0 /\ ~(r.status <= 0))
    BY <2>1, ResponsesAre, RecordIs
  <2> HIDE DEF r
  <2>4. ~RecordProblem(r)
    BY <2>1, <2>2, <2>3 DEF RecordProblem
  <2>5. QED
    BY <2>4 DEF r
<1>2. LiveCollection.coverage = "complete" => LiveCollection.omitted = {}
  BY DEF LiveCollection, Coverage
<1>3. \A r \in LiveCollection.records : \E o \in Selected : r = RobotsRecord(o)
  BY DEF LiveCollection
<1>4. QED
  BY <1>1, <1>2, <1>3 DEF Problem

--------------------
LEMMA GovernanceStarts == GovernanceInit => GovernanceInv
<1> SUFFICES ASSUME GovernanceInit
             PROVE  GovernanceInv
  OBVIOUS
<1>1. llms = [o \in Origins |-> NotProbed] /\ response = [o \in Origins |-> Pending]
  BY DEF GovernanceInit
<1>2. \A o \in Selected : response[o] = Pending
  BY <1>1, SelectedAreOrigins
<1>3. /\ llms \in [Origins -> {NotProbed} \cup Probed]
      /\ response \in [Origins -> {Pending} \cup RobotsResponses]
  BY <1>1
<1>4. /\ policy \in Policies /\ live \in BOOLEAN
      /\ saved \in [{} -> {}] \cup [{Seeds[1]} -> SUBSET Agents]
      /\ stage = "collecting" /\ collections = {}
  BY Zenon DEF GovernanceInit
<1>5. stage \in {"collecting", "refused", "written"} /\ stage # "written" /\ stage # "refused"
  BY <1>4
<1>6. QED
  BY <1>2, <1>3, <1>4, <1>5, Zenon DEF GovernanceInv, OwnBundlesAreValid

LEMMA GovernanceKeeps ==
  ASSUME GovernanceInv, [GovernanceNext]_governanceVars
  PROVE  GovernanceInv'
<1>1. Selected \subseteq Origins
  BY SelectedAreOrigins
<1>2. ASSUME NEW o \in Selected, GetRules(o)
      PROVE  GovernanceInv'
  <2>1. /\ UNCHANGED <<inputs, llms, response, collections, stage>>
        /\ stage = "collecting"
    BY <1>2 DEF GetRules
  <2>2. QED
    BY <2>1 DEF GovernanceInv, OwnBundlesAreValid, inputs, Selected, Cap, Origins
<1>3. ASSUME NEW o \in Selected, ProbeLlms(o)
      PROVE  GovernanceInv'
  <2>1. PICK row \in Probed : llms' = [llms EXCEPT ![o] = row]
    BY <1>3, Zenon DEF ProbeLlms, Probed
  <2>2. /\ UNCHANGED <<inputs, rules, response, collections, stage>> /\ stage = "collecting"
    BY <1>3 DEF ProbeLlms
  <2>3. \A p \in Selected : llms[p] # NotProbed => llms'[p] # NotProbed
    BY <1>1, <2>1, ProbedRowsAreTrue DEF GovernanceInv
  <2>4. llms' \in [Origins -> {NotProbed} \cup Probed]
    BY <2>1 DEF GovernanceInv
  <2>5. QED
    BY <2>2, <2>3, <2>4 DEF GovernanceInv, OwnBundlesAreValid, inputs, Selected, Cap, Origins
<1>4. ASSUME NEW o \in Selected, FetchRobots(o)
      PROVE  GovernanceInv'
  <2>1. PICK r \in RobotsResponses : response' = [response EXCEPT ![o] = r]
    BY <1>4 DEF FetchRobots
  <2>2. /\ UNCHANGED <<inputs, rules, llms, collections, stage>> /\ stage = "collecting"
        /\ \A p \in Selected : llms[p] # NotProbed
    BY <1>4 DEF FetchRobots
  <2>3. response' \in [Origins -> {Pending} \cup RobotsResponses]
    BY <2>1 DEF GovernanceInv
  <2>4. QED
    BY <2>2, <2>3 DEF GovernanceInv, OwnBundlesAreValid, inputs, Selected, Cap, Origins
<1>5. CASE WriteBundle
  <2>1. /\ UNCHANGED <<inputs, rules, llms, response>>
        /\ live => \A o \in Selected : response[o] # Pending
        /\ IF Bundle = {} \/ \E c \in Bundle : Problem(c)
           THEN stage' = "refused" /\ UNCHANGED collections
           ELSE stage' = "written" /\ collections' = Bundle
        /\ collections = {}
    BY <1>5 DEF WriteBundle, GovernanceInv
  <2>2. Bundle' = Bundle
    <3>1. /\ saved' = saved /\ live' = live /\ max_origins' = max_origins
          /\ llms' = llms /\ response' = response
      BY <2>1 DEF inputs
    <3>2. SavedCollection' = SavedCollection
      BY <3>1, Zenon DEF SavedCollection, SavedRecord
    <3>3. LiveCollection' = LiveCollection
      <4>1. Selected' = Selected /\ Omitted' = Omitted
        BY <3>1, Zenon DEF Omitted, Origins, Selected, Cap
      <4>2. \A o : RobotsRecord(o)' = RobotsRecord(o)
        BY <3>1, Zenon DEF RobotsRecord
      <4>3. {RobotsRecord(o) : o \in Selected}' = {RobotsRecord(o) : o \in Selected}
        BY <4>1, <4>2
      <4>4. \A rows : Coverage(rows)' = Coverage(rows)
        BY <4>1, Zenon DEF Coverage
      <4>5. QED
        BY <4>1, <4>3, <4>4, Zenon DEF LiveCollection
    <3>4. QED
      BY <3>1, <3>2, <3>3, Zenon DEF Bundle
  <2>3. live => ~Problem(LiveCollection)
    <3>1. ASSUME live, NEW o \in Selected
          PROVE  response[o] \in RobotsResponses /\ RowIsTrue(llms[o])
      <4>1. response[o] \in RobotsResponses /\ llms[o] \in Probed
        BY <1>1, <2>1, <3>1 DEF GovernanceInv
      <4>2. QED
        BY <4>1, ProbedRowsAreTrue
    <3>2. QED
      BY <3>1, LiveIsValid
  <2>4. CASE Bundle = {} \/ \E c \in Bundle : Problem(c)
    <3>1. DOMAIN saved = {} /\ ~live
      BY <2>3, <2>4, SavedIsValid DEF Bundle
    <3>2. QED
      BY <2>1, <2>4, <3>1 DEF GovernanceInv, OwnBundlesAreValid, inputs, Selected, Cap, Origins
  <2>5. CASE ~(Bundle = {} \/ \E c \in Bundle : Problem(c))
    BY <2>1, <2>2, <2>5 DEF GovernanceInv, OwnBundlesAreValid, inputs, Selected, Cap, Origins
  <2>6. QED
    BY <2>4, <2>5
<1>6. CASE UNCHANGED governanceVars
  <2>1. Bundle' = Bundle
    BY <1>6 DEF Bundle, SavedCollection, SavedRecord, LiveCollection, RobotsRecord, Coverage, Omitted,
                Origins, Selected, Cap, inputs, governanceVars
  <2>2. QED
    BY <1>6, <2>1 DEF GovernanceInv, OwnBundlesAreValid, governanceVars, inputs, Selected, Cap, Origins
<1>7. QED
  BY <1>2, <1>3, <1>4, <1>5, <1>6 DEF GovernanceNext

--------------------
\* The records that a written bundle has of a live collection.
LEMMA LiveRecords ==
  ASSUME GovernanceInv, live, stage = "written"
  PROVE  /\ LiveCollection \in collections
         /\ \A o \in Selected : /\ RobotsRecord(o) \in Records
                                /\ response[o] \in RobotsResponses /\ RowIsTrue(llms[o])
<1>1. LiveCollection \in collections
  BY DEF GovernanceInv, Bundle
<1>2. ASSUME NEW o \in Selected
      PROVE  RobotsRecord(o) \in Records
  BY <1>1 DEF Records, LiveCollection
<1>3. ASSUME NEW o \in Selected
      PROVE  response[o] \in RobotsResponses /\ RowIsTrue(llms[o])
  <2>1. response[o] \in RobotsResponses /\ llms[o] \in Probed
    BY SelectedAreOrigins DEF GovernanceInv
  <2>2. QED
    BY <2>1, ProbedRowsAreTrue
<1>4. QED
  BY <1>1, <1>2, <1>3

LEMMA HealthyWasRead ==
  ASSUME GovernanceAssumption, GovernanceInv
  PROVE  HealthyReadEveryOrigin
<1> SUFFICES ASSUME Q96 = "Healthy", live
             PROVE  \A o \in Origins :
                       /\ response[o].status \in {200, 404}
                       /\ \A a \in Agents : (a \in response[o].blocks) <=> policy[a] = "disallow"
  BY DEF HealthyReadEveryOrigin
<1>1. Declared # {} /\ TestedPairs # {} /\ Rows = {} /\ CoverageClaimed /\ ScopeComplete
  BY Zenon DEF Q96
<1>2. stage = "written"
  BY <1>1 DEF TestedPairs, Records, GovernanceInv
<1>3. Omitted = {}
  BY <1>1, <1>2, LiveRecords DEF CoverageClaimed, AllOmitted, LiveCollection
<1>4. SUFFICES ASSUME NEW o \in Selected
               PROVE  /\ response[o].status \in {200, 404}
                      /\ \A a \in Agents : (a \in response[o].blocks) <=> policy[a] = "disallow"
  BY <1>3 DEF Omitted
<1> DEFINE r == RobotsRecord(o)
<1>5. /\ r \in Records /\ response[o] \in RobotsResponses
      /\ r.status = response[o].status /\ (r.status = 200 => r.body = response[o].blocks)
  BY <1>2, LiveRecords, RecordIs
<1>6. Read(r) /\ Declared = Agents
  BY <1>1, <1>5 DEF ScopeComplete
<1>7. \A a \in Agents : Verdict(r, a) = policy[a]
  <2>1. ASSUME NEW a \in Agents
        PROVE  Verdict(r, a) = policy[a]
    <3>1. <<r, a>> \in TestedPairs
      BY <1>5, <1>6 DEF TestedPairs
    <3>2. \A p \in TestedPairs : Verdict(p[1], p[2]) = policy[p[2]]
      BY <1>1 DEF Rows
    <3>3. QED
      BY <3>1, <3>2
  <2>2. QED
    BY <2>1
<1>8. r.status \in {200, 404} /\ (r.status # 200 => response[o].blocks = {})
  BY <1>5, <1>6, ResponsesAre DEF Read
<1> HIDE DEF r
<1>9. QED
  BY <1>5, <1>7, <1>8 DEF Verdict

LEMMA NotesFollow ==
  ASSUME GovernanceInv
  PROVE  LlmsNotesAreTrue
<1> SUFFICES ASSUME NEW r \in Records \ {SavedRecord(o) : o \in DOMAIN saved}
             PROVE  LET answer == llms[r.host].answer
                    IN  /\ LlmsNote(r) = "absent" => answer = "notFound"
                        /\ LlmsNote(r) = "valid" => answer = "text"
                        /\ LlmsNote(r) = "untested" <=> answer = "none"
  BY DEF LlmsNotesAreTrue
<1>1. stage = "written" /\ r \in UNION {c.records : c \in Bundle}
  BY DEF Records, GovernanceInv
<1>2. live /\ r \in LiveCollection.records
  BY <1>1 DEF Bundle, SavedCollection
<1>3. PICK o \in Selected : r = RobotsRecord(o)
  BY <1>2 DEF LiveCollection
<1>4. response[o] \in RobotsResponses /\ RowIsTrue(llms[o])
  BY <1>1, <1>2, LiveRecords
<1>5. r.host = o /\ r.llms_status = llms[o].state /\ r.llms_outcome = llms[o].outcome
  BY <1>3, <1>4, RecordIs
<1>6. CASE llms[o].outcome = "unknown"
  BY <1>4, <1>5, <1>6, Zenon DEF RowIsTrue, LlmsNote
<1>7. CASE llms[o].outcome = "fetched"
  <2>1. LlmsNote(r) = Classify(llms[o].answer) /\ llms[o].answer \in LlmsResponses \ {"timeout"}
    BY <1>4, <1>5, <1>7, Zenon DEF RowIsTrue, LlmsNote
  <2>2. QED
    BY <1>5, <2>1, Zenon DEF Classify, LlmsResponses
<1>8. QED
  BY <1>4, <1>6, <1>7 DEF RowIsTrue

\* For every list of origins, every policy and every answer: Q96 is Healthy only if the
\* robots.txt of every origin was read and agrees with the policy, the command accepts the
\* bundle that it collected, and a note of an /llms.txt is what its site answered.
THEOREM GovernanceIsHonest ==
  ASSUME GovernanceAssumption
  PROVE  GovernanceSpec => []GovernanceRestsOnAnswers
<1>1. GovernanceInit => GovernanceInv
  BY GovernanceStarts
<1>2. GovernanceInv /\ [GovernanceNext]_governanceVars => GovernanceInv'
  BY GovernanceKeeps
<1>3. GovernanceInv => GovernanceRestsOnAnswers
  BY HealthyWasRead, NotesFollow DEF GovernanceRestsOnAnswers, GovernanceInv
<1>4. QED
  BY <1>1, <1>2, <1>3, PTL DEF GovernanceSpec

=============================================================================
