---------------------------- MODULE AiGovernance ----------------------------
(*
The command technical-audit-observations with --ai-governance and
--robots-txt (crawler_cli/__main__.py, ai_governance.py): the
robots.txt and /llms.txt of each seed origin become records of a
bundle, the bundle is checked (audit_observations.py) and question Q96
compares the rules with the policy that the site declares
(technical_audit_observed_answers.py).

robots.txt is read twice: first by the robots cache, which decides
whether /llms.txt may be requested, and again for the record.  The
posture of each crawler family and the other two AI context files are
left out: nothing reads them.
*)
EXTENDS Integers, Sequences, SequencesExt, FiniteSets

CONSTANTS Seeds,      \* the run's seed origins in their order
          Agents,     \* crawlers whose verdict is asked for
          Policies,   \* what a site's profile declares
          Caps        \* values of --ai-governance-max-origins

GovernanceAssumption ==
    /\ Caps \subseteq Int
    /\ \A p \in Policies : p \in [Agents -> {"allow", "disallow", "undeclared"}]

VARIABLES policy, max_origins,
          saved,       \* origins of which the operator has a file, with what it blocks
          live,        \* --ai-governance
          rules,       \* what the robots cache has of each origin
          llms,        \* row of the origin's /llms.txt
          response,    \* answer to the second request for its robots.txt
          collections, \* of the bundle
          stage

inputs == <<policy, max_origins, saved, live>>
governanceVars == <<inputs, rules, llms, response, collections, stage>>

Origins == Range(Seeds)
Cap == IF max_origins > 1 THEN max_origins ELSE 1
Selected == {Seeds[i] : i \in {j \in DOMAIN Seeds : j <= Cap}}
Omitted == Origins \ Selected

\* Responses to the second request: no response for a reason, or a status with the agents it blocks.
NoResponse(reason) == [status |-> 0, blocks |-> {}, reason |-> reason]
RobotsResponses ==
    {NoResponse("timeout"), NoResponse("none")}
        \cup {[status |-> 200, blocks |-> b, reason |-> "none"] : b \in SUBSET Agents}
        \cup {[status |-> s, blocks |-> {}, reason |-> "none"] : s \in {301, 404, 503}}
Pending == [status |-> -1, blocks |-> {}, reason |-> "none"]

LlmsResponses == {"timeout", "notFound", "serverError", "html", "blank", "image", "untitled", "text"}
LlmsRow(state, outcome, reason) ==
    [state |-> state, outcome |-> outcome, reason |-> reason, answer |-> "none"]
NotProbed == LlmsRow("none", "none", "none")

GovernanceInit ==
    /\ policy \in Policies /\ max_origins \in Caps /\ live \in BOOLEAN
    /\ saved \in [{} -> {}] \cup [{Seeds[1]} -> SUBSET Agents]
    /\ rules = [o \in Origins |-> "unasked"]
    /\ llms = [o \in Origins |-> NotProbed]
    /\ response = [o \in Origins |-> Pending]
    /\ collections = {} /\ stage = "collecting"

--------------------
(*
collect_ai_governance: one origin after the other.
*)
Before(o) == {p \in Selected : \E i, j \in DOMAIN Seeds : i < j /\ Seeds[i] = p /\ Seeds[j] = o}

\* The robots cache fetches the file; an unreachable one disallows everything.
GetRules(o) ==
    /\ live /\ stage = "collecting" /\ rules[o] = "unasked"
    /\ \A p \in Before(o) : llms[p] # NotProbed
    /\ \E found \in {"unreachable", "allows", "disallows"} : rules' = [rules EXCEPT ![o] = found]
    /\ UNCHANGED <<inputs, llms, response, collections, stage>>

Classify(r) ==
    CASE r = "notFound" -> "absent"
      [] r = "serverError" -> "http_error"
      [] r = "html" -> "html_soft_404"
      [] r = "blank" -> "empty"
      [] r = "image" -> "unexpected_content_type"
      [] r = "untitled" -> "missing_h1_title"
      [] OTHER -> "valid"

ProbeLlms(o) ==
    /\ stage = "collecting" /\ rules[o] # "unasked" /\ llms[o] = NotProbed
    /\ \/ /\ rules[o] = "unreachable"
          /\ llms' = [llms EXCEPT ![o] =
                LlmsRow("robots_unavailable_not_fetched", "unknown", "robots_unavailable")]
       \/ /\ rules[o] = "disallows"
          /\ llms' = [llms EXCEPT ![o] =
                LlmsRow("robots_disallowed_not_fetched", "unknown", "robots_disallowed")]
       \/ /\ rules[o] = "allows"
          /\ \E r \in LlmsResponses :
                llms' = [llms EXCEPT ![o] =
                    IF r = "timeout" THEN LlmsRow("fetch_unavailable", "unknown", "timeout")
                    ELSE [LlmsRow(Classify(r), "fetched", "none") EXCEPT !.answer = r]]
    /\ UNCHANGED <<inputs, rules, response, collections, stage>>

\* The command requests each robots.txt once more, after every origin was collected.
FetchRobots(o) ==
    /\ stage = "collecting" /\ response[o] = Pending
    /\ \A p \in Selected : llms[p] # NotProbed
    /\ \A p \in Before(o) : response[p] # Pending
    /\ \E r \in RobotsResponses : response' = [response EXCEPT ![o] = r]
    /\ UNCHANGED <<inputs, rules, llms, collections, stage>>

--------------------
(*
Records and collections.
*)
\* llms_txt_outcome
LlmsOutcome(row) ==
    LET unread == [fetch_unavailable |-> "no_response", robots_unavailable_not_fetched |-> "robots_unavailable",
                   robots_disallowed_not_fetched |-> "robots_disallowed"]
        reasonOr(other) == IF row.reason # "none" THEN row.reason ELSE other
    IN  CASE row.outcome = "unknown" ->
               <<"unknown", reasonOr(IF row.state \in DOMAIN unread THEN unread[row.state] ELSE "no_response")>>
          [] row.outcome # "unknown" /\ row.state = "none" -> <<"unknown", reasonOr("not_probed")>>
          [] row.outcome # "unknown" /\ row.state \in DOMAIN unread ->
               <<"unknown", reasonOr(unread[row.state])>>
          [] OTHER -> <<"fetched", "none">>

\* The record's body is the set of agents it blocks, or "none".
RobotsRecord(o) ==
    LET r == response[o]
        file == [host |-> o, status |-> r.status, fetch_outcome |-> "fetched", unknown_reason |-> "none",
                 body |-> IF r.status = 200 THEN r.blocks ELSE {"none"},
                 llms_status |-> llms[o].state, llms_outcome |-> LlmsOutcome(llms[o])[1],
                 llms_reason |-> LlmsOutcome(llms[o])[2]]
    IN  IF r.status > 0 THEN file
        ELSE [file EXCEPT !.fetch_outcome = "unknown",
                          !.unknown_reason = IF r.reason # "none" THEN r.reason ELSE "no_response"]

SavedRecord(o) ==
    [host |-> o, status |-> 200, fetch_outcome |-> "fetched", unknown_reason |-> "none", body |-> saved[o],
     llms_status |-> "none", llms_outcome |-> "none", llms_reason |-> "none"]

Coverage(records) ==
    IF Omitted # {} \/ \E r \in records : r.fetch_outcome = "unknown" THEN "partial" ELSE "complete"

SavedCollection ==
    [records |-> {SavedRecord(o) : o \in DOMAIN saved}, coverage |-> "complete", omitted |-> {}]
LiveCollection ==
    LET records == {RobotsRecord(o) : o \in Selected}
    IN  [records |-> records, coverage |-> Coverage(records), omitted |-> Omitted]

\* validate_observation_bundle
RecordProblem(r) ==
    \/ IF r.fetch_outcome = "unknown" THEN r.unknown_reason = "none" \/ r.status > 0 ELSE r.status <= 0
    \/ r.llms_outcome = "none" /\ r.llms_reason # "none"
    \/ r.llms_outcome = "unknown" /\ r.llms_reason = "none"
    \/ r.llms_outcome = "fetched" /\ (r.llms_status = "none" \/ r.llms_reason # "none")
Problem(c) ==
    \/ \E r \in c.records : RecordProblem(r)
    \/ c.coverage = "complete" /\ c.omitted # {}

Bundle ==
    (IF DOMAIN saved = {} THEN {} ELSE {SavedCollection}) \cup (IF live THEN {LiveCollection} ELSE {})

WriteBundle ==
    /\ stage = "collecting"
    /\ live => \A o \in Selected : response[o] # Pending
    /\ IF Bundle = {} \/ \E c \in Bundle : Problem(c)
       THEN stage' = "refused" /\ UNCHANGED collections
       ELSE stage' = "written" /\ collections' = Bundle
    /\ UNCHANGED <<inputs, rules, llms, response>>

GovernanceNext ==
    \/ \E o \in Selected : GetRules(o) \/ ProbeLlms(o)
    \/ live /\ \E o \in Selected : FetchRobots(o)
    \/ WriteBundle

GovernanceSpec == GovernanceInit /\ [][GovernanceNext]_governanceVars

--------------------
(*
The answer of Q96 for a bundle that an audit of a complete run has.
*)
Records == UNION {c.records : c \in collections}

\* What Q96 takes as read, and as blocking nothing.
Read(r) == r.fetch_outcome = "fetched" /\ r.status \in {200, 404}
Verdict(r, a) == IF r.status = 200 /\ a \in r.body THEN "disallow" ELSE "allow"

Declared == {a \in Agents : policy[a] # "undeclared"}
TestedPairs == {r \in Records : Read(r)} \X Declared
Rows == {p \in TestedPairs : Verdict(p[1], p[2]) # policy[p[2]]}
AllOmitted == UNION {c.omitted : c \in collections}

\* Mutant: hosts that were not read are only in the note.
ScopeOfRead == Declared = Agents /\ AllOmitted = {}

ScopeComplete == Declared = Agents /\ AllOmitted = {} /\ \A r \in Records : Read(r)
CoverageClaimed == AllOmitted = {} /\ \A c \in collections : c.coverage = "complete"

Q96 ==
    CASE Declared = {} -> IF \E r \in Records : Read(r) THEN "Needs validation" ELSE "Pending"
      [] Declared # {} /\ TestedPairs = {} -> "Pending"
      [] Declared # {} /\ Rows # {} -> IF CoverageClaimed THEN "Issue" ELSE "Needs validation"
      [] OTHER -> IF CoverageClaimed /\ ScopeComplete THEN "Healthy" ELSE "Needs validation"

\* How the note reads the record's /llms.txt.
LlmsNote(r) ==
    CASE r.llms_outcome = "unknown" -> "untested"
      [] OTHER -> r.llms_status

--------------------
\* If Q96 is Healthy for a bundle with live records, the robots.txt of every seed origin was
\* answered with the file or with its absence, and gave every agent the verdict of the policy.
HealthyReadEveryOrigin ==
    Q96 = "Healthy" /\ live =>
        \A o \in Origins :
            /\ response[o].status \in {200, 404}
            /\ \A a \in Agents : (a \in response[o].blocks) <=> policy[a] = "disallow"

\* The command never refuses the bundle that it has collected itself.
OwnBundlesAreValid == stage = "refused" => DOMAIN saved = {} /\ ~live

\* A record's /llms.txt is called absent only if the site said so, and valid only if it sent text; one
\* that was not requested, or not answered, is untested.
LlmsNotesAreTrue ==
    \A r \in Records \ {SavedRecord(o) : o \in DOMAIN saved} :
        LET answer == llms[r.host].answer
        IN  /\ LlmsNote(r) = "absent" => answer = "notFound"
            /\ LlmsNote(r) = "valid" => answer = "text"
            /\ LlmsNote(r) = "untested" <=> answer = "none"

\* The three together: a reader may rely on the bundle, its notes and the answer of Q96.
GovernanceRestsOnAnswers == HealthyReadEveryOrigin /\ OwnBundlesAreValid /\ LlmsNotesAreTrue

\* A collection is complete only if every file of its population was read.
CompleteReadsEveryOrigin ==
    \A c \in collections : c.coverage = "complete" => \A r \in c.records : Read(r)
=============================================================================
