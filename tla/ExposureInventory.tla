------------------------- MODULE ExposureInventory -------------------------
(*
The inventory of non-production hosts (exposure_inventory.py): host
names are derived from the crawled ones, authorised by the manifest,
resolved, checked against the destination policy and requested once;
then the counts, and the collection that an audit makes of them.

The command hands over the origins of a manifest, normalised; a program
that uses the library hands over the origins as it wrote them.  A host
is a label before a registrable domain.
*)
EXTENDS Naturals, FiniteSets

CONSTANTS Label, Domain

Host == [label : Label, domain : Domain]
Scheme == {"https", "http"}
\* An origin as a string has a port only when it is written.
HostOrigin == [scheme : Scheme, host : Host \cup Domain, port : {"unwritten", "written"}]

VARIABLES caller,      \* "command" or "library"
          origins,     \* those handed to authorise_candidates
          policed,     \* a destination policy is given
          crawled,     \* domains of the crawled hosts
          published,   \* hosts a sitemap named
          stage,       \* "derive", "resolve", "probe" or "done"
          decision,    \* candidate -> the origin it may be resolved for, or "none"
          answers,     \* candidate -> the addresses it was resolved to
          state,       \* candidate -> its state
          evidence,    \* candidate -> the status recorded, "none" before
          asked,       \* candidate -> calls of fetch for it
          answered     \* candidates that a response came from

inventoryVars == <<caller, origins, policed, crawled, published, stage, decision, answers, state, evidence, asked, answered>>

Address == {"permitted", "denied"}

\* normalize_origin makes every port explicit.
Normalised(o) == [o EXCEPT !.port = "written"]

\* The origins an operator declares, and the form they reach this module in.
Declarable == {o \in HostOrigin : o.port = "unwritten"}

Handed(who, declared) == IF who = "command" THEN {Normalised(o) : o \in declared} ELSE declared

InventoryInit ==
    /\ caller \in {"command", "library"}
    /\ \E declared \in SUBSET Declarable : Cardinality(declared) <= 2 /\ origins = Handed(caller, declared)
    /\ policed \in BOOLEAN /\ (caller = "command" => policed)
    /\ crawled \in SUBSET Domain
    /\ published \in (IF caller = "command" THEN {{}} ELSE SUBSET Host)
    /\ stage = "derive"
    /\ decision = <<>> /\ answers = <<>> /\ state = <<>> /\ evidence = <<>> /\ asked = <<>>
    /\ answered = {}

Candidates == {h \in Host : h.domain \in crawled} \cup published

\* _candidate_origins, in order of preference.
CandidateOrigin(h, scheme) == [scheme |-> scheme, host |-> h, port |-> "unwritten"]

\* A derived name is resolved if any name under its domain is declared.
MatchedByDomain(h) ==
    IF \E o \in origins : o.host = h.domain \/ (o.host \in Host /\ o.host.domain = h.domain)
    THEN "https" ELSE "none"

Matched(h) ==
    IF CandidateOrigin(h, "https") \in origins THEN "https"
    ELSE IF CandidateOrigin(h, "http") \in origins THEN "http" ELSE "none"

\* derive_candidate_hosts and authorise_candidates, before any network use.
Authorise ==
    /\ stage = "derive"
    /\ crawled # {}
    /\ decision' = [h \in Candidates |-> Matched(h)]
    /\ state' = [h \in Candidates |->
                    IF Matched(h) = "none" THEN "not_authorised_not_resolved" ELSE "not_tested"]
    /\ evidence' = [h \in Candidates |-> "none"]
    /\ asked' = [h \in Candidates |-> 0]
    /\ answers' = [h \in Candidates |-> {}]
    /\ stage' = "resolve"
    /\ UNCHANGED <<caller, origins, policed, crawled, published, answered>>

\* No seed has a registrable domain and nothing is published: nothing to do.
NoSeeds ==
    /\ stage = "derive" /\ crawled = {}
    /\ stage' = "done"
    /\ UNCHANGED <<caller, origins, policed, crawled, published, decision, answers, state, evidence, asked, answered>>

BlockedIfAllDenied(found) == found = {"denied"}

\* An answer set is refused as a unit when one address in it is denied.
Blocked(found) == "denied" \in found

\* The state that one answer of the resolver, or its failure, leads to.
ResolutionState(found) ==
    IF found = {} THEN "no_address" ELSE IF policed /\ Blocked(found) THEN "blocked_by_policy" ELSE "resolved"

Resolve(h) ==
    /\ stage = "resolve" /\ state[h] = "not_tested"
    /\ \/ \E found \in SUBSET Address :
            /\ answers' = [answers EXCEPT ![h] = found]
            /\ state' = [state EXCEPT ![h] = ResolutionState(found)]
       \/ \E failure \in {"nxdomain", "resolver_timeout", "resolver_error"} :
            state' = [state EXCEPT ![h] = failure] /\ UNCHANGED answers
    /\ UNCHANGED <<caller, origins, policed, crawled, published, stage, decision, evidence, asked, answered>>

Resolved ==
    /\ stage = "resolve" /\ \A h \in DOMAIN state : state[h] # "not_tested"
    /\ stage' = "probe"
    /\ UNCHANGED <<caller, origins, policed, crawled, published, decision, answers, state, evidence, asked, answered>>

Fetchable(h) == state[h] = "resolved"

RecordedAsZero(outcome) == IF outcome = "answered" THEN "status" ELSE "zero"

\* What a response of the callback leaves; the engine answers also for a page
\* that it skipped, with status 0, and a callback of the library may raise.
Recorded(outcome) == CASE outcome = "raised" -> "none" [] outcome = "answered" -> "status" [] OTHER -> "zero"

Probe(h) ==
    /\ stage = "probe" /\ Fetchable(h)
    /\ \E outcome \in {"answered", "skipped", "raised"} :
        /\ outcome = "raised" => caller = "library"
        /\ state' = [state EXCEPT ![h] = IF outcome = "raised" THEN "fetch_failed" ELSE "reachable"]
        /\ evidence' = [evidence EXCEPT ![h] = Recorded(outcome)]
        /\ answered' = IF outcome = "answered" THEN answered \cup {h} ELSE answered
    /\ asked' = [asked EXCEPT ![h] = @ + 1]
    /\ UNCHANGED <<caller, origins, policed, crawled, published, stage, decision, answers>>

Probed ==
    /\ stage = "probe" /\ \A h \in DOMAIN state : ~Fetchable(h)
    /\ stage' = "done"
    /\ UNCHANGED <<caller, origins, policed, crawled, published, decision, answers, state, evidence, asked, answered>>

InventoryNext ==
    \/ Authorise \/ NoSeeds \/ Resolved \/ Probed
    \/ \E h \in DOMAIN state : Resolve(h) \/ Probe(h)

InventorySpec == InventoryInit /\ [][InventoryNext]_inventoryVars

\* summary.requested of the artifact, and the records that its collection
\* counts as tested.
RequestedCount == Cardinality({h \in DOMAIN state : state[h] \in {"reachable", "fetch_failed"}})

TestedHosts == {h \in DOMAIN evidence : evidence[h] # "none"}

Coverage == IF DOMAIN state # {} /\ TestedHosts = DOMAIN state THEN "complete" ELSE "partial"

--------------------
IsNamed(h) == \E o \in origins : o.host = h

\* A host is looked up, and later requested, only if the manifest names it:
\* the lookup itself would be traffic about a host that nobody declared.
LookedUpWereDeclared ==
    \A h \in DOMAIN state :
        state[h] \notin {"not_authorised_not_resolved", "not_tested"} => IsNamed(h)

\* One request at most for a candidate, and under a policy only for one of
\* which no address was denied.
RequestsWerePermitted ==
    \A h \in DOMAIN asked :
        asked[h] <= 1 /\ (asked[h] = 1 /\ policed => answers[h] = {"permitted"})

\* "complete" means that every candidate was requested, and the cost figure
\* counts every call, the failed ones included.
CountsAreHonest ==
    stage = "done" =>
        /\ RequestedCount = Cardinality({h \in DOMAIN asked : asked[h] = 1})
        /\ Coverage = "complete" => \A h \in DOMAIN state : state[h] = "reachable"

\* What the inventory looks up and requests is declared in the manifest, and its
\* counts are of what was done.
OnlyTheNamedIsRequested == LookedUpWereDeclared /\ RequestsWerePermitted /\ CountsAreHonest

\* A candidate that the operator declared is authorised ("Decide which
\* candidates the manifest actually declared").
DeclaredIsAuthorised ==
    \A h \in DOMAIN decision : IsNamed(h) => decision[h] # "none"

\* "'we never looked' can never be read as 'we looked and it was clean'": a
\* host counted as tested has answered.
TestedHasAnswered == TestedHosts \subseteq answered

=============================================================================
