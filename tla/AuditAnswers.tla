---------------------------- MODULE AuditAnswers ----------------------------
(*
How a question of the technical audit is answered from what was
collected: the rules of technical_audit_observed_answers.py,
profile_indexability_audit.py, empty_anchor_audit.py,
performance_distribution.py and of the contract checks
(technical_audit.py), and the runner of technical_audit_questions.py
that turns their evidence into Pending, Needs validation, Healthy or
Issue.

A record has a set of fields; each says "yes", "no", or is unknown: the
collector did not record it.  One question, its context and what is
given with every record are chosen at the beginning, then fields that
were lacking are collected, one after another.
*)
EXTENDS Integers, FiniteSets

CONSTANTS RecordIds,  \* records, as natural numbers
          Contexts    \* run contexts that audits have

AnswersAssumption ==
    /\ RecordIds \subseteq Nat /\ IsFiniteSet(RecordIds)
    /\ Contexts \subseteq
           [partial : BOOLEAN, changed : BOOLEAN, pending : BOOLEAN, rateLimited : BOOLEAN]

VARIABLES question,
          run_context, \* as far as the gates read it
          covered,     \* every collection claims complete coverage
          oneTemplate, \* the records' URLs belong to one template, or are one
          given,       \* what identifies each record, or comes from the profile
          record       \* what is known of each record

answerVars == <<question, run_context, covered, oneTemplate, given, record>>

\* Fields that may be lacking, and fields that every record has.
Fields ==
    [Q5  |-> {"https", "mixed", "insecureLinks"}, Q18 |-> {"contentMissing", "blocked", "error"},
     Q22 |-> {"population"}, Q25 |-> {"status", "location", "content"},
     Q27 |-> {"open", "html", "noindex"}, Q28 |-> {"broken", "unsponsored"},
     Q29 |-> {"slow", "shifting", "images"}, Q31 |-> {"content", "links", "directives"},
     Q33 |-> {"spam", "hidden"}, Q35 |-> {"many", "uncacheable"}, Q38 |-> {"changes", "href"},
     Q39 |-> {"failing"}, Q43 |-> {"links"}, Q45 |-> {"alternates", "linked"},
     Q46 |-> {"added"}, Q50 |-> {"competitors"}, Q63 |-> {"weak", "unlisted", "unstapled"},
     Q64 |-> {"origins", "hinted"}, Q65 |-> {"preloads"}, Q66 |-> {"inContent"},
     Q67 |-> {"faces", "preloads"}, Q68 |-> {"image"}, Q69 |-> {"background"},
     Q85 |-> {"changed"}, Q86 |-> {"sheets", "scripts"}, Q92 |-> {"insecure"},
     Q95 |-> {"overlay", "thin"}, Q96 |-> {"contradicts"},
     Q102 |-> {"exposes", "auth", "noindex", "blocked"},
     Q20 |-> {"noindex", "inSitemap", "inNavigation"}, Q36 |-> {"ok", "indexable", "selfCanonical"},
     Q37 |-> {"empty", "indexable", "inSitemap"}, Q78 |-> {"noindex", "hub", "topDecile"},
     Q88 |-> {"slow"}, Q91 |-> {"noAlt"}, Q26 |-> {"unparsed"}, Q81 |-> {"limited", "slowed"}]
Question == DOMAIN Fields

GivenOf ==
    [q \in DOMAIN Fields |->
        CASE q = "Q22" -> {"affected"}      \* the check has rows
          [] q = "Q27" -> {"declared"}      \* the profile names the host
          [] q = "Q28" -> {"affiliate"}     \* by the target's domain
          [] q = "Q50" -> {"siteCovers"}
          [] q = "Q66" -> {"legacy"}        \* content_type
          [] q = "Q96" -> {"declared"}      \* the profile has a policy
          [] q = "Q102" -> {"protected"}    \* path_class
          [] q = "Q20" -> {"indexableTemplate"}
          [] q = "Q91" -> {"emptyText"}
          [] q = "Q92" -> {"forms"}         \* the page has any
          [] OTHER -> {}]

\* Findings are counted per template, or per URL, for some questions.
PerTemplate == {"Q18", "Q25", "Q35", "Q38", "Q46", "Q64", "Q65", "Q67", "Q68", "Q69", "Q86", "Q95"}
Grouped == PerTemplate \cup {"Q29", "Q88"}

\* Bound: no context is more than one of these at a time.
SoundContext == [partial |-> FALSE, changed |-> FALSE, pending |-> FALSE, rateLimited |-> FALSE]

AnswersInit ==
    /\ question \in Question /\ run_context \in Contexts
    /\ covered \in BOOLEAN
    /\ oneTemplate \in IF question \in Grouped THEN BOOLEAN ELSE {FALSE}
    /\ given \in [RecordIds -> [GivenOf[question] -> {"no", "yes"}]]
    /\ record = [i \in RecordIds |-> [f \in Fields[question] |-> "unknown"]]

\* A collection is repeated or extended with a field that it lacked.
Learn(i, f, v) ==
    /\ record[i][f] = "unknown"
    /\ record' = [record EXCEPT ![i][f] = v]
    /\ UNCHANGED <<question, run_context, covered, oneTemplate, given>>

AnswersNext == \E i \in RecordIds : \E f \in Fields[question], v \in {"no", "yes"} : Learn(i, f, v)

AnswersSpec == AnswersInit /\ [][AnswersNext]_answerVars

--------------------
(*
Rules: what one record r, with g given, shows.
*)
Knows(r, fields) == \A f \in fields : r[f] # "unknown"
Shows(r, fields) == \E f \in fields : r[f] = "yes"
Found(faulty) == IF faulty THEN "finding" ELSE "clean"

\* Rules that need every list and find any that is not empty.
EveryList(r, fields) == IF Knows(r, fields) THEN Found(Shows(r, fields)) ELSE "untested"

MixedContent(r) ==
    IF ~Knows(r, {"https", "mixed", "insecureLinks"}) THEN "untested"
    ELSE IF r.https = "no" THEN "excluded"
    ELSE Found(Shows(r, {"mixed", "insecureLinks"}))
TrackingPreloads(r) == EveryList(r, {"preloads"})
FontLoading(r) == EveryList(r, {"faces", "preloads"})
RenderBlockingHead(r) == EveryList(r, {"sheets", "scripts"})
SpamPatterns(r) == EveryList(r, {"spam", "hidden"})
RenderParity(r) == EveryList(r, {"changed"})
FooterParity(r) == EveryList(r, {"added"})
LcpImageAttributes(r) == EveryList(r, {"image"})
LcpBackground(r) == EveryList(r, {"background"})

\* A control in a population that another field decides.
Controlled(r, population, control) ==
    IF ~Knows(r, {population, control}) THEN "untested"
    ELSE IF r[population] = "no" THEN "excluded"
    ELSE Found(r[control] = "no")
LocaleSiblingLinks(r) == Controlled(r, "alternates", "linked")
ListingControls(r) == Controlled(r, "changes", "href")
InsecureForms(r, g) ==
    IF r.insecure = "unknown" THEN "untested"
    ELSE IF g.forms = "no" THEN "excluded"
    ELSE Found(r.insecure = "yes")

\* One of the two measures is enough.
Interstitial(r) ==
    IF r.overlay = "unknown" /\ r.thin = "unknown" THEN "untested"
    ELSE Found(Shows(r, {"overlay", "thin"}))
ApiRequests(r) ==
    IF r.many = "unknown" THEN "untested" ELSE Found(Shows(r, {"many", "uncacheable"}))
Preconnects(r) ==
    IF r.origins = "unknown" THEN "untested" ELSE Found(r.origins = "yes" /\ r.hinted # "yes")
GoogleRender(r) ==
    IF r.contentMissing = "unknown" THEN "untested"
    ELSE Found(Shows(r, {"contentMissing", "blocked", "error"}))

\* Mutant: a comparison that was not recorded counts as equal.
VerifiedGoogleFetchLax(r) == Found(Shows(r, {"content", "links", "directives"}))

VerifiedGoogleFetch(r) ==
    LET fields == {"content", "links", "directives"}
    IN  IF Shows(r, fields) THEN "finding" ELSE IF Knows(r, fields) THEN "clean" ELSE "untested"

\* A lacking rel leaves an affiliate link untested unless its status failed.
ExternalLinks(r, g) ==
    IF r.broken = "unknown" THEN "untested"
    ELSE IF g.affiliate = "no" THEN Found(r.broken = "yes")
    ELSE IF r.unsponsored = "unknown" /\ r.broken # "yes" THEN "untested"
    ELSE Found(Shows(r, {"broken", "unsponsored"}))

HstsOcsp(r) ==
    IF r.weak = "unknown" THEN "untested" ELSE Found(Shows(r, {"weak", "unlisted", "unstapled"}))

UtilityPaths(r, g) ==
    IF g.protected = "yes"
    THEN IF r.exposes = "unknown" THEN "untested" ELSE Found(r.exposes = "yes" /\ r.auth # "yes")
    ELSE IF ~Knows(r, {"noindex", "blocked"}) THEN "untested" ELSE Found(r.noindex = r.blocked)

\* A variant that was not answered, or whose Location or content was not
\* recorded, is compared as far as it goes.
LocaleProbeChanges(r) ==
    IF r.status = "unknown" \/ (r.status = "no" /\ r.location = "unknown") THEN "untested"
    ELSE IF Shows(r, {"status", "location", "content"}) THEN "finding"
    ELSE IF r.content = "unknown" THEN "untested" ELSE "clean"

\* An image with no word on where it stands counts as content.
ImageFormats(r, g) == IF r.inContent = "no" THEN "excluded" ELSE Found(g.legacy = "yes")

HeadingLinkTargets(r) == EveryList(r, {"failing"})
HostExposure(r) ==
    IF r.open = "unknown" THEN "untested"
    ELSE Found(r.open = "yes" /\ r.html # "no" /\ r.noindex # "yes")
AiCrawlerPolicy(r, g) ==
    IF r.contradicts = "unknown" THEN "untested"
    ELSE IF g.declared = "no" THEN "excluded"
    ELSE Found(r.contradicts = "yes")

\* Pages of a site profile: a fact is retained where the rule applies.
IndexedNoindex(r, g) ==
    Found(r.noindex = "yes" /\ (g.indexableTemplate = "yes" \/ Shows(r, {"inSitemap", "inNavigation"})))
ProfileSubTab(r) == Found(\A f \in {"ok", "indexable", "selfCanonical"} : r[f] = "yes")
EmptyProfile(r) == Found(r.empty = "yes" /\ Shows(r, {"indexable", "inSitemap"}))
TaxonomyHub(r) == Found(r.noindex = "yes" /\ Shows(r, {"hub", "topDecile"}))
EmptyAnchor(r, g) == Found(g.emptyText = "yes" /\ r.noAlt = "yes")

TopicGap(r, g) ==
    IF r.competitors = "unknown" THEN "untested"
    ELSE Found(r.competitors = "yes" /\ g.siteCovers = "no")

Rule(q, r, g) ==
    CASE q = "Q5" -> MixedContent(r)            [] q = "Q18" -> GoogleRender(r)
      [] q = "Q25" -> LocaleProbeChanges(r)     [] q = "Q27" -> HostExposure(r)
      [] q = "Q28" -> ExternalLinks(r, g)       [] q = "Q31" -> VerifiedGoogleFetch(r)
      [] q = "Q33" -> SpamPatterns(r)           [] q = "Q35" -> ApiRequests(r)
      [] q = "Q38" -> ListingControls(r)        [] q = "Q39" -> HeadingLinkTargets(r)
      [] q = "Q45" -> LocaleSiblingLinks(r)     [] q = "Q46" -> FooterParity(r)
      [] q = "Q50" -> TopicGap(r, g)
      [] q = "Q63" -> HstsOcsp(r)               [] q = "Q64" -> Preconnects(r)
      [] q = "Q65" -> TrackingPreloads(r)       [] q = "Q66" -> ImageFormats(r, g)
      [] q = "Q67" -> FontLoading(r)            [] q = "Q68" -> LcpImageAttributes(r)
      [] q = "Q69" -> LcpBackground(r)          [] q = "Q85" -> RenderParity(r)
      [] q = "Q86" -> RenderBlockingHead(r)     [] q = "Q92" -> InsecureForms(r, g)
      [] q = "Q95" -> Interstitial(r)           [] q = "Q96" -> AiCrawlerPolicy(r, g)
      [] q = "Q102" -> UtilityPaths(r, g)       [] q = "Q20" -> IndexedNoindex(r, g)
      [] q = "Q36" -> ProfileSubTab(r)          [] q = "Q37" -> EmptyProfile(r)
      [] q = "Q78" -> TaxonomyHub(r)            [] q = "Q91" -> EmptyAnchor(r, g)

--------------------
(*
Evidence: what the rules show of all records.
*)
NoEvidence == [available |-> FALSE, affected |-> 0, of |-> 0, counted |-> TRUE, scope |-> TRUE,
               coverage |-> TRUE, review |-> FALSE]

\* What is counted: records, or the template that they share.
Units(q, found) == IF q \in PerTemplate /\ oneTemplate /\ found # {} THEN {0} ELSE found

\* Mutant: untested records are passed over in silence.
EvaluateTested(q, recs) ==
    LET with(verdict) == {i \in RecordIds : Rule(q, recs[i], given[i]) = verdict}
        affected == with("finding")
        tested == affected \cup with("clean")
    IN  IF tested = {} THEN NoEvidence
        ELSE [NoEvidence EXCEPT !.available = TRUE, !.affected = Cardinality(Units(q, affected)),
                                !.of = Cardinality(Units(q, tested)), !.scope = q # "Q67",
                                !.coverage = covered]

Evaluate(q, recs) ==
    LET with(verdict) == {i \in RecordIds : Rule(q, recs[i], given[i]) = verdict}
        affected == with("finding")
        tested == affected \cup with("clean")
    IN  IF tested = {} THEN NoEvidence
        ELSE [NoEvidence EXCEPT !.available = TRUE, !.affected = Cardinality(Units(q, affected)),
                                !.of = Cardinality(Units(q, tested)),
                                !.scope = q # "Q67" /\ with("untested") = {},
                                !.coverage = covered]

HstsOcspAnswer(recs) ==
    LET evidence == Evaluate("Q63", recs)
        partial == {i \in RecordIds : ~Knows(recs[i], {"unlisted", "unstapled"})}
    IN  IF evidence.available /\ partial # {} THEN [evidence EXCEPT !.scope = FALSE] ELSE evidence

\* Hosts of the profile must have been probed; a host found otherwise need not.
HostExposureAnswer(recs) ==
    LET affected == {i \in RecordIds : HostExposure(recs[i]) = "finding"}
        missed == {i \in RecordIds : given[i].declared = "yes" /\ recs[i].open = "unknown"}
    IN  [Evaluate("Q27", recs) EXCEPT
            !.scope = missed = {},
            !.review = \E i \in affected : ~Knows(recs[i], {"html", "noindex"})]

\* Without a policy the verdicts are listed and nothing is tested.
AiCrawlerAnswer(recs) ==
    LET read == {i \in RecordIds : recs[i].contradicts # "unknown"}
        undeclared == {i \in RecordIds : given[i].declared = "no"}
        evidence == Evaluate("Q96", recs)
    IN  IF undeclared = RecordIds /\ read # {}
        THEN [NoEvidence EXCEPT !.available = TRUE, !.counted = FALSE, !.scope = FALSE]
        ELSE [evidence EXCEPT !.scope = @ /\ (~evidence.available \/ undeclared = {})]

\* The share is that of the pages whose links were recorded.
SitewideExternalLinks(recs) ==
    LET pages == {i \in RecordIds : recs[i].links # "unknown"}
        linking == {i \in pages : recs[i].links = "yes"}
    IN  IF pages = {} THEN NoEvidence
        ELSE [NoEvidence EXCEPT !.available = TRUE, !.of = Cardinality(pages),
                 !.affected = IF 2 * Cardinality(linking) > Cardinality(pages) THEN 1 ELSE 0,
                 !.scope = pages = RecordIds, !.coverage = covered]

\* A percentile of few samples is their largest; a template needs one sample.
\* A page without images has no share, and one of the others lacks half.
LabVitals(recs) ==
    LET templates == IF oneTemplate THEN {RecordIds} ELSE {{i} : i \in RecordIds}
        has(t, f) == \E i \in t : recs[i][f] # "unknown"
        measured == {t \in templates : \E f \in Fields["Q29"] : has(t, f)}
        slow == {t \in measured : \E i \in t : Shows(recs[i], Fields["Q29"])}
    IN  IF measured = {} THEN NoEvidence
        ELSE [NoEvidence EXCEPT !.available = TRUE, !.affected = Cardinality(slow),
                 !.of = Cardinality(measured), !.coverage = covered,
                 !.scope = \A t \in templates : has(t, "slow") /\ has(t, "shifting")]

\* Templates with fewer than two timed pages are not judged.
MinSamples == 2
PerformanceDistribution(recs) ==
    LET timed == {i \in RecordIds : recs[i].slow # "unknown"}
        templates == IF oneTemplate THEN {timed} ELSE {{i} : i \in timed}
        judged == {t \in templates : Cardinality(t) >= MinSamples}
        breached == {t \in judged : \E i \in t : recs[i].slow = "yes"}
    IN  IF timed = {} THEN NoEvidence
        ELSE [NoEvidence EXCEPT !.available = TRUE, !.affected = Cardinality(breached),
                 !.of = Cardinality(timed),
                 !.coverage = timed = RecordIds /\ judged = templates]

\* Reasons for which a profile question says its evidence is incomplete.
IndexedNoindexReasons(r) ==
    r.noindex = "unknown" \/ (r.noindex = "yes" /\ ~Knows(r, {"inSitemap", "inNavigation"}))
EmptyProfileReasons(r) ==
    r.empty = "unknown" \/ (r.empty = "yes" /\ ~Knows(r, {"indexable", "inSitemap"}))
TaxonomyHubReasons(r) ==
    \/ r.noindex = "unknown"
    \/ r.noindex = "yes" /\ r.hub = "unknown" /\ r.topDecile = "unknown"
ProfileReasons(q, r, g) ==
    CASE q = "Q20" -> IndexedNoindexReasons(r)
      [] q = "Q36" -> ~Knows(r, Fields["Q36"])
      [] q = "Q37" -> EmptyProfileReasons(r)
      [] q = "Q78" -> TaxonomyHubReasons(r)
      [] q = "Q91" -> g.emptyText = "yes" /\ r.noAlt = "unknown"
ProfileQuestions == {"Q20", "Q36", "Q37", "Q78", "Q91"}

ProfileIndexability(q, recs) ==
    [NoEvidence EXCEPT !.available = TRUE, !.of = Cardinality(RecordIds),
        !.affected = Cardinality({i \in RecordIds : Rule(q, recs[i], given[i]) = "finding"}),
        !.coverage = /\ \A i \in RecordIds : ~ProfileReasons(q, recs[i], given[i])
                     /\ q = "Q91" => ~run_context.partial]

\* A contract check: its rows, a denominator that an old schema does not give,
\* and the completion of the run.
CheckRows(recs) == {i \in RecordIds : given[i].affected = "yes"}
CheckDenominator(recs) ==
    IF \E i \in RecordIds : recs[i].population = "unknown" THEN "unknown"
    ELSE IF \E i \in RecordIds : recs[i].population = "yes" THEN "yes" ELSE "no"
CheckStatus(recs) ==
    IF CheckRows(recs) # {} THEN "finding"
    ELSE IF CheckDenominator(recs) = "unknown" \/ run_context.partial THEN "partial"
    ELSE IF CheckDenominator(recs) = "no" THEN "unavailable" ELSE "pass"
FromCheck(recs) ==
    IF CheckStatus(recs) = "unavailable" THEN NoEvidence
    ELSE [NoEvidence EXCEPT !.available = TRUE, !.affected = Cardinality(CheckRows(recs)),
             !.of = IF CheckDenominator(recs) = "yes" THEN Cardinality(RecordIds) ELSE 0,
             !.counted = CheckDenominator(recs) # "unknown", !.coverage = ~run_context.partial]

\* Heading links: those whose target has a saved status are counted.
HeadingLinks(recs) == [Evaluate("Q39", recs) EXCEPT !.coverage = ~run_context.partial]

\* The gates read the run's context; what it does not count is not a failure.
RunGate(recs) ==
    [NoEvidence EXCEPT !.available = TRUE, !.of = 1,
        !.affected = IF \/ run_context.partial \/ run_context.changed \/ run_context.pending
                        \/ \E i \in RecordIds : recs[i].unparsed = "yes"
                     THEN 1 ELSE 0]
RateLimitGate(recs) ==
    IF \E i \in RecordIds : recs[i].limited = "unknown" THEN NoEvidence
    ELSE [NoEvidence EXCEPT !.available = TRUE, !.of = 1, !.coverage = ~run_context.partial,
             !.affected = IF \E i \in RecordIds : Shows(recs[i], {"limited", "slowed"}) THEN 1 ELSE 0,
             !.scope = \A i \in RecordIds : recs[i].slowed # "unknown"]

Evidence(q, recs) ==
    CASE q = "Q63" -> HstsOcspAnswer(recs)
      [] q = "Q27" -> HostExposureAnswer(recs)
      [] q = "Q96" -> AiCrawlerAnswer(recs)
      [] q = "Q43" -> SitewideExternalLinks(recs)
      [] q = "Q29" -> LabVitals(recs)
      [] q = "Q88" -> PerformanceDistribution(recs)
      [] q \in ProfileQuestions -> ProfileIndexability(q, recs)
      [] q = "Q22" -> FromCheck(recs)
      [] q = "Q39" -> HeadingLinks(recs)
      [] q = "Q26" -> RunGate(recs)
      [] q = "Q81" -> RateLimitGate(recs)
      [] OTHER -> Evaluate(q, recs)

--------------------
(*
answer_questions: the two gates first, then every other question.
*)
Gates == {"Q26", "Q81"}
Heuristic == {"Q29", "Q33", "Q35", "Q38", "Q68", "Q69", "Q95"}

\* Q45 asks for a fifth of the pages, as Q66 does of the images.
MeetsThreshold(q, e) ==
    /\ e.affected >= 1
    /\ q \in {"Q45", "Q66"} => 5 * e.affected >= e.of

\* Mutant: only the first gate is asked.
GateOkFirst == ~(run_context.partial \/ run_context.changed \/ run_context.pending)

GateOk ==
    ~(\/ run_context.partial \/ run_context.changed \/ run_context.pending
      \/ run_context.rateLimited)

AnswerOne(q, e) ==
    LET complete == e.coverage /\ (GateOk \/ q \in Gates)
    IN  IF ~e.available \/ (e.affected = 0 /\ e.counted /\ e.of = 0) THEN "Pending"
        ELSE IF ~MeetsThreshold(q, e) THEN IF complete /\ e.scope THEN "Healthy" ELSE "Needs validation"
        ELSE IF q \in Heuristic \/ e.review \/ ~complete THEN "Needs validation" ELSE "Issue"

Status(recs) == AnswerOne(question, Evidence(question, recs))
SaysYes(recs) == MeetsThreshold(question, Evidence(question, recs))

--------------------
\* What might still be recorded next.
Continuations ==
    UNION {{[record EXCEPT ![i][f] = v] : f \in {g \in Fields[question] : record[i][g] = "unknown"},
                                          v \in {"no", "yes"}} : i \in RecordIds}

\* "unless a field it does carry already proves the defect": nothing that was
\* not recorded can take a confirmed issue back, or turn a healthy answer into Yes.
StaysHealthy == Status(record) = "Healthy" => \A recs \in Continuations : ~SaysYes(recs)
StaysIssue == Status(record) = "Issue" => \A recs \in Continuations : SaysYes(recs)

\* Questions whose rules pass over a lacking field, and those that count one
\* against the site or take a share of what is known.
PassesOverGaps == {"Q18", "Q26", "Q27", "Q29", "Q35", "Q66", "Q78", "Q95"}
CountsGaps == {"Q43", "Q45", "Q64", "Q66", "Q102"}

HealthyIsProved == question \notin PassesOverGaps => StaysHealthy
IssueIsProved == question \notin CountsGaps => StaysIssue

\* A confirmed answer needs a whole, unchanged, unthrottled run, collections that
\* claim all of it, and something that was tested or found.
Observed == Question \ (Gates \cup ProfileQuestions \cup {"Q22", "Q39", "Q88"})
ConfirmedNeedsTheRun ==
    Status(record) \in {"Healthy", "Issue"} /\ question \notin Gates =>
        /\ run_context = SoundContext
        /\ question \in Observed => covered
        /\ LET e == Evidence(question, record) IN e.counted => e.of + e.affected > 0

\* A confirmed answer is not taken back by a field that had not been recorded,
\* but for the questions named, and needs a complete and stable run.
AnswersRestOnEvidence == HealthyIsProved /\ IssueIsProved /\ ConfirmedNeedsTheRun

--------------------
(*
What the repository says and the code does not keep.
*)
\* "A record that lacks a field a rule needs is untested, which keeps the answer
\* below Healthy": over every observed question.
UntestedIsNotHealthy == question \in Observed => StaysHealthy

\* "complete says whether all fields needed to rule out an issue were supplied".
CompleteRulesOut ==
    question \in ProfileQuestions /\ Evidence(question, record).coverage => StaysHealthy

\* "Issue: The issue_if rule matched on a complete population."
IssueIsOfThePopulation == StaysIssue

\* "Healthy: The rule was tested on a complete population": the check that the
\* answer is taken from has passed.
HealthyIsAPass ==
    question = "Q22" /\ Status(record) = "Healthy" => CheckStatus(record) = "pass"

=============================================================================
