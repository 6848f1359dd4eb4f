--------------------------- MODULE LanguageProbes ---------------------------
(*
The Accept-Language probe (crawler_cli/accept_language_audit.py): every
target is requested without the header, with each value of it and once
more without it, redirects are followed by hand, and the answers become
evidence that is stored (persistence.py), records of a bundle
(audit_observation_adapters.py, __main__.py) and the answer of question
Q25 (technical_audit_observed_answers.py).

A request is answered in the site's usual way or in any other: a site
may look at the header, change by itself, limit or challenge a client,
or not answer.  A body stands for its visible text, the element this
was taken from and the whole document.  Vary headers are left out.
*)
EXTENDS Integers, Sequences, FiniteSets

CONSTANTS Languages,   \* values of the header that name a language
          MaxHops,     \* max_redirect_hops
          TargetLimits,\* values of max_targets
          MaxOdd       \* bound: answers that are not the usual one

Assumption ==
    /\ Languages \cap {"none", "wildcard", "none-repeat"} = {} /\ IsFiniteSet(Languages)
    /\ MaxHops \in 1..10 /\ TargetLimits \subseteq 1..20 /\ MaxOdd \in Nat

VARIABLES locale,      \* what the crawl has stored of the URL with a locale's path
          max_targets,
          usual,       \* the usual answer of each URL
          odd,
          probes,      \* the answers to each request of each target
          stage,       \* of the command
          session,     \* the evidence stored of the run
          bundle       \* the collection that the bundle holds

vars == <<locale, max_targets, usual, odd, probes, stage, session, bundle>>

Urls == {"home", "locale"}
Labels == {"none", "wildcard", "none-repeat"} \cup Languages

\* Visible text, its element and the whole of a body; no text if it is not HTML.
Bodies == {"page", "marked", "other", "framed", "data"}
Text == [page |-> "A", marked |-> "A", other |-> "B", framed |-> "A", data |-> "none"]
Basis == [page |-> "main", marked |-> "main", other |-> "main", framed |-> "body", data |-> "none"]
Lang == [page |-> "en", marked |-> "en", other |-> "es", framed |-> "en", data |-> "none"]

\* Why a response says nothing of the language, as the engine reports it.
Plain == [skip |-> "none", challenge |-> FALSE, retryAfter |-> FALSE]
Response(status, location, body) ==
    [status |-> status, location |-> location, body |-> body, mark |-> Plain]
Answered ==
    {Response(200, "none", b) : b \in Bodies} \cup {Response(302, u, "data") : u \in Urls}
        \cup {Response(404, "none", "other"), Response(302, "none", "data")}
NotAnswered ==
    {[Response(0, "none", "data") EXCEPT !.mark.skip = s] : s \in {"none", "refused", "transport"}}
        \cup {[Response(200, "none", "data") EXCEPT !.mark.skip = "truncated"],
              [Response(403, "none", "other") EXCEPT !.mark.challenge = TRUE],
              [Response(503, "none", "other") EXCEPT !.mark.retryAfter = TRUE],
              Response(429, "none", "other")}

\* A run has one seed; its host has one stored page whose path names a locale.
Candidates == IF locale = "page" THEN <<"home", "locale">> ELSE <<"home">>
Selected ==
    SubSeq(Candidates, 1, IF max_targets < Len(Candidates) THEN max_targets ELSE Len(Candidates))
Targets == {Selected[i] : i \in DOMAIN Selected}

NoAnswers == [t \in Urls |-> [l \in Labels |-> <<>>]]

Init ==
    /\ locale \in {"page", "notHtml", "missing"} /\ max_targets \in TargetLimits
    /\ \E first \in {Response(200, "none", "page"), Response(302, "locale", "data")} :
          usual = [home |-> first, locale |-> Response(200, "none", "page")]
    /\ odd = 0 /\ probes = NoAnswers /\ stage = "probing"
    /\ session = {} /\ bundle = [records |-> {}, coverage |-> "none"]

--------------------
(*
One probe: its hops, and what became of it.
*)
\* hop_failure: "none" if the hop was answered.
HopFailure(hop) ==
    CASE hop.mark.challenge -> "challenged"
      [] hop.status = 0 ->
            CASE hop.mark.skip = "none" -> "fetch_error"
              [] hop.mark.skip = "transport" -> "fetch_failed"
              [] OTHER -> "not_admitted"
      [] hop.status # 0 /\ hop.mark.skip # "none" -> "withheld"
      [] hop.status = 429 \/ (hop.status = 503 /\ hop.mark.retryAfter) -> "rate_limited"
      [] OTHER -> "none"

UrlOf(t, hops, i) == IF i = 1 THEN t ELSE hops[i - 1].location
Last(hops) == hops[Len(hops)]

\* "open" while the probe goes on.
Outcome(t, hops) ==
    CASE hops = <<>> -> "open"
      [] HopFailure(Last(hops)) # "none" -> HopFailure(Last(hops))
      [] Last(hops).status # 302 -> "resolved"
      [] Last(hops).location = "none" -> "redirect_without_location"
      [] Len(hops) > MaxHops -> "redirect_limit_exceeded"
      [] \E i \in DOMAIN hops : UrlOf(t, hops, i) = Last(hops).location -> "redirect_loop"
      [] OTHER -> "open"

Unanswered(t, l) ==
    Outcome(t, probes[t][l]) \in
        {"challenged", "fetch_error", "fetch_failed", "not_admitted", "withheld", "rate_limited"}

\* Targets and variants come one after the other: without the header first and last, with its
\* values in any order between.
Done(t) == \A l \in Labels : Outcome(t, probes[t][l]) # "open"
IsNext(t, l) ==
    /\ Outcome(t, probes[t][l]) = "open"
    /\ t = "locale" => Done("home")
    /\ l # "none" => Outcome(t, probes[t]["none"]) # "open"
    /\ l = "none-repeat" =>
          \A other \in Labels \ {l} : Outcome(t, probes[t][other]) # "open"
    /\ \A other \in Labels \ {l} : probes[t][other] # <<>> => Outcome(t, probes[t][other]) # "open"

Request(t, l) ==
    LET hops == probes[t][l]
        url == IF hops = <<>> THEN t ELSE Last(hops).location
    IN  /\ stage = "probing" /\ IsNext(t, l)
        /\ \E a \in Answered \cup NotAnswered :
              /\ probes' = [probes EXCEPT ![t][l] = Append(hops, a)]
              /\ odd' = IF a = usual[url] THEN odd ELSE odd + 1
              /\ odd' <= MaxOdd
        /\ UNCHANGED <<locale, max_targets, usual, stage, session, bundle>>

--------------------
(*
Evidence of a target: what differs from the request without header.
*)
Final(t, l) == Last(probes[t][l])
FinalUrl(t, l) == UrlOf(t, probes[t][l], Len(probes[t][l]))
Resolved(t, l) == Outcome(t, probes[t][l]) = "resolved"

\* Every two bodies are further apart than the tolerance.
BodyOf(t, l) == IF Resolved(t, l) THEN Final(t, l).body ELSE "data"
ContentStable(t) == BodyOf(t, "none") = BodyOf(t, "none-repeat")

Differences(t, l) ==
    LET first(k) == probes[t][k][1]
        firsts == HopFailure(first("none")) = "none" /\ HopFailure(first(l)) = "none"
        lasts == HopFailure(Final(t, "none")) = "none" /\ HopFailure(Final(t, l)) = "none"
        sameEnd == Resolved(t, "none") /\ Resolved(t, l) /\ FinalUrl(t, "none") = FinalUrl(t, l)
    IN  {d \in {"first_status_changed", "redirect_target_changed", "final_url_changed",
                "final_status_changed", "html_lang_changed", "content_changed"} :
            \/ d = "first_status_changed" /\ firsts /\ first("none").status # first(l).status
            \/ d = "redirect_target_changed" /\ firsts /\ first("none").location # first(l).location
            \/ d = "final_url_changed" /\ lasts /\ FinalUrl(t, "none") # FinalUrl(t, l)
            \/ d = "final_status_changed" /\ lasts /\ Final(t, "none").status # Final(t, l).status
            \/ d = "html_lang_changed" /\ sameEnd /\ Lang[BodyOf(t, "none")] # Lang[BodyOf(t, l)]
            \/ d = "content_changed" /\ sameEnd /\ ContentStable(t)
                  /\ BodyOf(t, "none") # BodyOf(t, l)}

\* Variants named by the candidate language_redirect_detected.
LanguageRedirects(t) ==
    {l \in Labels \ {"none", "none-repeat"} :
        /\ "redirect_target_changed" \in Differences(t, l)
        /\ probes[t][l][1].status = 302 /\ probes[t][l][1].location # "none"}

\* Mutant: the targets that were left out do not count.
CoverageOfTheSample == \A t \in Targets, l \in Labels : ~Unanswered(t, l)

CoverageComplete ==
    Len(Selected) >= Len(Candidates) /\ \A t \in Targets, l \in Labels : ~Unanswered(t, l)

--------------------
(*
Records of the bundle; a status of 0 is one that is not known.
*)
\* Mutant: any status is the site's answer.
StatusAsSent(t, l) == probes[t][l][1].status

InitialStatus(t, l) ==
    IF HopFailure(probes[t][l][1]) = "none" THEN probes[t][l][1].status ELSE 0

\* Whether two probes ended at the same visible text.
Same(t, l, k) ==
    LET a == Text[BodyOf(t, l)]
        b == Text[BodyOf(t, k)]
    IN  CASE ~Resolved(t, l) \/ ~Resolved(t, k) \/ "none" \in {a, b} -> "unknown"
          [] OTHER -> IF a = b THEN "yes" ELSE "no"

ContentDiffers(t, l) ==
    CASE Same(t, "none", "none-repeat") # "yes" -> "unknown"
      [] Basis[BodyOf(t, "none")] # Basis[BodyOf(t, l)] -> "unknown"
      [] Same(t, "none", l) = "unknown" -> "unknown"
      [] OTHER -> IF Same(t, "none", l) = "yes" THEN "no" ELSE "yes"

Record(t, l) ==
    [url |-> t, variant |-> l,
     baseline_status |-> InitialStatus(t, "none"), variant_status |-> InitialStatus(t, l),
     baseline_location |-> probes[t]["none"][1].location, variant_location |-> probes[t][l][1].location,
     content |-> ContentDiffers(t, l), failed |-> ~Resolved(t, "none") \/ ~Resolved(t, l)]

Records == {Record(t, l) : t \in Targets, l \in Labels \ {"none", "none-repeat"}}

CoverageState ==
    IF CoverageComplete /\ \A r \in Records : ~r.failed THEN "complete" ELSE "partial"

Evidence ==
    [complete |-> CoverageComplete,
     redirects |-> {<<t, l>> \in Targets \X Labels : l \in LanguageRedirects(t)}]

\* The session is stored in one transaction, which fails if the run is gone.
PersistEvidence ==
    /\ stage = "probing" /\ \A t \in Targets : Done(t)
    /\ \/ session' = {Evidence} /\ stage' = "stored"
       \/ stage' = "failed" /\ UNCHANGED session
    /\ UNCHANGED <<locale, max_targets, usual, odd, probes, bundle>>

\* Another collector of the command may fail before the bundle is written.
WriteBundle ==
    /\ stage = "stored"
    /\ \/ bundle' = [records |-> Records, coverage |-> CoverageState] /\ stage' = "written"
       \/ stage' = "failed" /\ UNCHANGED bundle
    /\ UNCHANGED <<locale, max_targets, usual, odd, probes, session>>

Next ==
    \/ \E t \in Targets, l \in Labels : Request(t, l)
    \/ PersistEvidence
    \/ WriteBundle

Spec == Init /\ [][Next]_vars

--------------------
(*
The answer of Q25 for a bundle that an audit of a complete run has.
*)
Changes(r) ==
    {c \in {"status", "Location", "content"} :
        \/ c = "status" /\ r.baseline_status # r.variant_status
        \/ c = "Location" /\ r.baseline_location # r.variant_location
        \/ c = "content" /\ r.content = "yes"}

Untested(r) ==
    \/ r.baseline_status \in {0, 429} \/ r.variant_status \in {0, 429}
    \/ Changes(r) = {} /\ r.content = "unknown"

Tested == {r \in bundle.records : ~Untested(r)}
Findings == {r \in Tested : Changes(r) # {}}

Q25 ==
    CASE Tested = {} -> "Pending"
      [] Findings # {} -> IF bundle.coverage = "complete" THEN "Issue" ELSE "Needs validation"
      [] OTHER -> IF bundle.coverage = "complete" /\ Tested = bundle.records THEN "Healthy"
                  ELSE "Needs validation"

--------------------
\* Healthy says that every eligible target was requested in every way, that no request of its
\* redirects was left without an answer, and that status, Location and visible text were the same.
HealthyComparedAll ==
    Q25 = "Healthy" =>
        \A i \in DOMAIN Candidates : \A l \in Labels :
            LET t == Candidates[i] IN
            /\ probes[t][l] # <<>>
            /\ \A h \in DOMAIN probes[t][l] : HopFailure(probes[t][l][h]) = "none"
            /\ Text[Final(t, l).body] = Text[Final(t, "none").body]
            /\ l # "none-repeat" =>
                  /\ probes[t][l][1].status = probes[t]["none"][1].status
                  /\ probes[t][l][1].location = probes[t]["none"][1].location

\* A finding rests on answers of the site: its two first responses are, or both texts that differ
\* were read and the page's own text had not changed between two equal requests.
FindingsRestOnAnswers ==
    \A r \in Findings :
        /\ HopFailure(probes[r.url]["none"][1]) = "none"
        /\ HopFailure(probes[r.url][r.variant][1]) = "none"
        /\ "content" \in Changes(r) =>
              /\ Resolved(r.url, "none") /\ Resolved(r.url, r.variant) /\ Resolved(r.url, "none-repeat")
              /\ Text[Final(r.url, "none").body] = Text[Final(r.url, "none-repeat").body]

\* Every redirect that the stored evidence calls a redirect by language is a finding of Q25, too.
StoredRedirectsAreFound ==
    stage = "written" =>
        \A e \in session : \A p \in e.redirects :
            \E r \in Findings : r.url = p[1] /\ r.variant = p[2]

\* A page that answers two equal requests with another status or Location changes by itself; the
\* repeated request is there to tell this from a change by language.
VolatilePagesAreNotFindings ==
    \A r \in Findings :
        LET first(l) == probes[r.url][l][1]
        IN  HopFailure(first("none-repeat")) = "none" /\ Changes(r) \subseteq {"status", "Location"} =>
                /\ first("none").status = first("none-repeat").status
                /\ first("none").location = first("none-repeat").location
=============================================================================
