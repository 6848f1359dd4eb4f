--------------------------- MODULE ScopeManifest ---------------------------
(*
A crawl under an authorisation and scope manifest (authorisation.py,
and where the engine consults it): the preflight of the command line,
the admission of a URL, the check before its fetch, the redirects, which
a pinning backend follows one by one and any other by itself, and the
check of the response.  After that check nobody looks at the manifest
again: a bot challenge may be fetched once more by a browser, whose
answer is recorded as it is, and a page may be rendered for its links.

Not modelled: the redirects of a robots.txt, and the scripts and
stylesheets that are read for URLs.

A path is the pair of its normalised forms, as written and decoded, and
a form is known by the prefixes it is under.  Time passes between any
two steps.
*)
EXTENDS Naturals, Sequences, Functions, FiniteSets

CONSTANTS Origin, Foreign,   \* origins a manifest may declare, and one it does not
          ScopeUrl,          \* records of an origin, a raw and a decoded form
          MaxTime,           \* bound of the clock
          MaxHops            \* bound: redirects of one fetch

ScopeAssumption ==
    /\ Foreign \notin Origin /\ MaxTime \in Nat /\ MaxHops \in Nat
    /\ \A u \in ScopeUrl :
          /\ u.origin \in Origin \cup {Foreign}
          /\ {u.raw, u.decoded} \subseteq {"allowed", "excluded", "other", "robots.txt"}

VARIABLES clock,
          manifest,   \* what the operator wrote
          options,    \* of the command line
          pinned,     \* the backend follows redirects under the engine's eye
          phase,      \* "preflight", "refused" or "running"
          inputs,     \* the URLs the operator gave
          fetch,      \* URL -> where its fetch stands
          hops,       \* URL -> the chain of its latest attempt; while its fetch is
                      \*   "checked", the last URL of it is still to be requested
          checked,    \* URL -> when the manifest was last found to allow it
          rendered,   \* URLs that render discovery requested
          recorded    \* URL -> what was recorded of it, or why nothing was

scopeVars == <<clock, manifest, options, pinned, phase, inputs, fetch, hops, checked, rendered,
               recorded>>

Time == 0..MaxTime
Manifests == {m \in [from : Time, until : Time, origins : {Origin}, get : BOOLEAN, ignoreRobots : BOOLEAN] :
                m.from < m.until}
Options == [offsite : BOOLEAN, host : {"none", "declared", "foreign"},
            ignoreRobots : BOOLEAN, confirmed : BOOLEAN, escalates : BOOLEAN, renders : BOOLEAN]

WithinWindow(m, t) == m.from <= t /\ t < m.until

PathAllowed(u) == {u.raw, u.decoded} = {"allowed"}

\* ScopePredicate.decide: the first thing that is wrong, or "none".
Decide(u, purpose, t) ==
    CASE ~WithinWindow(manifest, t) -> "time_window"
      [] ~manifest.get -> "method"
      [] u.origin \notin manifest.origins -> "origin"
      [] purpose = "robots" /\ {u.raw, u.decoded} = {"robots.txt"} -> "none"
      [] ~PathAllowed(u) -> "path"
      [] OTHER -> "none"

\* Pinning is refused together with the escalation of challenges.
ScopeInit ==
    /\ clock = 0 /\ manifest \in Manifests /\ options \in Options /\ pinned \in BOOLEAN
    /\ pinned => ~options.escalates
    /\ phase = "preflight"
    /\ inputs \in {s \in SUBSET ScopeUrl : s # {}}
    /\ fetch = [u \in ScopeUrl |-> "none"]
    /\ hops = [u \in ScopeUrl |-> <<>>]
    /\ checked = [u \in ScopeUrl |-> 0]
    /\ rendered = {}
    /\ recorded = [u \in ScopeUrl |-> "nothing"]

TimePasses ==
    /\ clock < MaxTime /\ clock' = clock + 1
    /\ UNCHANGED <<manifest, options, pinned, phase, inputs, fetch, hops, checked, rendered, recorded>>

--------------------
\* assert_cli_narrows_scope.
Widens ==
    \/ options.offsite
    \/ options.host = "foreign"
    \/ options.ignoreRobots /\ ~(manifest.ignoreRobots /\ options.confirmed)

\* assert_inputs_in_scope if any input were enough.
RefusedIfNoneIsIn ==
    \/ ~WithinWindow(manifest, clock) \/ Widens
    \/ \A u \in inputs : Decide(u, "seed", clock) # "none"

\* load_scope_manifest, assert_cli_narrows_scope and assert_inputs_in_scope:
\* inputs of which some are out of scope are refused as a whole.
Refused ==
    \/ ~WithinWindow(manifest, clock) \/ Widens
    \/ \E u \in inputs : Decide(u, "seed", clock) # "none"

Preflight ==
    /\ phase = "preflight"
    /\ phase' = IF Refused THEN "refused" ELSE "running"
    /\ UNCHANGED <<clock, manifest, options, pinned, inputs, fetch, hops, checked, rendered, recorded>>

Skip(u, reason) ==
    fetch' = [fetch EXCEPT ![u] = "done"] /\ recorded' = [recorded EXCEPT ![u] = reason]

GoesOn(u, stage) == fetch' = [fetch EXCEPT ![u] = stage] /\ UNCHANGED recorded

\* A fetch goes on to a stage if the manifest allows a URL now, and ends if not.
Require(u, target, purpose, stage) ==
    LET reason == Decide(target, purpose, clock)
    IN  IF reason = "none" THEN GoesOn(u, stage) ELSE Skip(u, reason)

\* An input, or a URL found on a page, enters crawl().
Admit(u) ==
    /\ phase = "running" /\ fetch[u] = "none"
    /\ Require(u, u, "discovered", "admitted")
    /\ UNCHANGED <<clock, manifest, options, pinned, phase, inputs, hops, checked, rendered>>

RobotsOf(u) == [origin |-> u.origin, raw |-> "robots.txt", decoded |-> "robots.txt"]

\* A robots.txt that may not be requested counts as unreachable: all disallowed.
ReadRobots(u) ==
    /\ fetch[u] = "admitted" /\ ~options.ignoreRobots
    /\ IF Decide(RobotsOf(u), "robots", clock) = "none"
       THEN GoesOn(u, "ready") ELSE Skip(u, "robots.txt")
    /\ UNCHANGED <<clock, manifest, options, pinned, phase, inputs, hops, checked, rendered>>

Ready(u) == fetch[u] = IF options.ignoreRobots THEN "admitted" ELSE "ready"

\* What a passed check leaves behind: its time, and the chain it was of.
Passed(u, chain) ==
    IF fetch'[u] = "done" THEN UNCHANGED <<checked, hops>>
    ELSE checked' = [checked EXCEPT ![u] = clock] /\ hops' = [hops EXCEPT ![u] = chain]

\* _fetch_for_purpose without its look at the manifest.
CheckNothing(u) ==
    /\ Ready(u) /\ GoesOn(u, "checked") /\ Passed(u, <<u>>)
    /\ UNCHANGED <<clock, manifest, options, pinned, phase, inputs, rendered>>

\* After the pauses and the semaphores: _fetch_for_purpose.
Check(u) ==
    /\ Ready(u) /\ Require(u, u, "discovered", "checked") /\ Passed(u, <<u>>)
    /\ UNCHANGED <<clock, manifest, options, pinned, phase, inputs, rendered>>

\* The address is authorised and a slot of the budget is free, or the client has a
\* connection: nobody looks at the clock again.
Send(u) ==
    /\ fetch[u] = "checked" /\ GoesOn(u, "sent")
    /\ UNCHANGED <<clock, manifest, options, pinned, phase, inputs, hops, checked, rendered>>

\* fetch_for_purpose's loop: each hop is looked at before it is requested.
RedirectChecked(u) ==
    /\ fetch[u] = "sent" /\ pinned /\ Len(hops[u]) <= MaxHops
    /\ \E target \in ScopeUrl :
          Require(u, target, "redirect", "checked") /\ Passed(u, Append(hops[u], target))
    /\ UNCHANGED <<clock, manifest, options, pinned, phase, inputs, rendered>>

\* The loop of an HTTP client or of a browser.
ByItself(u) == (fetch[u] = "sent" /\ ~pinned) \/ fetch[u] = "browsing"

Redirect(u) ==
    /\ ByItself(u) /\ Len(hops[u]) <= MaxHops
    /\ \E target \in ScopeUrl : hops' = [hops EXCEPT ![u] = Append(@, target)]
    /\ UNCHANGED <<clock, manifest, options, pinned, phase, inputs, fetch, checked, rendered, recorded>>

\* fetch_resilient and the loop of _handle_challenge: from the beginning, unchecked.
Retry(u) ==
    /\ ByItself(u) /\ hops' = [hops EXCEPT ![u] = <<u>>]
    /\ UNCHANGED <<clock, manifest, options, pinned, phase, inputs, fetch, checked, rendered, recorded>>

Reached(u) == hops[u][Len(hops[u])]

\* The final URL alone.
FinalReasons(u) == {Decide(Reached(u), "redirect", clock)} \ {"none"}

\* _assert_response_in_scope: the chain, then the final URL.
ChainReasons(u) ==
    {Decide(hop, "redirect", clock) : hop \in Range(hops[u])} \ {"none"}

ReceiveAnswer(u) ==
    /\ fetch[u] = "sent"
    /\ IF ChainReasons(u) = {}
       THEN GoesOn(u, "answered")
       ELSE \E reason \in ChainReasons(u) : Skip(u, reason)
    /\ Passed(u, hops[u])
    /\ UNCHANGED <<clock, manifest, options, pinned, phase, inputs, rendered>>

\* A bot challenge was answered: _handle_challenge asks a browser for the URL.
Escalate(u) ==
    /\ fetch[u] = "answered" /\ options.escalates
    /\ GoesOn(u, "browsing") /\ hops' = [hops EXCEPT ![u] = <<u>>]
    /\ UNCHANGED <<clock, manifest, options, pinned, phase, inputs, checked, rendered>>

\* The browser was not challenged: its answer takes the place of the first.
Cleared(u) ==
    /\ fetch[u] = "browsing" /\ GoesOn(u, "cleared")
    /\ UNCHANGED <<clock, manifest, options, pinned, phase, inputs, hops, checked, rendered>>

\* _run_auxiliary_render_discovery, of the URL that the answer is of.
RenderPage(u) ==
    /\ fetch[u] \in {"answered", "cleared"} /\ options.renders
    /\ rendered' = rendered \cup {Reached(u)}
    /\ UNCHANGED <<clock, manifest, options, pinned, phase, inputs, fetch, hops, checked, recorded>>

Record(u) ==
    /\ \/ fetch[u] = "answered" /\ Skip(u, "content")
       \/ fetch[u] = "cleared" /\ Skip(u, "browsed")
    /\ UNCHANGED <<clock, manifest, options, pinned, phase, inputs, hops, checked, rendered>>

\* A timeout, a reset, a rule of robots.txt, an open breaker or a challenge that stays.
Fail(u) ==
    /\ fetch[u] \notin {"none", "done"} /\ Skip(u, "failed")
    /\ UNCHANGED <<clock, manifest, options, pinned, phase, inputs, hops, checked, rendered>>

ScopeNext ==
    \/ TimePasses \/ Preflight
    \/ \E u \in ScopeUrl :
          \/ Admit(u) \/ ReadRobots(u) \/ Check(u) \/ Send(u) \/ RedirectChecked(u) \/ Redirect(u)
          \/ Retry(u) \/ ReceiveAnswer(u) \/ Escalate(u) \/ Cleared(u) \/ RenderPage(u) \/ Record(u)
          \/ Fail(u)

ScopeSpec == ScopeInit /\ [][ScopeNext]_scopeVars

--------------------
Declared(u) == u.origin \in manifest.origins /\ PathAllowed(u)

AllDeclared(urls) == \A u \in urls : Declared(u)

\* Whatever redirects a client followed by itself, a page is recorded only of a
\* chain that the manifest declares from end to end and that it was found to allow
\* within its window; the one exception is a challenged URL, itself declared, of
\* a crawl that may hand it to a browser.
ContentIsDeclared ==
    \A u \in ScopeUrl :
        /\ recorded[u] = "content" =>
              AllDeclared(Range(hops[u])) /\ WithinWindow(manifest, checked[u])
        /\ recorded[u] = "browsed" => options.escalates /\ ~pinned /\ Declared(u)

\* Every fetch begins at a declared URL and after a look at the clock within the
\* window, however long it waited for its turn; a pinning backend requests no URL
\* that the manifest does not declare; and without escalation neither does render
\* discovery.
RequestsAreDeclared ==
    /\ \A u \in ScopeUrl : hops[u] # <<>> =>
          /\ Declared(Head(hops[u])) /\ WithinWindow(manifest, checked[u])
          /\ pinned => AllDeclared(Range(hops[u]))
    /\ ~options.escalates => AllDeclared(rendered)

\* A crawl that began had been asked for nothing that the manifest does not
\* declare: inputs are refused as a whole or not at all.
InputsAreWhole == phase = "running" => AllDeclared(inputs)

\* What a manifest promises of a crawl, as far as the code keeps it: every fetch
\* begins where and when it is declared, what is recorded of a client's redirects
\* is declared, and inputs are taken whole or not at all.
ManifestGovernsFetches == ContentIsDeclared /\ RequestsAreDeclared /\ InputsAreWhole

\* A hop outside the manifest "fails the fetch: the result is discarded rather
\* than recorded as page content", also of a browser that cleared a challenge.
\* False: nobody looks at the browser's chain.
BrowsedIsDeclared ==
    \A u \in ScopeUrl : recorded[u] = "browsed" => AllDeclared(Range(hops[u]))

\* "no request was made", of a refusal by the manifest.  False: a client shows its
\* chain when it has followed it.
DeniedWasNotRequested ==
    \A u \in ScopeUrl : recorded[u] \in {"time_window", "method", "origin", "path"} => hops[u] = <<>>

\* "a run never reports success while quietly omitting part of what was asked
\* for": an input of a running crawl is not left out on the manifest's account.
\* False: the window may close before its turn.
InputsAreNotOmitted ==
    phase = "running" => \A u \in inputs :
        recorded[u] \notin {"time_window", "method", "origin", "path"} \/ hops[u] # <<>>

=============================================================================
