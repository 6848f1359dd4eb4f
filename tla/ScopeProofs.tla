---------------------------- MODULE ScopeProofs -----------------------------
(*
Proofs about what a command is held to: the settings and the manifest
of the run it resumes, what the manifest declares while it crawls, the
hosts that the inventory may look up, the template and the tables of a
publish, and the answers of an audit, for every number of URLs,
processes, redirects, hosts, tabs, rows and records.
*)
EXTENDS RunSettings, ScopeManifest, ExposureInventory, SheetPublish, AuditAnswers,
        FunctionTheorems, FiniteSetTheorems, WellFoundedInduction, TLAPS

--------------------
States == {"not_authorised_not_resolved", "not_tested", "no_address", "blocked_by_policy", "resolved",
           "nxdomain", "resolver_timeout", "resolver_error", "fetch_failed", "reachable"}

InventoryTypes ==
    /\ DOMAIN state = DOMAIN asked /\ DOMAIN state = DOMAIN answers /\ DOMAIN state = DOMAIN evidence
    /\ \A h \in DOMAIN state : state[h] \in States /\ answers[h] \in SUBSET Address

\* The state of a candidate tells what was done for it.
StateTellsTheWork ==
    \A h \in DOMAIN state :
        /\ state[h] # "not_authorised_not_resolved" => IsNamed(h)
        /\ asked[h] = IF state[h] \in {"reachable", "fetch_failed"} THEN 1 ELSE 0
        /\ state[h] \in {"resolved", "reachable", "fetch_failed"} /\ policed => answers[h] = {"permitted"}
        /\ evidence[h] # "none" => state[h] = "reachable"

InventoryInv == InventoryTypes /\ StateTellsTheWork

\* The counts follow from the states.
LEMMA InventoryIsHonest == InventoryInv => OnlyTheNamedIsRequested
<1> SUFFICES ASSUME InventoryInv PROVE OnlyTheNamedIsRequested
  OBVIOUS
<1>1. DOMAIN state = DOMAIN asked /\ DOMAIN state = DOMAIN evidence
  BY DEF InventoryInv, InventoryTypes
<1>2. LookedUpWereDeclared
  BY DEF InventoryInv, StateTellsTheWork, LookedUpWereDeclared
<1>3. RequestsWerePermitted
  BY <1>1 DEF InventoryInv, StateTellsTheWork, RequestsWerePermitted
<1>4. {h \in DOMAIN state : state[h] \in {"reachable", "fetch_failed"}} = {h \in DOMAIN asked : asked[h] = 1}
  BY <1>1 DEF InventoryInv, StateTellsTheWork
<1>5. Coverage = "complete" => \A h \in DOMAIN state : state[h] = "reachable"
  BY <1>1 DEF InventoryInv, StateTellsTheWork, Coverage, TestedHosts
<1>6. QED
  BY <1>2, <1>3, <1>4, <1>5 DEF OnlyTheNamedIsRequested, CountsAreHonest, RequestedCount

\* No candidate before the hosts are derived.
LEMMA InitInventory == InventoryInit => InventoryInv
BY DEF InventoryInit, InventoryInv, InventoryTypes, StateTellsTheWork

\* Only what the manifest declares is left to be resolved.
LEMMA AuthoriseKeepsInventory ==
    ASSUME InventoryInv, Authorise
    PROVE  InventoryInv'
BY DEF Authorise, InventoryTypes, States, Matched, CandidateOrigin, IsNamed, StateTellsTheWork,
   InventoryInv

\* A lookup, of a candidate that was waiting for it.
LEMMA ResolveKeepsInventory ==
    ASSUME InventoryInv, NEW h \in DOMAIN state, Resolve(h)
    PROVE  InventoryInv'
<1>1. state[h] = "not_tested" /\ UNCHANGED <<origins, policed, evidence, asked>>
  BY DEF Resolve
<1>2. ASSUME NEW s, NEW found \in SUBSET Address,
             s \in {"no_address", "blocked_by_policy", "resolved", "nxdomain", "resolver_timeout",
                    "resolver_error"},
             s = "resolved" /\ policed => found = {"permitted"},
             state' = [state EXCEPT ![h] = s], answers' = [answers EXCEPT ![h] = found]
      PROVE  InventoryInv'
  BY <1>1, <1>2 DEF InventoryInv, InventoryTypes, States, StateTellsTheWork, IsNamed
<1>3. ASSUME NEW found \in SUBSET Address, answers' = [answers EXCEPT ![h] = found],
             state' = [state EXCEPT ![h] = ResolutionState(found)]
      PROVE  InventoryInv'
  <2>1. ResolutionState(found) = "resolved" /\ policed => found = {"permitted"}
    BY DEF ResolutionState, Blocked, Address
  <2>2. ResolutionState(found) \in {"no_address", "blocked_by_policy", "resolved"}
    BY DEF ResolutionState
  <2>3. QED
    BY <1>2, <1>3, <2>1, <2>2
<1>4. ASSUME NEW failure \in {"nxdomain", "resolver_timeout", "resolver_error"},
             state' = [state EXCEPT ![h] = failure], UNCHANGED answers
      PROVE  InventoryInv'
  BY <1>1, <1>4 DEF InventoryInv, InventoryTypes, States, StateTellsTheWork, IsNamed
<1>5. QED
  BY <1>3, <1>4 DEF Resolve

\* A request, of a candidate that was resolved to permitted addresses.
LEMMA ProbeKeepsInventory ==
    ASSUME InventoryInv, NEW h \in DOMAIN state, Probe(h)
    PROVE  InventoryInv'
<1>1. PICK outcome \in {"answered", "skipped", "raised"} :
        /\ state' = [state EXCEPT ![h] = IF outcome = "raised" THEN "fetch_failed" ELSE "reachable"]
        /\ evidence' = [evidence EXCEPT ![h] = Recorded(outcome)]
  BY DEF Probe
<1>2. /\ state[h] = "resolved" /\ UNCHANGED <<origins, policed, answers>>
      /\ asked' = [asked EXCEPT ![h] = asked[h] + 1]
  BY DEF Probe, Fetchable
<1>3. Recorded(outcome) # "none" => outcome # "raised"
  BY DEF Recorded
<1>4. DOMAIN state' = DOMAIN state /\ DOMAIN asked' = DOMAIN asked /\ DOMAIN evidence' = DOMAIN evidence
  BY <1>1, <1>2
<1>5. \A g \in DOMAIN state :
        /\ state'[g] = IF g = h THEN IF outcome = "raised" THEN "fetch_failed" ELSE "reachable" ELSE state[g]
        /\ evidence'[g] = IF g = h THEN Recorded(outcome) ELSE evidence[g]
        /\ asked'[g] = IF g = h THEN asked[h] + 1 ELSE asked[g]
  BY <1>1, <1>2 DEF InventoryInv, InventoryTypes
<1>6. asked[h] = 0
  BY <1>2 DEF InventoryInv, StateTellsTheWork
<1>7. InventoryTypes'
  BY <1>2, <1>4, <1>5 DEF InventoryInv, InventoryTypes, States
<1>8. StateTellsTheWork'
  BY <1>2, <1>3, <1>4, <1>5, <1>6 DEF InventoryInv, StateTellsTheWork, IsNamed
<1>9. QED
  BY <1>7, <1>8 DEF InventoryInv

LEMMA StepKeepsInventory ==
    ASSUME InventoryInv, [InventoryNext]_inventoryVars
    PROVE  InventoryInv'
<1>1. ASSUME UNCHANGED <<origins, policed, state, asked, answers, evidence>>
      PROVE  InventoryInv'
  BY <1>1 DEF InventoryInv, InventoryTypes, StateTellsTheWork, IsNamed
<1>2. CASE NoSeeds \/ Resolved \/ Probed
  BY <1>1, <1>2 DEF NoSeeds, Resolved, Probed
<1>3. CASE UNCHANGED inventoryVars
  BY <1>1, <1>3 DEF inventoryVars
<1>4. QED
  BY <1>2, <1>3, AuthoriseKeepsInventory, ResolveKeepsInventory, ProbeKeepsInventory DEF InventoryNext

\* Whatever hosts were crawled, published and declared: none that is not declared
\* is looked up, each is asked at most once and under a policy only at permitted
\* addresses, and "complete" counts what was done.
THEOREM OnlyNamedHostsAreRequested == InventorySpec => []OnlyTheNamedIsRequested
<1>1. InventoryInv /\ [InventoryNext]_inventoryVars => InventoryInv'
  BY StepKeepsInventory
<1>2. QED
  BY <1>1, InitInventory, InventoryIsHonest, PTL DEF InventorySpec

--------------------
Stages == {"none", "admitted", "ready", "checked", "sent", "answered", "browsing", "cleared", "done"}
Reasons == {"failed", "robots.txt", "time_window", "method", "origin", "path"}
Entries == Reasons \cup {"nothing", "content", "browsed"}

ScopeTypes ==
    /\ clock \in Nat
    /\ fetch \in [ScopeUrl -> Stages] /\ hops \in [ScopeUrl -> Seq(ScopeUrl)]
    /\ checked \in [ScopeUrl -> Nat] /\ rendered \subseteq ScopeUrl
    /\ recorded \in [ScopeUrl -> Entries]

\* A fetch of u at a place, with a chain, checked at a time and recorded as an entry:
\* nothing is requested of a URL before it is checked, only a checked chain is
\* answered, and a browser has it only in a crawl that escalates.
Sound(u, place, chain, time, entry) ==
    /\ place \in {"none", "admitted", "ready"} => chain = <<>>
    /\ place \in {"checked", "sent", "answered", "browsing", "cleared"} => chain # <<>>
    /\ place \in {"browsing", "cleared"} => options.escalates
    /\ place = "answered" => AllDeclared(Range(chain))
    /\ entry = "content" => place = "done" /\ chain # <<>> /\ AllDeclared(Range(chain))
    /\ entry = "browsed" => place = "done" /\ chain # <<>> /\ options.escalates
    /\ chain # <<>> => /\ Head(chain) = u /\ Declared(u) /\ WithinWindow(manifest, time)
                       /\ pinned => AllDeclared(Range(chain))

FetchIsSound(u) == Sound(u, fetch[u], hops[u], checked[u], recorded[u])

RenderedIsDeclared == ~options.escalates => AllDeclared(rendered)

ScopeInv ==
    /\ ScopeTypes /\ (pinned => ~options.escalates)
    /\ \A u \in ScopeUrl : FetchIsSound(u)
    /\ RenderedIsDeclared /\ InputsAreWhole

\* A URL that is not refused is one that the manifest declares, now.
LEMMA DecideMeansDeclared ==
    ASSUME NEW u, NEW purpose \in {"seed", "discovered", "redirect"}, NEW t,
           Decide(u, purpose, t) = "none"
    PROVE  Declared(u) /\ WithinWindow(manifest, t)
BY DEF Decide, Declared

\* No reason for a refusal is taken for content.
LEMMA ReasonsAreNoContent ==
    ASSUME NEW u, NEW purpose, NEW t, Decide(u, purpose, t) # "none"
    PROVE  Decide(u, purpose, t) \in Reasons
BY DEF Decide, Reasons

\* The first, the last and one more URL of a chain.
LEMMA ChainOfUrls ==
    ASSUME NEW u \in ScopeUrl, NEW chain \in Seq(ScopeUrl)
    PROVE  /\ <<u>> \in Seq(ScopeUrl) /\ <<u>> # <<>> /\ Head(<<u>>) = u
           /\ AllDeclared(Range(<<u>>)) <=> Declared(u)
           /\ Append(chain, u) \in Seq(ScopeUrl) /\ Append(chain, u) # <<>>
           /\ AllDeclared(Range(Append(chain, u))) <=> AllDeclared(Range(chain)) /\ Declared(u)
           /\ chain # <<>> => /\ Head(Append(chain, u)) = Head(chain)
                              /\ chain[Len(chain)] \in ScopeUrl \cap Range(chain)
<1>1. <<u>> \in Seq(ScopeUrl) /\ <<u>> # <<>> /\ Head(<<u>>) = u
  OBVIOUS
<1>2. Range(<<u>>) = {u}
  BY DEF Range
<1>3. /\ Append(chain, u) \in Seq(ScopeUrl) /\ Append(chain, u) # <<>>
      /\ DOMAIN Append(chain, u) = 1..(Len(chain) + 1) /\ DOMAIN chain = 1..Len(chain)
      /\ Append(chain, u)[Len(chain) + 1] = u
      /\ \A i \in 1..Len(chain) : Append(chain, u)[i] = chain[i]
  OBVIOUS
<1>4. Range(Append(chain, u)) = Range(chain) \cup {u}
  BY <1>3 DEF Range
<1>5. chain # <<>> => /\ Head(Append(chain, u)) = Head(chain)
                      /\ chain[Len(chain)] \in ScopeUrl /\ Len(chain) \in DOMAIN chain
  OBVIOUS
<1>6. chain # <<>> => chain[Len(chain)] \in ScopeUrl \cap Range(chain)
  BY <1>5 DEF Range
<1>7. QED
  BY <1>1, <1>2, <1>3, <1>4, <1>5, <1>6 DEF AllDeclared

\* A step of one fetch, to another sound state.
LEMMA OneFetchKeepsScope ==
    ASSUME ScopeInv, NEW u \in ScopeUrl,
           NEW place \in Stages, NEW chain \in Seq(ScopeUrl), NEW time \in Nat, NEW entry \in Entries,
           Sound(u, place, chain, time, entry),
           fetch' = [fetch EXCEPT ![u] = place], hops' = [hops EXCEPT ![u] = chain],
           checked' = [checked EXCEPT ![u] = time], recorded' = [recorded EXCEPT ![u] = entry],
           UNCHANGED <<clock, manifest, options, pinned, phase, inputs, rendered>>
    PROVE  ScopeInv'
<1>1. ScopeTypes'
  BY DEF ScopeInv, ScopeTypes
<1>2. /\ fetch'[u] = place /\ hops'[u] = chain /\ checked'[u] = time /\ recorded'[u] = entry
      /\ \A v \in ScopeUrl \ {u} :
            /\ fetch'[v] = fetch[v] /\ hops'[v] = hops[v]
            /\ checked'[v] = checked[v] /\ recorded'[v] = recorded[v]
  BY DEF ScopeInv, ScopeTypes
<1>3. \A v \in ScopeUrl : FetchIsSound(v)'
  BY <1>2 DEF ScopeInv, FetchIsSound, Sound, AllDeclared, Declared
<1>4. QED
  BY <1>1, <1>3 DEF ScopeInv, RenderedIsDeclared, InputsAreWhole, AllDeclared, Declared

\* A fetch goes to another place, as checked as before.
LEMMA GoingOnKeepsScope ==
    ASSUME ScopeInv, NEW u \in ScopeUrl, NEW place \in Stages, NEW chain \in Seq(ScopeUrl),
           GoesOn(u, place), hops' = [hops EXCEPT ![u] = chain],
           Sound(u, place, chain, checked[u], recorded[u]),
           UNCHANGED <<clock, manifest, options, pinned, phase, inputs, checked, rendered>>
    PROVE  ScopeInv'
<1>1. checked[u] \in Nat /\ recorded[u] \in Entries
  BY DEF ScopeInv, ScopeTypes
<1>2. /\ fetch' = [fetch EXCEPT ![u] = place]
      /\ checked' = [checked EXCEPT ![u] = checked[u]]
      /\ recorded' = [recorded EXCEPT ![u] = recorded[u]]
  BY DEF GoesOn, ScopeInv, ScopeTypes
<1>3. QED
  BY <1>1, <1>2, OneFetchKeepsScope

\* A fetch is given up, or what it brought is recorded.
LEMMA SkipKeepsScope ==
    ASSUME ScopeInv, NEW u \in ScopeUrl, NEW entry \in Entries, Skip(u, entry),
           entry = "content" => fetch[u] = "answered", entry = "browsed" => fetch[u] = "cleared",
           UNCHANGED <<clock, manifest, options, pinned, phase, inputs, hops, checked, rendered>>
    PROVE  ScopeInv'
<1>1. hops[u] \in Seq(ScopeUrl) /\ checked[u] \in Nat /\ "done" \in Stages
  BY DEF ScopeInv, ScopeTypes, Stages
<1>2. /\ fetch' = [fetch EXCEPT ![u] = "done"] /\ recorded' = [recorded EXCEPT ![u] = entry]
      /\ hops' = [hops EXCEPT ![u] = hops[u]] /\ checked' = [checked EXCEPT ![u] = checked[u]]
  BY DEF Skip, ScopeInv, ScopeTypes
<1>3. Sound(u, "done", hops[u], checked[u], entry)
  BY DEF ScopeInv, FetchIsSound, Sound
<1>4. QED
  BY <1>1, <1>2, <1>3, OneFetchKeepsScope

\* A fetch that was looked at now goes on, with the chain that was looked at.
LEMMA PassingKeepsScope ==
    ASSUME ScopeInv, NEW u \in ScopeUrl, NEW place \in Stages \ {"done"}, NEW chain \in Seq(ScopeUrl),
           GoesOn(u, place), Passed(u, chain), Sound(u, place, chain, clock, recorded[u]),
           UNCHANGED <<clock, manifest, options, pinned, phase, inputs, rendered>>
    PROVE  ScopeInv'
<1>1. clock \in Nat /\ recorded[u] \in Entries
  BY DEF ScopeInv, ScopeTypes
<1>2. fetch' = [fetch EXCEPT ![u] = place] /\ recorded' = [recorded EXCEPT ![u] = recorded[u]]
  BY DEF GoesOn, ScopeInv, ScopeTypes
<1>3. fetch'[u] # "done"
  BY <1>2 DEF ScopeInv, ScopeTypes
<1>4. hops' = [hops EXCEPT ![u] = chain] /\ checked' = [checked EXCEPT ![u] = clock]
  BY <1>3 DEF Passed
<1>5. QED
  BY <1>1, <1>2, <1>4, OneFetchKeepsScope

\* One that was refused leaves its chain as it was.
LEMMA RefusalKeepsScope ==
    ASSUME ScopeInv, NEW u \in ScopeUrl, NEW chain, NEW reason \in Reasons,
           Skip(u, reason), Passed(u, chain),
           UNCHANGED <<clock, manifest, options, pinned, phase, inputs, rendered>>
    PROVE  ScopeInv'
<1>1. fetch'[u] = "done"
  BY DEF Skip, ScopeInv, ScopeTypes
<1>2. UNCHANGED <<hops, checked>>
  BY <1>1 DEF Passed
<1>3. reason \in Entries /\ reason # "content" /\ reason # "browsed"
  BY DEF Reasons, Entries
<1>4. QED
  BY <1>2, <1>3, SkipKeepsScope

\* Before and during its requests.
LEMMA RequestKeepsScope ==
    ASSUME ScopeInv, NEW u \in ScopeUrl,
           Admit(u) \/ ReadRobots(u) \/ Check(u) \/ Send(u) \/ RedirectChecked(u) \/ Redirect(u) \/ Retry(u)
    PROVE  ScopeInv'
<1>1. FetchIsSound(u) /\ hops[u] \in Seq(ScopeUrl) /\ (pinned => ~options.escalates)
  BY DEF ScopeInv, ScopeTypes
<1>2. ASSUME NEW place \in {"admitted", "ready"}, GoesOn(u, place), fetch[u] \in {"none", "admitted"},
             UNCHANGED <<clock, manifest, options, pinned, phase, inputs, hops, checked, rendered>>
      PROVE  ScopeInv'
  <2>1. Sound(u, place, hops[u], checked[u], recorded[u])
    BY <1>1, <1>2 DEF FetchIsSound, Sound
  <2>2. hops' = [hops EXCEPT ![u] = hops[u]] /\ place \in Stages
    BY <1>2 DEF ScopeInv, ScopeTypes, Stages
  <2>3. QED
    BY <1>1, <1>2, <2>1, <2>2, GoingOnKeepsScope
<1>3. ASSUME NEW reason \in Reasons, Skip(u, reason),
             UNCHANGED <<clock, manifest, options, pinned, phase, inputs, hops, checked, rendered>>
      PROVE  ScopeInv'
  BY <1>3, SkipKeepsScope DEF Reasons, Entries
<1>4. CASE Admit(u)
  <2>1. UNCHANGED <<clock, manifest, options, pinned, phase, inputs, hops, checked, rendered>>
    BY <1>4 DEF Admit
  <2>2. CASE Decide(u, "discovered", clock) = "none"
    BY <1>2, <1>4, <2>1, <2>2 DEF Admit, Require
  <2>3. CASE Decide(u, "discovered", clock) # "none"
    BY <1>3, <1>4, <2>1, <2>3, ReasonsAreNoContent DEF Admit, Require
  <2>4. QED
    BY <2>2, <2>3
<1>5. CASE ReadRobots(u)
  BY <1>2, <1>3, <1>5 DEF ReadRobots, Reasons
<1>6. CASE Check(u)
  <2>1. UNCHANGED <<clock, manifest, options, pinned, phase, inputs, rendered>> /\ Passed(u, <<u>>)
    BY <1>6 DEF Check
  <2>2. CASE Decide(u, "discovered", clock) = "none"
    <3>1. GoesOn(u, "checked") /\ fetch[u] \in {"admitted", "ready"} /\ "checked" \in Stages \ {"done"}
      BY <1>6, <2>2 DEF Check, Require, Ready, Stages
    <3>2. Sound(u, "checked", <<u>>, clock, recorded[u])
      BY <1>1, <2>2, <3>1, DecideMeansDeclared, ChainOfUrls DEF FetchIsSound, Sound
    <3>3. <<u>> \in Seq(ScopeUrl)
      OBVIOUS
    <3>4. QED
      BY <2>1, <3>1, <3>2, <3>3, PassingKeepsScope
  <2>3. CASE Decide(u, "discovered", clock) # "none"
    BY <1>6, <2>1, <2>3, ReasonsAreNoContent, RefusalKeepsScope DEF Check, Require
  <2>4. QED
    BY <2>2, <2>3
<1>7. CASE Send(u)
  <2>1. /\ GoesOn(u, "sent") /\ fetch[u] = "checked" /\ "sent" \in Stages
        /\ hops' = [hops EXCEPT ![u] = hops[u]]
    BY <1>7 DEF Send, ScopeInv, ScopeTypes, Stages
  <2>2. Sound(u, "sent", hops[u], checked[u], recorded[u])
    BY <1>1, <2>1 DEF FetchIsSound, Sound
  <2>3. QED
    BY <1>1, <1>7, <2>1, <2>2, GoingOnKeepsScope DEF Send
<1>8. CASE RedirectChecked(u)
  <2>1. PICK target \in ScopeUrl : /\ Require(u, target, "redirect", "checked")
                                   /\ Passed(u, Append(hops[u], target))
    BY <1>8 DEF RedirectChecked
  <2>2. /\ UNCHANGED <<clock, manifest, options, pinned, phase, inputs, rendered>>
        /\ pinned /\ fetch[u] = "sent"
    BY <1>8 DEF RedirectChecked
  <2>3. CASE Decide(target, "redirect", clock) = "none"
    <3>1. GoesOn(u, "checked") /\ "checked" \in Stages \ {"done"}
      BY <2>1, <2>3 DEF Require, Stages
    <3>2. Sound(u, "checked", Append(hops[u], target), clock, recorded[u])
      BY <1>1, <2>2, <2>3, DecideMeansDeclared, ChainOfUrls DEF FetchIsSound, Sound
    <3>3. QED
      BY <1>1, <2>1, <2>2, <3>1, <3>2, ChainOfUrls, PassingKeepsScope
  <2>4. CASE Decide(target, "redirect", clock) # "none"
    BY <2>1, <2>2, <2>4, ReasonsAreNoContent, RefusalKeepsScope DEF Require
  <2>5. QED
    BY <2>3, <2>4
<1>9. ASSUME NEW chain \in Seq(ScopeUrl), chain # <<>>, Head(chain) = u,
             hops' = [hops EXCEPT ![u] = chain], ByItself(u),
             UNCHANGED <<clock, manifest, options, pinned, phase, inputs, fetch, checked, rendered, recorded>>
      PROVE  ScopeInv'
  <2>1. fetch[u] \in {"sent", "browsing"} /\ ~pinned
    BY <1>1, <1>9 DEF ByItself, FetchIsSound, Sound
  <2>2. Sound(u, fetch[u], chain, checked[u], recorded[u])
    BY <1>1, <1>9, <2>1 DEF FetchIsSound, Sound
  <2>3. GoesOn(u, fetch[u]) /\ fetch[u] \in Stages
    BY <1>9 DEF GoesOn, ScopeInv, ScopeTypes
  <2>4. QED
    BY <1>9, <2>2, <2>3, GoingOnKeepsScope
<1>10. CASE Redirect(u)
  <2>1. PICK target \in ScopeUrl : hops' = [hops EXCEPT ![u] = Append(hops[u], target)]
    BY <1>10 DEF Redirect
  <2>2. hops[u] # <<>> /\ Head(hops[u]) = u
    BY <1>1, <1>10 DEF Redirect, ByItself, FetchIsSound, Sound
  <2>3. /\ Append(hops[u], target) \in Seq(ScopeUrl) /\ Append(hops[u], target) # <<>>
        /\ Head(Append(hops[u], target)) = u
    BY <1>1, <2>2, ChainOfUrls
  <2>4. /\ ByItself(u)
        /\ UNCHANGED <<clock, manifest, options, pinned, phase, inputs, fetch, checked, rendered, recorded>>
    BY <1>10 DEF Redirect
  <2>5. QED
    BY <1>9, <2>1, <2>3, <2>4
<1>11. CASE Retry(u)
  BY <1>1, <1>9, <1>11, ChainOfUrls DEF Retry
<1>12. QED
  BY <1>4, <1>5, <1>6, <1>7, <1>8, <1>10, <1>11

\* After its answer.
LEMMA AnswerKeepsScope ==
    ASSUME ScopeInv, NEW u \in ScopeUrl,
           \/ ReceiveAnswer(u) \/ Escalate(u) \/ Cleared(u) \/ RenderPage(u) \/ Record(u) \/ Fail(u)
    PROVE  ScopeInv'
<1>1. FetchIsSound(u) /\ hops[u] \in Seq(ScopeUrl)
  BY DEF ScopeInv, ScopeTypes
<1>2. CASE ReceiveAnswer(u)
  <2>1. /\ UNCHANGED <<clock, manifest, options, pinned, phase, inputs, rendered>>
        /\ fetch[u] = "sent" /\ Passed(u, hops[u])
    BY <1>2 DEF ReceiveAnswer
  <2>2. CASE ChainReasons(u) = {}
    <3>1. \A hop \in Range(hops[u]) : Declared(hop) /\ WithinWindow(manifest, clock)
      BY <2>2, DecideMeansDeclared DEF ChainReasons
    <3>2. Range(hops[u]) # {}
      BY <1>1, <2>1, ChainOfUrls DEF FetchIsSound, Sound
    <3>3. Sound(u, "answered", hops[u], clock, recorded[u])
      BY <1>1, <2>1, <3>1, <3>2 DEF FetchIsSound, Sound, AllDeclared
    <3>4. GoesOn(u, "answered") /\ "answered" \in Stages \ {"done"}
      BY <1>2, <2>2 DEF ReceiveAnswer, Stages
    <3>5. QED
      BY <1>1, <2>1, <3>3, <3>4, PassingKeepsScope
  <2>3. CASE ChainReasons(u) # {}
    <3>1. PICK reason \in ChainReasons(u) : Skip(u, reason)
      BY <1>2, <2>3 DEF ReceiveAnswer
    <3>2. reason \in Reasons
      BY ReasonsAreNoContent DEF ChainReasons
    <3>3. QED
      BY <2>1, <3>1, <3>2, RefusalKeepsScope
  <2>4. QED
    BY <2>2, <2>3
<1>3. CASE Escalate(u)
  <2>1. /\ GoesOn(u, "browsing") /\ hops' = [hops EXCEPT ![u] = <<u>>] /\ "browsing" \in Stages
        /\ fetch[u] = "answered" /\ options.escalates
    BY <1>3 DEF Escalate, Stages
  <2>2. Sound(u, "browsing", <<u>>, checked[u], recorded[u])
    BY <1>1, <2>1, ChainOfUrls DEF FetchIsSound, Sound
  <2>3. <<u>> \in Seq(ScopeUrl)
    OBVIOUS
  <2>4. UNCHANGED <<clock, manifest, options, pinned, phase, inputs, checked, rendered>>
    BY <1>3 DEF Escalate
  <2>5. QED
    BY <2>1, <2>2, <2>3, <2>4, GoingOnKeepsScope
<1>4. CASE Cleared(u)
  <2>1. /\ GoesOn(u, "cleared") /\ "cleared" \in Stages /\ fetch[u] = "browsing"
        /\ hops' = [hops EXCEPT ![u] = hops[u]]
    BY <1>4 DEF Cleared, ScopeInv, ScopeTypes, Stages
  <2>2. Sound(u, "cleared", hops[u], checked[u], recorded[u])
    BY <1>1, <2>1 DEF FetchIsSound, Sound
  <2>3. QED
    BY <1>1, <1>4, <2>1, <2>2, GoingOnKeepsScope DEF Cleared
<1>5. CASE RenderPage(u)
  <2>1. /\ UNCHANGED <<clock, manifest, options, pinned, phase, inputs, fetch, hops, checked, recorded>>
        /\ fetch[u] \in {"answered", "cleared"} /\ rendered' = rendered \cup {Reached(u)}
    BY <1>5 DEF RenderPage
  <2>2. Reached(u) \in ScopeUrl \cap Range(hops[u])
    BY <1>1, <2>1, ChainOfUrls DEF FetchIsSound, Sound, Reached
  <2>3. ~options.escalates => Declared(Reached(u))
    BY <1>1, <2>1, <2>2 DEF FetchIsSound, Sound, AllDeclared
  <2>4. RenderedIsDeclared' /\ ScopeTypes'
    BY <2>1, <2>2, <2>3 DEF ScopeInv, ScopeTypes, RenderedIsDeclared, AllDeclared, Declared
  <2>5. QED
    BY <2>1, <2>4 DEF ScopeInv, FetchIsSound, Sound, InputsAreWhole, AllDeclared, Declared
<1>6. CASE Record(u)
  BY <1>6, SkipKeepsScope DEF Record, Entries
<1>7. CASE Fail(u)
  BY <1>7, SkipKeepsScope DEF Fail, Entries, Reasons
<1>8. QED
  BY <1>2, <1>3, <1>4, <1>5, <1>6, <1>7

LEMMA StepKeepsScope ==
    ASSUME ScopeInv, [ScopeNext]_scopeVars
    PROVE  ScopeInv'
<1>1. CASE TimePasses \/ UNCHANGED scopeVars
  <2>1. /\ UNCHANGED <<manifest, options, pinned, phase, inputs, fetch, hops, checked, rendered, recorded>>
        /\ clock' \in Nat
    BY <1>1 DEF TimePasses, scopeVars, ScopeInv, ScopeTypes
  <2>2. QED
    BY <2>1 DEF ScopeInv, ScopeTypes, FetchIsSound, Sound, RenderedIsDeclared, InputsAreWhole,
       AllDeclared, Declared
<1>2. CASE Preflight
  <2>1. UNCHANGED <<clock, manifest, options, pinned, inputs, fetch, hops, checked, rendered, recorded>>
    BY <1>2 DEF Preflight
  <2>2. phase' = "running" => AllDeclared(inputs)
    BY <1>2, DecideMeansDeclared DEF Preflight, Refused, AllDeclared
  <2>3. InputsAreWhole'
    BY <2>1, <2>2 DEF InputsAreWhole, AllDeclared, Declared
  <2>4. QED
    BY <2>1, <2>3 DEF ScopeInv, ScopeTypes, FetchIsSound, Sound, RenderedIsDeclared, AllDeclared,
       Declared
<1>3. QED
  BY <1>1, <1>2, RequestKeepsScope, AnswerKeepsScope DEF ScopeNext

\* Whatever the manifest, the inputs, the redirects and the time anything takes: a
\* crawl that begins has only declared inputs, every fetch begins at a declared URL
\* after a look at the clock within the window, and what is recorded is of a chain
\* that is declared from end to end, but for the answer that a browser brings of a
\* challenged URL, of which only that URL is known to be declared.
THEOREM CrawlStaysDeclared == ScopeSpec => []ManifestGovernsFetches
<1>1. ScopeInit => ScopeInv
  BY DEF ScopeInit, ScopeTypes, Stages, Entries, FetchIsSound, Sound, RenderedIsDeclared, AllDeclared,
     InputsAreWhole, ScopeInv
<1>2. ScopeInv /\ [ScopeNext]_scopeVars => ScopeInv'
  BY StepKeepsScope
<1>3. ScopeInv => ManifestGovernsFetches
  BY DEF ScopeInv, FetchIsSound, Sound, RenderedIsDeclared, ManifestGovernsFetches, ContentIsDeclared,
     RequestsAreDeclared
<1>4. QED
  BY <1>1, <1>2, <1>3, PTL DEF ScopeSpec

--------------------
AllSettings == {Settings(c, s) : c \in Command, s \in SUBSET Url} \cup {None}
AllSessions == [settings : AllSettings, waived : BOOLEAN, by : Command, resumed : BOOLEAN]
RunRows == [settings : AllSettings, sessions : SUBSET AllSessions,
            status : {"none", "running", "interrupted", "complete_with_errors", "complete"}]
Before == {"idle", "list", "archive", "select", "create", "resume"}
Jobs == [at : Before \cup {"queue", "crawl", "ended"}, cmd : Command \cup {None}, seeds : SUBSET Url,
         settings : AllSettings, exit : Int, touched : BOOLEAN, claimed : SUBSET Url,
         flight : SUBSET Url, unsaved : SUBSET Url, unmarked : SUBSET Url, stop : BOOLEAN]

SettingsTypes ==
    runs \in [RunId -> RunRows] /\ stored \in [RunId -> SUBSET Url] /\ job \in [Proc -> Jobs]

\* A job that is about to resume has been compared with the run's row, which
\* keeps its settings; what a crawl has claimed is in flight, stored or counted
\* as not stored; and the exit code is of what was done.
JobIsSound(j) ==
    /\ j.at # "idle" => j.cmd \in Command
    /\ j.at # "ended" => j.exit = -1
    /\ j.at \in Before => ~j.touched
    /\ j.exit = Validation => ~j.touched
    /\ j.at = "resume" =>
          /\ j.cmd.resume # None /\ runs[Chosen(j.cmd)] # NoRun
          /\ runs[Chosen(j.cmd)].settings.manifest = j.settings.manifest
          /\ runs[Chosen(j.cmd)].settings = j.settings \/ j.cmd.waive
    /\ j.at \in Before \cup {"queue"} => j.claimed = {}
    /\ j.at \in {"crawl", "ended"} => j.claimed \subseteq j.flight \cup j.unsaved \cup stored[Chosen(j.cmd)]
    /\ j.exit = Success /\ j.touched =>
          j.flight = {} /\ j.unmarked = {} /\ (j.unsaved = {} \/ j.cmd.bestEffort)

\* All sessions of a run had its manifest, and its settings or a waiver; only the
\* one that created it did not resume it.
RunIsSound(r) ==
    /\ \A s \in runs[r].sessions :
          /\ s.settings.manifest = runs[r].settings.manifest
          /\ s.settings = runs[r].settings \/ s.waived
    /\ \A s, t \in runs[r].sessions : ~s.resumed /\ ~t.resumed => s = t

SettingsInv ==
    /\ SettingsTypes /\ (\A p \in Proc : JobIsSound(job[p])) /\ (\A r \in RunId : RunIsSound(r))

\* No run loses its settings, and no page is lost.
RunsGrow ==
    \A r \in RunId : /\ runs[r] # NoRun => runs'[r] # NoRun /\ runs'[r].settings = runs[r].settings
                     /\ stored[r] \subseteq stored'[r]

\* What a process does leaves the others' jobs as sound as they were.
LEMMA JobStepKeepsSettings ==
    ASSUME SettingsAssumption, SettingsInv, NEW p \in Proc, NEW j \in Jobs, Set(p, j), RunsGrow,
           runs' \in [RunId -> RunRows], stored' \in [RunId -> SUBSET Url], JobIsSound(j)',
           \A r \in RunId : RunIsSound(r)'
    PROVE  SettingsInv'
<1>1. job \in [Proc -> Jobs] /\ job' = [job EXCEPT ![p] = j]
  BY DEF SettingsInv, SettingsTypes, Set
<1>2. SettingsTypes'
  BY <1>1 DEF SettingsTypes
<1>3. ASSUME NEW q \in Proc
      PROVE  JobIsSound(job[q])'
  BY <1>1 DEF SettingsInv, SettingsAssumption, Chosen, Before, JobIsSound, RunsGrow
<1>4. QED
  BY <1>2, <1>3 DEF SettingsInv

\* A step that leaves runs and pages alone.
LEMMA QuietStepKeepsSettings ==
    ASSUME SettingsAssumption, SettingsInv, NEW p \in Proc, NEW j \in Jobs, Set(p, j),
           UNCHANGED <<runs, stored>>, JobIsSound(j)
    PROVE  SettingsInv'
BY JobStepKeepsSettings DEF RunsGrow, SettingsInv, SettingsTypes, JobIsSound, RunIsSound

\* The record of a job that has not begun.
LEMMA NoJobIsSound == NoJob \in Jobs /\ JobIsSound(NoJob)
BY DEF NoJob, Jobs, JobIsSound, AllSettings, Before, Validation, Success

\* What the end of a job, and each step of it, leaves in its record.
LEMMA EndedFields ==
    ASSUME NEW j \in Jobs, NEW code \in Int
    PROVE  /\ Ended(j, code) \in Jobs
           /\ Ended(j, code).at = "ended" /\ Ended(j, code).exit = code
           /\ Ended(j, code).cmd = j.cmd /\ Ended(j, code).touched = j.touched
           /\ Ended(j, code).claimed = j.claimed /\ Ended(j, code).flight = j.flight
           /\ Ended(j, code).unsaved = j.unsaved /\ Ended(j, code).unmarked = j.unmarked
BY DEF Jobs, Ended

LEMMA StepFields ==
    ASSUME NEW j \in Jobs, NEW place \in Before \cup {"queue", "crawl"}
    PROVE  LET k == [j EXCEPT !.at = place]
           IN  /\ k \in Jobs /\ k.at = place /\ k.exit = j.exit /\ k.cmd = j.cmd
               /\ k.touched = j.touched /\ k.settings = j.settings /\ k.claimed = j.claimed
               /\ k.flight = j.flight /\ k.unsaved = j.unsaved /\ k.unmarked = j.unmarked
BY DEF Jobs

\* A command is refused, or its job begins; nothing has been touched.
LEMMA InvokeKeepsSettings ==
    ASSUME SettingsAssumption, SettingsInv, NEW p \in Proc, NEW c \in Command, Invoke(p, c)
    PROVE  SettingsInv'
<1>1. PICK open : open = IF c.csvSeed THEN Listed(c) \cup SeedsOf(c) ELSE SeedsOf(c)
  OBVIOUS
<1>2. open \in SUBSET Url
  BY <1>1 DEF SettingsAssumption, SeedsOf, Listed
<1>3. PICK j : j = [NoJob EXCEPT !.cmd = c, !.seeds = open]
  OBVIOUS
<1>4. j \in Jobs /\ j.at = "idle" /\ j.exit = -1 /\ ~j.touched /\ j.claimed = {} /\ j.cmd = c
  <2>1. j = [at |-> "idle", cmd |-> c, seeds |-> open, settings |-> None, exit |-> -1, touched |-> FALSE,
             claimed |-> {}, flight |-> {}, unsaved |-> {}, unmarked |-> {}, stop |-> FALSE]
    BY <1>3 DEF NoJob
  <2>2. QED
    BY <1>2, <2>1 DEF Jobs, AllSettings, Before
<1>5. PICK k : k = IF IsRefused(c) THEN Ended(j, Validation)
                   ELSE [j EXCEPT !.at = IF IsListCrawl(c) THEN "list" ELSE "archive"]
  OBVIOUS
<1>6. /\ k \in Jobs /\ ~k.touched /\ k.claimed = {} /\ k.cmd = c
      /\ \/ k.at = "ended" /\ k.exit = Validation
         \/ k.at \in {"list", "archive"} /\ k.exit = -1
  <2>1. CASE IsRefused(c)
    BY <1>4, <1>5, <2>1, EndedFields DEF Validation
  <2>2. CASE ~IsRefused(c)
    <3>1. PICK place \in {"list", "archive"} : k = [j EXCEPT !.at = place]
      BY <1>5, <2>2
    <3>2. place \in Before \cup {"queue", "crawl"}
      BY DEF Before
    <3>3. QED
      BY <1>4, <3>1, <3>2, StepFields
  <2>3. QED
    BY <2>1, <2>2
<1>7. JobIsSound(k)
  BY <1>6 DEF JobIsSound, Validation, Success
<1>8. Set(p, k) /\ UNCHANGED <<runs, stored>>
  BY <1>1, <1>3, <1>5 DEF Invoke
<1>9. QED
  BY <1>6, <1>7, <1>8, QuietStepKeepsSettings

\* The list is crawled, or the archive asked: nothing has been touched.
LEMMA BeginningKeepsSettings ==
    ASSUME SettingsAssumption, SettingsInv, NEW p \in Proc, CrawlTheList(p) \/ AskArchive(p)
    PROVE  SettingsInv'
<1>1. PICK j : j = job[p]
  OBVIOUS
<1>2. /\ j \in Jobs /\ j.at \in {"list", "archive"} /\ j.cmd \in Command /\ ~j.touched
      /\ j.claimed = {} /\ j.exit = -1
  BY <1>1 DEF SettingsInv, SettingsTypes, JobIsSound, CrawlTheList, AskArchive, Before
<1>3. UNCHANGED <<runs, stored>>
  BY DEF CrawlTheList, AskArchive
<1>4. ASSUME NEW code \in {Success, Failure, Interrupted}, Set(p, Ended(j, code))
      PROVE  SettingsInv'
  <2>1. PICK k : k = Ended(j, code)
    OBVIOUS
  <2>2. k \in Jobs /\ k.at = "ended" /\ k.exit = code /\ k.cmd \in Command /\ ~k.touched /\ k.claimed = {}
    BY <1>2, <2>1, EndedFields DEF Success, Failure, Interrupted
  <2>3. JobIsSound(k)
    BY <2>2 DEF JobIsSound, Before
  <2>4. QED
    BY <1>3, <1>4, <2>1, <2>2, <2>3, QuietStepKeepsSettings
<1>5. CASE CrawlTheList(p)
  BY <1>1, <1>4, <1>5 DEF CrawlTheList
<1>6. CASE AskArchive(p)
  <2>1. PICK seeds \in SUBSET Url :
             Set(p, IF seeds = {} THEN Ended(j, Success)
                    ELSE [j EXCEPT !.seeds = seeds, !.settings = Settings(j.cmd, seeds), !.at = "select"])
    BY <1>1, <1>2, <1>6 DEF Jobs, AskArchive
  <2>2. CASE seeds = {}
    BY <1>4, <2>1, <2>2
  <2>3. CASE seeds # {}
    <3>1. PICK k : k = [j EXCEPT !.seeds = seeds, !.settings = Settings(j.cmd, seeds), !.at = "select"]
      OBVIOUS
    <3>2. Settings(j.cmd, seeds) \in AllSettings
      BY <1>2 DEF AllSettings
    <3>3. k \in Jobs /\ k.at = "select" /\ k.exit = -1 /\ k.cmd \in Command /\ ~k.touched /\ k.claimed = {}
      BY <1>2, <3>1, <3>2 DEF Jobs, Before
    <3>4. JobIsSound(k)
      BY <3>3 DEF JobIsSound, Before, Validation, Success
    <3>5. QED
      BY <1>3, <2>1, <2>3, <3>1, <3>3, <3>4, QuietStepKeepsSettings
  <2>4. QED
    BY <2>2, <2>3
<1>7. QED
  BY <1>5, <1>6

\* A job goes on to a resumption only if the row it read allows it.
LEMMA SelectKeepsSettings ==
    ASSUME SettingsAssumption, SettingsInv, NEW p \in Proc, SelectRun(p)
    PROVE  SettingsInv'
<1>1. PICK j : j = job[p]
  OBVIOUS
<1>2. /\ j \in Jobs /\ j.at = "select" /\ j.cmd \in Command /\ ~j.touched /\ j.claimed = {} /\ j.exit = -1
  BY <1>1 DEF SettingsInv, SettingsTypes, JobIsSound, SelectRun, Before
<1>3. UNCHANGED <<runs, stored>>
  BY DEF SelectRun
<1>4. \/ Set(p, Ended(j, Validation))
      \/ /\ j.cmd.resume # None /\ ~ResumeIsRefused(runs[Chosen(j.cmd)], j)
         /\ Set(p, [j EXCEPT !.at = "resume"])
      \/ Set(p, [j EXCEPT !.at = "create"])
  BY <1>1 DEF SelectRun
<1>5. CASE Set(p, Ended(j, Validation))
  BY <1>2, <1>3, <1>5, EndedFields, QuietStepKeepsSettings DEF Validation, JobIsSound, Before
<1>6. ASSUME NEW place \in {"resume", "create"}, Set(p, [j EXCEPT !.at = place]),
             place = "resume" => j.cmd.resume # None /\ ~ResumeIsRefused(runs[Chosen(j.cmd)], j)
      PROVE  SettingsInv'
  <2>1. PICK k : k = [j EXCEPT !.at = place]
    OBVIOUS
  <2>2. place \in Before \cup {"queue", "crawl"}
    BY DEF Before
  <2>3. /\ k \in Jobs /\ k.at = place /\ k.exit = -1 /\ k.cmd = j.cmd /\ ~k.touched /\ k.claimed = {}
        /\ k.settings = j.settings
    BY <1>2, <2>1, <2>2, StepFields
  <2>4. JobIsSound(k)
    BY <1>2, <1>6, <2>3 DEF JobIsSound, Before, Validation, Success, ResumeIsRefused, IsSameManifest
  <2>5. QED
    BY <1>3, <1>6, <2>1, <2>3, <2>4, QuietStepKeepsSettings
<1>7. QED
  BY <1>4, <1>5, <1>6

\* Rows are queued and claimed, and the crawl is told to stop or killed.
LEMMA CrawlingKeepsSettings ==
    ASSUME SettingsAssumption, SettingsInv, NEW p \in Proc,
           \/ QueueRows(p) \/ FirstSignal(p) \/ Killed(p)
           \/ \E u \in Url : Claim(p, u)
    PROVE  SettingsInv'
<1>1. PICK j : j = job[p]
  OBVIOUS
<1>2. j \in Jobs /\ JobIsSound(j) /\ j.at # "idle" /\ j.at # "ended" /\ j.cmd \in Command /\ j.exit = -1
  BY <1>1 DEF SettingsInv, SettingsTypes, JobIsSound, QueueRows, FirstSignal, Killed, Claim
<1>3. UNCHANGED <<runs, stored>>
  BY DEF QueueRows, FirstSignal, Killed, Claim
<1>4. CASE QueueRows(p)
  <2>1. PICK k : k = [j EXCEPT !.at = "crawl"]
    OBVIOUS
  <2>2. /\ k \in Jobs /\ k.at = "crawl" /\ k.exit = -1 /\ k.cmd = j.cmd /\ k.claimed = {}
        /\ Set(p, k)
    BY <1>1, <1>2, <1>4, <2>1, StepFields DEF QueueRows, JobIsSound
  <2>3. JobIsSound(k)
    BY <1>2, <2>2 DEF JobIsSound, Before, Validation, Success
  <2>4. QED
    BY <1>3, <2>2, <2>3, QuietStepKeepsSettings
<1>5. CASE FirstSignal(p)
  <2>1. PICK k : k = [j EXCEPT !.stop = TRUE]
    OBVIOUS
  <2>2. /\ k \in Jobs /\ k.at = "crawl" /\ k.exit = -1 /\ k.cmd = j.cmd /\ k.claimed = j.claimed
        /\ k.flight = j.flight /\ k.unsaved = j.unsaved /\ j.at = "crawl" /\ Set(p, k)
    BY <1>1, <1>2, <1>5, <2>1 DEF FirstSignal, Jobs
  <2>3. JobIsSound(k)
    BY <1>2, <2>2 DEF JobIsSound, Before, Validation, Success
  <2>4. QED
    BY <1>3, <2>2, <2>3, QuietStepKeepsSettings
<1>6. CASE Killed(p)
  <2>1. PICK k : k = Cut(j)
    OBVIOUS
  <2>2. k = [at |-> "ended", cmd |-> j.cmd, seeds |-> {}, settings |-> None, exit |-> 130,
             touched |-> FALSE, claimed |-> {}, flight |-> {}, unsaved |-> {}, unmarked |-> {},
             stop |-> FALSE]
    BY <2>1 DEF Cut, NoJob, Interrupted
  <2>3. k \in Jobs
    BY <1>2, <2>2 DEF Jobs, AllSettings
  <2>4. JobIsSound(k)
    BY <1>2, <2>2 DEF JobIsSound, Before, Success
  <2>5. Set(p, k)
    BY <1>1, <1>6, <2>1 DEF Killed
  <2>6. QED
    BY <1>3, <2>3, <2>4, <2>5, QuietStepKeepsSettings
<1>7. ASSUME NEW u \in Url, Claim(p, u)
      PROVE  SettingsInv'
  <2>1. PICK k : k = [j EXCEPT !.claimed = j.claimed \cup {u}, !.flight = j.flight \cup {u}]
    OBVIOUS
  <2>2. /\ k \in Jobs /\ k.at = "crawl" /\ k.exit = -1 /\ k.cmd = j.cmd /\ j.at = "crawl"
        /\ k.claimed = j.claimed \cup {u} /\ k.flight = j.flight \cup {u} /\ k.unsaved = j.unsaved
    BY <1>1, <1>2, <1>7, <2>1 DEF Claim, Jobs
  <2>3. JobIsSound(k)
    BY <1>2, <2>2 DEF JobIsSound, Before, Validation, Success
  <2>4. Set(p, k)
    BY <1>1, <1>7, <2>1 DEF Claim
  <2>5. QED
    BY <1>3, <2>2, <2>3, <2>4, QuietStepKeepsSettings
<1>8. QED
  BY <1>4, <1>5, <1>6, <1>7

\* A page is stored, or counted as not stored.
LEMMA AnswerKeepsSettings ==
    ASSUME SettingsAssumption, SettingsInv, NEW p \in Proc, NEW u \in Url, Answer(p, u)
    PROVE  SettingsInv'
<1>1. PICK j : j = job[p]
  OBVIOUS
<1>2. /\ j \in Jobs /\ JobIsSound(j) /\ j.at = "crawl" /\ j.cmd \in Command /\ j.exit = -1
      /\ u \in j.flight
  BY <1>1 DEF SettingsInv, SettingsTypes, JobIsSound, Answer
<1>3. PICK r : r = Chosen(j.cmd)
  OBVIOUS
<1>4. r \in RunId /\ stored \in [RunId -> SUBSET Url] /\ runs \in [RunId -> RunRows]
  BY <1>2, <1>3 DEF SettingsAssumption, Chosen, SettingsInv, SettingsTypes
<1>5. PICK k : k = [j EXCEPT !.flight = j.flight \ {u}]
  OBVIOUS
<1>6. /\ k \in Jobs /\ k.at = "crawl" /\ k.exit = -1 /\ k.cmd = j.cmd /\ k.claimed = j.claimed
      /\ k.flight = j.flight \ {u} /\ k.unsaved = j.unsaved /\ k.unmarked = j.unmarked
  BY <1>2, <1>5 DEF Jobs
<1>7. /\ UNCHANGED runs
      /\ \/ stored' = [stored EXCEPT ![r] = stored[r] \cup {u}] /\ Set(p, k)
         \/ /\ stored' = [stored EXCEPT ![r] = stored[r] \cup {u}]
            /\ Set(p, [k EXCEPT !.unmarked = k.unmarked \cup {u}])
         \/ UNCHANGED stored /\ Set(p, [k EXCEPT !.unsaved = k.unsaved \cup {u}])
  BY <1>1, <1>3, <1>5, <1>6 DEF Answer
<1>8. \A s \in RunId : RunIsSound(s)'
  BY <1>7 DEF SettingsInv, RunIsSound
<1>9. ASSUME NEW i \in Jobs, stored' = [stored EXCEPT ![r] = stored[r] \cup {u}], Set(p, i),
             i.at = "crawl", i.exit = -1, i.cmd = j.cmd, i.claimed = j.claimed,
             i.flight = j.flight \ {u}, i.unsaved = j.unsaved
      PROVE  SettingsInv'
  <2>1. stored' \in [RunId -> SUBSET Url] /\ RunsGrow
    BY <1>4, <1>7, <1>9 DEF RunsGrow
  <2>2. stored'[r] = stored[r] \cup {u}
    BY <1>4, <1>9
  <2>3. i.claimed \subseteq i.flight \cup i.unsaved \cup stored'[r]
    BY <1>2, <1>3, <1>9, <2>2 DEF JobIsSound
  <2>4. JobIsSound(i)'
    BY <1>2, <1>3, <1>9, <2>3 DEF JobIsSound, Before, Validation, Success
  <2>5. QED
    BY <1>4, <1>7, <1>8, <1>9, <2>1, <2>4, JobStepKeepsSettings
<1>10. CASE stored' = [stored EXCEPT ![r] = stored[r] \cup {u}] /\ Set(p, k)
  BY <1>6, <1>9, <1>10
<1>11. CASE /\ stored' = [stored EXCEPT ![r] = stored[r] \cup {u}]
            /\ Set(p, [k EXCEPT !.unmarked = k.unmarked \cup {u}])
  BY <1>6, <1>9, <1>11 DEF Jobs
<1>12. CASE UNCHANGED stored /\ Set(p, [k EXCEPT !.unsaved = k.unsaved \cup {u}])
  <2>1. PICK i : i = [k EXCEPT !.unsaved = k.unsaved \cup {u}]
    OBVIOUS
  <2>2. /\ i \in Jobs /\ i.at = "crawl" /\ i.exit = -1 /\ i.cmd = j.cmd /\ i.claimed = j.claimed
        /\ i.flight = j.flight \ {u} /\ i.unsaved = j.unsaved \cup {u}
    BY <1>6, <2>1 DEF Jobs
  <2>3. JobIsSound(i)
    BY <1>2, <2>2 DEF JobIsSound, Before, Validation, Success
  <2>4. QED
    BY <1>7, <1>12, <2>1, <2>2, <2>3, QuietStepKeepsSettings
<1>13. QED
  BY <1>7, <1>10, <1>11, <1>12

\* The exit code is chosen when nothing is in flight.
LEMMA FinishKeepsSettings ==
    ASSUME SettingsAssumption, SettingsInv, NEW p \in Proc, Finish(p)
    PROVE  SettingsInv'
<1>1. PICK j : j = job[p]
  OBVIOUS
<1>2. /\ j \in Jobs /\ JobIsSound(j) /\ j.at = "crawl" /\ j.cmd \in Command /\ j.flight = {}
  BY <1>1 DEF SettingsInv, SettingsTypes, JobIsSound, Finish
<1>3. PICK r : r = Chosen(j.cmd)
  OBVIOUS
<1>4. r \in RunId /\ stored \in [RunId -> SUBSET Url] /\ runs \in [RunId -> RunRows]
  BY <1>2, <1>3 DEF SettingsAssumption, Chosen, SettingsInv, SettingsTypes
<1>5. PICK status : status = FinalStatus(j)
  OBVIOUS
<1>6. status \in {"interrupted", "complete_with_errors", "complete"}
  BY <1>5 DEF FinalStatus
<1>7. PICK run : run = [runs[r] EXCEPT !.status = status]
  OBVIOUS
<1>8. run \in RunRows /\ run # NoRun /\ run.settings = runs[r].settings /\ run.sessions = runs[r].sessions
  BY <1>4, <1>6, <1>7 DEF RunRows, NoRun
<1>9. UNCHANGED stored /\ runs' = [runs EXCEPT ![r] = run] /\ Set(p, Ended(j, ExitCode(j)))
  BY <1>1, <1>3, <1>5, <1>7 DEF Finish
<1>10. runs' \in [RunId -> RunRows] /\ RunsGrow
  BY <1>4, <1>8, <1>9 DEF RunsGrow
<1>11. \A s \in RunId : RunIsSound(s)'
  BY <1>4, <1>8, <1>9 DEF SettingsInv, RunIsSound
<1>12. PICK code : code = ExitCode(j)
  OBVIOUS
<1>13. /\ code \in Int /\ code # Validation
       /\ code = Success => j.unmarked = {} /\ (j.unsaved = {} \/ j.cmd.bestEffort)
  BY <1>12 DEF ExitCode, Validation, Success, Failure, Interrupted
<1>14. PICK k : k = Ended(j, code)
  OBVIOUS
<1>15. /\ k \in Jobs /\ k.at = "ended" /\ k.exit = code /\ k.cmd = j.cmd /\ k.claimed = j.claimed
       /\ k.flight = {} /\ k.unsaved = j.unsaved /\ k.unmarked = j.unmarked
  BY <1>2, <1>13, <1>14, EndedFields
<1>16. JobIsSound(k)'
  BY <1>2, <1>9, <1>13, <1>15 DEF JobIsSound, Before
<1>17. QED
  BY <1>4, <1>9, <1>10, <1>11, <1>12, <1>14, <1>15, <1>16, JobStepKeepsSettings

\* A run is created once, and taken up only by a job that was let through.
LEMMA PreparingKeepsSettings ==
    ASSUME SettingsAssumption, SettingsInv, NEW p \in Proc, CreateRun(p) \/ ResumeRun(p)
    PROVE  SettingsInv'
<1>1. PICK j : j = job[p]
  OBVIOUS
<1>2. /\ j \in Jobs /\ JobIsSound(j) /\ j.at \in {"create", "resume"} /\ j.cmd \in Command
      /\ j.exit = -1 /\ ~j.touched /\ j.claimed = {}
  BY <1>1 DEF SettingsInv, SettingsTypes, JobIsSound, CreateRun, ResumeRun, Before
<1>3. PICK r : r = Chosen(j.cmd)
  OBVIOUS
<1>4. r \in RunId /\ stored \in [RunId -> SUBSET Url] /\ runs \in [RunId -> RunRows] /\ UNCHANGED stored
  BY <1>2, <1>3 DEF SettingsAssumption, Chosen, SettingsInv, SettingsTypes, CreateRun, ResumeRun
<1>5. PICK session : session = Session(j)
  OBVIOUS
<1>6. /\ session \in AllSessions /\ session.settings = j.settings /\ session.waived = j.cmd.waive
      /\ session.resumed = (j.cmd.resume # None)
  BY <1>2, <1>5 DEF Session, AllSessions, Jobs, SettingsAssumption
<1>7. PICK k : k = [j EXCEPT !.at = "queue", !.touched = TRUE]
  OBVIOUS
<1>8. k \in Jobs /\ k.at = "queue" /\ k.exit = -1 /\ k.cmd = j.cmd /\ k.claimed = {}
  BY <1>2, <1>7 DEF Jobs
<1>9. JobIsSound(k)'
  BY <1>2, <1>8 DEF JobIsSound, Before, Validation, Success
<1>10. ASSUME NEW run \in RunRows, run # NoRun, runs' = [runs EXCEPT ![r] = run], Set(p, k),
              runs[r] # NoRun => run.settings = runs[r].settings, RunIsSound(r)'
       PROVE  SettingsInv'
  BY <1>4, <1>8, <1>9, <1>10, JobStepKeepsSettings DEF RunsGrow, SettingsInv, RunIsSound
<1>11. CASE CreateRun(p)
  <2>1. CASE runs[r] # NoRun
    <3>1. PICK i : i = Ended(j, Validation)
      OBVIOUS
    <3>2. i \in Jobs /\ i.at = "ended" /\ i.exit = Validation /\ i.cmd = j.cmd /\ ~i.touched /\ i.claimed = {}
      BY <1>2, <3>1, EndedFields DEF Validation
    <3>3. JobIsSound(i)
      BY <1>2, <3>2 DEF JobIsSound, Before
    <3>4. Set(p, i) /\ UNCHANGED runs
      BY <1>1, <1>3, <1>11, <2>1, <3>1 DEF CreateRun
    <3>5. QED
      BY <1>4, <3>2, <3>3, <3>4, QuietStepKeepsSettings
  <2>2. CASE runs[r] = NoRun
    <3>1. PICK run : run = [settings |-> j.settings, status |-> "running", sessions |-> {session}]
      OBVIOUS
    <3>2. run \in RunRows /\ run # NoRun /\ run.settings = j.settings /\ run.sessions = {session}
      BY <1>2, <1>6, <3>1 DEF RunRows, NoRun, Jobs
    <3>3. runs' = [runs EXCEPT ![r] = run] /\ Set(p, k)
      BY <1>1, <1>3, <1>5, <1>7, <1>11, <2>2, <3>1 DEF CreateRun
    <3>4. runs'[r] = run
      BY <1>4, <3>3
    <3>5. RunIsSound(r)'
      BY <1>6, <3>2, <3>4 DEF RunIsSound
    <3>6. QED
      BY <1>10, <2>2, <3>2, <3>3, <3>5
  <2>3. QED
    BY <2>1, <2>2
<1>12. CASE ResumeRun(p)
  <2>1. /\ j.cmd.resume # None /\ runs[r] # NoRun
        /\ runs[r].settings.manifest = j.settings.manifest
        /\ runs[r].settings = j.settings \/ j.cmd.waive
    BY <1>1, <1>2, <1>3, <1>12 DEF ResumeRun, JobIsSound
  <2>2. PICK run : run = [runs[r] EXCEPT !.status = "running", !.sessions = runs[r].sessions \cup {session}]
    OBVIOUS
  <2>3. /\ run \in RunRows /\ run # NoRun /\ run.settings = runs[r].settings
        /\ run.sessions = runs[r].sessions \cup {session}
    BY <1>4, <1>6, <2>2 DEF RunRows, NoRun
  <2>4. runs' = [runs EXCEPT ![r] = run] /\ Set(p, k)
    BY <1>1, <1>3, <1>4, <1>5, <1>7, <1>12, <2>2 DEF ResumeRun, RunRows
  <2>5. runs'[r] = run
    BY <1>4, <2>4
  <2>6. RunIsSound(r)'
    BY <1>4, <1>6, <2>1, <2>3, <2>5 DEF RunIsSound, SettingsInv
  <2>7. QED
    BY <1>10, <2>3, <2>4, <2>6
<1>13. QED
  BY <1>11, <1>12

LEMMA StepKeepsRunSettings ==
    ASSUME SettingsAssumption, SettingsInv, [Next]_vars
    PROVE  SettingsInv'
<1>1. CASE UNCHANGED vars
  BY <1>1 DEF vars, SettingsInv, SettingsTypes, JobIsSound, RunIsSound
<1>2. ASSUME NEW p \in Proc,
             \/ \E c \in Command : Invoke(p, c)
             \/ CrawlTheList(p) \/ AskArchive(p) \/ SelectRun(p) \/ CreateRun(p) \/ ResumeRun(p)
             \/ QueueRows(p)
             \/ \E u \in Url : Claim(p, u) \/ Answer(p, u)
             \/ FirstSignal(p) \/ Killed(p) \/ Finish(p)
      PROVE  SettingsInv'
  BY <1>2, InvokeKeepsSettings, BeginningKeepsSettings, SelectKeepsSettings, PreparingKeepsSettings,
     CrawlingKeepsSettings, AnswerKeepsSettings, FinishKeepsSettings
<1>3. QED
  BY <1>1, <1>2 DEF Next

\* What the invariant says of runs and of jobs that have ended.
LEMMA SettingsMeanKept == SettingsInv => RunsKeepTheirSettings
BY DEF SettingsInv, RunIsSound, ManifestIsNeverWaived, OnlyAWaiverMixesSettings, JobIsSound,
   RefusalChangesNothing, SuccessIsDurable, Success, RunsKeepTheirSettings

\* Whatever commands however many processes run, and whenever they are killed: a
\* run keeps its manifest, settings differ only under a waiver, a refused command
\* has changed nothing, and a code of success is of what is stored.
THEOREM SettingsAreKept ==
    ASSUME SettingsAssumption
    PROVE  Spec => []RunsKeepTheirSettings
<1>1. Init => SettingsInv
  BY NoJobIsSound DEF NoRun, RunRows, AllSettings, Init, SettingsTypes, RunIsSound, SettingsInv
<1>2. SettingsInv /\ [Next]_vars => SettingsInv'
  BY StepKeepsRunSettings
<1>3. QED
  BY <1>1, <1>2, SettingsMeanKept, PTL DEF Spec

--------------------
\* The ways of a publish: before a copy is made, tab by tab, with the copy as it
\* was made, and with the new tabs in it.
Beforehand == {"asked", "refused", "copy"}
Copying == {"tabs", "rename"}
Copied == {"metadata", "header", "no header", "add"}
Filling == {"rules", "clear", "tickets", "dropdowns", "details", "write"}
Reading == {"verify", "receipt", "receipt error"}
Prepared == Filling \cup Reading

AnyTab == Tabs(TabName \cup {"Sheet1"} \cup {CopyOf(n) : n \in TabName})

Distinct(tabs) == \A i, j \in DOMAIN tabs : tabs[i].name = tabs[j].name => i = j

SheetTypes ==
    /\ template \in Templates /\ publication \in Publication /\ edits \in Nat
    /\ at \in Beforehand \cup Copying \cup Copied \cup Prepared \cup {"raised"}
    /\ differs \in BOOLEAN /\ hasRule \in BOOLEAN
    /\ todo \in Seq(Details) /\ (at = "write" => todo # <<>>)
    /\ at \in {"rules", "clear", "tickets", "dropdowns"} => WantsTickets

\* A publish that goes on was asked for tables of their own.
TablesAreAllowed ==
    /\ at \in Beforehand => book = <<>>
    /\ at \notin {"asked", "refused"} => Details \cap (Protected \cup {"Tickets"}) = {}

\* Somebody may have edited rows, and nothing else.
SameShape(tab, other) ==
    /\ tab.name = other.name /\ tab.header = other.header /\ tab.rules = other.rules
    /\ tab.crossing = other.crossing /\ tab.beyond = other.beyond
LooksLike(tab, other) == SameShape(tab, other) /\ (edits = 0 => tab.rows = other.rows)

\* The first tab of a new workbook is its own, the others are copies in order.
TabsArrive ==
    at \in Copying =>
        /\ book \in Seq(AnyTab) /\ Len(book) \in 1..(Len(template) + 1)
        /\ Len(book) = Len(template) + 1 <=> at = "rename"
        /\ \A i \in 1..(Len(book) - 1) : LooksLike(book[i + 1], Arrived(template[i]))

\* However it was made, the copy is the template, and its names are known.
CopyIsWhole ==
    /\ at \in Copied =>
          /\ book \in Seq(TabSet) /\ Len(book) = Len(template)
          /\ \A i \in DOMAIN template : LooksLike(book[i], template[i])
    /\ at \in {"header", "no header", "add"} \cup Prepared => knownTabs = Names(template)
    /\ at \in {"add"} \cup Prepared /\ WantsTickets =>
          \E i \in DOMAIN template : template[i].name = "Tickets" /\ template[i].header

\* Writing changes no name, no order and no header.
TabsStay ==
    at \in Prepared =>
        /\ book \in Seq(TabSet) /\ Distinct(book) /\ TabsAreArranged
        /\ \A k \in DOMAIN book, i \in DOMAIN template :
              book[k].name = template[i].name => book[k].header = template[i].header

\* How far the tickets have come.
TicketsAre(new, old) ==
    /\ new.rows = IF at \in {"rules", "clear"} THEN old.rows
                  ELSE IF at = "tickets" THEN EmptyRows
                  ELSE Sent(EmptyRows, DataRows)
    /\ new.rules = IF at \in {"rules", "clear", "tickets", "dropdowns"} THEN old.rules
                   ELSE old.rules \cup (IF 1 \in old.rules THEN 1..DataRows ELSE {})
    /\ at \in {"clear", "tickets", "dropdowns"} => hasRule = (DataRows > 0 /\ 1 \in old.rules)

\* What is not written stays the template's.
ContentsFollow ==
    at \in Prepared /\ edits = 0 =>
        \A k \in DOMAIN book, i \in DOMAIN template :
            book[k].name = template[i].name =>
                /\ book[k].name \notin WrittenTabs => book[k] = template[i]
                /\ book[k].name = "Tickets" /\ WantsTickets => TicketsAre(book[k], template[i])

\* A tab that was read back and not edited since is as it was read.
ReadsAreTrue ==
    /\ read \subseteq WrittenTabs
    /\ at \in Beforehand \cup Copying \cup Copied \cup Filling => read = {} /\ ~differs
    /\ at \in {"verify", "receipt"} /\ ~differs => \A name \in read \ late : Matches(name)
    /\ at = "receipt" => ~differs /\ read = WrittenTabs

SheetInv ==
    /\ SheetTypes /\ TablesAreAllowed /\ TabsArrive /\ CopyIsWhole /\ TabsStay /\ ContentsFollow
    /\ ReadsAreTrue

--------------------
\* With distinct names, a tab's position is where its name is.
LEMMA PositionIsUnique ==
    ASSUME NEW tabs, Distinct(tabs), NEW i \in DOMAIN tabs
    PROVE  Position(tabs, tabs[i].name) = i
BY DEF Position, Distinct

\* So is a table's place.
LEMMA PlaceIsUnique ==
    ASSUME SheetAssumption, publication \in Publication, NEW name \in Details
    PROVE  Place(name) \in DOMAIN publication.details /\ publication.details[Place(name)] = name
BY DEF Details, ToSet, Place

LEMMA WhatIsPublished ==
    ASSUME SheetAssumption, SheetTypes
    PROVE  /\ NumRows \in Nat \ {0} /\ 1 \in Rows
           /\ template \in Seq(TabSet) /\ template # <<>> /\ Distinct(template)
           /\ publication.details \in Seq(TabName) /\ Details \subseteq TabName
           /\ publication.rows \in Rows /\ DataRows \in 0..NumRows
           /\ publication.tickets \in {NoTickets} \cup 0..NumRows
           /\ IsFiniteSet(NewNames) /\ Cardinality(NewNames) \in Nat
<1>1. publication \in Publication /\ template \in Templates
  BY DEF SheetTypes
<1>2. /\ publication.tickets \in {NoTickets} \cup 0..NumRows /\ publication.rows \in Rows
      /\ publication.details \in Seq(TabName)
  BY <1>1 DEF SheetAssumption
<1>3. NumRows \in Nat \ {0}
  BY DEF SheetAssumption
<1>4. DataRows \in 0..NumRows
  BY <1>2, <1>3 DEF DataRows, WantsTickets, NoTickets
<1>5. template \in Seq(TabSet) /\ template # <<>> /\ Distinct(template)
  BY <1>1 DEF SheetAssumption, Distinct
<1>6. Details \subseteq TabName
  BY <1>2 DEF Details, ToSet
<1>7. IsFiniteSet(Details)
  <2> DEFINE f == publication.details
  <2>1. f \in Surjection(1..Len(f), Details)
    BY <1>2 DEF Surjection, Details, ToSet
  <2>2. IsFiniteSet(1..Len(f))
    BY <1>2, FS_Interval
  <2> QED
    BY <2>1, <2>2, FS_Surjection
<1>8. IsFiniteSet(NewNames) /\ Cardinality(NewNames) \in Nat
  BY <1>7, FS_Subset, FS_CardinalityType DEF NewNames
<1> QED
  BY <1>2, <1>3, <1>4, <1>5, <1>6, <1>8 DEF Rows

\* Every publish begins with nothing.
LEMMA InitSheet == SheetAssumption /\ SheetInit => SheetInv
<1> SUFFICES ASSUME SheetAssumption, SheetInit PROVE SheetInv
  OBVIOUS
<1>1. SheetTypes
  <2>1. publication.details \in Seq(Details)
    BY DEF SheetInit, SheetAssumption, Details, ToSet
  <2> QED
    BY <2>1 DEF SheetInit, SheetTypes, Beforehand
<1>2. TablesAreAllowed /\ TabsArrive /\ CopyIsWhole /\ TabsStay /\ ContentsFollow /\ ReadsAreTrue
  BY DEF SheetInit, TablesAreAllowed, TabsArrive, CopyIsWhole, TabsStay, ContentsFollow, ReadsAreTrue,
         Beforehand, Copying, Copied, Filling, Reading, Prepared, WrittenTabs
<1> QED
  BY <1>1, <1>2 DEF SheetInv

--------------------
\* What the definitions rest on, unchanged, leaves them as they are.
LEMMA SameBook ==
    ASSUME UNCHANGED <<sheetInputs, book, knownTabs>>
    PROVE  /\ (TabsAreArranged => TabsAreArranged') /\ WrittenTabs' = WrittenTabs /\ Details' = Details
           /\ DataRows' = DataRows /\ WantsTickets' = WantsTickets
           /\ \A name : Matches(name)' = Matches(name)
<1>1. Details' = Details /\ WantsTickets' = WantsTickets /\ DataRows' = DataRows /\ NewNames' = NewNames
  BY DEF sheetInputs, Details, ToSet, WantsTickets, DataRows, NewNames
<1>2. WrittenTabs' = WrittenTabs
  BY <1>1 DEF WrittenTabs
<1>3. \A name : Tab(name)' = Tab(name) /\ Place(name)' = Place(name)
  BY DEF Tab, Position, Place, sheetInputs
<1>4. \A name : Matches(name)' = Matches(name)
  BY <1>1, <1>3 DEF Matches, sheetInputs
<1>5. TabsAreArranged => TabsAreArranged'
  <2>1. \A name : Position(book, name)' = Position(book, name)
    BY DEF Position
  <2>2. Names(book)' = Names(book) /\ Names(template)' = Names(template)
    BY DEF Names, sheetInputs
  <2> QED
    BY <1>1, <1>3, <2>1, <2>2 DEF TabsAreArranged, Precedes, sheetInputs
<1> QED
  BY <1>1, <1>2, <1>4, <1>5

\* Steps before a tab is added, or after a failure, that leave the copy alone.
LEMMA QuietStepKeepsSheet ==
    ASSUME SheetAssumption, SheetInv, CheckTables \/ ReadMetadata \/ LocateHeader \/ CallFails
    PROVE  SheetInv'
<1>1. /\ UNCHANGED <<sheetInputs, book, hasRule, todo, read, differs, edits, late>>
      /\ at \in Beforehand \cup Copying \cup Copied \cup Prepared
      /\ at' \in {"refused", "copy", "header", "no header", "add", "raised"}
  BY DEF SheetInv, SheetTypes, CheckTables, ReadMetadata, LocateHeader, CallFails, SheetEnded, Beforehand, Copying, Copied,
         Prepared, Filling, Reading
<1>2. UNCHANGED <<template, publication, Details, WantsTickets, WrittenTabs>>
  BY <1>1 DEF sheetInputs, Details, WantsTickets, WrittenTabs
<1>3. SheetTypes'
  BY <1>1, <1>2 DEF SheetInv, SheetTypes, Beforehand, Copied
<1>4. TablesAreAllowed'
  <2>1. CASE CheckTables
    BY <1>1, <1>2, <2>1 DEF SheetInv, TablesAreAllowed, CheckTables, Beforehand
  <2>2. CASE ReadMetadata \/ LocateHeader \/ CallFails
    BY <1>2, <2>2 DEF ReadMetadata, LocateHeader, CallFails, SheetEnded, Beforehand, SheetInv,
       TablesAreAllowed
  <2> QED
    BY <2>1, <2>2
<1>5. TabsArrive' /\ TabsStay' /\ ContentsFollow'
  BY <1>1 DEF TabsArrive, TabsStay, ContentsFollow, Copying, Prepared, Filling, Reading
<1>6. CopyIsWhole'
  <2>1. CASE CheckTables \/ CallFails
    BY <2>1 DEF CheckTables, CallFails, CopyIsWhole, Copied, Prepared, Filling, Reading
  <2>2. CASE ReadMetadata
    <3>1. /\ at = "metadata" /\ at' = "header" /\ knownTabs' = Names(book)
          /\ book \in Seq(TabSet) /\ Len(book) = Len(template)
          /\ \A i \in DOMAIN template : LooksLike(book[i], template[i])
      BY <2>2 DEF ReadMetadata, SheetInv, CopyIsWhole, Copied
    <3>2. Names(book) = Names(template)
      <4>1. DOMAIN book = DOMAIN template
        BY <3>1, WhatIsPublished DEF SheetInv
      <4>2. \A i \in DOMAIN template : book[i].name = template[i].name
        BY <3>1 DEF LooksLike, SameShape
      <4> QED
        BY <4>1, <4>2 DEF Names
    <3> QED
      BY <1>1, <1>2, <3>1, <3>2 DEF CopyIsWhole, LooksLike, Copied, Prepared, Filling, Reading, SameShape
  <2>3. CASE LocateHeader
    <3>1. /\ at = "header" /\ knownTabs' = knownTabs /\ knownTabs = Names(template)
          /\ book \in Seq(TabSet) /\ Len(book) = Len(template)
          /\ \A i \in DOMAIN template : LooksLike(book[i], template[i])
      BY <2>3 DEF LocateHeader, SheetInv, CopyIsWhole, Copied
    <3>2. ASSUME at' = "add", WantsTickets
          PROVE  \E i \in DOMAIN template : template[i].name = "Tickets" /\ template[i].header
      <4>1. "Tickets" \in Names(template) /\ Tab("Tickets").header
        BY <2>3, <3>1, <3>2 DEF LocateHeader, HeaderIsThere
      <4>2. PICK i \in DOMAIN template : template[i].name = "Tickets"
        BY <4>1 DEF Names
      <4>3. template \in Seq(TabSet) /\ Distinct(template)
        BY WhatIsPublished DEF SheetInv
      <4>4. Distinct(book) /\ i \in DOMAIN book /\ book[i].name = "Tickets" /\ book[i].header = template[i].header
        BY <3>1, <4>2, <4>3 DEF Distinct, LooksLike, SameShape
      <4>5. Tab("Tickets") = book[i]
        BY <4>4, PositionIsUnique DEF Tab
      <4> QED
        BY <4>1, <4>2, <4>4, <4>5
    <3>3. at' \notin Prepared /\ (at' = "add" \/ at' = "no header")
      BY <2>3 DEF LocateHeader, Prepared, Filling, Reading
    <3> QED
      BY <1>1, <1>2, <3>1, <3>2, <3>3 DEF CopyIsWhole, LooksLike, SameShape
  <2> QED
    BY <2>1, <2>2, <2>3
<1>7. ReadsAreTrue'
  <2>1. CASE at' = "raised"
    BY <1>1, <1>2, <2>1 DEF SheetInv, ReadsAreTrue, Beforehand, Copying, Copied, Filling
  <2>2. CASE at' # "raised"
    <3>1. read = {} /\ ~differs /\ at' \notin Reading
      BY <1>1, <2>2 DEF SheetInv, ReadsAreTrue, CheckTables, ReadMetadata, LocateHeader, CallFails, Beforehand, Copied, Reading
    <3> QED
      BY <1>1, <3>1 DEF ReadsAreTrue, Reading
  <2> QED
    BY <2>1, <2>2
<1> QED
  BY <1>3, <1>4, <1>5, <1>6, <1>7 DEF SheetInv

\* The copy is made, in one call or tab by tab.
LEMMA CopyingKeepsSheet ==
    ASSUME SheetAssumption, SheetInv, CopyTemplate \/ CreateWorkbook \/ CopyTab \/ RenameTabs
    PROVE  SheetInv'
<1>1. /\ UNCHANGED <<sheetInputs, knownTabs, hasRule, todo, read, differs, edits, late>>
      /\ at \in {"copy", "tabs", "rename"} /\ at' \in {"tabs", "rename", "metadata"}
  BY DEF CopyTemplate, CreateWorkbook, CopyTab, RenameTabs
<1>2. UNCHANGED <<template, publication, Details, WrittenTabs>>
  BY <1>1 DEF sheetInputs, Details, WrittenTabs, WantsTickets
<1>3. SheetTypes'
  BY <1>1, <1>2 DEF SheetInv, SheetTypes, Copying, Copied
<1>4. TablesAreAllowed'
  BY <1>1, <1>2 DEF SheetInv, TablesAreAllowed, Beforehand
<1>5. TabsStay' /\ ContentsFollow'
  BY <1>1 DEF TabsStay, ContentsFollow, Prepared, Filling, Reading
<1>6. ReadsAreTrue'
  BY <1>1, <1>2 DEF SheetInv, ReadsAreTrue, Beforehand, Copying, Copied
<1>7. /\ template \in Seq(TabSet) /\ template # <<>> /\ Len(template) \in Nat \ {0}
      /\ \A i \in 1..Len(template) : template[i] \in TabSet
  BY WhatIsPublished DEF SheetInv
<1>8. CASE CopyTemplate
  <2>1. at' = "metadata" /\ book' = template
    BY <1>8 DEF CopyTemplate
  <2>2. \A i \in DOMAIN template : LooksLike(template[i], template[i])'
    BY <1>2 DEF LooksLike, SameShape
  <2>3. CopyIsWhole'
    BY <1>2, <1>7, <2>1, <2>2 DEF CopyIsWhole, LooksLike, Copied, Prepared, Filling, Reading, SameShape
  <2>4. TabsArrive'
    BY <2>1 DEF TabsArrive, Copying
  <2> QED
    BY <1>3, <1>4, <1>5, <1>6, <2>3, <2>4 DEF SheetInv
<1>9. CASE CreateWorkbook
  <2>1. at' = "tabs" /\ book' = <<Blank("Sheet1")>>
    BY <1>9 DEF CreateWorkbook
  <2>2. Blank("Sheet1") \in AnyTab
    BY DEF Blank, AnyTab, Words, EmptyRows, Tabs
  <2>3. book' \in Seq(AnyTab) /\ Len(book') = 1
    BY <2>1, <2>2
  <2>4. TabsArrive'
    BY <1>2, <1>7, <2>1, <2>3 DEF TabsArrive
  <2>5. CopyIsWhole'
    BY <2>1 DEF CopyIsWhole, Copied, Prepared, Filling, Reading
  <2> QED
    BY <1>3, <1>4, <1>5, <1>6, <2>4, <2>5 DEF SheetInv
<1>10. CASE CopyTab
  <2> DEFINE k == Len(book)
             new == Arrived(template[k])
  <2>1. /\ at = "tabs" /\ book' = Append(book, new)
        /\ at' = IF k = Len(template) THEN "rename" ELSE "tabs"
    BY <1>10 DEF CopyTab
  <2>2. /\ book \in Seq(AnyTab) /\ k \in 1..Len(template)
        /\ \A i \in 1..(k - 1) : LooksLike(book[i + 1], Arrived(template[i]))
    BY <1>7, <2>1 DEF SheetInv, TabsArrive, Copying
  <2>3. new \in AnyTab
    BY <1>7, <2>2 DEF TabSet, AnyTab, Arrived, CopyOf, Tabs
  <2>4. /\ book' \in Seq(AnyTab) /\ Len(book') = k + 1
        /\ \A i \in 1..k : book'[i] = book[i]
        /\ book'[k + 1] = new
    <3> HIDE DEF new
    <3> QED
      BY <2>1, <2>2, <2>3
  <2>5. ASSUME NEW i \in 1..k
        PROVE  LooksLike(book[i + 1], Arrived(template[i]))'
    <3>1. CASE i = k
      BY <1>2, <2>4, <3>1 DEF LooksLike, Arrived, SameShape
    <3>2. CASE i < k
      BY <1>1, <1>2, <2>2, <2>4, <3>2 DEF LooksLike, Arrived, SameShape
    <3> QED
      BY <2>2, <3>1, <3>2
  <2>6. TabsArrive'
    <3> HIDE DEF new
    <3>1. Len(book') \in 1..(Len(template') + 1) /\ (Len(book') = Len(template') + 1 <=> at' = "rename")
      BY <1>2, <1>7, <2>1, <2>2, <2>4
    <3>2. Len(book') - 1 = k
      BY <2>2, <2>4
    <3> QED
      BY <2>4, <2>5, <3>1, <3>2 DEF TabsArrive
  <2>7. CopyIsWhole'
    BY <2>1 DEF CopyIsWhole, Copied, Prepared, Filling, Reading
  <2> QED
    BY <1>3, <1>4, <1>5, <1>6, <2>6, <2>7 DEF SheetInv
<1>11. CASE RenameTabs
  <2>1. at = "rename" /\ at' = "metadata" /\ book' = [i \in DOMAIN template |-> Renamed(i)]
    BY <1>11 DEF RenameTabs
  <2>2. /\ book \in Seq(AnyTab) /\ Len(book) = Len(template) + 1
        /\ \A i \in 1..(Len(book) - 1) : LooksLike(book[i + 1], Arrived(template[i]))
    BY <2>1 DEF SheetInv, TabsArrive, Copying
  <2>3. ASSUME NEW i \in 1..Len(template)
        PROVE  Renamed(i) \in TabSet /\ LooksLike(Renamed(i), template[i])
    <3>1. book[i + 1] \in AnyTab /\ LooksLike(book[i + 1], Arrived(template[i])) /\ template[i] \in TabSet
      BY <1>7, <2>2
    <3>2. book[i + 1].rules \cup template[i].rules = template[i].rules
      BY <3>1 DEF LooksLike, Arrived, AnyTab, TabSet, Tabs, SameShape
    <3>3. Renamed(i) = [book[i + 1] EXCEPT !.name = template[i].name, !.rules = template[i].rules]
      BY <3>1, <3>2 DEF Renamed, AnyTab, Tabs
    <3>4. Renamed(i) \in TabSet
      BY <3>1, <3>3 DEF AnyTab, TabSet, Tabs
    <3>5. LooksLike(Renamed(i), template[i])
      BY <3>1, <3>3 DEF LooksLike, Arrived, AnyTab, TabSet, Tabs, SameShape
    <3> QED
      BY <3>4, <3>5
  <2>4. book' \in Seq(TabSet) /\ Len(book') = Len(template)
    BY <1>7, <2>1, <2>3
  <2>5. \A i \in DOMAIN template : LooksLike(book[i], template[i])'
    BY <1>1, <1>2, <1>7, <2>1, <2>3 DEF LooksLike, SameShape
  <2>6. CopyIsWhole'
    BY <1>2, <2>1, <2>4, <2>5 DEF CopyIsWhole, LooksLike, Copied, Prepared, Filling, Reading, SameShape
  <2>7. TabsArrive'
    BY <2>1 DEF TabsArrive, Copying
  <2> QED
    BY <1>3, <1>4, <1>5, <1>6, <2>6, <2>7 DEF SheetInv
<1> QED
  BY <1>8, <1>9, <1>10, <1>11

\* Every name is that of one tab.
LEMMA TabsOfNames ==
    ASSUME SheetAssumption, SheetInv, at \in Prepared
    PROVE  /\ WrittenTabs \subseteq Names(book) /\ Names(template) \subseteq Names(book)
           /\ \A name \in Names(book) :
                 /\ Position(book, name) \in DOMAIN book /\ Tab(name) = book[Position(book, name)]
                 /\ Tab(name) \in TabSet /\ Tab(name).name = name
                 /\ \A k \in DOMAIN book : book[k].name = name => k = Position(book, name)
<1>1. book \in Seq(TabSet) /\ Distinct(book) /\ Names(book) = Names(template) \cup Details
  BY DEF SheetInv, TabsStay, TabsAreArranged
<1>2. WantsTickets => "Tickets" \in Names(template)
  BY DEF SheetInv, CopyIsWhole, Names
<1>3. WrittenTabs \subseteq Names(book)
  BY <1>1, <1>2 DEF WrittenTabs
<1>4. ASSUME NEW name \in Names(book)
      PROVE  /\ Position(book, name) \in DOMAIN book /\ Tab(name) = book[Position(book, name)]
             /\ Tab(name) \in TabSet /\ Tab(name).name = name
             /\ \A k \in DOMAIN book : book[k].name = name => k = Position(book, name)
  BY <1>1, PositionIsUnique DEF Names, Tab, Distinct
<1> QED
  BY <1>1, <1>3, <1>4

\* Names and headers that stay keep the tabs arranged.
LEMMA SameNames ==
    ASSUME SheetAssumption, SheetInv, at \in Prepared, UNCHANGED <<sheetInputs, knownTabs>>,
           book' \in Seq(TabSet), Len(book') = Len(book),
           \A i \in DOMAIN book : book'[i].name = book[i].name /\ book'[i].header = book[i].header
    PROVE  /\ Distinct(book') /\ TabsAreArranged' /\ Names(book') = Names(book)
           /\ \A k \in DOMAIN book', i \in DOMAIN template' :
                 book'[k].name = template'[i].name => book'[k].header = template'[i].header
           /\ \A name \in Names(book) : Position(book', name) = Position(book, name)
<1>1. /\ book \in Seq(TabSet) /\ Distinct(book) /\ TabsAreArranged
      /\ \A k \in DOMAIN book, i \in DOMAIN template :
            book[k].name = template[i].name => book[k].header = template[i].header
  BY DEF SheetInv, TabsStay
<1>2. DOMAIN book' = DOMAIN book
  BY <1>1
<1>3. Distinct(book') /\ Names(book') = Names(book)
  BY <1>1, <1>2 DEF Distinct, Names
<1>4. \A name \in Names(book) : Position(book', name) = Position(book, name)
  BY <1>1, <1>2, <1>3, PositionIsUnique DEF Names
<1>5. /\ template' = template /\ Details' = Details /\ NewNames' = NewNames
      /\ \A name : Place(name)' = Place(name)
  BY DEF sheetInputs, Details, NewNames, Place, ToSet
<1>6. /\ Names(template) \subseteq Names(book) /\ NewNames \subseteq Names(book)
      /\ \A i \in DOMAIN template : template[i].name \in Names(book)
  BY <1>1 DEF TabsAreArranged, NewNames, Names
<1>7. \A name, other \in Names(book) : Precedes(name, other) => Precedes(name, other)'
  BY <1>4 DEF Precedes
<1>8. TabsAreArranged'
  BY <1>1, <1>3, <1>4, <1>5, <1>6, <1>7 DEF TabsAreArranged
<1> QED
  BY <1>1, <1>2, <1>3, <1>4, <1>5, <1>8

\* One tab is replaced by another of its name.
LEMMA WithTabIs ==
    ASSUME SheetAssumption, SheetInv, at \in Prepared, NEW name \in Names(book), NEW new \in TabSet,
           new.name = name, new.header = Tab(name).header, book' = WithTab(name, new)
    PROVE  /\ book' \in Seq(TabSet) /\ Len(book') = Len(book)
           /\ \A i \in DOMAIN book : book'[i].name = book[i].name /\ book'[i].header = book[i].header
           /\ \A k \in DOMAIN book : book'[k] = IF book[k].name = name THEN new ELSE book[k]
<1>1. book \in Seq(TabSet)
  BY DEF SheetInv, TabsStay
<1> DEFINE p == Position(book, name)
<1>2. /\ p \in DOMAIN book /\ Tab(name) = book[p] /\ book[p].name = name
      /\ \A k \in DOMAIN book : book[k].name = name => k = p
  BY TabsOfNames
<1>3. book' = [book EXCEPT ![p] = new]
  BY DEF WithTab
<1> HIDE DEF p
<1>4. book' \in Seq(TabSet) /\ Len(book') = Len(book)
  BY <1>1, <1>2, <1>3
<1>5. \A k \in DOMAIN book : book'[k] = IF book[k].name = name THEN new ELSE book[k]
  BY <1>2, <1>3
<1> QED
  BY <1>2, <1>4, <1>5

\* Steps that write keep everything but perhaps what is written.
LEMMA FillingKeepsRest ==
    ASSUME SheetAssumption, SheetInv, at \in Filling, at' \in Filling \cup {"verify"},
           UNCHANGED <<sheetInputs, knownTabs, read, differs, edits, late>>,
           book' \in Seq(TabSet), Len(book') = Len(book),
           \A i \in DOMAIN book : book'[i].name = book[i].name /\ book'[i].header = book[i].header,
           SheetTypes', ContentsFollow'
    PROVE  SheetInv'
<1>1. /\ Details' = Details /\ WrittenTabs' = WrittenTabs /\ template' = template /\ WantsTickets' = WantsTickets
      /\ at \in Prepared /\ at' \in Prepared
  BY DEF sheetInputs, Details, WrittenTabs, WantsTickets, Prepared, Reading
<1>2. TablesAreAllowed'
  BY <1>1 DEF Filling, Beforehand, SheetInv, TablesAreAllowed
<1>3. TabsArrive'
  BY DEF TabsArrive, Copying, Filling
<1>4. CopyIsWhole'
  BY <1>1 DEF SheetInv, CopyIsWhole, Copied, Filling, Names
<1>5. TabsStay'
  BY <1>1, SameNames DEF TabsStay
<1>6. ReadsAreTrue'
  BY <1>1 DEF SheetInv, ReadsAreTrue, Filling
<1> QED
  BY <1>2, <1>3, <1>4, <1>5, <1>6 DEF SheetInv

--------------------
\* What is known of the copy when tabs are about to be added.
LEMMA CopyIsReady ==
    ASSUME SheetAssumption, SheetInv, at = "add"
    PROVE  /\ book \in Seq(TabSet) /\ Len(book) = Len(template) /\ Len(book) \in Nat
           /\ DOMAIN book = 1..Len(book) /\ DOMAIN template = 1..Len(book)
           /\ Distinct(book) /\ knownTabs = Names(template) /\ Names(book) = Names(template)
           /\ \A i \in 1..Len(book) :
                 /\ LooksLike(book[i], template[i]) /\ book[i].name = template[i].name
                 /\ book[i].name \in knownTabs /\ Position(book, book[i].name) = i
<1>1. /\ book \in Seq(TabSet) /\ Len(book) = Len(template) /\ knownTabs = Names(template)
      /\ \A i \in DOMAIN template : LooksLike(book[i], template[i])
  BY DEF SheetInv, CopyIsWhole, Copied
<1>2. template \in Seq(TabSet) /\ Distinct(template)
  BY WhatIsPublished DEF SheetInv
<1>3. DOMAIN book = 1..Len(book) /\ DOMAIN template = 1..Len(book) /\ Len(book) \in Nat
  BY <1>1, <1>2
<1>4. \A i \in 1..Len(book) : book[i].name = template[i].name
  BY <1>1, <1>3 DEF LooksLike, SameShape
<1>5. Distinct(book) /\ Names(book) = Names(template)
  BY <1>2, <1>3, <1>4 DEF Distinct, Names
<1>6. \A i \in 1..Len(book) : book[i].name \in knownTabs /\ Position(book, book[i].name) = i
  BY <1>1, <1>3, <1>4, <1>5, PositionIsUnique DEF Names
<1> QED
  BY <1>1, <1>3, <1>4, <1>5, <1>6

\* New tabs have a place: behind the tickets, where there are any.
LEMMA InsertionPoint ==
    ASSUME SheetAssumption, SheetInv, at = "add"
    PROVE  /\ TabsBefore \in 0..Len(book)
           /\ "Tickets" \in Names(template) => TabsBefore = Position(book, "Tickets")
<1>1. /\ knownTabs = Names(template) /\ Names(book) = Names(template) /\ Len(book) \in Nat
      /\ DOMAIN book = 1..Len(book) /\ \A i \in 1..Len(book) : Position(book, book[i].name) = i
  BY CopyIsReady
<1>2. \A name \in knownTabs : Position(book, name) \in 1..Len(book)
  BY <1>1 DEF Names
<1> DEFINE guards == {Position(book, name) : name \in Protected \cap knownTabs}
<1>3. ASSUME guards # {}
      PROVE  (CHOOSE i \in guards : \A j \in guards : i <= j) \in 1..Len(book)
  <2>1. guards \subseteq 1..Len(book) /\ guards \subseteq Nat
    BY <1>1, <1>2
  <2> DEFINE R == {ss \in Nat \X Nat : ss[1] < ss[2]}
  <2>2. IsWellFoundedOn(R, Nat)
    BY NatLessThanWellFounded DEF OpToRel
  <2> HIDE DEF R, guards
  <2>3. PICK m \in guards : \A q \in guards : ~(<<q, m>> \in R)
    BY <1>3, <2>1, <2>2, WFMin
  <2>4. ASSUME NEW q \in guards
        PROVE  m <= q
    <3>1. m \in Nat /\ q \in Nat /\ <<q, m>> \in Nat \X Nat
      BY <2>1
    <3>2. <<q, m>> \in R <=> q < m
      BY <3>1, Zenon DEF R
    <3> QED
      BY <2>3, <3>1, <3>2
  <2>5. \E i \in guards : \A j \in guards : i <= j
    BY <2>4
  <2>6. (CHOOSE i \in guards : \A j \in guards : i <= j) \in guards
    BY <2>5, Zenon
  <2> QED
    BY <2>1, <2>6
<1>4. CASE "Tickets" \in knownTabs
  BY <1>1, <1>2, <1>4 DEF TabsBefore
<1>5. CASE "Tickets" \notin knownTabs /\ guards # {}
  <2>1. TabsBefore = (CHOOSE i \in guards : \A j \in guards : i <= j) - 1
    BY <1>5 DEF TabsBefore
  <2> HIDE DEF guards
  <2> QED
    BY <1>1, <1>3, <1>5, <2>1
<1>6. CASE "Tickets" \notin knownTabs /\ guards = {}
  BY <1>1, <1>6 DEF TabsBefore
<1> QED
  BY <1>4, <1>5, <1>6

\* Which tab is where, once tabs are inserted.
LEMMA InsertedTabs ==
    ASSUME SheetAssumption, SheetInv, at = "add", NEW new \in NewTabs, NEW L, L = Len(book), NEW b \in 0..L,
           NEW n, n = Cardinality(NewNames), book' = Inserted(new, b)
    PROVE  /\ n \in Nat /\ book' \in Seq(TabSet) /\ Len(book') = L + n
           /\ \A k \in 1..Len(book') :
                 \/ \E i \in 1..L : k = (IF i <= b THEN i ELSE i + n) /\ book'[k] = book[i]
                 \/ \E j \in 1..n : k = b + j /\ book'[k] = Blank(new[j])
           /\ \A i \in 1..L : /\ (IF i <= b THEN i ELSE i + n) \in 1..Len(book')
                              /\ book'[IF i <= b THEN i ELSE i + n] = book[i]
           /\ \A j \in 1..n : b + j \in 1..Len(book') /\ book'[b + j] = Blank(new[j])
           /\ \A j \in 1..n : new[j] \in NewNames /\ new[j] \notin knownTabs
           /\ \A i, j \in 1..n : new[i] = new[j] => i = j
<1>1. /\ book \in Seq(TabSet) /\ Len(book) \in Nat /\ \A i \in 1..Len(book) : book[i] \in TabSet
  BY CopyIsReady
<1>2. n \in Nat /\ NewNames \subseteq TabName /\ publication.details \in Seq(TabName)
  BY WhatIsPublished DEF SheetInv, NewNames
<1>3. /\ new \in [1..n -> NewNames]
      /\ \A i, j \in 1..n : i < j => Place(new[i]) < Place(new[j])
  BY DEF NewTabs
<1>4. Len(new) = n /\ \A j \in 1..n : new[j] \in NewNames
  BY <1>2, <1>3
<1>5. \A j \in 1..n : Blank(new[j]) \in TabSet
  BY <1>2, <1>4 DEF Blank, TabSet, Words, EmptyRows, Tabs
<1>6. /\ DOMAIN book' = 1..(Len(book) + n)
      /\ \A k \in 1..(Len(book) + n) :
            book'[k] = IF k <= b THEN book[k] ELSE IF k <= b + n THEN Blank(new[k - b]) ELSE book[k - n]
      /\ book' = [k \in 1..(Len(book) + n) |-> book'[k]]
  BY <1>4 DEF Inserted
<1>7. \A k \in 1..(Len(book) + n) : book'[k] \in TabSet
  <2> SUFFICES ASSUME NEW k \in 1..(Len(book) + n) PROVE book'[k] \in TabSet
    OBVIOUS
  <2>1. CASE k <= b
    BY <1>1, <1>6, <2>1
  <2>2. CASE k > b /\ k <= b + n
    BY <1>1, <1>2, <1>5, <1>6, <2>2
  <2>3. CASE k > b + n
    BY <1>1, <1>2, <1>6, <2>3
  <2> QED
    BY <1>1, <1>2, <2>1, <2>2, <2>3
<1>8. book' \in Seq(TabSet) /\ Len(book') = Len(book) + n
  <2> DEFINE m == Len(book) + n
  <2>1. m \in Nat
    BY <1>1, <1>2
  <2>2. book' = [k \in 1..m |-> book'[k]] /\ \A k \in 1..m : book'[k] \in TabSet
    BY <1>6, <1>7
  <2> HIDE DEF m
  <2>3. book' \in [1..m -> TabSet]
    BY <2>2
  <2>4. book' \in Seq(TabSet) /\ Len(book') = m
    BY <2>1, <2>3
  <2> QED
    BY <2>4 DEF m
<1>9. \A i \in 1..Len(book) : /\ (IF i <= b THEN i ELSE i + n) \in 1..Len(book')
                              /\ book'[IF i <= b THEN i ELSE i + n] = book[i]
  <2> SUFFICES ASSUME NEW i \in 1..Len(book)
               PROVE  /\ (IF i <= b THEN i ELSE i + n) \in 1..Len(book')
                      /\ book'[IF i <= b THEN i ELSE i + n] = book[i]
    OBVIOUS
  <2>1. CASE i <= b
    BY <1>1, <1>2, <1>6, <1>8, <2>1
  <2>2. CASE ~(i <= b)
    <3> DEFINE k == i + n
    <3>1. k \in 1..(Len(book) + n) /\ ~(k <= b) /\ ~(k <= b + n) /\ k - n = i
      BY <1>1, <1>2, <2>2
    <3> HIDE DEF k
    <3>2. book'[k] = book[i]
      BY <1>6, <3>1
    <3> QED
      BY <1>8, <2>2, <3>1, <3>2 DEF k
  <2> QED
    BY <2>1, <2>2
<1>10. \A j \in 1..n : b + j \in 1..Len(book') /\ book'[b + j] = Blank(new[j])
  <2> SUFFICES ASSUME NEW j \in 1..n
               PROVE  b + j \in 1..Len(book') /\ book'[b + j] = Blank(new[j])
    OBVIOUS
  <2> DEFINE k == b + j
  <2>1. k \in 1..(Len(book) + n) /\ ~(k <= b) /\ k <= b + n /\ k - b = j
    BY <1>1, <1>2
  <2> HIDE DEF k
  <2>2. book'[k] = Blank(new[j])
    BY <1>6, <2>1
  <2> QED
    BY <1>8, <2>1, <2>2 DEF k
<1>11. ASSUME NEW k \in 1..Len(book')
       PROVE  \/ \E i \in 1..Len(book) : k = (IF i <= b THEN i ELSE i + n) /\ book'[k] = book[i]
              \/ \E j \in 1..n : k = b + j /\ book'[k] = Blank(new[j])
  <2>1. CASE k <= b
    BY <1>1, <1>2, <1>6, <1>8, <2>1
  <2>2. CASE k > b /\ k <= b + n
    <3> DEFINE j == k - b
    <3>1. j \in 1..n /\ k = b + j
      BY <1>1, <1>2, <2>2
    <3> HIDE DEF j
    <3> QED
      BY <1>10, <3>1
  <2>3. CASE k > b + n
    <3>1. k - n \in 1..Len(book) /\ k - n > b /\ k = (k - n) + n
      BY <1>1, <1>2, <1>8, <2>3
    <3>2. book'[k] = book[k - n]
      <4>1. k \in 1..(Len(book) + n) /\ ~(k <= b) /\ ~(k <= b + n)
        BY <1>1, <1>2, <1>8, <2>3
      <4> QED
        BY <1>6, <4>1
    <3> QED
      BY <1>1, <1>2, <3>1, <3>2
  <2> QED
    BY <1>1, <1>2, <2>1, <2>2, <2>3
<1>12. ASSUME NEW i \in 1..n, NEW j \in 1..n, new[i] = new[j]
       PROVE  i = j
  <2>1. Place(new[i]) \in DOMAIN publication.details
    BY <1>4, PlaceIsUnique DEF NewNames, SheetInv, SheetTypes
  <2>2. Place(new[i]) \in Int
    BY <1>2, <2>1
  <2> QED
    BY <1>2, <1>3, <1>12, <2>2
<1> QED
  BY <1>2, <1>4, <1>8, <1>9, <1>10, <1>11, <1>12 DEF NewNames

\* New tabs are put into a copy that stays the template otherwise.
LEMMA AddTabsKeepsSheet ==
    ASSUME SheetAssumption, SheetInv, AddTabs
    PROVE  SheetInv'
<1>0. PICK b, n, L : b = TabsBefore /\ n = Cardinality(NewNames) /\ L = Len(book)
  OBVIOUS
<1>1. PICK new \in NewTabs : book' = Inserted(new, b)
  BY <1>0 DEF AddTabs
<1>2. /\ at = "add" /\ at' = IF WantsTickets THEN "rules" ELSE "details"
      /\ UNCHANGED <<sheetInputs, knownTabs, hasRule, todo, read, differs, edits, late>>
  BY DEF AddTabs
<1>3. /\ UNCHANGED <<template, publication, Details, WantsTickets, WrittenTabs, NewNames>>
      /\ \A name : Place(name)' = Place(name)
  BY <1>2 DEF sheetInputs, Details, WantsTickets, WrittenTabs, NewNames, Place
<1>4. b \in 0..L /\ ("Tickets" \in Names(template) => b = Position(book, "Tickets"))
  BY <1>0, <1>2, InsertionPoint
<1>5. /\ book \in Seq(TabSet) /\ L = Len(template) /\ L \in Nat
      /\ DOMAIN book = 1..L /\ DOMAIN template = 1..L
      /\ Distinct(book) /\ knownTabs = Names(template) /\ Names(book) = Names(template)
      /\ \A i \in 1..L : /\ LooksLike(book[i], template[i]) /\ book[i].name = template[i].name
                         /\ book[i].name \in knownTabs /\ Position(book, book[i].name) = i
  BY <1>0, <1>2, CopyIsReady
<1>6. PICK moved : moved = [i \in 1..L |-> IF i <= b THEN i ELSE i + n]
  OBVIOUS
<1>7. \A i \in 1..L : moved[i] = IF i <= b THEN i ELSE i + n
  BY <1>6
<1>8. /\ n \in Nat /\ book' \in Seq(TabSet) /\ Len(book') = L + n
      /\ \A k \in 1..Len(book') :
            \/ \E i \in 1..L : k = (IF i <= b THEN i ELSE i + n) /\ book'[k] = book[i]
            \/ \E j \in 1..n : k = b + j /\ book'[k] = Blank(new[j])
      /\ \A i \in 1..L : /\ (IF i <= b THEN i ELSE i + n) \in 1..Len(book')
                         /\ book'[IF i <= b THEN i ELSE i + n] = book[i]
      /\ \A j \in 1..n : b + j \in 1..Len(book') /\ book'[b + j] = Blank(new[j])
      /\ \A j \in 1..n : new[j] \in NewNames /\ new[j] \notin knownTabs
      /\ \A i, j \in 1..n : new[i] = new[j] => i = j
  <2>1. L = Len(book) /\ b \in 0..L /\ n = Cardinality(NewNames) /\ at = "add" /\ book' = Inserted(new, b)
    BY <1>0, <1>1, <1>2, <1>4
  <2> QED
    BY <2>1, InsertedTabs
<1>9. /\ \A i, j \in 1..L : i < j => moved[i] < moved[j]
      /\ \A i \in 1..L : i <= b => moved[i] = i
  BY <1>4, <1>5, <1>7, <1>8
<1>10. DOMAIN book' = 1..Len(book') /\ DOMAIN book' = 1..(L + n)
  BY <1>8
<1>11. \A i \in 1..L : moved[i] \in DOMAIN book' /\ book'[moved[i]] = book[i]
  BY <1>7, <1>8, <1>10
<1>12. \A j \in 1..n : b + j \in DOMAIN book' /\ book'[b + j].name = new[j]
  <2>1. \A name : Blank(name).name = name
    BY DEF Blank
  <2> QED
    BY <1>8, <1>10, <2>1
<1>13. \A k \in DOMAIN book' : \/ \E i \in 1..L : k = moved[i]
                               \/ \E j \in 1..n : k = b + j
  <2> SUFFICES ASSUME NEW k \in 1..Len(book'), ~ \E j \in 1..n : k = b + j
               PROVE  \E i \in 1..L : k = moved[i]
    BY <1>10
  <2>1. PICK i \in 1..L : k = IF i <= b THEN i ELSE i + n
    BY <1>8
  <2> QED
    BY <1>7, <2>1
<1>14. \A i \in 1..L : book'[moved[i]].name = template[i].name /\ template[i].name \in knownTabs
  BY <1>5, <1>11
<1>15. \A i, j \in 1..L : template[i].name = template[j].name => i = j
  BY <1>5 DEF Distinct
<1>16. Distinct(book')
  <2> SUFFICES ASSUME NEW k \in DOMAIN book', NEW m \in DOMAIN book', book'[k].name = book'[m].name
               PROVE  k = m
    BY DEF Distinct
  <2>1. CASE \E i \in 1..L : k = moved[i]
    <3>1. \E i \in 1..L : m = moved[i]
      <4>1. \A j \in 1..n : m # b + j
        <5>1. book'[m].name \in knownTabs
          BY <1>14, <2>1
        <5>2. \A j \in 1..n : book'[b + j].name \notin knownTabs
          BY <1>8, <1>12
        <5> QED
          BY <5>1, <5>2
      <4> QED
        BY <1>13, <4>1
    <3> QED
      BY <1>14, <1>15, <2>1, <3>1
  <2>2. CASE \E j \in 1..n : k = b + j
    <3>1. PICK j \in 1..n : k = b + j
      BY <2>2
    <3>2. PICK i \in 1..n : m = b + i
      <4>1. new[j] = book'[m].name /\ new[j] \notin knownTabs
        BY <1>8, <1>12, <3>1
      <4>2. ~ \E i \in 1..L : m = moved[i]
        BY <1>14, <4>1
      <4> QED
        BY <1>13, <4>2
    <3>3. i = j
      BY <1>8, <1>12, <3>1, <3>2
    <3> QED
      BY <3>1, <3>2, <3>3
  <2> QED
    BY <1>13, <2>1, <2>2
<1>17. \A name \in NewNames : \E j \in 1..n : new[j] = name
  BY <1>0 DEF NewTabs, ToSet
<1>18. Names(book') = Names(template) \cup Details
  <2>1. Names(book') \subseteq Names(template) \cup NewNames
    <3>1. ASSUME NEW k \in DOMAIN book' PROVE book'[k].name \in Names(template) \cup NewNames
      BY <1>5, <1>8, <1>12, <1>13, <1>14
    <3> QED
      BY <3>1 DEF Names
  <2>2. Names(template) \subseteq Names(book')
    BY <1>5, <1>11, <1>14 DEF Names
  <2>3. NewNames \subseteq Names(book')
    BY <1>12, <1>17 DEF Names
  <2> QED
    BY <1>5, <2>1, <2>2, <2>3 DEF NewNames
<1>19. \A i \in 1..L : Position(book', template[i].name) = moved[i]
  BY <1>11, <1>14, <1>16, PositionIsUnique
<1>20. \A j \in 1..n : Position(book', new[j]) = b + j
  BY <1>12, <1>16, PositionIsUnique
<1>21. TabsAreArranged'
  <2>1. Len(book') = Len(template') + Cardinality(NewNames')
    BY <1>3, <1>5, <1>8, <1>0
  <2>2. Names(book)' = Names(template)' \cup Details'
    BY <1>3, <1>18
  <2>3. ASSUME NEW i \in 1..L, NEW j \in 1..L, i < j
        PROVE  Position(book', template[i].name) < Position(book', template[j].name)
    BY <1>5, <1>19, <1>9, <2>3
  <2>4. ASSUME NEW name \in NewNames, NEW other \in NewNames, Place(name) < Place(other)
        PROVE  Position(book', name) < Position(book', other)
    <3>1. PICK i \in 1..n : new[i] = name
      BY <1>17
    <3>2. PICK j \in 1..n : new[j] = other
      BY <1>17
    <3>3. Place(name) \in DOMAIN publication.details /\ Place(other) \in DOMAIN publication.details
      BY PlaceIsUnique DEF NewNames, SheetInv, SheetTypes
    <3>4. Place(name) \in Int /\ Place(other) \in Int
      BY <3>3, WhatIsPublished DEF SheetInv
    <3>5. ~(j < i) /\ i # j
      BY <2>4, <3>1, <3>2, <3>4, <1>0 DEF NewTabs
    <3>6. b + i < b + j
      BY <1>4, <1>5, <1>8, <3>5
    <3> QED
      BY <1>20, <3>1, <3>2, <3>6
  <2>5. ASSUME "Tickets" \in Names(template), NEW name \in NewNames
        PROVE  Position(book', name) - Position(book', "Tickets") \in 1..n
    <3>1. PICK j \in 1..n : new[j] = name
      BY <1>17
    <3>2. PICK i \in 1..L : template[i].name = "Tickets"
      BY <1>5, <2>5 DEF Names
    <3>3. b = i
      BY <1>4, <1>5, <2>5, <3>2
    <3>4. Position(book', "Tickets") = i /\ Position(book', name) = b + j
      BY <1>4, <1>5, <1>19, <1>20, <1>9, <3>1, <3>2, <3>3
    <3> QED
      BY <1>8, <3>3, <3>4
  <2> QED
    BY <1>3, <1>5, <2>1, <2>2, <2>3, <2>4, <2>5, <1>0 DEF TabsAreArranged, Precedes
<1>22. ASSUME NEW k \in 1..Len(book'), NEW i \in 1..L, book'[k].name = template[i].name
       PROVE  book'[k] = book[i]
  <2>1. moved[i] \in DOMAIN book' /\ book'[moved[i]] = book[i] /\ book'[moved[i]].name = template[i].name
    BY <1>11, <1>14
  <2>2. k = moved[i]
    BY <1>10, <1>16, <1>22, <2>1 DEF Distinct
  <2> QED
    BY <2>1, <2>2
<1>23. SheetTypes'
  BY <1>2, <1>3 DEF SheetInv, SheetTypes, Prepared, Filling
<1>24. TablesAreAllowed' /\ TabsArrive'
  BY <1>2, <1>3 DEF SheetInv, TablesAreAllowed, TabsArrive, Beforehand, Copying
<1>25. CopyIsWhole'
  BY <1>2, <1>3, <1>5 DEF Prepared, Filling, Copied, SheetInv, CopyIsWhole
<1>26. TabsStay'
  <2>1. \A k \in DOMAIN book', i \in DOMAIN template' :
           book'[k].name = template'[i].name => book'[k].header = template'[i].header
    BY <1>3, <1>5, <1>10, <1>22 DEF LooksLike, SameShape
  <2> QED
    BY <1>8, <1>16, <1>21, <2>1 DEF TabsStay
<1>27. ContentsFollow'
  <2> SUFFICES ASSUME at' \in Prepared /\ edits' = 0, NEW k \in 1..Len(book'), NEW i \in 1..L,
                      book'[k].name = template[i].name
               PROVE  /\ book'[k] = template[i]
                      /\ WantsTickets => TicketsAre(book[k], template[i])'
    BY <1>3, <1>5, <1>10 DEF ContentsFollow
  <2>1. book'[k] = book[i] /\ book[i] \in TabSet /\ template[i] \in TabSet
    BY <1>5, <1>22, WhatIsPublished DEF SheetInv
  <2>2. book[i] = template[i]
    BY <1>2, <1>5, <2>1 DEF LooksLike, TabSet, Tabs, SameShape
  <2>3. WantsTickets => TicketsAre(book[k], template[i])'
    BY <1>2, <1>3, <2>1, <2>2 DEF TicketsAre
  <2> QED
    BY <2>1, <2>2, <2>3
<1>28. ReadsAreTrue'
  BY <1>2 DEF SheetInv, ReadsAreTrue, Copied
<1> QED
  BY <1>23, <1>24, <1>25, <1>26, <1>27, <1>28 DEF SheetInv

--------------------
\* Steps that write nothing: what is on the tickets is what the next step expects.
LEMMA LookingKeepsSheet ==
    ASSUME SheetAssumption, SheetInv, at \in Filling, at' \in Filling \cup {"verify"},
           UNCHANGED <<sheetInputs, book, knownTabs, read, differs, edits, late>>, SheetTypes',
           \A tab, old : WantsTickets /\ tab = Tab("Tickets") /\ TicketsAre(tab, old) => TicketsAre(tab, old)'
    PROVE  SheetInv'
<1>1. /\ template' = template /\ WantsTickets' = WantsTickets /\ WrittenTabs' = WrittenTabs
      /\ at \in Prepared
  BY DEF sheetInputs, WantsTickets, WrittenTabs, Details, Prepared
<1>2. book \in Seq(TabSet)
  BY <1>1 DEF SheetInv, TabsStay
<1>3. \A k \in DOMAIN book : book[k].name = "Tickets" => book[k] = Tab("Tickets")
  BY <1>1, TabsOfNames DEF Names
<1>4. ContentsFollow'
  <2> SUFFICES ASSUME edits = 0, NEW k \in DOMAIN book, NEW i \in DOMAIN template, book[k].name = template[i].name
               PROVE  /\ book[k].name \notin WrittenTabs => book[k] = template[i]
                      /\ book[k].name = "Tickets" /\ WantsTickets => TicketsAre(book[k], template[i])'
    BY <1>1 DEF ContentsFollow
  <2>1. /\ book[k].name \notin WrittenTabs => book[k] = template[i]
        /\ book[k].name = "Tickets" /\ WantsTickets => TicketsAre(book[k], template[i])
    BY <1>1 DEF SheetInv, ContentsFollow
  <2>2. PICK tab, old : tab = book[k] /\ old = template[i]
    OBVIOUS
  <2>3. book[k].name = "Tickets" /\ WantsTickets => TicketsAre(tab, old)'
    BY <1>3, <2>1, <2>2
  <2>4. TicketsAre(tab, old)' => TicketsAre(book[k], template[i])'
    BY <1>1, <2>2 DEF TicketsAre
  <2> QED
    BY <2>1, <2>3, <2>4
<1> QED
  BY <1>2, <1>4, FillingKeepsRest

\* Steps that write one tab: the others are left alone, and the tickets are what
\* the next step expects.
LEMMA WritingKeepsSheet ==
    ASSUME SheetAssumption, SheetInv, at \in Filling, at' \in Filling \cup {"verify"},
           UNCHANGED <<sheetInputs, knownTabs, read, differs, edits, late>>, SheetTypes',
           NEW name \in WrittenTabs, NEW new \in TabSet, new.name = name, new.header = Tab(name).header,
           book' = WithTab(name, new),
           \A tab, old : WantsTickets /\ tab = Tab("Tickets") /\ TicketsAre(tab, old)
                         => TicketsAre(IF name = "Tickets" THEN new ELSE tab, old)'
    PROVE  SheetInv'
<1>1. /\ template' = template /\ WantsTickets' = WantsTickets /\ WrittenTabs' = WrittenTabs
      /\ at \in Prepared
  BY DEF sheetInputs, WantsTickets, WrittenTabs, Details, Prepared
<1>2. name \in Names(book)
  BY <1>1, TabsOfNames
<1>3. /\ book' \in Seq(TabSet) /\ Len(book') = Len(book) /\ book \in Seq(TabSet)
      /\ \A i \in DOMAIN book : book'[i].name = book[i].name /\ book'[i].header = book[i].header
      /\ \A k \in DOMAIN book : book'[k] = IF book[k].name = name THEN new ELSE book[k]
  BY <1>1, <1>2, WithTabIs DEF SheetInv, TabsStay
<1>4. DOMAIN book' = DOMAIN book
  BY <1>3
<1>5. \A k \in DOMAIN book : book[k].name = "Tickets" => book[k] = Tab("Tickets")
  BY <1>1, TabsOfNames DEF Names
<1>6. ContentsFollow'
  <2> SUFFICES ASSUME edits = 0, NEW k \in DOMAIN book, NEW i \in DOMAIN template, book'[k].name = template[i].name
               PROVE  /\ book'[k].name \notin WrittenTabs => book'[k] = template[i]
                      /\ book'[k].name = "Tickets" /\ WantsTickets => TicketsAre(book[k], template[i])'
    BY <1>1, <1>4 DEF ContentsFollow
  <2>1. /\ book[k].name = template[i].name /\ book'[k].name = book[k].name
        /\ book[k].name \notin WrittenTabs => book[k] = template[i]
        /\ book[k].name = "Tickets" /\ WantsTickets => TicketsAre(book[k], template[i])
    BY <1>1, <1>3 DEF SheetInv, ContentsFollow
  <2>2. PICK tab, old, next : tab = book[k] /\ old = template[i] /\ next = book'[k]
    OBVIOUS
  <2>3. book[k].name = "Tickets" => next = IF name = "Tickets" THEN new ELSE tab
    BY <1>3, <2>2
  <2>4. book[k].name = "Tickets" /\ WantsTickets => TicketsAre(IF name = "Tickets" THEN new ELSE tab, old)'
    BY <1>5, <2>1, <2>2
  <2>5. book[k].name = "Tickets" /\ WantsTickets => TicketsAre(next, old)'
    BY <2>3, <2>4
  <2>6. TicketsAre(next, old)' => TicketsAre(book[k], template[i])'
    BY <1>1, <2>2 DEF TicketsAre
  <2>7. book[k].name \notin WrittenTabs => book'[k] = book[k]
    BY <1>3
  <2> QED
    BY <2>1, <2>5, <2>6, <2>7
<1> QED
  BY <1>3, <1>6, FillingKeepsRest

\* The tab of the tickets, where tickets are published.
LEMMA TicketsTab ==
    ASSUME SheetAssumption, SheetInv, at \in Prepared, WantsTickets
    PROVE  /\ "Tickets" \in WrittenTabs /\ "Tickets" \in Names(book)
           /\ Tab("Tickets") \in TabSet /\ Tab("Tickets").name = "Tickets"
<1>1. "Tickets" \in WrittenTabs
  BY DEF WrittenTabs
<1> QED
  BY <1>1, TabsOfNames

\* The tickets are cleared, written, and get their dropdowns.
LEMMA TicketsKeepSheet ==
    ASSUME SheetAssumption, SheetInv,
           FirstRowRules \/ ClearTickets \/ WriteTickets \/ ExtendTicketDropdowns
    PROVE  SheetInv'
<1>1. /\ UNCHANGED <<sheetInputs, knownTabs, todo, read, differs, edits, late>>
      /\ at \in {"rules", "clear", "tickets", "dropdowns"}
      /\ at' \in {"clear", "tickets", "dropdowns", "details"}
      /\ hasRule' \in BOOLEAN
  BY DEF FirstRowRules, ClearTickets, WriteTickets, ExtendTicketDropdowns, SheetInv, SheetTypes
<1>2. /\ UNCHANGED <<template, publication, Details, WantsTickets, DataRows>>
      /\ at \in Prepared /\ at \in Filling /\ at' \in Filling
  BY <1>1 DEF sheetInputs, Details, WantsTickets, DataRows, Prepared, Filling
<1>3. WantsTickets
  BY <1>1 DEF SheetInv, SheetTypes
<1>4. SheetTypes'
  BY <1>1, <1>2, <1>3 DEF SheetInv, SheetTypes, Prepared
<1>5. PICK old : old = Tab("Tickets")
  OBVIOUS
<1>6. old \in TabSet /\ old.name = "Tickets" /\ "Tickets" \in WrittenTabs
  BY <1>2, <1>3, <1>5, TicketsTab
<1>7. DataRows \in 0..NumRows /\ NumRows \in Nat
  BY WhatIsPublished DEF SheetInv
<1>8. CASE FirstRowRules
  BY <1>1, <1>2, <1>4, <1>8, LookingKeepsSheet DEF FirstRowRules, TicketsAre
<1>9. CASE ClearTickets
  <2>1. /\ at = "clear" /\ at' = "tickets" /\ hasRule' = hasRule
        /\ book' = WithTab("Tickets", ClearedTickets)
    BY <1>9 DEF ClearTickets
  <2>2. PICK new : new = ClearedTickets
    OBVIOUS
  <2>3. /\ new = [old EXCEPT !.rows = EmptyRows]
        /\ new \in TabSet /\ new.name = "Tickets" /\ new.header = old.header
    BY <1>5, <1>6, <2>2 DEF ClearedTickets, TabSet, Words, EmptyRows, Tabs
  <2>4. \A tab, was : WantsTickets /\ tab = Tab("Tickets") /\ TicketsAre(tab, was) => TicketsAre(new, was)'
    BY <1>2, <1>5, <1>6, <2>1, <2>3 DEF TicketsAre, TabSet, Tabs
  <2> QED
    BY <1>1, <1>2, <1>4, <1>5, <1>6, <2>1, <2>2, <2>3, <2>4, WritingKeepsSheet
<1>10. CASE WriteTickets
  <2>1. /\ at = "tickets" /\ at' = "dropdowns" /\ hasRule' = hasRule
        /\ book' = WithTab("Tickets", [Tab("Tickets") EXCEPT !.rows = Sent(@, DataRows)])
    BY <1>10 DEF WriteTickets
  <2>2. PICK new : new = [old EXCEPT !.rows = Sent(old.rows, DataRows)]
    OBVIOUS
  <2>3. new \in TabSet /\ new.name = "Tickets" /\ new.header = old.header
    BY <1>6, <2>2 DEF TabSet, Sent, Words, Tabs
  <2>4. \A tab, was : WantsTickets /\ tab = Tab("Tickets") /\ TicketsAre(tab, was) => TicketsAre(new, was)'
    BY <1>2, <1>5, <1>6, <2>1, <2>2 DEF TicketsAre, TabSet, Sent, Tabs
  <2>5. book' = WithTab("Tickets", new)
    BY <1>5, <1>6, <2>1, <2>2 DEF TabSet, Tabs
  <2> QED
    BY <1>1, <1>2, <1>4, <1>5, <1>6, <2>3, <2>4, <2>5, WritingKeepsSheet
<1>11. CASE ExtendTicketDropdowns /\ hasRule
  <2>1. /\ at = "dropdowns" /\ at' = "details" /\ hasRule' = hasRule
        /\ book' = WithTab("Tickets", [Tab("Tickets") EXCEPT !.rules = @ \cup 1..DataRows])
    BY <1>11 DEF ExtendTicketDropdowns
  <2>2. PICK new : new = [old EXCEPT !.rules = old.rules \cup 1..DataRows]
    OBVIOUS
  <2>3. new \in TabSet /\ new.name = "Tickets" /\ new.header = old.header
    BY <1>6, <1>7, <2>2 DEF TabSet, Rows, Tabs
  <2>4. \A tab, was : WantsTickets /\ tab = Tab("Tickets") /\ TicketsAre(tab, was) => TicketsAre(new, was)'
    BY <1>2, <1>5, <1>6, <1>11, <2>1, <2>2 DEF TicketsAre, TabSet, Tabs
  <2>5. book' = WithTab("Tickets", new)
    BY <1>5, <1>6, <2>1, <2>2 DEF TabSet, Tabs
  <2> QED
    BY <1>1, <1>2, <1>4, <1>5, <1>6, <2>3, <2>4, <2>5, WritingKeepsSheet
<1>12. CASE ExtendTicketDropdowns /\ ~hasRule
  <2>1. at = "dropdowns" /\ at' = "details" /\ book' = book
    BY <1>12 DEF ExtendTicketDropdowns
  <2>2. ASSUME NEW tab, NEW was, TicketsAre(tab, was)
        PROVE  TicketsAre(tab, was)'
    <3>1. ~(DataRows > 0 /\ 1 \in was.rules) /\ tab.rules = was.rules
      BY <1>12, <2>1, <2>2 DEF TicketsAre
    <3>2. 1 \in was.rules => 1..DataRows = {}
      BY <1>7, <3>1
    <3> QED
      BY <1>2, <2>1, <2>2, <3>1, <3>2 DEF TicketsAre
  <2> QED
    BY <1>1, <1>2, <1>4, <2>1, <2>2, LookingKeepsSheet
<1> QED
  BY <1>8, <1>9, <1>10, <1>11, <1>12

\* The detail tabs are cleared and written, one after the other.
LEMMA DetailsKeepSheet ==
    ASSUME SheetAssumption, SheetInv, ClearTab \/ WriteTab \/ FormatCreated
    PROVE  SheetInv'
<1>1. /\ UNCHANGED <<sheetInputs, knownTabs, hasRule, read, differs, edits, late>>
      /\ at \in {"details", "write"} /\ at' \in {"details", "write", "verify"}
  BY DEF ClearTab, WriteTab, FormatCreated
<1>2. /\ UNCHANGED <<template, publication, Details, WantsTickets, DataRows>>
      /\ at \in Prepared /\ at \in Filling /\ at' \in Filling \cup {"verify"}
  BY <1>1 DEF sheetInputs, Details, WantsTickets, DataRows, Prepared, Filling
<1>3. todo \in Seq(Details) /\ (at = "write" => todo # <<>>)
  BY DEF SheetInv, SheetTypes
<1>4. SheetTypes'
  <2>1. todo' \in Seq(Details) /\ (at' = "write" => todo' # <<>>)
    BY <1>3 DEF ClearTab, WriteTab, FormatCreated
  <2> QED
    BY <1>1, <1>2, <2>1 DEF SheetInv, SheetTypes, Prepared, Reading
<1>5. \A tab, was : TicketsAre(tab, was) => TicketsAre(tab, was)'
  BY <1>1, <1>2 DEF TicketsAre
<1>6. CASE FormatCreated
  <2>1. UNCHANGED book
    BY <1>6 DEF FormatCreated
  <2> QED
    BY <1>1, <1>2, <1>4, <1>5, <2>1, LookingKeepsSheet
<1>7. CASE ClearTab \/ WriteTab
  <2>1. PICK name, old : name = Head(todo) /\ old = Tab(name)
    OBVIOUS
  <2>2. todo # <<>> /\ name \in Details
    BY <1>3, <1>7, <2>1 DEF ClearTab, WriteTab
  <2>3. name # "Tickets" /\ name \in WrittenTabs
    BY <1>1, <2>2 DEF SheetInv, TablesAreAllowed, WrittenTabs
  <2>4. old \in TabSet /\ old.name = name
    BY <1>2, <2>1, <2>3, TabsOfNames
  <2>5. \/ book' = WithTab(name, [old EXCEPT !.rows = EmptyRows, !.rules = {}])
        \/ book' = WithTab(name, [old EXCEPT !.rows = Sent(old.rows, publication.rows)])
    BY <1>7, <2>1, <2>4 DEF ClearTab, WriteTab, TabSet, Tabs
  <2>6. PICK new \in TabSet : /\ book' = WithTab(name, new)
                              /\ new.name = name /\ new.header = old.header
    <3>1. EmptyRows \in [Rows -> Words] /\ Sent(old.rows, publication.rows) \in [Rows -> Words]
      BY <2>4 DEF TabSet, Words, Sent, EmptyRows, Tabs
    <3>2. \A rows \in [Rows -> Words] : /\ [old EXCEPT !.rows = rows, !.rules = {}] \in TabSet
                                        /\ [old EXCEPT !.rows = rows] \in TabSet
      BY <2>4 DEF TabSet, Tabs
    <3>3. \A rows, rules : /\ [old EXCEPT !.rows = rows, !.rules = rules].name = name
                           /\ [old EXCEPT !.rows = rows, !.rules = rules].header = old.header
                           /\ [old EXCEPT !.rows = rows].name = name
                           /\ [old EXCEPT !.rows = rows].header = old.header
      BY <2>4 DEF TabSet, Tabs
    <3>4. CASE book' = WithTab(name, [old EXCEPT !.rows = EmptyRows, !.rules = {}])
      <4>1. PICK new : new = [old EXCEPT !.rows = EmptyRows, !.rules = {}]
        OBVIOUS
      <4>2. new \in TabSet
        BY <3>1, <3>2, <4>1
      <4>3. new.name = name /\ new.header = old.header
        BY <3>3, <4>1
      <4>4. book' = WithTab(name, new)
        BY <3>4, <4>1, Zenon
      <4> QED
        BY <4>2, <4>3, <4>4
    <3>5. CASE book' = WithTab(name, [old EXCEPT !.rows = Sent(old.rows, publication.rows)])
      BY <3>1, <3>2, <3>3, <3>5
    <3> QED
      BY <2>5, <3>4, <3>5
  <2> QED
    BY <1>1, <1>2, <1>4, <1>5, <2>1, <2>3, <2>6, WritingKeepsSheet
<1> QED
  BY <1>6, <1>7

--------------------
\* What was written is read back, and the receipt tells what was found.
LEMMA ReadingKeepsSheet ==
    ASSUME SheetAssumption, SheetInv, IssueReceipt \/ \E name \in WrittenTabs : VerifyWritten(name)
    PROVE  SheetInv'
<1>1. /\ UNCHANGED <<sheetInputs, book, knownTabs, hasRule, todo, edits, late>>
      /\ at = "verify" /\ at' \in Reading
      /\ differs \in BOOLEAN /\ differs' \in BOOLEAN
  BY DEF IssueReceipt, VerifyWritten, Reading, SheetInv, SheetTypes
<1>2. /\ UNCHANGED <<template, publication, Details, WantsTickets, DataRows, WrittenTabs>>
      /\ (TabsAreArranged => TabsAreArranged') /\ \A name : Matches(name) => Matches(name)'
  BY <1>1, SameBook DEF sheetInputs
<1>3. SheetTypes'
  BY <1>1, <1>2 DEF SheetInv, SheetTypes, Prepared, Reading
<1>4. TablesAreAllowed' /\ TabsArrive'
  BY <1>1, <1>2 DEF SheetInv, TablesAreAllowed, TabsArrive, Beforehand, Copying, Reading
<1>5. CopyIsWhole'
  BY <1>1, <1>2 DEF SheetInv, CopyIsWhole, Copied, Prepared, Filling, Reading
<1>6. TabsStay'
  BY <1>1, <1>2 DEF SheetInv, TabsStay, Prepared, Filling, Reading
<1>7. ContentsFollow'
  <2>1. \A tab, old : TicketsAre(tab, old) => TicketsAre(tab, old)'
    BY <1>1, <1>2 DEF TicketsAre, Reading
  <2>2. at \in Prepared
    BY <1>1 DEF Prepared, Filling, Reading
  <2> QED
    BY <1>1, <1>2, <2>1, <2>2 DEF SheetInv, ContentsFollow
<1>8. ReadsAreTrue'
  <2>1. /\ read \subseteq WrittenTabs
        /\ ~differs => \A name \in read \ late : Matches(name)
    BY <1>1 DEF SheetInv, ReadsAreTrue
  <2>2. CASE IssueReceipt
    <3>1. /\ read = WrittenTabs /\ read' = read /\ differs' = differs
          /\ at' = IF differs THEN "receipt error" ELSE "receipt"
      BY <2>2 DEF IssueReceipt
    <3>2. ~differs' => \A name \in read' \ late' : Matches(name)'
      BY <1>1, <1>2, <2>1, <3>1
    <3>3. at' \notin Beforehand \cup Copying \cup Copied \cup Filling
      BY <3>1 DEF Beforehand, Copying, Copied, Filling
    <3>4. at' = "receipt" => ~differs'
      BY <3>1
    <3> QED
      BY <1>2, <3>1, <3>2, <3>3, <3>4 DEF ReadsAreTrue
  <2>3. CASE \E name \in WrittenTabs : VerifyWritten(name)
    <3>1. PICK name \in WrittenTabs : VerifyWritten(name)
      BY <2>3
    <3>2. /\ read' = read \cup {name} /\ at' = "verify"
          /\ ~differs' => ~differs /\ Matches(name)
      BY <3>1 DEF VerifyWritten
    <3>3. ~differs' => \A other \in read' \ late' : Matches(other)'
      BY <1>1, <1>2, <2>1, <3>2
    <3>4. at' \notin Beforehand \cup Copying \cup Copied \cup Filling
      BY <3>2 DEF Beforehand, Copying, Copied, Filling
    <3> QED
      BY <1>2, <2>1, <3>2, <3>3, <3>4 DEF ReadsAreTrue
  <2> QED
    BY <2>2, <2>3
<1> QED
  BY <1>3, <1>4, <1>5, <1>6, <1>7, <1>8 DEF SheetInv

\* A cell of a tab is edited, and nothing else of it.
LEMMA EditedTab ==
    ASSUME NEW names, NEW r \in Rows, NEW word \in Words, NEW tab \in Tabs(names),
           NEW new, new = [tab EXCEPT !.rows[r] = word]
    PROVE  new \in Tabs(names) /\ SameShape(new, tab)
BY DEF Words, Tabs, SameShape

\* Somebody edits a cell: what was read of that tab is not counted on any longer.
LEMMA EditKeepsSheet ==
    ASSUME SheetAssumption, SheetInv, NEW i \in DOMAIN book, NEW r \in Rows, NEW word \in Words,
           Edit(i, r, word)
    PROVE  SheetInv'
<1>1. /\ UNCHANGED <<sheetInputs, at, knownTabs, hasRule, todo, read, differs>>
      /\ late' = late \cup ({book[i].name} \cap read) /\ edits' = edits + 1
  BY Zenon DEF Edit
<1> DEFINE old == book[i]
<1>a. PICK new : new = [old EXCEPT !.rows[r] = word]
  OBVIOUS
<1>b. book' = [book EXCEPT ![i] = new]
  BY <1>a, Zenon DEF Edit
<1>c. edits' \in Nat /\ edits' # 0
  BY <1>1 DEF SheetInv, SheetTypes
<1>2. UNCHANGED <<template, publication, Details, WantsTickets, DataRows, WrittenTabs>>
  BY <1>1 DEF sheetInputs, Details, WantsTickets, DataRows, WrittenTabs
<1>3. SheetTypes'
  BY <1>1, <1>c, <1>2 DEF SheetInv, SheetTypes
<1>4. at \notin Beforehand
  BY DEF SheetInv, TablesAreAllowed
<1>5. TablesAreAllowed'
  BY <1>1, <1>2, <1>4 DEF SheetInv, TablesAreAllowed, Beforehand
<1>6. ASSUME NEW names, book \in Seq(Tabs(names))
      PROVE  /\ book' \in Seq(Tabs(names)) /\ Len(book') = Len(book) /\ DOMAIN book' = DOMAIN book
             /\ \A k \in DOMAIN book : k # i => book'[k] = book[k]
             /\ \A k \in DOMAIN book : SameShape(book'[k], book[k])
  <2>1. old \in Tabs(names)
    BY <1>6
  <2> HIDE DEF old
  <2>2. new \in Tabs(names) /\ SameShape(new, old)
    BY <1>a, <2>1, EditedTab
  <2>3. book' \in Seq(Tabs(names)) /\ Len(book') = Len(book) /\ DOMAIN book' = DOMAIN book
    BY <1>b, <1>6, <2>2
  <2>4. \A k \in DOMAIN book : book'[k] = IF k = i THEN new ELSE book[k]
    BY <1>b, <1>6
  <2> QED
    BY <2>2, <2>3, <2>4 DEF old, SameShape
<1>10. TabsArrive'
  <2> SUFFICES ASSUME at \in Copying
               PROVE  TabsArrive'
    BY <1>1 DEF TabsArrive
  <2>1. /\ book \in Seq(AnyTab) /\ Len(book) \in 1..(Len(template) + 1)
        /\ Len(book) = Len(template) + 1 <=> at = "rename"
        /\ \A k \in 1..(Len(book) - 1) : LooksLike(book[k + 1], Arrived(template[k]))
    BY DEF SheetInv, TabsArrive
  <2>2. /\ book' \in Seq(AnyTab) /\ Len(book') = Len(book)
        /\ \A k \in DOMAIN book : SameShape(book'[k], book[k])
    BY <1>6, <2>1 DEF AnyTab
  <2>3. ASSUME NEW k \in 1..(Len(book) - 1)
        PROVE  LooksLike(book[k + 1], Arrived(template[k]))'
    <3>1. k + 1 \in DOMAIN book /\ LooksLike(book[k + 1], Arrived(template[k]))
      BY <2>1, WhatIsPublished DEF SheetInv
    <3> QED
      BY <1>c, <1>2, <2>2, <3>1 DEF LooksLike, Arrived, SameShape
  <2> QED
    BY <1>1, <1>2, <2>1, <2>2, <2>3 DEF TabsArrive
<1>11. CopyIsWhole'
  <2>1. CASE at \in Copied
    <3>1. /\ book \in Seq(TabSet) /\ Len(book) = Len(template)
          /\ \A k \in DOMAIN template : LooksLike(book[k], template[k])
      BY <2>1 DEF SheetInv, CopyIsWhole
    <3>2. DOMAIN book = DOMAIN template
      BY <3>1, WhatIsPublished DEF SheetInv
    <3>3. \A k \in DOMAIN template : LooksLike(book[k], template[k])'
      BY <1>c, <1>2, <1>6, <3>1, <3>2 DEF TabSet, LooksLike, SameShape
    <3> QED
      BY <1>1, <1>2, <1>6, <3>1, <3>3 DEF TabSet, SheetInv, CopyIsWhole
  <2>2. CASE at \notin Copied
    BY <1>1, <1>2, <2>2 DEF SheetInv, CopyIsWhole
  <2> QED
    BY <2>1, <2>2
<1>12. at \in Prepared =>
          /\ book \in Seq(TabSet) /\ Distinct(book') /\ TabsAreArranged' /\ book' \in Seq(TabSet)
          /\ \A k \in DOMAIN book', h \in DOMAIN template' :
                book'[k].name = template'[h].name => book'[k].header = template'[h].header
          /\ \A name \in Names(book) : Position(book', name) = Position(book, name)
  <2> SUFFICES ASSUME at \in Prepared, book \in Seq(TabSet)
               PROVE  /\ book \in Seq(TabSet) /\ Distinct(book') /\ TabsAreArranged' /\ book' \in Seq(TabSet)
                      /\ \A k \in DOMAIN book', h \in DOMAIN template' :
                            book'[k].name = template'[h].name => book'[k].header = template'[h].header
                      /\ \A name \in Names(book) : Position(book', name) = Position(book, name)
    BY DEF SheetInv, TabsStay
  <2> QED
    BY <1>1, <1>6, SameNames DEF TabSet, SameShape
<1>13. TabsStay'
  BY <1>1, <1>12 DEF TabsStay
<1>14. ContentsFollow'
  BY <1>c DEF ContentsFollow
<1>15. ReadsAreTrue'
  <2>1. ASSUME at \in {"verify", "receipt"}, ~differs, NEW name \in read \ late'
        PROVE  Matches(name)'
    <3>1. name \in read \ late /\ name # book[i].name
      BY <1>1, <2>1
    <3>2. Matches(name) /\ name \in WrittenTabs /\ at \in Prepared
      BY <2>1, <3>1 DEF SheetInv, ReadsAreTrue, Prepared, Reading
    <3>3. /\ name \in Names(book) /\ Position(book, name) \in DOMAIN book
          /\ book[Position(book, name)].name = name
      BY <3>2, TabsOfNames
    <3>4. Tab(name)' = Tab(name)
      BY <1>6, <1>12, <3>1, <3>2, <3>3 DEF Tab, TabSet
    <3> QED
      BY <1>2, <3>2, <3>4 DEF Matches
  <2>2. \A name \in read' \ late' : at' \in {"verify", "receipt"} /\ ~differs' => Matches(name)'
    BY <1>1, <2>1
  <2> QED
    BY <1>1, <1>2, <2>2 DEF SheetInv, ReadsAreTrue
<1> QED
  BY <1>3, <1>5, <1>10, <1>11, <1>13, <1>14, <1>15 DEF SheetInv

--------------------
\* Nothing happens to the publish.
LEMMA StutterKeepsSheet ==
    ASSUME SheetInv, UNCHANGED sheetVars
    PROVE  SheetInv'
<1>1. /\ UNCHANGED <<sheetInputs, at, book, knownTabs, hasRule, todo, read, differs, edits, late>>
      /\ UNCHANGED <<template, publication>>
  BY DEF sheetVars, sheetInputs
<1>2. /\ UNCHANGED <<Details, WantsTickets, DataRows, WrittenTabs>>
      /\ (TabsAreArranged => TabsAreArranged') /\ \A name : Matches(name) => Matches(name)'
  BY <1>1, SameBook
<1>3. SheetTypes' /\ TablesAreAllowed'
  BY <1>1, <1>2 DEF SheetInv, SheetTypes, TablesAreAllowed
<1>4. TabsArrive' /\ CopyIsWhole'
  <2>1. TabsArrive'
    BY <1>1 DEF SheetInv, TabsArrive, LooksLike, Arrived, SameShape
  <2>2. CopyIsWhole'
    BY <1>1, <1>2 DEF SheetInv, CopyIsWhole, LooksLike, SameShape
  <2> QED
    BY <2>1, <2>2
<1>5. TabsStay' /\ ContentsFollow'
  BY <1>1, <1>2 DEF SheetInv, TabsStay, ContentsFollow, TicketsAre
<1>6. ReadsAreTrue'
  BY <1>1, <1>2 DEF SheetInv, ReadsAreTrue
<1> QED
  BY <1>3, <1>4, <1>5, <1>6 DEF SheetInv

\* No step of a publish breaks its invariant.
LEMMA StepKeepsSheet ==
    ASSUME SheetAssumption, SheetInv, [SheetNext]_sheetVars
    PROVE  SheetInv'
<1>1. CASE CheckTables \/ ReadMetadata \/ LocateHeader \/ CallFails
  BY <1>1, QuietStepKeepsSheet
<1>2. CASE CopyTemplate \/ CreateWorkbook \/ CopyTab \/ RenameTabs
  BY <1>2, CopyingKeepsSheet
<1>3. CASE AddTabs
  BY <1>3, AddTabsKeepsSheet
<1>4. CASE FirstRowRules \/ ClearTickets \/ WriteTickets \/ ExtendTicketDropdowns
  BY <1>4, TicketsKeepSheet
<1>5. CASE ClearTab \/ WriteTab \/ FormatCreated
  BY <1>5, DetailsKeepSheet
<1>6. CASE IssueReceipt \/ \E name \in WrittenTabs : VerifyWritten(name)
  BY <1>6, ReadingKeepsSheet
<1>7. CASE \E i \in DOMAIN book, r \in Rows, word \in {"nothing", "edit"} : Edit(i, r, word)
  BY <1>7, EditKeepsSheet DEF Words
<1>8. CASE UNCHANGED sheetVars
  BY <1>8, StutterKeepsSheet
<1> QED
  BY <1>1, <1>2, <1>3, <1>4, <1>5, <1>6, <1>7, <1>8 DEF SheetNext

\* The invariant says what a receipt promises.
LEMMA SheetIsHonest ==
    ASSUME SheetAssumption, SheetInv
    PROVE  ReceiptsAreOfTheCopy
<1>1. /\ NumRows \in Nat \ {0} /\ Rows = 1..NumRows /\ DataRows \in 0..NumRows
      /\ template \in Seq(TabSet) /\ Distinct(template)
  BY WhatIsPublished DEF SheetInv, Rows
<1>2. ReceiptIsTrue
  <2> SUFFICES ASSUME at = "receipt", NEW name \in WrittenTabs \ late
               PROVE  LET sent == IF name = "Tickets" THEN DataRows ELSE publication.rows
                          range == IF name = "Tickets" THEN 1..(IF sent = 0 THEN 1 ELSE sent) ELSE Rows
                      IN  /\ \A r \in range : Tab(name).rows[r] = IF r <= sent THEN "sent" ELSE "nothing"
                          /\ name # "Tickets" => ~Tab(name).beyond
    BY DEF ReceiptIsTrue
  <2>1. Matches(name)
    BY DEF SheetInv, ReadsAreTrue
  <2>2. CASE name = "Tickets"
    BY <1>1, <2>1, <2>2 DEF Matches
  <2>3. CASE name # "Tickets"
    BY <2>1, <2>3 DEF Matches, Sent, EmptyRows
  <2> QED
    BY <2>2, <2>3
<1>3. ASSUME at \in Copied, edits = 0
      PROVE  book = template
  <2>1. /\ book \in Seq(TabSet) /\ Len(book) = Len(template)
        /\ \A i \in DOMAIN template : LooksLike(book[i], template[i])
    BY <1>3 DEF SheetInv, CopyIsWhole
  <2>2. ASSUME NEW i \in 1..Len(template)
        PROVE  book[i] = template[i]
    <3>1. book[i] \in TabSet /\ template[i] \in TabSet /\ LooksLike(book[i], template[i])
      BY <1>1, <2>1
    <3> QED
      BY <1>3, <3>1 DEF LooksLike, TabSet, Tabs, SameShape
  <2> QED
    BY <1>1, <2>1, <2>2
<1>4. CopyIsTheTemplate
  BY <1>3 DEF CopyIsTheTemplate, Copied
<1>5. ASSUME at = "receipt"
      PROVE  /\ at \in Prepared /\ book \in Seq(TabSet) /\ TabsAreArranged
             /\ \A name \in Names(book) :
                   /\ Position(book, name) \in DOMAIN book /\ Tab(name) = book[Position(book, name)]
                   /\ Tab(name).name = name
             /\ Names(template) \subseteq Names(book)
             /\ WantsTickets => \E i \in DOMAIN template : template[i].name = "Tickets" /\ template[i].header
  <2>1. at \in Prepared
    BY <1>5 DEF Prepared, Reading
  <2> QED
    BY <2>1, TabsOfNames DEF SheetInv, TabsStay, CopyIsWhole
<1>6. RefusalWritesNothing
  <2>1. at = "refused" => book = <<>>
    BY DEF SheetInv, TablesAreAllowed, Beforehand
  <2>2. at = "no header" /\ edits = 0 => book = template
    BY <1>3 DEF Copied
  <2>3. ASSUME at = "receipt", WantsTickets
        PROVE  Tab("Tickets").header
    <3>1. PICK i \in DOMAIN template : template[i].name = "Tickets" /\ template[i].header
      BY <1>5, <2>3
    <3>2. "Tickets" \in Names(book)
      BY <1>5, <2>3, <3>1 DEF Names
    <3>3. PICK k \in DOMAIN book : Tab("Tickets") = book[k] /\ book[k].name = "Tickets"
      BY <1>5, <2>3, <3>2
    <3> QED
      BY <1>5, <2>3, <3>1, <3>3 DEF SheetInv, TabsStay
  <2> QED
    BY <2>1, <2>2, <2>3 DEF RefusalWritesNothing
<1>7. PublishedAsAsked
  <2> SUFFICES ASSUME at = "receipt", edits = 0
               PROVE  /\ TabsAreArranged
                      /\ \A tab \in ToSet(template) : tab.name \notin WrittenTabs => tab \in ToSet(book)
                      /\ WantsTickets =>
                            LET old == template[Position(template, "Tickets")]
                                new == Tab("Tickets")
                            IN  /\ \A r \in Rows : new.rows[r] = IF r <= DataRows THEN "sent" ELSE "nothing"
                                /\ new.rules = old.rules \cup (IF 1 \in old.rules THEN 1..DataRows ELSE {})
    BY DEF PublishedAsAsked
  <2>1. \A k \in DOMAIN book, i \in DOMAIN template :
            book[k].name = template[i].name =>
                /\ book[k].name \notin WrittenTabs => book[k] = template[i]
                /\ book[k].name = "Tickets" /\ WantsTickets => TicketsAre(book[k], template[i])
    BY <1>5 DEF SheetInv, ContentsFollow
  <2>2. ASSUME NEW tab \in ToSet(template), tab.name \notin WrittenTabs
        PROVE  tab \in ToSet(book)
    <3>1. PICK i \in DOMAIN template : template[i] = tab
      BY DEF ToSet
    <3>2. tab.name \in Names(book)
      BY <1>5, <3>1 DEF Names
    <3>3. PICK k \in DOMAIN book : book[k].name = template[i].name
      BY <3>1, <3>2 DEF Names
    <3>4. book[k] = tab
      BY <2>1, <2>2, <3>1, <3>3
    <3> QED
      BY <3>4 DEF ToSet
  <2>3. ASSUME WantsTickets
        PROVE  LET old == template[Position(template, "Tickets")]
                   new == Tab("Tickets")
               IN  /\ \A r \in Rows : new.rows[r] = IF r <= DataRows THEN "sent" ELSE "nothing"
                   /\ new.rules = old.rules \cup (IF 1 \in old.rules THEN 1..DataRows ELSE {})
    <3>1. PICK i \in DOMAIN template : template[i].name = "Tickets"
      BY <1>5, <2>3
    <3>2. Position(template, "Tickets") = i
      BY <1>1, <3>1, PositionIsUnique
    <3>3. "Tickets" \in Names(book)
      BY <1>5, <3>1 DEF Names
    <3>4. PICK k \in DOMAIN book : Tab("Tickets") = book[k] /\ book[k].name = "Tickets"
      BY <1>5, <3>3
    <3>5. TicketsAre(book[k], template[i])
      BY <2>1, <2>3, <3>1, <3>4
    <3>6. /\ book[k].rows = Sent(EmptyRows, DataRows)
          /\ book[k].rules = template[i].rules \cup (IF 1 \in template[i].rules THEN 1..DataRows ELSE {})
      BY <3>5 DEF TicketsAre
    <3>7. \A r \in Rows : book[k].rows[r] = IF r <= DataRows THEN "sent" ELSE "nothing"
      BY <3>6 DEF Sent, EmptyRows
    <3> QED
      BY <3>2, <3>4, <3>6, <3>7
  <2> QED
    BY <1>5, <2>2, <2>3
<1> QED
  BY <1>2, <1>4, <1>6, <1>7 DEF ReceiptsAreOfTheCopy

\* Whoever edits the copy meanwhile, and wherever the publish ends: a receipt is
\* issued over what was sent and read back, on a copy of the template with its tabs
\* in order and its dropdowns; what was refused was not written (google_sheets.py).
THEOREM ReceiptsAreHonest ==
    ASSUME SheetAssumption
    PROVE  SheetSpec => []ReceiptsAreOfTheCopy
<1>1. SheetInit => SheetInv
  BY InitSheet
<1>2. SheetInv /\ [SheetNext]_sheetVars => SheetInv'
  BY StepKeepsSheet
<1>3. SheetInv => ReceiptsAreOfTheCopy
  BY SheetIsHonest
<1> QED
  BY <1>1, <1>2, <1>3, PTL DEF SheetSpec

--------------------
(*
AuditAnswers.  A confirmed answer is proved from the rule of its question, which
no further field overturns, and from what its evidence says of the records.
*)
Values == {"unknown", "no", "yes"}
\* What was recorded of r is recorded of s.
More(q, r, s) == \A f \in Fields[q] : r[f] # "unknown" => s[f] = r[f]

\* Questions whose rule cannot take a finding back, and those whose rule cannot
\* turn what it called clean into one.
FindingStaysFor ==
    {"Q5", "Q18", "Q20", "Q25", "Q28", "Q31", "Q36", "Q37", "Q39", "Q46", "Q50", "Q63", "Q65",
     "Q67", "Q78", "Q85", "Q86", "Q91", "Q92", "Q96"}
CleanStaysFor ==
    {"Q5", "Q25", "Q28", "Q31", "Q33", "Q38", "Q39", "Q46", "Q50", "Q64", "Q65", "Q67",
     "Q68", "Q69", "Q85", "Q86", "Q92", "Q102"}

LEMMA FindingStays ==
  ASSUME NEW q \in FindingStaysFor, NEW r, NEW s, NEW g, More(q, r, s), Rule(q, r, g) = "finding"
  PROVE  Rule(q, s, g) = "finding"
<1>1. CASE q = "Q5"
  BY <1>1, Zenon DEF More, Rule, MixedContent, Fields, Knows, Shows, Found
<1>2. CASE q = "Q18"
  BY <1>2, Zenon DEF More, Rule, GoogleRender, Fields, Knows, Shows, Found
<1>3. CASE q = "Q20"
  BY <1>3, Zenon DEF More, Rule, IndexedNoindex, Fields, Knows, Shows, Found
<1>4. CASE q = "Q25"
  BY <1>4, Zenon DEF More, Rule, LocaleProbeChanges, Fields, Knows, Shows, Found, Values
<1>5. CASE q = "Q28"
  BY <1>5, Zenon DEF More, Rule, ExternalLinks, Fields, Knows, Shows, Found
<1>6. CASE q = "Q31"
  BY <1>6, Zenon DEF More, Rule, VerifiedGoogleFetch, Fields, Knows, Shows, Found
<1>7. CASE q = "Q36"
  BY <1>7, Zenon DEF More, Rule, ProfileSubTab, Fields, Knows, Shows, Found
<1>8. CASE q = "Q37"
  BY <1>8, Zenon DEF More, Rule, EmptyProfile, Fields, Knows, Shows, Found
<1>9. CASE q = "Q39"
  BY <1>9, Zenon DEF More, Rule, HeadingLinkTargets, EveryList, Fields, Knows, Shows, Found
<1>10. CASE q = "Q46"
  BY <1>10, Zenon DEF More, Rule, FooterParity, EveryList, Fields, Knows, Shows, Found
<1>11. CASE q = "Q50"
  BY <1>11, Zenon DEF More, Rule, TopicGap, Fields, Knows, Shows, Found
<1>12. CASE q = "Q63"
  BY <1>12, Zenon DEF More, Rule, HstsOcsp, Fields, Knows, Shows, Found
<1>13. CASE q = "Q65"
  BY <1>13, Zenon DEF More, Rule, TrackingPreloads, EveryList, Fields, Knows, Shows, Found
<1>14. CASE q = "Q67"
  BY <1>14, Zenon DEF More, Rule, FontLoading, EveryList, Fields, Knows, Shows, Found
<1>15. CASE q = "Q78"
  BY <1>15, Zenon DEF More, Rule, TaxonomyHub, Fields, Knows, Shows, Found
<1>16. CASE q = "Q85"
  BY <1>16, Zenon DEF More, Rule, RenderParity, EveryList, Fields, Knows, Shows, Found
<1>17. CASE q = "Q86"
  BY <1>17, Zenon DEF More, Rule, RenderBlockingHead, EveryList, Fields, Knows, Shows, Found
<1>18. CASE q = "Q91"
  BY <1>18, Zenon DEF More, Rule, EmptyAnchor, Fields, Knows, Shows, Found
<1>19. CASE q = "Q92"
  BY <1>19, Zenon DEF More, Rule, InsecureForms, Fields, Knows, Shows, Found
<1>20. CASE q = "Q96"
  BY <1>20, Zenon DEF More, Rule, AiCrawlerPolicy, Fields, Knows, Shows, Found
<1>21. QED
  BY <1>1, <1>2, <1>3, <1>4, <1>5, <1>6, <1>7, <1>8, <1>9, <1>10,
     <1>11, <1>12, <1>13, <1>14, <1>15, <1>16, <1>17, <1>18, <1>19, <1>20 DEF FindingStaysFor

LEMMA CleanStays ==
  ASSUME NEW q \in CleanStaysFor, NEW r, NEW s, NEW g, More(q, r, s),
         \A f \in Fields[q] : r[f] \in Values,
         Rule(q, r, g) \notin {"finding", "untested"}
  PROVE  Rule(q, s, g) # "finding"
<1>1. CASE q = "Q5"
  BY <1>1, Zenon DEF More, Rule, MixedContent, Fields, Knows, Shows, Found
<1>2. CASE q = "Q25"
  BY <1>2, Zenon DEF More, Rule, LocaleProbeChanges, Fields, Knows, Shows, Found, Values
<1>3. CASE q = "Q28"
  BY <1>3, Zenon DEF More, Rule, ExternalLinks, Fields, Knows, Shows, Found
<1>4. CASE q = "Q31"
  BY <1>4, Zenon DEF More, Rule, VerifiedGoogleFetch, Fields, Knows, Shows, Found
<1>5. CASE q = "Q33"
  BY <1>5, Zenon DEF More, Rule, SpamPatterns, EveryList, Fields, Knows, Shows, Found
<1>6. CASE q = "Q38"
  BY <1>6, Zenon DEF More, Rule, ListingControls, Controlled, Fields, Knows, Shows, Found
<1>7. CASE q = "Q39"
  BY <1>7, Zenon DEF More, Rule, HeadingLinkTargets, EveryList, Fields, Knows, Shows, Found
<1>8. CASE q = "Q46"
  BY <1>8, Zenon DEF More, Rule, FooterParity, EveryList, Fields, Knows, Shows, Found
<1>9. CASE q = "Q50"
  BY <1>9, Zenon DEF More, Rule, TopicGap, Fields, Knows, Shows, Found
<1>10. CASE q = "Q64"
  BY <1>10, Zenon DEF More, Rule, Preconnects, Fields, Knows, Shows, Found
<1>11. CASE q = "Q65"
  BY <1>11, Zenon DEF More, Rule, TrackingPreloads, EveryList, Fields, Knows, Shows, Found
<1>12. CASE q = "Q67"
  BY <1>12, Zenon DEF More, Rule, FontLoading, EveryList, Fields, Knows, Shows, Found
<1>13. CASE q = "Q68"
  BY <1>13, Zenon DEF More, Rule, LcpImageAttributes, EveryList, Fields, Knows, Shows, Found
<1>14. CASE q = "Q69"
  BY <1>14, Zenon DEF More, Rule, LcpBackground, EveryList, Fields, Knows, Shows, Found
<1>15. CASE q = "Q85"
  BY <1>15, Zenon DEF More, Rule, RenderParity, EveryList, Fields, Knows, Shows, Found
<1>16. CASE q = "Q86"
  BY <1>16, Zenon DEF More, Rule, RenderBlockingHead, EveryList, Fields, Knows, Shows, Found
<1>17. CASE q = "Q92"
  BY <1>17, Zenon DEF More, Rule, InsecureForms, Fields, Knows, Shows, Found
<1>18. CASE q = "Q102"
  BY <1>18, Zenon DEF More, Rule, UtilityPaths, Fields, Knows, Shows, Found
<1> QED
  BY <1>1, <1>2, <1>3, <1>4, <1>5, <1>6, <1>7, <1>8, <1>9, <1>10,
     <1>11, <1>12, <1>13, <1>14, <1>15, <1>16, <1>17, <1>18 DEF CleanStaysFor

EvidenceType ==
    [available : BOOLEAN, affected : Nat, of : Nat, counted : BOOLEAN, scope : BOOLEAN,
     coverage : BOOLEAN, review : BOOLEAN]

LEMMA EvidenceOf ==
  ASSUME NEW a \in BOOLEAN, NEW n \in Nat, NEW m \in Nat, NEW c \in BOOLEAN, NEW s \in BOOLEAN,
         NEW w \in BOOLEAN, NEW r \in BOOLEAN
  PROVE  [available |-> a, affected |-> n, of |-> m, counted |-> c, scope |-> s, coverage |-> w,
          review |-> r] \in EvidenceType
  BY DEF EvidenceType

LEMMA EvidenceWith ==
  ASSUME NEW n \in Nat, NEW m \in Nat, NEW s \in BOOLEAN, NEW w \in BOOLEAN
  PROVE  [available |-> TRUE, affected |-> n, of |-> m, counted |-> TRUE, scope |-> s,
          coverage |-> w, review |-> FALSE] \in EvidenceType
<1>1. TRUE \in BOOLEAN /\ FALSE \in BOOLEAN
  OBVIOUS
<1>2. QED
  BY <1>1, EvidenceOf, Zenon

LEMMA NoEvidenceIs ==
  /\ NoEvidence \in EvidenceType /\ ~NoEvidence.available /\ NoEvidence.affected = 0
  /\ NoEvidence.of = 0 /\ NoEvidence.counted /\ NoEvidence.scope /\ NoEvidence.coverage
  /\ ~NoEvidence.review
  BY DEF NoEvidence, EvidenceType

\* A set of templates or records is counted as empty only if nothing is found.
LEMMA UnitsAreCounted ==
  ASSUME NEW q, NEW found, IsFiniteSet(found)
  PROVE  /\ Cardinality(Units(q, found)) \in Nat
         /\ Cardinality(Units(q, found)) >= 1 <=> found # {}
<1>1. IsFiniteSet({0}) /\ Cardinality({0}) = 1
  BY FS_Singleton
<1>2. Cardinality(found) \in Nat /\ (Cardinality(found) = 0 <=> found = {})
  BY FS_CardinalityType, FS_EmptySet
<1>3. QED
  BY <1>1, <1>2 DEF Units

LEMMA EvaluateIs ==
  ASSUME AnswersAssumption, covered \in BOOLEAN, NEW q, NEW recs
  PROVE  LET e == Evaluate(q, recs)
             verdict(i) == Rule(q, recs[i], given[i])
         IN  /\ e \in EvidenceType /\ e.counted /\ ~e.review
             /\ e.affected >= 1 <=> \E i \in RecordIds : verdict(i) = "finding"
             /\ e.available => e.coverage = covered
             /\ e.available /\ e.scope => \A i \in RecordIds : verdict(i) # "untested"
             /\ e.affected >= 1 => e.available
<1> DEFINE with(v) == {i \in RecordIds : Rule(q, recs[i], given[i]) = v}
           tested == with("finding") \cup with("clean")
           e == Evaluate(q, recs)
<1>1. IsFiniteSet(with("finding")) /\ IsFiniteSet(tested)
  BY FS_Subset DEF AnswersAssumption
<1>2. /\ Cardinality(Units(q, with("finding"))) \in Nat
      /\ Cardinality(Units(q, with("finding"))) >= 1 <=> with("finding") # {}
      /\ Cardinality(Units(q, tested)) \in Nat
  BY <1>1, UnitsAreCounted
<1>3. CASE tested = {}
  <2>1. e = NoEvidence
    BY <1>3 DEF Evaluate
  <2>2. ~\E i \in RecordIds : Rule(q, recs[i], given[i]) = "finding"
    BY <1>3
  <2>3. e \in EvidenceType /\ ~e.available /\ e.affected = 0 /\ e.counted /\ ~e.review
    BY <2>1, NoEvidenceIs, Zenon
  <2>4. QED
    BY <2>2, <2>3
<1>4. CASE tested # {}
  <2>1. e = [NoEvidence EXCEPT !.available = TRUE,
                !.affected = Cardinality(Units(q, with("finding"))),
                !.of = Cardinality(Units(q, tested)),
                !.scope = q # "Q67" /\ with("untested") = {}, !.coverage = covered]
    BY <1>4 DEF Evaluate
  <2>2. /\ e.available /\ e.affected = Cardinality(Units(q, with("finding")))
        /\ e.scope = (q # "Q67" /\ with("untested") = {}) /\ e.coverage = covered
        /\ e.counted /\ ~e.review /\ e \in EvidenceType
    BY <1>2, <2>1 DEF NoEvidence, EvidenceType
  <2>3. QED
    BY <1>2, <2>2
<1>5. QED
  BY <1>3, <1>4

LEMMA AnswerRests ==
  ASSUME NEW q, NEW e \in EvidenceType, AnswerOne(q, e) \in {"Healthy", "Issue"}
  PROVE  /\ e.available /\ e.coverage /\ (q \in Gates \/ GateOk)
         /\ e.counted => e.of + e.affected > 0
         /\ AnswerOne(q, e) = "Healthy" => e.scope /\ ~MeetsThreshold(q, e)
         /\ AnswerOne(q, e) = "Issue" => MeetsThreshold(q, e) /\ q \notin Heuristic /\ ~e.review
<1>1. ~(e.affected = 0 /\ e.counted /\ e.of = 0) /\ e.affected \in Nat /\ e.of \in Nat
  BY Zenon DEF AnswerOne, EvidenceType
<1>2. e.counted => e.of + e.affected > 0
  BY <1>1
<1>3. QED
  BY <1>2, Zenon DEF AnswerOne

--------------------
\* What has been recorded, and that what is recorded next adds to it.
AnswersInv ==
    /\ question \in Question /\ run_context \in Contexts /\ covered \in BOOLEAN
    /\ record \in [RecordIds -> [Fields[question] -> Values]]

LEMMA ContinuationsAddOne ==
  ASSUME AnswersInv, NEW recs \in Continuations
  PROVE  \E i \in RecordIds, f \in Fields[question], v \in Values :
            record[i][f] = "unknown" /\ recs = [record EXCEPT ![i][f] = v]
  BY DEF Continuations, Values

LEMMA ContinuationsKnowMore ==
  ASSUME AnswersInv, NEW recs \in Continuations, NEW i \in RecordIds
  PROVE  /\ More(question, record[i], recs[i])
         /\ \A f \in Fields[question] : record[i][f] \in Values
         /\ \E j \in RecordIds, f \in Fields[question] : record[j][f] = "unknown"
<1>1. PICK j \in RecordIds, f \in Fields[question], v \in Values :
         record[j][f] = "unknown" /\ recs = [record EXCEPT ![j][f] = v]
  BY ContinuationsAddOne
<1>2. record[i] \in [Fields[question] -> Values] /\ record[j] \in [Fields[question] -> Values]
  BY DEF AnswersInv
<1>3. recs[i] = IF i = j THEN [record[j] EXCEPT ![f] = v] ELSE record[i]
  BY <1>1 DEF AnswersInv
<1>4. ASSUME NEW h \in Fields[question], record[i][h] # "unknown"
      PROVE  recs[i][h] = record[i][h]
  BY <1>1, <1>2, <1>3, <1>4
<1>5. QED
  BY <1>1, <1>2, <1>4 DEF More

\* Where everything was recorded, nothing more can be.
LEMMA AllIsRecorded ==
  ASSUME AnswersInv, \A i \in RecordIds : Knows(record[i], Fields[question])
  PROVE  Continuations = {}
  BY DEF Continuations, Knows

LEMMA AsEvaluated ==
  ASSUME NEW q \in Observed \ {"Q27", "Q29", "Q43", "Q63", "Q96"}, NEW recs
  PROVE  Evidence(q, recs) = Evaluate(q, recs)
  BY Zenon DEF Evidence, Observed, ProfileQuestions, Gates

--------------------
\* The questions with evidence of their own.
LEMMA EvidenceIs ==
  ASSUME NEW recs
  PROVE  /\ Evidence("Q63", recs) = HstsOcspAnswer(recs)
         /\ Evidence("Q27", recs) = HostExposureAnswer(recs)
         /\ Evidence("Q96", recs) = AiCrawlerAnswer(recs)
         /\ Evidence("Q43", recs) = SitewideExternalLinks(recs)
         /\ Evidence("Q29", recs) = LabVitals(recs)
         /\ Evidence("Q88", recs) = PerformanceDistribution(recs)
         /\ \A q \in ProfileQuestions : Evidence(q, recs) = ProfileIndexability(q, recs)
         /\ Evidence("Q22", recs) = FromCheck(recs)
         /\ Evidence("Q39", recs) = HeadingLinks(recs)
         /\ Evidence("Q26", recs) = RunGate(recs)
         /\ Evidence("Q81", recs) = RateLimitGate(recs)
  BY Zenon DEF Evidence, ProfileQuestions

LEMMA HstsIs ==
  ASSUME AnswersAssumption, AnswersInv, NEW recs
  PROVE  LET e == Evidence("Q63", recs)
             old == Evaluate("Q63", recs)
         IN  /\ e \in EvidenceType /\ e.affected = old.affected /\ e.available = old.available
             /\ e.coverage = old.coverage
             /\ e.available /\ e.scope =>
                   old.scope /\ \A i \in RecordIds : Knows(recs[i], {"unlisted", "unstapled"})
<1> DEFINE partial == {i \in RecordIds : ~Knows(recs[i], {"unlisted", "unstapled"})}
           old == Evaluate("Q63", recs)
<1>1. Evidence("Q63", recs) = IF old.available /\ partial # {} THEN [old EXCEPT !.scope = FALSE] ELSE old
  BY EvidenceIs, Zenon DEF HstsOcspAnswer
<1>2. old \in EvidenceType
  BY EvaluateIs DEF AnswersInv
<1>3. QED
  BY <1>1, <1>2 DEF EvidenceType

LEMMA HostsIs ==
  ASSUME AnswersAssumption, AnswersInv, NEW recs
  PROVE  LET e == Evidence("Q27", recs)
             old == Evaluate("Q27", recs)
         IN  /\ e \in EvidenceType /\ e.affected = old.affected /\ e.available = old.available
             /\ e.coverage = old.coverage
             /\ ~e.review => \A i \in RecordIds : HostExposure(recs[i]) = "finding" =>
                                Knows(recs[i], {"html", "noindex"})
<1> DEFINE affected == {i \in RecordIds : HostExposure(recs[i]) = "finding"}
           missed == {i \in RecordIds : given[i].declared = "yes" /\ recs[i].open = "unknown"}
           old == Evaluate("Q27", recs)
<1>1. Evidence("Q27", recs) = [old EXCEPT !.scope = missed = {},
                                   !.review = \E i \in affected : ~Knows(recs[i], {"html", "noindex"})]
  BY EvidenceIs, Zenon DEF HostExposureAnswer
<1>2. old \in EvidenceType
  BY EvaluateIs DEF AnswersInv
<1>3. QED
  BY <1>1, <1>2 DEF EvidenceType

LEMMA CrawlersIs ==
  ASSUME AnswersAssumption, AnswersInv, NEW recs
  PROVE  LET e == Evidence("Q96", recs)
             old == Evaluate("Q96", recs)
         IN  /\ e \in EvidenceType
             /\ \/ /\ ~e.scope /\ e.affected = 0 /\ e.coverage /\ ~e.counted
                   /\ \A i \in RecordIds : given[i].declared = "no"
                \/ /\ e.affected = old.affected /\ e.available = old.available
                   /\ e.coverage = old.coverage
                   /\ e.scope => old.scope
<1> DEFINE wasRead == {i \in RecordIds : recs[i].contradicts # "unknown"}
           undeclared == {i \in RecordIds : given[i].declared = "no"}
           old == Evaluate("Q96", recs)
           none == undeclared = RecordIds /\ wasRead # {}
<1>1. Evidence("Q96", recs) =
         IF none THEN [NoEvidence EXCEPT !.available = TRUE, !.counted = FALSE, !.scope = FALSE]
         ELSE [old EXCEPT !.scope = old.scope /\ (~old.available \/ undeclared = {})]
  BY EvidenceIs, Zenon DEF AiCrawlerAnswer
<1>2. old \in EvidenceType
  BY EvaluateIs DEF AnswersInv
<1>3. none => \A i \in RecordIds : given[i].declared = "no"
  OBVIOUS
<1>4. CASE none
  <2> HIDE DEF none
  <2>1. Evidence("Q96", recs) =
           [NoEvidence EXCEPT !.available = TRUE, !.counted = FALSE, !.scope = FALSE]
    BY <1>1, <1>4
  <2>a. Evidence("Q96", recs) =
           [available |-> TRUE, affected |-> 0, of |-> 0, counted |-> FALSE, scope |-> FALSE,
            coverage |-> TRUE, review |-> FALSE]
    BY <2>1, Zenon DEF NoEvidence
  <2>b. TRUE \in BOOLEAN /\ FALSE \in BOOLEAN /\ 0 \in Nat
    OBVIOUS
  <2>c. Evidence("Q96", recs) \in EvidenceType
    BY <2>a, <2>b, EvidenceOf, Zenon
  <2>2. LET e == Evidence("Q96", recs)
        IN  e \in EvidenceType /\ ~e.scope /\ e.affected = 0 /\ e.coverage /\ ~e.counted
    BY ONLY <2>a, <2>c
  <2>3. QED
    BY <1>3, <1>4, <2>2, Zenon
<1>5. CASE ~none
  BY <1>1, <1>2, <1>5 DEF EvidenceType
<1>6. QED
  BY <1>4, <1>5

LEMMA SitewideIs ==
  ASSUME AnswersAssumption, AnswersInv, NEW recs
  PROVE  LET e == Evidence("Q43", recs)
         IN  /\ e \in EvidenceType
             /\ e.available => e.coverage = covered
             /\ e.available /\ e.scope => \A i \in RecordIds : recs[i].links # "unknown"
<1> DEFINE pages == {i \in RecordIds : recs[i].links # "unknown"}
           linking == {i \in pages : recs[i].links = "yes"}
           e == Evidence("Q43", recs)
<1>1. e = IF pages = {} THEN NoEvidence
          ELSE [NoEvidence EXCEPT !.available = TRUE, !.of = Cardinality(pages),
                   !.affected = IF 2 * Cardinality(linking) > Cardinality(pages) THEN 1 ELSE 0,
                   !.scope = pages = RecordIds, !.coverage = covered]
  BY EvidenceIs, Zenon DEF SitewideExternalLinks
<1>2. Cardinality(pages) \in Nat
  BY FS_Subset, FS_CardinalityType DEF AnswersAssumption
<1>3. CASE pages = {}
  BY <1>1, <1>3, NoEvidenceIs, Zenon
<1>4. CASE pages # {}
  <2>1. pages = RecordIds => \A i \in RecordIds : recs[i].links # "unknown"
    OBVIOUS
  <2> DEFINE n == IF 2 * Cardinality(linking) > Cardinality(pages) THEN 1 ELSE 0
             whole == pages = RecordIds
  <2>2. n \in Nat /\ whole \in BOOLEAN /\ covered \in BOOLEAN
    BY DEF AnswersInv
  <2>3. e = [NoEvidence EXCEPT !.available = TRUE, !.of = Cardinality(pages), !.affected = n,
                !.scope = whole, !.coverage = covered]
    BY <1>1, <1>4
  <2> HIDE DEF pages, linking, n, whole
  <2>4. e = [available |-> TRUE, affected |-> n, of |-> Cardinality(pages), counted |-> TRUE,
             scope |-> whole, coverage |-> covered, review |-> FALSE]
    BY <2>3, Zenon DEF NoEvidence
  <2>5. e \in EvidenceType
    BY <1>2, <2>2, <2>4, EvidenceWith, Zenon
  <2>6. e.coverage = covered /\ e.scope = whole
    BY ONLY <2>4
  <2>7. QED
    BY <2>1, <2>5, <2>6 DEF whole
<1>5. QED
  BY <1>3, <1>4

LEMMA VitalsIs ==
  ASSUME AnswersAssumption, AnswersInv, NEW recs
  PROVE  /\ Evidence("Q29", recs) \in EvidenceType
         /\ Evidence("Q29", recs).available => Evidence("Q29", recs).coverage = covered
<1> DEFINE templates == IF oneTemplate THEN {RecordIds} ELSE {{i} : i \in RecordIds}
           has(t, f) == \E i \in t : recs[i][f] # "unknown"
           measured == {t \in templates : \E f \in Fields["Q29"] : has(t, f)}
           slow == {t \in measured : \E i \in t : Shows(recs[i], Fields["Q29"])}
           e == Evidence("Q29", recs)
<1>1. e = IF measured = {} THEN NoEvidence
          ELSE [NoEvidence EXCEPT !.available = TRUE, !.affected = Cardinality(slow),
                   !.of = Cardinality(measured), !.coverage = covered,
                   !.scope = \A t \in templates : has(t, "slow") /\ has(t, "shifting")]
  BY EvidenceIs, Zenon DEF LabVitals
<1>2. Cardinality(slow) \in Nat /\ Cardinality(measured) \in Nat
  <2>1. measured \subseteq SUBSET RecordIds /\ slow \subseteq SUBSET RecordIds
    OBVIOUS
  <2>2. IsFiniteSet(measured) /\ IsFiniteSet(slow)
    BY <2>1, FS_SUBSET, FS_Subset DEF AnswersAssumption
  <2>3. QED
    BY <2>2, FS_CardinalityType
<1>3. CASE measured = {}
  BY <1>1, <1>3, NoEvidenceIs, Zenon
<1>4. CASE measured # {}
  <2> HIDE DEF slow, has
  <2>1. QED
    BY <1>1, <1>2, <1>4 DEF NoEvidence, EvidenceType, AnswersInv
<1>5. QED
  BY <1>3, <1>4

LEMMA DistributionIs ==
  ASSUME AnswersAssumption, AnswersInv, NEW recs
  PROVE  LET e == Evidence("Q88", recs)
         IN  /\ e \in EvidenceType
             /\ e.available /\ e.coverage => \A i \in RecordIds : recs[i].slow # "unknown"
<1> DEFINE timed == {i \in RecordIds : recs[i].slow # "unknown"}
           templates == IF oneTemplate THEN {timed} ELSE {{i} : i \in timed}
           judged == {t \in templates : Cardinality(t) >= MinSamples}
           breached == {t \in judged : \E i \in t : recs[i].slow = "yes"}
           e == Evidence("Q88", recs)
<1>1. e = IF timed = {} THEN NoEvidence
          ELSE [NoEvidence EXCEPT !.available = TRUE, !.affected = Cardinality(breached),
                   !.of = Cardinality(timed),
                   !.coverage = timed = RecordIds /\ judged = templates]
  BY EvidenceIs, Zenon DEF PerformanceDistribution
<1>2. Cardinality(breached) \in Nat /\ Cardinality(timed) \in Nat
  <2>1. timed \subseteq RecordIds /\ templates \subseteq SUBSET RecordIds
    OBVIOUS
  <2>2. breached \subseteq SUBSET RecordIds
    BY <2>1
  <2> HIDE DEF breached, timed
  <2>3. IsFiniteSet(breached) /\ IsFiniteSet(timed)
    BY <2>1, <2>2, FS_SUBSET, FS_Subset DEF AnswersAssumption
  <2>4. QED
    BY <2>3, FS_CardinalityType
<1>3. CASE timed = {}
  BY <1>1, <1>3, NoEvidenceIs, Zenon
<1>4. CASE timed # {}
  <2>1. timed = RecordIds => \A i \in RecordIds : recs[i].slow # "unknown"
    OBVIOUS
  <2> HIDE DEF timed, judged, breached
  <2>2. QED
    BY <1>1, <1>2, <1>4, <2>1 DEF NoEvidence, EvidenceType
<1>5. QED
  BY <1>3, <1>4

LEMMA ProfileIs ==
  ASSUME AnswersAssumption, AnswersInv, NEW q \in ProfileQuestions, NEW recs
  PROVE  LET e == Evidence(q, recs)
         IN  /\ e \in EvidenceType
             /\ e.affected >= 1 <=> \E i \in RecordIds : Rule(q, recs[i], given[i]) = "finding"
             /\ e.coverage => \A i \in RecordIds : ~ProfileReasons(q, recs[i], given[i])
<1> DEFINE found == {i \in RecordIds : Rule(q, recs[i], given[i]) = "finding"}
           whole == /\ \A i \in RecordIds : ~ProfileReasons(q, recs[i], given[i])
                    /\ q = "Q91" => ~run_context.partial
           e == Evidence(q, recs)
<1>1. e = [NoEvidence EXCEPT !.available = TRUE, !.of = Cardinality(RecordIds),
              !.affected = Cardinality(found), !.coverage = whole]
  <2>1. e = ProfileIndexability(q, recs)
    BY EvidenceIs
  <2>2. QED
    BY <2>1, Zenon DEF ProfileIndexability
<1>2. /\ Cardinality(found) \in Nat /\ Cardinality(RecordIds) \in Nat
      /\ Cardinality(found) = 0 <=> found = {}
  BY FS_Subset, FS_CardinalityType, FS_EmptySet DEF AnswersAssumption
<1>3. found # {} <=> \E i \in RecordIds : Rule(q, recs[i], given[i]) = "finding"
  OBVIOUS
<1>4. whole => \A i \in RecordIds : ~ProfileReasons(q, recs[i], given[i])
  OBVIOUS
<1>5. whole \in BOOLEAN
  OBVIOUS
<1> HIDE DEF found, whole
<1>6. e \in EvidenceType /\ e.affected = Cardinality(found) /\ e.coverage = whole
  BY <1>1, <1>2, <1>5 DEF NoEvidence, EvidenceType
<1>7. QED
  BY <1>2, <1>3, <1>4, <1>6

\* The rows of a check are given, whatever else is recorded.
LEMMA CheckIs ==
  ASSUME AnswersAssumption, AnswersInv, NEW recs
  PROVE  LET e == Evidence("Q22", recs)
         IN  /\ e \in EvidenceType
             /\ e.affected >= 1 <=> \E i \in RecordIds : given[i].affected = "yes"
<1> DEFINE rows == {i \in RecordIds : given[i].affected = "yes"}
           e == Evidence("Q22", recs)
           known == CheckDenominator(recs) # "unknown"
           of == IF CheckDenominator(recs) = "yes" THEN Cardinality(RecordIds) ELSE 0
<1>1. e = IF CheckStatus(recs) = "unavailable" THEN NoEvidence
          ELSE [NoEvidence EXCEPT !.available = TRUE, !.affected = Cardinality(rows),
                   !.of = of, !.counted = known, !.coverage = ~run_context.partial]
  BY EvidenceIs, Zenon DEF FromCheck, CheckRows
<1>2. /\ Cardinality(rows) \in Nat /\ Cardinality(RecordIds) \in Nat
      /\ Cardinality(rows) = 0 <=> rows = {}
  BY FS_Subset, FS_CardinalityType, FS_EmptySet DEF AnswersAssumption
<1>3. rows # {} <=> \E i \in RecordIds : given[i].affected = "yes"
  OBVIOUS
<1>4. CheckStatus(recs) = "unavailable" => rows = {}
  BY Zenon DEF CheckStatus, CheckRows
<1>5. of \in Nat /\ known \in BOOLEAN
  BY <1>2
<1> HIDE DEF rows, of, known
<1>6. CASE CheckStatus(recs) = "unavailable"
  <2>1. e = NoEvidence
    BY <1>1, <1>6
  <2>2. e \in EvidenceType /\ e.affected = 0
    BY <2>1, NoEvidenceIs, Zenon
  <2>3. QED
    BY <1>3, <1>4, <1>6, <2>2
<1>7. CASE CheckStatus(recs) # "unavailable"
  <2>1. e \in EvidenceType /\ e.affected = Cardinality(rows)
    BY <1>1, <1>2, <1>5, <1>7 DEF NoEvidence, EvidenceType
  <2>2. QED
    BY <1>2, <1>3, <2>1
<1>8. QED
  BY <1>6, <1>7

LEMMA HeadingsIs ==
  ASSUME AnswersAssumption, AnswersInv, NEW recs
  PROVE  LET e == Evidence("Q39", recs)
             old == Evaluate("Q39", recs)
         IN  /\ e \in EvidenceType /\ e.affected = old.affected /\ e.available = old.available
             /\ e.scope = old.scope
<1>1. Evidence("Q39", recs) = [Evaluate("Q39", recs) EXCEPT !.coverage = ~run_context.partial]
  BY EvidenceIs, Zenon DEF HeadingLinks
<1>2. Evaluate("Q39", recs) \in EvidenceType
  BY EvaluateIs DEF AnswersInv
<1>3. QED
  BY <1>1, <1>2 DEF EvidenceType

LEMMA RunGateIs ==
  ASSUME NEW recs
  PROVE  LET e == Evidence("Q26", recs)
         IN  /\ e \in EvidenceType
             /\ e.affected >= 1 <=> \/ run_context.partial \/ run_context.changed \/ run_context.pending
                                    \/ \E i \in RecordIds : recs[i].unparsed = "yes"
<1> DEFINE fails == \/ run_context.partial \/ run_context.changed \/ run_context.pending
                    \/ \E i \in RecordIds : recs[i].unparsed = "yes"
           e == Evidence("Q26", recs)
<1>1. e = [NoEvidence EXCEPT !.available = TRUE, !.of = 1, !.affected = IF fails THEN 1 ELSE 0]
  BY EvidenceIs, Zenon DEF RunGate
<1> DEFINE n == IF fails THEN 1 ELSE 0
<1>2. TRUE \in BOOLEAN /\ n \in Nat /\ 1 \in Nat /\ (n >= 1 <=> fails)
  OBVIOUS
<1> HIDE DEF fails, n
<1>3. e = [available |-> TRUE, affected |-> n, of |-> 1, counted |-> TRUE, scope |-> TRUE,
           coverage |-> TRUE, review |-> FALSE]
  <2>1. e = [NoEvidence EXCEPT !.available = TRUE, !.of = 1, !.affected = n]
    BY <1>1 DEF n
  <2>2. QED
    BY <2>1, Zenon DEF NoEvidence
<1>4. e \in EvidenceType
  BY <1>2, <1>3, EvidenceWith, Zenon
<1>5. e.affected = n
  BY ONLY <1>3
<1>6. QED
  BY <1>2, <1>4, <1>5 DEF fails

LEMMA RateGateIs ==
  ASSUME NEW recs
  PROVE  LET e == Evidence("Q81", recs)
         IN  /\ e \in EvidenceType
             /\ e.available => \A i \in RecordIds : recs[i].limited # "unknown"
             /\ e.available /\ e.scope => \A i \in RecordIds : recs[i].slowed # "unknown"
             /\ e.affected >= 1 <=> /\ \A i \in RecordIds : recs[i].limited # "unknown"
                                    /\ \E i \in RecordIds : Shows(recs[i], {"limited", "slowed"})
<1> DEFINE wasRead == \A i \in RecordIds : recs[i].limited # "unknown"
           limits == \E i \in RecordIds : Shows(recs[i], {"limited", "slowed"})
           whole == \A i \in RecordIds : recs[i].slowed # "unknown"
           e == Evidence("Q81", recs)
<1>1. e = IF ~wasRead THEN NoEvidence
          ELSE [NoEvidence EXCEPT !.available = TRUE, !.of = 1, !.coverage = ~run_context.partial,
                   !.affected = IF limits THEN 1 ELSE 0, !.scope = whole]
  BY EvidenceIs, Zenon DEF RateLimitGate
<1>2. whole \in BOOLEAN
  OBVIOUS
<1> HIDE DEF wasRead, limits, whole
<1>3. CASE ~wasRead
  <2>1. e = NoEvidence
    BY <1>1, <1>3
  <2>2. e \in EvidenceType /\ ~e.available /\ e.affected = 0
    BY <2>1, NoEvidenceIs, Zenon
  <2>3. QED
    BY <1>3, <2>2 DEF wasRead
<1>4. CASE wasRead
  <2> DEFINE n == IF limits THEN 1 ELSE 0
             run == ~run_context.partial
  <2>1. /\ n \in Nat /\ 1 \in Nat /\ run \in BOOLEAN
        /\ n >= 1 <=> limits
    OBVIOUS
  <2>2. e = [NoEvidence EXCEPT !.available = TRUE, !.of = 1, !.coverage = run, !.affected = n,
                !.scope = whole]
    BY <1>1, <1>4
  <2> HIDE DEF n, run
  <2>3. e = [available |-> TRUE, affected |-> n, of |-> 1, counted |-> TRUE, scope |-> whole,
             coverage |-> run, review |-> FALSE]
    BY <2>2, Zenon DEF NoEvidence
  <2>4. e \in EvidenceType
    BY <1>2, <2>1, <2>3, EvidenceWith, Zenon
  <2>5. e.affected = n /\ e.scope = whole
    BY ONLY <2>3
  <2>6. QED
    BY <1>4, <2>1, <2>4, <2>5, Zenon DEF wasRead, limits, whole
<1>5. QED
  BY <1>3, <1>4

--------------------
\* Whatever is asked, the evidence is evidence, and none of an observed question
\* claims more coverage than its collections did.
LEMMA EvidenceHasTypes ==
  ASSUME AnswersAssumption, AnswersInv, NEW recs
  PROVE  LET e == Evidence(question, recs)
         IN  /\ e \in EvidenceType
             /\ question \in Observed /\ e.available /\ e.coverage /\ (e.scope \/ e.affected >= 1) => covered
<1> DEFINE e == Evidence(question, recs)
<1>1. CASE question \in Observed \ {"Q27", "Q29", "Q43", "Q63", "Q96"}
  BY <1>1, AsEvaluated, EvaluateIs DEF AnswersInv
<1>2. CASE question = "Q27"
  <2>1. covered \in BOOLEAN
    BY DEF AnswersInv
  <2>2. QED
    BY <1>2, <2>1, HostsIs, EvaluateIs
<1>3. CASE question = "Q29"
  BY <1>3, VitalsIs
<1>4. CASE question = "Q43"
  BY <1>4, SitewideIs
<1>5. CASE question = "Q63"
  <2>1. covered \in BOOLEAN
    BY DEF AnswersInv
  <2>2. QED
    BY <1>5, <2>1, HstsIs, EvaluateIs
<1>6. CASE question = "Q96"
  <2>1. covered \in BOOLEAN
    BY DEF AnswersInv
  <2>2. QED
    BY <1>6, <2>1, CrawlersIs, EvaluateIs
<1>7. CASE question \in ProfileQuestions
  BY <1>7, ProfileIs DEF Observed
<1>8. CASE question = "Q22"
  BY <1>8, CheckIs, Zenon DEF Observed
<1>9. CASE question = "Q39"
  BY <1>9, HeadingsIs, Zenon DEF Observed
<1>10. CASE question = "Q88"
  BY <1>10, DistributionIs, Zenon DEF Observed
<1>11. CASE question = "Q26"
  BY <1>11, RunGateIs, Zenon DEF Observed, Gates
<1>12. CASE question = "Q81"
  BY <1>12, RateGateIs, Zenon DEF Observed, Gates
<1>13. QED
  BY <1>1, <1>2, <1>3, <1>4, <1>5, <1>6, <1>7, <1>8, <1>9, <1>10, <1>11, <1>12
     DEF AnswersInv, Observed, Gates

LEMMA ConfirmedHasARun ==
  ASSUME AnswersAssumption, AnswersInv
  PROVE  ConfirmedNeedsTheRun
<1> DEFINE e == Evidence(question, record)
<1> SUFFICES ASSUME Status(record) \in {"Healthy", "Issue"}, question \notin Gates
             PROVE  /\ run_context = SoundContext
                    /\ question \in Observed => covered
                    /\ e.counted => e.of + e.affected > 0
  BY DEF ConfirmedNeedsTheRun
<1>1. /\ e \in EvidenceType
      /\ question \in Observed /\ e.available /\ e.coverage /\ (e.scope \/ e.affected >= 1) => covered
  BY EvidenceHasTypes
<1>2. AnswerOne(question, e) \in {"Healthy", "Issue"}
  BY DEF Status
<1>3. /\ e.available /\ e.coverage /\ GateOk /\ (e.counted => e.of + e.affected > 0)
      /\ AnswerOne(question, e) = "Healthy" => e.scope
      /\ AnswerOne(question, e) = "Issue" => e.affected >= 1
  BY <1>1, <1>2, AnswerRests, Zenon DEF MeetsThreshold
<1>4. run_context = SoundContext
  <2>1. run_context \in [partial : BOOLEAN, changed : BOOLEAN, pending : BOOLEAN, rateLimited : BOOLEAN]
    BY DEF AnswersInv, AnswersAssumption
  <2>2. ~run_context.partial /\ ~run_context.changed /\ ~run_context.pending /\ ~run_context.rateLimited
    BY <1>3 DEF GateOk
  <2>3. QED
    BY <2>1, <2>2 DEF SoundContext
<1>5. question \in Observed => covered
  BY <1>1, <1>2, <1>3
<1>6. QED
  BY <1>3, <1>4, <1>5

--------------------
\* What a confirmed answer says of its evidence.
LEMMA YesIs ==
  ASSUME NEW q, q \notin {"Q45", "Q66"}, NEW e
  PROVE  MeetsThreshold(q, e) <=> e.affected >= 1
  BY Zenon DEF MeetsThreshold

LEMMA HealthyShows ==
  ASSUME AnswersAssumption, AnswersInv, Status(record) = "Healthy"
  PROVE  LET e == Evidence(question, record)
         IN  /\ e \in EvidenceType /\ e.available /\ e.coverage /\ e.scope
             /\ ~MeetsThreshold(question, e)
<1> DEFINE e == Evidence(question, record)
<1>1. e \in EvidenceType
  BY EvidenceHasTypes
<1>2. AnswerOne(question, e) = "Healthy"
  BY DEF Status
<1>3. QED
  BY <1>1, <1>2, AnswerRests, Zenon

LEMMA IssueShows ==
  ASSUME AnswersAssumption, AnswersInv, Status(record) = "Issue"
  PROVE  LET e == Evidence(question, record)
         IN  /\ e \in EvidenceType /\ e.available /\ e.coverage /\ ~e.review
             /\ MeetsThreshold(question, e) /\ e.affected >= 1 /\ question \notin Heuristic
<1> DEFINE e == Evidence(question, record)
<1>1. e \in EvidenceType
  BY EvidenceHasTypes
<1>2. AnswerOne(question, e) = "Issue"
  BY DEF Status
<1>3. QED
  BY <1>1, <1>2, AnswerRests, Zenon DEF MeetsThreshold

\* A page that a profile question is complete about does not become a finding.
LEMMA ProfileStays ==
  ASSUME NEW q \in {"Q20", "Q36", "Q37", "Q91"}, NEW r, NEW s, NEW g, More(q, r, s),
         \A f \in Fields[q] : r[f] \in Values,
         ~ProfileReasons(q, r, g), Rule(q, r, g) # "finding"
  PROVE  Rule(q, s, g) # "finding"
<1>1. CASE q = "Q20"
  BY <1>1, Zenon DEF More, Rule, IndexedNoindex, ProfileReasons, IndexedNoindexReasons,
                     Fields, Knows, Shows, Found, Values
<1>2. CASE q = "Q36"
  BY <1>2, Zenon DEF More, Rule, ProfileSubTab, ProfileReasons, Fields, Knows, Found, Values
<1>3. CASE q = "Q37"
  BY <1>3, Zenon DEF More, Rule, EmptyProfile, ProfileReasons, EmptyProfileReasons,
                     Fields, Knows, Shows, Found, Values
<1>4. CASE q = "Q91"
  BY <1>4, Zenon DEF More, Rule, EmptyAnchor, ProfileReasons, Fields, Found, Values
<1>5. QED
  BY <1>1, <1>2, <1>3, <1>4

LEMMA HealthyHolds ==
  ASSUME AnswersAssumption, AnswersInv
  PROVE  HealthyIsProved
<1> SUFFICES ASSUME question \notin PassesOverGaps, Status(record) = "Healthy",
                    NEW recs \in Continuations
             PROVE  ~SaysYes(recs)
  BY DEF HealthyIsProved, StaysHealthy
<1> DEFINE e == Evidence(question, record)
           new == Evidence(question, recs)
           showsNow(i) == Rule(question, record[i], given[i]) = "finding"
           showsThen(i) == Rule(question, recs[i], given[i]) = "finding"
<1>1. e \in EvidenceType /\ e.available /\ e.coverage /\ e.scope /\ ~MeetsThreshold(question, e)
  BY HealthyShows
<1>2. \A i \in RecordIds : /\ More(question, record[i], recs[i])
                           /\ \A f \in Fields[question] : record[i][f] \in Values
  BY ContinuationsKnowMore
<1>3. ~\A i \in RecordIds : Knows(record[i], Fields[question])
  BY AllIsRecorded
<1>4. covered \in BOOLEAN
  BY DEF AnswersInv
<1>5. ASSUME question \in CleanStaysFor, e.scope = Evaluate(question, record).scope,
             e.available = Evaluate(question, record).available,
             e.affected = Evaluate(question, record).affected,
             new.affected = Evaluate(question, recs).affected
      PROVE  ~SaysYes(recs)
  <2>1. question \notin {"Q45", "Q66"}
    BY <1>5 DEF CleanStaysFor
  <2>2. ~(e.affected >= 1)
    BY <1>1, <2>1, YesIs
  <2>3. \A i \in RecordIds : Rule(question, record[i], given[i]) \notin {"finding", "untested"}
    BY <1>1, <1>4, <1>5, <2>2, EvaluateIs
  <2>4. \A i \in RecordIds : ~showsThen(i)
    BY <1>2, <1>5, <2>3, CleanStays
  <2>5. ~(new.affected >= 1)
    BY <1>4, <1>5, <2>4, EvaluateIs
  <2>6. QED
    BY <2>1, <2>5, YesIs DEF SaysYes
<1>6. CASE question \in CleanStaysFor \ {"Q39"}
  <2>1. question \in Observed \ {"Q27", "Q29", "Q43", "Q63", "Q96"}
    BY <1>6, Zenon DEF CleanStaysFor, Observed, Gates, ProfileQuestions, AnswersInv
  <2>2. e = Evaluate(question, record) /\ new = Evaluate(question, recs)
    BY <2>1, AsEvaluated
  <2>3. QED
    BY <1>5, <1>6, <2>2
<1>7. CASE question = "Q39"
  BY <1>5, <1>7, HeadingsIs DEF CleanStaysFor
<1>8. CASE question = "Q45"
  <2>1. e = Evaluate("Q45", record)
    BY <1>8, AsEvaluated, Zenon DEF Observed, Gates, ProfileQuestions, AnswersInv
  <2>2. \A i \in RecordIds : Rule("Q45", record[i], given[i]) # "untested"
    BY <1>1, <1>4, <2>1, EvaluateIs
  <2>3. \A i \in RecordIds : Knows(record[i], Fields["Q45"])
    BY <2>2, Zenon DEF Rule, LocaleSiblingLinks, Controlled, Knows, Fields
  <2>4. QED
    BY <1>3, <1>8, <2>3
<1>9. CASE question = "Q63"
  <2>1. \A i \in RecordIds : /\ Knows(record[i], {"unlisted", "unstapled"})
                             /\ Rule("Q63", record[i], given[i]) # "untested"
    BY <1>1, <1>4, <1>9, HstsIs, EvaluateIs
  <2>2. \A i \in RecordIds : Knows(record[i], Fields["Q63"])
    BY <2>1, Zenon DEF Rule, HstsOcsp, Knows, Fields
  <2>3. QED
    BY <1>3, <1>9, <2>2
<1>10. CASE question = "Q96"
  <2>1. \A i \in RecordIds : Rule("Q96", record[i], given[i]) # "untested"
    BY <1>1, <1>4, <1>10, CrawlersIs, EvaluateIs
  <2>2. \A i \in RecordIds : Knows(record[i], Fields["Q96"])
    BY <2>1, Zenon DEF Rule, AiCrawlerPolicy, Knows, Fields
  <2>3. QED
    BY <1>3, <1>10, <2>2
<1>11. CASE question = "Q43"
  <2>1. \A i \in RecordIds : record[i].links # "unknown"
    BY <1>1, <1>11, SitewideIs
  <2>2. \A i \in RecordIds : Knows(record[i], Fields["Q43"])
    BY <2>1, Zenon DEF Knows, Fields
  <2>3. QED
    BY <1>3, <1>11, <2>2
<1>12. CASE question = "Q88"
  <2>1. \A i \in RecordIds : record[i].slow # "unknown"
    BY <1>1, <1>12, DistributionIs
  <2>2. \A i \in RecordIds : Knows(record[i], Fields["Q88"])
    BY <2>1, Zenon DEF Knows, Fields
  <2>3. QED
    BY <1>3, <1>12, <2>2
<1>13. CASE question = "Q81"
  <2>1. \A i \in RecordIds : record[i].limited # "unknown" /\ record[i].slowed # "unknown"
    BY <1>1, <1>13, RateGateIs
  <2>2. \A i \in RecordIds : Knows(record[i], Fields["Q81"])
    BY <2>1, Zenon DEF Knows, Fields
  <2>3. QED
    BY <1>3, <1>13, <2>2
<1>14. CASE question \in {"Q20", "Q36", "Q37", "Q91"}
  <2>1. question \in ProfileQuestions /\ question \notin {"Q45", "Q66"}
    BY <1>14 DEF ProfileQuestions
  <2>2. ~(e.affected >= 1)
    BY <1>1, <2>1, YesIs
  <2>3. \A i \in RecordIds : /\ ~ProfileReasons(question, record[i], given[i])
                             /\ ~showsNow(i)
    BY <1>1, <2>1, <2>2, ProfileIs
  <2>4. \A i \in RecordIds : ~showsThen(i)
    BY <1>2, <1>14, <2>3, ProfileStays
  <2>5. ~(new.affected >= 1)
    BY <2>1, <2>4, ProfileIs
  <2>6. QED
    BY <2>1, <2>5, YesIs DEF SaysYes
<1>15. CASE question = "Q22"
  <2>1. ~(e.affected >= 1)
    BY <1>1, <1>15, YesIs
  <2>2. ~(new.affected >= 1)
    BY <1>15, <2>1, CheckIs
  <2>3. QED
    BY <1>15, <2>2, YesIs DEF SaysYes
<1>16. QED
  BY <1>6, <1>7, <1>8, <1>9, <1>10, <1>11, <1>12, <1>13, <1>14, <1>15
     DEF AnswersInv, Question, Fields, CleanStaysFor, PassesOverGaps

\* A host whose answers were all read stays open.
LEMMA HostStaysOpen ==
  ASSUME NEW r, NEW s, More("Q27", r, s), HostExposure(r) = "finding", Knows(r, {"html", "noindex"})
  PROVE  HostExposure(s) = "finding"
  BY Zenon DEF More, HostExposure, Fields, Knows, Found

LEMMA IssueHolds ==
  ASSUME AnswersAssumption, AnswersInv
  PROVE  IssueIsProved
<1> SUFFICES ASSUME question \notin CountsGaps, Status(record) = "Issue", NEW recs \in Continuations
             PROVE  SaysYes(recs)
  BY DEF IssueIsProved, StaysIssue
<1> DEFINE e == Evidence(question, record)
           new == Evidence(question, recs)
           showsNow(i) == Rule(question, record[i], given[i]) = "finding"
           showsThen(i) == Rule(question, recs[i], given[i]) = "finding"
<1>1. /\ e \in EvidenceType /\ e.available /\ e.coverage /\ ~e.review /\ e.affected >= 1
      /\ question \notin Heuristic
  BY IssueShows
<1>2. \A i \in RecordIds : More(question, record[i], recs[i])
  BY ContinuationsKnowMore
<1>3. ~\A i \in RecordIds : Knows(record[i], Fields[question])
  BY AllIsRecorded
<1>4. covered \in BOOLEAN /\ question \notin {"Q45", "Q66"}
  BY DEF AnswersInv, CountsGaps
<1>5. SUFFICES new.affected >= 1
  BY <1>4, YesIs DEF SaysYes
<1>6. ASSUME question \in FindingStaysFor, \E i \in RecordIds : showsNow(i)
      PROVE  \E i \in RecordIds : showsThen(i)
  BY <1>2, <1>6, FindingStays
<1>7. ASSUME question \in FindingStaysFor, e.affected = Evaluate(question, record).affected,
             new.affected = Evaluate(question, recs).affected
      PROVE  new.affected >= 1
  <2>1. \E i \in RecordIds : showsNow(i)
    BY <1>1, <1>4, <1>7, EvaluateIs
  <2>2. \E i \in RecordIds : showsThen(i)
    BY <1>6, <1>7, <2>1
  <2>3. QED
    BY <1>4, <1>7, <2>2, EvaluateIs
<1>8. CASE question \in FindingStaysFor \ ({"Q39", "Q63", "Q96"} \cup ProfileQuestions)
  <2>1. question \in Observed \ {"Q27", "Q29", "Q43", "Q63", "Q96"}
    BY <1>8, Zenon DEF FindingStaysFor, Observed, Gates, AnswersInv
  <2>2. e = Evaluate(question, record) /\ new = Evaluate(question, recs)
    BY <2>1, AsEvaluated
  <2>3. QED
    BY <1>7, <1>8, <2>2
<1>9. CASE question = "Q39"
  BY <1>7, <1>9, HeadingsIs DEF FindingStaysFor
<1>10. CASE question = "Q63"
  BY <1>7, <1>10, HstsIs DEF FindingStaysFor
<1>11. CASE question = "Q96"
  <2>1. e.affected = Evaluate("Q96", record).affected
    BY <1>1, <1>11, CrawlersIs
  <2>2. PICK i \in RecordIds : Rule("Q96", record[i], given[i]) = "finding"
    BY <1>1, <1>4, <2>1, EvaluateIs
  <2>3. given[i].declared # "no"
    BY <2>2, Zenon DEF Rule, AiCrawlerPolicy
  <2>4. new.affected = Evaluate("Q96", recs).affected
    BY <1>11, <2>3, CrawlersIs
  <2>5. QED
    BY <1>7, <1>11, <2>1, <2>4 DEF FindingStaysFor
<1>12. CASE question \in ProfileQuestions
  <2>1. question \in FindingStaysFor
    BY <1>12 DEF ProfileQuestions, FindingStaysFor
  <2>2. \E i \in RecordIds : showsNow(i)
    BY <1>1, <1>12, ProfileIs
  <2>3. \E i \in RecordIds : showsThen(i)
    BY <1>6, <2>1, <2>2
  <2>4. QED
    BY <1>12, <2>3, ProfileIs
<1>13. CASE question = "Q22"
  BY <1>1, <1>13, CheckIs
<1>14. CASE question = "Q88"
  <2>1. \A i \in RecordIds : record[i].slow # "unknown"
    BY <1>1, <1>14, DistributionIs
  <2>2. \A i \in RecordIds : Knows(record[i], Fields["Q88"])
    BY <2>1, Zenon DEF Knows, Fields
  <2>3. QED
    BY <1>3, <1>14, <2>2
<1>15. CASE question = "Q27"
  <2>1. /\ e.affected = Evaluate("Q27", record).affected
        /\ new.affected = Evaluate("Q27", recs).affected
        /\ \A i \in RecordIds : HostExposure(record[i]) = "finding" =>
              Knows(record[i], {"html", "noindex"})
    BY <1>1, <1>15, HostsIs
  <2>2. \A r, g : Rule("Q27", r, g) = HostExposure(r)
    BY Zenon DEF Rule
  <2>3. PICK i \in RecordIds : HostExposure(record[i]) = "finding"
    BY <1>1, <1>4, <2>1, <2>2, EvaluateIs
  <2>4. HostExposure(recs[i]) = "finding"
    BY <1>2, <1>15, <2>1, <2>3, HostStaysOpen
  <2>5. QED
    BY <1>4, <2>1, <2>2, <2>4, EvaluateIs
<1>16. CASE question = "Q26"
  <2>1. ASSUME NEW i \in RecordIds, record[i].unparsed = "yes"
        PROVE  recs[i].unparsed = "yes"
    BY <1>2, <1>16, <2>1, Zenon DEF More, Fields
  <2>2. QED
    BY <1>1, <1>16, <2>1, RunGateIs
<1>17. CASE question = "Q81"
  <2>1. \A i \in RecordIds : record[i].limited # "unknown" /\ recs[i].limited # "unknown"
    <3>1. \A i \in RecordIds : record[i].limited # "unknown"
      BY <1>1, <1>17, RateGateIs
    <3>2. QED
      BY <1>2, <1>17, <3>1, Zenon DEF More, Fields
  <2>2. ASSUME NEW i \in RecordIds, Shows(record[i], {"limited", "slowed"})
        PROVE  Shows(recs[i], {"limited", "slowed"})
    BY <1>2, <1>17, <2>2, Zenon DEF More, Fields, Shows
  <2>3. \E i \in RecordIds : Shows(record[i], {"limited", "slowed"})
    BY <1>1, <1>17, RateGateIs
  <2>4. QED
    BY <1>17, <2>1, <2>2, <2>3, RateGateIs
<1>18. QED
  BY <1>1, <1>8, <1>9, <1>10, <1>11, <1>12, <1>13, <1>14, <1>15, <1>16, <1>17
     DEF AnswersInv, Question, Fields, FindingStaysFor, CountsGaps, Heuristic

--------------------
\* What a confirmed answer says holds whatever is recorded next, for every
\* number of records and every context.
THEOREM AnswersRest ==
  ASSUME AnswersAssumption
  PROVE  AnswersSpec => []AnswersRestOnEvidence
<1>1. ASSUME AnswersInit
      PROVE  AnswersInv
  BY <1>1 DEF AnswersInit, AnswersInv, Values
<1>2. ASSUME AnswersInv, [AnswersNext]_answerVars
      PROVE  AnswersInv'
  <2>1. ASSUME NEW i \in RecordIds, NEW f \in Fields[question], NEW v \in {"no", "yes"},
               Learn(i, f, v)
        PROVE  AnswersInv'
    BY <1>2, <2>1 DEF Learn, AnswersInv, Values
  <2>2. CASE UNCHANGED answerVars
    BY <1>2, <2>2 DEF answerVars, AnswersInv
  <2>3. QED
    BY <1>2, <2>1, <2>2 DEF AnswersNext
<1>3. ASSUME AnswersInv
      PROVE  AnswersRestOnEvidence
  BY <1>3, HealthyHolds, IssueHolds, ConfirmedHasARun DEF AnswersRestOnEvidence
<1>4. QED
  BY <1>1, <1>2, <1>3, PTL DEF AnswersSpec

=============================================================================
