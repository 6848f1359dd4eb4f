---------------------------- MODULE RenderParity ----------------------------
(*
compare-renders: the sample is chosen from a stored run's snapshots or
from the given URLs, each page of it is loaded in the browser, at most
two at a time, and what the server sent is compared with the document
its scripts made of it (compare_renders.py and __main__.py).
A document is what the comparison reads of it.  The configured waits
are assumed to outlast the scripts unless they time out.
*)
EXTENDS Integers, Sequences, SequencesExt, FiniteSets

CONSTANTS Url,      \* 1..n, in the order of their text
          Stratum,  \* 1..n, in the order of their labels
          Link,
          Pages,    \* the pages a URL may have
          MaxPages  \* --max-pages

\* The fields compared, with the weight of a difference.
Weight == [title |-> "medium", meta_description |-> "low", canonical |-> "high", html_lang |-> "low",
           meta_robots |-> "high", hreflang |-> "medium", h1 |-> "low", structured_data |-> "medium"]
Field == DOMAIN Weight

\* "malformed" has a port that is no number.
Value == {"a", "b", "malformed"}
\* extract_main_text: how many words, what they say (texts of one matter are
\* similar: a ratio of 0.7 or more), and which extractor found them.
NoText == [words |-> 0, matter |-> "none", method |-> "none"]
Text == {NoText} \cup [words : Nat, matter : {"a", "b"}, method : {"trafilatura", "fallback"}]
Rendering == [field : [Field -> Value], links : SUBSET Link, text : Text]

RenderAssumption ==
    /\ MaxPages \in Nat \ {0} /\ IsFiniteSet(Url) /\ Url \subseteq Nat
    /\ IsFiniteSet(Stratum) /\ Stratum # {} /\ Stratum = 1..Cardinality(Stratum)
    /\ Pages \subseteq [raw : Rendering, dom : Rendering, conflict : BOOLEAN]

VARIABLES from,      \* "run" or "urls": where the sample is taken from
          page,      \* URL -> [raw, dom : Rendering, conflict : BOOLEAN]
          stratum,   \* URL -> its label or computed path stratum
          candidates,\* URLs to choose from
          selected,  \* URLs chosen, in order
          position,  \* stratum -> how many of it were chosen
          cursor,    \* the stratum to take from next
          slots,     \* --render-concurrency: 1 or 2
          capture,   \* URL -> what the browser gave for it
          verdict,   \* URL -> the comparison made of it
          outcome    \* "selecting", "comparing", "written", "stored", "not_stored", "raised"

renderVars == <<from, page, stratum, candidates, selected, position, cursor, slots, capture, verdict, outcome>>

Waiting == [state |-> "waiting"]
Loading == [state |-> "loading"]
Unavailable == [state |-> "unavailable"]
NoVerdict == [state |-> "none"]

\* fetch_render_comparison_candidates: the URLs of a run with the body of a
\* successful, unchallenged answer, whichever these are.
StoredSnapshots == SUBSET Url

RenderInit ==
    /\ from \in {"run", "urls"} /\ slots \in 1..2
    /\ page \in [Url -> Pages] /\ stratum \in [Url -> Stratum]
    /\ candidates \in StoredSnapshots
    /\ from = "urls" => candidates # {}
    /\ selected = <<>> /\ position = [s \in Stratum |-> 0] /\ cursor = 1
    /\ capture = [u \in Url |-> Waiting] /\ verdict = [u \in Url |-> NoVerdict]
    /\ outcome = "selecting"

--------------------
\* _select_run_render_candidates
Bucket(s) == {u \in candidates : stratum[u] = s}

Left(s) == position[s] < Cardinality(Bucket(s))

\* The URL at a position of the sorted bucket.
IsAt(u, s, i) == u \in Bucket(s) /\ Cardinality({v \in Bucket(s) : v < u}) = i

SampleIsFull == Len(selected) = MaxPages \/ \A s \in Stratum : ~Left(s)

NextStratum == IF cursor = Cardinality(Stratum) THEN 1 ELSE cursor + 1

StayOnStratum == IF Left(cursor) /\ position[cursor] + 1 < Cardinality(Bucket(cursor)) THEN cursor ELSE NextStratum

AfterTaking == NextStratum

\* One stratum's turn in the round.
TakeFromStratum ==
    /\ outcome = "selecting" /\ from = "run" /\ ~SampleIsFull
    /\ IF Left(cursor)
       THEN /\ \E u \in Url : IsAt(u, cursor, position[cursor]) /\ selected' = Append(selected, u)
            /\ position' = [position EXCEPT ![cursor] = @ + 1]
       ELSE UNCHANGED <<selected, position>>
    /\ cursor' = AfterTaking
    /\ UNCHANGED <<from, page, stratum, candidates, slots, capture, verdict, outcome>>

AtMost(n) == IF n < MaxPages THEN n ELSE MaxPages

\* The first of the given URLs, in the order in which they were given.
FirstGiven == {s \in [1..AtMost(Cardinality(candidates)) -> candidates] : IsInjective(s)}

\* The sample of a run is complete, or the given URLs are cut to it.
StartComparing ==
    /\ outcome = "selecting"
    /\ from = "run" => SampleIsFull
    /\ selected' \in (IF from = "run" THEN {selected} ELSE FirstGiven)
    /\ outcome' = "comparing"
    /\ UNCHANGED <<from, page, stratum, candidates, position, cursor, slots, capture, verdict>>

Sample == Range(selected)

--------------------
\* compare_rendered_sample: the semaphore lets one more page load.
LoadPage(u) ==
    /\ outcome = "comparing" /\ u \in Sample /\ capture[u] = Waiting
    /\ Cardinality({v \in Sample : capture[v] # Waiting /\ verdict[v] = NoVerdict}) < slots
    /\ capture' = [capture EXCEPT ![u] = Loading]
    /\ UNCHANGED <<from, page, stratum, candidates, selected, position, cursor, slots, verdict, outcome>>

\* What was read of a response longer than max_response_bytes: here up to its title.
Cut(doc) == [doc EXCEPT !.links = {},
                        !.text = [words |-> 5, matter |-> "a", method |-> "fallback"]]

\* The page answered and its waits ended or timed out; its body may be gone or
\* longer than what is read of it.
Captured(u) ==
    {[state |-> "captured", settled |-> settled, truncated |-> cut, dom |-> dom,
      raw |-> IF cut THEN Cut(page[u].raw) ELSE page[u].raw] :
        settled \in BOOLEAN, cut \in BOOLEAN, dom \in {page[u].dom, page[u].raw}}

CapturePage(u) ==
    /\ outcome = "comparing" /\ capture[u] = Loading
    /\ \E c \in Captured(u) :
           /\ c.settled => c.dom = page[u].dom
           /\ capture' = [capture EXCEPT ![u] = c]
    /\ UNCHANGED <<from, page, stratum, candidates, selected, position, cursor, slots, verdict, outcome>>

\* A failed navigation, a refusal, an error answer, or no body to compare.
LosePage(u) ==
    /\ outcome = "comparing" /\ capture[u] = Loading
    /\ capture' = [capture EXCEPT ![u] = Unavailable]
    /\ UNCHANGED <<from, page, stratum, candidates, selected, position, cursor, slots, verdict, outcome>>

--------------------
\* compare_rendered_result
Finding(code, severity) == [code |-> code, severity |-> severity]

FieldFindings(raw, dom) ==
    {Finding(f, Weight[f]) : f \in {g \in Field : raw.field[g] # dom.field[g]}}

LinkFindings(raw, dom) ==
    {Finding("links_added", "medium") : l \in dom.links \ raw.links}
        \cup {Finding("links_removed", "medium") : l \in raw.links \ dom.links}

\* A text is not held against another that is there not at all, is less than
\* thirty words longer or shorter, or says the like.
Alike(t1, t2) ==
    \/ NoText \in {t1, t2}
    \/ t1.words - t2.words \in -29..29
    \/ t1.matter = t2.matter

\* Mutant: only text that is gone is found.
TextFindingsOfRemoved(raw, dom) ==
    IF Alike(raw.text, dom.text) \/ dom.text.words > raw.text.words THEN {}
    ELSE {Finding("content_removed", "medium")}

TextFindings(raw, dom) ==
    IF Alike(raw.text, dom.text) THEN {}
    ELSE {Finding(IF dom.text.words > raw.text.words THEN "content_added" ELSE "content_removed",
                  IF raw.text.method = "trafilatura" /\ dom.text.method = "trafilatura"
                  THEN "high" ELSE "medium")}

ConflictFindings(u) == IF page[u].conflict THEN {Finding("header_dom_conflict", "high")} ELSE {}

Incomplete == Finding("render_comparison_incomplete", "low")

Inconclusive == [state |-> "inconclusive", findings |-> {Incomplete}, summary |-> "inconclusive"]

NotComparableIgnoringCut(c) == c = Unavailable

NotComparable(c) == c = Unavailable \/ c.truncated

StateAlwaysComplete(c) == "complete"

StateOf(c) == IF c.settled THEN "complete" ELSE "partial"

Compared(u, c) ==
    LET all == FieldFindings(c.raw, c.dom) \cup LinkFindings(c.raw, c.dom)
                   \cup TextFindings(c.raw, c.dom) \cup ConflictFindings(u)
                   \cup (IF StateOf(c) = "partial" THEN {Incomplete} ELSE {})
    IN [state |-> StateOf(c), findings |-> all,
        summary |-> IF StateOf(c) = "partial" THEN "partial"
                    ELSE IF all = {} THEN "equivalent" ELSE "different"]

\* _norm_url raises for a port that is no number.
Raises(c) ==
    c # Unavailable /\ ~c.truncated
        /\ \E doc \in {c.raw, c.dom}, f \in {"canonical", "hreflang"} : doc.field[f] = "malformed"

IsCaptured(u) == capture[u] \notin {Waiting, Loading} /\ verdict[u] = NoVerdict

ComparePage(u) ==
    /\ outcome = "comparing" /\ IsCaptured(u) /\ ~Raises(capture[u])
    /\ verdict' = [verdict EXCEPT ![u] = IF NotComparable(capture[u]) THEN Inconclusive
                                         ELSE Compared(u, capture[u])]
    /\ UNCHANGED <<from, page, stratum, candidates, selected, position, cursor, slots, capture, outcome>>

\* gather passes the exception on; the engine is closed and nothing written.
CompareRaises(u) ==
    /\ outcome = "comparing" /\ IsCaptured(u) /\ Raises(capture[u])
    /\ outcome' = "raised"
    /\ UNCHANGED <<from, page, stratum, candidates, selected, position, cursor, slots, capture, verdict>>

WriteComparison ==
    /\ outcome = "comparing" /\ \A u \in Sample : verdict[u] # NoVerdict
    /\ outcome' = "written"
    /\ UNCHANGED <<from, page, stratum, candidates, selected, position, cursor, slots, capture, verdict>>

\* persist_render_comparison_session, in one transaction, after the output is
\* written; a failure fails the command.
PersistSession ==
    /\ outcome = "written"
    /\ outcome' \in {"stored", "not_stored"}
    /\ UNCHANGED <<from, page, stratum, candidates, selected, position, cursor, slots, capture, verdict>>

RenderNext ==
    \/ PersistSession
    \/ TakeFromStratum \/ StartComparing \/ WriteComparison
    \/ \E u \in Url : LoadPage(u) \/ CapturePage(u) \/ LosePage(u) \/ ComparePage(u) \/ CompareRaises(u)

RenderSpec == RenderInit /\ [][RenderNext]_renderVars

--------------------
\* The exit code: incompleteness comes before a findings gate.
Rank == [high |-> 3, medium |-> 2, low |-> 1, any |-> 0, none |-> 4]

Verdicts == {verdict[u] : u \in Sample}

ExitOf(failOn, failOnIncomplete) ==
    IF outcome = "not_stored" \/ \A v \in Verdicts : v.state = "inconclusive" THEN "failure"
    ELSE IF failOnIncomplete /\ \E v \in Verdicts : v.state # "complete" THEN "failure"
    ELSE IF \E v \in Verdicts : \E f \in v.findings : Rank[f.severity] >= Rank[failOn] THEN "findings"
    ELSE "ok"

--------------------
\* A sampled run is represented: no stratum gives a second page before every
\* stratum that has one left gave as many as it, and the sample is as large as
\* it may be.
SampleIsRepresentative ==
    outcome # "selecting" /\ from = "run" =>
        /\ Len(selected) = AtMost(Cardinality(candidates))
        /\ IsInjective(selected)
        /\ \A s, t \in Stratum : Left(t) => position[s] <= position[t] + 1

\* What is called equivalent is of the page as it was sent and as its scripts
\* ended with it, whatever was captured on the way: no field or link differs, as
\* they are normalised, and no text that could be compared is both thirty words
\* longer or shorter and unlike.  Texts of about one length may say different
\* things, and the scripts may write the whole text.
EquivalentIsAlike ==
    \A u \in Url : verdict[u].state # "none" /\ verdict[u].summary = "equivalent" =>
        /\ page[u].raw.field = page[u].dom.field /\ page[u].raw.links = page[u].dom.links
        /\ Alike(page[u].raw.text, page[u].dom.text)

\* A gate set to high that passes a complete sample lets no page by whose
\* canonical or robots directives the scripts change.
GateHoldsBackChanges ==
    outcome \in {"written", "stored", "not_stored"} /\ ExitOf("high", TRUE) = "ok" =>
        \A u \in Sample, f \in {"canonical", "meta_robots"} : page[u].raw.field[f] = page[u].dom.field[f]

\* "equivalent is valid only for a complete comparison with no material
\* findings": text that only the scripts make is such a finding.
EquivalentHasTheText ==
    \A u \in Url : verdict[u].state # "none" /\ verdict[u].summary = "equivalent" =>
        page[u].raw.text = page[u].dom.text

\* Every page of a sample whose comparison has ended has a typed state
\* ("extraction error ... map to the correct typed state").
EveryPageHasAState ==
    outcome \notin {"selecting", "comparing"} => \A u \in Sample : verdict[u] # NoVerdict

=============================================================================
