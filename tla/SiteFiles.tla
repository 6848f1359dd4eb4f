----------------------------- MODULE SiteFiles ------------------------------
(*
collect_current_site_files of crawler_cli/current_site_files.py: the
sitemaps a site has now, from the robots files of the seeds and the
well-known paths, first in first out, within a budget of documents, a
depth and a number of entries; the word `complete` on the result; and
the pages that are requested as a sample of the entries.

A file with children is an index, any other a list of URLs.  What a file
answers is an input; the requests follow one another.  Of what is said
about single entries, duplicates and hosts are kept; dates, protocols
and language codes are left out.
*)
EXTENDS Integers, FiniteSets, SequencesExt

CONSTANTS File,
          FileUrl,      \* the URLs that files list
          Seed,         \* the seed origins, in order
          OriginOf,     \* of each file and URL
          Declared,     \* for each seed, the sitemaps its robots file names
          WellKnown,    \* for each seed, the files at its well-known paths
          Admitted,     \* files and URLs that _sitemap_url_reject_reason admits
          Indexes,      \* the children of each file, for every site considered
          Replies,      \* what each file answers, likewise
          UrlsOf,       \* for each file, the URLs it lists
          Redacted,     \* each URL without the values of its query
          Stratum,      \* of each URL: its crawl state, locale and template
          Budgets,      \* values of max_sitemaps
          DepthLimit,   \* max_depth
          EntryLimit,   \* max_urls
          SampleLimit   \* max_live_samples

\* Robots rules forbid the file, the fetch fails, the status is 404 or another,
\* the parser raises.
Answers == {"read", "refused", "unanswered", "missing", "failing", "malformed"}

SiteAssumption ==
    /\ IsFiniteSet(File) /\ Seed \in Seq(ToSet(Seed))
    /\ Declared \in [ToSet(Seed) -> Seq(File)] /\ WellKnown \in [ToSet(Seed) -> Seq(File)]
    /\ Indexes \subseteq [File -> Seq(File)] /\ Replies \subseteq [File -> Answers]
    /\ UrlsOf \in [File -> Seq(FileUrl)]
    /\ Budgets \subseteq Nat /\ {DepthLimit, EntryLimit, SampleLimit} \subseteq Nat
ASSUME FilesAssumption == SiteAssumption

VARIABLES children, answer, readable, budget,  \* inputs
          step,
          seeds,      \* whose robots file is still to be read
          files,      \* queue: <<file, whether a well-known path, depth>>
          visited,    \* fetched
          parsed,     \* documents whose state is "parsed"
          entries,    \* sitemap_entries: <<file, position>>
          selected,
          samples,    \* live_samples: <<URL, state>>
          joined,     \* _graph_join_urls
          doubtful,   \* validation_candidates: <<type, URL>>
          complete

siteInputs == <<children, answer, readable, budget>>
sampleVars == <<selected, samples, joined, doubtful>>
siteVars == <<siteInputs, step, seeds, files, visited, parsed, entries, sampleVars, complete>>

\* get_rules: without the robots file of its origin nothing is requested.
HasRules(url) == OriginOf[url] \in readable
Answer(f) == IF HasRules(f) THEN answer[f] ELSE "refused"

\* Declared and bare lines first; a well-known path they name is declared.
RootsOf(seed) ==
    [k \in DOMAIN Declared[seed] |-> <<Declared[seed][k], FALSE, 0>>]
    \o [k \in DOMAIN WellKnown[seed] |->
           <<WellKnown[seed][k], WellKnown[seed][k] \notin ToSet(Declared[seed]), 0>>]

FilesInit ==
    /\ children \in Indexes
    /\ answer \in Replies /\ readable \in SUBSET ToSet(Seed) /\ budget \in Budgets
    /\ step = "begin" /\ seeds = Seed /\ files = <<>> /\ visited = {} /\ parsed = {}
    /\ entries = <<>> /\ complete = TRUE
    /\ selected = <<>> /\ samples = <<>> /\ joined = {} /\ doubtful = {}

\* A scope that the run had must be supplied again and be the same; the policy
\* of a portal's connections is not taken over.
BeginOrRefuse ==
    /\ step = "begin"
    /\ \E hadScope, hadPortal \in BOOLEAN, supplied \in {"none", "same", "other"} :
          step' = IF hadPortal \/ (hadScope /\ supplied # "same") THEN "refused" ELSE "roots"
    /\ UNCHANGED <<siteInputs, seeds, files, visited, parsed, entries, sampleVars, complete>>

--------------------
First(list, n) == SubSeq(list, 1, IF n < Len(list) THEN n ELSE Len(list))

\* A seed whose robots file cannot be had gives no roots.
AskSeed ==
    /\ step = "roots" /\ seeds # <<>>
    /\ seeds' = Tail(seeds)
    /\ files' = IF Head(seeds) \in readable THEN files \o RootsOf(Head(seeds)) ELSE files
    /\ UNCHANGED <<siteInputs, step, visited, parsed, entries, sampleVars, complete>>

CutRoots ==
    /\ step = "roots" /\ seeds = <<>>
    /\ files' = First(files, budget)
    /\ complete' = (Len(files) <= budget)
    /\ step' = "walk"
    /\ UNCHANGED <<siteInputs, seeds, visited, parsed, entries, sampleVars>>

PopFile == step = "walk" /\ files # <<>> /\ files' = Tail(files)

\* A file is visited once, and at most so many are.
PassBy ==
    /\ PopFile /\ (Head(files)[1] \in visited \/ Cardinality(visited) >= budget)
    /\ complete' = (complete /\ Head(files)[1] \in visited)
    /\ UNCHANGED <<siteInputs, step, seeds, visited, parsed, entries, sampleVars>>

Visits(f) == f \notin visited /\ Cardinality(visited) < budget /\ visited' = visited \cup {f}

\* A file out of scope is not missed.
Reject ==
    /\ PopFile /\ Visits(Head(files)[1]) /\ Head(files)[1] \notin Admitted
    /\ UNCHANGED <<siteInputs, step, seeds, parsed, entries, sampleVars, complete>>

\* Mutant: a sitemap that was declared may be missing too.
IsExcused(f, guessed) == Answer(f) = "missing"

\* Nothing to read; only at a well-known path is that as good as an answer.
IsGuessedInVain(f, guessed) == Answer(f) = "missing" /\ guessed

Miss ==
    LET f == Head(files)[1]
    IN  /\ PopFile /\ Visits(f) /\ f \in Admitted /\ Answer(f) # "read"
        /\ complete' = (complete /\ IsGuessedInVain(f, Head(files)[2]))
        /\ UNCHANGED <<siteInputs, step, seeds, parsed, entries, sampleVars>>

\* An index queues the children the budget has room for, counting what is
\* queued already, and none below the depth.
ReadIndex ==
    LET f == Head(files)[1]  depth == Head(files)[3]
        room == budget - Cardinality(visited') - Len(Tail(files))
        taken == IF depth >= DepthLimit THEN <<>>
                 ELSE First(children[f], IF room > 0 THEN room ELSE 0)
    IN  /\ step = "walk" /\ files # <<>>
        /\ Visits(f) /\ f \in Admitted /\ Answer(f) = "read" /\ children[f] # <<>>
        /\ files' = Tail(files) \o [k \in DOMAIN taken |-> <<taken[k], FALSE, depth + 1>>]
        /\ parsed' = parsed \cup {f}
        /\ complete' = (complete /\ taken = children[f])
        /\ UNCHANGED <<siteInputs, step, seeds, entries, sampleVars>>

EntriesOf(f) == [k \in DOMAIN UrlsOf[f] |-> <<f, k>>]

ReadList ==
    LET f == Head(files)[1]
        taken == First(EntriesOf(f), EntryLimit - Len(entries))
    IN  /\ PopFile /\ Visits(f) /\ f \in Admitted /\ Answer(f) = "read" /\ children[f] = <<>>
        /\ entries' = entries \o taken
        /\ parsed' = parsed \cup {f}
        /\ complete' = (complete /\ taken = EntriesOf(f))
        /\ UNCHANGED <<siteInputs, step, seeds, sampleVars>>

EndWalk ==
    /\ step = "walk" /\ files = <<>>
    /\ step' = "select"
    /\ UNCHANGED <<siteInputs, seeds, files, visited, parsed, entries, sampleVars, complete>>

--------------------
\* The live samples.

UrlAt(k) == UrlsOf[entries[k][1]][entries[k][2]]

\* _raw_url_for_redacted: the first entry's URL that reads the same once redacted.
RawUrlFor(k) ==
    UrlAt(CHOOSE j \in DOMAIN entries :
              /\ Redacted[UrlAt(j)] = Redacted[UrlAt(k)]
              /\ \A i \in 1..(j - 1) : Redacted[UrlAt(i)] # Redacted[UrlAt(k)])

InScope == {k \in DOMAIN entries : UrlAt(k) \in Admitted}
Candidates == {RawUrlFor(k) : k \in InScope}
Rank(u) == CHOOSE k \in InScope : RawUrlFor(k) = u /\ \A j \in InScope : RawUrlFor(j) = u => k <= j

TakenOf(stratum) == Cardinality({k \in DOMAIN selected : Stratum[selected[k]] = stratum})

\* Mutant: the next of the first stratum, until there is none.
IsNextOfFirst(u, v) ==
    Stratum[u] < Stratum[v] \/ (Stratum[u] = Stratum[v] /\ Rank(u) <= Rank(v))

\* Round robin: of the strata with a candidate, the first with the fewest taken.
IsNextSample(u, v) ==
    LET one == TakenOf(Stratum[u])  other == TakenOf(Stratum[v])
    IN  \/ one < other
        \/ one = other /\ Stratum[u] < Stratum[v]
        \/ Stratum[u] = Stratum[v] /\ Rank(u) <= Rank(v)

CanSelect == SampleLimit > Len(selected) /\ Candidates \ ToSet(selected) # {}

SelectSample ==
    /\ step = "select" /\ CanSelect
    /\ \E u \in Candidates \ ToSet(selected) :
          /\ \A v \in Candidates \ ToSet(selected) : IsNextSample(u, v)
          /\ selected' = Append(selected, u)
    /\ UNCHANGED <<siteInputs, step, seeds, files, visited, parsed, entries, samples, joined,
                   doubtful, complete>>

RequestSample ==
    /\ step = "select" /\ ~CanSelect /\ Len(samples) < Len(selected)
    /\ LET u == selected[Len(samples) + 1]
       IN  \E state \in IF HasRules(u) THEN {"disallowed", "unavailable", "fetched"}
                        ELSE {"no rules"} :
              samples' = Append(samples, <<u, state>>)
    /\ UNCHANGED <<siteInputs, step, seeds, files, visited, parsed, entries, selected, joined,
                   doubtful, complete>>

--------------------
Doubts ==
    {<<"duplicate", UrlAt(k)>> : k \in {i \in DOMAIN entries :
                                          \E j \in DOMAIN entries \ {i} : UrlAt(j) = UrlAt(i)}}
    \cup {<<"host", UrlAt(k)>> : k \in {i \in DOMAIN entries :
                                          OriginOf[UrlAt(i)] # OriginOf[entries[i][1]]}}

\* A full list of entries may be a cut one.
Conclude ==
    /\ step = "select" /\ ~CanSelect /\ Len(samples) = Len(selected)
    /\ complete' = (complete /\ Len(entries) < EntryLimit)
    /\ joined' = {UrlAt(k) : k \in InScope}
    /\ doubtful' = Doubts
    /\ step' = "told"
    /\ UNCHANGED <<siteInputs, seeds, files, visited, parsed, entries, selected, samples>>

FilesNext ==
    \/ BeginOrRefuse \/ AskSeed \/ CutRoots
    \/ PassBy \/ Reject \/ Miss \/ ReadIndex \/ ReadList \/ EndWalk
    \/ SelectSample \/ RequestSample \/ Conclude

FilesSpec == FilesInit /\ [][FilesNext]_siteVars

--------------------
\* The files of the site: the least set with the roots of the seeds that could
\* be asked and the children of every index that is admitted and can be read.
Roots == UNION {ToSet(Declared[seed]) \cup ToSet(WellKnown[seed]) : seed \in readable}
IsClosed(found) ==
    /\ Roots \subseteq found
    /\ \A f \in found \cap Admitted : Answer(f) = "read" => ToSet(children[f]) \subseteq found
TheSite == {f \in File : \A found \in SUBSET File : IsClosed(found) => f \in found}

\* What need not be there: the well-known paths.
Optional == UNION {ToSet(WellKnown[seed]) : seed \in readable}

Lists == {f \in parsed : children[f] = <<>>}

\* What is called complete is: every admitted file of the site, at whatever
\* depth, was read, or is a missing well-known one, each of their entries is in
\* the report once, and the graph is joined with every admitted URL they list.
\* Whatever the answers, the budgets hold and only files of the site are read.
CompleteIsComplete ==
    /\ Cardinality(visited) <= budget /\ Len(entries) <= EntryLimit
    /\ parsed \subseteq TheSite \cap Admitted
    /\ step = "told" /\ complete =>
          /\ \A f \in TheSite \cap Admitted :
                f \in parsed \/ (Answer(f) = "missing" /\ f \in Optional)
          /\ ToSet(entries) = UNION {ToSet(EntriesOf(f)) : f \in Lists}
          /\ IsInjective(entries)
          /\ joined = {u \in Admitted : \E f \in Lists : u \in ToSet(UrlsOf[f])}

\* No page is requested twice, nor without the rules of its origin; the sample is
\* as large as it may be, and no stratum is two ahead of one with pages left.
SamplesAreSpread ==
    /\ IsInjective(selected)
    /\ \A k \in DOMAIN samples : samples[k][2] # "no rules" => HasRules(samples[k][1])
    /\ step = "told" =>
          /\ Len(selected) = SampleLimit \/ ToSet(selected) = Candidates
          /\ \A u \in Candidates \ ToSet(selected), v \in ToSet(selected) :
                TakenOf(Stratum[v]) <= TakenOf(Stratum[u]) + 1

\* A page is requested as a sample only if it is admitted.
SamplesAreAdmitted == ToSet(selected) \subseteq Admitted

=============================================================================
