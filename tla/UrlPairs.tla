------------------------------ MODULE UrlPairs ------------------------------
(*
compare-urls (compare_urls.py and its resolvers in __main__.py): one
pair of a migration's mapping, whose source and target are looked up in
a saved artifact, then in a stored run, then fetched, and the verdict
on the source's redirect.  A URL stands for its normalised form.
*)
EXTENDS Naturals, Sequences, SequencesExt, FiniteSets

CONSTANT Url

Permanent == 301
Temporary == 302
\* What a URL answers with; a redirect names where to.
Answer == [kind : {"page", "error"}] \cup [kind : {"redirect"}, status : {Permanent, Temporary}, to : Url]

Side == {"source", "target"}

VARIABLES site,      \* URL -> its answer
          pair,      \* a row of the mapping
          artifact,  \* URLs that the saved crawl requested
          stored,    \* URLs that the stored run requested
          fetching,  \* --fetch-missing
          at,        \* side -> the resolver to ask next
          found      \* side -> the result for its URL, or none of them

vars == <<site, pair, artifact, stored, fetching, at, found>>

\* Where a request for u ends, over the hops taken so far; following a loop
\* fails.
RECURSIVE Followed(_, _)
Followed(u, hops) ==
    CASE site[u].kind # "redirect" ->
            [final |-> u, status |-> IF site[u].kind = "page" THEN 200 ELSE 404, chain |-> hops]
      [] Len(hops) > Cardinality(Url) -> [final |-> u, status |-> 0, chain |-> <<>>]
      [] OTHER -> Followed(site[u].to, Append(hops, site[u].status))

Crawled(u) ==
    LET end == Followed(u, <<>>)
    IN [requested |-> u, final |-> IF end.status = 0 THEN u ELSE end.final,
        status |-> end.status, chain |-> end.chain]

NoResult == [requested |-> "none"]

PairsInit ==
    /\ site \in [Url -> Answer]
    /\ \A u \in Url : site[u].kind = "redirect" => site[u].to # u
    /\ pair \in [source : Url, target : Url]
    /\ artifact \in SUBSET Url /\ stored \in SUBSET Url /\ fetching \in BOOLEAN
    /\ at = [s \in Side |-> "artifact"]
    /\ found = [s \in Side |-> NoResult]

\* The rows of a stored run: no chain is read, and the final URL of a request
\* has a row of its own.
StoredRows ==
    LET rows == {Crawled(u) : u \in stored}
        finals == {[r EXCEPT !.requested = r.final] : r \in {q \in rows : q.status # 0}}
    IN {[r EXCEPT !.chain = <<>>] : r \in rows \cup finals}

ArtifactRows == {Crawled(u) : u \in artifact}

MatchedAnyUrl(s, rows) ==
    LET own == {r \in rows : r.requested = pair[s]}
    IN IF own # {} THEN own ELSE {r \in rows : r.final = pair[s]}

\* _index: the result requested for the URL; for a target also one that ended
\* there.
Matched(s, rows) ==
    LET own == {r \in rows : r.requested = pair[s]}
    IN IF own # {} \/ s = "source" THEN own ELSE {r \in rows : r.final = pair[s]}

\* One resolver is asked for what the ones before it did not have.
Ask(s, resolver, next, rows) ==
    /\ at[s] = resolver
    /\ at' = [at EXCEPT ![s] = next]
    /\ IF found[s] = NoResult /\ Matched(s, rows) # {}
       THEN \E r \in Matched(s, rows) : found' = [found EXCEPT ![s] = r]
       ELSE UNCHANGED found
    /\ UNCHANGED <<site, pair, artifact, stored, fetching>>

FromArtifact(s) == Ask(s, "artifact", "store", ArtifactRows)
FromStore(s) == Ask(s, "store", "live", StoredRows)
FetchMissing(s) == Ask(s, "live", "done", IF fetching THEN {Crawled(pair[s])} ELSE {})

\* The source side is resolved before the target side is begun.
PairsNext ==
    \E s \in Side :
        /\ s = "target" => at["source"] = "done"
        /\ FromArtifact(s) \/ FromStore(s) \/ FetchMissing(s)

PairsSpec == PairsInit /\ [][PairsNext]_vars

--------------------
\* classify_redirect, in its order of precedence.
Redirected(r) == r.chain # <<>> \/ r.final # r.requested

ErroredOnServer(r) == r.status = 0 \/ r.status >= 500

Errored(r) == r.status = 0 \/ r.status >= 400

ChainVerdict(r) ==
    IF Contains(r.chain, Temporary) THEN "redirect_temporary"
    ELSE IF Len(r.chain) > 1 THEN "redirect_chain" ELSE "redirect_ok"

Verdict ==
    LET r == found["source"]
    IN CASE r = NoResult -> "not_crawled"
         [] Errored(r) -> "error_status"
         [] ~Redirected(r) -> IF pair.source = pair.target THEN "no_redirect_expected" ELSE "no_redirect"
         [] r.final # pair.target -> "redirect_wrong_target"
         [] OTHER -> ChainVerdict(r)

\* rows_failing with --fail-on redirect_mismatch
Fails == Verdict \in {"redirect_wrong_target", "no_redirect", "error_status", "not_crawled"}

Done == \A s \in Side : at[s] = "done"

--------------------
\* A pair that passes the gate was kept by the site: whoever asks for the
\* source ends on a page at the target.
PassingPairIsKept ==
    Done /\ ~Fails =>
        LET end == Followed(pair.source, <<>>) IN end.status = 200 /\ end.final = pair.target

VerdictIsTrue ==
    Done =>
        LET end == Followed(pair.source, <<>>)
        IN /\ Verdict = "redirect_ok" => end.chain = <<Permanent>> /\ end.final = pair.target
           /\ Verdict = "redirect_temporary" => Contains(end.chain, Temporary)

\* Of what was saved as an artifact or fetched: "redirect_ok" is said of one
\* permanent redirect to the target, "temporary" of a chain with such a hop.
VerdictIsOfTheChain == stored = {} => VerdictIsTrue

\* The same of a source that a stored run answers for ("can serve as either
\* side of a compare / compare-urls").
StoredVerdictIsOfTheChain == VerdictIsTrue

=============================================================================
