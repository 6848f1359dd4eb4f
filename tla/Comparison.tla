----------------------------- MODULE Comparison -----------------------------
(*
compare (comparison.py, remap.py) and the loading of its two sides, each
from a saved artifact or from a stored run.

A site is crawled under a host; its pages mention the host, name it in
their canonical URLs and link to it, or to the production host whatever
host they are on.  A text is what its hashes see: the body and the host
in it.  Title, headings, description and word count follow the body.
*)
EXTENDS FiniteSets

CONSTANTS Path, Body,
          LinkSet,    \* the sets of links that a page may have
          Plain,      \* bound: paths whose page neither mentions a host nor links
          Loads       \* bound: how the two sides are loaded

Side == {"baseline", "candidate"}
Host == {"dev", "prod"}
Link == [to : {"own", "prod"}, path : Path, anchor : {"text", "none"}]
Answered == [kind : {"page"}, body : Body, mention : BOOLEAN, links : LinkSet]
Redirect == [kind : {"redirect"}, to : Path]
Failed == [kind : {"failed"}]
Source == [from : {"artifact"}, hashed : BOOLEAN, html : {TRUE}, stamp : {"none", "known", "unknown"}]
             \cup [from : {"store"}, hashed : BOOLEAN, html : BOOLEAN, stamp : {"none"}]

ComparisonAssumption ==
    /\ \A links \in LinkSet : links \subseteq Link
    /\ "none" \notin Body /\ Plain \subseteq Path /\ Loads \subseteq [Side -> Source]

VARIABLES host,      \* side -> the host it was crawled on
          site,      \* side -> path -> what is there
          source,    \* side -> where its results come from, and what they hold
          replace,   \* --replace dev=prod is given
          byPath,    \* side -> path -> its result; <<>> until it is loaded
          outcome,   \* "" until the command ends
          session    \* crawl_comparison_urls: path -> row, of a session that was saved

comparisonVars == <<host, site, source, replace, byPath, outcome, session>>

ComparisonInit ==
    /\ host \in [Side -> Host] /\ host["candidate"] = "prod"
    /\ site \in [Side -> [Path -> Answered \cup Redirect \cup Failed]]
    /\ \A s \in Side, p \in Path :
        /\ site[s][p].kind = "redirect" => site[s][site[s][p].to].kind = "page"
        /\ p \in Plain /\ site[s][p].kind = "page" => ~site[s][p].mention /\ site[s][p].links = {}
    /\ source \in Loads
    /\ replace \in BOOLEAN
    /\ byPath = [s \in Side |-> <<>>] /\ outcome = "" /\ session = <<>>

UrlAt(h, p) == [host |-> h, path |-> p]

\* An anchor of a page, as extract_links resolves it.
Resolved(s, link) ==
    [href |-> UrlAt(IF link.to = "own" THEN host[s] ELSE "prod", link.path), anchor |-> link.anchor]

NoBody == [body |-> "none", mention |-> "none"]
NoUrl == UrlAt("none", "none")

EndOf(s, p) == IF site[s][p].kind = "redirect" THEN site[s][p].to ELSE p

TextAt(s, p) == [body |-> site[s][p].body, mention |-> IF site[s][p].mention THEN host[s] ELSE "none"]

ArtifactLinks(s, p) == {Resolved(s, link) : link \in site[s][p].links}

\* The result of a request that got no page.
NoPage(s, p) ==
    [requested |-> UrlAt(host[s], p), final |-> UrlAt(host[s], p), html |-> FALSE, text |-> NoBody,
     stored |-> NoBody, fields |-> "none", schema |-> "none", canonical |-> NoUrl, links |-> {}]

\* The result of a crawl for one path, as an artifact gives it back.
ArtifactResult(s, p) ==
    LET q == EndOf(s, p)
    IN IF site[s][q].kind = "failed" THEN NoPage(s, p)
       ELSE [requested |-> UrlAt(host[s], p), final |-> UrlAt(host[s], q), html |-> TRUE,
             text |-> TextAt(s, q), stored |-> IF source[s].hashed THEN TextAt(s, q) ELSE NoBody,
             fields |-> site[s][q].body, schema |-> site[s][q].body,
             canonical |-> UrlAt(host[s], q), links |-> ArtifactLinks(s, q)]

\* One object or a line for each result: of an unknown version, none is read.
IsReadable(s) == source[s].stamp # "unknown"
ArtifactResults(s) == {ArtifactResult(s, p) : p \in Path}

\* fetch_pages_for_comparison: no text, no schema items, no links; the row of
\* a URL that redirected holds none of the page's facts.
StoredResult(s, p) ==
    LET r == ArtifactResult(s, p)
        owner == r.requested = r.final
        readable == r.html /\ source[s].html /\ owner
    IN [requested |-> r.requested, final |-> r.final, html |-> readable,
        text |-> IF readable THEN r.text ELSE NoBody,
        stored |-> IF owner THEN r.stored ELSE NoBody,
        fields |-> IF owner THEN r.fields ELSE "none", schema |-> "none",
        canonical |-> IF owner THEN r.canonical ELSE NoUrl, links |-> {}]

Results(s) ==
    IF source[s].from = "artifact" THEN ArtifactResults(s) ELSE {StoredResult(s, p) : p \in Path}
IsNext(s) == outcome = "" /\ byPath[s] = <<>> /\ (s = "candidate" => byPath["baseline"] # <<>>)

\* The results of a side by the path of their final URL: of several, the last
\* one read, and they come in any order.  The baseline is read first.
Load(s) ==
    /\ IsNext(s) /\ IsReadable(s)
    /\ LET results == Results(s)
           paths == {r.final.path : r \in results}
       IN \E chosen \in [paths -> results] :
            /\ \A p \in paths : chosen[p].final.path = p
            /\ byPath' = [byPath EXCEPT ![s] = chosen]
    /\ UNCHANGED <<host, site, source, replace, outcome, session>>

Refuse(s) ==
    /\ IsNext(s) /\ ~IsReadable(s)
    /\ outcome' = "refused"
    /\ UNCHANGED <<host, site, source, replace, byPath, session>>

--------------------
Remapped(h) == IF replace /\ h = "dev" THEN "prod" ELSE h

RemappedText(text) == [body |-> text.body, mention |-> Remapped(text.mention)]

CanRehash(r) == r.html \/ r.text # NoBody

\* _content_hashes: of the remapped content if there is any, else as stored.
ContentHash(r) == IF replace /\ CanRehash(r) THEN RemappedText(r.text) ELSE r.stored

\* The simhash tells a text that names another host from another text.
Distance(a, b) ==
    IF NoBody \in {a, b} THEN "none" ELSE IF a.body = b.body THEN "within" ELSE "beyond"

VerdictOfBase(a, b) ==
    IF a = NoBody THEN "unknown" ELSE IF a = b THEN "identical"
    ELSE IF Distance(a, b) = "within" THEN "near" ELSE "changed"

\* _content_verdict
Verdict(a, b) ==
    IF NoBody \in {a, b} THEN "unknown" ELSE IF a = b THEN "identical"
    ELSE IF Distance(a, b) = "within" THEN "near" ELSE "changed"

CanonicalAsWritten(r) == r.canonical

Canonical(r) == UrlAt(Remapped(r.canonical.host), r.canonical.path)

LinkKeys(r) == {<<Remapped(l.href.host), l.href.path, l.anchor>> : l \in r.links}

ReportedIfBoth(a, b) == replace /\ ~CanRehash(a) /\ ~CanRehash(b)

\* A path goes to remap_fallback_paths.
Fallback(a, b) == replace /\ ~(CanRehash(a) /\ CanRehash(b))

\* compare_deep(one, other), two functions from paths to results.
Diff(one, other) ==
    LET shared == DOMAIN one \cap DOMAIN other
    IN [missing |-> DOMAIN one \ DOMAIN other,
        new |-> DOMAIN other \ DOMAIN one,
        verdicts |-> [p \in shared |-> Verdict(ContentHash(one[p]), ContentHash(other[p]))],
        fallback |-> {p \in shared : Fallback(one[p], other[p])},
        canonicals |-> {p \in shared : Canonical(one[p]) # Canonical(other[p])},
        fields |-> {p \in shared : one[p].fields # other[p].fields},
        schemas |-> {p \in shared : one[p].schema # other[p].schema},
        added |-> [p \in shared |-> LinkKeys(other[p]) \ LinkKeys(one[p])],
        removed |-> [p \in shared |-> LinkKeys(one[p]) \ LinkKeys(other[p])],
        moves |-> {p \in DOMAIN one : one[p].requested # one[p].final}]

Loaded == \A s \in Side : byPath[s] # <<>>

TheDiff == Diff(byPath["baseline"], byPath["candidate"])

Clean(diff) ==
    /\ diff.missing = {} /\ diff.new = {} /\ diff.canonicals = {} /\ diff.fields = {}
    /\ diff.schemas = {} /\ diff.fallback = {}
    /\ \A p \in DOMAIN diff.verdicts :
        diff.verdicts[p] = "identical" /\ diff.added[p] = {} /\ diff.removed[p] = {}

\* Mutant: the move is put with the page it leads to.
MovedTo(p) == p \in TheDiff.moves

--------------------
\* comparison_rows: a row for each path that a result of either side has, and for
\* each that a result of the baseline moved from.  A row has the two values of
\* what changed, and nothing of what did not.
MovedFrom(p) ==
    \E q \in TheDiff.moves : byPath["baseline"][q].requested.path = p

ComparisonRow(p) ==
    LET diff == TheDiff
        isShared == p \in DOMAIN diff.verdicts
    IN [exists |-> {s \in Side : p \in DOMAIN byPath[s]},
        verdict |-> IF isShared THEN diff.verdicts[p] ELSE "missing",
        isMoved |-> MovedFrom(p),
        fields |-> IF p \in diff.fields THEN [s \in Side |-> byPath[s][p].fields]
                   ELSE [s \in Side |-> "none"],
        schema |-> IF p \in diff.schemas THEN [s \in Side |-> byPath[s][p].schema]
                   ELSE [s \in Side |-> "none"]]

RowPaths == (UNION {DOMAIN byPath[s] : s \in Side}) \cup {p \in Path : MovedFrom(p)}

\* The comparison is told, or saved as a session of its own in one transaction.
Tell ==
    /\ Loaded /\ outcome = ""
    /\ \/ outcome' = "told" /\ session' = session
       \/ outcome' = "saved" /\ session' = [p \in RowPaths |-> ComparisonRow(p)]
    /\ UNCHANGED <<host, site, source, replace, byPath>>

ComparisonNext == (\E s \in Side : Load(s) \/ Refuse(s)) \/ Tell

ComparisonSpec == ComparisonInit /\ [][ComparisonNext]_comparisonVars

\* comparison_summary: three views of the session.
UrlMoves == {p \in DOMAIN session : session[p].isMoved}
ContentDifferences ==
    {p \in DOMAIN session : session[p].exists = Side
                            /\ session[p].fields["baseline"] # session[p].fields["candidate"]}
SchemaComparison ==
    {p \in DOMAIN session : session[p].exists = Side
                            /\ session[p].schema["baseline"] # session[p].schema["candidate"]}

--------------------
\* The same site on two hosts, both saved as artifacts: with the replacement
\* given, the comparison finds nothing but the redirects.
CopyIsClean ==
    Loaded /\ replace /\ site["baseline"] = site["candidate"]
        /\ (\A s \in Side : source[s].from = "artifact")
        /\ (\A p \in Path : site["baseline"][p].kind # "failed")
    => Clean(TheDiff)

\* Whichever crawl is called the baseline, the pages that both have get the
\* same verdicts, and what one misses is new in the other.
VerdictsAgree ==
    Loaded =>
        LET diff == TheDiff
            back == Diff(byPath["candidate"], byPath["baseline"])
        IN /\ diff.verdicts = back.verdicts /\ diff.fallback = back.fallback
           /\ diff.missing = back.new /\ diff.new = back.missing

\* The body that a crawl found at a path, whatever of it reached the diff.
BodyAt(s, p) == IF site[s][p].kind = "page" THEN site[s][p].body ELSE "none"

\* "identical" is said of pages of one body, and of nothing that had no hash.
IdenticalIsEqual ==
    Loaded =>
        LET verdicts == TheDiff.verdicts
        IN \A p \in DOMAIN verdicts :
             verdicts[p] = "identical" =>
                /\ \A s \in Side : site[s][p].kind = "page"
                /\ BodyAt("baseline", p) = BodyAt("candidate", p)

\* A difference that is the host's alone is not a verdict, unless the path is
\* among those reported as compared without the replacement.
NoiseIsReported ==
    Loaded /\ replace =>
        LET diff == TheDiff
        IN \A p \in DOMAIN diff.verdicts :
             /\ \A s \in Side : site[s][p].kind = "page"
             /\ BodyAt("baseline", p) = BodyAt("candidate", p)
             /\ site["baseline"][p].mention = site["candidate"][p].mention
             => diff.verdicts[p] = "identical" \/ p \in diff.fallback

\* What a session says later, from its rows alone, is true of the two sites: what
\* moved is a redirect of the baseline, what is missing on a side did not end
\* there, and contents that differ are of two bodies, unless a side's facts were
\* lost on the way through the store.
SessionsAreTrue ==
    /\ outcome = "refused" => session = <<>>
    /\ \A p \in UrlMoves : site["baseline"][p].kind = "redirect"
    /\ \A p \in DOMAIN session : \A s \in Side \ session[p].exists : site[s][p].kind = "redirect"
    /\ \A p \in ContentDifferences \cup SchemaComparison :
          \/ BodyAt("baseline", p) # BodyAt("candidate", p)
          \/ \E s \in Side : source[s].from = "store"

\* "an existing Postgres crawl can serve as either side": one crawl, saved both
\* ways, compares as itself.
StoreServesAsASide ==
    Loaded /\ ~replace /\ host["baseline"] = "prod" /\ site["baseline"] = site["candidate"]
        /\ (\A s \in Side : source[s].hashed) /\ (\A p \in Path : site["baseline"][p].kind = "page")
    => Clean(TheDiff)

\* The changed links of a page are listed in order of address and anchor text:
\* two of one address are in order only if both have a text.
LinksAreSorted ==
    Loaded => \A p \in DOMAIN TheDiff.added : \A keys \in {TheDiff.added[p], TheDiff.removed[p]} :
        \A a, b \in keys : a[1] = b[1] /\ a[2] = b[2] => a = b

=============================================================================
