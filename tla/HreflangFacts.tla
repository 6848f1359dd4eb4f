---------------------------- MODULE HreflangFacts ----------------------------
(*
The hreflang facts of an audit: the pages and sitemap edges of a run as
the store keeps them (persistence.py), read by
CrawlReports.hreflang_validation (reports.py) and judged page by page
by iter_hreflang_facts (hreflang_audit.py).  URLs are numbers in their
ORDER BY; Norm is normalise_url.
*)
EXTENDS Integers, FiniteSets

CONSTANTS Url, Norm,     \* URL -> its normalised form
          Folder,        \* URL -> the language its path starts with, or "none"
          Answers,       \* URL -> what a fetch of it may leave
          SitemapEdges,  \* <<URL, alternate>> pairs that the sitemap may carry
          MaxHtml        \* max_html_hreflangs

Absent == 0

HreflangAssumption ==
    /\ IsFiniteSet(Url) /\ Url \subseteq Nat \ {Absent} /\ MaxHtml \in Nat
    /\ SitemapEdges \subseteq Url \X Url
    /\ \A u \in Url : Answers[u] \subseteq
         [kind : {"page", "redirect", "other"}, ok : BOOLEAN, indexable : BOOLEAN, canonical : Url \cup {Absent},
          lang : STRING, heads : SUBSET [to : Url, lang : STRING, source : {"html_head", "http_header"}]]
    /\ \A u \in Url : \A a \in Answers[u] : IsFiniteSet(a.heads)

VARIABLES page,     \* URL -> its snapshot, Unfetched without one
          sitemap,  \* rows of hreflang_sitemap
          rows,     \* pages that the report has read
          todo,     \* those not judged yet
          facts, at

hreflangVars == <<page, sitemap, rows, todo, facts, at>>

Unfetched == [kind |-> "none", ok |-> FALSE, indexable |-> FALSE, canonical |-> Absent, lang |-> "none", heads |-> {}]

HreflangInit ==
    /\ page = [u \in Url |-> Unfetched] /\ sitemap = {}
    /\ rows = {} /\ todo = {} /\ facts = {} /\ at = "crawl"

--------------------
\* The crawl.

SavePage(u) ==
    /\ at = "crawl" /\ page[u] = Unfetched
    /\ \E a \in Answers[u] : page' = [page EXCEPT ![u] = a]
    /\ UNCHANGED <<sitemap, rows, todo, facts, at>>

\* persist_sitemap_hreflang_bulk: edges of their own, beside the snapshots.
SaveSitemapEdges ==
    /\ at = "crawl" /\ sitemap = {}
    /\ \E e \in (SUBSET SitemapEdges) \ {{}} : sitemap' = e
    /\ UNCHANGED <<page, rows, todo, facts, at>>

--------------------
\* hreflang_validation

\* Only the row that holds a document counts: content_extracted.  The row of a
\* URL that redirected elsewhere holds none.
ReadPages ==
    /\ at = "crawl" /\ at' = "judge"
    /\ rows' = {u \in Url : page[u].kind = "page"}
    /\ todo' = rows'
    /\ UNCHANGED <<page, sitemap, facts>>

\* pages_by_url: of two rows with one normal form the later one is kept.
RowOf(n) == LET same == {u \in rows : Norm[u] = n}
            IN IF same = {} THEN Absent ELSE CHOOSE u \in same : \A v \in same : v <= u

EdgesAsWritten == UNION {{<<u, h.to>> : h \in page[u].heads} : u \in rows}

EdgePairs == UNION {{<<Norm[u], Norm[h.to]>> : h \in page[u].heads} : u \in rows}

Fact(kind, u, target, h) == [kind |-> kind, url |-> u, to |-> h.to, target |-> target, lang |-> h.lang]

NonReciprocal(u, h) == Norm[h.to] # Norm[u] /\ <<Norm[h.to], Norm[u]>> \notin EdgePairs

NoncanonicalAsWritten(t, h) == page[t].canonical # Absent /\ page[t].canonical # h.to

Noncanonical(t, h) == page[t].canonical # Absent /\ Norm[page[t].canonical] # Norm[h.to]

Faults == {"non-reciprocal", "non-200", "noindex", "noncanonical"}

Applies(kind, u, t, h) ==
    \/ kind = "non-reciprocal" /\ NonReciprocal(u, h)
    \/ kind = "non-200" /\ ~page[t].ok
    \/ kind = "noindex" /\ ~page[t].indexable
    \/ kind = "noncanonical" /\ Noncanonical(t, h)

\* A target without a row is not judged.
TargetFacts(u, t, h) ==
    {Fact(kind, u, t, h) : kind \in {k \in Faults : t # Absent /\ Applies(k, u, t, h)}}

AlternateFacts(u) == UNION {TargetFacts(u, RowOf(Norm[h.to]), h) : h \in page[u].heads}

\* A folder counts as a locale only when the run declares its language.
Languages == (UNION {{page[u].lang} \cup {h.lang : h \in page[u].heads} : u \in rows}) \ {"none"}

Declared(u) == ({page[u].lang} \cup {h.lang : h \in {g \in page[u].heads : Norm[g.to] = Norm[u]}}) \ {"none"}

LocaleFacts(u) ==
    {[kind |-> "locale-mismatch", url |-> u, to |-> u, target |-> u, lang |-> l] :
        l \in IF Folder[u] \in Languages THEN Declared(u) \ {Folder[u]} ELSE {}}

HtmlCount(u) == Cardinality({h \in page[u].heads : h.source = "html_head"})

\* No snapshot holds an annotation with the source sitemap.
BloatFacts(u) ==
    IF HtmlCount(u) > MaxHtml
    THEN {[kind |-> "html-bloat-without-sitemap", url |-> u, to |-> u, target |-> u, lang |-> "none"]} ELSE {}

FactsOf(u) == AlternateFacts(u) \cup LocaleFacts(u) \cup BloatFacts(u)

JudgePage ==
    /\ at = "judge" /\ todo # {}
    /\ LET u == CHOOSE v \in todo : \A w \in todo : v <= w
       IN /\ facts' = facts \cup FactsOf(u)
          /\ todo' = todo \ {u}
    /\ UNCHANGED <<page, sitemap, rows, at>>

EndReport ==
    /\ at = "judge" /\ todo = {} /\ at' = "ended"
    /\ UNCHANGED <<page, sitemap, rows, todo, facts>>

HreflangNext == \/ \E u \in Url : SavePage(u)
        \/ SaveSitemapEdges
        \/ ReadPages
        \/ JudgePage
        \/ EndReport

HreflangSpec == HreflangInit /\ [][HreflangNext]_hreflangVars

--------------------
(*
Properties.
*)

\* reciprocity_issues of hreflang_groups.py, the other implementation.
ReciprocityIssues(edges) ==
    {e \in edges : /\ Norm[e[1]] # Norm[e[2]]
                   /\ ~\E b \in edges : Norm[b[1]] = Norm[e[2]] /\ Norm[b[2]] = Norm[e[1]]}

\* The audit and hreflang-groups agree about the annotations without a return
\* link, but for alternates that have no row: these the audit leaves out
\* (hreflang_audit.py:197).
AgreesWithGroups ==
    at = "ended" =>
        {<<f.url, f.to>> : f \in {g \in facts : g.kind = "non-reciprocal"}} =
        {e \in ReciprocityIssues(EdgesAsWritten) : RowOf(Norm[e[2]]) # Absent}

\* Pages that answer 200, may be indexed, are canonical up to their normal
\* form, annotate each other both ways and say one language everywhere give
\* no fact: none of the five rules finds fault where there is none.
SoundClusterIsSilent ==
    /\ at = "ended"
    /\ \A u \in rows : /\ page[u].ok /\ page[u].indexable
                       /\ page[u].canonical # Absent => Norm[page[u].canonical] = Norm[u]
                       /\ Declared(u) \subseteq {Folder[u]} /\ HtmlCount(u) <= MaxHtml
                       /\ \A v \in rows : \E h \in page[u].heads : Norm[h.to] = Norm[v]
    => facts = {}

\* What a fact says of a target is true of the URL that the annotation names,
\* when that URL was fetched: "saved target state invalidates an alternate"
\* (hreflang_audit.py:189).
FactIsOfItsTarget ==
    at = "ended" =>
        \A f \in facts : f.to \in rows =>
            /\ f.kind = "noindex" => ~page[f.to].indexable
            /\ f.kind = "non-200" => ~page[f.to].ok

\* An alternate that was fetched and is no 200 is reported
\* (docs/technical-audit-questions.md:340: a fault is "at a URL that is not 200").
BadTargetsAreReported ==
    at = "ended" =>
        \A u \in rows : \A h \in page[u].heads :
            page[h.to].kind \in {"page", "other"} /\ ~page[h.to].ok =>
                \E f \in facts : f.kind = "non-200" /\ f.url = u /\ f.to = h.to

\* Bloat is only reported of a run without sitemap hreflang evidence
\* (hreflang_audit.py:193).
BloatIsWithoutSitemap ==
    (at = "ended" /\ sitemap # {}) => \A f \in facts : f.kind # "html-bloat-without-sitemap"
=============================================================================
