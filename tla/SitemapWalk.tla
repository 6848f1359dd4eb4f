---------------------------- MODULE SitemapWalk -----------------------------
(*
_discover_and_enqueue_sitemaps of crawler_cli/engine.py: the sitemaps
of a run's seeds are fetched level by level, in batches as wide as the
worker limit, down to a depth, and their pages are queued within what
the frontier's limit leaves.

A document with children is an index, any other a list of pages; what
cannot be fetched or parsed is broken.  The site is an input of the
walk and does not change under it.
*)
EXTENDS Integers, FiniteSets, SequencesExt

CONSTANTS Sitemap,
          PagesOf,    \* for each sitemap, the sequence of its page locs
          Sites,      \* the children of each sitemap, for every site considered
          Roots,      \* those of robots.txt and the well-known paths, in order
          InScope,    \* sitemaps and pages that _sitemap_url_reject_reason admits
          MaxDepth,   \* sitemap_max_depth
          MaxUrls,    \* sitemap_max_urls
          Limits,     \* values of the frontier's limit, 0 for none
          Knowns,     \* the rows a frontier may have before the walk
          MaxWorkers

VARIABLES site, broken, limit, known,  \* inputs
          pc,
          level,      \* current_level: <<sitemap, depth>>
          queue,      \* what is left of to_fetch_now
          fetched,
          next,       \* next_level
          pages,      \* all_page_urls
          seenPages,  \* seen_page_urls
          frontier

inputs == <<site, broken, limit, known>>
walkVars == <<inputs, pc, level, queue, fetched, next, pages, seenPages, frontier>>

Unlimited == -1
Lesser(a, b) == IF a < b THEN a ELSE b

\* _remaining_frontier_budget: every row counts, whatever its status.
Remaining(rows) ==
    IF limit = 0 THEN Unlimited
    ELSE IF limit > Cardinality(rows) THEN limit - Cardinality(rows) ELSE 0

PageBudget == Remaining(known)
IsFull(found) == PageBudget # Unlimited /\ Len(found) >= PageBudget

WalkInit ==
    /\ site \in Sites /\ broken \in SUBSET Sitemap
    /\ limit \in Limits /\ known \in Knowns
    /\ pc = "level"
    /\ level = [k \in DOMAIN SelectSeq(Roots, LAMBDA sm : sm \in InScope) |->
                   <<SelectSeq(Roots, LAMBDA sm : sm \in InScope)[k], 0>>]
    /\ queue = <<>> /\ next = <<>> /\ pages = <<>>
    /\ fetched = {} /\ seenPages = {}
    /\ frontier = known

--------------------
\* One document.

\* Mutant: a loc that is listed again is found again.
FindPageAgain(found, loc) ==
    IF loc \notin InScope \/ IsFull(found.pages) THEN found
    ELSE [found EXCEPT !.pages = Append(@, loc), !.seen = @ \cup {loc}]

\* A loc counts once, however many sitemaps list it.
FindPage(found, loc) ==
    IF loc \notin InScope \/ loc \in found.seen THEN found
    ELSE [found EXCEPT !.seen = @ \cup {loc},
                       !.pages = IF IsFull(@) THEN @ ELSE Append(@, loc)]

\* Mutant: the children of an index take the depth of the index.
FindChildFlat(found, child, depth) ==
    IF child \in fetched \/ child \notin InScope THEN found
    ELSE [found EXCEPT !.next = Append(@, <<child, depth>>)]

FindChild(found, child, depth) ==
    IF child \in fetched \/ child \notin InScope THEN found
    ELSE [found EXCEPT !.next = Append(@, <<child, depth + 1>>)]

ReadDocument(found, entry) ==
    LET sm == entry[1]
        listed == SubSeq(PagesOf[sm], 1, Lesser(MaxUrls, Len(PagesOf[sm])))
    IN  IF sm \in broken THEN found
        ELSE IF site[sm] # <<>>
        THEN FoldLeft(LAMBDA f, child : FindChild(f, child, entry[2]), found, site[sm])
        ELSE FoldLeft(FindPage, found, listed)

--------------------
IsDue(entry) == entry[1] \notin fetched /\ entry[2] <= MaxDepth

\* Documents that were fetched or lie too deep are left out.
PlanLevel ==
    /\ pc = "level"
    /\ LET due == IF IsFull(pages) THEN <<>> ELSE SelectSeq(level, IsDue)
       IN  /\ queue' = due
           /\ fetched' = fetched \cup {due[k][1] : k \in DOMAIN due}
           /\ pc' = IF due = <<>> THEN "enqueue" ELSE "batch"
    /\ next' = <<>>
    /\ UNCHANGED <<inputs, level, pages, seenPages, frontier>>

\* gather: a batch is read, in its order, when all of it has been fetched.
FetchBatch ==
    /\ pc = "batch" /\ queue # <<>> /\ ~IsFull(pages)
    /\ \E width \in 1..MaxWorkers :
          LET n == Lesser(width, Len(queue))
              found == FoldLeft(ReadDocument,
                                [pages |-> pages, seen |-> seenPages, next |-> next],
                                SubSeq(queue, 1, n))
          IN  /\ queue' = SubSeq(queue, n + 1, Len(queue))
              /\ pages' = found.pages /\ seenPages' = found.seen /\ next' = found.next
    /\ UNCHANGED <<inputs, pc, level, fetched, frontier>>

EndLevel ==
    /\ pc = "batch" /\ (queue = <<>> \/ IsFull(pages))
    /\ level' = next /\ queue' = <<>>
    /\ pc' = "level"
    /\ UNCHANGED <<inputs, fetched, next, pages, seenPages, frontier>>

\* The pages the limit leaves room for; enqueue_frontier ignores known ones.
Enqueued(rows) ==
    rows \cup {pages[k] : k \in 1..(IF limit = 0 THEN Len(pages)
                                    ELSE Lesser(Remaining(rows), Len(pages)))}

EnqueuePages ==
    /\ pc = "enqueue"
    /\ frontier' = Enqueued(frontier)
    /\ pc' = "done"
    /\ UNCHANGED <<inputs, level, queue, fetched, next, pages, seenPages>>

WalkNext == PlanLevel \/ FetchBatch \/ EndLevel \/ EnqueuePages

WalkSpec == WalkInit /\ [][WalkNext]_walkVars

--------------------
Page == UNION {ToSet(PagesOf[sm]) : sm \in Sitemap}

\* What the walk should find: the sitemaps at most so many steps from a root
\* through documents that can be read, and the pages they list.
Within[n \in Nat] ==
    IF n = 0 THEN ToSet(Roots) \cap InScope
    ELSE Within[n - 1] \cup (UNION {ToSet(site[sm]) : sm \in Within[n - 1] \ broken}
                             \cap InScope)

Lists == {sm \in Within[MaxDepth] \ broken : site[sm] = <<>>}
ListedPages ==
    UNION {ToSet(SubSeq(PagesOf[sm], 1, Lesser(MaxUrls, Len(PagesOf[sm])))) : sm \in Lists}
    \cap InScope

\* Without a limit the walk finds exactly the pages of the sitemaps within its
\* depth, whatever cycles, duplicates and shortcuts their indexes have and
\* however the levels are cut into batches.  With a limit it never goes past
\* it, and uses it up if there are pages for it; only pages that were known
\* before take the place of new ones.
WalkIsExact ==
    pc = "done" =>
        IF limit = 0 THEN frontier = known \cup ListedPages
        ELSE /\ frontier \subseteq known \cup ListedPages
             /\ Cardinality(frontier \ known) <= PageBudget
             /\ known \cap ListedPages = {} =>
                   Cardinality(frontier \ known) = Lesser(PageBudget, Cardinality(ListedPages))

=============================================================================
