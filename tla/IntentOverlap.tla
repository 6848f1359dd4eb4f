--------------------------- MODULE IntentOverlap ----------------------------
(*
analyse_embeddings of crawler_cli/intent_overlap.py with UnionFind and
build_groups of hreflang_groups.py: pages whose texts are alike are
paired, clustered by single or complete linkage, given a risk and an
advice, counted, and the command fails or not by the counts.

Of a similarity only its level matters: below the threshold, an overlap
or a duplicate.  The pages are 1..N, shorter URLs first.
*)
EXTENDS Integers, FiniteSets, SequencesExt

CONSTANTS N,
          Corpora  \* records: mode, primary, langSplit, lang, alternates, thin,
                   \* section (0 for none), words, depth and the pairs `below`:
                   \* the path of the first is a prefix of the second's

VARIABLES corpus, level,  \* inputs
          phase,
          groups,       \* the forest of the hreflang alternates
          left,         \* pairs to look at
          suppressed,   \* how many alike pairs were left out as variants
          forest,       \* uf.p
          edges,        \* part_edges of all partitions
          signs,        \* what the pairs of a page showed
          linkage,
          cluster,      \* node_cluster, or the root in the forest; 0 for none
          risk,
          advice,       \* of the page's cluster: why to review it, or the page to keep
          summary,
          exit          \* of --fail-on

overlapVars == <<corpus, level, phase, groups, left, suppressed, forest, edges, signs, linkage,
                 cluster, risk, advice, summary, exit>>

Pg == 1..N
Pair == {e \in Pg \X Pg : e[1] < e[2]}
Signs == {"rich duplicate", "thin duplicate", "timely", "timeless", "timeless duplicate",
          "related duplicate", "unrelated duplicate"}

--------------------
\* Path-halving union-find.

\* Mutant: the path is halved by a step too far.
HalveAway(walk) ==
    IF walk.p[walk.x] = walk.x THEN walk
    ELSE LET up == walk.p[walk.p[walk.x]]
         IN  [p |-> [walk.p EXCEPT ![walk.p[walk.x]] = walk.x], x |-> up]

Halve(walk) ==
    IF walk.p[walk.x] = walk.x THEN walk
    ELSE LET up == walk.p[walk.p[walk.x]]
         IN  [p |-> [walk.p EXCEPT ![walk.x] = up], x |-> up]

Find(p, x) == FoldLeft(LAMBDA walk, k : Halve(walk), [p |-> p, x |-> x], [k \in Pg |-> k])
Root(p, x) == Find(p, x).x

Union(p, e) ==
    LET one == Find(p, e[1])  other == Find(one.p, e[2])
    IN  IF one.x = other.x THEN other.p ELSE [other.p EXCEPT ![other.x] = one.x]

\* build_groups: the pages that hreflang links connect, whatever their order;
\* the group of a page, 0 for a page on its own.
Groups(links) == FoldLeft(Union, [i \in Pg |-> i], links)
GroupIn(p, i) ==
    IF \E j \in Pg \ {i} : Root(p, i) = Root(p, j) THEN Root(p, i) ELSE 0

--------------------
Review(why) == [review |-> why, keep |-> 0]
Keep(i) == [review |-> "", keep |-> i]

OverlapInit ==
    /\ corpus \in Corpora /\ level \in [Pair -> 0..2]
    /\ phase = "group" /\ groups = [i \in Pg |-> i] /\ forest = [i \in Pg |-> i]
    /\ left = {} /\ edges = {} /\ signs = [i \in Pg |-> {}]
    /\ linkage = "single" /\ cluster = [i \in Pg |-> 0] /\ risk = [i \in Pg |-> "none"]
    /\ suppressed = 0 /\ advice = [i \in Pg |-> Review("")] /\ summary = <<>> /\ exit = "none"

\* primary-only: of a group the page in the primary language, or the first.
IsKept(p, i) ==
    corpus.mode = "primary-only" /\ GroupIn(p, i) # 0 =>
        LET members == {j \in Pg : GroupIn(p, j) = GroupIn(p, i)}
            primaries == {j \in members : corpus.lang[j] = corpus.primary}
            ranked == IF primaries # {} THEN primaries ELSE members
        IN  i \in ranked /\ \A j \in ranked : i <= j

\* Pages are compared within their language if that of half of them is known.
IsSplit(kept) ==
    /\ corpus.langSplit
    /\ 2 * Cardinality({i \in kept : corpus.lang[i] # "unknown"}) >= Cardinality(kept)

GroupPages ==
    /\ phase = "group"
    /\ groups' = Groups(corpus.alternates)
    /\ LET kept == {i \in Pg : IsKept(groups', i)}
       IN  left' = {e \in Pair : /\ {e[1], e[2]} \subseteq kept
                                 /\ IsSplit(kept) => corpus.lang[e[1]] = corpus.lang[e[2]]}
    /\ phase' = "scan"
    /\ UNCHANGED <<corpus, level, suppressed, forest, edges, signs, linkage, cluster, risk,
                   advice, summary, exit>>

--------------------
\* One pair.

IsSuppressed(e) ==
    /\ corpus.mode = "suppress"
    /\ GroupIn(groups, e[1]) # 0 /\ GroupIn(groups, e[1]) = GroupIn(groups, e[2])

IsTimely(e) == corpus.section[e[1]] # 0 /\ corpus.section[e[1]] = corpus.section[e[2]]
AreThin(e) == {e[1], e[2]} \subseteq corpus.thin
AreRelated(e) == e \in corpus.below

\* Mutant: one thin page is enough for a pair of thin pages.
SignsIfEitherThin(e) ==
    {IF IsTimely(e) THEN "timely" ELSE "timeless"}
    \cup IF level[e] < 2 THEN {}
         ELSE {IF {e[1], e[2]} \cap corpus.thin # {} THEN "thin duplicate" ELSE "rich duplicate"}
              \cup IF IsTimely(e) THEN {}
                   ELSE {"timeless duplicate",
                         IF AreRelated(e) THEN "related duplicate" ELSE "unrelated duplicate"}

SignsOf(e) ==
    {IF IsTimely(e) THEN "timely" ELSE "timeless"}
    \cup IF level[e] < 2 THEN {}
         ELSE {IF AreThin(e) THEN "thin duplicate" ELSE "rich duplicate"}
              \cup IF IsTimely(e) THEN {}
                   ELSE {"timeless duplicate",
                         IF AreRelated(e) THEN "related duplicate" ELSE "unrelated duplicate"}

\* np.argwhere: by the first page, then by the second.
IsNext(e) ==
    \A f \in left \ {e} : e[1] < f[1] \/ (e[1] = f[1] /\ e[2] < f[2])

ScanPair ==
    /\ phase = "scan"
    /\ \E e \in left :
          /\ IsNext(e)
          /\ left' = left \ {e}
          /\ suppressed' = suppressed + IF level[e] > 0 /\ IsSuppressed(e) THEN 1 ELSE 0
          /\ IF level[e] = 0 \/ IsSuppressed(e) THEN UNCHANGED <<forest, edges, signs>>
             ELSE /\ forest' = Union(forest, e)
                  /\ edges' = edges \cup {e}
                  /\ signs' = [i \in Pg |-> IF i \in {e[1], e[2]} THEN signs[i] \cup SignsOf(e)
                                            ELSE signs[i]]
    /\ UNCHANGED <<corpus, level, phase, groups, linkage, cluster, risk, advice, summary, exit>>

--------------------
\* Clusters.

ClusterSingly ==
    /\ phase = "scan" /\ left = {}
    /\ linkage' = "single" /\ phase' = "rate"
    /\ cluster' = [i \in Pg |-> GroupIn(forest, i)]
    /\ UNCHANGED <<corpus, level, groups, left, suppressed, forest, edges, signs, risk, advice,
                   summary, exit>>

LinkCompletely ==
    /\ phase = "scan" /\ left = {}
    /\ linkage' = "complete" /\ phase' = "link" /\ left' = edges
    /\ UNCHANGED <<corpus, level, groups, suppressed, forest, edges, signs, cluster, risk, advice,
                   summary, exit>>

IsAlike(i, j) == level[IF i < j THEN <<i, j>> ELSE <<j, i>>] > 0

Cluster(i) == IF cluster[i] = 0 THEN {i} ELSE {j \in Pg : cluster[j] = cluster[i]}

\* Mutant: a cluster is joined through the page of the edge alone.
MayJoinByEnds(i, j) == \A k \in Cluster(j) : IsAlike(i, k)

\* All pages of one with all pages of the other, whatever their hreflang group.
MayJoin(i, j) == \A k \in Cluster(i), m \in Cluster(j) : IsAlike(k, m)

\* The edges by falling similarity, so those of a level in any order.  A joined
\* cluster takes the number of the first page's; a new one takes its own.
LinkEdge ==
    /\ phase = "link"
    /\ \E e \in left :
          /\ \A f \in left : level[f] <= level[e]
          /\ left' = left \ {e}
          /\ LET i == e[1]  j == e[2]
                 id == IF cluster[i] # 0 THEN cluster[i]
                       ELSE IF cluster[j] # 0 THEN cluster[j] ELSE i
             IN  cluster' = IF Cluster(i) # Cluster(j) /\ MayJoin(i, j)
                            THEN [k \in Pg |-> IF k \in Cluster(i) \cup Cluster(j) THEN id
                                               ELSE cluster[k]]
                            ELSE cluster
    /\ UNCHANGED <<corpus, level, phase, groups, suppressed, forest, edges, signs, linkage, risk,
                   advice, summary, exit>>

EndLinking ==
    /\ phase = "link" /\ left = {}
    /\ phase' = "rate"
    /\ UNCHANGED <<corpus, level, groups, left, suppressed, forest, edges, signs, linkage, cluster,
                   risk, advice, summary, exit>>

--------------------
RiskOf(s) ==
    CASE "thin duplicate" \in s /\ "rich duplicate" \notin s -> "thin"
      [] "timeless duplicate" \in s ->
            IF "unrelated duplicate" \in s THEN "duplicate" ELSE "parent-child"
      [] "timeless" \in s -> "overlap"
      [] "timely" \in s -> "timely"
      [] OTHER -> "none"

\* Two pages of the cluster are not alike, whatever joined them.
IsChained(c) == \E i, j \in c : i # j /\ ~IsAlike(i, j)

IsOfOneSection(c) == \E i \in c : corpus.section[i] # 0 /\ \A j \in c : corpus.section[j] = corpus.section[i]

\* The most words, then the shortest URL.
Fullest(c) ==
    CHOOSE i \in c : \A j \in c :
        corpus.words[i] > corpus.words[j] \/ (corpus.words[i] = corpus.words[j] /\ i <= j)
\* The fewest path segments, then the shortest URL.
Shallowest(c) ==
    CHOOSE i \in c : \A j \in c :
        corpus.depth[i] < corpus.depth[j] \/ (corpus.depth[i] = corpus.depth[j] /\ i <= j)

EdgesIn(c) == {e \in edges : {e[1], e[2]} \subseteq c}

\* Mutant: the page with the most words is kept, whatever relates the pages.
AdviceByWords(c) ==
    CASE IsChained(c) -> Review("chained")
      [] ~IsChained(c) /\ c \subseteq corpus.thin -> Review("thin")
      [] OTHER -> IF IsOfOneSection(c) THEN Review("timely") ELSE Keep(Fullest(c))

Advice(c) ==
    CASE IsChained(c) -> Review("chained")
      [] ~IsChained(c) /\ c \subseteq corpus.thin -> Review("thin")
      [] OTHER ->
            IF IsOfOneSection(c) THEN Review("timely")
            ELSE IF EdgesIn(c) # {} /\ \A e \in EdgesIn(c) : AreRelated(e) THEN Keep(Shallowest(c))
            ELSE Keep(Fullest(c))

Clusters == {Cluster(i) : i \in {j \in Pg : cluster[j] # 0}}

RatePages ==
    /\ phase = "rate"
    /\ risk' = [i \in Pg |-> RiskOf(signs[i])]
    /\ advice' = [i \in Pg |-> IF cluster[i] = 0 THEN Review("") ELSE Advice(Cluster(i))]
    /\ LET rated(risks) == Cardinality({i \in Pg : risk'[i] \in risks})
       IN  summary' = [duplicates |-> rated({"duplicate", "parent-child"}), thin |-> rated({"thin"}),
                       timely |-> rated({"timely"}), pairs |-> Cardinality(edges),
                       suppressed |-> suppressed,
                       chained |-> Cardinality({c \in Clusters : IsChained(c)})]
    /\ phase' = "rated"
    /\ UNCHANGED <<corpus, level, groups, left, suppressed, forest, edges, signs, linkage, cluster, exit>>

\* --fail-on duplicate or overlap.
Judge ==
    /\ phase = "rated"
    /\ \/ exit' = IF summary.duplicates > 0 THEN "findings" ELSE "no duplicate"
       \/ exit' = IF summary.pairs > 0 THEN "findings" ELSE "no overlap"
    /\ phase' = "judged"
    /\ UNCHANGED <<corpus, level, groups, left, suppressed, forest, edges, signs, linkage, cluster,
                   risk, advice, summary>>

OverlapNext ==
    GroupPages \/ ScanPair \/ ClusterSingly \/ LinkCompletely \/ LinkEdge \/ EndLinking
    \/ RatePages \/ Judge

OverlapSpec == OverlapInit /\ [][OverlapNext]_overlapVars

--------------------
\* Every set that keeps together what `pairs` joins and holds i holds j.
AreConnected(pairs, i, j) ==
    \A s \in SUBSET Pg :
        i \in s /\ (\A e \in pairs : e[1] \in s <=> e[2] \in s) => j \in s

\* The pairs that are reported: alike, not variants of one another to be
\* suppressed or left out, in one language where languages are told apart.
IsVariant(i, j) == AreConnected(ToSet(corpus.alternates), i, j)
Kept ==
    {i \in Pg : corpus.mode = "primary-only" =>
        \A j \in Pg \ {i} : IsVariant(i, j) =>
            \/ corpus.lang[i] = corpus.primary /\ (corpus.lang[j] = corpus.primary => i < j)
            \/ corpus.lang[i] # corpus.primary /\ corpus.lang[j] # corpus.primary /\ i < j}
Reported ==
    {e \in Pair : /\ level[e] > 0 /\ {e[1], e[2]} \subseteq Kept
                  /\ corpus.mode = "suppress" => ~IsVariant(e[1], e[2])
                  /\ IsSplit(Kept) => corpus.lang[e[1]] = corpus.lang[e[2]]}

\* Single linkage finds the connected components of the reported pairs.
\* Complete linkage finds clusters without a pair below the threshold, and
\* leaves a reported pair apart only where a pair below it forbids the union.
ClustersFollowThePairs ==
    phase = "rate" =>
        /\ linkage = "single" =>
              \A i, j \in Pg : i # j =>
                  (cluster[i] # 0 /\ cluster[i] = cluster[j] <=> AreConnected(Reported, i, j))
        /\ linkage = "complete" =>
              /\ \A i, j \in Pg : i # j /\ j \in Cluster(i) => IsAlike(i, j)
              /\ \A e \in Reported :
                    e[2] \notin Cluster(e[1]) =>
                        \E k \in Cluster(e[1]), m \in Cluster(e[2]) : ~IsAlike(k, m)

\* What is left of a page's reported pairs when those of two thin pages, of one
\* section, or of a page and its parent are not to condemn it.
Of(i) == {e \in Reported : i \in {e[1], e[2]}}
Duplicates(i) == {e \in Of(i) : level[e] = 2}

\* The labels: thin content only if every duplicate of the page is as thin; a
\* duplicate outside of its section counts whatever happens inside; no reported
\* pair is dropped silently.
RisksFollowThePairs ==
    phase = "rated" =>
        \A i \in Pg :
            /\ risk[i] = "none" <=> Of(i) = {}
            /\ risk[i] = "thin" <=> Duplicates(i) # {} /\ \A e \in Duplicates(i) : AreThin(e)
            /\ risk[i] = "duplicate" =>
                  \E e \in Duplicates(i) : ~IsTimely(e) /\ ~AreRelated(e)
            /\ risk[i] \in {"duplicate", "parent-child"} <=>
                  /\ \E e \in Duplicates(i) : ~IsTimely(e)
                  /\ \E e \in Duplicates(i) : ~AreThin(e)
            /\ risk[i] = "timely" => \A e \in Of(i) : IsTimely(e)

\* The pages of a cluster have one advice.  A page is kept, for the others to
\* point to, only where all are alike and neither all thin nor all of a section;
\* if each reported pair is of a page and one below it, all others are below it.
AdviceFollowsThePairs ==
    phase = "rated" =>
        \A i \in Pg :
            LET alike == Cluster(i)  kept == advice[i].keep
            IN  /\ advice[i] = Review("") <=> alike = {i}
                /\ \A j \in alike : advice[j] = advice[i]
                /\ kept # 0 =>
                      /\ kept \in alike /\ \A j, k \in alike : j # k => IsAlike(j, k)
                      /\ ~(alike \subseteq corpus.thin)
                      /\ \E j, k \in alike : ~IsTimely(<<j, k>>)
                      /\ (\A e \in Reported : {e[1], e[2]} \subseteq alike => AreRelated(e)) =>
                            \A j \in alike \ {kept} : <<kept, j>> \in corpus.below

\* No alike pair disappears: it is reported or counted as suppressed.  Without
\* findings there is no reported pair, or none that merging would solve: each of
\* two duplicates that are not both thin is within a section.
GateFollowsThePairs ==
    /\ phase = "rated" =>
          /\ summary.pairs = Cardinality(Reported)
          /\ summary.pairs + summary.suppressed =
                Cardinality({e \in Pair : /\ level[e] > 0 /\ {e[1], e[2]} \subseteq Kept
                                          /\ IsSplit(Kept) => corpus.lang[e[1]] = corpus.lang[e[2]]})
    /\ exit = "no overlap" => Reported = {}
    /\ exit = "no duplicate" =>
          \A e \in Reported : level[e] = 2 => AreThin(e) \/ IsTimely(e)
    /\ exit = "findings" => Reported # {}

\* Clusters, risks, advice and the exit code are those of the reported pairs.
ReportFollowsThePairs ==
    ClustersFollowThePairs /\ RisksFollowThePairs /\ AdviceFollowsThePairs /\ GateFollowsThePairs

=============================================================================
