---------------------------- MODULE PageVariants ----------------------------
(*
Which pages of a run the overlap analysis compares: hreflang-groups
folds the URLs of one normal form onto a representative
(hreflang_groups.py), intent-overlap labels AMP variants (amp.py), and
excludes variants, AMP pages, pages canonicalised elsewhere and
parameterised copies (intent_overlap.py).  Each store method commits by
itself; a resumed crawl may replace a snapshot between two of them.
Pages are numbers, shorter URLs first.
*)
EXTENDS Integers, FiniteSets

CONSTANTS Page,
          Norm,        \* Page -> its normalised URL
          Key,         \* Page -> its URL without slash, www and fragment
          AmpBase,     \* Page -> the Key it is the AMP form of by its shape, or "none"
          QueryBase,   \* Page -> the Norm of its URL without its query, "none" without one
          Snapshots,   \* Page -> the snapshots that a fetch of it may leave
          MaxRecrawls  \* bound: snapshots replaced

Nobody == 0

VariantsAssumption ==
    /\ Page \subseteq Nat \ {Nobody} /\ IsFiniteSet(Page) /\ MaxRecrawls \in Nat
    /\ \A p \in Page : Snapshots[p] \subseteq
          [ok : BOOLEAN, redirected : BOOLEAN, words : Nat, indexable : BOOLEAN,
           canonical : Page \cup {Nobody}, amphtml : Page \cup {Nobody}, text : Nat]

VARIABLES snapOf,       \* page -> its snapshot in the run; text 0: no signature
          recrawls,
          variantOf,  \* run_url_identity.variant_of_url_id
          known,      \* pages with a run_url_identity row
          label,      \* pages whose snapshot is labelled "amp"
          groupJob,   \* hreflang-groups: the pages it read
          overlapJob, \* intent-overlap: its step
          amp,        \* intent-overlap: the pages it found to be AMP forms
          excluded,   \* page -> why it is not compared, "" if it is, of the last analysis
          fresh       \* history: what was made of the snapshots as they are

variantVars == <<snapOf, recrawls, variantOf, known, label, groupJob, overlapJob, amp, excluded, fresh>>

NoGroupJob == [step |-> "idle", read |-> <<>>]

VariantsInit ==
    /\ snapOf \in {s \in [Page -> UNION {Snapshots[p] : p \in Page}] : \A p \in Page : s[p] \in Snapshots[p]}
    /\ recrawls = 0
    /\ variantOf = [p \in Page |-> Nobody] /\ known = {} /\ label = {}
    /\ groupJob = NoGroupJob /\ overlapJob = "idle" /\ amp = {}
    /\ excluded = [p \in Page |-> "unread"]
    /\ fresh = [groups |-> FALSE, labels |-> FALSE, compared |-> FALSE]

\* A resumed crawl fetches a page again; the snapshot keeps its label.
Recrawl(p) ==
    /\ recrawls < MaxRecrawls
    /\ \E s \in Snapshots[p] : snapOf' = [snapOf EXCEPT ![p] = s]
    /\ recrawls' = recrawls + 1
    /\ fresh' = [groups |-> FALSE, labels |-> FALSE, compared |-> FALSE]
    /\ excluded' = [q \in Page |-> "unread"]
    /\ UNCHANGED <<variantOf, known, label, groupJob, overlapJob, amp>>

--------------------
\* hreflang-groups: resolve_variants and the two commits.

BetterByWords(a, b, s) == s[a].words > s[b].words \/ (s[a].words = s[b].words /\ a < b)

\* _rep_rank: not redirected, then 200, then the most words, then the shortest.
Better(a, b, s) ==
    LET rank(p) == <<IF s[p].redirected THEN 1 ELSE 0, IF s[p].ok THEN 0 ELSE 1, 0 - s[p].words, p>>
    IN \E i \in 1..4 : rank(a)[i] < rank(b)[i] /\ \A j \in 1..(i - 1) : rank(a)[j] = rank(b)[j]

SameNorm(p) == {q \in Page : Norm[q] = Norm[p]}

Representative(p, s) == CHOOSE q \in SameNorm(p) : \A r \in SameNorm(p) \ {q} : Better(q, r, s)

Variants(s) == [p \in Page |-> IF Representative(p, s) = p THEN Nobody ELSE Representative(p, s)]

ReadPages ==
    /\ groupJob = NoGroupJob
    /\ groupJob' = [step |-> "identity", read |-> snapOf]
    /\ UNCHANGED <<snapOf, recrawls, variantOf, known, label, overlapJob, amp, excluded, fresh>>

StoreIdentity ==
    /\ groupJob.step = "identity"
    /\ known' = Page
    /\ groupJob' = [groupJob EXCEPT !.step = "variants"]
    /\ UNCHANGED <<snapOf, recrawls, variantOf, label, overlapJob, amp, excluded, fresh>>

AddedToOldVariants(new) == [p \in Page |-> IF new[p] = Nobody THEN variantOf[p] ELSE new[p]]

\* store_url_variants: all are reset, then the variants written.
ResetAndSet(new) == [p \in Page |-> IF p \in known THEN new[p] ELSE Nobody]

StoreVariants ==
    /\ groupJob.step = "variants"
    /\ variantOf' = ResetAndSet(Variants(groupJob.read))
    /\ groupJob' = NoGroupJob
    /\ fresh' = [fresh EXCEPT !.groups = groupJob.read = snapOf]
    /\ UNCHANGED <<snapOf, recrawls, known, label, overlapJob, amp, excluded>>

\* The command ends between its commits.
StopGroups ==
    /\ groupJob.step = "variants"
    /\ groupJob' = NoGroupJob
    /\ UNCHANGED <<snapOf, recrawls, variantOf, known, label, overlapJob, amp, excluded, fresh>>

--------------------
\* intent-overlap: classify_amp_variants, which looks at pages that answered 200.

IsLinkedAsAmp(p) == \E q \in Page : snapOf[q].amphtml = p

IsShapeConfirmed(p, hashes) ==
    /\ AmpBase[p] # "none"
    /\ \/ snapOf[p].canonical # Nobody /\ Key[snapOf[p].canonical] = AmpBase[p]
       \/ snapOf[p].text # 0 /\ snapOf[p].text = hashes[AmpBase[p]]

\* hash_by_key: of pages with one key the last row read stands for all.
HashesByKey ==
    {h \in [{Key[p] : p \in Page} -> {snapOf[p].text : p \in Page} \cup {0}] :
        \A k \in DOMAIN h :
            LET texts == {snapOf[p].text : p \in {q \in Page : Key[q] = k /\ snapOf[q].ok}} \ {0}
            IN IF texts = {} THEN h[k] = 0 ELSE h[k] \in texts}

AmpPages(hashes) == {p \in Page : snapOf[p].ok /\ (IsLinkedAsAmp(p) \/ IsShapeConfirmed(p, hashes))}

LabelledToo(pages) == label \cup pages

\* Old labels are cleared and the new ones set.
Relabelled(pages) == pages

\* The snapshots are read over one connection.
ClassifyAmp ==
    /\ overlapJob = "idle"
    /\ \E hashes \in HashesByKey : amp' = AmpPages(hashes)
    /\ overlapJob' = "classified"
    /\ fresh' = [fresh EXCEPT !.labels = TRUE]
    /\ UNCHANGED <<snapOf, recrawls, variantOf, known, label, groupJob, excluded>>

\* The labels are replaced in one transaction of another.
StoreLabels ==
    /\ overlapJob = "classified"
    /\ label' = Relabelled(amp)
    /\ amp' = {} /\ overlapJob' = "labelled"
    /\ UNCHANGED <<snapOf, recrawls, variantOf, known, groupJob, excluded, fresh>>

\* compute_exclusion
ExclusionByPage(p) ==
    CASE ~snapOf[p].ok -> "non-200"
      [] ~snapOf[p].indexable -> "noindex"
      [] p \in label -> "amp-variant"
      [] snapOf[p].canonical # Nobody /\ Norm[snapOf[p].canonical] # Norm[p] -> "canonicalised-elsewhere"
      [] OTHER -> ""

Exclusion(p) ==
    IF ExclusionByPage(p) = "" /\ variantOf[p] # Nobody THEN "url-variant" ELSE ExclusionByPage(p)

\* classify_url
IsParameterised(p) ==
    /\ p \notin label /\ QueryBase[p] # "none"
    /\ snapOf[p].canonical # Nobody => Norm[snapOf[p].canonical] = Norm[p]

\* classify_and_fold_parameterised: of the pages at the base URL, the first row.
IsCopyOf(p, base) == IsParameterised(p) /\ snapOf[p].text # 0 /\ snapOf[p].text = snapOf[base].text

Bases(p) == {q \in Page \ {p} : QueryBase[q] = "none" /\ Norm[q] = QueryBase[p]}

BaseChoices == {b \in [Page -> Page \cup {Nobody}] :
                    \A p \in Page : IF Bases(p) = {} THEN b[p] = Nobody ELSE b[p] \in Bases(p)}

FetchRows ==
    /\ overlapJob = "labelled"
    /\ \E base \in BaseChoices :
           excluded' = [p \in Page |->
               IF Exclusion(p) = "" /\ base[p] # Nobody /\ IsCopyOf(p, base[p])
               THEN "parameterised-duplicate" ELSE Exclusion(p)]
    /\ overlapJob' = "idle"
    /\ fresh' = [fresh EXCEPT !.compared = fresh.groups]
    /\ UNCHANGED <<snapOf, recrawls, variantOf, known, label, groupJob, amp>>

\* The pages with an embedding that no reason excludes.
Compared == {p \in Page : excluded[p] = "" /\ snapOf[p].text # 0}

VariantsNext ==
    \/ \E p \in Page : Recrawl(p)
    \/ ReadPages \/ StoreIdentity \/ StoreVariants \/ StopGroups
    \/ ClassifyAmp \/ StoreLabels \/ FetchRows

VariantsSpec == VariantsInit /\ [][VariantsNext]_variantVars

--------------------
\* However often the groups are rebuilt, a variant stands for one page that
\* stands for itself, has its normal form, and answers if the variant did.
VariantsHaveARepresentative ==
    \A p \in Page : variantOf[p] # Nobody =>
        LET rep == variantOf[p]
        IN /\ Norm[rep] = Norm[p] /\ variantOf[rep] = Nobody
           /\ fresh.groups /\ snapOf[p].ok /\ ~snapOf[p].redirected
                => snapOf[rep].ok /\ ~snapOf[rep].redirected

\* Of the URLs of one normal form at most one is compared, unless snapshots were
\* replaced between the building of the groups and the analysis.
OneOfEachNormIsCompared ==
    fresh.compared =>
        \A p, q \in Compared : Norm[p] = Norm[q] => p = q

HasAmpEvidence(p, linker) ==
    \/ \E q \in linker : snapOf[q].amphtml = p
    \/ \E hashes \in HashesByKey : IsShapeConfirmed(p, hashes)

\* A page is left out as AMP for evidence that the run's snapshots still have,
\* and none that another page links to as its AMP form is compared.
LabelsFollowTheEvidence ==
    fresh.labels /\ overlapJob = "idle" =>
        \A p \in Page : /\ excluded[p] = "amp-variant" => HasAmpEvidence(p, Page)
                        /\ p \in Compared => ~IsLinkedAsAmp(p)

\* A page that is a variant of another is represented by it, one page of each
\* normal form is compared, and AMP labels follow the snapshots.
VariantsFollowTheEvidence ==
    VariantsHaveARepresentative /\ OneOfEachNormIsCompared /\ LabelsFollowTheEvidence

\* "it is the target of another page's rel="amphtml" edge"
AmpIsOfAnotherPage ==
    fresh.labels /\ overlapJob = "idle" =>
        \A p \in Page : excluded[p] = "amp-variant" => HasAmpEvidence(p, Page \ {p})

=============================================================================
