----------------------------- MODULE Compaction -----------------------------
(*
The commands that make the stored HTML smaller while a crawl may go on
storing pages: compact-html, which compresses the current HTML of every
page batch by batch, and compact-crawl, which drops the HTML of one run
(_run_compact_html and _run_compact_crawl in crawler_cli/__main__.py,
with their methods of AsyncpgStore).

Every SQL statement is committed by itself.  A text is the number of
the result that stored it, and so is the hash of a text.
*)
EXTENDS Naturals, FiniteSets

CONSTANTS Pages,      \* url_ids are 1..Pages
          RunIds,     \* ids of crawl runs
          BatchSize,
          MaxStored   \* bound: results stored

StorageAssumption ==
    /\ Pages \in Nat /\ BatchSize \in Nat \ {0} /\ MaxStored \in Nat

VARIABLES storedResults,   \* results stored so far
          page,     \* current HTML of each URL, whether compressed, and its hash
          snap,     \* HTML and hash in each run
          compact,  \* the compact-html command
          purge     \* the compact-crawl command

storageVars == <<storedResults, page, snap, compact, purge>>

UrlIds == 1..Pages
NoText == 0
NoHtml == [text |-> NoText, gz |-> FALSE, hash |-> NoText]
NoCompact == [phase |-> "none", dry |-> FALSE, batch |-> {}]
NoPurge == [phase |-> "none", run |-> "none", require |-> FALSE, backfill |-> FALSE,
            confirmed |-> FALSE, late |-> FALSE, unhashed |-> {}]

StorageInit ==
    /\ storedResults = 0
    /\ page = [u \in UrlIds |-> NoHtml]
    /\ snap = [r \in RunIds |-> [u \in UrlIds |-> NoHtml]]
    /\ compact = NoCompact /\ purge = NoPurge

\* A crawl keeps HTML or does not, compresses it or does not, hashes or does not.
Persist(r, u) ==
    \E keep, gz, hashed \in BOOLEAN :
        LET n == storedResults + 1
            html == [text |-> IF keep THEN n ELSE NoText, gz |-> keep /\ gz,
                     hash |-> IF hashed THEN n ELSE NoText]
        IN  /\ storedResults < MaxStored /\ storedResults' = n
            /\ page' = [page EXCEPT ![u] = html]
            /\ snap' = [snap EXCEPT ![r][u] = html]
            /\ purge' = [purge EXCEPT !.late = @ \/ (purge.phase = "checked" /\ purge.run = r)]
            /\ UNCHANGED compact

--------------------
IsLegacy(u) == page[u].text # NoText /\ ~page[u].gz

StartCompact(dry) ==
    /\ compact.phase \notin {"select", "update"}
    /\ compact' = [phase |-> "select", dry |-> dry, batch |-> {}]
    /\ UNCHANGED <<storedResults, page, snap, purge>>

\* The first rows in the order of their url_id, with the HTML they now have.
SelectBatch ==
    LET legacy == {u \in UrlIds : IsLegacy(u)}
        first == {u \in legacy : Cardinality({v \in legacy : v < u}) < BatchSize}
    IN  /\ compact.phase = "select"
        /\ compact' = IF legacy = {} THEN [compact EXCEPT !.phase = "done"]
                      ELSE [compact EXCEPT !.phase = "update",
                                           !.batch = {<<u, page[u].text>> : u \in first}]
        /\ UNCHANGED <<storedResults, page, snap, purge>>

\* A row gets the compressed form of what was selected.
CompressRow ==
    /\ compact.phase = "update" /\ ~compact.dry
    /\ \E row \in compact.batch :
          /\ \A other \in compact.batch : row[1] <= other[1]
          /\ page' = [page EXCEPT ![row[1]].text = row[2], ![row[1]].gz = TRUE]
          /\ compact' = [compact EXCEPT !.batch = @ \ {row}]
    /\ UNCHANGED <<storedResults, snap, purge>>

\* A dry run counts one batch and stops.
EndBatch ==
    /\ compact.phase = "update" /\ (compact.dry \/ compact.batch = {})
    /\ compact' = [compact EXCEPT !.phase = IF compact.dry THEN "done" ELSE "select", !.batch = {}]
    /\ UNCHANGED <<storedResults, page, snap, purge>>

CompactDies ==
    /\ compact.phase \in {"select", "update"}
    /\ compact' = NoCompact
    /\ UNCHANGED <<storedResults, page, snap, purge>>

--------------------
Unhashed(r) == {u \in UrlIds : snap[r][u].text # NoText /\ snap[r][u].hash = NoText}

\* Pages are counted by their current row.
MissingNow(r) == {u \in UrlIds : page[u].text # NoText /\ page[u].hash = NoText}
Missing(r) == Unhashed(r)

\* run_snapshot_html_stats, the refusals and --confirm, in this order.
CheckPurge(r) ==
    /\ purge.phase # "checked"
    /\ \E require, backfill, confirmed \in BOOLEAN :
          LET refused == \/ require /\ ~backfill /\ Missing(r) # {}
                         \/ ~confirmed
                         \/ backfill
          IN  purge' = [phase |-> IF refused THEN "refused" ELSE "checked", run |-> r,
                        require |-> require, backfill |-> backfill, confirmed |-> confirmed,
                        late |-> FALSE, unhashed |-> {}]
    /\ UNCHANGED <<storedResults, page, snap, compact>>

Purged(r) == [u \in UrlIds |-> [snap[r][u] EXCEPT !.text = NoText, !.gz = FALSE]]

\* Without the condition on the run.
SnapAfterAll(r) == [s \in RunIds |-> Purged(s)]
SnapAfter(r) == [snap EXCEPT ![r] = Purged(r)]

PurgeRun ==
    /\ purge.phase = "checked"
    /\ snap' = SnapAfter(purge.run)
    /\ purge' = [purge EXCEPT !.phase = "done", !.unhashed = Unhashed(purge.run)]
    /\ UNCHANGED <<storedResults, page, compact>>

CompactHtml == SelectBatch \/ CompressRow \/ EndBatch

StorageNext ==
    \/ \E r \in RunIds, u \in UrlIds : Persist(r, u)
    \/ \E dry \in BOOLEAN : StartCompact(dry)
    \/ CompactHtml \/ CompactDies
    \/ \E r \in RunIds : CheckPurge(r)
    \/ PurgeRun

StorageSpec == StorageInit /\ [][StorageNext]_storageVars

--------------------
\* Under --require-hashes compact-crawl drops no HTML without a hash, unless
\* the run got it between the check and the deletion.
PurgedWereHashed ==
    purge.phase = "done" /\ purge.require /\ ~purge.late => purge.unhashed = {}

\* HTML that only a run still holds is lost to no command on another run, and
\* neither command takes a hash away.
PurgesItsRunOnly ==
    storedResults' = storedResults =>
        \A r \in RunIds, u \in UrlIds :
            /\ snap[r][u].text # NoText /\ snap'[r][u].text = NoText
                   => r = purge.run /\ purge.phase = "checked"
            /\ snap'[r][u].hash = snap[r][u].hash
OnlyTheRunIsPurged == [][PurgesItsRunOnly]_storageVars

\* HTML is dropped only after the check for its hash, or stored since, and only
\* of the run that compact-crawl is given.
PurgesKeepTheirHashes == []PurgedWereHashed /\ OnlyTheRunIsPurged

\* "Gzip legacy uncompressed HTML already in the database": the HTML of a page
\* is that of the page's last result, of which its hash is.
HtmlIsOfItsHash ==
    \A u \in UrlIds : page[u].text # NoText /\ page[u].hash # NoText => page[u].text = page[u].hash

\* "Refuse to purge HTML unless content_hash_sha256 exists".
NeverPurgedUnhashed ==
    purge.phase = "done" /\ purge.require => purge.unhashed = {}

\* "Compute missing hashes from stored HTML before purging".
BackfillIsPossible ==
    purge.backfill /\ purge.confirmed => purge.phase # "refused"

=============================================================================
