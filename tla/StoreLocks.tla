----------------------------- MODULE StoreLocks -----------------------------
(*
The transactions by which AsyncpgStore of crawler_cli/persistence.py
writes rows that pages share: persist, enqueue_frontier and
frontier_mark_done, of the crawl() tasks and of the engine's loop at
the same time.  Shared are the rows of urls and of the lookup tables
(anchor texts, xpaths, fragments).

PostgreSQL (READ COMMITTED) enters by what these statements use of it:
 - a statement sees what was committed when it began, and what its
    own transaction wrote;
 - ON CONFLICT DO NOTHING takes no lock on a row that exists, and
    waits for another transaction that is inserting the row;
 - ON CONFLICT DO UPDATE locks the row until the transaction ends;
 - in a circle of transactions that wait for one another one is
    rolled back.
*)
EXTENDS Integers, Sequences, FiniteSets

CONSTANTS Writer,    \* transactions
          UrlRow,    \* rows of urls, numbered in their sort order
          ValueRow,  \* rows of the lookup tables, numbered on from the URLs
          Writes,    \* what a writer may be asked to write
          StoredRows, \* rows that may exist beforehand
          Attempts   \* of _retry_on_deadlock

NoWriter == "nobody"
SharedRow == UrlRow \cup ValueRow

\* A page's order is its requested and final URL, then its canonicals and
\* alternates as the page lists them; its links and their texts are sets.
PageWrites ==
    [kind : {"page"}, order : Seq(UrlRow), links : SUBSET UrlRow, values : SUBSET ValueRow]
LinkWrites == [kind : {"links"}, order : {<<>>}, links : SUBSET UrlRow, values : {{}}]
MarkWrites == [kind : {"marks"}, order : Seq(UrlRow), links : {{}}, values : {{}}]

ASSUME LocksAssumption ==
    /\ UrlRow \subseteq Nat /\ IsFiniteSet(UrlRow)
    /\ ValueRow \subseteq Nat /\ IsFiniteSet(ValueRow)
    /\ \A u \in UrlRow, v \in ValueRow : u < v
    /\ Writes \subseteq PageWrites \cup LinkWrites \cup MarkWrites
    /\ \A w \in Writes : w.kind = "page" => Len(w.order) >= 2
    /\ StoredRows \subseteq SUBSET SharedRow
    /\ Attempts \in Nat \ {0}
    /\ NoWriter \notin Writer

VARIABLES rowState,   \* absent, inserted (not yet committed) or stored
          rowHolder,  \* the writer that inserted or locked the row
          write,      \* what each writer writes
          stage,      \* where its transaction is
          toInsert,   \* rows its bulk statement has still to insert
          seen,       \* rows its bulk statement will return
          at,         \* its next row to upsert
          begun,      \* attempts
          unresolved  \* rows a bulk statement was asked for and did not return

lockVars == <<rowState, rowHolder, write, stage, toInsert, seen, at, begun, unresolved>>

Stages == {"waiting", "touching", "updating", "linking", "valuing", "written",
           "stored", "failed"}
Bulk == {"touching", "linking", "valuing"}

Least(S) == CHOOSE r \in S : \A q \in S : r <= q
Ordered(w) == {w.order[i] : i \in DOMAIN w.order}

\* Pages are written by their tasks, everything else by the engine's loop,
\* which does one thing at a time.
OneEngine == \A s, t \in Writer : write[s].kind # "page" /\ write[t].kind # "page" => s = t

LocksInit ==
    /\ \E rows \in StoredRows :
          rowState = [r \in SharedRow |-> IF r \in rows THEN "stored" ELSE "absent"]
    /\ rowHolder = [r \in SharedRow |-> NoWriter]
    /\ write \in [Writer -> Writes] /\ OneEngine
    /\ stage = [t \in Writer |-> "waiting"]
    /\ toInsert = [t \in Writer |-> {}] /\ seen = [t \in Writer |-> {}]
    /\ at = [t \in Writer |-> 1] /\ begun = [t \in Writer |-> 0]
    /\ unresolved = [t \in Writer |-> {}]

--------------------
Inserting(r) == rowState[r] = "inserted"
Visible(t) == {r \in SharedRow : rowState[r] = "stored" \/ rowHolder[r] = t}

\* Mutant: the links of a page are not touched before its other rows.
PreTouchedWithoutLinks(w) == Ordered(w) \cup (IF w.kind = "page" THEN {} ELSE w.links)

PreTouched(w) == Ordered(w) \cup w.links

\* A bulk statement over these rows begins; it passes over those that exist.
Statement(t, next, rows) ==
    /\ stage' = [stage EXCEPT ![t] = next]
    /\ toInsert' = [toInsert EXCEPT ![t] = {r \in rows : rowState[r] # "stored"}]
    /\ seen' = [seen EXCEPT ![t] = Visible(t)]

\* Mutant: every attempt is the first one.
FirstAttempt(n) == 1

Attempt(n) == n + 1

\* A transaction begins, or begins again after its backoff.
BeginWrite(t) ==
    /\ stage[t] = "waiting"
    /\ begun' = [begun EXCEPT ![t] = Attempt(@)]
    /\ IF write[t].kind = "marks"
       THEN /\ stage' = [stage EXCEPT ![t] = "updating"]
            /\ UNCHANGED <<toInsert, seen>>
       ELSE Statement(t, "touching", PreTouched(write[t]))
    /\ UNCHANGED <<rowState, rowHolder, write, at, unresolved>>

\* Mutant: rows are inserted in the order of the data, here downwards.
NextRowUnsorted(t) == CHOOSE r \in toInsert[t] : \A q \in toInsert[t] : q <= r

\* sorted(set(urls))
NextRow(t) == Least(toInsert[t])

\* One row of a bulk statement: ON CONFLICT DO NOTHING.
InsertRow(t) ==
    /\ stage[t] \in Bulk /\ toInsert[t] # {}
    /\ LET r == NextRow(t) IN
       /\ Inserting(r) => rowHolder[r] = t
       /\ toInsert' = [toInsert EXCEPT ![t] = @ \ {r}]
       /\ IF rowState[r] = "absent"
          THEN /\ rowState' = [rowState EXCEPT ![r] = "inserted"]
               /\ rowHolder' = [rowHolder EXCEPT ![r] = t]
               /\ seen' = [seen EXCEPT ![t] = @ \cup {r}]
          ELSE UNCHANGED <<rowState, rowHolder, seen>>
    /\ UNCHANGED <<write, stage, at, begun, unresolved>>

\* Rows that t inserted become those of next, and its locks are released.
EndTransaction(t, next) ==
    /\ rowState' = [r \in SharedRow |-> IF Inserting(r) /\ rowHolder[r] = t THEN next ELSE rowState[r]]
    /\ rowHolder' = [r \in SharedRow |-> IF rowHolder[r] = t THEN NoWriter ELSE rowHolder[r]]
    /\ toInsert' = [toInsert EXCEPT ![t] = {}] /\ seen' = [seen EXCEPT ![t] = {}]
    /\ at' = [at EXCEPT ![t] = 1]

\* The pre-touch of a page: its answer is not used.
EndTouch(t) ==
    /\ stage[t] = "touching" /\ toInsert[t] = {} /\ write[t].kind = "page"
    /\ stage' = [stage EXCEPT ![t] = "updating"]
    /\ UNCHANGED <<rowState, rowHolder, write, toInsert, seen, at, begun, unresolved>>

\* The frontier rows of links need the id of every URL: url_to_id raises
\* KeyError otherwise.
EndResolve(t) ==
    /\ stage[t] = "touching" /\ toInsert[t] = {} /\ write[t].kind = "links"
    /\ LET missing == PreTouched(write[t]) \ seen[t] IN
       /\ unresolved' = [unresolved EXCEPT ![t] = missing]
       /\ IF missing = {}
          THEN /\ stage' = [stage EXCEPT ![t] = "written"]
               /\ UNCHANGED <<rowState, rowHolder, toInsert, seen, at>>
          ELSE /\ stage' = [stage EXCEPT ![t] = "failed"]
               /\ EndTransaction(t, "absent")
    /\ UNCHANGED <<write, begun>>

\* Mutant: a row that exists is left as it is, and unlocked.
HolderAsBefore(t, r) == IF rowState[r] = "absent" THEN t ELSE rowHolder[r]

\* ON CONFLICT DO UPDATE
UpsertHolder(t, r) == t

\* _get_or_create_url
UpdateRow(t) ==
    /\ stage[t] = "updating" /\ at[t] \in DOMAIN write[t].order
    /\ LET r == write[t].order[at[t]] IN
       /\ rowHolder[r] \in {NoWriter, t}
       /\ rowHolder' = [rowHolder EXCEPT ![r] = UpsertHolder(t, r)]
       /\ rowState' = [rowState EXCEPT ![r] = IF @ = "absent" THEN "inserted" ELSE @]
    /\ at' = [at EXCEPT ![t] = @ + 1]
    /\ UNCHANGED <<write, stage, toInsert, seen, begun, unresolved>>

\* The last upsert is done: _persist_internal_links of a page.
EndUpdates(t) ==
    /\ stage[t] = "updating" /\ at[t] \notin DOMAIN write[t].order
    /\ IF write[t].kind = "page"
       THEN Statement(t, "linking", write[t].links)
       ELSE /\ stage' = [stage EXCEPT ![t] = "written"]
            /\ UNCHANGED <<toInsert, seen>>
    /\ UNCHANGED <<rowState, rowHolder, write, at, begun, unresolved>>

\* A link whose URL is not in the answer is left out.
EndLinks(t) ==
    /\ stage[t] = "linking" /\ toInsert[t] = {}
    /\ unresolved' = [unresolved EXCEPT ![t] = @ \cup (write[t].links \ seen[t])]
    /\ Statement(t, "valuing", write[t].values)
    /\ UNCHANGED <<rowState, rowHolder, write, at, begun>>

\* A link whose text is not in the answer is stored without it.
EndValues(t) ==
    /\ stage[t] = "valuing" /\ toInsert[t] = {}
    /\ unresolved' = [unresolved EXCEPT ![t] = @ \cup (write[t].values \ seen[t])]
    /\ stage' = [stage EXCEPT ![t] = "written"]
    /\ UNCHANGED <<rowState, rowHolder, write, toInsert, seen, at, begun>>

Commit(t) ==
    /\ stage[t] = "written"
    /\ stage' = [stage EXCEPT ![t] = "stored"]
    /\ EndTransaction(t, "stored")
    /\ UNCHANGED <<write, begun, unresolved>>

--------------------
Wanted(t) == IF stage[t] = "updating" THEN write[t].order[at[t]] ELSE NextRow(t)

\* The writers that t waits for, at most one.
WaitsFor(t) ==
    IF stage[t] = "updating" /\ at[t] \in DOMAIN write[t].order
    THEN {rowHolder[Wanted(t)]} \ {NoWriter, t}
    ELSE IF stage[t] \in Bulk /\ toInsert[t] # {} /\ Inserting(NextRow(t))
         THEN {rowHolder[NextRow(t)]} \ {t}
         ELSE {}

Circles == {S \in SUBSET Writer : S # {} /\ UNION {WaitsFor(t) : t \in S} = S
                                   /\ \A t \in S : WaitsFor(t) # {}}

\* frontier_mark_done is not retried.
HasTriesLeft(t) == write[t].kind # "marks" /\ begun[t] < Attempts

\* One transaction of a circle is rolled back and, by _retry_on_deadlock,
\* begun again or given up.
Deadlock(t) ==
    /\ \E S \in Circles : t \in S
    /\ stage' = [stage EXCEPT ![t] = IF HasTriesLeft(t) THEN "waiting" ELSE "failed"]
    /\ unresolved' = [unresolved EXCEPT ![t] = {}]
    /\ EndTransaction(t, "absent")
    /\ UNCHANGED <<write, begun>>

WriteStep(t) ==
    \/ BeginWrite(t) \/ InsertRow(t) \/ EndTouch(t) \/ EndResolve(t) \/ UpdateRow(t)
    \/ EndUpdates(t) \/ EndLinks(t) \/ EndValues(t) \/ Commit(t)

LocksNext == \E t \in Writer : WriteStep(t) \/ Deadlock(t)

LocksSpec == LocksInit /\ [][LocksNext]_lockVars

\* The database runs every statement that need not wait, and looks for
\* circles (deadlock_timeout).
LocksFairness == \A t \in Writer : WF_lockVars(WriteStep(t)) /\ WF_lockVars(Deadlock(t))

--------------------
LocksTypes ==
    /\ rowState \in [SharedRow -> {"absent", "inserted", "stored"}]
    /\ rowHolder \in [SharedRow -> Writer \cup {NoWriter}]
    /\ write \in [Writer -> Writes] /\ stage \in [Writer -> Stages]
    /\ toInsert \in [Writer -> SUBSET SharedRow] /\ seen \in [Writer -> SUBSET SharedRow]
    /\ at \in [Writer -> Nat] /\ begun \in [Writer -> Nat]
    /\ unresolved \in [Writer -> SUBSET SharedRow]

\* The tables of a page are deleted and written anew by a transaction that
\* has upserted its requested and its final URL.
WritesPage(t) ==
    /\ write[t].kind = "page"
    /\ \/ stage[t] \in {"linking", "valuing", "written"}
       \/ stage[t] = "updating" /\ at[t] > 2

\* Two transactions never write the tables of the same page at the same
\* time: the upsert of its final URL (_get_or_create_url) is what keeps the
\* deletions and insertions of one persist from mixing with another's.
PageWritersTakeTurns ==
    \A s, t \in Writer :
        WritesPage(s) /\ WritesPage(t) /\ s # t => write[s].order[2] # write[t].order[2]

\* A page's links keep their targets: by the time _persist_internal_links asks
\* for the ids of its links, no other transaction can be inserting one, so its
\* answer has them all.
LinksKeepTheirTargets ==
    \A t \in Writer : write[t].kind = "page" => unresolved[t] \cap write[t].links = {}

\* Sorted bulk statements do not deadlock among themselves: one that waits
\* for another bulk statement waits for a row before the one that waits for.
InsertersWaitUpwards ==
    \A s, t \in Writer :
        /\ stage[s] \in Bulk /\ stage[t] \in Bulk
        /\ s \in WaitsFor(t) /\ WaitsFor(s) # {}
        => NextRow(t) < NextRow(s)

\* Transactions that meet on the rows of a page or a bulk statement do so in an
\* order that neither mixes their rows nor closes a circle.
WritesTakeTurns == PageWritersTakeTurns /\ LinksKeepTheirTargets /\ InsertersWaitUpwards

\* As the comment above the call in _enqueue_frontier_once has it: a bulk
\* statement answers for every row it was asked for.
BulkAnswersForAll == \A t \in Writer : unresolved[t] = {}

=============================================================================
