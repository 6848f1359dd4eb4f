--------------------------- MODULE AuditSnapshot ---------------------------
(*
An audit that reads a crawl run by many queries while the run may be
crawled, resumed or enriched by another process (_run_technical_audit
in crawler_cli/__main__.py and technical_audit_context in reports.py).

The queries are not one transaction.  The audit reads the run's row at
its beginning and again at its end, and calls its evidence stable when
the status and the second of the last status change are the same.
One process at a time crawls the run; each query is one action.
*)
EXTENDS Naturals

CONSTANTS Reports,   \* queries of an audit between its two reads of the row
          MaxPages,  \* bound: pages saved into the run
          MaxClock   \* bound: seconds

SnapshotAssumption == Reports \in Nat /\ MaxPages \in Nat /\ MaxClock \in Nat

VARIABLES seconds,     \* the second of time.time()
          runRow,       \* the run's row of crawl_runs
          rows,      \* what the run's queries select from
          crawling,  \* a process crawls the run
          ended,     \* history: the last process that crawled it ended itself
          audit

snapshotVars == <<seconds, runRow, rows, crawling, ended, audit>>

NoRow == [status |-> "missing", updated |-> 0]
EndStatus == {"interrupted", "partial_budget_exhausted", "complete_with_errors", "complete"}
NoAudit == [phase |-> "none", row |-> NoRow, began |-> 0, left |-> 0, seen |-> {},
            stable |-> FALSE, completion |-> "none", endedThen |-> FALSE]

SnapshotInit ==
    /\ seconds = 0 /\ runRow = NoRow /\ rows = [pages |-> 0, signatures |-> 0]
    /\ crawling = FALSE /\ ended = FALSE /\ audit = NoAudit

Tick ==
    /\ seconds < MaxClock
    /\ seconds' = seconds + 1
    /\ UNCHANGED <<runRow, rows, crawling, ended, audit>>

SetStatus(status) == runRow' = [status |-> status, updated |-> seconds]

BeginCrawl ==
    /\ runRow = NoRow
    /\ SetStatus("running") /\ crawling' = TRUE
    /\ UNCHANGED <<seconds, rows, ended, audit>>

\* A resume that leaves the status of the earlier crawl.
ResumeKeepsStatus ==
    /\ runRow # NoRow /\ ~crawling
    /\ runRow' = [runRow EXCEPT !.updated = seconds] /\ crawling' = TRUE
    /\ UNCHANGED <<seconds, rows, ended, audit>>

\* Any status may be resumed, "complete" too.
ResumeCrawl ==
    /\ runRow # NoRow /\ ~crawling
    /\ SetStatus("running") /\ crawling' = TRUE
    /\ UNCHANGED <<seconds, rows, ended, audit>>

SavePage ==
    /\ crawling /\ rows.pages < MaxPages
    /\ rows' = [rows EXCEPT !.pages = @ + 1]
    /\ UNCHANGED <<seconds, runRow, crawling, ended, audit>>

\* The end of crawl_open, or its handler of an exception.
EndCrawl ==
    /\ crawling
    /\ \E status \in EndStatus \cup {"failed"} :
          SetStatus(status) /\ ended' = (status # "failed")
    /\ crawling' = FALSE
    /\ UNCHANGED <<seconds, rows, audit>>

Crash ==
    /\ crawling
    /\ crawling' = FALSE /\ ended' = FALSE
    /\ UNCHANGED <<seconds, runRow, rows, audit>>

\* The intent signatures of the run's pages are built after the crawl.
BuildSignatures ==
    /\ rows.signatures < rows.pages
    /\ rows' = [rows EXCEPT !.signatures = rows.pages]
    /\ UNCHANGED <<seconds, runRow, crawling, ended, audit>>

BeginAudit ==
    /\ runRow # NoRow /\ audit.phase # "reading"
    /\ audit' = [NoAudit EXCEPT !.phase = "reading", !.row = runRow, !.began = seconds, !.left = Reports]
    /\ UNCHANGED <<seconds, runRow, rows, crawling, ended>>

FetchReport ==
    /\ audit.phase = "reading" /\ audit.left > 0
    /\ audit' = [audit EXCEPT !.left = @ - 1, !.seen = @ \cup {rows}]
    /\ UNCHANGED <<seconds, runRow, rows, crawling, ended>>

\* A comparison of the statuses alone.
SameStatusOnly == runRow.status = audit.row.status

SameRunState == runRow.status = audit.row.status /\ runRow.updated = audit.row.updated

EndAudit ==
    /\ audit.phase = "reading" /\ audit.left = 0
    /\ audit' = [audit EXCEPT !.phase = "done", !.stable = SameRunState,
                    !.completion = IF SameRunState THEN audit.row.status ELSE "partial",
                    !.endedThen = ended /\ ~crawling]
    /\ UNCHANGED <<seconds, runRow, rows, crawling, ended>>

SnapshotNext ==
    \/ Tick \/ BeginCrawl \/ ResumeCrawl \/ SavePage \/ EndCrawl \/ Crash \/ BuildSignatures
    \/ BeginAudit \/ FetchReport \/ EndAudit

SnapshotSpec == SnapshotInit /\ [][SnapshotNext]_snapshotVars

--------------------
\* The reports of an audit that calls its run complete all read the same pages,
\* whatever was resumed, crawled and finished while it read: the comparison of
\* the two reads of the row (__main__.py:2753) stands for a transaction.  It is
\* by the second, so an audit begun in the very second of the last status
\* change is excepted.
CompleteAuditReadsOneRun ==
    audit.phase = "done" /\ audit.completion = "complete" /\ audit.began > audit.row.updated
        => \A a, b \in audit.seen : a.pages = b.pages

\* An audit calls a run complete only if, when it ended, no process crawled the
\* run and the last one that did came to its own end: a resumed run that
\* crashed half way is not complete because it once was.
CompleteAuditOfAnEndedCrawl ==
    audit.phase = "done" /\ audit.completion = "complete" => audit.endedThen

\* What an audit calls complete was read of one state of an ended run.
CompleteAuditsReadOneRun == CompleteAuditReadsOneRun /\ CompleteAuditOfAnEndedCrawl

\* What "run changed while the audit read it" and the test that such a run is
\* downgraded say: an audit whose reports read different contents of the run
\* is not called stable.
ChangedRunIsDowngraded ==
    audit.phase = "done" /\ audit.stable => \A a, b \in audit.seen : a = b

=============================================================================
