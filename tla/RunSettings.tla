----------------------------- MODULE RunSettings -----------------------------
(*
From a command line to a run (crawler_cli/__main__.py _run_crawl,
_build_config; engine.py _prepare_crawl_run and the edges of
crawl_open): which inputs are refused, which fingerprint a run is
created with, what a resume compares, and which exit code it ends with.
Several processes work on one store; the crawl between start and end is
reduced to its claims and answers (CrawlOpen has the rest).  A run id
that is generated is never taken, so every run here is a named one.
*)
EXTENDS Integers, FiniteSets

CONSTANTS Url, Proc, RunId,
          Manifest,       \* authorisation manifests: name -> the URLs in their scope
          ArchiveDeclared, \* those that declare web.archive.org
          Command,        \* the command lines that are given
          NoFile, None,
          MayDie,         \* whether processes may be killed
          MaxInvocations  \* bound: invocations of the program

SettingsAssumption ==
    /\ IsFiniteSet(Url) /\ MaxInvocations \in Nat /\ MayDie \in BOOLEAN
    /\ None \notin RunId \cup DOMAIN Manifest
    /\ \A m \in DOMAIN Manifest : Manifest[m] \subseteq Url
    /\ Command \subseteq
         [seeds : SUBSET Url, csv : {NoFile} \cup SUBSET Url, csvSeed : BOOLEAN, archive : BOOLEAN,
          manifest : DOMAIN Manifest \cup {None}, widens : BOOLEAN, tuning : Nat,
          resume : RunId \cup {None}, runId : RunId \cup {None}, waive : BOOLEAN, bestEffort : BOOLEAN]
    /\ \A c \in Command : c.resume # None \/ c.runId # None

VARIABLES runs,    \* run id -> its crawl_runs row
          row,     \* run id -> URL -> the status of its frontier row
          stored,  \* run id -> URLs with a persisted page
          job,     \* process -> its invocation
          invocations

vars == <<runs, row, stored, job, invocations>>

NoRun == [settings |-> None, status |-> "none", sessions |-> {}]
NoJob == [at |-> "idle", cmd |-> None, seeds |-> {}, settings |-> None, exit |-> -1,
          touched |-> FALSE, claimed |-> {}, flight |-> {}, unsaved |-> {}, unmarked |-> {}, stop |-> FALSE]

Init ==
    /\ runs = [r \in RunId |-> NoRun]
    /\ row = [r \in RunId |-> [u \in Url |-> "none"]]
    /\ stored = [r \in RunId |-> {}]
    /\ job = [p \in Proc |-> NoJob]
    /\ invocations = 0

Success == 0
Failure == 1
Validation == 2
Interrupted == 130

Set(p, j) == job' = [job EXCEPT ![p] = j]
Ended(j, code) == [j EXCEPT !.at = "ended", !.exit = code]
Cut(j) == [NoJob EXCEPT !.at = "ended", !.cmd = j.cmd, !.exit = Interrupted]
Chosen(c) == IF c.resume # None THEN c.resume ELSE c.runId

--------------------
\* The command line.

\* A CSV without seeds and without --csv-seed lends its first URL as a seed.
SeedsOf(c) ==
    IF c.csv \notin {NoFile, {}} /\ c.seeds = {} /\ ~c.csvSeed THEN {CHOOSE u \in c.csv : TRUE} ELSE c.seeds

\* crawl_many of the listed URLs instead of an open crawl.
IsListCrawl(c) == c.csv \notin {NoFile, {}} /\ ~c.csvSeed

Listed(c) == IF c.csv = NoFile THEN {} ELSE c.csv

IsRefusedByScope(c) ==
    /\ c.manifest # None
    /\ \/ c.widens
       \/ c.archive /\ c.manifest \notin ArchiveDeclared
       \/ ~(SeedsOf(c) \cup Listed(c) \subseteq Manifest[c.manifest])

IsRefused(c) ==
    \/ c.seeds = {} /\ c.csv = NoFile
    \/ c.seeds = {} /\ c.csv = {} /\ ~c.csvSeed
    \/ c.resume # None /\ c.runId # None
    \/ IsRefusedByScope(c)

Invoke(p, c) ==
    /\ job[p].at \in {"idle", "ended"} /\ invocations < MaxInvocations
    /\ invocations' = invocations + 1
    /\ LET open == IF c.csvSeed THEN Listed(c) \cup SeedsOf(c) ELSE SeedsOf(c)
           j == [NoJob EXCEPT !.cmd = c, !.seeds = open]
       IN Set(p, IF IsRefused(c) THEN Ended(j, Validation)
                 ELSE [j EXCEPT !.at = IF IsListCrawl(c) THEN "list" ELSE "archive"])
    /\ UNCHANGED <<runs, row, stored>>

\* crawl_list: the pages are fetched and stored; no run is looked at.
CrawlTheList(p) ==
    /\ job[p].at = "list"
    /\ \E code \in {Success, Interrupted} \cup (IF job[p].cmd.bestEffort THEN {} ELSE {Failure}) :
         Set(p, Ended(job[p], code))
    /\ UNCHANGED <<runs, row, stored, invocations>>

--------------------
\* The run is selected.

\* _crawl_run_config_snapshot: the manifest is part of it when there is one.
Settings(c, seeds) == [seeds |-> seeds, csv |-> Listed(c), csvSeed |-> c.csvSeed, archive |-> c.archive,
                       tuning |-> c.tuning, manifest |-> c.manifest]

\* archive.org adds what it answers to the seeds, and nothing when it fails.
\* A crawl without a seed ends there.
AskArchive(p) ==
    /\ job[p].at = "archive"
    /\ LET j == job[p]
       IN \E found \in IF j.cmd.archive /\ j.seeds # {} THEN SUBSET Url ELSE {{}} :
            LET seeds == j.seeds \cup found
            IN Set(p, IF seeds = {} THEN Ended(j, Success)
                      ELSE [j EXCEPT !.seeds = seeds, !.settings = Settings(j.cmd, seeds), !.at = "select"])
    /\ UNCHANGED <<runs, row, stored, invocations>>

IsSameManifest(run, settings) == run.settings.manifest = settings.manifest

ResumeIsRefusedUnlessWaived(run, j) ==
    \/ run = NoRun
    \/ (~IsSameManifest(run, j.settings) \/ run.settings # j.settings) /\ ~j.cmd.waive

ResumeIsRefused(run, j) ==
    \/ run = NoRun
    \/ ~IsSameManifest(run, j.settings)
    \/ run.settings # j.settings /\ ~j.cmd.waive

\* get_crawl_run and the comparison with what it returned.
SelectRun(p) ==
    /\ job[p].at = "select"
    /\ LET j == job[p] run == runs[Chosen(j.cmd)] resume == j.cmd.resume # None
       IN Set(p, IF (resume /\ ResumeIsRefused(run, j)) \/ (~resume /\ run # NoRun)
                 THEN Ended(j, Validation)
                 ELSE [j EXCEPT !.at = IF resume THEN "resume" ELSE "create"])
    /\ UNCHANGED <<runs, row, stored, invocations>>

Session(j) == [settings |-> j.settings, waived |-> j.cmd.waive, by |-> j.cmd, resumed |-> j.cmd.resume # None]

\* create_crawl_run: the insert does nothing when another process was first.
CreateRun(p) ==
    /\ job[p].at = "create"
    /\ LET j == job[p] r == Chosen(j.cmd)
       IN IF runs[r] # NoRun THEN Set(p, Ended(j, Validation)) /\ UNCHANGED runs
          ELSE /\ runs' = [runs EXCEPT ![r] = [settings |-> j.settings, status |-> "running",
                                              sessions |-> {Session(j)}]]
               /\ Set(p, [j EXCEPT !.at = "queue", !.touched = TRUE])
    /\ UNCHANGED <<row, stored, invocations>>

\* The row keeps the settings that it was created with.
ResumeRun(p) ==
    /\ job[p].at = "resume"
    /\ LET j == job[p] r == Chosen(j.cmd)
       IN /\ runs' = [runs EXCEPT ![r].status = "running", ![r].sessions = @ \cup {Session(j)}]
          /\ Set(p, [j EXCEPT !.at = "queue", !.touched = TRUE])
    /\ UNCHANGED <<row, stored, invocations>>

--------------------
\* The crawl.

\* A fresh run queues its seeds, a resumed one its pending rows.
QueueRows(p) ==
    /\ job[p].at = "queue"
    /\ LET j == job[p] r == Chosen(j.cmd)
       IN row' = [row EXCEPT ![r] = [u \in Url |->
            IF j.cmd.resume # None THEN (IF @[u] = "pending" THEN "queued" ELSE @[u])
            ELSE IF u \in j.seeds /\ @[u] = "none" THEN "queued" ELSE @[u]]]
    /\ Set(p, [job[p] EXCEPT !.at = "crawl"])
    /\ UNCHANGED <<runs, stored, invocations>>

Claim(p, u) ==
    /\ job[p].at = "crawl" /\ ~job[p].stop
    /\ LET r == Chosen(job[p].cmd)
       IN /\ row[r][u] = "queued"
          /\ row' = [row EXCEPT ![r][u] = "pending"]
    /\ Set(p, [job[p] EXCEPT !.claimed = @ \cup {u}, !.flight = @ \cup {u}])
    /\ UNCHANGED <<runs, stored, invocations>>

\* A page is stored and marked done, or one of the two fails.
Answer(p, u) ==
    /\ job[p].at = "crawl" /\ u \in job[p].flight
    /\ LET j == [job[p] EXCEPT !.flight = @ \ {u}] r == Chosen(j.cmd)
       IN \/ /\ stored' = [stored EXCEPT ![r] = @ \cup {u}]
             /\ row' = [row EXCEPT ![r][u] = "done"]
             /\ Set(p, j)
          \/ /\ stored' = [stored EXCEPT ![r] = @ \cup {u}]
             /\ Set(p, [j EXCEPT !.unmarked = @ \cup {u}])
             /\ UNCHANGED row
          \/ /\ Set(p, [j EXCEPT !.unsaved = @ \cup {u}])
             /\ UNCHANGED <<row, stored>>
    /\ UNCHANGED <<runs, invocations>>

FirstSignal(p) ==
    /\ job[p].at = "crawl" /\ ~job[p].stop
    /\ Set(p, [job[p] EXCEPT !.stop = TRUE])
    /\ UNCHANGED <<runs, row, stored, invocations>>

\* A second signal, or the end of the process.
Killed(p) ==
    /\ MayDie /\ job[p].at \in {"archive", "select", "create", "resume", "queue", "crawl"}
    /\ Set(p, Cut(job[p]))
    /\ UNCHANGED <<runs, row, stored, invocations>>

FinalStatus(j) ==
    IF j.stop THEN "interrupted"
    ELSE IF j.unsaved # {} \/ j.unmarked # {} THEN "complete_with_errors"
    ELSE "complete"

EffortExcusesAll(j) ==
    IF j.stop THEN Interrupted
    ELSE IF j.unmarked \cup j.unsaved # {} /\ ~j.cmd.bestEffort THEN Failure
    ELSE Success

\* resolve_crawl_exit_code
ExitCode(j) ==
    IF j.stop THEN Interrupted
    ELSE IF j.unmarked # {} THEN Failure
    ELSE IF j.unsaved # {} /\ ~j.cmd.bestEffort THEN Failure
    ELSE Success

Finish(p) ==
    /\ job[p].at = "crawl" /\ job[p].flight = {}
    /\ LET j == job[p] r == Chosen(j.cmd)
       IN /\ j.stop \/ \A u \in Url : row[r][u] # "queued"
          /\ runs' = [runs EXCEPT ![r].status = FinalStatus(j)]
          /\ Set(p, Ended(j, ExitCode(j)))
    /\ UNCHANGED <<row, stored, invocations>>

--------------------
Next ==
    \E p \in Proc :
        \/ \E c \in Command : Invoke(p, c)
        \/ CrawlTheList(p)
        \/ AskArchive(p)
        \/ SelectRun(p)
        \/ CreateRun(p)
        \/ ResumeRun(p)
        \/ QueueRows(p)
        \/ \E u \in Url : Claim(p, u) \/ Answer(p, u)
        \/ FirstSignal(p)
        \/ Killed(p)
        \/ Finish(p)

Spec == Init /\ [][Next]_vars

--------------------
(*
Properties.
*)

\* Whatever the processes do and whatever is waived, all sessions of a run
\* had the authorisation manifest it was created under (engine.py:210, run
\* ahead of the fingerprint so that the waiver cannot reach it).
ManifestIsNeverWaived ==
    \A r \in RunId : \A s \in runs[r].sessions : s.settings.manifest = runs[r].settings.manifest

\* A run is started once, and sessions of two fingerprints meet in it only if
\* one of them waived the comparison: neither two processes that choose one id
\* at a time, nor a resume beside a start, gets past that (engine.py:1786,
\* persistence.py:1720).
OnlyAWaiverMixesSettings ==
    \A r \in RunId : \A s, t \in runs[r].sessions :
        /\ s.settings # t.settings => s.waived \/ t.waived
        /\ ~s.resumed /\ ~t.resumed => s = t

\* An invocation refused with the validation code has not changed a run, even
\* when it lost the race for the id: "Validation errors (2) are returned
\* before the crawl runs" (exit_codes.py:13).
RefusalChangesNothing == \A p \in Proc : job[p].exit = Validation => ~job[p].touched

\* An exit code of 0 leaves every page of the session stored, unless best
\* effort was asked for, and never one whose row only seems unfinished
\* (exit_codes.py:15-18: the flag "does not hide failed frontier completion").
SuccessIsDurable ==
    \A p \in Proc : job[p].exit = Success /\ job[p].touched =>
        LET j == job[p] r == Chosen(j.cmd)
        IN \A u \in j.claimed : /\ u \in stored[r] \/ j.cmd.bestEffort
                                /\ u \in stored[r] => u \notin j.unmarked

\* No resume changes a run's manifest, its settings differ between sessions only
\* under a waiver, a refusal changes nothing, and success is what is stored.
RunsKeepTheirSettings ==
    /\ ManifestIsNeverWaived /\ OnlyAWaiverMixesSettings
    /\ RefusalChangesNothing /\ SuccessIsDurable

\* A run resumed with other seeds, the mismatch waived, crawls these when it
\* completes: the flag "exists to let an operator resume with different seeds
\* or crawl tuning" (engine.py:1790).
SeedsGivenAreCrawled ==
    \A p \in Proc : job[p].exit = Success /\ job[p].touched =>
        \A u \in job[p].seeds : row[Chosen(job[p].cmd)][u] # "none"

Invocation(c) == [c EXCEPT !.resume = None, !.runId = None]

\* The command that started a run resumes it when --resume is added: "Re-run
\* that explicit run with `--resume RUN_ID`" (README.md:932).
SameCommandResumes ==
    \A p \in Proc : LET c == job[p].cmd IN
        job[p].exit = Validation /\ c.resume # None /\ c.runId = None =>
            ~\E s \in runs[c.resume].sessions : ~s.resumed /\ Invocation(s.by) = Invocation(c)

\* A resume that succeeds has taken the run up: --resume is to "reset pending
\* URLs and finish the frontier" (README.md:932-933).
ResumeReachesTheRun ==
    \A p \in Proc : job[p].exit = Success /\ job[p].cmd.resume # None => job[p].touched
=============================================================================
