--------------------------- MODULE CrawlLauncher ----------------------------
(*
CrawlLauncher of crawler_gui/server.py: requests to start or resume a
crawl, each answered by spawning a crawler process or with 409 while
another job runs, and the watcher of each process.  A resume first
reads its plan from the database (LiveStore.resume_plan), and its
process (crawler_gui/resume.py) looks at the run again.

Handlers interleave at their awaits: the two queries of the plan and
the start of the process.
*)
CONSTANTS Job,  \* requests, each made at most once
          CrawlRun

VARIABLES runStatus,  \* crawl_runs.status: absent, running or ended
          runWork,    \* runs with queued or pending rows
          jobState,   \* CrawlJob.state, none without a job
          activeId,   \* _active_id
          request,    \* how far the handler of each request is
          jobRun,     \* the run of each request
          process,    \* of each job: none, starting, working, exited
          watched     \* jobs with a watcher

launcherVars == <<runStatus, runWork, jobState, activeId, request, jobRun, process, watched>>

NoJobId == "nobody"
Requests == {"none", "planning", "planned", "spawning", "resuming", "accepted",
             "refused", "error"}

LauncherInit ==
    /\ runStatus = [r \in CrawlRun |-> "absent"] /\ runWork = {}
    /\ jobState = [j \in Job |-> "none"] /\ activeId = NoJobId
    /\ request = [j \in Job |-> "none"]
    /\ jobRun \in [Job -> CrawlRun]
    /\ process = [j \in Job |-> "none"] /\ watched = {}

\* active_job()
IsBusy == \E j \in Job : activeId = j /\ jobState[j] = "running"

Handler(j, from, to) ==
    /\ request[j] = from /\ request' = [request EXCEPT ![j] = to]
    /\ UNCHANGED jobRun

--------------------
\* Mutant: the slot is not reserved while the process is awaited.
ReserveOrRefuseLate(j, from, to) ==
    /\ Handler(j, from, IF IsBusy THEN "refused" ELSE to)
    /\ UNCHANGED <<jobState, activeId>>

\* The slot is reserved before the process is awaited.
ReserveOrRefuse(j, from, to) ==
    IF IsBusy THEN Handler(j, from, "refused") /\ UNCHANGED <<jobState, activeId>>
    ELSE /\ Handler(j, from, to)
         /\ jobState' = [jobState EXCEPT ![j] = "running"] /\ activeId' = j

\* start()
Start(j) ==
    /\ ReserveOrRefuse(j, "none", "spawning")
    /\ UNCHANGED <<runStatus, runWork, process, watched>>

\* resume_plan reads the run's row, then the counts of its frontier.
ReadRow(j) ==
    /\ Handler(j, "none", IF runStatus[jobRun[j]] = "ended" THEN "planning" ELSE "refused")
    /\ UNCHANGED <<runStatus, runWork, jobState, activeId, process, watched>>

ReadCounts(j) ==
    /\ Handler(j, "planning", IF jobRun[j] \in runWork THEN "planned" ELSE "refused")
    /\ UNCHANGED <<runStatus, runWork, jobState, activeId, process, watched>>

Resume(j) ==
    /\ ReserveOrRefuse(j, "planned", "resuming")
    /\ UNCHANGED <<runStatus, runWork, process, watched>>

\* create_subprocess_exec returns.
Spawned(j) ==
    /\ \E from \in {"spawning", "resuming"} : Handler(j, from, "accepted")
    /\ process' = [process EXCEPT ![j] = IF request[j] = "resuming" THEN "rereading" ELSE "starting"]
    /\ watched' = watched \cup {j}
    /\ UNCHANGED <<runStatus, runWork, jobState, activeId>>

\* Also when the process has ended before it was given its input.
SpawnFails(j) ==
    /\ \E from \in {"spawning", "resuming"} : Handler(j, from, "error")
    /\ jobState' = [jobState EXCEPT ![j] = "failed"]
    /\ UNCHANGED <<runStatus, runWork, activeId, process, watched>>

--------------------
\* The crawler process: a new run is created unless its id is taken, a resumed
\* one is crawled if work is left.
Becomes(j, next) ==
    /\ process' = [process EXCEPT ![j] = next]
    /\ UNCHANGED <<jobState, activeId, request, jobRun, watched>>

Begin(j) ==
    LET r == jobRun[j]
        mayWork == \/ process[j] = "starting" /\ runStatus[r] = "absent"
                   \/ process[j] = "rereading" /\ r \in runWork
    IN  /\ process[j] \in {"starting", "rereading"}
        /\ IF mayWork
           THEN /\ Becomes(j, "working")
                /\ runStatus' = [runStatus EXCEPT ![r] = "running"]
                /\ runWork' = runWork \cup {r}
           ELSE Becomes(j, "exited") /\ UNCHANGED <<runStatus, runWork>>

\* It ends, with or without work left, or dies and leaves its run marked.
End(j) ==
    /\ process[j] = "working"
    /\ Becomes(j, "exited")
    /\ \/ /\ runStatus' = [runStatus EXCEPT ![jobRun[j]] = "ended"]
          /\ runWork' \in {runWork, runWork \ {jobRun[j]}}
       \/ UNCHANGED <<runStatus, runWork>>

\* _watch reads the output to its end and enters the exit code.
WatchEnds(j) ==
    /\ j \in watched /\ process[j] = "exited"
    /\ \E state \in {"succeeded", "failed"} : jobState' = [jobState EXCEPT ![j] = state]
    /\ watched' = watched \ {j}
    /\ UNCHANGED <<runStatus, runWork, activeId, request, jobRun, process>>

\* A line of output that is longer than the stream's limit ends the watcher.
WatchRaises(j) ==
    /\ j \in watched /\ process[j] \in {"working", "exited"}
    /\ watched' = watched \ {j}
    /\ UNCHANGED <<runStatus, runWork, jobState, activeId, request, jobRun, process>>

LauncherNext ==
    \E j \in Job :
        \/ Start(j) \/ ReadRow(j) \/ ReadCounts(j) \/ Resume(j)
        \/ Spawned(j) \/ SpawnFails(j)
        \/ Begin(j) \/ End(j)
        \/ WatchEnds(j) \/ WatchRaises(j)

LauncherSpec == LauncherInit /\ [][LauncherNext]_launcherVars

--------------------
LauncherTypes ==
    /\ runStatus \in [CrawlRun -> {"absent", "running", "ended"}]
    /\ runWork \subseteq CrawlRun
    /\ jobState \in [Job -> {"none", "running", "succeeded", "failed"}]
    /\ activeId \in Job \cup {NoJobId}
    /\ request \in [Job -> Requests] /\ jobRun \in [Job -> CrawlRun]
    /\ process \in [Job -> {"none", "starting", "rereading", "working", "exited"}]
    /\ watched \subseteq Job

\* "One job at a time" (crawler_gui/README.md): however requests, their plans and
\* their spawns overlap, and whatever becomes of a watcher, one process at most
\* is being spawned or at work.
AtWork == {j \in Job : request[j] \in {"spawning", "resuming"}
                       \/ process[j] \in {"starting", "rereading", "working"}}
OneAtATime == \A i, j \in AtWork : i = j

=============================================================================
