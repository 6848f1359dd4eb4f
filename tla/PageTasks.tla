----------------------------- MODULE PageTasks ------------------------------
(*
crawl() of crawler_cli/engine.py from its gate to its end, for the
pages of one host: a page that was answered reads the scripts and
stylesheets it links, follows the imports of the stylesheets, and may
be rendered once more in a browser, all while it holds its slot of the
engine.

The first page that needs a script or stylesheet starts a task for it,
which every page awaits that needs it later; the task queues for the
host like a page, but holds no slot of the engine.
*)
EXTENDS HostGate

CONSTANTS Import,        \* for each stylesheet, the resources it imports
          MaxFiles,      \* max_css_files_per_page
          MaxDepth,      \* max_css_import_depth
          MaxRenders,    \* max_render_discovery_pages
          RenderSlots    \* slots of the render discovery semaphore

VARIABLES scan,      \* the shared task of each resource and its outcome
          toRead,    \* per page, <<resource, import depth>> still to be read
          seen,      \* per page, the resources it has read
          awaits,    \* per page, the entry whose task it awaits, if any
          render,    \* per page, where its rendering is
          renders    \* render discovery attempts of the run

pageVars == <<toRead, seen, awaits, render>>
taskVars == <<vars, pageVars, scan, renders>>

Resource == Task \ Page
NoEntry == <<>>
TasksInit ==
    /\ Init
    /\ scan = [r \in Resource |-> "none"]
    /\ toRead = [p \in Page |-> {}] /\ seen = [p \in Page |-> {}]
    /\ awaits = [p \in Page |-> NoEntry]
    /\ render = [p \in Page |-> "no"]
    /\ renders = 0

--------------------
\* The shared tasks.  Whatever goes wrong, the outcome is an empty scan, and
\* it is kept for the run.

\* create_task: the task goes to the host's gate, or stops before it because
\* robots.txt or the connection policy refuses it.
Start(r) == Begin(r)

\* Mutant: the task queues for a slot of the engine before it goes to the host.
ResourceTakesSlot(r) ==
    /\ phase[r] = "gated" => Cardinality(HasEngineSlot) < MaxConcurrency
    /\ Admitted(r) \/ Acquire(r) \/ Respond(r)
    /\ UNCHANGED scan

ResourceGoesOn(r) == (Admitted(r) \/ Acquire(r) \/ Respond(r)) /\ UNCHANGED scan

ResourceFails(r) ==
    /\ Refused(r) \/ Raise(r) \/ Finish(r)
    /\ scan' = [scan EXCEPT ![r] = "empty"]

ResourceIsScanned(r) ==
    /\ Finish(r)
    /\ scan' = [scan EXCEPT ![r] = "scanned"]

ResourceStep(r) ==
    /\ ResourceGoesOn(r) \/ ResourceFails(r) \/ ResourceIsScanned(r)
    /\ UNCHANGED <<pageVars, renders>>

--------------------
\* The pages.

BeginPage(p) == Begin(p) /\ UNCHANGED <<pageVars, scan, renders>>

PageGate(p) ==
    /\ Refused(p) \/ Admitted(p) \/ Acquire(p) \/ Raise(p)
    /\ UNCHANGED <<pageVars, scan, renders>>

\* The answer is parsed at once; a page may link any resources.
PageAnswers(p) ==
    /\ Respond(p)
    /\ \E linked \in SUBSET Resource :
          toRead' = [toRead EXCEPT ![p] = linked \X {0}]
    /\ UNCHANGED <<seen, awaits, render, scan, renders>>

Unread(p) == {e \in toRead[p] : e[1] \notin seen[p]}
Reading(p) == awaits[p] # NoEntry
MayReadOn(p) == ~Reading(p) /\ Unread(p) # {} /\ Cardinality(seen[p]) < MaxFiles

\* _javascript_literals_for_resource and _css_tokens_for_resource: the task of
\* the resource is started if nobody has, and awaited.
Read(p) ==
    /\ phase[p] = "answered" /\ render[p] = "no" /\ MayReadOn(p)
    /\ \E e \in Unread(p) :
          /\ toRead' = [toRead EXCEPT ![p] = @ \ {e}]
          /\ seen' = [seen EXCEPT ![p] = @ \cup {e[1]}]
          /\ awaits' = [awaits EXCEPT ![p] = e]
          /\ \/ scan[e[1]] # "none" /\ UNCHANGED <<vars, scan>>
             \/ scan[e[1]] = "none" /\ Start(e[1])
                /\ scan' = [scan EXCEPT ![e[1]] = "running"]
             \/ scan[e[1]] = "none" /\ UNCHANGED vars
                /\ scan' = [scan EXCEPT ![e[1]] = "empty"]
    /\ UNCHANGED <<render, renders>>

\* The imports of a stylesheet are read in their turn, down to the depth.
ImportsOf(p, e) ==
    IF scan[e[1]] = "scanned" /\ e[2] < MaxDepth
    THEN (Import[e[1]] \ seen[p]) \X {e[2] + 1} ELSE {}

\* The awaited task has ended; a page with enough candidates reads no further.
HasRead(p) ==
    /\ Reading(p) /\ scan[awaits[p][1]] \in {"empty", "scanned"}
    /\ toRead' \in {[toRead EXCEPT ![p] = @ \cup ImportsOf(p, awaits[p])],
                    [toRead EXCEPT ![p] = {}]}
    /\ awaits' = [awaits EXCEPT ![p] = NoEntry]
    /\ UNCHANGED <<vars, seen, scan, render, renders>>

HasReadAll(p) == phase[p] = "answered" /\ ~Reading(p) /\ ~MayReadOn(p)
Rendering == {p \in Page : render[p] = "fetching"}

\* _run_auxiliary_render_discovery: one attempt of the run's, then a slot of
\* the render semaphore, then a fetch in the browser.
AskForRender(p) ==
    /\ HasReadAll(p) /\ render[p] = "no" /\ renders < MaxRenders
    /\ renders' = renders + 1
    /\ render' = [render EXCEPT ![p] = "queued"]
    /\ UNCHANGED <<vars, toRead, seen, awaits, scan>>

BeginRender(p) ==
    /\ render[p] = "queued" /\ Cardinality(Rendering) < RenderSlots
    /\ render' = [render EXCEPT ![p] = "fetching"]
    /\ UNCHANGED <<vars, toRead, seen, awaits, scan, renders>>

EndRender(p) ==
    /\ render[p] = "fetching"
    /\ render' = [render EXCEPT ![p] = "done"]
    /\ UNCHANGED <<vars, toRead, seen, awaits, scan, renders>>

\* The breaker hears of the page, the store gets it, its slot is free.
PageEnds(p) ==
    /\ HasReadAll(p) /\ render[p] \in {"no", "done"}
    /\ Finish(p)
    /\ toRead' = [toRead EXCEPT ![p] = {}] /\ seen' = [seen EXCEPT ![p] = {}]
    /\ render' = [render EXCEPT ![p] = "no"]
    /\ UNCHANGED <<awaits, scan, renders>>

PageStep(p) ==
    \/ PageGate(p) \/ PageAnswers(p)
    \/ Read(p) \/ HasRead(p)
    \/ AskForRender(p) \/ BeginRender(p) \/ EndRender(p)
    \/ PageEnds(p)

TasksTick == Tick /\ UNCHANGED <<pageVars, scan, renders>>

TasksNext ==
    \/ \E p \in Page : BeginPage(p) \/ PageStep(p)
    \/ \E r \in Resource : ResourceStep(r)
    \/ TasksTick

TasksSpec == TasksInit /\ [][TasksNext]_taskVars

\* Tasks that can run do, the semaphores serve their waiters in order, pages
\* keep coming and time passes.
TasksFairSpec ==
    /\ TasksSpec
    /\ WF_taskVars(TasksTick)
    /\ WF_taskVars(\E p \in Page : BeginPage(p))
    /\ \A p \in Page : SF_taskVars(PageStep(p))
    /\ \A r \in Resource : SF_taskVars(ResourceStep(r))

--------------------
\* No page waits for ever: pages hold their slots of the engine while they
\* await tasks that queue for the same host, stylesheets import each other,
\* and several pages share one task, but none of them waits on a waiter.
PagesEnd == \A p \in Page : phase[p] # "idle" ~> phase[p] = "idle"

\* Neither a page nor an open breaker keeps others out for ever.
NothingIsHeldForEver == PagesEnd /\ OpenLetsGo

=============================================================================
