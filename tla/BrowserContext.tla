--------------------------- MODULE BrowserContext ---------------------------
(*
The shared browser context of PlaywrightBackend
(crawler_cli/backends.py): launched or borrowed lazily, replaced after
max_requests_per_context requests when no page is open on it, closed by
the engine without the backend's lock.

A context is the number under which it was made; 0 is the default
context of a browser that somebody else runs (CDP).  What a page does
between its opening and its closing is the browser's business.
*)
EXTENDS Integers, FiniteSets

CONSTANTS Task,         \* concurrent callers of fetch()
          MaxRequests,  \* max_requests_per_context, 0 for no limit
          MaxFetches    \* bound: calls of fetch()

\* The holder of a lock that nobody holds.
Nobody == "nobody"

ASSUME BrowserAssumption ==
    /\ IsFiniteSet(Task) /\ Nobody \notin Task
    /\ MaxRequests \in Nat /\ MaxFetches \in Nat

VARIABLES mode,              \* launched, cdp, cdp_bare (no default) or persistent
          started,           \* a browser, or a persistent context, is held
          context, owned,    \* _context and _owns_context
          requestCount, recycleRequested, activePages,
          lock,              \* the task inside _lock
          phase, page,       \* where each fetch is, and the context it works on
          live,              \* contexts open in the browser
          made, fetches,     \* contexts made and fetches begun so far
          closing            \* progress of close(): no, begun or closed

held == <<started, context, owned>>
counts == <<requestCount, recycleRequested, activePages>>
browserVars == <<mode, held, counts, lock, phase, page, live, made, fetches, closing>>

Default == 0
NoContext == -1
Modes == {"launched", "cdp", "cdp_bare", "persistent"}
\* Where fetch() awaits something while it holds the lock.
Locked == {"launching", "closing_old", "creating"}
Counted == {"open", "leaving"}
Phases == {"idle", "entering"} \cup Locked \cup Counted

In(places) == {t \in Task : phase[t] \in places}

BrowserInit ==
    /\ mode \in Modes
    /\ started = FALSE /\ context = NoContext /\ owned = TRUE
    /\ requestCount = 0 /\ recycleRequested = FALSE /\ activePages = 0
    /\ lock = Nobody
    /\ phase = [t \in Task |-> "idle"] /\ page = [t \in Task |-> NoContext]
    /\ live = IF mode = "cdp" THEN {Default} ELSE {}
    /\ made = 0 /\ fetches = 0
    /\ closing = "no"

Goto(t, next) == phase' = [phase EXCEPT ![t] = next]
Unlock == lock' = Nobody
Fresh == /\ requestCount' = 0 /\ recycleRequested' = FALSE

\* fetch() has come to its caller, with an answer or an exception.
Return(t) == Goto(t, "idle") /\ page' = [page EXCEPT ![t] = NoContext]

\* A context that has served its requests; a persistent one is never replaced.
IsUsedUp(n) == mode # "persistent" /\ MaxRequests > 0 /\ n >= MaxRequests

--------------------
\* The way in, up to the end of the first locked section of fetch().

CallFetch(t) ==
    /\ phase[t] = "idle" /\ fetches < MaxFetches
    /\ fetches' = fetches + 1
    /\ Goto(t, "entering")
    /\ UNCHANGED <<mode, held, counts, lock, page, live, made, closing>>

\* The section goes on with the context it finds: without one the assertion
\* fails.  A recycle that is due is looked for here, too, but none ever is:
\* RecycleHasACarrier.
EnterWarm(t) ==
    /\ phase[t] = "entering" /\ lock = Nobody /\ started
    /\ IF context = NoContext
       THEN Return(t) /\ UNCHANGED counts
       ELSE /\ Goto(t, "open") /\ page' = [page EXCEPT ![t] = context]
            /\ activePages' = activePages + 1
            /\ requestCount' = requestCount + 1
            /\ recycleRequested' = (recycleRequested \/ IsUsedUp(requestCount + 1))
    /\ UNCHANGED <<mode, held, lock, live, made, fetches, closing>>

EnterCold(t) ==
    /\ phase[t] = "entering" /\ lock = Nobody /\ ~started
    /\ lock' = t
    /\ Goto(t, "launching")
    /\ UNCHANGED <<mode, held, counts, page, live, made, fetches, closing>>

\* _ensure_started: a failure takes everything down again.
LaunchFails(t) ==
    /\ phase[t] = "launching"
    /\ Unlock /\ Return(t)
    /\ UNCHANGED <<mode, held, counts, live, made, fetches, closing>>

\* _create_context_locked: the default context of a borrowed browser if it
\* has one, a new one otherwise.
Borrows == mode = "cdp"

Launch(t) ==
    /\ phase[t] = "launching"
    /\ started' = TRUE /\ Unlock
    /\ IF Borrows
       THEN context' = Default /\ owned' = FALSE /\ UNCHANGED <<live, made>>
       ELSE /\ made' = made + 1 /\ context' = made + 1 /\ owned' = TRUE
            /\ live' = live \cup {made + 1}
    /\ Goto(t, "open") /\ page' = [page EXCEPT ![t] = context']
    /\ activePages' = activePages + 1
    /\ requestCount' = 1
    /\ recycleRequested' = IsUsedUp(1)
    /\ UNCHANGED <<mode, fetches, closing>>

--------------------
\* Recycling, under the lock.

\* Mutant: a borrowed context is closed like one's own.
CloseOldEvenBorrowed(old) == live \ {old}

\* The old context goes, unless it is somebody else's.
CloseOld(old) == IF owned THEN live \ {old} ELSE live

\* _recycle_context_locked up to its first await.
Recycle(t) ==
    /\ lock' = t /\ Goto(t, "closing_old")
    /\ page' = [page EXCEPT ![t] = context]
    /\ context' = NoContext
    /\ Fresh

\* The old context has been closed; closing may also fail and leave it open.
OldIsClosed(t) ==
    /\ phase[t] = "closing_old"
    /\ live' \in {CloseOld(page[t]), live}
    /\ Goto(t, "creating")
    /\ UNCHANGED <<mode, held, counts, lock, page, made, fetches, closing>>

\* browser.contexts()[0] of a borrowed browser: its default, or the old context
\* if it could not be closed.
Existing(t) ==
    IF Borrows THEN {Default}
    ELSE IF mode = "cdp_bare" THEN live \cap {page[t]} ELSE {}

\* The context to go on with: an existing one of a borrowed browser, or a new
\* one.
Create(t) ==
    /\ phase[t] = "creating" /\ started
    /\ IF Existing(t) # {}
       THEN context' \in Existing(t) /\ owned' = FALSE /\ UNCHANGED <<live, made>>
       ELSE /\ made' = made + 1 /\ context' = made + 1 /\ owned' = TRUE
            /\ live' = live \cup {made + 1}
    /\ Unlock /\ Return(t) /\ Fresh
    /\ UNCHANGED <<mode, started, activePages, fetches, closing>>

\* new_context raises, and with it fetch(): nothing takes the old one's place.
CreateFails(t) ==
    /\ phase[t] = "creating" /\ started /\ Existing(t) = {}
    /\ Unlock /\ Return(t)
    /\ UNCHANGED <<mode, held, counts, live, made, fetches, closing>>

\* close() took the browser away during the recycle: no new context is made.
BrowserGone(t) ==
    /\ phase[t] = "creating" /\ ~started
    /\ Unlock /\ Return(t)
    /\ UNCHANGED <<mode, held, counts, live, made, fetches, closing>>

--------------------
\* The way out.

\* The page has been read, or failed in any way, and is closed.
PageEnds(t) ==
    /\ phase[t] = "open"
    /\ Goto(t, "leaving")
    /\ UNCHANGED <<mode, held, counts, lock, page, live, made, fetches, closing>>

\* Mutants: a recycle is carried out although pages are open; the last page
\* leaves it to the next fetch.
LeaveRecyclingUnderPages(t) ==
    /\ phase[t] = "leaving" /\ lock = Nobody
    /\ activePages' = IF activePages > 0 THEN activePages - 1 ELSE 0
    /\ IF recycleRequested
       THEN Recycle(t) /\ UNCHANGED <<started, owned>>
       ELSE Return(t) /\ UNCHANGED <<held, requestCount, recycleRequested, lock>>
    /\ UNCHANGED <<mode, live, made, fetches, closing>>

LeaveWithoutRecycling(t) ==
    /\ phase[t] = "leaving" /\ lock = Nobody
    /\ activePages' = IF activePages > 0 THEN activePages - 1 ELSE 0
    /\ Return(t)
    /\ UNCHANGED <<mode, held, requestCount, recycleRequested, lock, live, made,
                   fetches, closing>>

Leave(t) ==
    /\ phase[t] = "leaving" /\ lock = Nobody
    /\ activePages' = IF activePages > 0 THEN activePages - 1 ELSE 0
    /\ IF recycleRequested /\ activePages' = 0
       THEN Recycle(t) /\ UNCHANGED <<started, owned>>
       ELSE Return(t) /\ UNCHANGED <<held, requestCount, recycleRequested, lock>>
    /\ UNCHANGED <<mode, live, made, fetches, closing>>

\* close() does not take the lock.  It closes the context first ...
BeginClose ==
    /\ closing = "no" /\ started
    /\ closing' = "begun"
    /\ live' = CloseOld(context)
    /\ UNCHANGED <<mode, held, counts, lock, phase, page, made, fetches>>

\* ... and then the browser, and forgets everything.
EndClose ==
    /\ closing = "begun"
    /\ closing' = "closed"
    /\ started' = FALSE /\ context' = NoContext
    /\ Fresh /\ activePages' = 0
    /\ live' = live \cap {Default}
    /\ UNCHANGED <<mode, owned, lock, phase, page, made, fetches>>

Step(t) ==
    \/ EnterCold(t) \/ EnterWarm(t) \/ LaunchFails(t) \/ Launch(t)
    \/ OldIsClosed(t) \/ Create(t) \/ CreateFails(t) \/ BrowserGone(t)
    \/ PageEnds(t) \/ Leave(t)

BrowserNext == (\E t \in Task : CallFetch(t) \/ Step(t)) \/ BeginClose \/ EndClose

BrowserSpec == BrowserInit /\ [][BrowserNext]_browserVars

--------------------
BrowserTypes ==
    /\ mode \in Modes
    /\ started \in BOOLEAN /\ owned \in BOOLEAN
    /\ context \in {NoContext} \cup Nat
    /\ requestCount \in Nat /\ recycleRequested \in BOOLEAN /\ activePages \in Nat
    /\ lock \in Task \cup {Nobody}
    /\ phase \in [Task -> Phases] /\ page \in [Task -> {NoContext} \cup Nat]
    /\ live \subseteq Nat
    /\ made \in Nat /\ fetches \in Nat
    /\ closing \in {"no", "begun", "closed"}

\* No page loses the context under it to the recycle of another fetch, however
\* their requests overlap: only close() takes it away.
PagesKeepTheirContext ==
    closing = "no" => \A t \in In({"open"}) : page[t] \in live

\* The default context of a browser that somebody else runs outlives every
\* recycle, failure and close().
BorrowedIsKept == mode = "cdp" => Default \in live

\* No context is closed under a page or taken from its owner.
ContextsAreKept == PagesKeepTheirContext /\ BorrowedIsKept

\* A recycle that was requested has a page whose end will carry it out: it is
\* never left to a fetch that may not come.
RecycleHasACarrier == recycleRequested /\ lock = Nobody => activePages > 0

\* A context lasts as long as its pages, and no longer than they carry it.
ContextsServeTheirPages == ContextsAreKept /\ RecycleHasACarrier

=============================================================================
