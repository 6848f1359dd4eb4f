----------------------------- MODULE ProxyPool ------------------------------
(*
The proxy pool of a fetch backend (crawler_cli/proxy_pool.py): a list
of proxies, chosen in turn or kept per host, benched for a while after
max_failures failures in a row, or one gateway.

Each method holds the pool's lock, so each is one action.  Proxies are
their places in the list; cooling is the time until cooled_until.  The
rotation index grows without end in the code but is only used modulo a
length up to Size; Period is a common multiple of those.
*)
EXTENDS Integers, FiniteSets, SequencesExt

CONSTANTS Host,
          Size,          \* proxies in the list, one of them in gateway mode
          Period,
          FailureLimits, \* what proxy_max_failures may be
          Cooldown       \* proxy_cooldown_seconds

PoolConstants ==
    /\ Size \in Nat \ {0} /\ FailureLimits \subseteq Nat \ {0} /\ Cooldown \in Nat \ {0}
    /\ Period \in Nat \ {0} /\ \A n \in 1..Size : Period % n = 0

VARIABLES rotation,   \* gateway, round-robin or per-host
          maxFailures,
          failures,   \* consecutive_failures of each proxy
          cooling,
          rrIndex,    \* _rr_index
          assigned,   \* _host_assignments, NoProxy without one
          passedOver  \* history, round-robin: selections since a proxy was last
                      \* selected or came back into rotation

poolVars == <<rotation, maxFailures, failures, cooling, rrIndex, assigned, passedOver>>

Proxy == 1..Size
NoProxy == 0
Rotations == {"gateway", "round-robin", "per-host"}

PoolInit ==
    /\ rotation \in Rotations /\ maxFailures \in FailureLimits
    /\ failures = [p \in Proxy |-> 0]
    /\ cooling = [p \in Proxy |-> 0]
    /\ rrIndex = 0
    /\ assigned = [h \in Host |-> NoProxy]
    /\ passedOver = [p \in Proxy |-> 0]

Available == {p \in Proxy : cooling[p] = 0}

\* All cooling down: the one closest to recovery, the first of the list if
\* there are several.
ClosestToRecovery ==
    CHOOSE p \in Proxy : \A q \in Proxy :
        cooling[p] < cooling[q] \/ (cooling[p] = cooling[q] /\ p <= q)

\* _select_round_robin: the next available proxy from the index on.
Ahead(p) == (p - 1 - rrIndex) % Size
NextLive == CHOOSE p \in Available : \A q \in Available : Ahead(p) <= Ahead(q)

\* Mutant: the index stays at the proxy that was chosen.
RoundRobinStays(p) ==
    /\ p = IF Available # {} THEN NextLive ELSE ClosestToRecovery
    /\ rrIndex' = IF Available # {} THEN p - 1 ELSE rrIndex
    /\ UNCHANGED assigned

SelectRoundRobin(p) ==
    /\ p = IF Available # {} THEN NextLive ELSE ClosestToRecovery
    /\ rrIndex' = IF Available # {} THEN p % Size ELSE rrIndex
    /\ UNCHANGED assigned

\* _select_per_host: the host's own proxy while it is available, or a fresh
\* one of those available.  The index counts in the list of those.
KeepsAssignment(host) == assigned[host] # NoProxy /\ cooling[assigned[host]] = 0

LiveList == SetToSortSeq(Available, <)

\* Mutant: every request of a host is a fresh choice.
SelectPerRequest(host, p) ==
    /\ p = IF Available # {} THEN LiveList[(rrIndex % Len(LiveList)) + 1]
           ELSE ClosestToRecovery
    /\ rrIndex' = (rrIndex + 1) % Period
    /\ assigned' = [assigned EXCEPT ![host] = p]

SelectPerHost(host, p) ==
    IF KeepsAssignment(host)
    THEN p = assigned[host] /\ UNCHANGED <<rrIndex, assigned>>
    ELSE /\ IF Available # {}
            THEN /\ p = LiveList[(rrIndex % Len(LiveList)) + 1]
                 /\ rrIndex' = (rrIndex + 1) % Period
            ELSE p = ClosestToRecovery /\ UNCHANGED rrIndex
         /\ assigned' = [assigned EXCEPT ![host] = p]

Select(host, p) ==
    /\ \/ rotation = "gateway" /\ p = 1 /\ UNCHANGED <<rrIndex, assigned>>
       \/ rotation = "round-robin" /\ SelectRoundRobin(p)
       \/ rotation = "per-host" /\ SelectPerHost(host, p)
    /\ passedOver' = [q \in Proxy |->
           IF rotation # "round-robin" \/ q = p \/ cooling[q] > 0 THEN 0
           ELSE passedOver[q] + 1]
    /\ UNCHANGED <<rotation, maxFailures, failures, cooling>>

ReportSuccess(p) ==
    /\ failures' = [failures EXCEPT ![p] = 0]
    /\ UNCHANGED <<rotation, maxFailures, cooling, rrIndex, assigned, passedOver>>

\* A list proxy is benched at its maxFailures-th failure in a row, also when
\* the failure is one of a request that began before it was benched last.
ReportFailure(p) ==
    /\ IF rotation # "gateway" /\ failures[p] + 1 >= maxFailures
       THEN /\ failures' = [failures EXCEPT ![p] = 0]
            /\ cooling' = [cooling EXCEPT ![p] = Cooldown]
            /\ assigned' = [h \in Host |-> IF assigned[h] = p THEN NoProxy
                                           ELSE assigned[h]]
            /\ passedOver' = [passedOver EXCEPT ![p] = 0]
       ELSE /\ failures' = IF rotation = "gateway" THEN failures
                           ELSE [failures EXCEPT ![p] = @ + 1]
            /\ UNCHANGED <<cooling, assigned, passedOver>>
    /\ UNCHANGED <<rotation, maxFailures, rrIndex>>

PoolTick ==
    /\ \E p \in Proxy : cooling[p] > 0
    /\ cooling' = [p \in Proxy |-> IF cooling[p] > 0 THEN cooling[p] - 1 ELSE 0]
    /\ UNCHANGED <<rotation, maxFailures, failures, rrIndex, assigned, passedOver>>

--------------------
PoolTypes ==
    /\ rotation \in Rotations /\ maxFailures \in FailureLimits
    /\ failures \in [Proxy -> 0..(maxFailures - 1)]
    /\ cooling \in [Proxy -> 0..Cooldown]
    /\ rrIndex \in Nat
    /\ assigned \in [Host -> Proxy \cup {NoProxy}]
    /\ passedOver \in [Proxy -> Nat]

\* "Each select advances to the next live proxy": whatever proxies are benched
\* and come back in between, no live one is passed over by Size selections.
RotationIsFair ==
    rotation = "round-robin" => \A p \in Available : passedOver[p] < Size

\* A host is stuck to its proxy and "re-chosen only if evicted": while other
\* hosts rotate and other proxies fail, it changes only while its own is cooling.
HostsKeepTheirProxy ==
    [][\A h \in Host : rotation = "per-host" /\ KeepsAssignment(h)
           => assigned'[h] = assigned[h] \/ cooling'[assigned[h]] > 0]_poolVars

=============================================================================
