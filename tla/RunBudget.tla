----------------------------- MODULE RunBudget -----------------------------
(*
The run-scoped ledger of crawler_cli/budget.py.  A request takes a slot
before its connection is opened (reserve), leases the bytes of every
bounded read before it reads (reserve_bytes), commits what the read
really returned (settle_bytes), charges output the decoder still owed
at end of file (record_decoded_bytes) and gives its slot back (settle).

Each method runs under self._lock and awaits nothing while it holds it,
so each is one action.  A call the code answers with ValueError changes
nothing: the condition it checks is the action's guard.

A limit of 0 means unlimited, as in the code.  The plain aggregates
_wire_bytes and _decoded_bytes are left out: no method reads them.  The
entry the code deletes from _response_bytes when a request settles is
kept here as history; no action reads it again.
*)
EXTENDS Integers, FiniteSets

CONSTANTS Request,      \* the reservation ids of a run, used at most once each
          MaxRequests,  \* max_requests, 0 for no limit
          MaxBytes,     \* max_bytes, 0 for no limit
          MaxWanted,    \* the largest read a client asks a lease for
          MaxLeases     \* bound on the number of leases ever taken

ASSUME BudgetAssumption ==
    /\ IsFiniteSet(Request)
    /\ MaxRequests \in Nat
    /\ MaxBytes \in Nat
    /\ MaxWanted \in Nat \ {0}
    /\ MaxLeases \in Nat

VARIABLES requestsStarted, requestsInFlight, accountedBytes, bytesReserved,
          issued,              \* ids below _next_reservation_id
          activeReservations,  \* requests holding a slot
          responseBytes,       \* wire and decoded bytes of each request
          activeByteLeases,    \* outstanding leases
          nextLeaseId, stopReason,
          flushedBytes         \* history: bytes charged without a lease

ledgerVars == <<requestsStarted, requestsInFlight, accountedBytes,
                bytesReserved, issued, activeReservations, responseBytes,
                activeByteLeases, nextLeaseId, stopReason, flushedBytes>>

NoStop == "none"
StopReasons == {NoStop, "max_requests", "max_bytes"}
ByteReservation == [id : Nat, owner : Request, size : Nat \ {0}]

Larger(a, b) == IF a > b THEN a ELSE b
Smaller(a, b) == IF a < b THEN a ELSE b

\* What one response costs the run: the larger of its two dimensions.
Charge(bytes) == Larger(bytes.wire, bytes.decoded)

--------------------
LedgerInit ==
    /\ requestsStarted = 0 /\ requestsInFlight = 0
    /\ accountedBytes = 0 /\ bytesReserved = 0
    /\ issued = {} /\ activeReservations = {}
    /\ responseBytes = [r \in Request |-> [wire |-> 0, decoded |-> 0]]
    /\ activeByteLeases = {} /\ nextLeaseId = 0
    /\ stopReason = NoStop
    /\ flushedBytes = 0

\* self._stop_reason = self._stop_reason or reason
RecordStop(reason) ==
    stopReason' = IF stopReason = NoStop THEN reason ELSE stopReason

\* Mutant: the delta is charged by itself, which undercounts a response whose
\* wire and decoded bytes arrive in different reads.
RecordResponseBytesByDelta(r, wire, decoded) ==
    /\ responseBytes' = [responseBytes EXCEPT ![r].wire = @ + wire,
                                              ![r].decoded = @ + decoded]
    /\ accountedBytes' = accountedBytes + Larger(wire, decoded)

RecordResponseBytes(r, wire, decoded) ==
    LET old == responseBytes[r]
        new == [wire |-> old.wire + wire, decoded |-> old.decoded + decoded]
    IN  /\ responseBytes' = [responseBytes EXCEPT ![r] = new]
        /\ accountedBytes' = accountedBytes + (Charge(new) - Charge(old))

--------------------
\* reserve(): one request slot, or the sticky stop.
RequestsLeft == MaxRequests = 0 \/ requestsStarted < MaxRequests

Reserve(r) ==
    /\ r \notin issued
    /\ RequestsLeft
    /\ requestsStarted' = requestsStarted + 1
    /\ requestsInFlight' = requestsInFlight + 1
    /\ issued' = issued \cup {r}
    /\ activeReservations' = activeReservations \cup {r}
    /\ responseBytes' = [responseBytes EXCEPT ![r] = [wire |-> 0, decoded |-> 0]]
    /\ UNCHANGED <<accountedBytes, bytesReserved, activeByteLeases,
                   nextLeaseId, stopReason, flushedBytes>>

ReserveRefused ==
    /\ ~RequestsLeft
    /\ RecordStop("max_requests")
    /\ UNCHANGED <<requestsStarted, requestsInFlight, accountedBytes,
                   bytesReserved, issued, activeReservations, responseBytes,
                   activeByteLeases, nextLeaseId, flushedBytes>>

--------------------
\* reserve_bytes(): up to the wanted bytes, never more than what neither the
\* charged bytes nor the outstanding leases have claimed.
\* Mutant: outstanding leases are forgotten.
RemainingBytesUnleased == MaxBytes - accountedBytes

RemainingBytes == MaxBytes - accountedBytes - bytesReserved
BytesLeft == MaxBytes = 0 \/ RemainingBytes > 0
Allowed(wanted) == IF MaxBytes = 0 THEN wanted ELSE Smaller(wanted, RemainingBytes)

NewLease(r, wanted) == [id |-> nextLeaseId, owner |-> r, size |-> Allowed(wanted)]

ReserveBytes(r, wanted) ==
    /\ r \in activeReservations
    /\ BytesLeft
    /\ nextLeaseId < MaxLeases
    /\ bytesReserved' = bytesReserved + Allowed(wanted)
    /\ activeByteLeases' = activeByteLeases \cup {NewLease(r, wanted)}
    /\ nextLeaseId' = nextLeaseId + 1
    /\ UNCHANGED <<requestsStarted, requestsInFlight, accountedBytes, issued,
                   activeReservations, responseBytes, stopReason, flushedBytes>>

ReserveBytesRefused(r) ==
    /\ r \in activeReservations
    /\ ~BytesLeft
    /\ RecordStop("max_bytes")
    /\ UNCHANGED <<requestsStarted, requestsInFlight, accountedBytes,
                   bytesReserved, issued, activeReservations, responseBytes,
                   activeByteLeases, nextLeaseId, flushedBytes>>

\* settle_bytes(): release the lease and charge what was read under it.
SettleBytes(lease, wire, decoded) ==
    /\ lease \in activeByteLeases
    /\ wire <= lease.size
    /\ decoded <= lease.size
    /\ activeByteLeases' = activeByteLeases \ {lease}
    /\ bytesReserved' = bytesReserved - lease.size
    /\ RecordResponseBytes(lease.owner, wire, decoded)
    /\ UNCHANGED <<requestsStarted, requestsInFlight, issued,
                   activeReservations, nextLeaseId, stopReason, flushedBytes>>

--------------------
\* record_decoded_bytes(): decoder output with no read, hence no lease.  The
\* code compares the charged bytes alone with the limit: the bytes other
\* requests have leased do not enter the comparison.
FlushCharge(r, decoded) ==
    LET old == responseBytes[r]
    IN  Larger(old.wire, old.decoded + decoded) - Charge(old)

FlushFits(r, decoded) ==
    MaxBytes = 0 \/ accountedBytes + FlushCharge(r, decoded) <= MaxBytes

RecordDecodedBytes(r, decoded) ==
    /\ r \in activeReservations
    /\ FlushFits(r, decoded)
    /\ RecordResponseBytes(r, 0, decoded)
    /\ flushedBytes' = flushedBytes + FlushCharge(r, decoded)
    /\ UNCHANGED <<requestsStarted, requestsInFlight, bytesReserved, issued,
                   activeReservations, activeByteLeases, nextLeaseId, stopReason>>

RecordDecodedRefused(r, decoded) ==
    /\ r \in activeReservations
    /\ ~FlushFits(r, decoded)
    /\ RecordStop("max_bytes")
    /\ UNCHANGED <<requestsStarted, requestsInFlight, accountedBytes,
                   bytesReserved, issued, activeReservations, responseBytes,
                   activeByteLeases, nextLeaseId, flushedBytes>>

\* settle(): refused while the request still holds a lease.
HoldsLease(r) == \E lease \in activeByteLeases : lease.owner = r

Settle(r) ==
    /\ r \in activeReservations
    /\ ~HoldsLease(r)
    /\ activeReservations' = activeReservations \ {r}
    /\ requestsInFlight' = requestsInFlight - 1
    /\ UNCHANGED <<requestsStarted, accountedBytes, bytesReserved, issued,
                   responseBytes, activeByteLeases, nextLeaseId, stopReason,
                   flushedBytes>>

--------------------
(*
The ledger under any client that obeys its contract.
*)
LedgerNext ==
    \/ \E r \in Request :
          \/ Reserve(r)
          \/ \E wanted \in 1..MaxWanted : ReserveBytes(r, wanted)
          \/ ReserveBytesRefused(r)
          \/ \E decoded \in 0..MaxWanted :
                \/ RecordDecodedBytes(r, decoded)
                \/ RecordDecodedRefused(r, decoded)
          \/ Settle(r)
    \/ ReserveRefused
    \/ \E lease \in activeByteLeases, wire, decoded \in 0..MaxWanted :
          SettleBytes(lease, wire, decoded)

LedgerSpec == LedgerInit /\ [][LedgerNext]_ledgerVars

--------------------
(*
Properties.
*)
LedgerTypeOK ==
    /\ requestsStarted \in Nat /\ requestsInFlight \in Nat
    /\ accountedBytes \in Nat /\ bytesReserved \in Int /\ flushedBytes \in Nat
    /\ issued \subseteq Request
    /\ activeReservations \subseteq issued
    /\ responseBytes \in [Request -> [wire : Nat, decoded : Nat]]
    /\ activeByteLeases \subseteq ByteReservation
    /\ nextLeaseId \in Nat
    /\ stopReason \in StopReasons

\* The slots in use and the slots ever used are counted exactly, whatever the
\* order in which concurrent fetches are admitted, refused and settled, and a
\* run never opens more connections than --max-requests.
AdmissionIsCounted ==
    /\ requestsInFlight = Cardinality(activeReservations)
    /\ requestsStarted = Cardinality(issued)
    /\ MaxRequests > 0 => requestsStarted <= MaxRequests

\* The bytes of the outstanding leases, one element per byte.
LeasedBytes == UNION {{lease} \X (1..lease.size) : lease \in activeByteLeases}

\* The reserved total is exactly what the outstanding leases hold: no lease is
\* released twice or lost, also when one request holds several equal ones.
ReservedIsLeased == bytesReserved = Cardinality(LeasedBytes)

\* A lease belongs to a request that still holds its slot, so settling it can
\* always find the response it charges.
LeasesOfActiveRequests ==
    \A lease \in activeByteLeases : lease.owner \in activeReservations

\* The limit on bytes: what is charged and what is leased can pass max_bytes
\* only by what record_decoded_bytes charged without holding a lease.
OverrunBoundedByFlush ==
    MaxBytes > 0 => accountedBytes + bytesReserved <= MaxBytes + flushedBytes

\* The ledger charges sum(max(wire, decoded)) over responses, not
\* max(sum(wire), sum(decoded)): a wire-heavy response and a decoded-heavy one
\* are both charged in full however their reads interleave.
ChargedPerResponse ==
    accountedBytes =
        Cardinality(UNION {{r} \X (1..Charge(responseBytes[r])) : r \in Request})

\* The first reason a run stopped for is the one its summary reports, and a
\* byte limit is reported only by a run that has one.
StopReasonIsFirst ==
    [][stopReason # NoStop => stopReason' = stopReason]_ledgerVars

=============================================================================
