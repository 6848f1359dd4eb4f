---------------------------- MODULE GuardedFetch ----------------------------
(*
The guarded aiohttp path of crawler_cli/backends.py as the client of
the ledger: _fetch_pinned takes a slot for one connection and settles
it in a finally block, and _read_budgeted_body reads the body under
leases.  Every hop of a redirect chain is a request of its own.  Other
requests run between two awaits of a request.

The content of a body is left to chance: how many bytes a read returns,
how many the decoder makes of them, whether it still owes output for
bytes already read, whether the stream is corrupt, and when it ends.
*)
EXTENDS RunBudget

CONSTANTS ReadSize,   \* the most one read asks for, 65536 in the code
          Cap         \* max_response_bytes

\* A client of the ledger may charge a read and a flush at once.
ASSUME FetchAssumption ==
    /\ ReadSize \in Nat \ {0}
    /\ Cap \in Nat \ {0}
    /\ MaxWanted = ReadSize + Cap

VARIABLES phase,        \* where each request is in its coroutine
          owesOutput,   \* decoder.has_unconsumed_tail
          outcome       \* how each request ended

vars == <<ledgerVars, phase, owesOutput, outcome>>

Phases == {"idle", "connecting", "reading", "leased", "flushing", "closing",
           "closed", "refused"}
\* BodyTruncationReason; "failed" is an exception out of the fetch.
Outcomes == {"pending", "complete", "failed", "max_response_bytes", "max_bytes",
             "incomplete_content_encoding", "unsupported_content_encoding"}

Wire(r) == responseBytes[r].wire
Decoded(r) == responseBytes[r].decoded

--------------------
Init ==
    /\ LedgerInit
    /\ phase = [r \in Request |-> "idle"]
    /\ owesOutput = [r \in Request |-> FALSE]
    /\ outcome = [r \in Request |-> "pending"]

Goto(r, to) == phase' = [phase EXCEPT ![r] = to]

\* The loop is left for the finally block, with the reason it was left for.
End(r, how) ==
    /\ Goto(r, "closing")
    /\ outcome' = [outcome EXCEPT ![r] = how]

\* reserve() before the session is opened.
Admit(r) ==
    /\ phase[r] = "idle"
    /\ Reserve(r)
    /\ Goto(r, "connecting")
    /\ UNCHANGED <<owesOutput, outcome>>

Refuse(r) ==
    /\ phase[r] = "idle"
    /\ ReserveRefused
    /\ Goto(r, "refused")
    /\ UNCHANGED <<owesOutput, outcome>>

\* The response headers arrive, or the connection fails or times out.
Connect(r) ==
    /\ phase[r] = "connecting"
    /\ \/ Goto(r, "reading") /\ UNCHANGED outcome
       \/ End(r, "unsupported_content_encoding")
       \/ End(r, "failed")
    /\ UNCHANGED <<ledgerVars, owesOutput>>

--------------------
\* Mutant: the wire bytes already read do not limit the next read.
WantedOfDecoded(r) == Smaller(ReadSize, Cap - Decoded(r))

\* What the next lease asks for: a read is bounded by both dimensions of the
\* response cap, output for bytes already read by the decoded one alone.
Wanted(r) ==
    LET byOutput == Smaller(ReadSize, Cap - Decoded(r))
    IN  IF owesOutput[r] THEN byOutput ELSE Smaller(byOutput, Cap - Wire(r))

TakeLease(r) ==
    /\ phase[r] = "reading"
    /\ ReserveBytes(r, Wanted(r))
    /\ Goto(r, "leased")
    /\ UNCHANGED <<owesOutput, outcome>>

LeaseRefused(r) ==
    /\ phase[r] = "reading"
    /\ ReserveBytesRefused(r)
    /\ End(r, "max_bytes")
    /\ UNCHANGED owesOutput

\* The lease the request reads under.
LeaseOf(r) == CHOOSE lease \in activeByteLeases : lease.owner = r

\* Mutant: only decoded bytes end the loop.
ContinueByOutput(r, wire, decoded) ==
    IF Decoded(r) + decoded >= Cap
    THEN End(r, "max_response_bytes")
    ELSE Goto(r, "reading") /\ UNCHANGED outcome

\* After a read the loop goes on, or stops at the response cap.
Continue(r, wire, decoded) ==
    IF Decoded(r) + decoded >= Cap \/ Wire(r) + wire >= Cap
    THEN End(r, "max_response_bytes")
    ELSE Goto(r, "reading") /\ UNCHANGED outcome

\* A read of at least one byte from the socket.
ReadChunk(r) ==
    /\ phase[r] = "leased"
    /\ ~owesOutput[r]
    /\ \E wire \in 1..LeaseOf(r).size, decoded \in 0..LeaseOf(r).size :
          /\ SettleBytes(LeaseOf(r), wire, decoded)
          /\ Continue(r, wire, decoded)
    /\ \E owes \in BOOLEAN : owesOutput' = [owesOutput EXCEPT ![r] = owes]

\* Output the decoder owed: no read, and progress, or the debt is gone.
DrainTail(r) ==
    /\ phase[r] = "leased"
    /\ owesOutput[r]
    /\ \E decoded \in 0..LeaseOf(r).size, owes \in BOOLEAN :
          /\ decoded > 0 \/ ~owes
          /\ SettleBytes(LeaseOf(r), 0, decoded)
          /\ IF Decoded(r) + decoded >= Cap
             THEN End(r, "max_response_bytes")
             ELSE Goto(r, "reading") /\ UNCHANGED outcome
          /\ owesOutput' = [owesOutput EXCEPT ![r] = owes]

\* The read returns b"": the transfer is over.
ReadEof(r) ==
    /\ phase[r] = "leased"
    /\ ~owesOutput[r]
    /\ SettleBytes(LeaseOf(r), 0, 0)
    /\ Goto(r, "flushing")
    /\ UNCHANGED <<owesOutput, outcome>>

\* Mutant: the finally block of the read is lost on the error path.
ReadErrorKeepsLease(r) ==
    /\ phase[r] = "leased"
    /\ End(r, "failed")
    /\ UNCHANGED <<ledgerVars, owesOutput>>

\* A timeout, a reset or a cancellation settles an empty read; bytes the
\* decoder rejects are charged as transferred.
ReadError(r) ==
    /\ phase[r] = "leased"
    /\ \/ SettleBytes(LeaseOf(r), 0, 0) /\ End(r, "failed")
       \/ \E wire \in (IF owesOutput[r] THEN {0} ELSE 1..LeaseOf(r).size) :
             /\ SettleBytes(LeaseOf(r), wire, 0)
             /\ End(r, "incomplete_content_encoding")
    /\ UNCHANGED owesOutput

--------------------
\* After end of file the decoder is drained until it stops producing; it
\* owes nothing for a body without a byte.
Flush(r) ==
    /\ phase[r] = "flushing"
    /\ Wire(r) > 0
    /\ Decoded(r) < Cap
    /\ \E tail \in 1..(Cap - Decoded(r)) :
          \/ /\ RecordDecodedBytes(r, tail)
             /\ UNCHANGED <<phase, outcome>>
          \/ /\ RecordDecodedRefused(r, tail)
             /\ End(r, "max_bytes")
    /\ UNCHANGED owesOutput

FlushDone(r) ==
    /\ phase[r] = "flushing"
    /\ \/ End(r, "complete")
       \/ End(r, IF Decoded(r) >= Cap THEN "max_response_bytes"
                 ELSE "incomplete_content_encoding")
    /\ UNCHANGED <<ledgerVars, owesOutput>>

\* The finally block of _fetch_pinned.
Close(r) ==
    /\ phase[r] = "closing"
    /\ Settle(r)
    /\ Goto(r, "closed")
    /\ UNCHANGED <<owesOutput, outcome>>

Step(r) ==
    \/ Admit(r) \/ Refuse(r) \/ Connect(r)
    \/ TakeLease(r) \/ LeaseRefused(r)
    \/ ReadChunk(r) \/ DrainTail(r) \/ ReadEof(r) \/ ReadError(r)
    \/ Flush(r) \/ FlushDone(r)
    \/ Close(r)

Next == \E r \in Request : Step(r)

Spec == Init /\ [][Next]_vars

\* Every coroutine that can run is run by the event loop, and a pending read
\* ends: the session has a total timeout.  Admission is left unfair, since a
\* run may stop before a URL is fetched.
FairSpec == Spec /\ \A r \in Request : WF_vars(Step(r) /\ phase[r] # "idle")

--------------------
TypeOK ==
    /\ LedgerTypeOK
    /\ phase \in [Request -> Phases]
    /\ owesOutput \in [Request -> BOOLEAN]
    /\ outcome \in [Request -> Outcomes]

\* Neither dimension of a response passes max_response_bytes, whatever the
\* compression ratio and however reads and owed output alternate.
WithinResponseCap ==
    \A r \in Request : Wire(r) <= Cap /\ Decoded(r) <= Cap

\* "makes concurrent streamed reads fail closed for both compressed and plain
\* responses" (budget.py:84-86): the run never charges more than max_bytes.
WithinMaxBytes == MaxBytes > 0 => accountedBytes <= MaxBytes

\* Every slot taken is given back and no lease is left behind, whatever
\* fails: a run cannot lose capacity to a dead request.
SlotsAreReturned ==
    \A r \in Request : r \in activeReservations ~> r \notin activeReservations

\* Both: what a run is charged for a response is its larger dimension, and that
\* is never more than max_response_bytes.
ResponsesAreCapped == WithinResponseCap /\ ChargedPerResponse

\* The client keeps the ledger's contract: its behaviours are behaviours of
\* the ledger under an arbitrary legal client.
ImplementsLedger == LedgerSpec

=============================================================================
