------------------------- MODULE GuardedFetchProofs -------------------------
(*
What the ledger guarantees for every set of requests and every limit,
and that the guarded fetch keeps the response cap and the contract of
the ledger for every read size.
*)
EXTENDS GuardedFetch, FiniteSetTheorems, TLAPS

(*
The ledger alone, under every client that respects its protocol.
*)
\* The inductive invariant: lease ids are below the counter, so that a new
\* lease is a new element of the set.
LedgerInv ==
    /\ LedgerTypeOK
    /\ IsFiniteSet(activeByteLeases)
    /\ \A lease \in activeByteLeases : lease.id < nextLeaseId
    /\ IsFiniteSet(LeasedBytes)
    /\ AdmissionIsCounted
    /\ ReservedIsLeased
    /\ LeasesOfActiveRequests
    /\ OverrunBoundedByFlush

--------------------
\* The bytes of one lease: as many elements as its size.
LEMMA BytesOfOneLease ==
    ASSUME NEW lease, NEW n \in Nat
    PROVE  /\ IsFiniteSet({lease} \X (1..n))
           /\ Cardinality({lease} \X (1..n)) = n
<1> DEFINE S == {lease}
           T == 1..n
<1>1. IsFiniteSet(S) /\ Cardinality(S) = 1
  BY FS_Singleton
<1>2. IsFiniteSet(T) /\ Cardinality(T) = n
  BY FS_Interval
<1> HIDE DEF S, T
<1>3. IsFiniteSet(S \X T) /\ Cardinality(S \X T) = Cardinality(S) * Cardinality(T)
  BY <1>1, <1>2, FS_Product
<1>4. QED
  BY <1>1, <1>2, <1>3 DEF S, T

\* The charge of a response is a natural number and grows with its bytes.
LEMMA ChargeGrows ==
    ASSUME NEW old \in [wire : Nat, decoded : Nat],
           NEW wire \in Nat, NEW decoded \in Nat
    PROVE  LET new == [wire |-> old.wire + wire, decoded |-> old.decoded + decoded]
           IN  /\ Charge(new) - Charge(old) \in Nat
               /\ Charge(new) - Charge(old) <= Larger(wire, decoded)
BY DEF Charge, Larger

\* Recording bytes keeps the types of the two variables it writes.
LEMMA RecordTypes ==
    ASSUME LedgerTypeOK, NEW r \in Request, NEW wire \in Nat, NEW decoded \in Nat,
           RecordResponseBytes(r, wire, decoded)
    PROVE  /\ responseBytes' \in [Request -> [wire : Nat, decoded : Nat]]
           /\ accountedBytes' \in Nat
           /\ accountedBytes' <= accountedBytes + Larger(wire, decoded)
<1> DEFINE old == responseBytes[r]
           new == [wire |-> old.wire + wire, decoded |-> old.decoded + decoded]
<1>1. old \in [wire : Nat, decoded : Nat] /\ new \in [wire : Nat, decoded : Nat]
  BY DEF LedgerTypeOK
<1>2. responseBytes' \in [Request -> [wire : Nat, decoded : Nat]]
  BY <1>1 DEF LedgerTypeOK, RecordResponseBytes
<1>3. Charge(new) - Charge(old) \in Nat
      /\ Charge(new) - Charge(old) <= Larger(wire, decoded)
  BY <1>1, ChargeGrows
<1>4. accountedBytes' = accountedBytes + (Charge(new) - Charge(old))
  BY DEF RecordResponseBytes
<1>5. Larger(wire, decoded) \in Nat
  BY DEF Larger
<1> HIDE DEF new, old
<1>6. Charge(new) \in Int /\ Charge(old) \in Int
  BY <1>1 DEF Charge, Larger
<1>7. QED
  BY <1>2, <1>3, <1>4, <1>5, <1>6 DEF LedgerTypeOK

--------------------
\* A step that touches neither leases nor the reserved total keeps the bytes
\* they stand for.
LEMMA SameLeases ==
    ASSUME LedgerInv, UNCHANGED <<activeByteLeases, bytesReserved, nextLeaseId>>
    PROVE  /\ IsFiniteSet(activeByteLeases')
           /\ \A lease \in activeByteLeases' : lease.id < nextLeaseId'
           /\ IsFiniteSet(LeasedBytes')
           /\ ReservedIsLeased'
BY DEF LedgerInv, LeasedBytes, ReservedIsLeased

LEMMA InitLedger == LedgerInit => LedgerInv
<1> SUFFICES ASSUME LedgerInit PROVE LedgerInv
  OBVIOUS
<1>1. IsFiniteSet({}) /\ Cardinality({}) = 0
  BY FS_EmptySet
<1>2. LeasedBytes = {}
  BY DEF LedgerInit, LeasedBytes
<1>3. LedgerTypeOK
  BY DEF LedgerInit, LedgerTypeOK, StopReasons, NoStop
<1>4. QED
  BY <1>1, <1>2, <1>3, BudgetAssumption
     DEF LedgerInit, LedgerInv, AdmissionIsCounted, ReservedIsLeased,
         LeasesOfActiveRequests, OverrunBoundedByFlush

LEMMA ReserveKeeps ==
    ASSUME LedgerInv, NEW r \in Request, Reserve(r)
    PROVE  LedgerInv'
<1>1. LedgerTypeOK'
  BY DEF LedgerInv, LedgerTypeOK, Reserve
<1>2. IsFiniteSet(issued) /\ IsFiniteSet(activeReservations)
  BY BudgetAssumption, FS_Subset DEF LedgerInv, LedgerTypeOK
<1>3. r \notin activeReservations /\ r \notin issued
  BY DEF LedgerInv, LedgerTypeOK, Reserve
<1>4. /\ Cardinality(issued') = Cardinality(issued) + 1
      /\ Cardinality(activeReservations') = Cardinality(activeReservations) + 1
  BY <1>2, <1>3, FS_AddElement DEF Reserve
<1>5. AdmissionIsCounted'
  BY <1>4, BudgetAssumption
     DEF LedgerInv, LedgerTypeOK, AdmissionIsCounted, Reserve, RequestsLeft
<1>6. LeasesOfActiveRequests' /\ OverrunBoundedByFlush'
  BY DEF LedgerInv, LeasesOfActiveRequests, OverrunBoundedByFlush, Reserve
<1>7. QED
  BY <1>1, <1>5, <1>6, SameLeases DEF LedgerInv, Reserve

LEMMA RefusalKeeps ==
    ASSUME LedgerInv,
           \/ ReserveRefused
           \/ \E r \in Request : ReserveBytesRefused(r)
           \/ \E r \in Request : \E decoded \in Nat : RecordDecodedRefused(r, decoded)
    PROVE  LedgerInv'
<1>1. /\ stopReason' \in StopReasons
      /\ UNCHANGED <<requestsStarted, requestsInFlight, accountedBytes,
                     bytesReserved, issued, activeReservations, responseBytes,
                     activeByteLeases, nextLeaseId, flushedBytes>>
  BY DEF LedgerInv, LedgerTypeOK, ReserveRefused, ReserveBytesRefused,
         RecordDecodedRefused, RecordStop, StopReasons
<1>2. LedgerTypeOK'
  BY <1>1 DEF LedgerInv, LedgerTypeOK
<1>3. AdmissionIsCounted' /\ LeasesOfActiveRequests' /\ OverrunBoundedByFlush'
  BY <1>1 DEF LedgerInv, AdmissionIsCounted, LeasesOfActiveRequests,
              OverrunBoundedByFlush
<1>4. QED
  BY <1>1, <1>2, <1>3, SameLeases DEF LedgerInv

LEMMA ReserveBytesKeeps ==
    ASSUME LedgerInv, NEW r \in Request, NEW wanted \in 1..MaxWanted,
           ReserveBytes(r, wanted)
    PROVE  LedgerInv'
<1> DEFINE lease == NewLease(r, wanted)
<1>1. /\ Allowed(wanted) \in Nat \ {0}
      /\ MaxBytes > 0 => Allowed(wanted) <= RemainingBytes
  BY BudgetAssumption
     DEF LedgerInv, LedgerTypeOK, ReserveBytes, BytesLeft, RemainingBytes, Allowed, Smaller
<1>2. lease \in ByteReservation /\ lease.id = nextLeaseId /\ lease.owner = r
      /\ lease.size = Allowed(wanted)
  BY <1>1 DEF LedgerInv, LedgerTypeOK, NewLease, ByteReservation
<1>3. lease \notin activeByteLeases
  BY <1>2 DEF LedgerInv, LedgerTypeOK
<1>4. activeByteLeases' = activeByteLeases \cup {lease}
      /\ bytesReserved' = bytesReserved + Allowed(wanted)
  BY DEF ReserveBytes
<1>5. LedgerTypeOK'
  BY <1>1, <1>2, <1>4 DEF LedgerInv, LedgerTypeOK, ReserveBytes
<1>6. IsFiniteSet(activeByteLeases')
  BY <1>4, FS_AddElement DEF LedgerInv
<1>7. \A l \in activeByteLeases' : l.id < nextLeaseId'
  BY <1>2, <1>4 DEF LedgerInv, LedgerTypeOK, ReserveBytes, ByteReservation
<1>8. IsFiniteSet(LeasedBytes') /\ ReservedIsLeased'
  <2> DEFINE new == {lease} \X (1..lease.size)
  <2>1. IsFiniteSet(new) /\ Cardinality(new) = Allowed(wanted)
    <3> HIDE DEF lease
    <3>1. QED BY <1>1, <1>2, BytesOfOneLease
  <2>2. LeasedBytes' = LeasedBytes \cup new
    BY <1>4 DEF LeasedBytes
  <2>3. LeasedBytes \cap new = {}
    BY <1>3 DEF LeasedBytes
  <2>4. Cardinality({}) = 0
    BY FS_EmptySet
  <2>5. /\ IsFiniteSet(LeasedBytes')
        /\ Cardinality(LeasedBytes') =
             Cardinality(LeasedBytes) + Cardinality(new) - Cardinality({})
    BY <2>1, <2>2, <2>3, FS_Union DEF LedgerInv
  <2>6. Cardinality(LeasedBytes) = bytesReserved
    BY DEF LedgerInv, ReservedIsLeased
  <2> HIDE DEF new, lease
  <2>7. QED
    BY <1>1, <1>4, <2>1, <2>4, <2>5, <2>6 DEF ReservedIsLeased, LedgerInv, LedgerTypeOK
<1>9. LeasesOfActiveRequests'
  BY <1>2, <1>4 DEF LedgerInv, LeasesOfActiveRequests, ReserveBytes
<1>10. OverrunBoundedByFlush'
  BY <1>1, <1>4, BudgetAssumption
     DEF LedgerInv, LedgerTypeOK, OverrunBoundedByFlush, ReserveBytes, RemainingBytes
<1>11. AdmissionIsCounted'
  BY DEF LedgerInv, AdmissionIsCounted, ReserveBytes
<1>12. QED
  BY <1>5, <1>6, <1>7, <1>8, <1>9, <1>10, <1>11 DEF LedgerInv

LEMMA SettleBytesKeeps ==
    ASSUME LedgerInv, NEW lease \in activeByteLeases,
           NEW wire \in Nat, NEW decoded \in Nat,
           SettleBytes(lease, wire, decoded)
    PROVE  LedgerInv'
<1>1. lease \in ByteReservation /\ lease.owner \in Request /\ lease.size \in Nat
  BY DEF LedgerInv, LedgerTypeOK, ByteReservation
<1>2. /\ responseBytes' \in [Request -> [wire : Nat, decoded : Nat]]
      /\ accountedBytes' \in Nat
      /\ accountedBytes' <= accountedBytes + Larger(wire, decoded)
  BY <1>1, RecordTypes DEF LedgerInv, SettleBytes
<1>3. Larger(wire, decoded) <= lease.size /\ Larger(wire, decoded) \in Nat
  BY DEF SettleBytes, Larger
<1>4. activeByteLeases' = activeByteLeases \ {lease}
      /\ bytesReserved' = bytesReserved - lease.size
  BY DEF SettleBytes
<1>5. LedgerTypeOK'
  BY <1>1, <1>2, <1>4 DEF LedgerInv, LedgerTypeOK, SettleBytes
<1>6. IsFiniteSet(activeByteLeases')
  BY <1>4, FS_Subset DEF LedgerInv
<1>7. \A l \in activeByteLeases' : l.id < nextLeaseId'
  BY <1>4 DEF LedgerInv, SettleBytes
<1>8. IsFiniteSet(LeasedBytes') /\ ReservedIsLeased'
  <2> DEFINE gone == {lease} \X (1..lease.size)
  <2>1. IsFiniteSet(gone) /\ Cardinality(gone) = lease.size
    BY <1>1, BytesOfOneLease
  <2>2. LeasedBytes = LeasedBytes' \cup gone
    BY <1>4 DEF LeasedBytes
  <2>3. LeasedBytes' \cap gone = {}
    BY <1>4 DEF LeasedBytes
  <2>4. Cardinality({}) = 0
    BY FS_EmptySet
  <2>5. IsFiniteSet(LeasedBytes')
    BY <2>2, FS_Subset DEF LedgerInv
  <2>6. Cardinality(LeasedBytes) =
          Cardinality(LeasedBytes') + Cardinality(gone) - Cardinality({})
    <3> DEFINE rest == LeasedBytes'
    <3>1. IsFiniteSet(rest) /\ LeasedBytes = rest \cup gone /\ rest \cap gone = {}
      BY <2>2, <2>3, <2>5
    <3> HIDE DEF rest, gone
    <3>2. Cardinality(rest \cup gone) =
            Cardinality(rest) + Cardinality(gone) - Cardinality(rest \cap gone)
      BY <2>1, <3>1, FS_Union
    <3>3. QED BY <3>1, <3>2 DEF rest
  <2>7. Cardinality(LeasedBytes) = bytesReserved
    BY DEF LedgerInv, ReservedIsLeased
  <2>8. Cardinality(LeasedBytes') \in Nat
    BY <2>5, FS_CardinalityType
  <2> HIDE DEF gone
  <2>9. QED
    BY <1>1, <1>4, <2>1, <2>4, <2>5, <2>6, <2>7, <2>8 DEF ReservedIsLeased, LedgerInv, LedgerTypeOK
<1>9. LeasesOfActiveRequests'
  BY <1>4 DEF LedgerInv, LeasesOfActiveRequests, SettleBytes
<1>10. OverrunBoundedByFlush'
  BY <1>1, <1>2, <1>3, <1>4, BudgetAssumption
     DEF LedgerInv, LedgerTypeOK, OverrunBoundedByFlush, SettleBytes
<1>11. AdmissionIsCounted'
  BY DEF LedgerInv, AdmissionIsCounted, SettleBytes
<1>12. QED
  BY <1>5, <1>6, <1>7, <1>8, <1>9, <1>10, <1>11 DEF LedgerInv

LEMMA RecordDecodedKeeps ==
    ASSUME LedgerInv, NEW r \in Request, NEW decoded \in Nat,
           RecordDecodedBytes(r, decoded)
    PROVE  LedgerInv'
<1>1. /\ responseBytes' \in [Request -> [wire : Nat, decoded : Nat]]
      /\ accountedBytes' \in Nat
  BY RecordTypes DEF LedgerInv, RecordDecodedBytes
<1>2. responseBytes[r] \in [wire : Nat, decoded : Nat]
  BY DEF LedgerInv, LedgerTypeOK
<1>3. FlushCharge(r, decoded) \in Nat
  BY <1>2 DEF FlushCharge, Charge, Larger
<1>4. accountedBytes' = accountedBytes + FlushCharge(r, decoded)
  BY <1>2 DEF RecordDecodedBytes, RecordResponseBytes, FlushCharge, Charge, Larger
<1>5. LedgerTypeOK'
  BY <1>1, <1>3 DEF LedgerInv, LedgerTypeOK, RecordDecodedBytes
<1>6. AdmissionIsCounted' /\ LeasesOfActiveRequests'
  BY DEF LedgerInv, AdmissionIsCounted, LeasesOfActiveRequests, RecordDecodedBytes
<1>7. OverrunBoundedByFlush'
  BY <1>3, <1>4, BudgetAssumption
     DEF LedgerInv, LedgerTypeOK, OverrunBoundedByFlush, RecordDecodedBytes
<1>8. QED
  BY <1>5, <1>6, <1>7, SameLeases DEF LedgerInv, RecordDecodedBytes

LEMMA SettleKeeps ==
    ASSUME LedgerInv, NEW r \in Request, Settle(r)
    PROVE  LedgerInv'
<1>1. IsFiniteSet(activeReservations)
  BY BudgetAssumption, FS_Subset DEF LedgerInv, LedgerTypeOK
<1>2. Cardinality(activeReservations') = Cardinality(activeReservations) - 1
      /\ Cardinality(activeReservations') \in Nat
  BY <1>1, FS_RemoveElement, FS_CardinalityType DEF Settle
<1>3. AdmissionIsCounted'
  BY <1>2 DEF LedgerInv, AdmissionIsCounted, Settle
<1>4. LedgerTypeOK'
  BY <1>2, <1>3 DEF LedgerInv, LedgerTypeOK, AdmissionIsCounted, Settle
<1>5. LeasesOfActiveRequests' /\ OverrunBoundedByFlush'
  BY DEF LedgerInv, LeasesOfActiveRequests, OverrunBoundedByFlush, Settle, HoldsLease
<1>6. QED
  BY <1>3, <1>4, <1>5, SameLeases DEF LedgerInv, Settle

LEMMA StutterKeeps ==
    ASSUME LedgerInv, UNCHANGED ledgerVars
    PROVE  LedgerInv'
BY DEF LedgerInv, ledgerVars, LedgerTypeOK, LeasedBytes, AdmissionIsCounted,
       ReservedIsLeased, LeasesOfActiveRequests, OverrunBoundedByFlush

LEMMA StepKeepsLedger == LedgerInv /\ [LedgerNext]_ledgerVars => LedgerInv'
<1> SUFFICES ASSUME LedgerInv, [LedgerNext]_ledgerVars PROVE LedgerInv'
  OBVIOUS
<1>1. CASE UNCHANGED ledgerVars
  BY <1>1, StutterKeeps
<1>2. ASSUME NEW r \in Request, Reserve(r) \/ Settle(r) PROVE LedgerInv'
  BY <1>2, ReserveKeeps, SettleKeeps
<1>3. ASSUME NEW r \in Request, NEW wanted \in 1..MaxWanted,
             ReserveBytes(r, wanted)
      PROVE  LedgerInv'
  BY <1>3, ReserveBytesKeeps
<1>4. ASSUME NEW r \in Request, NEW decoded \in 0..MaxWanted,
             RecordDecodedBytes(r, decoded)
      PROVE  LedgerInv'
  BY <1>4, RecordDecodedKeeps, BudgetAssumption
<1>5. ASSUME NEW r \in Request,
             \/ ReserveBytesRefused(r)
             \/ \E decoded \in 0..MaxWanted : RecordDecodedRefused(r, decoded)
      PROVE  LedgerInv'
  <2>1. 0..MaxWanted \subseteq Nat
    OBVIOUS
  <2>2. QED BY <1>5, <2>1, RefusalKeeps
<1>6. CASE ReserveRefused
  BY <1>6, RefusalKeeps
<1>7. ASSUME NEW lease \in activeByteLeases,
             NEW wire \in 0..MaxWanted, NEW decoded \in 0..MaxWanted,
             SettleBytes(lease, wire, decoded)
      PROVE  LedgerInv'
  BY <1>7, SettleBytesKeeps
<1>8. QED
  BY <1>1, <1>2, <1>3, <1>4, <1>5, <1>6, <1>7 DEF LedgerNext

--------------------
\* The ledger keeps its inductive invariant under every client that obeys the
\* contract of budget.py, for every number of requests and every limit.
THEOREM LedgerInvariant == LedgerSpec => []LedgerInv
<1>1. LedgerInit => LedgerInv
  BY InitLedger
<1>2. LedgerInv /\ [LedgerNext]_ledgerVars => LedgerInv'
  BY StepKeepsLedger
<1>3. QED
  BY <1>1, <1>2, PTL DEF LedgerSpec

\* Every field of the ledger keeps its type; in particular no counter that
\* settle() decrements becomes negative.
THEOREM LedgerTypes == LedgerSpec => []LedgerTypeOK
<1>1. LedgerInv => LedgerTypeOK
  BY DEF LedgerInv
<1>2. QED
  BY <1>1, LedgerInvariant, PTL

\* --max-requests is never exceeded, and the slot counters are exact.
THEOREM RequestLimit == LedgerSpec => []AdmissionIsCounted
<1>1. LedgerInv => AdmissionIsCounted
  BY DEF LedgerInv
<1>2. QED
  BY <1>1, LedgerInvariant, PTL

\* The reserved total is the sum of the outstanding leases.
THEOREM ReservedTotal == LedgerSpec => []ReservedIsLeased
<1>1. LedgerInv => ReservedIsLeased
  BY DEF LedgerInv
<1>2. QED
  BY <1>1, LedgerInvariant, PTL

\* Charged and leased bytes pass max_bytes by at most what was flushed without
\* a lease.
THEOREM ByteLimit == LedgerSpec => []OverrunBoundedByFlush
<1>1. LedgerInv => OverrunBoundedByFlush
  BY DEF LedgerInv
<1>2. QED
  BY <1>1, LedgerInvariant, PTL

\* The charge alone obeys the same bound: the reserved total is never negative.
THEOREM ChargedBytesLimit ==
    LedgerSpec => [](MaxBytes > 0 => accountedBytes <= MaxBytes + flushedBytes)
<1>1. LedgerInv => (MaxBytes > 0 => accountedBytes <= MaxBytes + flushedBytes)
  BY FS_CardinalityType, BudgetAssumption DEF LedgerInv, ReservedIsLeased, LedgerTypeOK,
     OverrunBoundedByFlush
<1>2. QED
  BY <1>1, LedgerInvariant, PTL

\* A run reports the first reason it stopped for.
THEOREM FirstStopReason == LedgerSpec => StopReasonIsFirst
<1>1. [LedgerNext]_ledgerVars => [stopReason # NoStop => stopReason' = stopReason]_ledgerVars
  BY DEF LedgerNext, Reserve, ReserveRefused, ReserveBytes, ReserveBytesRefused,
         SettleBytes, RecordDecodedBytes, RecordDecodedRefused, Settle, RecordStop
<1>2. QED
  BY <1>1, PTL DEF LedgerSpec, StopReasonIsFirst

--------------------
\* The bytes that f charges the responses, one element per byte.
ChargedBytes(f) == UNION {{r} \X (1..Charge(f[r])) : r \in Request}

\* A response is charged for nothing before it has its slot.
FreshIsFree ==
    \A r \in Request \ issued : responseBytes[r] = [wire |-> 0, decoded |-> 0]

ChargeInv ==
    /\ LedgerInv
    /\ FreshIsFree
    /\ IsFiniteSet(ChargedBytes(responseBytes))
    /\ ChargedPerResponse

LEMMA ChargeType ==
    ASSUME NEW bytes \in [wire : Nat, decoded : Nat]
    PROVE  Charge(bytes) \in Nat
BY DEF Charge, Larger

\* When the charge of one response grows, the total grows by as much.
LEMMA OneChargeGrows ==
    ASSUME NEW f \in [Request -> [wire : Nat, decoded : Nat]],
           NEW r \in Request, NEW new \in [wire : Nat, decoded : Nat],
           IsFiniteSet(ChargedBytes(f))
    PROVE  /\ IsFiniteSet(ChargedBytes([f EXCEPT ![r] = new]))
           /\ Cardinality(ChargedBytes([f EXCEPT ![r] = new])) =
                Cardinality(ChargedBytes(f)) + (Charge(new) - Charge(f[r]))
<1> DEFINE others == UNION {{q} \X (1..Charge(f[q])) : q \in Request \ {r}}
           before == {r} \X (1..Charge(f[r]))
           after == {r} \X (1..Charge(new))
           g == [f EXCEPT ![r] = new]
<1>1. /\ ChargedBytes(f) = others \cup before /\ others \cap before = {}
      /\ ChargedBytes(g) = others \cup after /\ others \cap after = {}
  BY DEF ChargedBytes
<1>2. /\ IsFiniteSet(before) /\ Cardinality(before) = Charge(f[r])
      /\ IsFiniteSet(after) /\ Cardinality(after) = Charge(new)
      /\ Charge(f[r]) \in Nat /\ Charge(new) \in Nat
  BY BytesOfOneLease, ChargeType
<1>3. IsFiniteSet(others)
  BY <1>1, FS_Subset
<1>4. Cardinality({}) = 0 /\ Cardinality(others) \in Nat
  BY <1>3, FS_EmptySet, FS_CardinalityType
<1> HIDE DEF others, before, after, g
<1>5. Cardinality(others \cup before) =
        Cardinality(others) + Cardinality(before) - Cardinality(others \cap before)
  BY <1>2, <1>3, FS_Union
<1>6. /\ IsFiniteSet(others \cup after)
      /\ Cardinality(others \cup after) =
           Cardinality(others) + Cardinality(after) - Cardinality(others \cap after)
  BY <1>2, <1>3, FS_Union
<1>7. Cardinality(ChargedBytes(f)) = Cardinality(others) + Charge(f[r]) - 0
  BY <1>1, <1>2, <1>4, <1>5
<1>8. /\ IsFiniteSet(ChargedBytes(g))
      /\ Cardinality(ChargedBytes(g)) = Cardinality(others) + Charge(new) - 0
  BY <1>1, <1>2, <1>4, <1>6
<1>9. Cardinality(ChargedBytes(g)) =
        Cardinality(ChargedBytes(f)) + (Charge(new) - Charge(f[r]))
  BY <1>2, <1>4, <1>7, <1>8
<1>10. QED
  BY <1>8, <1>9 DEF g

\* Recording bytes charges what it adds to the response it adds them to.
LEMMA RecordKeepsCharges ==
    ASSUME ChargeInv, NEW r \in Request, NEW wire \in Nat, NEW decoded \in Nat,
           RecordResponseBytes(r, wire, decoded)
    PROVE  ChargedPerResponse' /\ IsFiniteSet(ChargedBytes(responseBytes)')
<1> DEFINE old == responseBytes[r]
           new == [wire |-> old.wire + wire, decoded |-> old.decoded + decoded]
<1>1. /\ responseBytes \in [Request -> [wire : Nat, decoded : Nat]]
      /\ old \in [wire : Nat, decoded : Nat] /\ new \in [wire : Nat, decoded : Nat]
  BY DEF ChargeInv, LedgerInv, LedgerTypeOK
<1>2. /\ responseBytes' = [responseBytes EXCEPT ![r] = new]
      /\ accountedBytes' = accountedBytes + (Charge(new) - Charge(old))
  BY DEF RecordResponseBytes
<1>3. /\ accountedBytes = Cardinality(ChargedBytes(responseBytes))
      /\ IsFiniteSet(ChargedBytes(responseBytes))
  BY DEF ChargeInv, ChargedPerResponse, ChargedBytes
<1> HIDE DEF new
<1>4. /\ IsFiniteSet(ChargedBytes([responseBytes EXCEPT ![r] = new]))
      /\ Cardinality(ChargedBytes([responseBytes EXCEPT ![r] = new])) =
           Cardinality(ChargedBytes(responseBytes)) + (Charge(new) - Charge(old))
  BY <1>1, <1>3, OneChargeGrows
<1>5. /\ accountedBytes' = Cardinality(ChargedBytes(responseBytes'))
      /\ IsFiniteSet(ChargedBytes(responseBytes'))
  BY <1>2, <1>3, <1>4
<1>6. QED
  BY <1>5 DEF ChargedPerResponse, ChargedBytes

LEMMA InitCharges == LedgerInit => ChargeInv
BY FS_EmptySet, InitLedger DEF LedgerInit, Charge, Larger, ChargedBytes, ChargedPerResponse,
   ChargeInv, FreshIsFree

LEMMA StepKeepsCharges == ChargeInv /\ [LedgerNext]_ledgerVars => ChargeInv'
<1> SUFFICES ASSUME ChargeInv, [LedgerNext]_ledgerVars PROVE ChargeInv'
  OBVIOUS
<1>1. LedgerInv'
  BY StepKeepsLedger DEF ChargeInv
<1>2. responseBytes \in [Request -> [wire : Nat, decoded : Nat]] /\ activeReservations \subseteq issued
  BY DEF ChargeInv, LedgerInv, LedgerTypeOK
<1>3. CASE UNCHANGED <<issued, responseBytes, accountedBytes>>
  BY <1>1, <1>3 DEF ChargeInv, FreshIsFree, ChargedPerResponse, ChargedBytes
<1>4. ASSUME NEW r \in Request, Reserve(r) PROVE ChargeInv'
  BY <1>1, <1>2, <1>4 DEF ChargeInv, FreshIsFree, Reserve, ChargedPerResponse, ChargedBytes
<1>5. ASSUME NEW r \in issued, NEW wire \in Nat, NEW decoded \in Nat,
             RecordResponseBytes(r, wire, decoded), issued' = issued
      PROVE  ChargeInv'
  BY <1>1, <1>2, <1>5, RecordKeepsCharges DEF ChargeInv, LedgerInv, LedgerTypeOK, FreshIsFree,
     RecordResponseBytes
<1>6. ASSUME NEW r \in Request, NEW decoded \in 0..MaxWanted,
             RecordDecodedBytes(r, decoded)
      PROVE  ChargeInv'
  BY <1>2, <1>5, <1>6 DEF RecordDecodedBytes
<1>7. ASSUME NEW lease \in activeByteLeases,
             NEW wire \in 0..MaxWanted, NEW decoded \in 0..MaxWanted,
             SettleBytes(lease, wire, decoded)
      PROVE  ChargeInv'
  <2>1. lease.owner \in issued /\ wire \in Nat /\ decoded \in Nat
    BY <1>2 DEF ChargeInv, LedgerInv, LeasesOfActiveRequests
  <2>2. QED
    BY <1>5, <1>7, <2>1 DEF SettleBytes
<1>8. QED
  BY <1>3, <1>4, <1>6, <1>7
     DEF LedgerNext, ReserveRefused, ReserveBytes, ReserveBytesRefused,
         RecordDecodedRefused, Settle, ledgerVars

\* The run is charged, response by response, the larger of wire and decoded
\* bytes, in whatever order its reads, flushes and settlements interleave:
\* _response_bytes and _accounted_bytes never drift apart.
THEOREM ChargesAreExact == LedgerSpec => []ChargedPerResponse
<1>1. LedgerInit => ChargeInv
  BY InitCharges
<1>2. ChargeInv /\ [LedgerNext]_ledgerVars => ChargeInv'
  BY StepKeepsCharges
<1>3. ChargeInv => ChargedPerResponse
  BY DEF ChargeInv
<1>4. QED
  BY <1>1, <1>2, <1>3, PTL DEF LedgerSpec

(*
The guarded fetch, a client of the ledger.
*)

ReadTypes ==
    /\ accountedBytes \in Nat /\ bytesReserved \in Int /\ flushedBytes \in Nat
    /\ responseBytes \in [Request -> [wire : Nat, decoded : Nat]]
    /\ activeByteLeases \subseteq ByteReservation
    /\ nextLeaseId \in Nat
    /\ phase \in [Request -> Phases]
    /\ owesOutput \in [Request -> BOOLEAN]

\* The loop reads on only while both dimensions are below the cap.
ReadersHaveRoom ==
    \A r \in Request :
        phase[r] \in {"connecting", "reading", "leased"} =>
            Wire(r) < Cap /\ Decoded(r) < Cap

\* What a lease allows still fits the response it is read for.
LeasesFit ==
    \A lease \in activeByteLeases :
        /\ phase[lease.owner] = "leased"
        /\ lease.size <= MaxWanted
        /\ Decoded(lease.owner) + lease.size <= Cap
        /\ ~owesOutput[lease.owner] => Wire(lease.owner) + lease.size <= Cap

\* A request that reads holds a lease, and no request holds two.
OneLeaseEach ==
    /\ \A r \in Request :
          phase[r] = "leased" => \E lease \in activeByteLeases : lease.owner = r
    /\ \A lease, other \in activeByteLeases :
          lease.owner = other.owner => lease = other

ReadInv ==
    /\ ReadTypes
    /\ WithinResponseCap
    /\ ReadersHaveRoom
    /\ LeasesFit
    /\ OneLeaseEach
    /\ OverrunBoundedByFlush

--------------------
LEMMA InitReads == Init => ReadInv
BY FetchAssumption, BudgetAssumption
   DEF Init, LedgerInit, ReadInv, ReadTypes, WithinResponseCap, ReadersHaveRoom,
       LeasesFit, OneLeaseEach, OverrunBoundedByFlush, Phases, Wire, Decoded

\* A reading request finds its lease.
LEMMA LeaseOfReader ==
    ASSUME ReadInv, NEW r \in Request, phase[r] = "leased"
    PROVE  /\ LeaseOf(r) \in activeByteLeases
           /\ LeaseOf(r).owner = r
           /\ LeaseOf(r).size \in Nat \ {0}
           /\ LeaseOf(r).size <= MaxWanted
BY DEF ReadInv, ReadTypes, OneLeaseEach, LeasesFit, LeaseOf, ByteReservation

\* What the next lease asks for is positive and fits the response.
LEMMA WantedFits ==
    ASSUME ReadInv, NEW r \in Request, phase[r] = "reading"
    PROVE  /\ Wanted(r) \in 1..MaxWanted
           /\ Decoded(r) + Wanted(r) <= Cap
           /\ ~owesOutput[r] => Wire(r) + Wanted(r) <= Cap
BY FetchAssumption DEF ReadInv, ReadTypes, ReadersHaveRoom, Wire, Decoded, Wanted, Smaller

\* A step of a request that settles nothing and charges nothing, and does not
\* enter or leave the read, keeps the invariant.
LEMMA MovesKeep ==
    ASSUME ReadInv, NEW r \in Request, NEW to \in Phases,
           UNCHANGED <<accountedBytes, bytesReserved, responseBytes,
                       activeByteLeases, nextLeaseId, flushedBytes, owesOutput>>,
           Goto(r, to), phase[r] # "leased", to # "leased",
           to \in {"connecting", "reading"} => Wire(r) < Cap /\ Decoded(r) < Cap
    PROVE  ReadInv'
<1>1. ReadTypes'
  BY DEF ReadInv, ReadTypes, Goto
<1>2. WithinResponseCap' /\ OverrunBoundedByFlush'
  BY DEF ReadInv, WithinResponseCap, OverrunBoundedByFlush, Wire, Decoded
<1>3. ReadersHaveRoom'
  BY DEF ReadInv, ReadTypes, ReadersHaveRoom, Goto, Wire, Decoded
<1>4. LeasesFit'
  BY DEF ReadInv, ReadTypes, LeasesFit, Goto, Wire, Decoded, ByteReservation
<1>5. OneLeaseEach'
  BY DEF ReadInv, ReadTypes, OneLeaseEach, Goto
<1>6. QED
  BY <1>1, <1>2, <1>3, <1>4, <1>5 DEF ReadInv

LEMMA TakeLeaseKeeps ==
    ASSUME ReadInv, NEW r \in Request, TakeLease(r)
    PROVE  ReadInv'
<1> DEFINE new == NewLease(r, Wanted(r))
<1>1. /\ phase[r] = "reading" /\ phase' = [phase EXCEPT ![r] = "leased"]
      /\ activeByteLeases' = activeByteLeases \cup {new}
      /\ bytesReserved' = bytesReserved + new.size
      /\ nextLeaseId' = nextLeaseId + 1
      /\ UNCHANGED <<accountedBytes, responseBytes, flushedBytes, owesOutput>>
      /\ BytesLeft
  BY DEF TakeLease, ReserveBytes, Goto, NewLease
<1>2. /\ new.id = nextLeaseId /\ new.owner = r
      /\ new.size \in Nat \ {0} /\ new.size <= Wanted(r)
      /\ MaxBytes > 0 => new.size <= MaxBytes - accountedBytes - bytesReserved
  BY <1>1, WantedFits, BudgetAssumption
     DEF ReadInv, ReadTypes, NewLease, Allowed, Smaller,
         BytesLeft, RemainingBytes
<1>3. new \in ByteReservation
  BY <1>2 DEF ReadInv, ReadTypes, ByteReservation, NewLease
<1> HIDE DEF new
<1>4. ReadTypes'
  BY <1>1, <1>2, <1>3 DEF ReadInv, ReadTypes, Phases
<1>5. WithinResponseCap' /\ ReadersHaveRoom'
  BY <1>1 DEF ReadInv, ReadTypes, WithinResponseCap, ReadersHaveRoom, Wire, Decoded
<1>6. LeasesFit'
  <2> SUFFICES ASSUME NEW lease \in activeByteLeases'
               PROVE  /\ phase'[lease.owner] = "leased"
                      /\ lease.size <= MaxWanted
                      /\ Decoded(lease.owner) + lease.size <= Cap
                      /\ ~owesOutput[lease.owner] => Wire(lease.owner) + lease.size <= Cap
    BY <1>1 DEF LeasesFit, Wire, Decoded
  <2>1. CASE lease = new
    <3>1. Wire(r) \in Nat /\ Decoded(r) \in Nat /\ Wanted(r) \in Nat
          /\ MaxWanted \in Nat /\ Cap \in Nat
      BY <1>1, WantedFits, BudgetAssumption, FetchAssumption
         DEF ReadInv, ReadTypes, Wire, Decoded
    <3>2. QED
      BY <1>1, <1>2, <2>1, <3>1, WantedFits DEF ReadInv, ReadTypes
  <2>2. CASE lease \in activeByteLeases
    BY <1>1, <2>2 DEF ReadInv, ReadTypes, LeasesFit, ByteReservation
  <2>3. QED
    BY <1>1, <2>1, <2>2
<1>7. OneLeaseEach'
  BY <1>1, <1>2 DEF ReadInv, LeasesFit, ReadTypes, OneLeaseEach
<1>8. OverrunBoundedByFlush'
  BY <1>1, <1>2, BudgetAssumption DEF ReadInv, ReadTypes, OverrunBoundedByFlush
<1>9. QED
  BY <1>4, <1>5, <1>6, <1>7, <1>8 DEF ReadInv

--------------------
\* Recording bytes adds them to one response and charges no more than the
\* larger of the two.
LEMMA RecordAdds ==
    ASSUME ReadTypes, NEW r \in Request, NEW wire \in Nat, NEW decoded \in Nat,
           RecordResponseBytes(r, wire, decoded)
    PROVE  /\ responseBytes' \in [Request -> [wire : Nat, decoded : Nat]]
           /\ Wire(r)' = Wire(r) + wire /\ Decoded(r)' = Decoded(r) + decoded
           /\ \A q \in Request \ {r} : responseBytes'[q] = responseBytes[q]
           /\ accountedBytes' \in Nat
           /\ accountedBytes' <= accountedBytes + Larger(wire, decoded)
<1> DEFINE old == responseBytes[r]
           new == [wire |-> old.wire + wire, decoded |-> old.decoded + decoded]
<1>1. old \in [wire : Nat, decoded : Nat] /\ new \in [wire : Nat, decoded : Nat]
  BY DEF ReadTypes
<1>2. responseBytes' = [responseBytes EXCEPT ![r] = new]
      /\ accountedBytes' = accountedBytes + (Charge(new) - Charge(old))
  BY DEF RecordResponseBytes
<1>3. /\ Charge(new) - Charge(old) \in Nat
      /\ Charge(new) - Charge(old) <= Larger(wire, decoded)
  BY <1>1 DEF Charge, Larger
<1>4. new.wire = Wire(r) + wire /\ new.decoded = Decoded(r) + decoded
  BY DEF Wire, Decoded
<1>5. Charge(new) \in Int /\ Charge(old) \in Int
      /\ Larger(wire, decoded) \in Int
  BY <1>1 DEF Charge, Larger
<1> HIDE DEF new, old
<1>6. QED
  BY <1>1, <1>2, <1>3, <1>4, <1>5 DEF ReadTypes, Wire, Decoded

\* Settling the lease of a reading request leaves it without a lease, within
\* the cap, and the others untouched.
LEMMA SettleRead ==
    ASSUME ReadInv, NEW r \in Request, phase[r] = "leased",
           NEW wire \in Nat, NEW decoded \in Nat,
           SettleBytes(LeaseOf(r), wire, decoded),
           owesOutput[r] => wire = 0
    PROVE  /\ responseBytes' \in [Request -> [wire : Nat, decoded : Nat]]
           /\ accountedBytes' \in Nat /\ bytesReserved' \in Int
           /\ Wire(r)' = Wire(r) + wire /\ Decoded(r)' = Decoded(r) + decoded
           /\ Wire(r)' <= Cap /\ Decoded(r)' <= Cap
           /\ \A q \in Request \ {r} : responseBytes'[q] = responseBytes[q]
           /\ activeByteLeases' = {lease \in activeByteLeases : lease.owner # r}
           /\ OverrunBoundedByFlush'
           /\ UNCHANGED <<nextLeaseId, flushedBytes>>
<1>1. /\ LeaseOf(r) \in activeByteLeases /\ LeaseOf(r).owner = r
      /\ LeaseOf(r).size \in Nat \ {0}
  BY LeaseOfReader
<1>2. /\ wire <= LeaseOf(r).size /\ decoded <= LeaseOf(r).size
      /\ activeByteLeases' = activeByteLeases \ {LeaseOf(r)}
      /\ bytesReserved' = bytesReserved - LeaseOf(r).size
      /\ RecordResponseBytes(r, wire, decoded)
      /\ UNCHANGED <<nextLeaseId, flushedBytes>>
  BY <1>1 DEF SettleBytes
<1>3. ReadTypes
  BY DEF ReadInv
<1>4. /\ responseBytes' \in [Request -> [wire : Nat, decoded : Nat]]
      /\ Wire(r)' = Wire(r) + wire /\ Decoded(r)' = Decoded(r) + decoded
      /\ \A q \in Request \ {r} : responseBytes'[q] = responseBytes[q]
      /\ accountedBytes' \in Nat
      /\ accountedBytes' <= accountedBytes + Larger(wire, decoded)
  BY <1>2, <1>3, RecordAdds
<1>5. activeByteLeases' = {lease \in activeByteLeases : lease.owner # r}
  BY <1>1, <1>2 DEF ReadInv, OneLeaseEach
<1>6. Wire(r)' <= Cap /\ Decoded(r)' <= Cap
  <2>1. /\ Wire(r) \in Nat /\ Decoded(r) \in Nat /\ Cap \in Nat
        /\ Wire(r) < Cap
        /\ Decoded(r) + LeaseOf(r).size <= Cap
        /\ ~owesOutput[r] => Wire(r) + LeaseOf(r).size <= Cap
    BY <1>1, FetchAssumption
       DEF ReadInv, ReadTypes, ReadersHaveRoom, LeasesFit, Wire, Decoded
  <2>2. QED
    BY <1>1, <1>2, <1>4, <2>1
<1>7. OverrunBoundedByFlush'
  BY <1>1, <1>2, <1>4, BudgetAssumption DEF ReadInv, ReadTypes, OverrunBoundedByFlush, Larger
<1>8. bytesReserved' \in Int
  BY <1>1, <1>2, <1>3 DEF ReadTypes
<1>9. QED
  BY <1>2, <1>4, <1>5, <1>6, <1>7, <1>8

\* A settled read that leaves the loop, or stays in it below the cap, keeps
\* the invariant.
LEMMA AfterReadKeeps ==
    ASSUME ReadInv, NEW r \in Request, phase[r] = "leased",
           NEW wire \in Nat, NEW decoded \in Nat,
           SettleBytes(LeaseOf(r), wire, decoded),
           owesOutput[r] => wire = 0,
           NEW to \in Phases \ {"leased"}, Goto(r, to),
           to \in {"connecting", "reading"} =>
               Wire(r) + wire < Cap /\ Decoded(r) + decoded < Cap,
           NEW owes \in BOOLEAN, owesOutput' = [owesOutput EXCEPT ![r] = owes]
    PROVE  ReadInv'
<1>1. /\ responseBytes' \in [Request -> [wire : Nat, decoded : Nat]]
      /\ accountedBytes' \in Nat /\ bytesReserved' \in Int
      /\ Wire(r)' = Wire(r) + wire /\ Decoded(r)' = Decoded(r) + decoded
      /\ Wire(r)' <= Cap /\ Decoded(r)' <= Cap
      /\ \A q \in Request \ {r} : responseBytes'[q] = responseBytes[q]
      /\ activeByteLeases' = {lease \in activeByteLeases : lease.owner # r}
      /\ OverrunBoundedByFlush'
      /\ UNCHANGED <<nextLeaseId, flushedBytes>>
  BY SettleRead
<1>2. phase' = [phase EXCEPT ![r] = to]
  BY DEF Goto
<1>3. ReadTypes'
  BY <1>1, <1>2 DEF ReadInv, ReadTypes
<1>4. \A q \in Request \ {r} : Wire(q)' = Wire(q) /\ Decoded(q)' = Decoded(q)
                                /\ phase'[q] = phase[q]
                                /\ owesOutput'[q] = owesOutput[q]
  BY <1>1, <1>2 DEF ReadInv, ReadTypes, Wire, Decoded
<1>5. WithinResponseCap'
  BY <1>1, <1>4 DEF ReadInv, WithinResponseCap, Wire, Decoded
<1>6. phase'[r] = to
  BY <1>2 DEF ReadInv, ReadTypes
<1>7. ReadersHaveRoom'
  BY <1>1, <1>4, <1>6 DEF ReadInv, ReadersHaveRoom, Wire, Decoded
<1>8. LeasesFit'
  BY <1>1, <1>4 DEF ReadInv, ReadTypes, LeasesFit, Wire, Decoded, ByteReservation
<1>9. OneLeaseEach'
  BY <1>1, <1>4, <1>6 DEF ReadInv, OneLeaseEach
<1>10. QED
  BY <1>1, <1>3, <1>5, <1>7, <1>8, <1>9 DEF ReadInv

\* The two ways a settled read goes on: out of the loop, or round it again.
LEMMA LeavingKeeps ==
    ASSUME ReadInv, NEW r \in Request, phase[r] = "leased",
           NEW wire \in Nat, NEW decoded \in Nat,
           SettleBytes(LeaseOf(r), wire, decoded),
           owesOutput[r] => wire = 0,
           Goto(r, "closing") \/ Goto(r, "flushing"),
           NEW owes \in BOOLEAN, owesOutput' = [owesOutput EXCEPT ![r] = owes]
    PROVE  ReadInv'
BY AfterReadKeeps DEF Phases

LEMMA ReadingOnKeeps ==
    ASSUME ReadInv, NEW r \in Request, phase[r] = "leased",
           NEW wire \in Nat, NEW decoded \in Nat,
           SettleBytes(LeaseOf(r), wire, decoded),
           owesOutput[r] => wire = 0,
           Goto(r, "reading"),
           Wire(r) + wire < Cap, Decoded(r) + decoded < Cap,
           NEW owes \in BOOLEAN, owesOutput' = [owesOutput EXCEPT ![r] = owes]
    PROVE  ReadInv'
BY AfterReadKeeps DEF Phases

--------------------
LEMMA ReadChunkKeeps ==
    ASSUME ReadInv, NEW r \in Request, ReadChunk(r)
    PROVE  ReadInv'
<1>1. LeaseOf(r).size \in Nat
  BY LeaseOfReader DEF ReadChunk
<1>2. PICK wire \in 1..LeaseOf(r).size, decoded \in 0..LeaseOf(r).size :
         SettleBytes(LeaseOf(r), wire, decoded) /\ Continue(r, wire, decoded)
  BY DEF ReadChunk
<1>3. PICK owes \in BOOLEAN : owesOutput' = [owesOutput EXCEPT ![r] = owes]
  BY DEF ReadChunk
<1>4. wire \in Nat /\ decoded \in Nat /\ phase[r] = "leased" /\ ~owesOutput[r]
  BY <1>1 DEF ReadChunk
<1>5. CASE Goto(r, "closing")
  BY <1>2, <1>3, <1>4, <1>5, LeavingKeeps
<1>6. CASE Goto(r, "reading") /\ ~(Decoded(r) + decoded >= Cap \/ Wire(r) + wire >= Cap)
  <2>1. Wire(r) \in Nat /\ Decoded(r) \in Nat /\ Cap \in Nat
    BY FetchAssumption DEF ReadInv, ReadTypes, Wire, Decoded
  <2>2. Wire(r) + wire < Cap /\ Decoded(r) + decoded < Cap
    BY <1>4, <1>6, <2>1
  <2>3. QED
    BY <1>2, <1>3, <1>4, <1>6, <2>2, ReadingOnKeeps
<1>7. QED
  BY <1>2, <1>5, <1>6 DEF Continue, End

LEMMA DrainTailKeeps ==
    ASSUME ReadInv, NEW r \in Request, DrainTail(r)
    PROVE  ReadInv'
<1>1. LeaseOf(r).size \in Nat
  BY LeaseOfReader DEF DrainTail
<1>2. PICK decoded \in 0..LeaseOf(r).size, owes \in BOOLEAN :
         /\ SettleBytes(LeaseOf(r), 0, decoded)
         /\ IF Decoded(r) + decoded >= Cap
            THEN End(r, "max_response_bytes")
            ELSE Goto(r, "reading") /\ UNCHANGED outcome
         /\ owesOutput' = [owesOutput EXCEPT ![r] = owes]
  BY DEF DrainTail
<1>3. decoded \in Nat /\ phase[r] = "leased"
  BY <1>1 DEF DrainTail
<1>4. CASE Goto(r, "closing")
  BY <1>2, <1>3, <1>4, LeavingKeeps
<1>5. CASE Goto(r, "reading") /\ ~(Decoded(r) + decoded >= Cap)
  <2>1. Wire(r) \in Nat /\ Decoded(r) \in Nat /\ Cap \in Nat /\ Wire(r) + 0 < Cap
    BY <1>3, FetchAssumption DEF ReadInv, ReadTypes, ReadersHaveRoom, Wire, Decoded
  <2>2. Decoded(r) + decoded < Cap
    BY <1>3, <1>5, <2>1
  <2>3. QED
    BY <1>2, <1>3, <1>5, <2>1, <2>2, ReadingOnKeeps
<1>6. QED
  BY <1>2, <1>4, <1>5 DEF End

LEMMA ReadEndsKeep ==
    ASSUME ReadInv, NEW r \in Request, ReadEof(r) \/ ReadError(r)
    PROVE  ReadInv'
<1>1. phase[r] = "leased" /\ LeaseOf(r).size \in Nat
  BY LeaseOfReader DEF ReadEof, ReadError
<1>2. /\ owesOutput[r] \in BOOLEAN
      /\ owesOutput' = [owesOutput EXCEPT ![r] = owesOutput[r]]
  BY DEF ReadInv, ReadTypes, ReadEof, ReadError
<1>3. CASE SettleBytes(LeaseOf(r), 0, 0)
           /\ (Goto(r, "flushing") \/ Goto(r, "closing"))
  BY <1>1, <1>2, <1>3, LeavingKeeps
<1>4. ASSUME NEW wire \in IF owesOutput[r] THEN {0} ELSE 1..LeaseOf(r).size,
             SettleBytes(LeaseOf(r), wire, 0), Goto(r, "closing")
      PROVE  ReadInv'
  <2>1. wire \in Nat /\ (owesOutput[r] => wire = 0)
    BY <1>1, <1>4
  <2>2. QED
    BY <1>1, <1>2, <1>4, <2>1, LeavingKeeps
<1>5. QED
  BY <1>3, <1>4 DEF ReadEof, ReadError, End

\* Output flushed at end of file stays below the cap, and is what the overrun
\* of the run's limit is measured by.
LEMMA FlushKeeps ==
    ASSUME ReadInv, NEW r \in Request, Flush(r)
    PROVE  ReadInv'
<1>1. phase[r] = "flushing" /\ UNCHANGED owesOutput
  BY DEF Flush
<1>2. Wire(r) \in Nat /\ Decoded(r) \in Nat /\ Cap \in Nat /\ Wire(r) <= Cap
  BY FetchAssumption DEF ReadInv, ReadTypes, WithinResponseCap, Wire, Decoded
<1>3. PICK tail \in 1..(Cap - Decoded(r)) :
         \/ RecordDecodedBytes(r, tail) /\ UNCHANGED <<phase, outcome>>
         \/ RecordDecodedRefused(r, tail) /\ End(r, "max_bytes")
  BY DEF Flush
<1>4. tail \in Nat /\ Decoded(r) + tail <= Cap
  BY <1>2
<1>5. CASE RecordDecodedRefused(r, tail) /\ End(r, "max_bytes")
  BY <1>1, <1>5, MovesKeep DEF RecordDecodedRefused, End, Phases
<1>6. CASE RecordDecodedBytes(r, tail) /\ UNCHANGED <<phase, outcome>>
  <2>1. /\ RecordResponseBytes(r, 0, tail)
        /\ flushedBytes' = flushedBytes + FlushCharge(r, tail)
        /\ UNCHANGED <<bytesReserved, activeByteLeases, nextLeaseId, phase, owesOutput>>
    BY <1>1, <1>6 DEF RecordDecodedBytes
  <2>2. /\ responseBytes' \in [Request -> [wire : Nat, decoded : Nat]]
        /\ Wire(r)' = Wire(r) + 0 /\ Decoded(r)' = Decoded(r) + tail
        /\ \A q \in Request \ {r} : responseBytes'[q] = responseBytes[q]
        /\ accountedBytes' \in Nat
    BY <1>4, <2>1, RecordAdds DEF ReadInv
  <2>3. /\ FlushCharge(r, tail) \in Nat
        /\ accountedBytes' = accountedBytes + FlushCharge(r, tail)
    BY <1>4, <2>1 DEF ReadInv, ReadTypes, RecordResponseBytes, FlushCharge, Charge, Larger
  <2>4. ReadTypes'
    BY <2>1, <2>2, <2>3 DEF ReadInv, ReadTypes
  <2>5. WithinResponseCap'
    BY <1>2, <1>4, <2>2 DEF ReadInv, WithinResponseCap, Wire, Decoded
  <2>6. ReadersHaveRoom' /\ OneLeaseEach'
    BY <1>1, <2>1, <2>2 DEF ReadInv, ReadersHaveRoom, OneLeaseEach, Wire, Decoded
  <2>7. LeasesFit'
    BY <1>1, <2>1, <2>2
       DEF ReadInv, ReadTypes, LeasesFit, Wire, Decoded, ByteReservation
  <2>8. OverrunBoundedByFlush'
    BY <2>1, <2>3, BudgetAssumption DEF ReadInv, ReadTypes, OverrunBoundedByFlush
  <2>9. QED
    BY <2>4, <2>5, <2>6, <2>7, <2>8 DEF ReadInv
<1>7. QED
  BY <1>3, <1>5, <1>6

LEMMA AdmitKeeps ==
    ASSUME ReadInv, NEW r \in Request, Admit(r)
    PROVE  ReadInv'
<1> DEFINE fresh == [wire |-> 0, decoded |-> 0]
<1>1. /\ phase[r] = "idle" /\ phase' = [phase EXCEPT ![r] = "connecting"]
      /\ responseBytes' = [responseBytes EXCEPT ![r] = fresh]
      /\ UNCHANGED <<accountedBytes, bytesReserved, activeByteLeases, nextLeaseId,
                     flushedBytes, owesOutput>>
  BY DEF Admit, Reserve, Goto
<1>2. fresh \in [wire : Nat, decoded : Nat] /\ fresh.wire = 0 /\ fresh.decoded = 0
  OBVIOUS
<1> HIDE DEF fresh
<1>3. ReadTypes'
  BY <1>1, <1>2 DEF ReadInv, ReadTypes, Phases
<1>4. WithinResponseCap' /\ ReadersHaveRoom'
  BY <1>1, <1>2, FetchAssumption
     DEF ReadInv, ReadTypes, WithinResponseCap, ReadersHaveRoom, Wire, Decoded
<1>5. LeasesFit'
  BY <1>1 DEF ReadInv, ReadTypes, LeasesFit, ByteReservation, Wire, Decoded
<1>6. OneLeaseEach' /\ OverrunBoundedByFlush'
  BY <1>1 DEF ReadInv, ReadTypes, OneLeaseEach, OverrunBoundedByFlush
<1>7. QED
  BY <1>3, <1>4, <1>5, <1>6 DEF ReadInv

LEMMA OtherStepsKeep ==
    ASSUME ReadInv, NEW r \in Request,
           Refuse(r) \/ Connect(r) \/ LeaseRefused(r) \/ FlushDone(r) \/ Close(r)
    PROVE  ReadInv'
<1>1. CASE Refuse(r)
  BY <1>1, MovesKeep DEF Refuse, ReserveRefused, Phases
<1>2. CASE Connect(r)
  BY <1>2, MovesKeep DEF ReadInv, ReadersHaveRoom, Connect, Phases, ledgerVars, End
<1>3. CASE LeaseRefused(r)
  BY <1>3, MovesKeep DEF LeaseRefused, ReserveBytesRefused, End, Phases
<1>4. CASE FlushDone(r)
  BY <1>4, MovesKeep DEF FlushDone, ledgerVars, End, Phases
<1>5. CASE Close(r)
  BY <1>5, MovesKeep DEF Close, Settle, Phases
<1>6. QED
  BY <1>1, <1>2, <1>3, <1>4, <1>5

LEMMA StepKeeps ==
    ASSUME ReadInv, [Next]_vars
    PROVE  ReadInv'
<1>1. CASE UNCHANGED vars
  BY <1>1 DEF vars, ledgerVars, ReadInv, ReadTypes, WithinResponseCap,
              ReadersHaveRoom, LeasesFit, OneLeaseEach, OverrunBoundedByFlush, Wire, Decoded
<1>2. CASE \E r \in Request : Step(r)
  BY <1>2, AdmitKeeps, TakeLeaseKeeps, ReadChunkKeeps, DrainTailKeeps, ReadEndsKeep,
     FlushKeeps, OtherStepsKeep DEF Step
<1>3. QED
  BY <1>1, <1>2 DEF Next

LEMMA ReadsInvariant == Spec => []ReadInv
<1>1. Init => ReadInv
  BY InitReads
<1>2. ReadInv /\ [Next]_vars => ReadInv'
  BY StepKeeps
<1>3. QED
  BY <1>1, <1>2, PTL DEF Spec

--------------------
\* Neither dimension of a response ever passes max_response_bytes, whatever the
\* compression ratio: every read of _read_budgeted_body asks for no more than
\* both dimensions have left, and a read whose decoder owes output asks the
\* socket for nothing.
THEOREM ResponseCap == Spec => []WithinResponseCap
<1>1. ReadInv => WithinResponseCap
  BY DEF ReadInv
<1>2. QED
  BY <1>1, ReadsInvariant, PTL

\* However the fetches of a run interleave, charged and leased bytes pass
\* max_bytes by no more than record_decoded_bytes charged without a lease.
THEOREM FetchesOverrunByFlush == Spec => []OverrunBoundedByFlush
<1>1. ReadInv => OverrunBoundedByFlush
  BY DEF ReadInv
<1>2. QED
  BY <1>1, ReadsInvariant, PTL

--------------------
\* A read, or an empty or failed one, is a settle_bytes() within the contract.
LEMMA ReadsAreSettles ==
    ASSUME ReadInv, NEW r \in Request,
           ReadChunk(r) \/ DrainTail(r) \/ ReadEof(r) \/ ReadError(r)
    PROVE  LedgerNext
BY LeaseOfReader, BudgetAssumption DEF ReadChunk, DrainTail, ReadEof, ReadError, LedgerNext

LEMMA StepRefines ==
    ASSUME ReadInv, [Next]_vars
    PROVE  [LedgerNext]_(ledgerVars)
<1> USE DEF ledgerVars
<1>1. CASE UNCHANGED vars
  BY <1>1 DEF vars
<1>2. ASSUME NEW r \in Request, Step(r)
      PROVE  LedgerNext \/ UNCHANGED ledgerVars
  <2>1. CASE Admit(r)
    BY <2>1 DEF Admit, LedgerNext
  <2>2. CASE Refuse(r)
    BY <2>2 DEF Refuse, LedgerNext
  <2>3. CASE Connect(r) \/ FlushDone(r)
    BY <2>3 DEF Connect, FlushDone
  <2>4. CASE TakeLease(r)
    BY <2>4, WantedFits DEF TakeLease, LedgerNext
  <2>5. CASE LeaseRefused(r)
    BY <2>5 DEF LeaseRefused, LedgerNext
  <2>6. CASE ReadChunk(r) \/ DrainTail(r) \/ ReadEof(r) \/ ReadError(r)
    BY <2>6, ReadsAreSettles
  <2>7. CASE Flush(r)
    BY <2>7, FetchAssumption, BudgetAssumption DEF ReadInv, ReadTypes, Decoded, Flush, LedgerNext
  <2>8. CASE Close(r)
    BY <2>8 DEF Close, LedgerNext
  <2>9. QED
    BY <1>2, <2>1, <2>2, <2>3, <2>4, <2>5, <2>6, <2>7, <2>8 DEF Step
<1>3. QED
  BY <1>1, <1>2 DEF Next

\* The guarded fetch keeps the ledger's contract: every step of a fetch is one
\* call the ledger allows, or leaves it alone.  So no reserve_bytes() asks for
\* nothing and no settle_bytes() or settle() is answered with ValueError, and
\* what is proved of the ledger holds of the fetches.
THEOREM FetchImplementsLedger == Spec => ImplementsLedger
<1>1. Init => LedgerInit
  BY DEF Init
<1>2. ReadInv /\ [Next]_vars => [LedgerNext]_(ledgerVars)
  BY StepRefines
<1>3. QED
  BY <1>1, <1>2, ReadsInvariant, PTL DEF Spec, ImplementsLedger, LedgerSpec

\* No response costs the run more than max_response_bytes, and the run is
\* charged exactly the sum of what its responses cost: the cap is kept by the
\* reads, the sum by the ledger that they are steps of.
THEOREM FetchesAreCharged == Spec => []ResponsesAreCapped
<1>1. WithinResponseCap /\ ChargedPerResponse => ResponsesAreCapped
  BY DEF ResponsesAreCapped
<1>2. Spec => []ChargedPerResponse
  BY FetchImplementsLedger, ChargesAreExact DEF ImplementsLedger
<1>3. QED
  BY <1>1, <1>2, ResponseCap, PTL

\* From its admission to its settlement: no connection is open at other times.
UnderWay == {"connecting", "reading", "leased", "flushing", "closing"}

ConnectionsHoldSlots ==
    \A r \in Request : phase[r] \in UnderWay <=> r \in activeReservations

SlotInv == phase \in [Request -> Phases] /\ ConnectionsHoldSlots

LEMMA StepKeepsSlots ==
    ASSUME SlotInv, [Next]_vars
    PROVE  SlotInv'
<1>1. CASE UNCHANGED vars
  BY <1>1 DEF vars, ledgerVars, SlotInv, ConnectionsHoldSlots
<1>2. ASSUME NEW r \in Request, NEW to \in UnderWay, Goto(r, to), phase[r] \in UnderWay,
             UNCHANGED activeReservations
      PROVE  SlotInv'
  BY <1>2 DEF Goto, SlotInv, ConnectionsHoldSlots, UnderWay, Phases
<1>3. ASSUME NEW r \in Request, Step(r)
      PROVE  SlotInv'
  <2>1. CASE Admit(r)
    BY <1>3, <2>1 DEF Admit, Reserve, Goto, SlotInv, ConnectionsHoldSlots, UnderWay, Phases
  <2>2. CASE Refuse(r)
    BY <1>3, <2>2 DEF Refuse, ReserveRefused, Goto, SlotInv, ConnectionsHoldSlots, UnderWay, Phases
  <2>3. CASE Connect(r)
    BY <1>2, <1>3, <2>3 DEF Connect, End, ledgerVars, UnderWay
  <2>4. CASE TakeLease(r) \/ LeaseRefused(r)
    BY <1>2, <1>3, <2>4 DEF TakeLease, LeaseRefused, ReserveBytes, ReserveBytesRefused, End, UnderWay
  <2>5. CASE ReadChunk(r)
    BY <1>2, <1>3, <2>5 DEF ReadChunk, SettleBytes, Continue, End, UnderWay
  <2>6. CASE DrainTail(r)
    BY <1>2, <1>3, <2>6 DEF DrainTail, SettleBytes, End, UnderWay
  <2>7. CASE ReadEof(r) \/ ReadError(r)
    BY <1>2, <1>3, <2>7 DEF ReadEof, ReadError, SettleBytes, End, UnderWay
  <2>8. CASE Flush(r)
    <3>1. PICK tail \in 1..(Cap - Decoded(r)) :
              \/ RecordDecodedBytes(r, tail) /\ UNCHANGED <<phase, outcome>>
              \/ RecordDecodedRefused(r, tail) /\ End(r, "max_bytes")
      BY <2>8 DEF Flush
    <3>2. CASE RecordDecodedBytes(r, tail) /\ UNCHANGED <<phase, outcome>>
      BY <3>2 DEF RecordDecodedBytes, SlotInv, ConnectionsHoldSlots
    <3>3. CASE RecordDecodedRefused(r, tail) /\ End(r, "max_bytes")
      BY <1>2, <2>8, <3>3 DEF Flush, RecordDecodedRefused, End, UnderWay
    <3>4. QED
      BY <3>1, <3>2, <3>3
  <2>9. CASE FlushDone(r)
    BY <1>2, <1>3, <2>9 DEF FlushDone, End, ledgerVars, UnderWay
  <2>10. CASE Close(r)
    BY <1>3, <2>10 DEF Close, Settle, Goto, SlotInv, ConnectionsHoldSlots, UnderWay, Phases
  <2>11. QED
    BY <1>3, <2>1, <2>2, <2>3, <2>4, <2>5, <2>6, <2>7, <2>8, <2>9, <2>10 DEF Step
<1>4. QED
  BY <1>1, <1>3 DEF Next

\* Whatever fails in between: a connection is open only for a request that holds
\* one of the slots, every slot held is of a fetch under way, the slots are counted
\* exactly, and a run never takes more of them than --max-requests.
THEOREM FetchesAreAdmitted == Spec => [](AdmissionIsCounted /\ ConnectionsHoldSlots)
<1>1. Init => SlotInv
  BY DEF Init, LedgerInit, SlotInv, ConnectionsHoldSlots, UnderWay, Phases
<1>2. SlotInv /\ [Next]_vars => SlotInv'
  BY StepKeepsSlots
<1>3. SlotInv => ConnectionsHoldSlots
  BY DEF SlotInv
<1>4. Spec => []ConnectionsHoldSlots
  BY <1>1, <1>2, <1>3, PTL DEF Spec
<1>5. Spec => []AdmissionIsCounted
  BY FetchImplementsLedger, RequestLimit DEF ImplementsLedger
<1>6. QED
  BY <1>4, <1>5, PTL

=============================================================================
