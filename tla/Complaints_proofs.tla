------------------------- MODULE Complaints_proofs --------------------------
(***************************************************************************)
(* Proofs about Complaints: what the customer has back and what the worker *)
(* is paid for the sessions of a booking, however complaints, decisions    *)
(* and the release job follow each other.                                  *)
(*                                                                         *)
(* ComplaintInvariant relates, session by session, the row of the earning  *)
(* to what was paid for it, and the status of the session to what was      *)
(* refunded; the total of the booking is counted unit by unit (Units), so  *)
(* that a step for one session moves it by as much (TotalMoves). The       *)
(* release job credits later than it looks: EarningAgrees keeps what it    *)
(* has seen true until then.                                               *)
(*                                                                         *)
(* Reviews: ReviewsInvariant keeps, of a transaction under way, that it    *)
(* holds its session's row, what average its commit will make true if it   *)
(* is alone, and which images are whose (Mine).  That an average is at     *)
(* most 5.00 is an induction over the sets that are summed, by the least   *)
(* of them for which it would fail.                                        *)
(***************************************************************************)
EXTENDS Complaints, Reviews, FiniteSetTheorems, WellFoundedInduction, TLAPS

-----------------------------------------------------------------------------
(* The inductive invariant *)

\* A row of WorkerEarning.
EarningRows == [exists : BOOLEAN, credited : BOOLEAN, voided : BOOLEAN, settled : BOOLEAN]

\* The shapes behind ComplaintsTypeOK.
ComplaintShape ==
    /\ ComplaintsTypeOK
    /\ {refunded, clawed, paidWorker, shortfall} \subseteq [Parts -> Nat]

\* What the earning of a session says of what the worker was paid for it: nothing before it
\* is credited, all while it stands, and what a wallet did not cover once it was taken back.
EarningAgrees(s) ==
    /\ earning[s].credited \/ earning[s].voided \/ part[s] = "COMPLETED" => earning[s].exists
    /\ ~earning[s].credited => paidWorker[s] = 0
    /\ s \in releasing => /\ earning[s].exists /\ ~inCash
                          /\ ~earning[s].credited /\ ~earning[s].voided
    /\ paidWorker[s] <= Payout(s)
    /\ ~inCash /\ earning[s].credited /\ ~earning[s].voided => paidWorker[s] = WorkerAmount
    /\ ~inCash /\ earning[s].voided => paidWorker[s] <= shortfall[s]

\* What the customer has back for a session of a prepaid booking whose complaints came after it:
\* nothing before it ended, nothing for work whose earning stands, unless an admin chose so.
RefundAgrees(s) ==
    /\ NetRefunded(s) >= 0
    /\ s \notin early =>
          /\ NetRefunded(s) <= Share
          /\ part[s] = "ASSIGNED" => NetRefunded(s) = 0 /\ ~earning[s].exists
          /\ part[s] = "MISSED" /\ earning[s].exists => earning[s].credited
          /\ /\ part[s] = "COMPLETED" /\ s \notin waived
             /\ ~earning[s].credited /\ ~earning[s].voided
             => NetRefunded(s) = 0

\* The total of the booking is the sum over its sessions, and within the price.
\* What the customer has back for each session.
Back == [s \in Parts |-> NetRefunded(s)]

TotalAgrees ==
    /\ IsFiniteSet(Units(Back)) /\ bookingRefunded = Cardinality(Units(Back))
    /\ bookingRefunded <= Total

ComplaintInvariant ==
    /\ ComplaintShape
    /\ \A s \in Parts : EarningAgrees(s)
    /\ ~inCash => TotalAgrees /\ \A s \in Parts : RefundAgrees(s)
    /\ PaidOutOnce

-----------------------------------------------------------------------------
(* Amounts *)

\* The prices and what follows from them are numbers.
LEMMA Constants ==
    /\ Share \in Nat \ {0} /\ Gross \in Nat /\ Commission \in Nat
    /\ WorkerAmount \in Nat \ {0} /\ WorkerAmount <= Gross
    /\ Total \in Nat
<1>1. Cardinality(Parts) \in Nat
  BY ComplaintsAssumption, FS_CardinalityType
<1>2. Total \in Nat
  <2>1. PICK n \in Nat, share \in Nat : n = Cardinality(Parts) /\ share = Share
    BY <1>1, ComplaintsAssumption
  <2>2. share * n \in Nat
    OBVIOUS
  <2> QED BY <2>1, <2>2 DEF Total
<1> QED BY <1>2, ComplaintsAssumption DEF WorkerAmount

\* The sum follows the amount of one session.
LEMMA UnitsChange ==
    ASSUME NEW f \in [Parts -> Nat], NEW s \in Parts, NEW n \in Nat, IsFiniteSet(Units(f))
    PROVE  /\ IsFiniteSet(Units([f EXCEPT ![s] = n]))
           /\ Cardinality(Units(f)) \in Nat /\ f[s] <= Cardinality(Units(f))
           /\ Cardinality(Units([f EXCEPT ![s] = n])) = Cardinality(Units(f)) - f[s] + n
<1> DEFINE Rest == UNION {{t} \X (1..f[t]) : t \in Parts \ {s}}
           Of(k) == {s} \X (1..k)
<1>1. ASSUME NEW k \in Nat
      PROVE  IsFiniteSet(Of(k)) /\ Cardinality(Of(k)) = k
  <2>1. IsFiniteSet(1..k) /\ Cardinality(1..k) = k
    <3>1. 1 \in Int /\ k \in Int /\ k >= 0
      OBVIOUS
    <3>2. IsFiniteSet(1..k) /\ Cardinality(1..k) = IF 1 > k THEN 0 ELSE k - 1 + 1
      BY <3>1, FS_Interval
    <3> QED BY <3>1, <3>2
  <2>2. IsFiniteSet({s}) /\ Cardinality({s}) = 1
    BY FS_Singleton
  <2>3. IsFiniteSet(Of(k)) /\ Cardinality(Of(k)) = Cardinality({s}) * Cardinality(1..k)
    BY <2>1, <2>2, FS_Product
  <2> QED BY <2>1, <2>2, <2>3
<1>2. Units(f) = Rest \cup Of(f[s])
  BY DEF Units
<1>3. Units([f EXCEPT ![s] = n]) = Rest \cup Of(n)
  <2>1. PICK g : g = [f EXCEPT ![s] = n]
    OBVIOUS
  <2>2. g[s] = n /\ \A t \in Parts \ {s} : g[t] = f[t]
    BY <2>1
  <2>3. Units(g) = Rest \cup Of(n)
    BY <2>2 DEF Units
  <2> QED BY <2>1, <2>3
<1>4. \A k : Rest \cap Of(k) = {}
  OBVIOUS
<1> HIDE DEF Rest, Of
<1>5. IsFiniteSet(Rest)
  BY <1>2, FS_Subset
<1>6. PICK r \in Nat : r = Cardinality(Rest)
  BY <1>5, FS_CardinalityType
<1>7. ASSUME NEW k \in Nat
      PROVE  IsFiniteSet(Rest \cup Of(k)) /\ Cardinality(Rest \cup Of(k)) = r + k
  <2>1. IsFiniteSet(Of(k)) /\ Cardinality(Of(k)) = k
    BY <1>1
  <2>2. /\ IsFiniteSet(Rest \cup Of(k))
        /\ Cardinality(Rest \cup Of(k))
             = Cardinality(Rest) + Cardinality(Of(k)) - Cardinality(Rest \cap Of(k))
    BY <1>5, <2>1, FS_Union
  <2>3. Cardinality(Rest \cap Of(k)) = 0
    BY <1>4, FS_EmptySet
  <2>4. Cardinality(Rest \cup Of(k)) = r + k - 0
    BY <1>6, <2>1, <2>2, <2>3
  <2> QED BY <2>2, <2>4
<1>8. PICK m \in Nat : m = f[s]
  OBVIOUS
<1>9. Cardinality(Units(f)) = r + m
  BY <1>2, <1>7, <1>8
<1>10. Cardinality(Units([f EXCEPT ![s] = n])) = r + n /\ IsFiniteSet(Units([f EXCEPT ![s] = n]))
  BY <1>3, <1>7
<1>11. r + m \in Nat /\ m <= r + m /\ r + n = r + m - m + n
  OBVIOUS
<1> QED BY <1>8, <1>9, <1>10, <1>11

\* A refund for a session, or money taken back, moves the total of the booking by as much.
LEMMA TotalMoves ==
    ASSUME ComplaintShape, TotalAgrees, \A t \in Parts : NetRefunded(t) >= 0,
           NEW s \in Parts, NEW amount \in Int,
           \A t \in Parts : NetRefunded(t)' = IF t = s THEN NetRefunded(s) + amount ELSE NetRefunded(t),
           NetRefunded(s) + amount >= 0, bookingRefunded' = bookingRefunded + amount,
           bookingRefunded' <= Total
    PROVE  TotalAgrees'
<1>1. \A t \in Parts : NetRefunded(t) \in Nat
  BY DEF ComplaintShape, NetRefunded
<1>2. PICK f \in [Parts -> Nat] : f = Back
  BY <1>1 DEF Back
<1>3. PICK n \in Nat : n = NetRefunded(s) + amount
  BY <1>1
<1>4. Back' = [f EXCEPT ![s] = n]
  <2>1. \A t \in Parts : NetRefunded(t)' = [f EXCEPT ![s] = n][t]
    BY <1>2, <1>3 DEF Back
  <2> QED BY <1>2, <2>1 DEF Back
<1>5. IsFiniteSet(Units(f)) /\ bookingRefunded = Cardinality(Units(f))
  BY <1>2 DEF TotalAgrees
<1>6. /\ IsFiniteSet(Units([f EXCEPT ![s] = n])) /\ Cardinality(Units(f)) \in Nat
      /\ Cardinality(Units([f EXCEPT ![s] = n])) = Cardinality(Units(f)) - f[s] + n
  BY <1>5, UnitsChange
<1>7. f[s] = NetRefunded(s) /\ f[s] \in Nat
  BY <1>2 DEF Back
<1>8. bookingRefunded' = Cardinality(Units([f EXCEPT ![s] = n]))
  BY <1>3, <1>5, <1>6, <1>7
<1> QED BY <1>4, <1>6, <1>8 DEF TotalAgrees

\* No session has more back than the booking.
LEMMA PartOfTotal ==
    ASSUME ComplaintShape, TotalAgrees, \A t \in Parts : NetRefunded(t) >= 0, NEW s \in Parts
    PROVE  NetRefunded(s) \in Nat /\ NetRefunded(s) <= bookingRefunded
<1>1. \A t \in Parts : NetRefunded(t) \in Nat
  BY DEF ComplaintShape, NetRefunded
<1>2. PICK f \in [Parts -> Nat] : f = Back
  BY <1>1 DEF Back
<1>3. IsFiniteSet(Units(f)) /\ bookingRefunded = Cardinality(Units(f))
  BY <1>2 DEF TotalAgrees
<1>4. f[s] <= Cardinality(Units(f))
  <2>1. 0 \in Nat
    OBVIOUS
  <2> QED BY <1>3, <2>1, UnitsChange
<1> QED BY <1>1, <1>2, <1>3, <1>4 DEF Back

-----------------------------------------------------------------------------
(* Steps *)

\* What the invariant says of a single session.
LEMMA Facts ==
    ASSUME ComplaintInvariant, NEW s \in Parts
    PROVE  /\ inCash \in BOOLEAN /\ part[s] \in {"ASSIGNED", "COMPLETED", "MISSED"}
           /\ earning[s] \in EarningRows
           /\ refunded[s] \in Nat /\ clawed[s] \in Nat
           /\ paidWorker[s] \in Nat /\ shortfall[s] \in Nat
           /\ NetRefunded(s) \in Int /\ EarningAgrees(s)
           /\ ~inCash => RefundAgrees(s) /\ TotalAgrees
           /\ ~inCash /\ s \notin early =>
                 NetRefunded(s) + paidWorker[s]
                     <= Most(Share, WorkerAmount) + shortfall[s]
                        + (IF s \in waived THEN WorkerAmount ELSE 0)
BY DEF ComplaintInvariant, ComplaintShape, ComplaintsTypeOK, EarningRows, NetRefunded, PaidOutOnce

\* The shapes of the variables, one by one.
LEMMA Shaped ==
    ASSUME ComplaintInvariant
    PROVE  /\ ComplaintShape
           /\ part \in [Parts -> {"ASSIGNED", "COMPLETED", "MISSED"}]
           /\ earning \in [Parts -> EarningRows]
           /\ releasing \subseteq Parts /\ waived \subseteq Parts /\ early \subseteq Parts
           /\ refunded \in [Parts -> Nat] /\ clawed \in [Parts -> Nat]
           /\ paidWorker \in [Parts -> Nat] /\ shortfall \in [Parts -> Nat]
           /\ bookingRefunded \in Nat /\ customerWallet \in Nat /\ workerWallet \in Nat
           /\ complaint \in [Reporters \X Subjects -> Statuses]
BY DEF ComplaintInvariant, ComplaintShape, ComplaintsTypeOK, EarningRows

\* What a step that moves nothing for a session leaves as it was.
LEMMA Untouched ==
    ASSUME ComplaintInvariant, NEW t \in Parts, inCash' = inCash,
           part'[t] = part[t], earning'[t] = earning[t],
           t \in releasing' => t \in releasing,
           refunded'[t] = refunded[t], clawed'[t] = clawed[t],
           paidWorker'[t] = paidWorker[t], shortfall'[t] = shortfall[t],
           t \in waived' <=> t \in waived, t \in early' <=> t \in early
    PROVE  /\ EarningAgrees(t)' /\ (~inCash' => RefundAgrees(t)')
           /\ (~inCash /\ t \notin early)' =>
                 NetRefunded(t)' + paidWorker'[t]
                     <= Most(Share, WorkerAmount) + shortfall'[t]
                        + (IF t \in waived' THEN WorkerAmount ELSE 0)
<1>1. NetRefunded(t)' = NetRefunded(t) /\ Payout(t)' = Payout(t)
  BY DEF NetRefunded, Payout
<1>2. EarningAgrees(t)'
  BY <1>1, Facts DEF EarningAgrees
<1>3. ~inCash' => RefundAgrees(t)'
  BY <1>1, Facts DEF RefundAgrees
<1> QED BY <1>1, <1>2, <1>3, Facts

\* A step that refunds nothing and takes nothing back leaves the total right.
LEMMA TotalStays ==
    ASSUME TotalAgrees, UNCHANGED <<refunded, clawed, bookingRefunded>>
    PROVE  TotalAgrees'
<1>1. Back' = Back
  BY DEF Back, NetRefunded
<1> QED BY <1>1 DEF TotalAgrees

\* Filing, cancelling and answering a complaint move no money.
LEMMA KeepsWithComplaint ==
    ASSUME ComplaintInvariant, complaint' \in [Reporters \X Subjects -> Statuses],
           UNCHANGED <<inCash, part, earning, releasing, money>>
    PROVE  ComplaintInvariant'
<1> USE DEF money
<1>1. ComplaintShape'
  BY DEF ComplaintInvariant, ComplaintShape, ComplaintsTypeOK
<1>2. \A t \in Parts : EarningAgrees(t)' /\ (~inCash' => RefundAgrees(t)')
  BY Untouched
<1>3. ~inCash' => TotalAgrees'
  BY TotalStays DEF ComplaintInvariant
<1>4. PaidOutOnce'
  BY Untouched DEF PaidOutOnce
<1> QED BY <1>1, <1>2, <1>3, <1>4 DEF ComplaintInvariant

\* A completed session gets its earning, unless a complaint about it came first.
LEMMA KeepsWithComplete ==
    ASSUME ComplaintInvariant, NEW s \in Parts, NEW settled \in BOOLEAN, CompletePart(s, settled)
    PROVE  ComplaintInvariant'
<1> USE DEF CompletePart, money
<1>1. PICK row \in EarningRows :
         /\ earning' = [earning EXCEPT ![s] = row]
         /\ row.exists /\ row.credited = earning[s].credited /\ row.voided = earning[s].voided
         /\ (earning[s].exists => row = earning[s])
  <2>1. CASE earning[s].exists
    <3>1. earning' = [earning EXCEPT ![s] = earning[s]]
      BY <2>1, Shaped
    <3> QED BY <2>1, <3>1, Facts
  <2>2. CASE ~earning[s].exists
    <3>1. PICK row : row = [earning[s] EXCEPT !.exists = TRUE, !.settled = settled]
      OBVIOUS
    <3>2. /\ row \in EarningRows /\ row.exists
          /\ row.credited = earning[s].credited /\ row.voided = earning[s].voided
      BY <3>1, Facts DEF EarningRows
    <3>3. earning' = [earning EXCEPT ![s] = row]
      BY <2>2, <3>1, Shaped
    <3> QED BY <2>2, <3>2, <3>3
  <2> QED BY <2>1, <2>2
<1>2. /\ earning' \in [Parts -> EarningRows] /\ earning'[s] = row
      /\ \A t \in Parts \ {s} : earning'[t] = earning[t]
  BY <1>1, Shaped
<1>3. /\ part' \in [Parts -> {"ASSIGNED", "COMPLETED", "MISSED"}] /\ part'[s] = "COMPLETED"
      /\ \A t \in Parts \ {s} : part'[t] = part[t]
  BY Shaped
<1>4. ComplaintShape'
  BY <1>2, <1>3 DEF ComplaintInvariant, ComplaintShape, ComplaintsTypeOK, EarningRows
<1>5. EarningAgrees(s)'
  <2>1. ~earning[s].exists => /\ paidWorker[s] = 0 /\ s \notin releasing
                              /\ ~earning[s].credited /\ ~earning[s].voided
    BY Facts DEF EarningAgrees
  <2>2. paidWorker'[s] <= Payout(s)'
    BY <1>1, <1>2, <2>1, Facts, Constants DEF EarningAgrees, Payout
  <2> QED BY <1>1, <1>2, <2>1, <2>2, Facts DEF EarningAgrees
<1>6. ~inCash' => RefundAgrees(s)'
  <2>1. NetRefunded(s)' = NetRefunded(s)
    BY DEF NetRefunded
  <2> QED BY <1>3, <2>1, Facts, Constants DEF RefundAgrees
<1>7. \A t \in Parts \ {s} : EarningAgrees(t)' /\ (~inCash' => RefundAgrees(t)')
  BY <1>2, <1>3, Untouched
<1>8. ~inCash' => TotalAgrees'
  BY TotalStays DEF ComplaintInvariant
<1>9. PaidOutOnce'
  BY DEF ComplaintInvariant, PaidOutOnce, NetRefunded
<1> QED BY <1>4, <1>5, <1>6, <1>7, <1>8, <1>9 DEF ComplaintInvariant

\* An emptied wallet changes what can be taken back later, nothing so far.
LEMMA KeepsWithSpend ==
    ASSUME ComplaintInvariant, Spend
    PROVE  ComplaintInvariant'
<1> USE DEF Spend
<1>1. ComplaintShape'
  BY DEF ComplaintInvariant, ComplaintShape, ComplaintsTypeOK
<1>2. \A t \in Parts : EarningAgrees(t)' /\ (~inCash' => RefundAgrees(t)')
  BY Untouched
<1>3. ~inCash' => TotalAgrees'
  BY TotalStays DEF ComplaintInvariant
<1>4. PaidOutOnce'
  BY DEF ComplaintInvariant, PaidOutOnce, NetRefunded
<1> QED BY <1>1, <1>2, <1>3, <1>4 DEF ComplaintInvariant

\* The bound of PaidOutOnce for one session.
Covered(s) ==
    NetRefunded(s) + paidWorker[s]
        <= Most(Share, WorkerAmount) + shortfall[s]
           + (IF s \in waived THEN WorkerAmount ELSE 0)

\* What is left to show of a step about a single session.
LEMMA StepAt ==
    ASSUME ComplaintInvariant, NEW s \in Parts, inCash' = inCash, ComplaintShape',
           \A t \in Parts \ {s} :
               /\ part'[t] = part[t] /\ earning'[t] = earning[t]
               /\ t \in releasing' => t \in releasing
               /\ refunded'[t] = refunded[t] /\ clawed'[t] = clawed[t]
               /\ paidWorker'[t] = paidWorker[t] /\ shortfall'[t] = shortfall[t]
               /\ t \in waived' <=> t \in waived
               /\ t \in early' <=> t \in early,
           EarningAgrees(s)',
           ~inCash => RefundAgrees(s)' /\ TotalAgrees' /\ (s \notin early' => Covered(s)')
    PROVE  ComplaintInvariant'
<1>1. \A t \in Parts \ {s} :
         /\ EarningAgrees(t)' /\ (~inCash' => RefundAgrees(t)')
         /\ (~inCash /\ t \notin early)' => Covered(t)'
  BY Untouched DEF Covered
<1>2. PaidOutOnce'
  BY <1>1 DEF PaidOutOnce, Covered
<1> QED BY <1>1, <1>2 DEF ComplaintInvariant

\* The job notes an earning that is held, neither credited nor taken back.
LEMMA KeepsWithCheckRelease ==
    ASSUME ComplaintInvariant, NEW s \in Parts, CheckRelease(s)
    PROVE  ComplaintInvariant'
<1> USE DEF CheckRelease, money
<1>1. ComplaintShape'
  BY DEF ComplaintInvariant, ComplaintShape, ComplaintsTypeOK
<1>2. EarningAgrees(s)'
  BY Facts DEF EarningAgrees, Payout, Releasable
<1>3. ~inCash => RefundAgrees(s)' /\ TotalAgrees'
  BY Facts, TotalStays DEF RefundAgrees, NetRefunded
<1>4. ~inCash /\ s \notin early => Covered(s)'
  BY Facts DEF Covered, NetRefunded
<1> QED BY <1>1, <1>2, <1>3, <1>4, StepAt

\* A missed session is refunded what it cost: nothing was refunded or paid for it before.
LEMMA KeepsWithMiss ==
    ASSUME ComplaintInvariant, NEW s \in Parts, MissPart(s)
    PROVE  ComplaintInvariant'
<1> USE DEF MissPart
<1>1. PICK amount \in Nat :
         /\ amount <= Share /\ (~inCash => bookingRefunded + amount <= Total)
         /\ refunded' = [refunded EXCEPT ![s] = @ + amount]
         /\ bookingRefunded' = bookingRefunded + amount
         /\ customerWallet' = customerWallet + amount
  <2>1. inCash \/ (bookingRefunded \in Nat /\ bookingRefunded <= Total)
    BY Shaped DEF ComplaintInvariant, TotalAgrees
  <2>2. PICK amount : amount = IF inCash THEN 0 ELSE Least(Share, Remaining)
    OBVIOUS
  <2>3. amount \in Nat /\ amount <= Share /\ (~inCash => bookingRefunded + amount <= Total)
    BY <2>1, <2>2, Constants DEF Least, Remaining
  <2> QED BY <2>2, <2>3
<1>2. /\ part' \in [Parts -> {"ASSIGNED", "COMPLETED", "MISSED"}] /\ part'[s] = "MISSED"
      /\ refunded' \in [Parts -> Nat] /\ refunded'[s] = refunded[s] + amount
      /\ \A t \in Parts \ {s} : part'[t] = part[t] /\ refunded'[t] = refunded[t]
      /\ bookingRefunded' \in Nat /\ customerWallet' \in Nat
  BY <1>1, Shaped
<1>3. ComplaintShape'
  BY <1>2 DEF ComplaintInvariant, ComplaintShape, ComplaintsTypeOK
<1>4. EarningAgrees(s)'
  BY <1>2, Facts DEF EarningAgrees, Payout
<1>5. NetRefunded(s)' = NetRefunded(s) + amount
      /\ \A t \in Parts \ {s} : NetRefunded(t)' = NetRefunded(t)
  BY <1>2, Facts DEF NetRefunded
<1>6. ASSUME ~inCash PROVE RefundAgrees(s)' /\ (s \notin early' => Covered(s)')
  <2>1. NetRefunded(s) \in Int /\ NetRefunded(s) >= 0 /\ Share \in Nat /\ WorkerAmount \in Nat
    BY <1>6, Facts, Constants DEF RefundAgrees
  <2>2. RefundAgrees(s)'
    BY <1>1, <1>2, <1>5, <1>6, <2>1, Facts DEF RefundAgrees
  <2>3. ASSUME s \notin early PROVE Covered(s)'
    <3>1. NetRefunded(s) = 0 /\ paidWorker[s] = 0
      BY <1>6, <2>3, Facts DEF RefundAgrees, EarningAgrees
    <3> QED BY <1>1, <1>5, <2>1, <3>1, Facts DEF Covered, Most
  <2> QED BY <2>2, <2>3
<1>7. ASSUME ~inCash PROVE TotalAgrees'
  <2>1. ComplaintShape /\ TotalAgrees /\ \A t \in Parts : NetRefunded(t) >= 0
    BY <1>7, Shaped, Facts DEF RefundAgrees
  <2>2. \A t \in Parts : NetRefunded(t)' = IF t = s THEN NetRefunded(s) + amount ELSE NetRefunded(t)
    BY <1>5
  <2>3. NetRefunded(s) + amount >= 0 /\ amount \in Int /\ bookingRefunded' <= Total
    BY <1>1, <1>7, <2>1, Facts
  <2> QED BY <1>1, <2>1, <2>2, <2>3, TotalMoves
<1> QED BY <1>2, <1>3, <1>4, <1>6, <1>7, StepAt

\* What the job credits was still held: the session was not refunded, or its worker not charged.
LEMMA KeepsWithRelease ==
    ASSUME ComplaintInvariant, NEW s \in Parts, Release(s)
    PROVE  ComplaintInvariant'
<1> USE DEF Release
<1>1. /\ earning[s].exists /\ ~inCash /\ ~earning[s].credited /\ ~earning[s].voided
      /\ paidWorker[s] = 0
  BY Facts DEF EarningAgrees
<1>2. PICK row \in EarningRows :
         /\ earning' = [earning EXCEPT ![s] = row]
         /\ row.exists /\ row.credited /\ ~row.voided
  <2>1. PICK row : row = [earning[s] EXCEPT !.credited = TRUE]
    OBVIOUS
  <2>2. row \in EarningRows /\ row.exists /\ row.credited /\ ~row.voided
    BY <1>1, <2>1, Facts DEF EarningRows
  <2>3. earning' = [earning EXCEPT ![s] = row]
    BY <2>1, Shaped
  <2> QED BY <2>2, <2>3
<1>3. /\ earning' \in [Parts -> EarningRows] /\ earning'[s] = row
      /\ paidWorker' \in [Parts -> Nat] /\ paidWorker'[s] = WorkerAmount
      /\ \A t \in Parts \ {s} : earning'[t] = earning[t] /\ paidWorker'[t] = paidWorker[t]
      /\ workerWallet' \in Nat
  <2>1. /\ earning' \in [Parts -> EarningRows] /\ earning'[s] = row
        /\ \A t \in Parts \ {s} : earning'[t] = earning[t]
    BY <1>2, Shaped
  <2>2. WorkerAmount \in Nat /\ workerWallet' \in Nat
    BY Shaped, Constants
  <2>3. /\ paidWorker' \in [Parts -> Nat] /\ paidWorker'[s] = WorkerAmount
        /\ \A t \in Parts \ {s} : paidWorker'[t] = paidWorker[t]
    BY <1>1, <2>2, Shaped
  <2> QED BY <2>1, <2>2, <2>3
<1>4. ComplaintShape'
  BY <1>3 DEF ComplaintInvariant, ComplaintShape, ComplaintsTypeOK, EarningRows
<1>5. EarningAgrees(s)'
  BY <1>1, <1>2, <1>3, Constants DEF EarningAgrees, Payout
<1>6. NetRefunded(s)' = NetRefunded(s) /\ TotalAgrees'
  BY <1>1, Facts, TotalStays DEF NetRefunded
<1>7. RefundAgrees(s)'
  BY <1>1, <1>2, <1>3, <1>6, Facts DEF RefundAgrees
<1>8. ASSUME s \notin early PROVE Covered(s)'
  <2>1. NetRefunded(s) <= Share /\ (s \in waived \/ NetRefunded(s) = 0)
    BY <1>1, <1>8, Facts DEF RefundAgrees
  <2> QED BY <1>3, <1>6, <2>1, Facts, Constants DEF Covered, Most
<1> QED BY <1>3, <1>4, <1>5, <1>6, <1>7, <1>8, StepAt

\* A refund stays within the price, and takes the worker's share back or records who bears it.
LEMMA KeepsWithRefund ==
    ASSUME ComplaintInvariant, NEW s \in Parts, NEW charge \in BOOLEAN, RefundCustomer(s, charge)
    PROVE  ComplaintInvariant'
<1> DEFINE reverse == charge /\ earning[s].exists /\ ~earning[s].voided
<1>1. PICK amount \in Nat \ {0}, owed \in Nat, taken \in Nat, kept \in Nat :
         /\ amount <= Share - NetRefunded(s) /\ bookingRefunded + amount <= Total
         /\ owed = (IF reverse /\ earning[s].credited THEN WorkerAmount ELSE 0)
         /\ taken <= owed /\ kept = paidWorker[s] - taken /\ taken <= workerWallet
         /\ refunded' = [refunded EXCEPT ![s] = @ + amount]
         /\ bookingRefunded' = bookingRefunded + amount
         /\ customerWallet' = customerWallet + amount
         /\ workerWallet' = workerWallet - taken
         /\ paidWorker' = [paidWorker EXCEPT ![s] = kept]
         /\ shortfall' = [shortfall EXCEPT ![s] = @ + (owed - taken)]
  <2>1. PICK amount, owed, taken, kept :
          /\ amount = Least(RefundCap(s), Remaining)
          /\ owed = (IF reverse /\ earning[s].credited THEN WorkerAmount ELSE 0)
          /\ taken = Taken(owed, workerWallet) /\ kept = paidWorker[s] - taken
    OBVIOUS
  <2>2. /\ NetRefunded(s) \in Int /\ bookingRefunded \in Nat /\ workerWallet \in Nat
        /\ paidWorker[s] \in Nat /\ shortfall[s] \in Nat
    BY Facts, Shaped
  <2>3. /\ amount \in Nat \ {0} /\ amount <= Share - NetRefunded(s)
        /\ bookingRefunded + amount <= Total
    BY <2>1, <2>2, Constants DEF RefundCustomer, Least, RefundCap, Remaining
  <2>4. owed \in Nat /\ (owed = 0 \/ owed = paidWorker[s])
    BY <2>1, Facts, Constants DEF RefundCustomer, EarningAgrees
  <2>5. taken \in Nat /\ taken <= owed /\ taken <= workerWallet /\ kept \in Nat
    BY <2>1, <2>2, <2>4 DEF Taken, Least
  <2>6. shortfall[s] + owed - taken = shortfall[s] + (owed - taken)
    BY <2>2, <2>4, <2>5
  <2>7. /\ refunded' = [refunded EXCEPT ![s] = @ + amount]
        /\ bookingRefunded' = bookingRefunded + amount
        /\ customerWallet' = customerWallet + amount
        /\ workerWallet' = workerWallet - taken
        /\ paidWorker' = [paidWorker EXCEPT ![s] = kept]
        /\ shortfall' = [shortfall EXCEPT ![s] = shortfall[s] + owed - taken]
    BY <2>1, Shaped DEF RefundCustomer
  <2> QED BY <2>1, <2>3, <2>4, <2>5, <2>6, <2>7
<1>2. PICK row \in EarningRows :
         /\ earning' = [earning EXCEPT ![s] = row]
         /\ row.exists = earning[s].exists /\ row.credited = earning[s].credited
         /\ row.settled = earning[s].settled
         /\ row.voided = (earning[s].voided \/ reverse)
  <2>1. CASE reverse
    <3>1. PICK row : row = [earning[s] EXCEPT !.voided = TRUE]
      OBVIOUS
    <3>2. /\ row \in EarningRows /\ row.voided
          /\ row.exists = earning[s].exists /\ row.credited = earning[s].credited
          /\ row.settled = earning[s].settled
      BY <3>1, Facts DEF EarningRows
    <3>3. earning' = [earning EXCEPT ![s] = row]
      BY <2>1, <3>1, Shaped DEF RefundCustomer
    <3> QED BY <2>1, <3>2, <3>3
  <2>2. CASE ~reverse
    <3>1. earning' = [earning EXCEPT ![s] = earning[s]]
      BY <2>2, Shaped DEF RefundCustomer
    <3>2. earning[s].voided \in BOOLEAN
      BY Facts DEF EarningRows
    <3> QED BY <2>2, <3>1, <3>2, Facts
  <2> QED BY <2>1, <2>2
<1>3. /\ ~inCash /\ inCash' = inCash /\ part' = part /\ releasing' = releasing /\ clawed' = clawed
      /\ waived' = (IF charge THEN waived ELSE waived \cup {s})
      /\ early' = early \cup Upcoming(s)
      /\ charge => s \notin releasing
      /\ complaint' \in [Reporters \X Subjects -> Statuses]
  <2>1. complaint' \in [Reporters \X Subjects -> Statuses]
    BY Shaped DEF RefundCustomer, Resolved, Statuses
  <2> QED BY <2>1 DEF RefundCustomer
<1>4. /\ earning' \in [Parts -> EarningRows] /\ earning'[s] = row
      /\ \A t \in Parts \ {s} : earning'[t] = earning[t]
  BY <1>2, Shaped
<1>5. /\ refunded' \in [Parts -> Nat] /\ refunded'[s] = refunded[s] + amount
      /\ \A t \in Parts \ {s} : refunded'[t] = refunded[t]
  BY <1>1, Shaped
<1>6. /\ paidWorker' \in [Parts -> Nat] /\ paidWorker'[s] = kept
      /\ \A t \in Parts \ {s} : paidWorker'[t] = paidWorker[t]
  BY <1>1, Shaped
<1>7. /\ shortfall' \in [Parts -> Nat] /\ shortfall'[s] = shortfall[s] + (owed - taken)
      /\ \A t \in Parts \ {s} : shortfall'[t] = shortfall[t]
  BY <1>1, Shaped
<1>8. Upcoming(s) \subseteq {s} /\ (part[s] = "ASSIGNED" => s \in Upcoming(s))
  BY DEF Upcoming
<1> HIDE DEF reverse
<1>9. ComplaintShape'
  <2>1. releasing' \subseteq Parts /\ waived' \subseteq Parts /\ early' \subseteq Parts
    BY <1>3, <1>8, Shaped
  <2>2. {bookingRefunded', customerWallet', workerWallet'} \subseteq Nat
    BY <1>1, Shaped
  <2>3. inCash' \in BOOLEAN /\ part' \in [Parts -> {"ASSIGNED", "COMPLETED", "MISSED"}]
        /\ clawed' \in [Parts -> Nat]
    BY <1>3, Shaped DEF ComplaintShape, ComplaintsTypeOK
  <2> QED BY <1>3, <1>4, <1>5, <1>6, <1>7, <2>1, <2>2, <2>3
          DEF ComplaintShape, ComplaintsTypeOK, EarningRows
<1>10. /\ NetRefunded(s)' = NetRefunded(s) + amount
       /\ \A t \in Parts \ {s} : NetRefunded(t)' = NetRefunded(t)
  BY <1>3, <1>5, Facts DEF NetRefunded
<1>11. EarningAgrees(s)'
  <2>1. reverse => ~earning[s].voided /\ charge
    BY DEF reverse
  <2>2. kept <= paidWorker[s] /\ paidWorker[s] \in Nat
    BY <1>1, Facts
  <2>3. ~earning[s].credited => kept = 0
    BY <2>2, Facts DEF EarningAgrees
  <2>4. kept <= Payout(s)'
    <3>1. Payout(s)' = Payout(s) /\ Payout(s) \in Nat /\ paidWorker[s] <= Payout(s)
      BY <1>2, <1>3, <1>4, Facts, Constants DEF Payout, EarningAgrees
    <3> QED BY <2>2, <3>1
  <2>5. row.credited /\ ~row.voided => kept = WorkerAmount
    <3>1. ASSUME row.credited, ~row.voided PROVE taken = 0 /\ paidWorker[s] = WorkerAmount
      <4>1. earning[s].credited /\ ~earning[s].voided /\ ~reverse
        BY <1>2, <3>1
      <4>2. taken = 0
        BY <1>1, <4>1
      <4> QED BY <1>3, <4>1, <4>2, Facts DEF EarningAgrees
    <3> QED BY <1>1, <3>1, Constants
  <2>6. row.voided => kept <= shortfall'[s]
    <3>1. CASE earning[s].voided
      <4>1. paidWorker[s] <= shortfall[s] /\ shortfall[s] \in Nat
        BY <1>3, <3>1, Facts DEF EarningAgrees
      <4> QED BY <1>1, <1>7, <2>2, <4>1
    <3>2. CASE reverse /\ earning[s].credited
      <4>1. paidWorker[s] = owed /\ shortfall[s] \in Nat
        BY <1>1, <1>3, <2>1, <3>2, Facts DEF EarningAgrees
      <4> QED BY <1>1, <1>7, <4>1
    <3>3. CASE ~earning[s].credited
      BY <1>1, <1>7, <2>3, <3>3, Facts
    <3> QED BY <1>2, <3>1, <3>2, <3>3
  <2>7. row.credited \/ row.voided \/ part[s] = "COMPLETED" => row.exists
    BY <1>2, Facts DEF EarningAgrees, reverse
  <2>8. s \in releasing => row.exists /\ ~row.credited /\ ~row.voided
    <3>1. ASSUME s \in releasing
          PROVE  earning[s].exists /\ ~earning[s].credited /\ ~earning[s].voided /\ ~reverse
      BY <1>3, <2>1, <3>1, Facts DEF EarningAgrees
    <3> QED BY <1>2, <3>1
  <2> QED BY <1>3, <1>4, <1>6, <1>2, <2>3, <2>4, <2>5, <2>6, <2>7, <2>8 DEF EarningAgrees
<1>12. RefundAgrees(s)'
  <2>1. NetRefunded(s)' >= 0 /\ NetRefunded(s)' <= Share
    BY <1>1, <1>3, <1>10, Facts, Constants DEF RefundAgrees
  <2>2. ASSUME s \notin early' PROVE s \notin early /\ part[s] # "ASSIGNED"
    BY <1>3, <1>8, <2>2
  <2>3. ASSUME part[s] = "COMPLETED", s \notin waived' PROVE row.voided
    <3>1. charge /\ earning[s].exists
      BY <1>3, <2>3, Facts DEF EarningAgrees
    <3> QED BY <1>2, <3>1 DEF reverse
  <2> QED BY <1>2, <1>3, <1>4, <2>1, <2>2, <2>3, Facts DEF RefundAgrees
<1>13. Covered(s)'
  <2>1. NetRefunded(s)' <= Share /\ NetRefunded(s)' \in Int
    BY <1>1, <1>10, Facts, Constants
  <2>2. shortfall'[s] \in Nat /\ kept \in Nat
    BY <1>7
  <2>3. \/ charge /\ kept <= shortfall'[s]
        \/ s \in waived' /\ kept <= WorkerAmount
    <3>1. CASE charge
      <4>1. CASE ~earning[s].exists
        BY <1>1, <2>2, <3>1, <4>1, Facts DEF EarningAgrees
      <4>2. CASE earning[s].exists
        <5>1. row.voided
          BY <1>2, <3>1, <4>2 DEF reverse
        <5> QED BY <1>3, <1>4, <1>6, <1>11, <3>1, <5>1 DEF EarningAgrees
      <4> QED BY <4>1, <4>2
    <3>2. CASE ~charge
      <4>1. Payout(s) = WorkerAmount
        BY <1>3 DEF Payout
      <4>2. kept <= WorkerAmount
        BY <1>1, <4>1, Facts, Constants DEF EarningAgrees
      <4> QED BY <1>3, <3>2, <4>2
    <3> QED BY <3>1, <3>2
  <2> QED BY <1>6, <2>1, <2>2, <2>3, Constants DEF Covered, Most
<1>14. TotalAgrees'
  <2>1. ComplaintShape /\ TotalAgrees /\ \A t \in Parts : NetRefunded(t) >= 0
    BY <1>3, Shaped, Facts DEF RefundAgrees
  <2>2. \A t \in Parts : NetRefunded(t)' = IF t = s THEN NetRefunded(s) + amount ELSE NetRefunded(t)
    BY <1>10
  <2>3. NetRefunded(s) + amount >= 0 /\ amount \in Int /\ bookingRefunded' <= Total
    BY <1>1, <2>1, Facts
  <2> QED BY <1>1, <2>1, <2>2, <2>3, TotalMoves
<1>15. \A t \in Parts \ {s} : (t \in waived' <=> t \in waived) /\ (t \in early' <=> t \in early)
  BY <1>3, <1>8
<1> QED BY <1>3, <1>4, <1>5, <1>6, <1>7, <1>9, <1>11, <1>12, <1>13, <1>14, <1>15, StepAt

\* A worker who is paid was not paid before, and what the customer keeps is a shortfall.
LEMMA KeepsWithPay ==
    ASSUME ComplaintInvariant, NEW s \in Parts, PayWorker(s)
    PROVE  ComplaintInvariant'
<1>1. /\ ~earning[s].voided /\ ~earning[s].credited /\ s \notin releasing
      /\ paidWorker[s] = 0
  BY Facts DEF PayWorker, EarningAgrees
<1>2. PICK taken \in Nat, missing \in Nat, paid \in Nat, total \in Nat :
         /\ ~inCash => taken + missing = NetRefunded(s) /\ total = bookingRefunded - taken
         /\ paid = Payout(s) /\ taken <= customerWallet
         /\ paidWorker' = [paidWorker EXCEPT ![s] = paid]
         /\ workerWallet' = workerWallet + paid
         /\ clawed' = [clawed EXCEPT ![s] = @ + taken]
         /\ customerWallet' = customerWallet - taken
         /\ bookingRefunded' = total
         /\ shortfall' = [shortfall EXCEPT ![s] = @ + missing]
  <2>1. PICK owed, taken, missing, paid, total :
          /\ owed = Owed(s) /\ taken = Taken(owed, customerWallet) /\ missing = owed - taken
          /\ paid = Payout(s)
          /\ total = IF inCash THEN bookingRefunded ELSE Most(0, bookingRefunded - taken)
    OBVIOUS
  <2>2. /\ NetRefunded(s) \in Int /\ bookingRefunded \in Nat /\ customerWallet \in Nat
        /\ shortfall[s] \in Nat /\ clawed[s] \in Nat
    BY Facts, Shaped
  <2>3. ASSUME ~inCash
        PROVE  owed = NetRefunded(s) /\ NetRefunded(s) \in Nat /\ NetRefunded(s) <= bookingRefunded
    <3>1. TotalAgrees /\ ComplaintShape /\ \A t \in Parts : NetRefunded(t) >= 0
      BY <2>3, Shaped, Facts DEF RefundAgrees
    <3> QED BY <2>1, <2>3, <3>1, PartOfTotal DEF Owed
  <2>4. owed \in Nat
    <3>1. CASE inCash
      BY <2>1, <2>2, <3>1, Constants DEF Owed, Most
    <3>2. CASE ~inCash
      BY <2>3, <3>2
    <3> QED BY <3>1, <3>2
  <2>5. taken \in Nat /\ taken <= owed /\ taken <= customerWallet /\ missing \in Nat
        /\ taken + missing = owed
    BY <2>1, <2>2, <2>4 DEF Taken, Least
  <2>6. total \in Nat /\ (~inCash => total = bookingRefunded - taken)
    BY <2>1, <2>2, <2>3, <2>5 DEF Most
  <2>7. paid \in Nat
    BY <2>1, Constants DEF Payout
  <2>8. shortfall[s] + owed - taken = shortfall[s] + missing /\ paidWorker[s] + paid = paid
    BY <1>1, <2>1, <2>2, <2>4, <2>5, <2>7
  <2>9. /\ paidWorker' = [paidWorker EXCEPT ![s] = paidWorker[s] + paid]
        /\ workerWallet' = workerWallet + paid
        /\ clawed' = [clawed EXCEPT ![s] = @ + taken]
        /\ customerWallet' = customerWallet - taken
        /\ bookingRefunded' = total
        /\ shortfall' = [shortfall EXCEPT ![s] = shortfall[s] + owed - taken]
    BY <2>1, Shaped DEF PayWorker
  <2> QED BY <2>1, <2>3, <2>5, <2>6, <2>7, <2>8, <2>9
<1>3. PICK row \in EarningRows :
         /\ earning' = [earning EXCEPT ![s] = row]
         /\ row.exists /\ row.credited /\ ~row.voided
         /\ (inCash => row.settled)
  <2>1. PICK row : row = [earning[s] EXCEPT !.exists = TRUE, !.credited = TRUE,
                              !.settled = @ \/ inCash \/ ~earning[s].exists]
    OBVIOUS
  <2>2. earning[s].settled \in BOOLEAN /\ earning[s].exists \in BOOLEAN /\ inCash \in BOOLEAN
    BY Facts DEF EarningRows
  <2>3. /\ row \in EarningRows /\ row.exists /\ row.credited /\ row.voided = earning[s].voided
        /\ row.settled = (earning[s].settled \/ inCash \/ ~earning[s].exists)
    BY <2>1, <2>2, Facts DEF EarningRows
  <2>4. earning' = [earning EXCEPT ![s] = row]
    BY <2>1, Shaped DEF PayWorker
  <2> QED BY <1>1, <2>3, <2>4
<1>4. /\ inCash' = inCash /\ part' = part /\ releasing' = releasing /\ refunded' = refunded
      /\ waived' = waived /\ early' = early \cup Upcoming(s)
      /\ complaint' \in [Reporters \X Subjects -> Statuses]
  <2>1. complaint' \in [Reporters \X Subjects -> Statuses]
    BY Shaped DEF PayWorker, Resolved, Statuses
  <2> QED BY <2>1 DEF PayWorker
<1>5. /\ earning' \in [Parts -> EarningRows] /\ earning'[s] = row
      /\ \A t \in Parts \ {s} : earning'[t] = earning[t]
  BY <1>3, Shaped
<1>6. /\ clawed' \in [Parts -> Nat] /\ clawed'[s] = clawed[s] + taken
      /\ \A t \in Parts \ {s} : clawed'[t] = clawed[t]
  BY <1>2, Shaped
<1>7. /\ paidWorker' \in [Parts -> Nat] /\ paidWorker'[s] = paid
      /\ \A t \in Parts \ {s} : paidWorker'[t] = paidWorker[t]
  BY <1>2, Shaped
<1>8. /\ shortfall' \in [Parts -> Nat] /\ shortfall'[s] = shortfall[s] + missing
      /\ \A t \in Parts \ {s} : shortfall'[t] = shortfall[t]
  BY <1>2, Shaped
<1>9. Upcoming(s) \subseteq {s} /\ (part[s] = "ASSIGNED" => s \in Upcoming(s))
  BY DEF Upcoming
<1>10. ComplaintShape'
  <2>1. releasing' \subseteq Parts /\ waived' \subseteq Parts /\ early' \subseteq Parts
    BY <1>4, <1>9, Shaped
  <2>2. {bookingRefunded', customerWallet', workerWallet'} \subseteq Nat
    BY <1>2, Shaped
  <2>3. inCash' \in BOOLEAN /\ part' \in [Parts -> {"ASSIGNED", "COMPLETED", "MISSED"}]
        /\ refunded' \in [Parts -> Nat]
    BY <1>4, Shaped DEF ComplaintShape, ComplaintsTypeOK
  <2> QED BY <1>4, <1>5, <1>6, <1>7, <1>8, <2>1, <2>2, <2>3
          DEF ComplaintShape, ComplaintsTypeOK, EarningRows
<1>11. /\ NetRefunded(s)' = NetRefunded(s) - taken
       /\ \A t \in Parts \ {s} : NetRefunded(t)' = NetRefunded(t)
  BY <1>4, <1>6, Facts DEF NetRefunded
<1>12. EarningAgrees(s)'
  <2>1. paid <= Payout(s)' /\ (~inCash => paid = WorkerAmount)
    BY <1>2, <1>3, <1>4, <1>5, Constants DEF Payout
  <2> QED BY <1>1, <1>3, <1>4, <1>5, <1>7, <2>1 DEF EarningAgrees
<1>13. ASSUME ~inCash PROVE RefundAgrees(s)'
  <2>1. NetRefunded(s)' >= 0 /\ NetRefunded(s)' <= NetRefunded(s)
    BY <1>2, <1>11, <1>13
  <2>2. ASSUME s \notin early' PROVE part[s] # "ASSIGNED" /\ NetRefunded(s)' <= Share
    BY <1>4, <1>9, <1>11, <2>1, <2>2, <1>13, Facts, Constants DEF RefundAgrees
  <2> QED BY <1>3, <1>4, <1>5, <2>1, <2>2 DEF RefundAgrees
<1>14. ASSUME ~inCash, s \notin early' PROVE Covered(s)'
  <2>1. paid = WorkerAmount
    BY <1>2, <1>14 DEF Payout
  <2>2. NetRefunded(s)' = missing
    BY <1>2, <1>11, <1>14
  <2> QED BY <1>7, <1>8, <2>1, <2>2, Facts, Constants DEF Covered, Most
<1>15. ASSUME ~inCash PROVE TotalAgrees'
  <2>1. ComplaintShape /\ TotalAgrees /\ \A t \in Parts : NetRefunded(t) >= 0
    BY <1>15, Shaped, Facts DEF RefundAgrees
  <2>2. PICK amount \in Int : amount = -taken
    OBVIOUS
  <2>3. NetRefunded(s)' = NetRefunded(s) + amount /\ bookingRefunded' = bookingRefunded + amount
    BY <1>2, <1>11, <1>15, <2>2, Facts, Shaped
  <2>4. \A t \in Parts : NetRefunded(t)' = IF t = s THEN NetRefunded(s) + amount ELSE NetRefunded(t)
    BY <1>11, <2>3
  <2>5. NetRefunded(s) + amount >= 0 /\ bookingRefunded' <= Total
    BY <1>2, <1>15, <2>1, <2>2, <2>3, Facts, Shaped, Constants DEF TotalAgrees
  <2> QED BY <2>1, <2>3, <2>4, <2>5, TotalMoves
<1>16. \A t \in Parts \ {s} : (t \in waived' <=> t \in waived) /\ (t \in early' <=> t \in early)
  BY <1>4, <1>9
<1> QED BY <1>4, <1>5, <1>6, <1>7, <1>8, <1>10, <1>12, <1>13, <1>14, <1>15, <1>16, StepAt

\* At first nothing is paid and nothing refunded.
LEMMA InitIsSound == ComplaintsInit => ComplaintInvariant
<1> SUFFICES ASSUME ComplaintsInit PROVE ComplaintInvariant
  OBVIOUS
<1> USE DEF ComplaintsInit
<1>1. ComplaintShape
  BY DEF ComplaintShape, ComplaintsTypeOK, NoEarning, Statuses
<1>2. \A s \in Parts : NetRefunded(s) = 0
  BY DEF NetRefunded
<1>3. \A s \in Parts : EarningAgrees(s)
  <2>1. \A s \in Parts : Payout(s) \in Nat
    BY Constants DEF Payout
  <2> QED BY <2>1 DEF EarningAgrees, NoEarning
<1>4. \A s \in Parts : RefundAgrees(s)
  BY <1>2, Constants DEF RefundAgrees, NoEarning
<1>5. TotalAgrees
  <2>1. Units(Back) = {}
    BY <1>2 DEF Units, Back
  <2>2. IsFiniteSet(Units(Back)) /\ Cardinality(Units(Back)) = 0
    BY <2>1, FS_EmptySet
  <2> QED BY <2>2, Constants DEF TotalAgrees
<1>6. PaidOutOnce
  BY <1>2, Constants DEF PaidOutOnce, Most
<1> QED BY <1>1, <1>3, <1>4, <1>5, <1>6 DEF ComplaintInvariant

\* Every step of the handlers and the jobs keeps the invariant.
LEMMA StepIsSound ==
    ComplaintInvariant /\ [ComplaintsNext]_complaintVars => ComplaintInvariant'
<1> SUFFICES ASSUME ComplaintInvariant, [ComplaintsNext]_complaintVars PROVE ComplaintInvariant'
  OBVIOUS
<1>1. ASSUME NEW r \in Reporters, NEW t \in Subjects, File(r, t) \/ CancelComplaint(<<r, t>>)
      PROVE  ComplaintInvariant'
  <2>1. complaint' \in [Reporters \X Subjects -> Statuses]
    BY <1>1, Shaped DEF File, CancelComplaint, Statuses, Open
  <2> QED BY <1>1, <2>1, KeepsWithComplaint DEF File, CancelComplaint
<1>2. ASSUME NEW c \in Reporters \X Subjects, NEW status \in {"IN_REVIEW", "RESOLVED", "REJECTED"},
             AnswerComplaint(c, status)
      PROVE  ComplaintInvariant'
  <2>1. complaint' \in [Reporters \X Subjects -> Statuses]
    BY <1>2, Shaped DEF AnswerComplaint, Statuses, Open
  <2> QED BY <1>2, <2>1, KeepsWithComplaint DEF AnswerComplaint
<1>3. CASE UNCHANGED complaintVars
  <2>1. /\ complaint' \in [Reporters \X Subjects -> Statuses]
        /\ UNCHANGED <<inCash, part, earning, releasing, money>>
    BY <1>3, Shaped DEF complaintVars, money
  <2> QED BY <2>1, KeepsWithComplaint
<1>4. CASE ComplaintsNext
  BY <1>1, <1>2, <1>4, KeepsWithComplete, KeepsWithMiss, KeepsWithCheckRelease, KeepsWithRelease,
     KeepsWithSpend, KeepsWithRefund, KeepsWithPay DEF ComplaintsNext, ReleaseEarnings, Resolve
<1> QED BY <1>3, <1>4

\* The invariant contains every state property of ComplaintsSafe.
LEMMA InvariantIsEnough ==
    ComplaintInvariant => ComplaintsTypeOK /\ RefundsAddUp /\ PaidOutOnce /\ PaidAtMostOnce
<1> SUFFICES ASSUME ComplaintInvariant
             PROVE  ComplaintsTypeOK /\ RefundsAddUp /\ PaidOutOnce /\ PaidAtMostOnce
  OBVIOUS
<1>1. ComplaintsTypeOK /\ PaidOutOnce
  BY DEF ComplaintInvariant, ComplaintShape
<1>2. RefundsAddUp
  BY DEF ComplaintInvariant, RefundAgrees, TotalAgrees, Back, RefundsAddUp
<1>3. PaidAtMostOnce
  BY DEF ComplaintInvariant, EarningAgrees, PaidAtMostOnce
<1> QED BY <1>1, <1>2, <1>3

\* Deciding for the worker books what preview_outcome showed.
LEMMA PayIsPreviewed ==
    ASSUME ComplaintInvariant, NEW s \in Parts, PayWorker(s)
    PROVE  Booked(s, PreviewPay(s))
<1>1. PICK owed, taken : owed = Owed(s) /\ taken = Least(owed, customerWallet)
  OBVIOUS
<1>2. PreviewPay(s) = [customer |-> 0 - taken, worker |-> Payout(s), short |-> owed - taken]
  BY <1>1 DEF PayWorker, PreviewPay, Owed
<1>3. owed \in Int /\ customerWallet \in Nat /\ shortfall[s] \in Nat /\ workerWallet \in Nat
  BY <1>1, Facts, Shaped, Constants DEF Owed, Most
<1>4. taken \in Int
  BY <1>1, <1>3 DEF Least
<1>5. Payout(s) \in Int
  BY Constants DEF Payout
<1>6. /\ customerWallet' = customerWallet - taken /\ workerWallet' = workerWallet + Payout(s)
      /\ shortfall'[s] = shortfall[s] + owed - taken
  BY <1>1, Shaped DEF PayWorker, Taken
<1> QED BY <1>2, <1>3, <1>4, <1>5, <1>6 DEF Booked

\* Deciding for the customer books what preview_outcome showed: the preview does not look whether
\* the earning exists, but one that is credited does.
LEMMA RefundIsPreviewed ==
    ASSUME ComplaintInvariant, NEW s \in Parts, NEW charge \in BOOLEAN, RefundCustomer(s, charge)
    PROVE  Booked(s, PreviewRefund(s, charge))
<1>1. PICK amount, owed, taken :
         /\ amount = Least(Share - NetRefunded(s), Remaining)
         /\ owed = (IF charge /\ earning[s].credited /\ ~earning[s].voided THEN WorkerAmount ELSE 0)
         /\ taken = Least(owed, workerWallet)
  OBVIOUS
<1>2. workerWallet \in Nat /\ shortfall[s] \in Nat /\ customerWallet \in Nat
      /\ amount \in Int /\ owed \in Nat /\ taken \in Int
      /\ (owed = 0 => taken = 0)
  BY <1>1, Facts, Shaped, Constants DEF Least, Remaining
<1>3. PreviewRefund(s, charge) = [customer |-> amount, worker |-> 0 - taken, short |-> owed - taken]
  <2>1. ~inCash /\ ~(amount <= 0)
    BY <1>1, <1>2 DEF RefundCustomer, RefundCap
  <2>2. CASE charge /\ earning[s].credited /\ ~earning[s].voided
    BY <1>1, <2>1, <2>2 DEF PreviewRefund
  <2>3. CASE ~(charge /\ earning[s].credited /\ ~earning[s].voided)
    BY <1>1, <1>2, <2>1, <2>3 DEF PreviewRefund
  <2> QED BY <2>2, <2>3
<1>4. earning[s].credited => earning[s].exists
  BY Facts DEF EarningAgrees
<1>5. owed = IF charge /\ earning[s].exists /\ ~earning[s].voided /\ earning[s].credited
             THEN WorkerAmount ELSE 0
  BY <1>1, <1>4
<1>6. /\ customerWallet' = customerWallet + amount /\ workerWallet' = workerWallet - taken
      /\ shortfall'[s] = shortfall[s] + owed - taken
  BY <1>1, <1>5, Shaped DEF RefundCustomer, RefundCap, Taken
<1> QED BY <1>2, <1>3, <1>6 DEF Booked

\* For any number of sessions and any prices: refunds, complaints, clawbacks and the release job
\* add up to the total of the booking within its price, nobody is paid twice for a session, and
\* what the admin is shown is what the decision books.
THEOREM ComplaintsStaySafe == ComplaintsSpec => ComplaintsSafe
<1> DEFINE Previewed ==
      \A s \in Parts :
         /\ PayWorker(s) => Booked(s, PreviewPay(s))
         /\ \A charge \in BOOLEAN :
               RefundCustomer(s, charge) => Booked(s, PreviewRefund(s, charge))
<1>1. ComplaintInvariant /\ [ComplaintsNext]_complaintVars => [Previewed]_complaintVars
  BY PayIsPreviewed, RefundIsPreviewed
<1>2. ComplaintsSpec => []ComplaintInvariant
  BY InitIsSound, StepIsSound, PTL DEF ComplaintsSpec
<1>3. ComplaintsSpec => PreviewIsBooked
  BY <1>1, <1>2, PTL DEF ComplaintsSpec, PreviewIsBooked
<1> QED BY <1>2, <1>3, InvariantIsEnough, PTL DEF ComplaintsSafe

-----------------------------------------------------------------------------
(* Reviews. *)

ReviewRows == [rating : Ratings \cup {0}, visible : BOOLEAN, editable : BOOLEAN,
               images : SUBSET ReviewImages]

\* What an average may be: of some sessions, some ratings.
Averages == {Mean(rating) : rating \in UNION {[T -> Ratings \cup {0}] : T \in SUBSET Sessions}}

ChangeRows == [session : Sessions, new : ReviewRows, average : Averages,
               dropped : SUBSET ReviewImages, alone : BOOLEAN]

ReviewShape ==
    /\ worked \in SUBSET Sessions /\ review \in [Sessions -> ReviewRows]
    /\ changes \in SUBSET ChangeRows /\ overlapped \in BOOLEAN
    /\ stored \in SUBSET ReviewImages /\ doomed \in SUBSET ReviewImages
    /\ average \in Averages /\ profileEdits \in SUBSET Averages

\* A review has a rating and is of a session that was done; its transaction holds its row.
ReviewsFit ==
    /\ \A s \in Sessions : review[s] # NoReview => review[s].rating \in Ratings /\ s \in worked
    /\ \A x \in changes :
           /\ x.new.rating \in Ratings /\ x.session \in worked
           /\ review[x.session] # NoReview /\ ~review[x.session].editable =>
                  /\ x.new.rating = review[x.session].rating
                  /\ x.new.images = review[x.session].images
    /\ \A x, y \in changes : x.session = y.session => x = y

\* A transaction that is alone has computed the average its commit makes true.
AverageAgrees ==
    /\ ~overlapped => average = AverageOf(review)
    /\ \A x \in changes :
           x.alone => /\ changes = {x}
                      /\ x.average = AverageOf([review EXCEPT ![x.session] = x.new])

\* The images of a review, and those its transaction would leave it with.
Mine(s) == review[s].images \cup UNION {x.new.images : x \in {y \in changes : y.session = s}}

\* They are there, are nobody else's, and are not what is to be destroyed.
ImagesSound ==
    /\ \A s \in Sessions : Mine(s) \subseteq stored \ doomed
    /\ \A s, t \in Sessions : s # t => Mine(s) \cap Mine(t) = {}
    /\ \A s \in Sessions : Cardinality(review[s].images) <= MaxImages
    /\ \A x \in changes :
           /\ Cardinality(x.new.images) <= MaxImages
           /\ x.dropped \subseteq review[x.session].images /\ x.dropped \cap x.new.images = {}

ReviewsInvariant == ReviewShape /\ ReviewsFit /\ AverageAgrees /\ ImagesSound

-----------------------------------------------------------------------------
(* Sums: the average of ratings up to five is at most five. *)

\* A set of numbers that is not empty has a least one: what holds is proved by there being
\* no first number for which it does not.
LEMMA LeastExists ==
    ASSUME NEW S, S \subseteq Nat, S # {}
    PROVE \E m \in S : \A n \in S : m <= n
<1> DEFINE R == {p \in Nat \X Nat : p[1] < p[2]}
<1>1. IsWellFoundedOn(R, Nat)
  BY NatLessThanWellFounded DEF OpToRel
<1>2. PICK m \in S : \A y \in S : ~(<<y, m>> \in R)
  BY <1>1, WFMin
<1>3. ASSUME NEW n \in S PROVE m <= n
  <2>1. m \in Nat /\ n \in Nat /\ ~(<<n, m>> \in R)
    BY <1>2
  <2>2. <<n, m>> \in Nat \X Nat /\ <<n, m>>[1] = n /\ <<n, m>>[2] = m
    BY <2>1
  <2>3. ~(n < m)
    BY <2>1, <2>2
  <2> QED BY <2>1, <2>3
<1> QED BY <1>3

\* The sum of a function takes away one element after the other.
Some(s) == CHOOSE x \in s : TRUE
OneMore(fun, g, s) == IF s = {} THEN 0 ELSE fun[Some(s)] + g[s \ {Some(s)}]

LEMMA SumIs ==
    ASSUME NEW fun
    PROVE  SumFunction(fun) =
               (CHOOSE g : g = [s \in SUBSET DOMAIN fun |-> OneMore(fun, g, s)])[DOMAIN fun]
BY DEF SumFunction, SumFunctionOnSet, FoldFunctionOnSet, MapThenFoldSet, Some, OneMore

LEMMA OneLess ==
    ASSUME NEW s, IsFiniteSet(s), s # {}
    PROVE  /\ Some(s) \in s /\ s \ {Some(s)} \subseteq s /\ IsFiniteSet(s \ {Some(s)})
           /\ Cardinality(s) \in Nat /\ Cardinality(s) > 0
           /\ Cardinality(s \ {Some(s)}) = Cardinality(s) - 1
<1>1. Some(s) \in s
  BY DEF Some
<1> QED BY <1>1, FS_RemoveElement, FS_CardinalityType, FS_EmptySet

\* Subsets of n elements at most.
Small(D, n) == {s \in SUBSET D : Cardinality(s) <= n}

SumsTo(fun, subsets) == \E g : g = [s \in subsets |-> OneMore(fun, g, s)]

\* On the small subsets there is such a function, since there is one on the smaller ones.
LEMMA SumsExist ==
    ASSUME NEW fun, NEW D, IsFiniteSet(D), NEW n \in Nat
    PROVE  SumsTo(fun, Small(D, n))
<1> DEFINE Solved(k) == SumsTo(fun, Small(D, k))
<1>1. ASSUME NEW s \in SUBSET D PROVE IsFiniteSet(s) /\ Cardinality(s) \in Nat
  BY <1>1, FS_Subset, FS_CardinalityType
<1>2. Solved(0)
  <2>1. PICK g : g = [s \in Small(D, 0) |-> 0]
    OBVIOUS
  <2>2. \A s \in Small(D, 0) : s = {}
    BY <1>1, FS_EmptySet DEF Small
  <2>3. g = [s \in Small(D, 0) |-> OneMore(fun, g, s)]
    BY <2>1, <2>2 DEF OneMore
  <2> QED BY <2>3 DEF SumsTo
<1>3. ASSUME NEW k \in Nat, Solved(k) PROVE Solved(k + 1)
  <2>1. PICK h : h = [s \in Small(D, k) |-> OneMore(fun, h, s)]
    BY <1>3 DEF SumsTo
  <2>2. PICK g : g = [s \in Small(D, k + 1) |-> OneMore(fun, h, s)]
    OBVIOUS
  <2>3. Small(D, k) \subseteq Small(D, k + 1)
    BY <1>1 DEF Small
  <2>4. \A s \in Small(D, k) : g[s] = h[s]
    <3>1. \A s \in Small(D, k) : h[s] = OneMore(fun, h, s)
      BY <2>1
    <3> QED BY <2>2, <2>3, <3>1
  <2>5. ASSUME NEW s \in Small(D, k + 1) PROVE OneMore(fun, g, s) = OneMore(fun, h, s)
    <3>1. CASE s = {}
      BY <3>1 DEF OneMore
    <3>2. CASE s # {}
      <4>1. s \ {Some(s)} \in Small(D, k)
        BY <1>1, <3>2, OneLess DEF Small
      <4> QED BY <2>4, <4>1 DEF OneMore
    <3> QED BY <3>1, <3>2
  <2>6. g = [s \in Small(D, k + 1) |-> OneMore(fun, g, s)]
    BY <2>2, <2>5
  <2> QED BY <2>6 DEF SumsTo
<1>4. PICK open : open = {k \in Nat : ~Solved(k)}
  OBVIOUS
<1>5. open = {}
  <2>1. SUFFICES ASSUME open # {} PROVE FALSE
    OBVIOUS
  <2>2. PICK k \in open : \A m \in open : k <= m
    BY <1>4, <2>1, LeastExists
  <2>3. k \in Nat /\ ~Solved(k)
    BY <1>4
  <2>4. k # 0
    BY <1>2, <2>3
  <2>5. k - 1 \in Nat /\ k - 1 \notin open /\ (k - 1) + 1 = k
    BY <2>2, <2>3, <2>4
  <2>6. Solved(k - 1)
    BY <1>4, <2>5
  <2>7. Solved((k - 1) + 1)
    BY <1>3, <2>5, <2>6
  <2> HIDE DEF Solved
  <2> QED BY <2>3, <2>5, <2>7
<1> QED BY <1>4, <1>5

\* No function of numbers up to five adds up to more than five times as many.
LEMMA SumIsBounded ==
    ASSUME NEW fun, IsFiniteSet(DOMAIN fun), \A x \in DOMAIN fun : fun[x] \in 0..5
    PROVE  SumFunction(fun) \in Nat /\ SumFunction(fun) <= 5 * Cardinality(DOMAIN fun)
<1>1. PICK D : D = DOMAIN fun
  OBVIOUS
<1>2. ASSUME NEW s \in SUBSET D PROVE IsFiniteSet(s) /\ Cardinality(s) \in Nat /\ Cardinality(s) <= Cardinality(D)
  BY <1>1, <1>2, FS_Subset, FS_CardinalityType
<1>3. \E g : g = [s \in SUBSET D |-> OneMore(fun, g, s)]
  <2>1. Small(D, Cardinality(D)) = SUBSET D
    BY <1>2 DEF Small
  <2>2. PICK k \in Nat : k = Cardinality(D) /\ IsFiniteSet(D)
    BY <1>1, FS_CardinalityType
  <2>3. SumsTo(fun, Small(D, k))
    BY <2>2, SumsExist
  <2>4. SumsTo(fun, SUBSET D)
    BY <2>1, <2>2, <2>3
  <2> QED BY <2>4 DEF SumsTo
<1>4. PICK g : g = (CHOOSE f : f = [s \in SUBSET D |-> OneMore(fun, f, s)])
  OBVIOUS
<1>5. g = [s \in SUBSET D |-> OneMore(fun, g, s)]
  BY <1>3, <1>4
<1>6. SumFunction(fun) = g[D]
  BY <1>1, <1>4, SumIs
<1>7. PICK off : off = {k \in Nat : \E s \in SUBSET D : /\ Cardinality(s) = k
                                                       /\ ~(g[s] \in Nat /\ g[s] <= 5 * k)}
  OBVIOUS
<1>8. off = {}
  <2>1. SUFFICES ASSUME off # {} PROVE FALSE
    OBVIOUS
  <2>2. PICK k \in off : \A m \in off : k <= m
    BY <1>7, <2>1, LeastExists
  <2>3. PICK s \in SUBSET D : Cardinality(s) = k /\ ~(g[s] \in Nat /\ g[s] <= 5 * k)
    BY <1>7
  <2>4. g[s] = OneMore(fun, g, s)
    BY <1>5
  <2>5. k \in Nat /\ s # {}
    BY <1>7, <2>3, <2>4 DEF OneMore
  <2>6. PICK x \in s : x = Some(s)
    BY <1>2, <2>5, OneLess
  <2>7. PICK t \in SUBSET D : t = s \ {x} /\ Cardinality(t) = k - 1 /\ k - 1 \in Nat
    <3>1. IsFiniteSet(s) /\ Cardinality(s) = k
      BY <1>2, <2>3
    <3>2. s \ {x} \in SUBSET D /\ Cardinality(s \ {x}) = k - 1 /\ k > 0
      BY <2>5, <2>6, <3>1, OneLess
    <3> QED BY <2>5, <3>2
  <2>8. g[t] \in Nat /\ g[t] <= 5 * (k - 1)
    BY <1>7, <2>2, <2>5, <2>7
  <2>9. g[s] = fun[x] + g[t]
    BY <2>4, <2>5, <2>6, <2>7 DEF OneMore
  <2>10. fun[x] \in 0..5
    BY <1>1, <2>6
  <2> QED BY <2>3, <2>5, <2>8, <2>9, <2>10
<1>9. Cardinality(D) \in Nat /\ D \in SUBSET D /\ Cardinality(D) \notin off
  BY <1>2, <1>8
<1> QED BY <1>1, <1>6, <1>7, <1>9

\* Rounding half up, of an average of at most 5.00.
LEMMA DivisionBound ==
    ASSUME NEW a \in Nat, NEW n \in Nat, n > 0, a <= 1001 * n
    PROVE  a \div (2 * n) \in 0..500
<1>1. PICK m \in Nat : m = 2 * n /\ m > 0
  OBVIOUS
<1>2. PICK q \in Int : q = a \div m
  BY <1>1
<1>3. m * q <= a /\ a < m * (q + 1)
  BY <1>1, <1>2, Z3
<1>4. q >= 0
  BY <1>1, <1>3
<1>5. q <= 500
  BY <1>1, <1>3
<1> QED BY <1>1, <1>2, <1>4, <1>5

LEMMA MeanIsBounded ==
    ASSUME NEW T \in SUBSET Sessions, NEW rating \in [T -> Ratings \cup {0}]
    PROVE  Mean(rating) \in 0..500
<1>1. IsFiniteSet(T) /\ DOMAIN rating = T
  BY ReviewsAssumption, FS_Subset
<1>2. PICK n \in Nat : n = Cardinality(T)
  BY <1>1, FS_CardinalityType
<1>3. \A x \in T : rating[x] \in 0..5
  <2>1. Ratings \cup {0} \subseteq 0..5
    BY ReviewsAssumption
  <2> QED BY <2>1
<1>4. PICK sum \in Nat : sum = SumFunction(rating) /\ sum <= 5 * n
  BY <1>1, <1>2, <1>3, SumIsBounded
<1>5. CASE n = 0
  BY <1>1, <1>2, <1>5 DEF Mean
<1>6. CASE n # 0
  <2>1. 200 * sum + n \in Nat /\ 200 * sum + n <= 1001 * n /\ n > 0
    BY <1>4, <1>6
  <2>2. (200 * sum + n) \div (2 * n) \in 0..500
    BY <2>1, DivisionBound
  <2> QED BY <1>1, <1>2, <1>4, <1>6, <2>2 DEF Mean
<1> QED BY <1>5, <1>6

LEMMA AveragesAreBounded == Averages \subseteq 0..500
BY MeanIsBounded DEF Averages

-----------------------------------------------------------------------------
LEMMA NothingWritten ==
    /\ NoReview \in ReviewRows /\ NoReview.images = {} /\ NoReview.visible = FALSE
    /\ NoReview.rating = 0 /\ 0 \notin Ratings /\ NoReview.editable = FALSE
BY ReviewsAssumption DEF NoReview, ReviewRows

LEMMA OfReview ==
    ASSUME ReviewShape, NEW s \in Sessions
    PROVE  /\ review[s] \in ReviewRows /\ review[s].images \in SUBSET ReviewImages
           /\ review[s].visible \in BOOLEAN /\ review[s].editable \in BOOLEAN
           /\ review[s].rating \in Ratings \cup {0}
BY DEF ReviewShape, ReviewRows

LEMMA OfChange ==
    ASSUME ReviewShape, NEW x \in changes
    PROVE  /\ x \in ChangeRows /\ x.session \in Sessions /\ x.new \in ReviewRows
           /\ x.new.images \in SUBSET ReviewImages /\ x.new.visible \in BOOLEAN
           /\ x.dropped \in SUBSET ReviewImages /\ x.alone \in BOOLEAN /\ x.average \in Averages
BY DEF ReviewShape, ChangeRows, ReviewRows

\* The average depends on which reviews are shown, and on their ratings, alone.
LEMMA AverageIsOfShown ==
    ASSUME NEW one, NEW other,
           \A s \in Sessions : one[s].visible = other[s].visible /\ one[s].rating = other[s].rating
    PROVE  AverageOf(one) = AverageOf(other)
<1>1. {t \in Sessions : one[t].visible} = {t \in Sessions : other[t].visible}
  OBVIOUS
<1>2. ShownRatings(one) = ShownRatings(other)
  BY <1>1 DEF ShownRatings
<1> QED BY <1>2 DEF AverageOf

LEMMA AverageTyped ==
    ASSUME NEW reviews \in [Sessions -> ReviewRows]
    PROVE  AverageOf(reviews) \in Averages
<1>1. PICK shown \in SUBSET Sessions : shown = {t \in Sessions : reviews[t].visible}
  OBVIOUS
<1>2. \A s \in Sessions : reviews[s].rating \in Ratings \cup {0}
  BY DEF ReviewRows
<1>3. ShownRatings(reviews) = [s \in shown |-> reviews[s].rating]
  BY <1>1 DEF ShownRatings
<1>4. ShownRatings(reviews) \in [shown -> Ratings \cup {0}]
  BY <1>2, <1>3
<1> QED BY <1>4 DEF AverageOf, Averages

LEMMA ImagesFinite ==
    ASSUME NEW images \in SUBSET ReviewImages
    PROVE  IsFiniteSet(images) /\ Cardinality(images) \in Nat
<1>1. IsFiniteSet(ReviewImages)
  BY ReviewsAssumption
<1>2. IsFiniteSet(images)
  BY <1>1, FS_Subset
<1> QED BY <1>2, FS_CardinalityType

-----------------------------------------------------------------------------
\* A transaction begins: for a session that has none, with a review that keeps images of the
\* session or brings new ones.
LEMMA KeepsWithChange ==
    ASSUME ReviewsInvariant, NEW s \in Sessions, NEW new \in ReviewRows, NEW dropped \in SUBSET ReviewImages,
           NEW fresh \in SUBSET FreshImages,
           Change(s, new, dropped), stored' = stored \cup fresh, UNCHANGED <<worked, review, average, profileEdits, overlapped, doomed>>,
           new.rating \in Ratings, s \in worked, Cardinality(new.images) <= MaxImages,
           review[s] # NoReview /\ ~review[s].editable =>
               new.rating = review[s].rating /\ new.images = review[s].images,
           new.images \subseteq review[s].images \cup fresh,
           dropped \subseteq review[s].images, dropped \cap new.images = {}
    PROVE  ReviewsInvariant'
<1> USE DEF ReviewsInvariant
<1>1. PICK then \in Averages : then = AverageOf([review EXCEPT ![s] = new])
  <2>1. [review EXCEPT ![s] = new] \in [Sessions -> ReviewRows]
    BY DEF ReviewShape
  <2> QED BY <2>1, AverageTyped
<1>2. PICK mine \in ChangeRows : /\ mine = [session |-> s, new |-> new, average |-> then,
                                            dropped |-> dropped, alone |-> changes = {}]
                                 /\ mine.session = s /\ mine.new = new /\ mine.average = then
                                 /\ mine.dropped = dropped /\ mine.alone = (changes = {})
  <2>1. \A b \in BOOLEAN :
            [session |-> s, new |-> new, average |-> then, dropped |-> dropped, alone |-> b] \in ChangeRows
    BY DEF ChangeRows
  <2>2. (changes = {}) \in BOOLEAN
    OBVIOUS
  <2> QED BY <2>1, <2>2
<1>3. PICK others : others = {[x EXCEPT !.alone = FALSE] : x \in changes}
  OBVIOUS
<1>4. changes' = others \cup {mine}
  BY <1>1, <1>2, <1>3 DEF Change
<1>5. ASSUME NEW y \in others
      PROVE  \E x \in changes : /\ y.session = x.session /\ y.new = x.new /\ y.dropped = x.dropped
                                /\ y.alone = FALSE /\ y \in ChangeRows
                                /\ y = [x EXCEPT !.alone = FALSE]
  <2>1. PICK x \in changes : y = [x EXCEPT !.alone = FALSE]
    BY <1>3
  <2>2. x \in ChangeRows
    BY OfChange
  <2>3. /\ [x EXCEPT !.alone = FALSE].session = x.session /\ [x EXCEPT !.alone = FALSE].new = x.new
        /\ [x EXCEPT !.alone = FALSE].dropped = x.dropped /\ [x EXCEPT !.alone = FALSE].alone = FALSE
        /\ [x EXCEPT !.alone = FALSE] \in ChangeRows
    BY <2>2 DEF ChangeRows
  <2> QED BY <2>1, <2>3
<1>6. ASSUME NEW x \in changes PROVE x.session # s
  BY DEF Change, Busy
<1>7. \A y \in others : y.session # s /\ y.session \in Sessions
  BY <1>5, <1>6, OfChange
<1>8. fresh \subseteq ReviewImages
  BY DEF FreshImages
<1>9. ReviewShape'
  <2>1. changes' \in SUBSET ChangeRows
    BY <1>4, <1>5
  <2> QED BY <1>8, <2>1 DEF ReviewShape
<1>10. ReviewsFit'
  <2>1. \A y \in changes' :
            /\ y.new.rating \in Ratings /\ y.session \in worked
            /\ review[y.session] # NoReview /\ ~review[y.session].editable =>
                   /\ y.new.rating = review[y.session].rating
                   /\ y.new.images = review[y.session].images
    <3>1. ASSUME NEW y \in others
          PROVE  /\ y.new.rating \in Ratings /\ y.session \in worked
                 /\ review[y.session] # NoReview /\ ~review[y.session].editable =>
                        /\ y.new.rating = review[y.session].rating
                        /\ y.new.images = review[y.session].images
      <4>1. PICK x \in changes : y.session = x.session /\ y.new = x.new
        BY <1>5
      <4> QED BY <4>1 DEF ReviewsFit
    <3> QED BY <1>2, <1>4, <3>1
  <2>2. ASSUME NEW y \in changes', NEW z \in changes', y.session = z.session
        PROVE  y = z
    <3>1. CASE y \in others /\ z \in others
      <4>1. PICK x \in changes : y.session = x.session /\ y = [x EXCEPT !.alone = FALSE]
        BY <1>5, <3>1
      <4>2. PICK u \in changes : z.session = u.session /\ z = [u EXCEPT !.alone = FALSE]
        BY <1>5, <3>1
      <4>3. x = u
        BY <2>2, <4>1, <4>2 DEF ReviewsFit
      <4> QED BY <4>1, <4>2, <4>3
    <3>2. CASE y = mine \/ z = mine
      BY <1>2, <1>4, <1>7, <2>2, <3>2
    <3> QED BY <1>4, <3>1, <3>2
  <2> QED BY <2>1, <2>2 DEF ReviewsFit
<1>11. AverageAgrees'
  <2>1. ASSUME NEW y \in changes', y.alone
        PROVE  changes' = {y} /\ y.average = AverageOf([review' EXCEPT ![y.session] = y.new])
    <3>1. y = mine
      BY <1>4, <1>5, <2>1
    <3>2. changes = {}
      BY <1>2, <2>1, <3>1
    <3>3. others = {}
      BY <1>3, <3>2
    <3> QED BY <1>1, <1>2, <1>4, <3>1, <3>3
  <2>2. ~overlapped' => average' = AverageOf(review')
    BY DEF AverageAgrees
  <2> QED BY <2>1, <2>2 DEF AverageAgrees
<1>12. ASSUME NEW t \in Sessions PROVE Mine(t)' = Mine(t) \cup (IF t = s THEN new.images ELSE {})
  <2>1. ASSUME NEW i
        PROVE  (\E y \in changes' : y.session = t /\ i \in y.new.images) <=>
                   \/ \E x \in changes : x.session = t /\ i \in x.new.images
                   \/ t = s /\ i \in new.images
    <3>1. ASSUME NEW y \in changes', y.session = t, i \in y.new.images
          PROVE  \/ \E x \in changes : x.session = t /\ i \in x.new.images
                 \/ t = s /\ i \in new.images
      BY <1>2, <1>4, <1>5, <3>1
    <3>2. ASSUME NEW x \in changes, x.session = t, i \in x.new.images
          PROVE  \E y \in changes' : y.session = t /\ i \in y.new.images
      <4>1. PICK y \in others : y = [x EXCEPT !.alone = FALSE]
        BY <1>3
      <4>2. x \in ChangeRows
        BY OfChange
      <4>3. [x EXCEPT !.alone = FALSE].session = x.session /\ [x EXCEPT !.alone = FALSE].new = x.new
        BY <4>2 DEF ChangeRows
      <4> QED BY <1>4, <3>2, <4>1, <4>3
    <3>3. t = s /\ i \in new.images => \E y \in changes' : y.session = t /\ i \in y.new.images
      BY <1>2, <1>4
    <3> QED BY <3>1, <3>2, <3>3
  <2>2. \A i : i \in Mine(t)' <=> \/ i \in review[t].images
                                  \/ \E y \in changes' : y.session = t /\ i \in y.new.images
    BY DEF Mine
  <2>3. \A i : i \in Mine(t) <=> \/ i \in review[t].images
                                 \/ \E x \in changes : x.session = t /\ i \in x.new.images
    BY DEF Mine
  <2> QED BY <2>1, <2>2, <2>3
<1>13. ASSUME NEW t \in Sessions PROVE fresh \cap Mine(t) = {} /\ fresh \cap doomed = {}
  BY DEF FreshImages, ImagesSound
<1>14. review[s].images \subseteq Mine(s)
  BY DEF Mine
<1>15. ImagesSound'
  <2>1. \A t \in Sessions : Mine(t)' \subseteq Mine(t) \cup fresh /\ (t # s => Mine(t)' = Mine(t))
    BY <1>12, <1>14
  <2>2. \A t \in Sessions : Mine(t)' \subseteq stored' \ doomed'
    BY <1>13, <2>1 DEF ImagesSound
  <2>3. ASSUME NEW t \in Sessions, NEW u \in Sessions, t # u PROVE Mine(t)' \cap Mine(u)' = {}
    <3>1. Mine(t) \cap Mine(u) = {}
      BY <2>3 DEF ImagesSound
    <3>2. t # s \/ u # s
      BY <2>3
    <3> QED BY <1>13, <2>1, <3>1, <3>2
  <2>4. \A y \in changes' :
            /\ Cardinality(y.new.images) <= MaxImages
            /\ y.dropped \subseteq review[y.session].images /\ y.dropped \cap y.new.images = {}
    BY <1>2, <1>4, <1>5 DEF ImagesSound
  <2>5. \A t \in Sessions : Cardinality(review'[t].images) <= MaxImages
    BY DEF ImagesSound
  <2> QED BY <2>2, <2>3, <2>4, <2>5 DEF ImagesSound
<1> QED BY <1>9, <1>10, <1>11, <1>15

LEMMA KeepsWithCreate ==
    ASSUME ReviewsInvariant, NEW s \in Sessions, NEW rating \in Ratings, NEW images \in SUBSET ReviewImages,
           CreateReview(s, rating, images)
    PROVE  ReviewsInvariant'
<1>1. PICK new \in ReviewRows : /\ new = [rating |-> rating, visible |-> TRUE, editable |-> TRUE, images |-> images]
                                /\ new.rating = rating /\ new.images = images
  <2>1. [rating |-> rating, visible |-> TRUE, editable |-> TRUE, images |-> images] \in ReviewRows
    BY DEF ReviewRows
  <2> QED BY <2>1
<1>2. Change(s, new, {})
  BY <1>1 DEF CreateReview
<1>3. /\ s \in worked /\ review[s] = NoReview /\ images \in SUBSET FreshImages
      /\ Cardinality(images) <= MaxImages /\ stored' = stored \cup images
      /\ UNCHANGED <<worked, review, average, profileEdits, overlapped, doomed>>
  BY DEF CreateReview, ValidAssignment, UploadAccepted, Reviewed
<1> QED BY <1>1, <1>2, <1>3, KeepsWithChange

LEMMA KeepsWithUpdate ==
    ASSUME ReviewsInvariant, NEW s \in Sessions, NEW rating \in Ratings, NEW images \in SUBSET ReviewImages,
           NEW dropped \in SUBSET ReviewImages, UpdateReview(s, rating, images, dropped)
    PROVE  ReviewsInvariant'
<1>1. PICK old \in ReviewRows : old = review[s] /\ old.images \in SUBSET ReviewImages
  BY OfReview DEF ReviewsInvariant
<1>2. PICK kept \in SUBSET ReviewImages : kept = old.images \ dropped
  BY <1>1
<1>3. PICK all \in SUBSET ReviewImages : all = kept \cup images
  OBVIOUS
<1>4. PICK new \in ReviewRows : /\ new = [old EXCEPT !.rating = rating, !.images = all]
                                /\ new.rating = rating /\ new.images = all
  <2>1. /\ [old EXCEPT !.rating = rating, !.images = all] \in ReviewRows
        /\ [old EXCEPT !.rating = rating, !.images = all].rating = rating
        /\ [old EXCEPT !.rating = rating, !.images = all].images = all
    BY DEF ReviewRows
  <2> QED BY <2>1
<1>5. new = [review[s] EXCEPT !.rating = rating, !.images = (@ \ dropped) \cup images]
  BY <1>1, <1>2, <1>3, <1>4
<1>6. /\ Change(s, new, dropped) /\ stored' = stored \cup images
      /\ UNCHANGED <<worked, review, average, profileEdits, overlapped, doomed>>
  BY <1>5 DEF UpdateReview
<1>7. /\ review[s] # NoReview /\ old.editable /\ dropped \subseteq old.images
      /\ images \in SUBSET FreshImages
      /\ Cardinality(kept) + Cardinality(images) <= MaxImages
  BY <1>1, <1>2 DEF UpdateReview, CanEdit, UploadAccepted, FitsReview, Reviewed
<1>8. s \in worked
  BY <1>7 DEF ReviewsInvariant, ReviewsFit
<1>9. images \cap old.images = {}
  BY <1>1, <1>7 DEF FreshImages
<1>10. Cardinality(all) <= MaxImages
  <2>1. IsFiniteSet(kept) /\ IsFiniteSet(images) /\ Cardinality(kept) \in Nat /\ Cardinality(images) \in Nat
    BY ImagesFinite
  <2>2. kept \cap images = {}
    BY <1>2, <1>9
  <2>3. Cardinality(kept \cap images) = 0
    BY <2>2, FS_EmptySet
  <2>4. Cardinality(kept \cup images) = Cardinality(kept) + Cardinality(images) - Cardinality(kept \cap images)
    BY <2>1, FS_Union
  <2> QED BY <1>3, <1>7, <2>1, <2>3, <2>4
<1>11. dropped \cap all = {} /\ all \subseteq old.images \cup images
  BY <1>2, <1>3, <1>7, <1>9
<1> QED BY <1>1, <1>4, <1>6, <1>7, <1>8, <1>10, <1>11, KeepsWithChange

LEMMA KeepsWithVisibility ==
    ASSUME ReviewsInvariant, NEW s \in Sessions, NEW visible \in BOOLEAN, SetReviewVisibility(s, visible)
    PROVE  ReviewsInvariant'
<1>1. PICK old \in ReviewRows : old = review[s]
  BY OfReview DEF ReviewsInvariant
<1>2. PICK new \in ReviewRows : /\ new = [old EXCEPT !.visible = visible]
                                /\ new.rating = old.rating /\ new.images = old.images
  <2>1. /\ [old EXCEPT !.visible = visible] \in ReviewRows
        /\ [old EXCEPT !.visible = visible].rating = old.rating
        /\ [old EXCEPT !.visible = visible].images = old.images
    BY DEF ReviewRows
  <2> QED BY <2>1
<1>3. Change(s, new, {}) /\ UNCHANGED <<worked, review, average, profileEdits, overlapped, stored, doomed>>
  BY <1>1, <1>2 DEF SetReviewVisibility
<1>4. old.rating \in Ratings /\ s \in worked
  BY <1>1 DEF SetReviewVisibility, Reviewed, ReviewsInvariant, ReviewsFit
<1>5. Cardinality(old.images) <= MaxImages
  BY <1>1 DEF ReviewsInvariant, ImagesSound
<1>6. {} \in SUBSET FreshImages /\ {} \in SUBSET ReviewImages /\ stored' = stored \cup {}
  BY <1>3
<1> QED BY <1>1, <1>2, <1>3, <1>4, <1>5, <1>6, KeepsWithChange

-----------------------------------------------------------------------------
\* What a session holds does not grow when a change is over.
LEMMA MineWhenOver ==
    ASSUME ReviewsInvariant, NEW x \in changes, changes' = changes \ {x},
           \A t \in Sessions : t # x.session => review'[t].images = review[t].images,
           review'[x.session].images \in {review[x.session].images, x.new.images}
    PROVE  /\ \A t \in Sessions : t # x.session => Mine(t)' = Mine(t)
           /\ Mine(x.session)' = review'[x.session].images
           /\ review'[x.session].images \subseteq Mine(x.session)
           /\ Mine(x.session) = review[x.session].images \cup x.new.images
<1> USE DEF ReviewsInvariant
<1>1. \A y \in changes : y.session = x.session => y = x
  BY DEF ReviewsFit
<1>2. ASSUME NEW t \in Sessions, t # x.session PROVE Mine(t)' = Mine(t)
  <2>1. {y \in changes' : y.session = t} = {y \in changes : y.session = t}
    BY <1>2
  <2> QED BY <1>2, <2>1 DEF Mine
<1>3. Mine(x.session)' = review'[x.session].images
  <2>1. {y \in changes' : y.session = x.session} = {}
    BY <1>1
  <2> QED BY <2>1 DEF Mine
<1>4. Mine(x.session) = review[x.session].images \cup x.new.images
  <2>1. {y \in changes : y.session = x.session} = {x}
    BY <1>1
  <2> QED BY <2>1 DEF Mine
<1> QED BY <1>2, <1>3, <1>4

LEMMA KeepsWithCommit ==
    ASSUME ReviewsInvariant, NEW x \in changes, Commit(x)
    PROVE  ReviewsInvariant'
<1> USE DEF ReviewsInvariant
<1>1. PICK s \in Sessions : s = x.session
  BY OfChange
<1>2. PICK new \in ReviewRows : new = x.new
  BY OfChange
<1>3. /\ changes' = changes \ {x} /\ review' = [review EXCEPT ![s] = new] /\ average' = x.average
      /\ overlapped' = ~x.alone /\ doomed' = doomed \cup x.dropped /\ worked' = worked /\ profileEdits' = profileEdits /\ stored' = stored
  BY <1>1, <1>2 DEF Commit
<1>4. /\ review' \in [Sessions -> ReviewRows] /\ review'[s] = new
      /\ \A t \in Sessions : t # s => review'[t] = review[t]
  BY <1>3 DEF ReviewShape
<1>5. \A y \in changes' : y \in changes /\ y.session # s /\ y.session \in Sessions
  BY <1>1, <1>3, OfChange DEF ReviewsFit
<1>6. ReviewShape'
  BY <1>3, <1>4, OfChange DEF ReviewShape
<1>7. ReviewsFit'
  <2>1. \A t \in Sessions : review'[t] # NoReview => review'[t].rating \in Ratings /\ t \in worked
    BY <1>1, <1>2, <1>4 DEF ReviewsFit
  <2> QED BY <1>3, <1>4, <1>5, <2>1 DEF ReviewsFit
<1>8. AverageAgrees'
  <2>1. ASSUME NEW y \in changes' PROVE ~y.alone
    BY <1>3, <1>5, <2>1 DEF AverageAgrees
  <2>2. ~overlapped' => average' = AverageOf(review')
    <3>1. CASE x.alone
      BY <1>1, <1>2, <1>3, <3>1 DEF AverageAgrees
    <3>2. CASE ~x.alone
      BY <1>3, <3>2
    <3> QED BY <3>1, <3>2
  <2> QED BY <2>1, <2>2 DEF AverageAgrees
<1>9. /\ \A t \in Sessions : t # s => Mine(t)' = Mine(t)
      /\ Mine(s)' = new.images /\ new.images \subseteq Mine(s)
      /\ Mine(s) = review[s].images \cup new.images
  <2>1. \A t \in Sessions : t # x.session => review'[t].images = review[t].images
    BY <1>1, <1>4
  <2>2. review'[x.session].images = x.new.images
    BY <1>1, <1>2, <1>4
  <2> QED BY <1>1, <1>2, <1>3, <2>1, <2>2, MineWhenOver
<1>10. ImagesSound'
  <2>1. x.dropped \subseteq Mine(s) /\ x.dropped \cap new.images = {} /\ Cardinality(new.images) <= MaxImages
    BY <1>1, <1>2, <1>9 DEF ImagesSound
  <2>2. \A t \in Sessions : t # s => Mine(t) \cap Mine(s) = {}
    BY DEF ImagesSound
  <2>3. \A t \in Sessions : Mine(t)' \subseteq stored' \ doomed'
    BY <1>3, <1>9, <2>1, <2>2 DEF ImagesSound
  <2>4. \A t, u \in Sessions : t # u => Mine(t)' \cap Mine(u)' = {}
    BY <1>9, <2>2 DEF ImagesSound
  <2>5. \A t \in Sessions : Cardinality(review'[t].images) <= MaxImages
    BY <1>4, <2>1 DEF ImagesSound
  <2>6. \A y \in changes' :
            /\ Cardinality(y.new.images) <= MaxImages
            /\ y.dropped \subseteq review'[y.session].images /\ y.dropped \cap y.new.images = {}
    BY <1>4, <1>5 DEF ImagesSound
  <2> QED BY <2>3, <2>4, <2>5, <2>6 DEF ImagesSound
<1> QED BY <1>6, <1>7, <1>8, <1>10

LEMMA KeepsWithRollBack ==
    ASSUME ReviewsInvariant, NEW x \in changes, NEW cleaned \in BOOLEAN, RollBack(x, cleaned)
    PROVE  ReviewsInvariant'
<1> USE DEF ReviewsInvariant
<1>1. PICK s \in Sessions : s = x.session
  BY OfChange
<1>2. /\ changes' = changes \ {x} /\ UNCHANGED <<worked, review, average, profileEdits, overlapped, doomed>>
      /\ stored' \subseteq stored /\ stored \ stored' \subseteq x.new.images \ review[s].images
  BY <1>1 DEF RollBack
<1>3. ReviewShape' /\ ReviewsFit'
  BY <1>2 DEF ReviewShape, ReviewsFit
<1>4. AverageAgrees'
  <2>1. ASSUME NEW y \in changes' PROVE ~y.alone
    BY <1>2, <2>1 DEF AverageAgrees
  <2> QED BY <1>2, <2>1 DEF AverageAgrees
<1>5. /\ \A t \in Sessions : t # s => Mine(t)' = Mine(t)
      /\ Mine(s)' = review[s].images /\ review[s].images \subseteq Mine(s)
      /\ Mine(s) = review[s].images \cup x.new.images
  BY <1>1, <1>2, MineWhenOver
<1>6. ImagesSound'
  <2>1. \A t \in Sessions : t # s => Mine(t) \cap Mine(s) = {}
    BY DEF ImagesSound
  <2>2. \A t \in Sessions : Mine(t)' \subseteq stored' \ doomed'
    BY <1>2, <1>5, <2>1 DEF ImagesSound
  <2>3. \A t, u \in Sessions : t # u => Mine(t)' \cap Mine(u)' = {}
    BY <1>5, <2>1 DEF ImagesSound
  <2> QED BY <1>2, <2>2, <2>3 DEF ImagesSound
<1> QED BY <1>3, <1>4, <1>6

LEMMA KeepsWithDestroy ==
    ASSUME ReviewsInvariant, DestroyImages
    PROVE  ReviewsInvariant'
<1> USE DEF ReviewsInvariant
<1>1. stored' = stored \ doomed /\ doomed' = {} /\ UNCHANGED <<worked, review, average, changes, profileEdits, overlapped>>
  BY DEF DestroyImages
<1>2. ReviewShape' /\ ReviewsFit' /\ AverageAgrees'
  BY <1>1 DEF ReviewShape, ReviewsFit, AverageAgrees
<1>3. \A t \in Sessions : Mine(t)' = Mine(t)
  BY <1>1 DEF Mine
<1>4. ImagesSound'
  BY <1>1, <1>3 DEF ImagesSound
<1> QED BY <1>2, <1>4

LEMMA KeepsWithWork ==
    ASSUME ReviewsInvariant, NEW s \in Sessions, CompleteSession(s)
    PROVE  ReviewsInvariant'
<1> USE DEF ReviewsInvariant
<1>1. worked' = worked \cup {s} /\ UNCHANGED <<review, average, changes, profileEdits, overlapped, stored, doomed>>
  BY DEF CompleteSession
<1>2. ReviewShape' /\ ReviewsFit' /\ AverageAgrees'
  BY <1>1 DEF ReviewShape, ReviewsFit, AverageAgrees
<1>3. \A t \in Sessions : Mine(t)' = Mine(t)
  BY <1>1 DEF Mine
<1>4. ImagesSound'
  BY <1>1, <1>3 DEF ImagesSound
<1> QED BY <1>2, <1>4

\* The thirty days are over: the average is of the same ratings.
LEMMA KeepsWithDeadline ==
    ASSUME ReviewsInvariant, NEW s \in Sessions, EditDeadline(s)
    PROVE  ReviewsInvariant'
<1> USE DEF ReviewsInvariant
<1>1. PICK old \in ReviewRows : old = review[s]
  BY OfReview
<1>2. PICK row \in ReviewRows : /\ row = [old EXCEPT !.editable = FALSE]
                                /\ row.rating = old.rating /\ row.visible = old.visible
                                /\ row.images = old.images
  <2>1. /\ [old EXCEPT !.editable = FALSE] \in ReviewRows
        /\ [old EXCEPT !.editable = FALSE].rating = old.rating
        /\ [old EXCEPT !.editable = FALSE].visible = old.visible
        /\ [old EXCEPT !.editable = FALSE].images = old.images
    BY DEF ReviewRows
  <2> QED BY <2>1
<1>3. review' = [review EXCEPT ![s] = row] /\ UNCHANGED <<worked, average, changes, profileEdits, overlapped, stored, doomed>>
  BY <1>1, <1>2 DEF EditDeadline, ReviewShape
<1>4. /\ review' \in [Sessions -> ReviewRows] /\ review'[s] = row
      /\ \A t \in Sessions : t # s => review'[t] = review[t]
  BY <1>3 DEF ReviewShape
<1>5. \A t \in Sessions : /\ review'[t].visible = review[t].visible
                          /\ review'[t].rating = review[t].rating
                          /\ review'[t].images = review[t].images
  BY <1>1, <1>2, <1>4
<1>6. ASSUME NEW x \in changes PROVE x.session # s
  BY <1>6 DEF EditDeadline, Busy
<1>7. ReviewShape'
  BY <1>3, <1>4 DEF ReviewShape
<1>8. ReviewsFit'
  <2>1. review[s] # NoReview
    BY DEF EditDeadline, Reviewed
  <2>2. \A t \in Sessions : review'[t] # NoReview => review'[t].rating \in Ratings /\ t \in worked
    BY <1>1, <1>2, <1>4, <2>1 DEF ReviewsFit
  <2>3. \A x \in changes : x.session \in Sessions /\ review'[x.session] = review[x.session]
    BY <1>4, <1>6, OfChange
  <2> QED BY <1>3, <2>2, <2>3 DEF ReviewsFit
<1>9. AverageAgrees'
  <2>1. AverageOf(review') = AverageOf(review)
    BY <1>5, AverageIsOfShown
  <2>2. ASSUME NEW x \in changes
        PROVE  AverageOf([review' EXCEPT ![x.session] = x.new]) = AverageOf([review EXCEPT ![x.session] = x.new])
    <3>1. PICK one : one = [review' EXCEPT ![x.session] = x.new]
      OBVIOUS
    <3>2. PICK other : other = [review EXCEPT ![x.session] = x.new]
      OBVIOUS
    <3>3. \A t \in Sessions : one[t] = (IF t = x.session THEN x.new ELSE review'[t])
      BY <1>4, <3>1
    <3>4. \A t \in Sessions : other[t] = (IF t = x.session THEN x.new ELSE review[t])
      BY <3>2 DEF ReviewShape
    <3>5. ASSUME NEW t \in Sessions
          PROVE  one[t].visible = other[t].visible /\ one[t].rating = other[t].rating
      <4>1. CASE t = x.session
        <5>1. one[t] = other[t]
          BY <3>3, <3>4, <4>1
        <5> QED BY <5>1
      <4>2. CASE t # x.session
        <5>1. one[t] = review'[t] /\ other[t] = review[t]
          BY <3>3, <3>4, <4>2
        <5> QED BY <1>5, <5>1
      <4> QED BY <4>1, <4>2
    <3>6. AverageOf(one) = AverageOf(other)
      BY <3>5, AverageIsOfShown
    <3> QED BY <3>1, <3>2, <3>6
  <2> QED BY <1>3, <2>1, <2>2 DEF AverageAgrees
<1>10. \A t \in Sessions : Mine(t)' = Mine(t)
  BY <1>3, <1>5 DEF Mine
<1>11. ImagesSound'
  <2>1. \A x \in changes : x.session \in Sessions
    BY OfChange
  <2> QED BY <1>3, <1>5, <1>10, <2>1 DEF ImagesSound
<1> QED BY <1>7, <1>8, <1>9, <1>11

\* An edit of the profile reads an average that was right, or is marked when it puts it back.
LEMMA KeepsWithProfile ==
    ASSUME ReviewsInvariant, ReadProfile \/ \E read \in profileEdits, last \in BOOLEAN : SaveProfile(read, last)
    PROVE  ReviewsInvariant'
<1> USE DEF ReviewsInvariant
<1>1. UNCHANGED <<worked, review, changes, stored, doomed>>
  BY DEF ReadProfile, SaveProfile
<1>2. \/ average' = average /\ overlapped' = overlapped
      \/ average' \in profileEdits /\ overlapped' = (overlapped \/ average' # average)
  BY DEF ReadProfile, SaveProfile
<1>3. profileEdits' \subseteq profileEdits \cup {average}
  BY DEF ReadProfile, SaveProfile
<1>4. ReviewShape'
  <2>1. average' \in Averages /\ profileEdits' \in SUBSET Averages
    BY <1>2, <1>3 DEF ReviewShape
  <2>2. overlapped' \in BOOLEAN
    BY <1>2 DEF ReviewShape
  <2> QED BY <1>1, <2>1, <2>2 DEF ReviewShape
<1>5. ReviewsFit'
  BY <1>1 DEF ReviewsFit
<1>6. AverageAgrees'
  <2>1. ~overlapped' => average' = AverageOf(review')
    BY <1>1, <1>2 DEF AverageAgrees, ReviewShape
  <2> QED BY <1>1, <2>1 DEF AverageAgrees
<1>7. ImagesSound'
  <2>1. \A t \in Sessions : Mine(t)' = Mine(t)
    BY <1>1 DEF Mine
  <2> QED BY <1>1, <2>1 DEF ImagesSound
<1> QED BY <1>4, <1>5, <1>6, <1>7

-----------------------------------------------------------------------------
LEMMA ReviewsStart == ReviewsInit => ReviewsInvariant
<1> SUFFICES ASSUME ReviewsInit PROVE ReviewsInvariant
  OBVIOUS
<1>1. /\ worked = {} /\ \A s \in Sessions : review[s] = NoReview
      /\ review = [s \in Sessions |-> NoReview]
      /\ average = 0 /\ changes = {} /\ overlapped = FALSE /\ stored = {} /\ doomed = {}
      /\ profileEdits = {}
  BY DEF ReviewsInit
<1>2. AverageAgrees
  <2>1. DOMAIN ShownRatings(review) = {}
    BY <1>1, NothingWritten DEF ShownRatings
  <2>2. Cardinality(DOMAIN ShownRatings(review)) = 0
    BY <2>1, FS_EmptySet
  <2>3. AverageOf(review) = 0
    BY <2>2 DEF AverageOf, Mean
  <2> QED BY <1>1, <2>3 DEF AverageAgrees
<1>3. ReviewShape
  <2>1. review \in [Sessions -> ReviewRows]
    BY <1>1, NothingWritten
  <2>2. average \in Averages
    BY <1>1, <1>2, <2>1, AverageTyped DEF AverageAgrees
  <2> QED BY <1>1, <2>1, <2>2 DEF ReviewShape
<1>4. ReviewsFit
  BY <1>1 DEF ReviewsFit
<1>5. ImagesSound
  <2>1. \A s \in Sessions : review[s].images = {} /\ Mine(s) = {}
    BY <1>1, NothingWritten DEF Mine
  <2>2. \A s \in Sessions : Cardinality(review[s].images) <= MaxImages
    BY <2>1, FS_EmptySet, ReviewsAssumption
  <2> QED BY <1>1, <2>1, <2>2 DEF ImagesSound
<1> QED BY <1>2, <1>3, <1>4, <1>5 DEF ReviewsInvariant

LEMMA ReviewsStaySound ==
    ASSUME ReviewsInvariant, [ReviewsNext]_reviewVars
    PROVE  ReviewsInvariant'
<1>1. CASE UNCHANGED reviewVars
  BY <1>1 DEF reviewVars, ReviewsInvariant, ReviewShape, ReviewsFit, AverageAgrees, ImagesSound, Mine
<1>2. CASE ReviewsNext
  BY <1>2, KeepsWithCreate, KeepsWithUpdate, KeepsWithVisibility, KeepsWithCommit, KeepsWithRollBack,
     KeepsWithDestroy, KeepsWithWork, KeepsWithDeadline, KeepsWithProfile DEF ReviewsNext
<1> QED BY <1>1, <1>2

\* A review is neither lost nor, after its time, rewritten.
LEMMA StaysInStep ==
    ASSUME ReviewsInvariant, [ReviewsNext]_reviewVars, NEW s \in Sessions
    PROVE  /\ s \in Reviewed => s \in Reviewed'
           /\ s \in Reviewed' => s \in worked
           /\ s \in Reviewed /\ ~review[s].editable =>
                  /\ review'[s].rating = review[s].rating
                  /\ review'[s].images = review[s].images
<1> USE DEF ReviewsInvariant
<1>1. s \in Reviewed => s \in worked
  BY DEF Reviewed, ReviewsFit
<1>2. CASE review' = review
  BY <1>1, <1>2 DEF Reviewed
<1>3. ASSUME NEW x \in changes, Commit(x)
      PROVE  /\ s \in Reviewed => s \in Reviewed'
             /\ s \in Reviewed' => s \in worked
             /\ s \in Reviewed /\ ~review[s].editable =>
                    /\ review'[s].rating = review[s].rating
                    /\ review'[s].images = review[s].images
  <2>1. review' = [review EXCEPT ![x.session] = x.new]
    BY <1>3 DEF Commit
  <2>2. CASE s = x.session
    <3>1. review'[s] = x.new
      BY <2>1, <2>2 DEF ReviewShape
    <3>2. x.new.rating \in Ratings /\ s \in worked
      BY <2>2 DEF ReviewsFit
    <3>3. x.new # NoReview
      BY <3>2, NothingWritten
    <3>4. review[s] # NoReview /\ ~review[s].editable =>
              x.new.rating = review[s].rating /\ x.new.images = review[s].images
      BY <2>2 DEF ReviewsFit
    <3> QED BY <3>1, <3>2, <3>3, <3>4 DEF Reviewed
  <2>3. CASE s # x.session
    <3>1. review'[s] = review[s]
      BY <2>1, <2>3 DEF ReviewShape
    <3> QED BY <1>1, <3>1 DEF Reviewed
  <2> QED BY <2>2, <2>3
<1>4. ASSUME NEW t \in Sessions, EditDeadline(t)
      PROVE  /\ s \in Reviewed => s \in Reviewed'
             /\ s \in Reviewed' => s \in worked
             /\ s \in Reviewed /\ ~review[s].editable =>
                    /\ review'[s].rating = review[s].rating
                    /\ review'[s].images = review[s].images
  <2>1. PICK old \in ReviewRows : old = review[t]
    BY OfReview
  <2>2. review' = [review EXCEPT ![t].editable = FALSE] /\ t \in Reviewed
    BY <1>4 DEF EditDeadline
  <2>3. CASE s = t
    <3>1. review'[s] = [old EXCEPT !.editable = FALSE]
      BY <2>1, <2>2, <2>3 DEF ReviewShape
    <3>2. /\ [old EXCEPT !.editable = FALSE].rating = old.rating
          /\ [old EXCEPT !.editable = FALSE].images = old.images
      BY DEF ReviewRows
    <3>3. old.rating \in Ratings
      BY <2>1, <2>2 DEF Reviewed, ReviewsFit
    <3>4. review'[s] # NoReview
      BY <3>1, <3>2, <3>3, NothingWritten
    <3> QED BY <1>1, <2>1, <2>2, <2>3, <3>1, <3>2, <3>4 DEF Reviewed
  <2>4. CASE s # t
    <3>1. review'[s] = review[s]
      BY <2>2, <2>4 DEF ReviewShape
    <3> QED BY <1>1, <3>1 DEF Reviewed
  <2> QED BY <2>3, <2>4
<1>5. \/ review' = review
      \/ \E x \in changes : Commit(x)
      \/ \E t \in Sessions : EditDeadline(t)
  <2>1. CASE \E t \in Sessions, rating \in Ratings, images \in SUBSET ReviewImages :
                 \/ CreateReview(t, rating, images)
                 \/ \E dropped \in SUBSET ReviewImages : UpdateReview(t, rating, images, dropped)
    BY <2>1 DEF CreateReview, UpdateReview
  <2>2. CASE \E t \in Sessions, visible \in BOOLEAN : SetReviewVisibility(t, visible)
    BY <2>2 DEF SetReviewVisibility
  <2>3. CASE \E x \in changes, cleaned \in BOOLEAN : RollBack(x, cleaned)
    BY <2>3 DEF RollBack
  <2>4. CASE DestroyImages \/ \E t \in Sessions : CompleteSession(t)
    BY <2>4 DEF DestroyImages, CompleteSession
  <2>5. CASE ReadProfile \/ \E read \in profileEdits, last \in BOOLEAN : SaveProfile(read, last)
    BY <2>5 DEF ReadProfile, SaveProfile
  <2>6. CASE UNCHANGED reviewVars
    BY <2>6 DEF reviewVars
  <2> QED BY <2>1, <2>2, <2>3, <2>4, <2>5, <2>6 DEF ReviewsNext
<1> QED BY <1>2, <1>3, <1>4, <1>5

LEMMA ReviewsAreSafe ==
    ASSUME ReviewsInvariant
    PROVE  ReviewsTypeOK /\ AverageIsSummary /\ ImagesKept
<1>1. AverageIsSummary
  BY DEF ReviewsInvariant, AverageAgrees, AverageIsSummary, WorkerReviewSummary
<1>2. ImagesKept
  <2>1. \A s \in Sessions : review[s].images \subseteq Mine(s)
    BY DEF Mine
  <2> QED BY <2>1 DEF ReviewsInvariant, ImagesSound, ImagesKept, Reviewed
<1>3. ReviewsTypeOK
  <2>1. ReviewShape /\ average \in 0..500 /\ profileEdits \subseteq 0..500
    BY AveragesAreBounded DEF ReviewsInvariant, ReviewShape
  <2>2. \A x \in changes : x.session \in Sessions /\ x.average \in 0..500
    BY <2>1, OfChange, AveragesAreBounded
  <2>3. \A s \in Sessions :
            /\ review[s].rating \in Ratings \cup {0} /\ review[s].visible \in BOOLEAN
            /\ review[s].images \subseteq ReviewImages
    BY <2>1, OfReview
  <2> QED BY <2>1, <2>2, <2>3 DEF ReviewShape, ReviewsTypeOK
<1> QED BY <1>1, <1>2, <1>3

\* A worker's average is at most 5.00, and that of the reviews shown unless the last changes
\* overlapped or an edit of the profile put an earlier one back; the images of a review are
\* there, within the limit and its own, whatever rolls back; and a review is not lost, nor
\* rewritten after its thirty days.
THEOREM ReviewsStaySafe == ReviewsSpec => ReviewsSafe
<1>1. ReviewsInvariant /\ [ReviewsNext]_reviewVars => ReviewsInvariant'
  BY ReviewsStaySound
<1>2. ReviewsInvariant => ReviewsTypeOK /\ AverageIsSummary /\ ImagesKept
  BY ReviewsAreSafe
<1>3. ReviewsInvariant /\ [ReviewsNext]_reviewVars =>
          [\A s \in Sessions :
               /\ s \in Reviewed => s \in Reviewed'
               /\ s \in Reviewed' => s \in worked
               /\ s \in Reviewed /\ ~review[s].editable =>
                      /\ review'[s].rating = review[s].rating
                      /\ review'[s].images = review[s].images]_reviewVars
  BY StaysInStep
<1> QED BY ReviewsStart, <1>1, <1>2, <1>3, PTL DEF ReviewsSpec, ReviewsSafe, ReviewStays
=============================================================================
