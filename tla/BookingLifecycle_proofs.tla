----------------------- MODULE BookingLifecycle_proofs -----------------------
(***************************************************************************)
(* What BookingLifecycle guarantees for any number of sessions and workers *)
(* and any price that satisfies the assumptions of that module.            *)
(***************************************************************************)
EXTENDS BookingLifecycle, FiniteSetTheorems, TLAPS

-----------------------------------------------------------------------------
(* Counting and refunding *)

\* Any set of sessions can be counted.
LEMMA CountOfSessions ==
    ASSUME NEW S \in SUBSET Sessions
    PROVE  Cardinality(S) \in Nat
BY FS_Subset, FS_CardinalityType, SessionsAssumption

\* A booking has a positive number of sessions.
LEMMA SessionCountPositive == SessionCount \in Nat \ {0}
BY FS_CardinalityType, FS_EmptySet, SessionsAssumption DEF SessionCount

\* The share of one session is an integer, whatever the division does.
LEMMA PerSessionType == PerSession \in Int
<1>1. /\ 2 * Total + SessionCount \in Int
      /\ 2 * SessionCount \in Nat
      /\ 2 * SessionCount > 0
  BY SessionCountPositive, PriceAssumption
<1> QED BY <1>1 DEF PerSession

\* refund_booking keeps the refunded amount within the price.
LEMMA RefundType ==
    ASSUME NEW m \in MoneyType, NEW amount \in Int, NEW keys \in SUBSET RefundKeys
    PROVE  /\ Refund(m, amount, keys) \in MoneyType
           /\ (Refund(m, amount, keys).status = "UNPAID") <=> (m.status = "UNPAID")
<1>1. m.refunded \in 0..Total /\ m.keys \subseteq RefundKeys /\ Total \in Nat
  BY PriceAssumption DEF MoneyType
<1>2. CASE m.status # "PAID" \/ keys \cap m.keys # {}
  BY <1>2 DEF Refund
<1>3. CASE m.status = "PAID" /\ keys \cap m.keys = {}
  BY <1>1, <1>3 DEF Refund, MoneyType
<1> QED BY <1>2, <1>3

\* Releasing commissions keeps both ledgers typed.
LEMMA ReleaseType ==
    ASSUME TypeOK, NEW S \in SUBSET Sessions, ReleaseCommission(S)
    PROVE  /\ reserved' \in [Sessions -> BOOLEAN]
           /\ debited' \in [Workers -> Int]
<1>1. ASSUME NEW w \in Workers
      PROVE  debited[w] - Cardinality({s \in S : worker[s] = w /\ reserved[s]}) \in Int
  <2>1. Cardinality({s \in S : worker[s] = w /\ reserved[s]}) \in Nat
    BY CountOfSessions
  <2> QED BY <2>1 DEF TypeOK
<1>2. \A s \in Sessions : (reserved[s] /\ s \notin S) \in BOOLEAN
  OBVIOUS
<1> QED BY <1>1, <1>2, Zenon DEF ReleaseCommission

-----------------------------------------------------------------------------
(* Type correctness *)

\* A booking is created well typed.
LEMMA InitType == Init => TypeOK
<1> SUFFICES ASSUME Init PROVE TypeOK
  OBVIOUS
<1>1. money \in MoneyType
  BY PriceAssumption DEF Init, MoneyType
<1>2. paidAt \in BOOLEAN /\ raced \in BOOLEAN
  BY Zenon DEF Init
<1>3. phase \in [Sessions -> Far..Over]
  BY DEF Init, Far, Near, Over
<1>4. reschedules \in 0..MaxReschedules
  BY BoundAssumption DEF Init
<1>5. unassigning \in [Sessions -> OpenStatus \cup ClosedStatus \cup {NotReading}]
  BY DEF Init
<1>6. voucher \in {"NONE", "RESERVED", "USED", "AVAILABLE"}
      /\ payment \in {"PENDING", "SUCCESS", "CANCELLED", "REFUNDED"}
  BY DEF Init
<1>7. bookingStatus \in OpenStatus /\ sessionStatus \in [Sessions -> ActiveStatus]
  BY DEF Init, OpenStatus, ActiveStatus
<1>8. /\ reserved \in [Sessions -> BOOLEAN] /\ settled \in [Sessions -> BOOLEAN]
      /\ debited \in [Workers -> Int]
      /\ worker \in [Sessions -> Workers \cup {NoWorker}]
      /\ earning \in [Sessions -> Workers \cup {NoWorker}]
      /\ lookup \in [Sessions -> Workers \cup {NoWorker}]
  BY DEF Init
<1>9. /\ method \in Methods /\ transfer = "none" /\ returned \in Nat
      /\ late \subseteq Sessions /\ stale \subseteq Sessions
  BY DEF Init
<1> QED BY <1>1, <1>2, <1>3, <1>4, <1>5, <1>6, <1>7, <1>8, <1>9 DEF TypeOK

\* The handlers that touch only payment and money.
LEMMA PaymentStepType == TypeOK /\ PaymentStep => TypeOK'
<1> SUFFICES ASSUME TypeOK, PaymentStep PROVE TypeOK'
  OBVIOUS
<1> USE DEF bookingVars, moneyVars, sessionVars, workerVars, raceVars, MoneyType
<1>1. /\ Total \in Nat \ {0} /\ Amount(transfer) \in Nat
      /\ Amount(transfer) >= Total => Amount(transfer) - Total \in Nat
  BY PriceAssumption DEF Amount
<1>2. ASSUME NEW t \in {"under", "exact", "over"}, Transfer(t) PROVE TypeOK'
  BY <1>2 DEF Transfer, TypeOK
<1>3. CASE WebhookLate
  BY <1>1, <1>3 DEF WebhookLate, TypeOK
<1>4. ASSUME NEW p \in {"PENDING", "SUCCESS", "CANCELLED", "REFUNDED"}, CancelUnpaid(p)
      PROVE  /\ bookingStatus' \in OpenStatus \cup ClosedStatus
             /\ payment' \in {"PENDING", "SUCCESS", "CANCELLED", "REFUNDED"}
             /\ voucher' \in {"NONE", "RESERVED", "USED", "AVAILABLE"}
             /\ sessionStatus' \in [Sessions -> ActiveStatus \cup DoneStatus]
  BY <1>4 DEF CancelUnpaid, TypeOK, ClosePendingPayment, Release, SetSessions,
              ClosedStatus, DoneStatus
<1>5. CASE WebhookUnder
  <2>1. CancelUnpaid("REFUNDED") BY <1>5 DEF WebhookUnder
  <2> QED BY <1>1, <1>4, <1>5, <2>1 DEF WebhookUnder, CancelUnpaid, TypeOK
<1>6. CASE WebhookPaid
  BY <1>1, <1>6 DEF WebhookPaid, MarkUsed, TypeOK
<1>7. CASE ExpireUnpaid
  <2>1. CancelUnpaid(payment) /\ payment \in {"PENDING", "SUCCESS", "CANCELLED", "REFUNDED"}
    BY <1>7 DEF ExpireUnpaid, TypeOK
  <2> QED BY <1>4, <1>7, <2>1 DEF ExpireUnpaid, CancelUnpaid, TypeOK
<1>8. CASE ConfirmCash
  BY <1>8 DEF ConfirmCash, TypeOK
<1> QED BY <1>2, <1>3, <1>5, <1>6, <1>7, <1>8 DEF PaymentStep

\* Taking a session and leaving it, with the ledgers both write to.
LEMMA AcceptType ==
    ASSUME TypeOK, NEW w \in Workers, NEW S \in SUBSET Sessions, Accept(w, S)
    PROVE  TypeOK'
<1> USE DEF moneyVars, raceVars, bookingVars
<1>1. bookingStatus' \in OpenStatus \cup ClosedStatus
      /\ voucher' \in {"NONE", "RESERVED", "USED", "AVAILABLE"}
  BY DEF Accept, SyncAfterClaim, MarkUsed, TypeOK, OpenStatus
<1>2. worker' \in [Sessions -> Workers \cup {NoWorker}]
  BY DEF Accept, TypeOK
<1>3. debited' \in [Workers -> Int]
  BY CountOfSessions DEF Accept, TypeOK
<1>4. reserved' \in [Sessions -> BOOLEAN]
  <2>1. \A s \in Sessions : (reserved[s] \/ s \in S) \in BOOLEAN
    OBVIOUS
  <2>2. CASE method = "CASH" BY <2>1, <2>2, Zenon DEF Accept
  <2>3. CASE method # "CASH" BY <2>3, Zenon DEF Accept, TypeOK
  <2> QED BY <2>2, <2>3
<1> QED BY <1>1, <1>2, <1>3, <1>4 DEF Accept, TypeOK

\* Removing a worker writes the ledgers, the booking and what the expiry job listed.
LEMMA RemoveWorkerType ==
    ASSUME TypeOK, NEW s \in Sessions, NEW status, RemoveWorker(s, status)
    PROVE  /\ bookingStatus' \in OpenStatus \cup ClosedStatus
           /\ reserved' \in [Sessions -> BOOLEAN]
           /\ debited' \in [Workers -> Int]
           /\ worker' \in [Sessions -> Workers \cup {NoWorker}]
           /\ late' \subseteq Sessions
<1>1. ReleaseCommission({s}) /\ {s} \in SUBSET Sessions
  BY DEF RemoveWorker
<1>2. reserved' \in [Sessions -> BOOLEAN] /\ debited' \in [Workers -> Int]
  BY <1>1, ReleaseType
<1> QED BY <1>2 DEF RemoveWorker, DropWorkers, Forget, TypeOK, OpenStatus

\* The ways a worker leaves a session, and the two halves of an unassign.
LEMMA LeaveType ==
    ASSUME TypeOK, NEW s \in Sessions,
           \/ CancelAssignment(s) \/ UnassignRead(s)
           \/ UnassignCommit(s) \/ UnassignRollback(s)
    PROVE  TypeOK'
<1> USE DEF bookingVars, moneyVars, sessionVars, workerVars, raceVars
<1>1. CASE CancelAssignment(s)
  <2>1. RemoveWorker(s, bookingStatus) BY <1>1 DEF CancelAssignment
  <2> QED BY <1>1, <2>1, RemoveWorkerType DEF CancelAssignment, RemoveWorker, TypeOK
<1>2. CASE UnassignRead(s)
  BY <1>2 DEF UnassignRead, TypeOK
<1>3. CASE UnassignCommit(s)
  <2>1. RemoveWorker(s, unassigning[s]) BY <1>3 DEF UnassignCommit
  <2>2. raced' \in BOOLEAN BY <1>3, Zenon DEF UnassignCommit
  <2>3. unassigning' \in [Sessions -> OpenStatus \cup ClosedStatus \cup {NotReading}]
    BY <1>3 DEF UnassignCommit, TypeOK
  <2>4. UNCHANGED <<voucher, moneyVars, sessionVars, earning, settled, stale, lookup>>
    BY <1>3, <2>1 DEF UnassignCommit, RemoveWorker
  <2> QED BY <2>1, <2>2, <2>3, <2>4, RemoveWorkerType DEF TypeOK
<1>4. CASE UnassignRollback(s)
  BY <1>4 DEF UnassignRollback, TypeOK
<1> QED BY <1>1, <1>2, <1>3, <1>4

\* Check-in, check-out and the completions by the job and the admin.
LEMMA CompleteType ==
    ASSUME TypeOK, NEW s \in Sessions, NEW w \in Workers, NEW enough \in BOOLEAN,
           Complete(s, w, enough)
    PROVE  /\ bookingStatus' \in OpenStatus \cup ClosedStatus
           /\ sessionStatus' \in [Sessions -> ActiveStatus \cup DoneStatus]
           /\ earning' \in [Sessions -> Workers \cup {NoWorker}]
           /\ reserved' \in [Sessions -> BOOLEAN]
           /\ settled' \in [Sessions -> BOOLEAN]
           /\ debited' \in [Workers -> Int]
<1> DEFINE held == worker[s] = w /\ reserved[s]
           owed == method = "CASH" /\ ~held
<1>1. reserved' \in [Sessions -> BOOLEAN]
  <2>1. reserved' = [reserved EXCEPT ![s] = @ /\ ~held] /\ reserved \in [Sessions -> BOOLEAN]
    BY DEF Complete, TypeOK
  <2>2. (reserved[s] /\ ~held) \in BOOLEAN OBVIOUS
  <2> HIDE DEF held
  <2> QED BY <2>1, <2>2, Zenon
<1>2. settled' \in [Sessions -> BOOLEAN]
  <2>1. settled' = [settled EXCEPT ![s] = held \/ (owed /\ enough)]
        /\ settled \in [Sessions -> BOOLEAN]
    BY DEF Complete, TypeOK
  <2>2. (held \/ (owed /\ enough)) \in BOOLEAN OBVIOUS
  <2> HIDE DEF held, owed
  <2> QED BY <2>1, <2>2, Zenon
<1>3. debited' \in [Workers -> Int]
  BY DEF Complete, TypeOK
<1> QED BY <1>1, <1>2, <1>3
    DEF Complete, TypeOK, SetSessions, ClosedStatus, DoneStatus

\* A request of a worker, and the completions by the job and the admin.
LEMMA WorkType ==
    ASSUME TypeOK, NEW s \in Sessions,
           \/ \E w \in Workers : LookUp(s, w)
           \/ CheckIn(s) \/ RejectRequest(s)
           \/ CheckOut(s) \/ MissedCheckOut(s) \/ AdminComplete(s)
    PROVE  TypeOK'
<1> USE DEF bookingVars, moneyVars, sessionVars, workerVars, raceVars
<1>1. ASSUME NEW w \in Workers, LookUp(s, w) PROVE TypeOK'
  BY <1>1 DEF LookUp, TypeOK
<1>2. ASSUME EndRequest(s)
      PROVE  /\ raced' \in BOOLEAN
             /\ lookup' \in [Sessions -> Workers \cup {NoWorker}]
             /\ UNCHANGED <<unassigning, late, stale>>
  <2>1. raced' \in BOOLEAN BY <1>2, Zenon DEF EndRequest
  <2> QED BY <1>2, <2>1 DEF EndRequest, TypeOK
<1>3. CASE CheckIn(s)
  <2>1. EndRequest(s) BY <1>3 DEF CheckIn
  <2>2. /\ bookingStatus' \in OpenStatus \cup ClosedStatus
        /\ voucher' \in {"NONE", "RESERVED", "USED", "AVAILABLE"}
        /\ sessionStatus' \in [Sessions -> ActiveStatus \cup DoneStatus]
    BY <1>3 DEF CheckIn, TypeOK, MarkUsed, SetSessions, OpenStatus, ActiveStatus
  <2>3. UNCHANGED <<moneyVars, phase, reschedules, workerVars>>
    BY <1>3 DEF CheckIn
  <2> QED BY <1>2, <2>1, <2>2, <2>3 DEF TypeOK
<1>4. CASE RejectRequest(s)
  BY <1>4 DEF RejectRequest, TypeOK
<1>5. CASE CheckOut(s)
  <2>1. PICK enough \in BOOLEAN : Complete(s, lookup[s], enough)
    BY <1>5 DEF CheckOut
  <2>2. lookup[s] \in Workers /\ EndRequest(s)
    BY <1>5 DEF CheckOut, TypeOK
  <2>3. UNCHANGED <<voucher, moneyVars, phase, reschedules, worker>>
    BY <2>1 DEF Complete
  <2> QED BY <1>2, <2>1, <2>2, <2>3, CompleteType DEF TypeOK
<1>6. ASSUME CompleteForWorker(s) PROVE TypeOK'
  <2>1. PICK enough \in BOOLEAN : Complete(s, worker[s], enough)
    BY <1>6 DEF CompleteForWorker
  <2>2. worker[s] \in Workers /\ UNCHANGED raceVars
    BY <1>6 DEF CompleteForWorker, TypeOK
  <2>3. UNCHANGED <<voucher, moneyVars, phase, reschedules, worker>>
    BY <2>1 DEF Complete
  <2> QED BY <2>1, <2>2, <2>3, CompleteType DEF TypeOK
<1> QED BY <1>1, <1>3, <1>4, <1>5, <1>6 DEF MissedCheckOut, AdminComplete

\* Cancelling by the customer and the admin.
LEMMA PaymentAfterType ==
    ASSUME NEW p \in {"PENDING", "SUCCESS", "CANCELLED", "REFUNDED"}, NEW m
    PROVE  /\ PaymentAfterRefund(p, m) \in {"PENDING", "SUCCESS", "CANCELLED", "REFUNDED"}
           /\ ClosePendingPayment(p) \in {"PENDING", "SUCCESS", "CANCELLED", "REFUNDED"}
BY DEF PaymentAfterRefund, ClosePendingPayment

\* The whole booking is cancelled.
LEMMA CancelCoreType == TypeOK /\ CancelCore => TypeOK'
<1> SUFFICES ASSUME TypeOK, CancelCore PROVE TypeOK'
  OBVIOUS
<1> DEFINE toCancel == {s \in Sessions : sessionStatus[s] \notin DoneStatus}
           amount == IF SomeCompleted THEN PerSession * Cardinality(toCancel) ELSE Total
<1>1. toCancel \in SUBSET Sessions
  OBVIOUS
<1>2. amount \in Int
  BY <1>1, CountOfSessions, PerSessionType, PriceAssumption
<1>3. /\ ReleaseCommission(toCancel) /\ DropWorkers(toCancel) /\ Forget(toCancel)
      /\ bookingStatus' = "CANCELLED" /\ SetSessions(toCancel, "CANCELLED")
      /\ money' = Refund(money, amount, {<<"booking", "cancel">>})
      /\ payment' = PaymentAfterRefund(ClosePendingPayment(payment), money')
      /\ voucher' = IF SomeCompleted THEN voucher ELSE Release(voucher)
      /\ UNCHANGED <<method, paidAt, transfer, returned, phase, reschedules,
                     earning, settled, unassigning, lookup, stale, raced>>
  BY DEF CancelCore
<1> HIDE DEF toCancel, amount
<1>4. reserved' \in [Sessions -> BOOLEAN] /\ debited' \in [Workers -> Int]
  BY <1>1, <1>3, ReleaseType
<1>5. money' \in MoneyType
  BY <1>2, <1>3, RefundType DEF TypeOK, RefundKeys
<1>6. payment' \in {"PENDING", "SUCCESS", "CANCELLED", "REFUNDED"}
  BY <1>3, PaymentAfterType DEF TypeOK
<1>7. /\ worker' \in [Sessions -> Workers \cup {NoWorker}] /\ late' \subseteq Sessions
      /\ sessionStatus' \in [Sessions -> ActiveStatus \cup DoneStatus]
      /\ voucher' \in {"NONE", "RESERVED", "USED", "AVAILABLE"}
      /\ bookingStatus' \in OpenStatus \cup ClosedStatus
  BY <1>3 DEF TypeOK, DropWorkers, Forget, SetSessions, Release, DoneStatus, ClosedStatus
<1> QED BY <1>3, <1>4, <1>5, <1>6, <1>7 DEF TypeOK

\* One session is cancelled.
LEMMA CancelScheduleType ==
    ASSUME TypeOK, NEW s \in Sessions, CancelSchedule(s)
    PROVE  TypeOK'
<1> DEFINE amount == IF ~OthersActive(s) /\ ~SomeCompleted THEN Total ELSE PerSession
<1>1. {s} \in SUBSET Sessions /\ amount \in Int /\ {<<s, "cancel">>} \in SUBSET RefundKeys
  BY PerSessionType, PriceAssumption DEF RefundKeys
<1>2. /\ ReleaseCommission({s}) /\ DropWorkers({s}) /\ Forget({s})
      /\ SetSessions({s}, "CANCELLED")
      /\ money' = Refund(money, amount, {<<s, "cancel">>})
      /\ UNCHANGED <<method, paidAt, transfer, returned, phase, reschedules,
                     earning, settled, unassigning, lookup, stale, raced>>
  BY DEF CancelSchedule
<1>3. /\ \/ payment' = PaymentAfterRefund(ClosePendingPayment(payment), money')
         \/ payment' = PaymentAfterRefund(payment, money')
      /\ bookingStatus' \in OpenStatus \cup ClosedStatus
      /\ voucher' \in {"NONE", "RESERVED", "USED", "AVAILABLE"}
  BY DEF CancelSchedule, SyncAfterClaim, MarkUsed, Release, TypeOK,
         OpenStatus, ClosedStatus, bookingVars
<1> HIDE DEF amount
<1>4. reserved' \in [Sessions -> BOOLEAN] /\ debited' \in [Workers -> Int]
  BY <1>1, <1>2, ReleaseType
<1>5. money' \in MoneyType
  BY <1>1, <1>2, RefundType DEF TypeOK
<1>6. payment' \in {"PENDING", "SUCCESS", "CANCELLED", "REFUNDED"}
  BY <1>3, PaymentAfterType DEF TypeOK
<1>7. /\ worker' \in [Sessions -> Workers \cup {NoWorker}] /\ late' \subseteq Sessions
      /\ sessionStatus' \in [Sessions -> ActiveStatus \cup DoneStatus]
  BY <1>2 DEF TypeOK, DropWorkers, Forget, SetSessions, DoneStatus
<1> QED BY <1>2, <1>3, <1>4, <1>5, <1>6, <1>7 DEF TypeOK

\* The expiry run.  missed is the set of sessions it gives up.
LEMMA ExpireType == TypeOK /\ Expire => TypeOK'
<1> SUFFICES ASSUME TypeOK, Expire PROVE TypeOK'
  OBVIOUS
<1> DEFINE gone == StillLate
           unclaimed == IF late # {} THEN {s \in Unclaimed \cup gone : phase[s] >= Grace}
                                     ELSE stale \cap Unclaimed
           missed == IF bookingStatus \in OpenStatus THEN unclaimed ELSE {}
           ends == missed # {} /\ \A s \in Sessions \ missed : sessionStatus[s] \notin ActiveStatus
           fails == ends /\ ~SomeCompleted
           shared == Refund(money, PerSession * Cardinality(missed), missed \X {"missed"})
<1>1. gone \in SUBSET Sessions /\ missed \in SUBSET Sessions
  BY DEF TypeOK, StillLate, Unclaimed
<1>2. PerSession * Cardinality(missed) \in Int
  BY <1>1, CountOfSessions, PerSessionType
<1>3. missed \X {"missed"} \in SUBSET RefundKeys
  BY <1>1 DEF RefundKeys
<1>4. shared \in MoneyType
  <2> HIDE DEF missed
  <2> QED BY <1>2, <1>3, RefundType DEF TypeOK
<1>5. /\ ReleaseCommission(gone) /\ DropWorkers(gone)
      /\ SetSessions(missed, "MISSED")
      /\ money' = IF fails THEN Refund(shared, Total, {<<"booking", "failed">>}) ELSE shared
      /\ payment' = PaymentAfterRefund(
                        IF fails THEN ClosePendingPayment(payment) ELSE payment, money')
      /\ bookingStatus' =
            IF fails THEN "FAILED"
            ELSE IF ends THEN "COMPLETED"
            ELSE IF gone # {} /\ bookingStatus = "ASSIGNED" THEN "PENDING"
            ELSE bookingStatus
      /\ voucher' = IF fails THEN Release(voucher) ELSE voucher
      /\ late' = {} /\ stale' = {}
      /\ UNCHANGED <<method, paidAt, transfer, returned, phase, reschedules,
                     earning, settled, unassigning, lookup, raced>>
  BY DEF Expire
<1> HIDE DEF gone, missed, ends, fails, shared
<1>6. reserved' \in [Sessions -> BOOLEAN] /\ debited' \in [Workers -> Int]
  BY <1>1, <1>5, ReleaseType
<1>7. money' \in MoneyType
  <2>1. Total \in Int /\ {<<"booking", "failed">>} \in SUBSET RefundKeys
    BY PriceAssumption DEF RefundKeys
  <2> QED BY <2>1, <1>4, <1>5, RefundType
<1>8. payment' \in {"PENDING", "SUCCESS", "CANCELLED", "REFUNDED"}
  BY <1>5, PaymentAfterType DEF TypeOK
<1>9. /\ worker' \in [Sessions -> Workers \cup {NoWorker}]
      /\ sessionStatus' \in [Sessions -> ActiveStatus \cup DoneStatus]
      /\ voucher' \in {"NONE", "RESERVED", "USED", "AVAILABLE"}
      /\ bookingStatus' \in OpenStatus \cup ClosedStatus
  BY <1>5 DEF TypeOK, DropWorkers, SetSessions, Release, OpenStatus, ClosedStatus, DoneStatus
<1> QED BY <1>5, <1>6, <1>7, <1>8, <1>9 DEF TypeOK

\* Every step of the booking keeps the types.
LEMMA NextType == TypeOK /\ [Next]_vars => TypeOK'
<1> SUFFICES ASSUME TypeOK, [Next]_vars PROVE TypeOK'
  OBVIOUS
<1> USE DEF bookingVars, moneyVars, sessionVars, workerVars, raceVars
<1>1. CASE PaymentStep
  BY <1>1, PaymentStepType
<1>2. CASE BookingStep
  <2>1. CASE CustomerCancel \/ AdminCancel
    BY <2>1, CancelCoreType DEF CustomerCancel, AdminCancel
  <2>2. CASE ListLate
    BY <2>2 DEF ListLate, TypeOK
  <2>3. CASE ListStale
    BY <2>3 DEF ListStale, Unclaimed, TypeOK
  <2>4. CASE Expire
    BY <2>4, ExpireType
  <2> QED BY <1>2, <2>1, <2>2, <2>3, <2>4 DEF BookingStep
<1>3. ASSUME NEW w \in Workers, NEW S \in SUBSET Sessions, ClaimPackage(w, S) PROVE TypeOK'
  BY <1>3, AcceptType DEF ClaimPackage
<1>4. ASSUME NEW s \in Sessions, SessionStep(s) PROVE TypeOK'
  <2>1. ASSUME NEW w \in Workers, ClaimSchedule(w, s) PROVE TypeOK'
    <3>1. {s} \in SUBSET Sessions OBVIOUS
    <3> QED BY <2>1, <3>1, AcceptType DEF ClaimSchedule
  <2>2. CASE CancelSchedule(s)
    BY <2>2, CancelScheduleType
  <2>3. ASSUME NEW p \in Far..Early, Reschedule(s, p) PROVE TypeOK'
    BY <2>3, BoundAssumption DEF Reschedule, TypeOK, Far, Early, Over
  <2>4. CASE Tick(s)
    BY <2>4 DEF Tick, TypeOK, Far, Over
  <2>5. CASE \/ CancelAssignment(s) \/ UnassignRead(s)
             \/ UnassignCommit(s) \/ UnassignRollback(s)
    BY <2>5, LeaveType
  <2>6. CASE \/ \E w \in Workers : LookUp(s, w)
             \/ CheckIn(s) \/ RejectRequest(s)
             \/ CheckOut(s) \/ MissedCheckOut(s) \/ AdminComplete(s)
    BY <2>6, WorkType
  <2> QED BY <1>4, <2>1, <2>2, <2>3, <2>4, <2>5, <2>6, Zenon DEF SessionStep
<1>5. CASE UNCHANGED vars
  BY <1>5 DEF vars, TypeOK
<1> QED BY <1>1, <1>2, <1>3, <1>4, <1>5 DEF Next

\* Types, in particular: the refunded amount never exceeds the price and stays
\* an amount of money, whatever handlers refund in whatever order.
THEOREM TypeCorrect == Spec => []TypeOK
<1>1. Init => TypeOK BY InitType
<1>2. TypeOK /\ [Next]_vars => TypeOK' BY NextType
<1> QED BY <1>1, <1>2, PTL DEF Spec

-----------------------------------------------------------------------------
(* A closed booking has nothing left to do, and stays as it is *)

\* A transfer is only made for a booking to be paid that way, and a booking is
\* only COMPLETED when some work was done.  Without the first, with UnpaidIsIdle,
\* a short transfer could cancel a completed booking.
TransferIsBank == transfer # "none" => method = "BANK_TRANSFER"
CompletedHasWork == bookingStatus = "COMPLETED" => SomeCompleted

\* The inductive invariant.
Settled == ClosedBookingHasNoActiveSession /\ UnpaidIsIdle /\ TransferIsBank /\ CompletedHasWork

\* What a step may do: keep the invariant, and change nothing that was done.
FinalStep ==
    /\ Closed => bookingStatus' = bookingStatus
    /\ \A s \in Sessions : sessionStatus[s] \in DoneStatus =>
           \/ sessionStatus'[s] = sessionStatus[s]
           \/ sessionStatus[s] = "MISSED" /\ money.status = "UNPAID"
SettledStep == Settled' /\ FinalStep

\* A new booking is open, unpaid or paid from the wallet, and nobody works on it.
LEMMA InitSettled == Init => Settled
BY DEF Init, Settled, ClosedBookingHasNoActiveSession, UnpaidIsIdle, TransferIsBank,
       CompletedHasWork, Closed, ClosedStatus

\* A step that moves no session, no money and gives no session to a worker.
LEMMA SettledUnchanged ==
    ASSUME TypeOK, Settled,
           UNCHANGED <<bookingStatus, sessionStatus, method, worker, transfer>>,
           money' = money,
           money.status = "UNPAID" => lookup' = lookup
    PROVE  SettledStep
BY DEF SettledStep, FinalStep, Settled, ClosedBookingHasNoActiveSession, UnpaidIsIdle,
       TransferIsBank, CompletedHasWork, Closed, SomeCompleted

\* A payment, in time or late, closes only a booking nobody works on.
LEMMA SettledPayment ==
    ASSUME TypeOK, Settled, PaymentStep
    PROVE  SettledStep
<1> USE DEF bookingVars, sessionVars, workerVars, raceVars,
            SettledStep, FinalStep, Settled, ClosedBookingHasNoActiveSession, UnpaidIsIdle,
            TransferIsBank, CompletedHasWork, Closed, SomeCompleted
<1>1. ASSUME NEW t \in {"under", "exact", "over"}, Transfer(t) PROVE SettledStep
  BY <1>1 DEF Transfer
<1>2. CASE WebhookLate
  BY <1>2 DEF WebhookLate
<1>6. CASE WebhookPaid \/ ConfirmCash
  <2>1. money'.status = "PAID"
    BY <1>6 DEF WebhookPaid, ConfirmCash, TypeOK, MoneyType
  <2>2. UNCHANGED <<bookingStatus, sessionStatus, method, transfer>>
    BY <1>6 DEF WebhookPaid, ConfirmCash
  <2> QED BY <2>1, <2>2
<1>3. ASSUME NEW p, CancelUnpaid(p), money.status = "UNPAID", method = "BANK_TRANSFER",
             UNCHANGED <<money, method, transfer>>,
             bookingStatus \notin {"CANCELLED", "FAILED"}
      PROVE  SettledStep
  <2>1. ~Closed /\ bookingStatus' = "CANCELLED"
    BY <1>3 DEF CancelUnpaid, ClosedStatus
  <2>2. sessionStatus' = [s \in Sessions |->
            IF sessionStatus[s] \notin {"COMPLETED", "CANCELLED"} THEN "CANCELLED"
                                                              ELSE sessionStatus[s]]
    BY <1>3 DEF CancelUnpaid, SetSessions
  <2>3. \A s \in Sessions : sessionStatus'[s] = "CANCELLED"
    BY <1>3, <2>2
  <2>4. UNCHANGED <<worker, lookup>>
    BY <1>3 DEF CancelUnpaid
  <2>5. FinalStep
    BY <1>3, <2>1, <2>3 DEF DoneStatus
  <2>6. Settled'
    BY <1>3, <2>1, <2>3, <2>4 DEF ActiveStatus
  <2> QED BY <2>5, <2>6
<1>4. CASE WebhookUnder
  BY <1>3, <1>4 DEF WebhookUnder, TooLate, Delivered
<1>5. CASE ExpireUnpaid
  BY <1>3, <1>5 DEF ExpireUnpaid
<1> QED BY <1>1, <1>2, <1>4, <1>5, <1>6 DEF PaymentStep

\* Claiming: the booking is open and paid for, or will be in cash.
LEMMA SettledAccept ==
    ASSUME TypeOK, Settled, NEW w \in Workers, NEW S \in SUBSET Sessions, Accept(w, S)
    PROVE  SettledStep
<1>1. bookingStatus \in OpenStatus /\ bookingStatus' \in OpenStatus
  BY DEF Accept, SyncAfterClaim, bookingVars, OpenStatus
<1>2. money.status # "UNPAID" \/ method = "CASH"
  BY DEF Accept, Bookable
<1>3. UNCHANGED <<sessionStatus, money, method, transfer>>
  BY DEF Accept, moneyVars
<1> QED BY <1>1, <1>2, <1>3
    DEF SettledStep, FinalStep, Settled, ClosedBookingHasNoActiveSession, UnpaidIsIdle,
        TransferIsBank, CompletedHasWork, Closed, ClosedStatus, OpenStatus

\* Removing the worker of a pending session: the booking is open, and stays
\* open whatever status is written over it.
LEMMA SettledRemoveWorker ==
    ASSUME TypeOK, Settled, NEW s \in Sessions, NEW status, lookup' = lookup,
           sessionStatus[s] = "PENDING", RemoveWorker(s, status)
    PROVE  SettledStep
<1>1. ~Closed
  BY DEF Settled, ClosedBookingHasNoActiveSession, ActiveStatus
<1>2. bookingStatus' = "PENDING" \/ bookingStatus' = bookingStatus
  BY DEF RemoveWorker
<1>3. UNCHANGED <<sessionStatus, money, method, transfer>>
  BY DEF RemoveWorker, moneyVars, sessionVars
<1>4. \A t \in Sessions : worker'[t] = worker[t] \/ worker'[t] = NoWorker
  BY DEF RemoveWorker, DropWorkers
<1> QED BY <1>1, <1>2, <1>3, <1>4
    DEF SettledStep, FinalStep, Settled, ClosedBookingHasNoActiveSession, UnpaidIsIdle,
        TransferIsBank, CompletedHasWork, Closed, ClosedStatus

\* A worker leaving opens no closed booking: only open ones are unassigned.
LEMMA SettledLeave ==
    ASSUME TypeOK, Settled, NEW s \in Sessions,
           \/ CancelAssignment(s) \/ UnassignRead(s)
           \/ UnassignCommit(s) \/ UnassignRollback(s)
    PROVE  SettledStep
<1>1. CASE CancelAssignment(s)
  BY <1>1, SettledRemoveWorker DEF CancelAssignment
<1>2. CASE UnassignCommit(s)
  BY <1>2, SettledRemoveWorker DEF UnassignCommit
<1>3. CASE UnassignRead(s) \/ UnassignRollback(s)
  BY <1>3, SettledUnchanged
     DEF UnassignRead, UnassignRollback, bookingVars, moneyVars, sessionVars, workerVars
<1> QED BY <1>1, <1>2, <1>3

\* Completing a session: somebody worked on it, so the booking is paid for or
\* in cash; and the booking only closes when it was the last one.
LEMMA SettledComplete ==
    ASSUME TypeOK, Settled, NEW s \in Sessions, NEW w, NEW enough, Complete(s, w, enough)
    PROVE  SettledStep
<1>1. /\ sessionStatus[s] = "IN_PROGRESS"
      /\ sessionStatus' = [t \in Sessions |-> IF t \in {s} THEN "COMPLETED" ELSE sessionStatus[t]]
      /\ bookingStatus' = IF ~OthersActive(s) /\ bookingStatus = "IN_PROGRESS"
                          THEN "COMPLETED" ELSE bookingStatus
      /\ UNCHANGED <<money, method, transfer>>
  BY DEF Complete, SetSessions, moneyVars
<1>2. ~Closed
  BY <1>1 DEF Settled, ClosedBookingHasNoActiveSession, ActiveStatus
<1>3. ~(money.status = "UNPAID" /\ method # "CASH")
  BY <1>1 DEF Settled, UnpaidIsIdle
<1>4. SomeCompleted'
  BY <1>1 DEF SomeCompleted
<1>5. Closed' => \A t \in Sessions : sessionStatus'[t] \notin ActiveStatus
  BY <1>1, <1>2 DEF Closed, OthersActive, ActiveStatus
<1>6. FinalStep
  BY <1>1, <1>2 DEF FinalStep, DoneStatus
<1> QED BY <1>1, <1>3, <1>4, <1>5, <1>6
    DEF SettledStep, Settled, ClosedBookingHasNoActiveSession, UnpaidIsIdle,
        TransferIsBank, CompletedHasWork

\* Work is done on open bookings, and the last check-out closes them.
LEMMA SettledWork ==
    ASSUME TypeOK, Settled, NEW s \in Sessions,
           \/ \E w \in Workers : LookUp(s, w)
           \/ CheckIn(s) \/ RejectRequest(s)
           \/ CheckOut(s) \/ MissedCheckOut(s) \/ AdminComplete(s)
    PROVE  SettledStep
<1> USE DEF moneyVars, workerVars
<1>1. ASSUME NEW w \in Workers, LookUp(s, w) PROVE SettledStep
  <2>1. ~(money.status = "UNPAID" /\ method # "CASH")
    BY <1>1, WorkersAssumption DEF LookUp, Settled, UnpaidIsIdle
  <2>2. UNCHANGED <<bookingStatus, sessionStatus, money, method, transfer>>
    BY <1>1 DEF LookUp, bookingVars, sessionVars
  <2> QED BY <2>1, <2>2
      DEF SettledStep, FinalStep, Settled, ClosedBookingHasNoActiveSession, UnpaidIsIdle,
          TransferIsBank, CompletedHasWork, Closed, SomeCompleted
<1>2. CASE RejectRequest(s)
  <2>1. UNCHANGED <<bookingStatus, sessionStatus, money, method, transfer, worker>>
    BY <1>2 DEF RejectRequest, bookingVars, sessionVars
  <2>2. \A t \in Sessions : lookup'[t] = lookup[t] \/ lookup'[t] = NoWorker
    BY <1>2 DEF RejectRequest, TypeOK
  <2> QED BY <2>1, <2>2
      DEF SettledStep, FinalStep, Settled, ClosedBookingHasNoActiveSession, UnpaidIsIdle,
          TransferIsBank, CompletedHasWork, Closed, SomeCompleted
<1>3. CASE CheckIn(s)
  <2>1. /\ bookingStatus \in OpenStatus /\ bookingStatus' = "IN_PROGRESS"
        /\ sessionStatus[s] = "PENDING"
        /\ sessionStatus' = [t \in Sessions |->
                                IF t \in {s} THEN "IN_PROGRESS" ELSE sessionStatus[t]]
        /\ UNCHANGED <<money, method, transfer>>
    BY <1>3 DEF CheckIn, SetSessions
  <2>2. ~(money.status = "UNPAID" /\ method # "CASH")
    BY <1>3 DEF CheckIn, Settled, UnpaidIsIdle
  <2>3. ~Closed /\ ~Closed'
    BY <2>1 DEF Closed, ClosedStatus, OpenStatus
  <2> QED BY <2>1, <2>2, <2>3
      DEF SettledStep, FinalStep, Settled, ClosedBookingHasNoActiveSession, UnpaidIsIdle,
          TransferIsBank, CompletedHasWork, DoneStatus
<1>4. CASE CheckOut(s)
  BY <1>4, SettledComplete DEF CheckOut
<1>5. CASE MissedCheckOut(s) \/ AdminComplete(s)
  BY <1>5, SettledComplete DEF MissedCheckOut, AdminComplete, CompleteForWorker
<1> QED BY <1>1, <1>2, <1>3, <1>4, <1>5

\* Cancelling sets of sessions that were not done, and perhaps the booking.
LEMMA SettledCancel ==
    ASSUME TypeOK, Settled, NEW S \in SUBSET Sessions,
           \A s \in S : sessionStatus[s] \in ActiveStatus \ {"IN_PROGRESS"}, S # {},
           SetSessions(S, "CANCELLED"), DropWorkers(S),
           (money'.status = "UNPAID") <=> (money.status = "UNPAID"),
           UNCHANGED <<method, transfer, lookup>>,
           \/ bookingStatus' \in OpenStatus
           \/ /\ bookingStatus' = IF SomeCompleted THEN "COMPLETED" ELSE "CANCELLED"
              /\ \A s \in Sessions \ S : sessionStatus[s] \notin ActiveStatus
           \/ /\ bookingStatus' = "CANCELLED"
              /\ \A s \in Sessions \ S : sessionStatus[s] \notin ActiveStatus
    PROVE  SettledStep
<1>1. sessionStatus' = [s \in Sessions |-> IF s \in S THEN "CANCELLED" ELSE sessionStatus[s]]
  BY DEF SetSessions
<1>2. \A s \in Sessions : worker'[s] = worker[s] \/ worker'[s] = NoWorker
  BY DEF DropWorkers
<1>3. ~Closed
  BY DEF Settled, ClosedBookingHasNoActiveSession
<1>4. SomeCompleted' <=> SomeCompleted
  BY <1>1 DEF SomeCompleted, ActiveStatus
<1>5. FinalStep
  BY <1>1, <1>3 DEF FinalStep, DoneStatus, ActiveStatus
<1>6. Closed' => \A s \in Sessions : sessionStatus'[s] \notin ActiveStatus
  BY <1>1 DEF Closed, ActiveStatus, ClosedStatus, OpenStatus
<1>7. UnpaidIsIdle'
  BY <1>1, <1>2 DEF Settled, UnpaidIsIdle
<1>8. CompletedHasWork' /\ TransferIsBank'
  BY <1>4 DEF CompletedHasWork, TransferIsBank, Settled, OpenStatus
<1> QED BY <1>5, <1>6, <1>7, <1>8 DEF SettledStep, Settled, ClosedBookingHasNoActiveSession

\* Cancelling a booking leaves no session to do.
LEMMA SettledCancelCore == TypeOK /\ Settled /\ CancelCore => SettledStep
<1> SUFFICES ASSUME TypeOK, Settled, CancelCore PROVE SettledStep
  OBVIOUS
<1> DEFINE toCancel == {s \in Sessions : sessionStatus[s] \notin DoneStatus}
           amount == IF SomeCompleted THEN PerSession * Cardinality(toCancel) ELSE Total
<1>1. toCancel \in SUBSET Sessions /\ amount \in Int
  BY CountOfSessions, PerSessionType, PriceAssumption
<1>2. (money'.status = "UNPAID") <=> (money.status = "UNPAID")
  <2>1. money' = Refund(money, amount, {<<"booking", "cancel">>})
    BY DEF CancelCore
  <2> HIDE DEF amount
  <2> QED BY <1>1, <2>1, RefundType DEF TypeOK, RefundKeys
<1>3. /\ SetSessions(toCancel, "CANCELLED") /\ DropWorkers(toCancel) /\ toCancel # {}
      /\ bookingStatus' = "CANCELLED" /\ UNCHANGED <<method, transfer, lookup>>
      /\ \A s \in Sessions : sessionStatus[s] # "IN_PROGRESS"
  BY DEF CancelCore
<1>4. /\ \A s \in toCancel : sessionStatus[s] \in ActiveStatus \ {"IN_PROGRESS"}
      /\ \A s \in Sessions \ toCancel : sessionStatus[s] \notin ActiveStatus
  BY <1>3 DEF TypeOK, ActiveStatus, DoneStatus
<1> HIDE DEF toCancel, amount
<1> QED BY <1>1, <1>2, <1>3, <1>4, SettledCancel

\* Cancelling the last session closes the booking.
LEMMA SettledCancelSchedule ==
    ASSUME TypeOK, Settled, NEW s \in Sessions, CancelSchedule(s)
    PROVE  SettledStep
<1> DEFINE amount == IF ~OthersActive(s) /\ ~SomeCompleted THEN Total ELSE PerSession
<1>1. amount \in Int /\ {<<s, "cancel">>} \in SUBSET RefundKeys
  BY PerSessionType, PriceAssumption DEF RefundKeys
<1>2. (money'.status = "UNPAID") <=> (money.status = "UNPAID")
  <2>1. money' = Refund(money, amount, {<<s, "cancel">>})
    BY DEF CancelSchedule
  <2> HIDE DEF amount
  <2> QED BY <1>1, <2>1, RefundType DEF TypeOK
<1>3. /\ {s} \in SUBSET Sessions
      /\ \A t \in {s} : sessionStatus[t] \in ActiveStatus \ {"IN_PROGRESS"}
      /\ SetSessions({s}, "CANCELLED") /\ DropWorkers({s})
      /\ UNCHANGED <<method, transfer, lookup>>
  BY DEF CancelSchedule, ActiveStatus
<1>4. CASE OthersActive(s)
  <2>1. bookingStatus' \in OpenStatus
    BY <1>4 DEF CancelSchedule, SyncAfterClaim, OpenStatus, bookingVars
  <2> QED BY <1>2, <1>3, <2>1, SettledCancel
<1>5. CASE ~OthersActive(s)
  <2>1. bookingStatus' = IF SomeCompleted THEN "COMPLETED" ELSE "CANCELLED"
    BY <1>5 DEF CancelSchedule
  <2>2. \A t \in Sessions \ {s} : sessionStatus[t] \notin ActiveStatus
    BY <1>5 DEF OthersActive
  <2> QED BY <1>2, <1>3, <2>1, <2>2, SettledCancel
<1> QED BY <1>4, <1>5

\* The expiry job closes the booking with the last session it gives up.
LEMMA SettledExpire == TypeOK /\ Settled /\ Expire => SettledStep
<1> SUFFICES ASSUME TypeOK, Settled, Expire PROVE SettledStep
  OBVIOUS
<1> DEFINE gone == StillLate
           unclaimed == IF late # {} THEN {s \in Unclaimed \cup gone : phase[s] >= Grace}
                                     ELSE stale \cap Unclaimed
           missed == IF bookingStatus \in OpenStatus THEN unclaimed ELSE {}
           ends == missed # {} /\ \A s \in Sessions \ missed : sessionStatus[s] \notin ActiveStatus
           fails == ends /\ ~SomeCompleted
           shared == Refund(money, PerSession * Cardinality(missed), missed \X {"missed"})
<1>1. /\ missed \in SUBSET Sessions
      /\ \A s \in missed : sessionStatus[s] = "PENDING"
      /\ \A s \in gone : sessionStatus[s] = "PENDING" /\ worker[s] # NoWorker
      /\ gone \in SUBSET Sessions
      /\ missed # {} => bookingStatus \in OpenStatus
  BY DEF TypeOK, StillLate, Unclaimed
<1>2. /\ DropWorkers(gone) /\ SetSessions(missed, "MISSED")
      /\ money' = IF fails THEN Refund(shared, Total, {<<"booking", "failed">>}) ELSE shared
      /\ bookingStatus' =
            IF fails THEN "FAILED"
            ELSE IF ends THEN "COMPLETED"
            ELSE IF gone # {} /\ bookingStatus = "ASSIGNED" THEN "PENDING"
            ELSE bookingStatus
      /\ UNCHANGED <<method, transfer, lookup>>
  BY DEF Expire
<1>3. PerSession * Cardinality(missed) \in Int /\ missed \X {"missed"} \in SUBSET RefundKeys
  <2> HIDE DEF missed
  <2> QED BY <1>1, CountOfSessions, PerSessionType DEF RefundKeys
<1> HIDE DEF gone, missed
<1>4. shared \in MoneyType /\ ((shared.status = "UNPAID") <=> (money.status = "UNPAID"))
  BY <1>3, RefundType DEF TypeOK
<1>5. (money'.status = "UNPAID") <=> (money.status = "UNPAID")
  <2>1. Total \in Int /\ {<<"booking", "failed">>} \in SUBSET RefundKeys
    BY PriceAssumption DEF RefundKeys
  <2> HIDE DEF fails, shared
  <2> QED BY <1>2, <1>4, <2>1, RefundType
<1> HIDE DEF shared
<1>6. sessionStatus' = [s \in Sessions |-> IF s \in missed THEN "MISSED" ELSE sessionStatus[s]]
  BY <1>2 DEF SetSessions
<1>7. \A s \in Sessions : worker'[s] = worker[s] \/ worker'[s] = NoWorker
  BY <1>2 DEF DropWorkers
<1>8. SomeCompleted' <=> SomeCompleted
  BY <1>1, <1>6 DEF SomeCompleted
<1>9. missed # {} => ~Closed
  BY <1>1 DEF Closed, OpenStatus, ClosedStatus
<1>10. FinalStep
  <2>1. Closed => bookingStatus' = bookingStatus
    BY <1>2, <1>9 DEF Closed, ClosedStatus
  <2> QED BY <1>1, <1>6, <2>1 DEF FinalStep, DoneStatus
<1>11. Closed' => \A s \in Sessions : sessionStatus'[s] \notin ActiveStatus
  <2>1. CASE ends
    BY <1>1, <1>6, <2>1 DEF ActiveStatus
  <2>2. CASE ~ends
    BY <1>2, <1>1, <1>6, <2>2
       DEF Settled, ClosedBookingHasNoActiveSession, Closed, ClosedStatus, ActiveStatus
  <2> QED BY <2>1, <2>2
<1>12. UnpaidIsIdle'
  BY <1>1, <1>2, <1>5, <1>6, <1>7 DEF Settled, UnpaidIsIdle
<1>13. CompletedHasWork' /\ TransferIsBank'
  BY <1>2, <1>8 DEF CompletedHasWork, TransferIsBank, Settled
<1> QED BY <1>10, <1>11, <1>12, <1>13 DEF SettledStep, Settled, ClosedBookingHasNoActiveSession

\* Every step keeps Settled and changes nothing that was final.
LEMMA NextSettled == TypeOK /\ Settled /\ [Next]_vars => SettledStep
<1> SUFFICES ASSUME TypeOK, Settled, [Next]_vars PROVE SettledStep
  OBVIOUS
<1> USE DEF bookingVars, moneyVars, sessionVars, workerVars, raceVars
<1>1. CASE PaymentStep
  BY <1>1, SettledPayment
<1>2. CASE BookingStep
  <2>1. CASE CustomerCancel \/ AdminCancel
    BY <2>1, SettledCancelCore DEF CustomerCancel, AdminCancel
  <2>2. CASE ListLate \/ ListStale
    BY <2>2, SettledUnchanged DEF ListLate, ListStale
  <2>3. CASE Expire
    BY <2>3, SettledExpire
  <2> QED BY <1>2, <2>1, <2>2, <2>3 DEF BookingStep
<1>3. ASSUME NEW w \in Workers, NEW S \in SUBSET Sessions, ClaimPackage(w, S)
      PROVE  SettledStep
  BY <1>3, SettledAccept DEF ClaimPackage
<1>4. ASSUME NEW s \in Sessions, SessionStep(s) PROVE SettledStep
  <2>1. ASSUME NEW w \in Workers, ClaimSchedule(w, s) PROVE SettledStep
    <3>1. {s} \in SUBSET Sessions OBVIOUS
    <3> QED BY <2>1, <3>1, SettledAccept DEF ClaimSchedule
  <2>2. CASE CancelSchedule(s)
    BY <2>2, SettledCancelSchedule
  <2>3. CASE (\E p \in Far..Early : Reschedule(s, p)) \/ Tick(s)
    BY <2>3, SettledUnchanged DEF Reschedule, Tick
  <2>4. CASE \/ CancelAssignment(s) \/ UnassignRead(s)
             \/ UnassignCommit(s) \/ UnassignRollback(s)
    BY <2>4, SettledLeave
  <2>5. CASE \/ \E w \in Workers : LookUp(s, w)
             \/ CheckIn(s) \/ RejectRequest(s)
             \/ CheckOut(s) \/ MissedCheckOut(s) \/ AdminComplete(s)
    BY <2>5, SettledWork
  <2> QED BY <1>4, <2>1, <2>2, <2>3, <2>4, <2>5, Zenon DEF SessionStep
<1>5. CASE UNCHANGED vars
  BY <1>5, SettledUnchanged DEF vars
<1> QED BY <1>1, <1>2, <1>3, <1>4, <1>5 DEF Next

\* The inductive invariant behind the theorems on closed and on unpaid bookings.
THEOREM AlwaysSettled == Spec => []Settled
<1>1. Init => Settled BY InitSettled
<1>2. TypeOK /\ Settled /\ [Next]_vars => Settled' BY NextSettled DEF SettledStep
<1> QED BY <1>1, <1>2, TypeCorrect, PTL DEF Spec

\* A booking that has ended, in whatever way and in whatever races, has no
\* session waiting or being worked on.
THEOREM ClosedHasNoActiveSession == Spec => []ClosedBookingHasNoActiveSession
<1>1. Settled => ClosedBookingHasNoActiveSession BY DEF Settled
<1> QED BY <1>1, AlwaysSettled, PTL

\* Nobody is accepted for, or works on, a booking to be paid online before the
\* money has arrived.
THEOREM UnpaidStaysIdle == Spec => []UnpaidIsIdle
<1>1. Settled => UnpaidIsIdle BY DEF Settled
<1> QED BY <1>1, AlwaysSettled, PTL

\* Refunds stay within the price, and the sessions never contradict the status of the booking
\* nor that of its payment.
THEOREM BookingStaysSafe == Spec => []BookingSafe
<1> QED BY TypeCorrect, ClosedHasNoActiveSession, UnpaidStaysIdle, PTL DEF BookingSafe

\* The status of a closed booking and of a session that is done is final.
THEOREM FinalStaysFinal == Spec => DoneIsFinal
<1>1. TypeOK /\ Settled /\ [Next]_vars => [FinalStep]_vars
  BY NextSettled DEF SettledStep
<1>2. FinalStep =>
          /\ Closed => bookingStatus' = bookingStatus
          /\ \A s \in Sessions : sessionStatus[s] \in DoneStatus =>
                 \/ sessionStatus'[s] = sessionStatus[s]
                 \/ sessionStatus[s] = "MISSED" /\ money.status = "UNPAID"
  BY DEF FinalStep
<1> QED BY <1>1, <1>2, TypeCorrect, AlwaysSettled, PTL DEF Spec, DoneIsFinal

-----------------------------------------------------------------------------
(* The money of a bank transfer *)

\* A webhook was only accepted for a transfer that had been made.
PaidMeansTransferred == method = "BANK_TRANSFER" /\ paidAt => transfer # "none"
MoneyInvariant == MoneyConserved /\ PaidMeansTransferred

\* Before the first transfer there is nothing to account for.
LEMMA InitMoney == Init => MoneyInvariant
<1> SUFFICES ASSUME Init PROVE MoneyInvariant
  OBVIOUS
<1>1. CASE method = "BANK_TRANSFER"
  <2>1. ~paidAt
    <3>1. paidAt = (method = "WALLET") /\ "BANK_TRANSFER" # "WALLET" BY DEF Init
    <3> QED BY <1>1, <3>1, Zenon
  <2>2. returned = 0 /\ money.status = "UNPAID"
    BY <1>1 DEF Init
  <2> QED BY <2>1, <2>2 DEF MoneyInvariant, MoneyConserved, PaidMeansTransferred
<1>2. CASE method # "BANK_TRANSFER"
  BY <1>2 DEF MoneyInvariant, MoneyConserved, PaidMeansTransferred
<1> QED BY <1>1, <1>2

\* Refunds of the booking move money on, they do not undo its payment.
LEMMA MoneyUnchanged ==
    ASSUME MoneyInvariant, UNCHANGED <<method, paidAt, transfer, returned>>,
           (money'.status = "UNPAID") <=> (money.status = "UNPAID")
    PROVE  MoneyInvariant'
BY DEF MoneyInvariant, MoneyConserved, PaidMeansTransferred, Amount

\* Each delivery of a webhook accounts for the transfer it reports, once.
LEMMA MoneyPayment ==
    ASSUME TypeOK, Settled, MoneyInvariant, PaymentStep
    PROVE  MoneyInvariant'
<1>1. /\ Total \in Nat \ {0} /\ Amount(transfer) \in Nat /\ returned \in Nat
      /\ Amount("none") = 0
  BY PriceAssumption DEF Amount, TypeOK
<1>2. ASSUME NEW t \in {"under", "exact", "over"}, Transfer(t) PROVE MoneyInvariant'
  <2>1. ~paidAt
    BY <1>2 DEF Transfer, MoneyInvariant, PaidMeansTransferred
  <2>2. t # "none" /\ UNCHANGED <<money, method, paidAt, returned>> /\ transfer' = t
    BY <1>2 DEF Transfer
  <2> QED BY <2>1, <2>2 DEF MoneyInvariant, MoneyConserved, PaidMeansTransferred
<1>3. ASSUME ~paidAt, transfer # "none"
      PROVE  method = "BANK_TRANSFER" /\ money.status = "UNPAID" /\ returned = 0
  <2>1. method = "BANK_TRANSFER"
    BY <1>3 DEF Settled, TransferIsBank
  <2>2. 0 = returned + (IF money.status = "UNPAID" THEN 0 ELSE Total)
    BY <1>3, <2>1 DEF MoneyInvariant, MoneyConserved
  <2> QED BY <1>1, <2>1, <2>2
<1>4. ASSUME Delivered, paidAt' = TRUE, UNCHANGED <<method, transfer>>,
             \/ money' = money /\ returned' = returned + Amount(transfer)
             \/ money'.status = "PAID" /\ returned' = returned + (Amount(transfer) - Total)
      PROVE  MoneyInvariant'
  <2>1. /\ method = "BANK_TRANSFER" /\ money.status = "UNPAID" /\ returned = 0
        /\ transfer # "none"
    BY <1>3, <1>4 DEF Delivered
  <2>2. Amount(transfer') = Amount(transfer)
    BY <1>4
  <2>3. Amount(transfer') = returned' + (IF money'.status = "UNPAID" THEN 0 ELSE Total)
    <3>1. CASE money' = money /\ returned' = returned + Amount(transfer)
      BY <1>1, <2>1, <2>2, <3>1
    <3>2. CASE money'.status = "PAID" /\ returned' = returned + (Amount(transfer) - Total)
      BY <1>1, <2>1, <2>2, <3>2
    <3> QED BY <1>4, <3>1, <3>2
  <2>4. MoneyConserved'
    BY <1>4, <2>3 DEF MoneyConserved
  <2>5. PaidMeansTransferred'
    BY <1>4, <2>1 DEF PaidMeansTransferred
  <2> QED BY <2>4, <2>5 DEF MoneyInvariant
<1>5. CASE WebhookLate
  BY <1>4, <1>5 DEF WebhookLate
<1>6. CASE WebhookUnder
  BY <1>4, <1>6 DEF WebhookUnder
<1>7. CASE WebhookPaid
  <2>1. money'.status = "PAID"
    BY <1>7 DEF WebhookPaid, TypeOK, MoneyType
  <2> QED BY <1>4, <1>7, <2>1 DEF WebhookPaid
<1>8. CASE ExpireUnpaid
  BY <1>8, MoneyUnchanged DEF ExpireUnpaid
<1>9. CASE ConfirmCash
  BY <1>9 DEF ConfirmCash, MoneyInvariant, MoneyConserved, PaidMeansTransferred
<1> QED BY <1>2, <1>5, <1>6, <1>7, <1>8, <1>9 DEF PaymentStep

\* The three handlers that refund the booking.
LEMMA RefundStepMoney ==
    ASSUME TypeOK, \/ CancelCore \/ Expire \/ \E s \in Sessions : CancelSchedule(s)
    PROVE  /\ (money'.status = "UNPAID") <=> (money.status = "UNPAID")
           /\ UNCHANGED <<method, paidAt, transfer, returned>>
<1>1. Total \in Int /\ PerSession \in Int /\ money \in MoneyType
      /\ {<<"booking", "cancel">>} \in SUBSET RefundKeys
      /\ {<<"booking", "failed">>} \in SUBSET RefundKeys
  BY PriceAssumption, PerSessionType DEF TypeOK, RefundKeys
<1>2. CASE CancelCore
  <2> DEFINE toCancel == {s \in Sessions : sessionStatus[s] \notin DoneStatus}
             amount == IF SomeCompleted THEN PerSession * Cardinality(toCancel) ELSE Total
  <2>1. toCancel \in SUBSET Sessions /\ amount \in Int
    BY <1>1, CountOfSessions
  <2>2. money' = Refund(money, amount, {<<"booking", "cancel">>})
        /\ UNCHANGED <<method, paidAt, transfer, returned>>
    BY <1>2 DEF CancelCore
  <2> HIDE DEF amount
  <2> QED BY <1>1, <2>1, <2>2, RefundType
<1>3. ASSUME NEW s \in Sessions, CancelSchedule(s)
      PROVE  /\ (money'.status = "UNPAID") <=> (money.status = "UNPAID")
             /\ UNCHANGED <<method, paidAt, transfer, returned>>
  <2> DEFINE amount == IF ~OthersActive(s) /\ ~SomeCompleted THEN Total ELSE PerSession
  <2>1. amount \in Int /\ {<<s, "cancel">>} \in SUBSET RefundKeys
    BY <1>1 DEF RefundKeys
  <2>2. money' = Refund(money, amount, {<<s, "cancel">>})
        /\ UNCHANGED <<method, paidAt, transfer, returned>>
    BY <1>3 DEF CancelSchedule
  <2> HIDE DEF amount
  <2> QED BY <1>1, <2>1, <2>2, RefundType
<1>4. CASE Expire
  <2>1. PICK missed \in SUBSET Sessions, fails \in BOOLEAN :
            LET shared == Refund(money, PerSession * Cardinality(missed), missed \X {"missed"})
            IN  money' = IF fails THEN Refund(shared, Total, {<<"booking", "failed">>})
                                  ELSE shared
    <3> DEFINE unclaimed == IF late # {} THEN {s \in Unclaimed \cup StillLate : phase[s] >= Grace}
                                         ELSE stale \cap Unclaimed
               missed == IF bookingStatus \in OpenStatus THEN unclaimed ELSE {}
               ends == missed # {}
                         /\ \A s \in Sessions \ missed : sessionStatus[s] \notin ActiveStatus
               fails == ends /\ ~SomeCompleted
               shared == Refund(money, PerSession * Cardinality(missed), missed \X {"missed"})
    <3>1. missed \in SUBSET Sessions
      BY DEF TypeOK, StillLate, Unclaimed
    <3>2. fails \in BOOLEAN
      OBVIOUS
    <3>3. money' = IF fails THEN Refund(shared, Total, {<<"booking", "failed">>}) ELSE shared
      BY <1>4 DEF Expire
    <3> HIDE DEF missed, fails
    <3> QED BY <3>1, <3>2, <3>3
  <2> DEFINE shared == Refund(money, PerSession * Cardinality(missed), missed \X {"missed"})
  <2>2. PerSession * Cardinality(missed) \in Int /\ missed \X {"missed"} \in SUBSET RefundKeys
    BY <1>1, <2>1, CountOfSessions DEF RefundKeys
  <2>3. shared \in MoneyType /\ ((shared.status = "UNPAID") <=> (money.status = "UNPAID"))
    BY <1>1, <2>2, RefundType
  <2>4. money' = IF fails THEN Refund(shared, Total, {<<"booking", "failed">>}) ELSE shared
    BY <2>1
  <2>5. UNCHANGED <<method, paidAt, transfer, returned>>
    BY <1>4 DEF Expire
  <2> HIDE DEF shared
  <2> QED BY <1>1, <2>3, <2>4, <2>5, RefundType
<1> QED BY <1>2, <1>3, <1>4

\* Every step keeps account of the transfer.
LEMMA NextMoney == TypeOK /\ Settled /\ MoneyInvariant /\ [Next]_vars => MoneyInvariant'
<1> SUFFICES ASSUME TypeOK, Settled, MoneyInvariant, [Next]_vars PROVE MoneyInvariant'
  OBVIOUS
<1> USE DEF moneyVars
<1>1. CASE PaymentStep
  BY <1>1, MoneyPayment
<1>2. CASE CustomerCancel \/ AdminCancel \/ Expire \/ \E s \in Sessions : CancelSchedule(s)
  BY <1>2, RefundStepMoney, MoneyUnchanged DEF CustomerCancel, AdminCancel
<1>3. ASSUME UNCHANGED moneyVars PROVE MoneyInvariant'
  BY <1>3, MoneyUnchanged
<1>4. ListLate \/ ListStale => UNCHANGED moneyVars
  BY DEF ListLate, ListStale
<1>5. ASSUME NEW w \in Workers, NEW S \in SUBSET Sessions, Accept(w, S)
      PROVE  UNCHANGED moneyVars
  BY <1>5 DEF Accept
<1>6. ASSUME NEW s \in Sessions, SessionStep(s), ~CancelSchedule(s)
      PROVE  UNCHANGED moneyVars
  <2>1. ASSUME NEW w, ClaimSchedule(w, s) \/ LookUp(s, w) PROVE UNCHANGED moneyVars
    BY <2>1 DEF ClaimSchedule, Accept, LookUp
  <2>2. CASE \/ CancelAssignment(s) \/ UnassignRead(s)
             \/ UnassignCommit(s) \/ UnassignRollback(s)
    BY <2>2 DEF CancelAssignment, UnassignRead, UnassignCommit, UnassignRollback, RemoveWorker
  <2>3. CASE CheckIn(s) \/ RejectRequest(s)
    BY <2>3 DEF CheckIn, RejectRequest
  <2>4. CASE CheckOut(s) \/ MissedCheckOut(s) \/ AdminComplete(s)
    BY <2>4 DEF CheckOut, MissedCheckOut, AdminComplete, CompleteForWorker, Complete
  <2>5. CASE (\E p \in Far..Early : Reschedule(s, p)) \/ Tick(s)
    BY <2>5 DEF Reschedule, Tick
  <2> QED BY <1>6, <2>1, <2>2, <2>3, <2>4, <2>5, Zenon DEF SessionStep
<1>7. CASE UNCHANGED vars
  BY <1>3, <1>7 DEF vars
<1> QED BY <1>1, <1>2, <1>3, <1>4, <1>5, <1>6, <1>7, Zenon
        DEF Next, BookingStep, ClaimPackage

\* No delivery of a webhook, however late or often repeated, makes money of a
\* bank transfer vanish or appear.
THEOREM TransferMoneyConserved == Spec => []MoneyConserved
<1>1. Init => MoneyInvariant BY InitMoney
<1>2. TypeOK /\ Settled /\ MoneyInvariant /\ [Next]_vars => MoneyInvariant' BY NextMoney
<1>3. MoneyInvariant => MoneyConserved BY DEF MoneyInvariant
<1> QED BY <1>1, <1>2, <1>3, TypeCorrect, AlwaysSettled, PTL DEF Spec

-----------------------------------------------------------------------------
(* What the expiry job and a cancelled booking do, in one formula each. *)

\* The unclaimed sessions close the booking when nothing is left to do.
Ends(missed) == missed # {} /\ \A s \in Sessions \ missed : sessionStatus[s] \notin ActiveStatus
Fails(missed) == Ends(missed) /\ ~SomeCompleted
Shared(missed) == Refund(money, PerSession * Cardinality(missed), missed \X {"missed"})

\* The job removes the workers of gone and marks missed.
ExpireOf(gone, missed) ==
    /\ \A s \in gone : sessionStatus[s] = "PENDING" /\ worker[s] # NoWorker
    /\ \A s \in missed : sessionStatus[s] = "PENDING" /\ (worker[s] = NoWorker \/ s \in gone)
    /\ missed # {} => bookingStatus \in OpenStatus
    /\ ReleaseCommission(gone) /\ DropWorkers(gone) /\ SetSessions(missed, "MISSED")
    /\ money' = IF Fails(missed) THEN Refund(Shared(missed), Total, {<<"booking", "failed">>})
                                 ELSE Shared(missed)
    /\ payment' = PaymentAfterRefund(
                      IF Fails(missed) THEN ClosePendingPayment(payment) ELSE payment, money')
    /\ bookingStatus' =
          IF Fails(missed) THEN "FAILED"
          ELSE IF Ends(missed) THEN "COMPLETED"
          ELSE IF gone # {} /\ bookingStatus = "ASSIGNED" THEN "PENDING"
          ELSE bookingStatus
    /\ voucher' = IF Fails(missed) THEN Release(voucher) ELSE voucher
    /\ UNCHANGED <<method, paidAt, transfer, returned, earning, settled, raced>>

\* Every run of the job is of this form.
LEMMA ExpireForm ==
    ASSUME TypeOK, Expire
    PROVE  \E gone, missed \in SUBSET Sessions : ExpireOf(gone, missed)
<1> DEFINE gone == StillLate
           unclaimed == IF late # {} THEN {s \in Unclaimed \cup gone : phase[s] >= Grace}
                                     ELSE stale \cap Unclaimed
           missed == IF bookingStatus \in OpenStatus THEN unclaimed ELSE {}
<1>1. gone \in SUBSET Sessions /\ missed \in SUBSET Sessions
  BY DEF TypeOK, StillLate, Unclaimed
<1>2. /\ \A s \in gone : sessionStatus[s] = "PENDING" /\ worker[s] # NoWorker
      /\ \A s \in missed : sessionStatus[s] = "PENDING" /\ (worker[s] = NoWorker \/ s \in gone)
      /\ missed # {} => bookingStatus \in OpenStatus
  BY DEF StillLate, Unclaimed
<1>3. ExpireOf(gone, missed)
  BY <1>2 DEF ExpireOf, Expire, Ends, Fails, Shared
<1> HIDE DEF gone, missed
<1> QED BY <1>1, <1>3

-----------------------------------------------------------------------------
(* An open booking can still move *)

\* Nobody comes or goes, and no session changes.
LEMMA StaffedUnchanged ==
    ASSUME OpenIsStaffed, UNCHANGED <<bookingStatus, sessionStatus, worker>>, raced' = raced
    PROVE  OpenIsStaffed'
BY DEF OpenIsStaffed, AssignedIsCovered, InProgressHasWorker, OpenHasActiveSession, Closed

\* Once the booking is closed it is settled, and the rest does not concern it.
LEMMA StaffedClosed ==
    ASSUME Settled', Closed'
    PROVE  OpenIsStaffed'
BY DEF OpenIsStaffed, AssignedIsCovered, InProgressHasWorker, OpenHasActiveSession, Closed,
       ClosedStatus, Settled, ClosedBookingHasNoActiveSession, ActiveStatus

\* Sessions that wait lose their worker, and the booking looks for one again.
LEMMA StaffedRemoved ==
    ASSUME TypeOK, OpenIsStaffed, NEW s \in Sessions, sessionStatus[s] = "PENDING",
           DropWorkers({s}), sessionStatus' = sessionStatus,
           ~raced' => ~raced /\ bookingStatus' = IF bookingStatus = "ASSIGNED" THEN "PENDING"
                                                                               ELSE bookingStatus
    PROVE  OpenIsStaffed'
<1>1. \A t \in Sessions : worker'[t] = IF t = s THEN NoWorker ELSE worker[t]
  BY DEF DropWorkers
<1> QED BY <1>1
    DEF OpenIsStaffed, AssignedIsCovered, InProgressHasWorker, OpenHasActiveSession, Closed,
        ClosedStatus

\* A claim gives sessions a worker and takes none away.
LEMMA StaffedAccept ==
    ASSUME TypeOK, OpenIsStaffed, NEW w \in Workers, NEW S \in SUBSET Sessions, Accept(w, S)
    PROVE  OpenIsStaffed'
<1>1. /\ worker' = [s \in Sessions |-> IF s \in S THEN w ELSE worker[s]]
      /\ UNCHANGED <<sessionStatus, raced>>
  BY DEF Accept, raceVars
<1>2. \A s \in Sessions : worker[s] # NoWorker => worker'[s] # NoWorker
  BY <1>1, WorkersAssumption
<1>3. \/ bookingStatus' = bookingStatus
      \/ bookingStatus = "PENDING" /\ bookingStatus' = "ASSIGNED" /\ Covered(sessionStatus', worker')
  BY DEF Accept, SyncAfterClaim, bookingVars
<1> QED BY <1>1, <1>2, <1>3
    DEF OpenIsStaffed, AssignedIsCovered, InProgressHasWorker, OpenHasActiveSession, Closed,
        ClosedStatus, Covered

\* The session done was in progress, so its booking was: the last one closes it.
LEMMA StaffedComplete ==
    ASSUME TypeOK, OpenIsStaffed, NEW s \in Sessions, NEW w, NEW enough, Complete(s, w, enough),
           ~raced' => ~raced
    PROVE  OpenIsStaffed'
<1>1. /\ sessionStatus[s] = "IN_PROGRESS"
      /\ sessionStatus' = [t \in Sessions |-> IF t \in {s} THEN "COMPLETED" ELSE sessionStatus[t]]
      /\ bookingStatus' = IF ~OthersActive(s) /\ bookingStatus = "IN_PROGRESS"
                          THEN "COMPLETED" ELSE bookingStatus
      /\ worker' = worker
  BY DEF Complete, SetSessions
<1> SUFFICES ASSUME ~raced' PROVE OpenIsStaffed'
  BY DEF OpenIsStaffed, AssignedIsCovered, InProgressHasWorker, OpenHasActiveSession
<1>2. ~raced /\ bookingStatus = "IN_PROGRESS"
  BY <1>1 DEF OpenIsStaffed, InProgressHasWorker
<1>3. CASE OthersActive(s)
  BY <1>1, <1>2, <1>3
     DEF OpenIsStaffed, AssignedIsCovered, InProgressHasWorker, OpenHasActiveSession, Closed,
         ClosedStatus, OthersActive
<1>4. CASE ~OthersActive(s)
  BY <1>1, <1>2, <1>4
     DEF OpenIsStaffed, AssignedIsCovered, InProgressHasWorker, OpenHasActiveSession, Closed,
         ClosedStatus, OthersActive, ActiveStatus
<1> QED BY <1>3, <1>4

\* A request of a worker who has lost the session since its lookup is raced.
LEMMA StaffedWork ==
    ASSUME TypeOK, OpenIsStaffed, NEW s \in Sessions,
           \/ \E w \in Workers : LookUp(s, w)
           \/ CheckIn(s) \/ RejectRequest(s)
           \/ CheckOut(s) \/ MissedCheckOut(s) \/ AdminComplete(s)
    PROVE  OpenIsStaffed'
<1>1. ASSUME NEW w, LookUp(s, w) \/ RejectRequest(s) PROVE OpenIsStaffed'
  BY <1>1, StaffedUnchanged DEF LookUp, RejectRequest, bookingVars, sessionVars, workerVars
<1>2. CASE CheckIn(s)
  <2>1. /\ sessionStatus[s] = "PENDING" /\ lookup[s] # NoWorker
        /\ sessionStatus' = [t \in Sessions |->
                                IF t \in {s} THEN "IN_PROGRESS" ELSE sessionStatus[t]]
        /\ bookingStatus' = "IN_PROGRESS" /\ bookingStatus \in OpenStatus
        /\ worker' = worker /\ raced' = (raced \/ worker[s] # lookup[s])
    BY <1>2 DEF CheckIn, SetSessions, EndRequest, workerVars
  <2>2. \A t \in Sessions : ~raced' /\ sessionStatus'[t] = "IN_PROGRESS" => worker'[t] # NoWorker
    BY <2>1 DEF OpenIsStaffed, InProgressHasWorker
  <2>3. sessionStatus'[s] \in ActiveStatus
    BY <2>1 DEF ActiveStatus
  <2> QED BY <2>1, <2>2, <2>3
      DEF OpenIsStaffed, AssignedIsCovered, InProgressHasWorker, OpenHasActiveSession
<1>3. CASE CheckOut(s)
  BY <1>3, StaffedComplete DEF CheckOut, EndRequest
<1>4. CASE MissedCheckOut(s) \/ AdminComplete(s)
  BY <1>4, StaffedComplete DEF MissedCheckOut, AdminComplete, CompleteForWorker, raceVars
<1> QED BY <1>1, <1>2, <1>3, <1>4

\* One session is cancelled: the others keep theirs.
LEMMA StaffedCancelSchedule ==
    ASSUME TypeOK, OpenIsStaffed, Settled', NEW s \in Sessions, CancelSchedule(s)
    PROVE  OpenIsStaffed'
<1>1. /\ sessionStatus[s] = "PENDING"
      /\ sessionStatus' = [t \in Sessions |-> IF t \in {s} THEN "CANCELLED" ELSE sessionStatus[t]]
      /\ worker' = [t \in Sessions |-> IF t \in {s} THEN NoWorker ELSE worker[t]]
      /\ raced' = raced
  BY DEF CancelSchedule, SetSessions, DropWorkers
<1>2. CASE OthersActive(s)
  <2>1. \/ bookingStatus' = bookingStatus
        \/ bookingStatus = "PENDING" /\ bookingStatus' = "ASSIGNED"
             /\ Covered(sessionStatus', worker')
    BY <1>2 DEF CancelSchedule, SyncAfterClaim, bookingVars
  <2> QED BY <1>1, <1>2, <2>1
      DEF OpenIsStaffed, AssignedIsCovered, InProgressHasWorker, OpenHasActiveSession, Closed,
          ClosedStatus, Covered, OthersActive
<1>3. CASE ~OthersActive(s)
  BY <1>3, StaffedClosed DEF CancelSchedule, Closed, ClosedStatus
<1> QED BY <1>2, <1>3

\* The job closes the booking with the last session, and where it removes a worker the
\* booking looks for one again.
LEMMA StaffedExpire ==
    ASSUME TypeOK, OpenIsStaffed, Settled', Expire
    PROVE  OpenIsStaffed'
<1>1. PICK gone, missed \in SUBSET Sessions : ExpireOf(gone, missed)
  BY ExpireForm
<1>2. CASE Ends(missed)
  BY <1>1, <1>2, StaffedClosed DEF ExpireOf, Closed, ClosedStatus
<1>3. CASE ~Ends(missed)
  <2>1. /\ \A t \in Sessions : worker'[t] = IF t \in gone THEN NoWorker ELSE worker[t]
        /\ \A t \in Sessions : sessionStatus'[t] = IF t \in missed THEN "MISSED" ELSE sessionStatus[t]
        /\ bookingStatus' = IF gone # {} /\ bookingStatus = "ASSIGNED" THEN "PENDING"
                                                                      ELSE bookingStatus
        /\ raced' = raced
        /\ \A s \in gone \cup missed : sessionStatus[s] = "PENDING"
        /\ \A s \in missed : worker[s] = NoWorker \/ s \in gone
    BY <1>1, <1>3 DEF ExpireOf, DropWorkers, SetSessions, Fails
  <2>2. (\E s \in Sessions : sessionStatus[s] \in ActiveStatus)
           => \E s \in Sessions : sessionStatus'[s] \in ActiveStatus
    BY <1>3, <2>1 DEF Ends
  <2>3. AssignedIsCovered'
    BY <2>1 DEF OpenIsStaffed, AssignedIsCovered
  <2>4. InProgressHasWorker' /\ OpenHasActiveSession'
    BY <2>1, <2>2 DEF OpenIsStaffed, InProgressHasWorker, OpenHasActiveSession, Closed, ClosedStatus
  <2> QED BY <2>3, <2>4 DEF OpenIsStaffed
<1> QED BY <1>2, <1>3

\* No step but one that acts on an out-of-date value leaves a session without its worker.
LEMMA NextStaffed == TypeOK /\ Settled /\ OpenIsStaffed /\ [Next]_vars => OpenIsStaffed'
<1> SUFFICES ASSUME TypeOK, Settled, OpenIsStaffed, [Next]_vars PROVE OpenIsStaffed'
  OBVIOUS
<1>1. Settled'
  BY NextSettled DEF SettledStep
<1> USE DEF bookingVars, moneyVars, sessionVars, workerVars, raceVars
<1>2. CASE PaymentStep
  <2>1. CASE \/ \E t \in {"under", "exact", "over"} : Transfer(t)
             \/ WebhookLate \/ WebhookPaid \/ ConfirmCash
    BY <2>1, StaffedUnchanged DEF Transfer, WebhookLate, WebhookPaid, ConfirmCash
  <2>2. CASE WebhookUnder \/ ExpireUnpaid
    BY <2>2, <1>1, StaffedClosed
       DEF WebhookUnder, ExpireUnpaid, CancelUnpaid, Closed, ClosedStatus
  <2> QED BY <1>2, <2>1, <2>2 DEF PaymentStep
<1>3. CASE BookingStep
  <2>1. CASE CustomerCancel \/ AdminCancel
    BY <2>1, <1>1, StaffedClosed DEF CustomerCancel, AdminCancel, CancelCore, Closed, ClosedStatus
  <2>2. CASE ListLate \/ ListStale
    BY <2>2, StaffedUnchanged DEF ListLate, ListStale
  <2>3. CASE Expire
    BY <2>3, <1>1, StaffedExpire
  <2> QED BY <1>3, <2>1, <2>2, <2>3 DEF BookingStep
<1>4. ASSUME NEW w \in Workers, NEW S \in SUBSET Sessions, ClaimPackage(w, S)
      PROVE  OpenIsStaffed'
  BY <1>4, StaffedAccept DEF ClaimPackage
<1>5. ASSUME NEW s \in Sessions, SessionStep(s) PROVE OpenIsStaffed'
  <2>1. ASSUME NEW w \in Workers, ClaimSchedule(w, s) PROVE OpenIsStaffed'
    <3>1. {s} \in SUBSET Sessions OBVIOUS
    <3> QED BY <2>1, <3>1, StaffedAccept DEF ClaimSchedule
  <2>2. CASE CancelSchedule(s)
    BY <2>2, <1>1, StaffedCancelSchedule
  <2>3. CASE \/ (\E p \in Far..Early : Reschedule(s, p)) \/ Tick(s)
             \/ UnassignRead(s) \/ UnassignRollback(s)
    BY <2>3, StaffedUnchanged DEF Reschedule, Tick, UnassignRead, UnassignRollback
  <2>4. CASE CancelAssignment(s)
    BY <2>4, StaffedRemoved DEF CancelAssignment, RemoveWorker
  <2>5. CASE UnassignCommit(s)
    <3>1. ~raced' => ~raced /\ bookingStatus' = IF bookingStatus = "ASSIGNED" THEN "PENDING"
                                                                             ELSE bookingStatus
      BY <2>5 DEF UnassignCommit
    <3> QED BY <2>5, <3>1, StaffedRemoved DEF UnassignCommit, RemoveWorker
  <2>6. CASE \/ \E w \in Workers : LookUp(s, w)
             \/ CheckIn(s) \/ RejectRequest(s)
             \/ CheckOut(s) \/ MissedCheckOut(s) \/ AdminComplete(s)
    BY <2>6, StaffedWork
  <2> QED BY <1>5, <2>1, <2>2, <2>3, <2>4, <2>5, <2>6, Zenon DEF SessionStep
<1>6. CASE UNCHANGED vars
  BY <1>6, StaffedUnchanged DEF vars
<1> QED BY <1>2, <1>3, <1>4, <1>5, <1>6 DEF Next

\* An ASSIGNED booking has a worker for each session, a session in progress has one, and an
\* open booking has a session left, unless a handler acted on an out-of-date value.
THEOREM OpenStaysStaffed == Spec => []OpenIsStaffed
<1>1. Init => OpenIsStaffed
  BY SessionsAssumption
     DEF Init, OpenIsStaffed, AssignedIsCovered, InProgressHasWorker, OpenHasActiveSession,
         ActiveStatus
<1>2. TypeOK /\ Settled /\ OpenIsStaffed /\ [Next]_vars => OpenIsStaffed'
  BY NextStaffed
<1> QED BY <1>1, <1>2, TypeCorrect, AlwaysSettled, PTL DEF Spec

-----------------------------------------------------------------------------
(* The voucher *)

\* Work that was begun has used the voucher up; so the end of the booking finds it as
\* VoucherFollowsWork says.
WorkUsesVoucher ==
    (\E s \in Sessions : sessionStatus[s] \in {"IN_PROGRESS", "COMPLETED"}) => voucher \in {"NONE", "USED"}
VoucherInvariant == VoucherFollowsWork /\ WorkUsesVoucher

\* Neither the voucher nor what it follows changes.
LEMMA VoucherUnchanged ==
    ASSUME VoucherInvariant, UNCHANGED <<bookingStatus, sessionStatus, voucher>>
    PROVE  VoucherInvariant'
BY DEF VoucherInvariant, VoucherFollowsWork, WorkUsesVoucher, SomeCompleted, Closed

\* While the booking is open, the voucher may be marked as used at any time.
LEMMA VoucherOpen ==
    ASSUME VoucherInvariant, bookingStatus' \in OpenStatus, sessionStatus' = sessionStatus,
           voucher' = voucher \/ voucher' = MarkUsed(voucher)
    PROVE  VoucherInvariant'
BY DEF VoucherInvariant, VoucherFollowsWork, WorkUsesVoucher, Closed, OpenStatus, ClosedStatus, MarkUsed

\* Sessions are dropped; the last one closes the booking, and without work the voucher is
\* given back.
LEMMA VoucherDropped ==
    ASSUME TypeOK, VoucherInvariant, NEW S \in SUBSET Sessions, NEW status \in {"CANCELLED", "MISSED"},
           SetSessions(S, status), \A s \in S : sessionStatus[s] # "COMPLETED",
           \/ bookingStatus' \in OpenStatus /\ voucher' \in {voucher, MarkUsed(voucher)}
           \/ UNCHANGED <<bookingStatus, voucher>>
           \/ /\ voucher' = IF SomeCompleted THEN voucher ELSE Release(voucher)
              /\ \A s \in Sessions : sessionStatus'[s] # "IN_PROGRESS"
    PROVE  VoucherInvariant'
<1>1. \A s \in Sessions : sessionStatus'[s] = IF s \in S THEN status ELSE sessionStatus[s]
  BY DEF SetSessions
<1>2. SomeCompleted' <=> SomeCompleted
  BY <1>1 DEF SomeCompleted
<1>3. (\E s \in Sessions : sessionStatus'[s] = "IN_PROGRESS")
          => \E s \in Sessions : sessionStatus[s] = "IN_PROGRESS"
  BY <1>1
<1>4. CASE bookingStatus' \in OpenStatus /\ voucher' \in {voucher, MarkUsed(voucher)}
  BY <1>2, <1>3, <1>4
     DEF VoucherInvariant, VoucherFollowsWork, WorkUsesVoucher, Closed, OpenStatus, ClosedStatus,
         MarkUsed, SomeCompleted
<1>5. CASE UNCHANGED <<bookingStatus, voucher>>
  BY <1>2, <1>3, <1>5
     DEF VoucherInvariant, VoucherFollowsWork, WorkUsesVoucher, Closed, SomeCompleted
<1>6. CASE /\ voucher' = IF SomeCompleted THEN voucher ELSE Release(voucher)
           /\ \A s \in Sessions : sessionStatus'[s] # "IN_PROGRESS"
  BY <1>2, <1>6
     DEF VoucherInvariant, VoucherFollowsWork, WorkUsesVoucher, SomeCompleted, Release
<1> QED BY <1>4, <1>5, <1>6

\* A payment marks the voucher used while the booking is open; an unpaid booking that is
\* cancelled gives it back.
LEMMA VoucherPayment ==
    ASSUME TypeOK, Settled, VoucherInvariant, PaymentStep
    PROVE  VoucherInvariant'
<1> USE DEF bookingVars, sessionVars
<1>1. CASE \/ \E t \in {"under", "exact", "over"} : Transfer(t)
           \/ WebhookLate \/ ConfirmCash
  BY <1>1, VoucherUnchanged DEF Transfer, WebhookLate, ConfirmCash
<1>2. CASE WebhookPaid
  <2>1. bookingStatus \in OpenStatus
    <3>1. method = "BANK_TRANSFER" /\ money.status = "UNPAID"
      BY <1>2 DEF WebhookPaid, Delivered, TooLate, Settled, TransferIsBank
    <3>2. bookingStatus # "COMPLETED"
      BY <3>1 DEF Settled, UnpaidIsIdle, CompletedHasWork, SomeCompleted
    <3> QED BY <1>2, <3>2 DEF WebhookPaid, TooLate, TypeOK, ClosedStatus
  <2> QED BY <1>2, <2>1, VoucherOpen DEF WebhookPaid
<1>3. ASSUME NEW p, CancelUnpaid(p), money.status = "UNPAID", method = "BANK_TRANSFER"
      PROVE  VoucherInvariant'
  <2> DEFINE dropped == {s \in Sessions : sessionStatus[s] \notin {"COMPLETED", "CANCELLED"}}
  <2>1. /\ SetSessions(dropped, "CANCELLED") /\ voucher' = Release(voucher)
        /\ dropped \in SUBSET Sessions
    BY <1>3 DEF CancelUnpaid
  <2>2. \A s \in Sessions : sessionStatus[s] \notin {"IN_PROGRESS", "COMPLETED"}
    BY <1>3 DEF Settled, UnpaidIsIdle
  <2>3. ~SomeCompleted /\ \A s \in Sessions : sessionStatus'[s] # "IN_PROGRESS"
    BY <2>1, <2>2 DEF SetSessions, SomeCompleted
  <2> HIDE DEF dropped
  <2> QED BY <2>1, <2>2, <2>3, VoucherDropped
<1>4. CASE WebhookUnder
  BY <1>3, <1>4 DEF WebhookUnder, TooLate, Delivered, Settled, TransferIsBank
<1>5. CASE ExpireUnpaid
  BY <1>3, <1>5 DEF ExpireUnpaid
<1> QED BY <1>1, <1>2, <1>4, <1>5 DEF PaymentStep

\* The handlers that drop sessions give the voucher back when no work was done.
LEMMA VoucherCancelled ==
    ASSUME TypeOK, VoucherInvariant,
           CancelCore \/ Expire \/ \E s \in Sessions : CancelSchedule(s)
    PROVE  VoucherInvariant'
<1>1. CASE CancelCore
  <2> DEFINE toCancel == {s \in Sessions : sessionStatus[s] \notin DoneStatus}
  <2>1. /\ SetSessions(toCancel, "CANCELLED") /\ toCancel \in SUBSET Sessions
        /\ \A s \in Sessions : sessionStatus[s] # "IN_PROGRESS"
        /\ voucher' = IF SomeCompleted THEN voucher ELSE Release(voucher)
        /\ \A s \in toCancel : sessionStatus[s] # "COMPLETED"
    BY <1>1 DEF CancelCore, DoneStatus
  <2>2. \A s \in Sessions : sessionStatus'[s] # "IN_PROGRESS"
    BY <2>1 DEF SetSessions
  <2> HIDE DEF toCancel
  <2> QED BY <2>1, <2>2, VoucherDropped
<1>2. ASSUME NEW s \in Sessions, CancelSchedule(s) PROVE VoucherInvariant'
  <2>1. /\ SetSessions({s}, "CANCELLED") /\ sessionStatus[s] = "PENDING"
        /\ {s} \in SUBSET Sessions /\ bookingStatus \in OpenStatus
    BY <1>2 DEF CancelSchedule
  <2>2. CASE OthersActive(s)
    <3>1. bookingStatus' \in OpenStatus /\ voucher' \in {voucher, MarkUsed(voucher)}
      BY <1>2, <2>1, <2>2 DEF CancelSchedule, SyncAfterClaim, bookingVars, OpenStatus
    <3> QED BY <2>1, <3>1, VoucherDropped
  <2>3. CASE ~OthersActive(s)
    <3>1. voucher' = IF SomeCompleted THEN voucher ELSE Release(voucher)
      BY <1>2, <2>3 DEF CancelSchedule
    <3>2. \A t \in Sessions : sessionStatus'[t] # "IN_PROGRESS"
      BY <2>1, <2>3 DEF SetSessions, OthersActive, ActiveStatus
    <3> QED BY <2>1, <3>1, <3>2, VoucherDropped
  <2> QED BY <2>2, <2>3
<1>3. CASE Expire
  <2>1. PICK gone, missed \in SUBSET Sessions : ExpireOf(gone, missed)
    BY <1>3, ExpireForm
  <2>2. SetSessions(missed, "MISSED") /\ \A s \in missed : sessionStatus[s] = "PENDING"
    BY <2>1 DEF ExpireOf
  <2>3. CASE Ends(missed)
    <3>1. voucher' = IF SomeCompleted THEN voucher ELSE Release(voucher)
      BY <2>1, <2>3 DEF ExpireOf, Fails
    <3>2. \A t \in Sessions : sessionStatus'[t] # "IN_PROGRESS"
      BY <2>2, <2>3 DEF SetSessions, Ends, ActiveStatus
    <3> QED BY <2>2, <3>1, <3>2, VoucherDropped
  <2>4. CASE ~Ends(missed)
    <3>1. \/ bookingStatus' \in OpenStatus /\ voucher' \in {voucher, MarkUsed(voucher)}
          \/ UNCHANGED <<bookingStatus, voucher>>
      BY <2>1, <2>4 DEF ExpireOf, Fails, OpenStatus
    <3> QED BY <2>2, <3>1, VoucherDropped
  <2> QED BY <2>3, <2>4
<1> QED BY <1>1, <1>2, <1>3

\* Work begins with the voucher used, and the last session done leaves it so.
LEMMA VoucherWork ==
    ASSUME TypeOK, Settled, VoucherInvariant, NEW s \in Sessions,
           CheckIn(s) \/ CheckOut(s) \/ MissedCheckOut(s) \/ AdminComplete(s)
    PROVE  VoucherInvariant'
<1>1. CASE CheckIn(s)
  <2>1. voucher' = MarkUsed(voucher) /\ bookingStatus' = "IN_PROGRESS"
    BY <1>1 DEF CheckIn
  <2> QED BY <2>1
      DEF VoucherInvariant, VoucherFollowsWork, WorkUsesVoucher, Closed, ClosedStatus, MarkUsed
<1>2. ASSUME NEW w, NEW enough, Complete(s, w, enough) PROVE VoucherInvariant'
  <2>1. sessionStatus[s] = "IN_PROGRESS" /\ voucher' = voucher
        /\ sessionStatus'[s] = "COMPLETED"
    BY <1>2 DEF Complete, SetSessions
  <2>2. voucher \in {"NONE", "USED"} /\ SomeCompleted'
    BY <2>1 DEF VoucherInvariant, WorkUsesVoucher, SomeCompleted
  <2> QED BY <2>1, <2>2 DEF VoucherInvariant, VoucherFollowsWork, WorkUsesVoucher
<1> QED BY <1>1, <1>2 DEF CheckOut, MissedCheckOut, AdminComplete, CompleteForWorker

\* Every step keeps the voucher with the work.
LEMMA NextVoucher == TypeOK /\ Settled /\ VoucherInvariant /\ [Next]_vars => VoucherInvariant'
<1> SUFFICES ASSUME TypeOK, Settled, VoucherInvariant, [Next]_vars PROVE VoucherInvariant'
  OBVIOUS
<1> USE DEF bookingVars, sessionVars
<1>1. CASE PaymentStep
  BY <1>1, VoucherPayment
<1>2. CASE CustomerCancel \/ AdminCancel \/ Expire \/ \E s \in Sessions : CancelSchedule(s)
  BY <1>2, VoucherCancelled DEF CustomerCancel, AdminCancel
<1>3. CASE ListLate \/ ListStale
  BY <1>3, VoucherUnchanged DEF ListLate, ListStale
<1>4. ASSUME NEW w \in Workers, NEW S \in SUBSET Sessions, Accept(w, S) PROVE VoucherInvariant'
  <2>1. bookingStatus' \in OpenStatus /\ sessionStatus' = sessionStatus
        /\ (voucher' = voucher \/ voucher' = MarkUsed(voucher))
    BY <1>4 DEF Accept, SyncAfterClaim, OpenStatus
  <2> QED BY <2>1, VoucherOpen
<1>5. ASSUME NEW s \in Sessions, SessionStep(s), ~CancelSchedule(s) PROVE VoucherInvariant'
  <2>1. ASSUME NEW w \in Workers, ClaimSchedule(w, s) PROVE VoucherInvariant'
    <3>1. {s} \in SUBSET Sessions OBVIOUS
    <3> QED BY <2>1, <3>1, <1>4 DEF ClaimSchedule
  <2>2. CASE CancelAssignment(s) \/ UnassignCommit(s)
    <3>1. ~Closed
      BY <2>2 DEF CancelAssignment, UnassignCommit, Settled, ClosedBookingHasNoActiveSession,
                  ActiveStatus
    <3>2. UNCHANGED <<sessionStatus, voucher>>
          /\ (bookingStatus' = "PENDING" \/ bookingStatus' = bookingStatus)
      BY <2>2 DEF CancelAssignment, UnassignCommit, RemoveWorker
    <3>3. bookingStatus' \in OpenStatus
      BY <3>1, <3>2 DEF TypeOK, Closed, OpenStatus
    <3> QED BY <3>2, <3>3, VoucherOpen
  <2>3. CASE \/ (\E p \in Far..Early : Reschedule(s, p)) \/ Tick(s)
             \/ UnassignRead(s) \/ UnassignRollback(s)
             \/ (\E w \in Workers : LookUp(s, w)) \/ RejectRequest(s)
    BY <2>3, VoucherUnchanged
       DEF Reschedule, Tick, UnassignRead, UnassignRollback, LookUp, RejectRequest
  <2>4. CASE CheckIn(s) \/ CheckOut(s) \/ MissedCheckOut(s) \/ AdminComplete(s)
    BY <2>4, VoucherWork
  <2> QED BY <1>5, <2>1, <2>2, <2>3, <2>4, Zenon DEF SessionStep
<1>6. CASE UNCHANGED vars
  BY <1>6, VoucherUnchanged DEF vars
<1> QED BY <1>1, <1>2, <1>3, <1>4, <1>5, <1>6, Zenon DEF Next, BookingStep, ClaimPackage

\* Whoever ends the booking, its voucher is used up after work and given back without.
THEOREM VoucherEndsWithWork == Spec => []VoucherFollowsWork
<1>1. Init => VoucherInvariant
  BY DEF Init, VoucherInvariant, VoucherFollowsWork, WorkUsesVoucher, Closed, ClosedStatus
<1>2. TypeOK /\ Settled /\ VoucherInvariant /\ [Next]_vars => VoucherInvariant'
  BY NextVoucher
<1>3. VoucherInvariant => VoucherFollowsWork
  BY DEF VoucherInvariant
<1> QED BY <1>1, <1>2, <1>3, TypeCorrect, AlwaysSettled, PTL DEF Spec

-----------------------------------------------------------------------------
(* The commission of a booking paid in cash *)

\* The sessions whose commission has been taken from w: held back, or settled.
Held(w) == {s \in Sessions : worker[s] = w /\ reserved[s]}
Taken(w) == {s \in Sessions : earning[s] = w /\ settled[s]}

ReservedHasWorker == \A s \in Sessions : reserved[s] => worker[s] # NoWorker
EarnedIsDone == \A s \in Sessions : earning[s] # NoWorker => sessionStatus[s] = "COMPLETED"

\* What is counted twice, or not at all, would be a commission held without a worker or a
\* session that can be completed again.
LedgerInvariant == CommissionLedger /\ ReservedHasWorker /\ EarnedIsDone

\* Both sets can be counted, and so can what is left of them.
LEMMA LedgerSets ==
    ASSUME NEW w
    PROVE  /\ IsFiniteSet(Held(w)) /\ IsFiniteSet(Taken(w))
           /\ Cardinality(Held(w)) \in Nat /\ Cardinality(Taken(w)) \in Nat
<1>1. Held(w) \in SUBSET Sessions /\ Taken(w) \in SUBSET Sessions
  BY DEF Held, Taken
<1> QED BY <1>1, FS_Subset, FS_CardinalityType, SessionsAssumption

\* Nothing about workers changes.
LEMMA LedgerUnchanged ==
    ASSUME TypeOK, LedgerInvariant, FinalStep, UNCHANGED workerVars
    PROVE  LedgerInvariant'
<1>1. CommissionLedger' /\ ReservedHasWorker'
  BY DEF workerVars, LedgerInvariant, CommissionLedger, ReservedHasWorker
<1>2. EarnedIsDone'
  BY DEF workerVars, LedgerInvariant, EarnedIsDone, FinalStep, DoneStatus
<1> QED BY <1>1, <1>2 DEF LedgerInvariant

\* A claim takes one commission for each session it takes, if it takes any.
LEMMA LedgerAccept ==
    ASSUME TypeOK, LedgerInvariant, NEW w \in Workers, NEW S \in SUBSET Sessions, Accept(w, S)
    PROVE  LedgerInvariant'
<1>1. /\ worker' = [s \in Sessions |-> IF s \in S THEN w ELSE worker[s]]
      /\ \A s \in S : worker[s] = NoWorker
      /\ UNCHANGED <<sessionStatus, earning, settled>>
  BY DEF Accept, Claimable
<1>2. ReservedHasWorker' /\ EarnedIsDone'
  <2>1. \A s \in Sessions : reserved'[s] => s \in S \/ reserved[s]
    BY DEF Accept, TypeOK
  <2> QED BY <1>1, <2>1, WorkersAssumption DEF LedgerInvariant, ReservedHasWorker, EarnedIsDone
<1>3. S \cap Held(w) = {} /\ \A s \in S : ~reserved[s]
  BY <1>1, WorkersAssumption DEF Held, LedgerInvariant, ReservedHasWorker
<1> SUFFICES ASSUME NEW v \in Workers
             PROVE  debited'[v] = Cardinality(Held(v)') + Cardinality(Taken(v)')
  BY <1>2 DEF LedgerInvariant, CommissionLedger, Held, Taken
<1>4. debited[v] = Cardinality(Held(v)) + Cardinality(Taken(v)) /\ Taken(v)' = Taken(v)
  BY <1>1 DEF LedgerInvariant, CommissionLedger, Held, Taken
<1>5. CASE method = "CASH" /\ v = w
  <2>1. Held(w)' = Held(w) \cup S
    BY <1>1, <1>5 DEF Accept, Held
  <2>2. Cardinality(Held(w) \cup S) = Cardinality(Held(w)) + Cardinality(S)
    <3>1. IsFiniteSet(S) /\ Cardinality(S) \in Nat
      BY FS_Subset, FS_CardinalityType, SessionsAssumption
    <3>2. Held(w) \cap S = {}
      BY <1>3
    <3>3. Cardinality(Held(w) \cup S)
              = Cardinality(Held(w)) + Cardinality(S) - Cardinality(Held(w) \cap S)
      BY <3>1, LedgerSets, FS_Union
    <3>4. Cardinality(Held(w) \cap S) = 0
      BY <3>2, FS_EmptySet
    <3>5. Cardinality(Held(w)) \in Nat
      BY LedgerSets
    <3> QED BY <3>1, <3>3, <3>4, <3>5
  <2>3. debited'[w] = debited[w] + Cardinality(S)
    BY <1>5 DEF Accept, TypeOK
  <2> QED BY <1>4, <1>5, <2>1, <2>2, <2>3, LedgerSets, CountOfSessions
<1>6. CASE ~(method = "CASH" /\ v = w)
  <2>1. Held(v)' = Held(v)
    BY <1>1, <1>3, <1>6, WorkersAssumption DEF Accept, Held
  <2>2. debited'[v] = debited[v]
    BY <1>6 DEF Accept, TypeOK
  <2> QED BY <1>4, <2>1, <2>2
<1> QED BY <1>5, <1>6

\* Workers who lose their sessions get back what was held for them.
LEMMA LedgerReleased ==
    ASSUME TypeOK, LedgerInvariant, FinalStep, NEW S \in SUBSET Sessions,
           ReleaseCommission(S), DropWorkers(S), UNCHANGED <<earning, settled>>
    PROVE  LedgerInvariant'
<1>1. /\ worker' = [s \in Sessions |-> IF s \in S THEN NoWorker ELSE worker[s]]
      /\ reserved' = [s \in Sessions |-> reserved[s] /\ s \notin S]
      /\ debited' = [w \in Workers |->
            debited[w] - Cardinality({s \in S : worker[s] = w /\ reserved[s]})]
  BY DEF ReleaseCommission, DropWorkers
<1>2. ReservedHasWorker' /\ EarnedIsDone'
  BY <1>1 DEF LedgerInvariant, ReservedHasWorker, EarnedIsDone, FinalStep, DoneStatus
<1> SUFFICES ASSUME NEW v \in Workers
             PROVE  debited'[v] = Cardinality(Held(v)') + Cardinality(Taken(v)')
  BY <1>2 DEF LedgerInvariant, CommissionLedger, Held, Taken
<1>3. debited[v] = Cardinality(Held(v)) + Cardinality(Taken(v)) /\ Taken(v)' = Taken(v)
  BY DEF LedgerInvariant, CommissionLedger, Held, Taken
<1>4. Held(v)' = Held(v) \ S
  BY <1>1, WorkersAssumption DEF Held
<1>5. {s \in S : worker[s] = v /\ reserved[s]} = Held(v) \cap S
  BY DEF Held
<1>6. Cardinality(Held(v) \ S) = Cardinality(Held(v)) - Cardinality(Held(v) \cap S)
  BY LedgerSets, FS_Difference
<1>7. Cardinality(Held(v) \cap S) \in Nat
  BY CountOfSessions DEF Held
<1>8. debited'[v] = debited[v] - Cardinality(Held(v) \cap S)
  BY <1>1, <1>5
<1> QED BY <1>3, <1>4, <1>6, <1>7, <1>8, LedgerSets

\* Work done settles the commission once: what was held, or what the wallet can still pay.
LEMMA LedgerComplete ==
    ASSUME TypeOK, LedgerInvariant, NEW s \in Sessions, NEW w \in Workers, NEW enough \in BOOLEAN,
           Complete(s, w, enough)
    PROVE  LedgerInvariant'
<1> DEFINE held == worker[s] = w /\ reserved[s]
           owed == method = "CASH" /\ ~held
<1>1. /\ sessionStatus[s] = "IN_PROGRESS" /\ sessionStatus'[s] = "COMPLETED"
      /\ \A t \in Sessions \ {s} : sessionStatus'[t] = sessionStatus[t]
      /\ earning' = [earning EXCEPT ![s] = w]
      /\ reserved' = [reserved EXCEPT ![s] = reserved[s] /\ ~held]
      /\ settled' = [settled EXCEPT ![s] = held \/ (owed /\ enough)]
      /\ debited' = IF owed /\ enough THEN [debited EXCEPT ![w] = debited[w] + 1] ELSE debited
      /\ worker' = worker
  BY DEF Complete, SetSessions
<1>2. earning[s] = NoWorker
  BY <1>1 DEF LedgerInvariant, EarnedIsDone
<1> HIDE DEF held, owed
<1>3. /\ earning'[s] = w /\ (settled'[s] <=> held \/ (owed /\ enough))
      /\ (reserved'[s] <=> reserved[s] /\ ~held)
      /\ \A t \in Sessions \ {s} : /\ earning'[t] = earning[t]
                                   /\ settled'[t] = settled[t] /\ reserved'[t] = reserved[t]
  BY <1>1 DEF TypeOK
<1>4. ReservedHasWorker' /\ EarnedIsDone'
  BY <1>1, <1>3 DEF LedgerInvariant, ReservedHasWorker, EarnedIsDone
<1> SUFFICES ASSUME NEW v \in Workers
             PROVE  debited'[v] = Cardinality(Held(v)') + Cardinality(Taken(v)')
  BY <1>4 DEF LedgerInvariant, CommissionLedger, Held, Taken
<1>5. debited[v] = Cardinality(Held(v)) + Cardinality(Taken(v))
  BY DEF LedgerInvariant, CommissionLedger, Held, Taken
<1>6. s \notin Taken(v)
  BY <1>2, WorkersAssumption DEF Taken
<1>7. CASE v # w
  <2>1. Held(v)' = Held(v)
    BY <1>1, <1>3, <1>7 DEF Held, held
  <2>2. Taken(v)' = Taken(v)
    BY <1>3, <1>6, <1>7 DEF Taken
  <2>3. debited'[v] = debited[v]
    BY <1>1, <1>7 DEF TypeOK
  <2> QED BY <1>5, <2>1, <2>2, <2>3
<1>8. CASE v = w /\ held
  <2>1. s \in Held(w) /\ Held(w)' = Held(w) \ {s}
    BY <1>1, <1>3, <1>8 DEF Held, held
  <2>2. Taken(w)' = Taken(w) \cup {s}
    BY <1>3, <1>8 DEF Taken
  <2>3. debited' = debited
    BY <1>1, <1>8 DEF owed
  <2>4. Cardinality(Held(w)') = Cardinality(Held(w)) - 1
    BY <2>1, LedgerSets, FS_RemoveElement
  <2>5. Cardinality(Taken(w)') = Cardinality(Taken(w)) + 1
    BY <1>6, <1>8, <2>2, LedgerSets, FS_AddElement
  <2> QED BY <1>5, <1>8, <2>3, <2>4, <2>5, LedgerSets
<1>9. CASE v = w /\ ~held
  <2>1. Held(w)' = Held(w)
    BY <1>1, <1>3, <1>9 DEF Held, held
  <2>2. CASE owed /\ enough
    <3>1. Taken(w)' = Taken(w) \cup {s}
      BY <1>3, <2>2 DEF Taken
    <3>2. debited'[w] = debited[w] + 1
      BY <1>1, <2>2 DEF TypeOK
    <3>3. Cardinality(Taken(w)') = Cardinality(Taken(w)) + 1
      BY <1>6, <1>9, <3>1, LedgerSets, FS_AddElement
    <3> QED BY <1>5, <1>9, <2>1, <3>2, <3>3, LedgerSets
  <2>3. CASE ~(owed /\ enough)
    <3>1. Taken(w)' = Taken(w)
      BY <1>3, <1>6, <1>9, <2>3 DEF Taken
    <3>2. debited' = debited
      BY <1>1, <2>3
    <3> QED BY <1>5, <1>9, <2>1, <3>1, <3>2
  <2> QED BY <2>2, <2>3
<1> QED BY <1>7, <1>8, <1>9

\* Every step keeps the commissions taken equal to those held and settled.
LEMMA NextLedger == TypeOK /\ Settled /\ LedgerInvariant /\ [Next]_vars => LedgerInvariant'
<1> SUFFICES ASSUME TypeOK, Settled, LedgerInvariant, [Next]_vars PROVE LedgerInvariant'
  OBVIOUS
<1>0. FinalStep
  BY NextSettled DEF SettledStep
<1>1. CASE PaymentStep
  <2>1. UNCHANGED workerVars
    BY <1>1 DEF PaymentStep, Transfer, WebhookLate, WebhookUnder, WebhookPaid, ExpireUnpaid,
                ConfirmCash, CancelUnpaid
  <2> QED BY <1>0, <2>1, LedgerUnchanged
<1>2. CASE CancelCore
  <2> DEFINE toCancel == {s \in Sessions : sessionStatus[s] \notin DoneStatus}
  <2>1. /\ ReleaseCommission(toCancel) /\ DropWorkers(toCancel) /\ UNCHANGED <<earning, settled>>
        /\ toCancel \in SUBSET Sessions
    BY <1>2 DEF CancelCore
  <2> HIDE DEF toCancel
  <2> QED BY <1>0, <2>1, LedgerReleased
<1>3. CASE Expire
  <2>1. PICK gone, missed \in SUBSET Sessions : ExpireOf(gone, missed)
    BY <1>3, ExpireForm
  <2>2. ReleaseCommission(gone) /\ DropWorkers(gone) /\ UNCHANGED <<earning, settled>>
    BY <2>1 DEF ExpireOf
  <2> QED BY <1>0, <2>2, LedgerReleased
<1>4. ASSUME NEW s \in Sessions, CancelSchedule(s) \/ CancelAssignment(s) \/ UnassignCommit(s)
      PROVE  LedgerInvariant'
  <2>1. /\ ReleaseCommission({s}) /\ DropWorkers({s}) /\ UNCHANGED <<earning, settled>>
        /\ {s} \in SUBSET Sessions
    BY <1>4 DEF CancelSchedule, CancelAssignment, UnassignCommit, RemoveWorker
  <2> QED BY <1>0, <2>1, LedgerReleased
<1>5. CASE ListLate \/ ListStale
  BY <1>0, <1>5, LedgerUnchanged DEF ListLate, ListStale
<1>6. ASSUME NEW w \in Workers, NEW S \in SUBSET Sessions, Accept(w, S) PROVE LedgerInvariant'
  BY <1>6, LedgerAccept
<1>7. ASSUME NEW s \in Sessions, SessionStep(s),
             ~(CancelSchedule(s) \/ CancelAssignment(s) \/ UnassignCommit(s))
      PROVE  LedgerInvariant'
  <2>1. ASSUME NEW w \in Workers, ClaimSchedule(w, s) PROVE LedgerInvariant'
    <3>1. {s} \in SUBSET Sessions OBVIOUS
    <3> QED BY <2>1, <3>1, <1>6 DEF ClaimSchedule
  <2>2. CASE \/ (\E p \in Far..Early : Reschedule(s, p)) \/ Tick(s)
             \/ UnassignRead(s) \/ UnassignRollback(s)
             \/ (\E w \in Workers : LookUp(s, w)) \/ RejectRequest(s) \/ CheckIn(s)
    BY <1>0, <2>2, LedgerUnchanged
       DEF Reschedule, Tick, UnassignRead, UnassignRollback, LookUp, RejectRequest, CheckIn
  <2>3. CASE CheckOut(s) \/ MissedCheckOut(s) \/ AdminComplete(s)
    <3>1. PICK w \in Workers, enough \in BOOLEAN : Complete(s, w, enough)
      BY <2>3 DEF CheckOut, MissedCheckOut, AdminComplete, CompleteForWorker, TypeOK
    <3> QED BY <3>1, LedgerComplete
  <2> QED BY <1>7, <2>1, <2>2, <2>3, Zenon DEF SessionStep
<1>8. CASE UNCHANGED vars
  BY <1>0, <1>8, LedgerUnchanged DEF vars
<1> QED BY <1>1, <1>2, <1>3, <1>4, <1>5, <1>6, <1>7, <1>8, Zenon
        DEF Next, BookingStep, ClaimPackage, CustomerCancel, AdminCancel

\* In whatever order workers claim, leave, are removed and finish: a wallet has paid one
\* commission for each session held and one for each session settled.
THEOREM CommissionsAddUp == Spec => []CommissionLedger
<1>1. Init => LedgerInvariant
  <2> SUFFICES ASSUME Init PROVE LedgerInvariant
    OBVIOUS
  <2>1. \A w \in Workers : /\ {s \in Sessions : worker[s] = w /\ reserved[s]} = {}
                           /\ {s \in Sessions : earning[s] = w /\ settled[s]} = {}
    BY DEF Init
  <2>2. CommissionLedger
    BY <2>1, FS_EmptySet DEF Init, CommissionLedger
  <2> QED BY <2>2 DEF Init, LedgerInvariant, ReservedHasWorker, EarnedIsDone
<1>2. TypeOK /\ Settled /\ LedgerInvariant /\ [Next]_vars => LedgerInvariant'
  BY NextLedger
<1>3. LedgerInvariant => CommissionLedger
  BY DEF LedgerInvariant
<1> QED BY <1>1, <1>2, <1>3, TypeCorrect, AlwaysSettled, PTL DEF Spec

-----------------------------------------------------------------------------
(* The price of an ended booking *)

\* The keys under which the booking itself is refunded, and one session.
BookingKeys == {<<"booking", "cancel">>, <<"booking", "failed">>}
KeysOf(s) == {<<s, "cancel">>, <<s, "missed">>}

\* Fully refunded means refunded in full.
FullMeansRefunded(m) == m.status = "REFUNDED" <=> m.refunded = Total

\* While the booking goes on, and after work, no more than the shares of the sessions dropped
\* was given back; of money that came in before the first was dropped, exactly that.
SharesGivenBack ==
    ~Closed \/ SomeCompleted =>
        /\ money.refunded <= PerSession * Cardinality(Dropped)
        /\ method = "WALLET" => money.refunded = PerSession * Cardinality(Dropped)

\* Without work, nothing is kept at the end, and until then something is left to do.
NoWorkNoMoney ==
    ~SomeCompleted =>
        /\ Closed => money.status # "PAID" /\ payment # "PENDING"
        /\ ~Closed => \E s \in Sessions : sessionStatus[s] \in ActiveStatus

\* The payment and the booking agree on whether there is money.
PaymentAgrees ==
    /\ payment = "SUCCESS" <=> money.status = "PAID"
    /\ money.status = "PAID" => paidAt
    /\ method = "WALLET" => money.status # "UNPAID"
    /\ method = "CASH" /\ money.status = "UNPAID" => payment # "REFUNDED"

\* No key is used up that a later refund needs.
KeysAreUsed ==
    /\ money.keys \cap BookingKeys # {} => Closed
    /\ \A s \in Sessions : money.keys \cap KeysOf(s) # {} => sessionStatus[s] \in DoneStatus

OutcomeInvariant ==
    /\ FullMeansRefunded(money)
    /\ SharesGivenBack
    /\ NoWorkNoMoney
    /\ PaymentAgrees
    /\ KeysAreUsed

-----------------------------------------------------------------------------
(* Shares of the price, and what a refund takes from it *)

\* The share of a session is not negative.
LEMMA PerSessionNat == PerSession \in Nat
<1> DEFINE a == 2 * Total + SessionCount
           b == 2 * SessionCount
<1>1. a \in Nat /\ b \in Nat /\ b > 0
  BY SessionCountPositive, PriceAssumption
<1> HIDE DEF a, b
<1>2. a \div b \in Int /\ a % b \in 0..(b - 1) /\ a = b * (a \div b) + (a % b)
  BY <1>1
<1>3. ASSUME a \div b < 0 PROVE FALSE
  <2>1. b * (a \div b) <= -b
    BY <1>1, <1>2, <1>3
  <2> QED BY <1>1, <1>2, <2>1
<1>4. a \div b \in Nat
  BY <1>2, <1>3
<1> QED BY <1>4 DEF PerSession, a, b

\* The shares of all sessions but one stay below the price, and shares add up.
LEMMA ShareBelow ==
    ASSUME NEW S \in SUBSET Sessions
    PROVE  /\ PerSession * Cardinality(S) \in Nat
           /\ S # Sessions => PerSession * Cardinality(S) < Total
<1>1. Cardinality(S) \in Nat /\ PerSession \in Nat /\ Total \in Nat
  BY CountOfSessions, PerSessionNat, PriceAssumption
<1>2. PerSession * Cardinality(S) \in Nat
  BY <1>1
<1>3. ASSUME S # Sessions PROVE PerSession * Cardinality(S) < Total
  <2> DEFINE d == SessionCount - 1 - Cardinality(S)
  <2>1. d \in Nat
    <3>1. Cardinality(S) <= SessionCount /\ Cardinality(S) # SessionCount
      BY <1>3, FS_Subset, SessionsAssumption DEF SessionCount
    <3> QED BY <1>1, <3>1, SessionCountPositive
  <2>2. SessionCount - 1 = Cardinality(S) + d
    BY <1>1, SessionCountPositive
  <2> HIDE DEF d
  <2>3. (Cardinality(S) + d) * PerSession = PerSession * Cardinality(S) + d * PerSession
    BY <1>1, <2>1
  <2>4. d * PerSession \in Nat
    BY <1>1, <2>1
  <2>5. (Cardinality(S) + d) * PerSession < Total
    BY <2>2, PriceAssumption
  <2> QED BY <1>1, <1>2, <2>3, <2>4, <2>5
<1> QED BY <1>2, <1>3

\* The shares of two disjoint sets of sessions add up.
LEMMA SharesAdd ==
    ASSUME NEW S \in SUBSET Sessions, NEW T \in SUBSET Sessions, S \cap T = {}
    PROVE  PerSession * Cardinality(S \cup T)
               = PerSession * Cardinality(S) + PerSession * Cardinality(T)
<1>1. Cardinality(S) \in Nat /\ Cardinality(T) \in Nat /\ PerSession \in Nat
  BY CountOfSessions, PerSessionNat
<1>2. Cardinality(S \cup T) = Cardinality(S) + Cardinality(T)
  <2>1. IsFiniteSet(S) /\ IsFiniteSet(T)
    BY FS_Subset, SessionsAssumption
  <2>2. Cardinality(S \cup T) = Cardinality(S) + Cardinality(T) - Cardinality(S \cap T)
    BY <2>1, FS_Union
  <2>3. Cardinality(S \cap T) = 0
    BY FS_EmptySet
  <2> QED BY <1>1, <2>2, <2>3
<1> QED BY <1>1, <1>2

\* What refund_booking uses up and leaves.
LEMMA RefundKeeps ==
    ASSUME NEW m \in MoneyType, FullMeansRefunded(m), NEW amount \in Nat, NEW keys \in SUBSET RefundKeys
    PROVE  /\ FullMeansRefunded(Refund(m, amount, keys))
           /\ Refund(m, amount, keys).keys \subseteq m.keys \cup keys
           /\ amount = 0 => Refund(m, amount, keys) = m
<1>1. m.refunded \in 0..Total /\ Total \in Nat
  BY PriceAssumption DEF MoneyType
<1> QED BY <1>1 DEF Refund, FullMeansRefunded

\* A share that is left is paid out whole, and the booking stays paid.
LEMMA RefundShare ==
    ASSUME NEW m \in MoneyType, NEW amount \in Nat, NEW keys \in SUBSET RefundKeys,
           m.status = "PAID", keys \cap m.keys = {}, m.refunded + amount < Total
    PROVE  /\ Refund(m, amount, keys).status = "PAID"
           /\ Refund(m, amount, keys).refunded = m.refunded + amount
<1>1. m.refunded \in 0..Total /\ Total \in Nat
  BY PriceAssumption DEF MoneyType
<1> QED BY <1>1 DEF Refund

\* The price itself takes back all that is left.
LEMMA RefundAll ==
    ASSUME NEW m \in MoneyType, FullMeansRefunded(m), NEW keys \in SUBSET RefundKeys,
           keys \cap m.keys = {}
    PROVE  Refund(m, Total, keys).status # "PAID"
<1>1. m.refunded \in 0..Total /\ Total \in Nat
  BY PriceAssumption DEF MoneyType
<1> QED BY <1>1 DEF Refund, FullMeansRefunded

-----------------------------------------------------------------------------
(* Each step on the accounts of the booking *)

\* No session is dropped, and nothing is paid or given back.
LEMMA OutcomeUnchanged ==
    ASSUME OutcomeInvariant, UNCHANGED <<money, method, payment, paidAt, sessionStatus>>,
           Closed' <=> Closed
    PROVE  OutcomeInvariant'
<1>1. Dropped' = Dropped /\ (SomeCompleted' <=> SomeCompleted)
  BY DEF Dropped, SomeCompleted
<1>2. SharesGivenBack'
  BY <1>1 DEF OutcomeInvariant, SharesGivenBack
<1>3. NoWorkNoMoney'
  BY <1>1 DEF OutcomeInvariant, NoWorkNoMoney
<1>4. PaymentAgrees' /\ KeysAreUsed' /\ FullMeansRefunded(money)'
  BY DEF OutcomeInvariant, PaymentAgrees, KeysAreUsed, FullMeansRefunded
<1> QED BY <1>2, <1>3, <1>4 DEF OutcomeInvariant

\* While something is left to do, or work was done, not all of the price went back.
LEMMA NotAllBack ==
    ASSUME TypeOK, OutcomeInvariant, ~Closed \/ SomeCompleted
    PROVE  Dropped # Sessions /\ money.status # "REFUNDED"
<1>1. Dropped \in SUBSET Sessions /\ Dropped # Sessions
  BY DEF OutcomeInvariant, NoWorkNoMoney, SomeCompleted, Dropped, ActiveStatus
<1>2. money.refunded \in 0..Total /\ Total \in Nat
  BY PriceAssumption DEF TypeOK, MoneyType
<1>3. money.refunded < Total
  BY <1>1, <1>2, ShareBelow DEF OutcomeInvariant, SharesGivenBack
<1> QED BY <1>1, <1>2, <1>3 DEF OutcomeInvariant, FullMeansRefunded

\* The sessions S of an open booking are dropped, one share each, under keys of their own,
\* and something is left, to do or done.
LEMMA OutcomeDropped ==
    ASSUME TypeOK, OutcomeInvariant, ~Closed,
           NEW S \in SUBSET Sessions, NEW status \in {"CANCELLED", "MISSED"},
           NEW keys \in SUBSET RefundKeys, NEW amount,
           SetSessions(S, status), \A s \in S : sessionStatus[s] = "PENDING",
           amount = PerSession * Cardinality(S),
           keys \cap money.keys = {},
           keys \cap BookingKeys # {} => Closed',
           \A s \in Sessions : keys \cap KeysOf(s) # {} => s \in S,
           money' = Refund(money, amount, keys),
           \/ payment' = PaymentAfterRefund(payment, money')
           \/ payment' = PaymentAfterRefund(ClosePendingPayment(payment), money'),
           UNCHANGED <<method, paidAt>>,
           Closed' => SomeCompleted,
           SomeCompleted \/ \E s \in Sessions \ S : sessionStatus[s] \in ActiveStatus
    PROVE  OutcomeInvariant'
<1>1. \A s \in Sessions : sessionStatus'[s] = IF s \in S THEN status ELSE sessionStatus[s]
  BY DEF SetSessions
<1>2. /\ Dropped' = Dropped \cup S /\ Dropped \cap S = {} /\ Dropped \in SUBSET Sessions
      /\ Dropped \cup S # Sessions
  BY <1>1 DEF Dropped, SomeCompleted, ActiveStatus
<1>3. SomeCompleted' <=> SomeCompleted
  BY <1>1 DEF SomeCompleted
<1>4. ~SomeCompleted => \E s \in Sessions : sessionStatus'[s] \in ActiveStatus
  BY <1>1
<1> DEFINE before == PerSession * Cardinality(Dropped)
           after == PerSession * Cardinality(Dropped \cup S)
<1>5. /\ before \in Nat /\ amount \in Nat /\ after \in Nat
      /\ after = before + amount /\ after < Total
      /\ after = PerSession * Cardinality(Dropped')
  BY <1>2, ShareBelow, SharesAdd
<1>6. /\ money.refunded \in 0..Total /\ Total \in Nat
      /\ money.status \in {"UNPAID", "PAID"}
      /\ money.refunded <= before
      /\ method = "WALLET" => money.refunded = before /\ money.status = "PAID"
  BY NotAllBack, PriceAssumption
     DEF TypeOK, MoneyType, OutcomeInvariant, SharesGivenBack, PaymentAgrees
<1> HIDE DEF before, after
<1>7. money.status = "PAID" => money'.status = "PAID" /\ money'.refunded = money.refunded + amount
  BY <1>5, <1>6, RefundShare DEF TypeOK
<1>8. money.status # "PAID" => money' = money
  BY DEF Refund
<1>9. /\ money'.status = money.status
      /\ money'.refunded <= after
      /\ method = "WALLET" => money'.refunded = after
  BY <1>5, <1>6, <1>7, <1>8
<1>10. FullMeansRefunded(money)' /\ money'.keys \subseteq money.keys \cup keys
  BY <1>5, RefundKeeps DEF OutcomeInvariant, TypeOK, FullMeansRefunded
<1>11. SharesGivenBack'
  BY <1>5, <1>9 DEF SharesGivenBack
<1>12. NoWorkNoMoney'
  BY <1>3, <1>4 DEF NoWorkNoMoney
<1>13. PaymentAgrees'
  BY <1>6, <1>9 DEF OutcomeInvariant, PaymentAgrees, PaymentAfterRefund, ClosePendingPayment
<1>14. KeysAreUsed'
  <2>1. money'.keys \cap BookingKeys # {} => Closed'
    BY <1>10 DEF OutcomeInvariant, KeysAreUsed
  <2>2. ASSUME NEW s \in Sessions, money'.keys \cap KeysOf(s) # {}
        PROVE  sessionStatus'[s] \in DoneStatus
    <3>1. sessionStatus[s] \in DoneStatus \/ s \in S
      BY <1>10, <2>2 DEF OutcomeInvariant, KeysAreUsed
    <3> QED BY <1>1, <3>1 DEF DoneStatus
  <2> QED BY <2>1, <2>2 DEF KeysAreUsed
<1> QED BY <1>10, <1>11, <1>12, <1>13, <1>14 DEF OutcomeInvariant

\* The booking ends without work, and what was paid has gone back.
LEMMA OutcomeNothingKept ==
    ASSUME TypeOK, OutcomeInvariant, Closed', ~SomeCompleted',
           FullMeansRefunded(money)', money'.status \in {"UNPAID", "REFUNDED"},
           money'.status = "UNPAID" <=> money.status = "UNPAID",
           \A s \in Sessions : money'.keys \cap KeysOf(s) # {} => sessionStatus'[s] \in DoneStatus,
           payment' = PaymentAfterRefund(ClosePendingPayment(payment), money'),
           UNCHANGED <<method, paidAt>>
    PROVE  OutcomeInvariant'
<1>1. SharesGivenBack' /\ KeysAreUsed'
  BY DEF SharesGivenBack, KeysAreUsed
<1>2. PaymentAgrees' /\ payment' # "PENDING"
  BY DEF OutcomeInvariant, PaymentAgrees, PaymentAfterRefund, ClosePendingPayment, TypeOK, MoneyType
<1>3. NoWorkNoMoney'
  BY <1>2 DEF NoWorkNoMoney
<1> QED BY <1>1, <1>2, <1>3 DEF OutcomeInvariant

\* The keys of different sessions, and of the booking, are different.
LEMMA KeysDiffer ==
    /\ \A s, t \in Sessions : KeysOf(s) \cap KeysOf(t) # {} => s = t
    /\ \A s \in Sessions : KeysOf(s) \cap BookingKeys = {}
BY NamesAssumption DEF KeysOf, BookingKeys

\* The money of a booking paid late, at once, or in cash.
LEMMA OutcomePayment ==
    ASSUME TypeOK, Settled, OutcomeInvariant, PaymentStep
    PROVE  OutcomeInvariant'
<1> USE DEF bookingVars, sessionVars
<1>1. ASSUME NEW t \in {"under", "exact", "over"}, Transfer(t) PROVE OutcomeInvariant'
  <2>1. UNCHANGED <<money, method, payment, paidAt, sessionStatus>> /\ (Closed' <=> Closed)
    BY <1>1 DEF Transfer, Closed
  <2> QED BY <2>1, OutcomeUnchanged
<1>2. CASE WebhookLate
  <2>1. /\ UNCHANGED <<bookingStatus, money, method, sessionStatus>>
        /\ payment' = "REFUNDED" /\ paidAt' /\ method = "BANK_TRANSFER" /\ ~paidAt
    BY <1>2 DEF WebhookLate, Delivered, Settled, TransferIsBank
  <2>2. money.status # "PAID"
    BY <2>1 DEF OutcomeInvariant, PaymentAgrees
  <2>3. PaymentAgrees' /\ FullMeansRefunded(money)' /\ KeysAreUsed'
    BY <2>1, <2>2 DEF OutcomeInvariant, PaymentAgrees, FullMeansRefunded, KeysAreUsed, Closed
  <2>4. SharesGivenBack'
    BY <2>1 DEF OutcomeInvariant, SharesGivenBack, Closed, SomeCompleted, Dropped
  <2>5. NoWorkNoMoney'
    BY <2>1 DEF OutcomeInvariant, NoWorkNoMoney, Closed, SomeCompleted
  <2> QED BY <2>3, <2>4, <2>5 DEF OutcomeInvariant
<1>3. CASE WebhookPaid
  <2>1. /\ UNCHANGED <<bookingStatus, method, sessionStatus>>
        /\ payment' = "SUCCESS" /\ paidAt' /\ money' = [money EXCEPT !.status = "PAID"]
        /\ method = "BANK_TRANSFER" /\ money.status = "UNPAID"
        /\ bookingStatus \notin {"CANCELLED", "FAILED"}
    BY <1>3 DEF WebhookPaid, Delivered, TooLate, Settled, TransferIsBank
  <2>2. bookingStatus # "COMPLETED"
    BY <2>1 DEF Settled, UnpaidIsIdle, CompletedHasWork, SomeCompleted
  <2>3. /\ ~Closed /\ ~Closed' /\ money'.refunded = money.refunded
        /\ money'.status = "PAID" /\ money'.keys = money.keys
    BY <2>1, <2>2 DEF Closed, ClosedStatus, TypeOK, MoneyType
  <2>4. PaymentAgrees' /\ FullMeansRefunded(money)' /\ KeysAreUsed'
    BY <2>1, <2>3 DEF OutcomeInvariant, PaymentAgrees, FullMeansRefunded, KeysAreUsed
  <2>5. SharesGivenBack'
    BY <2>1, <2>3 DEF OutcomeInvariant, SharesGivenBack, SomeCompleted, Dropped
  <2>6. NoWorkNoMoney'
    BY <2>1, <2>3 DEF OutcomeInvariant, NoWorkNoMoney, SomeCompleted
  <2> QED BY <2>4, <2>5, <2>6 DEF OutcomeInvariant
<1>4. CASE ConfirmCash
  <2>1. /\ UNCHANGED <<bookingStatus, method, sessionStatus>> /\ method = "CASH"
        /\ payment' = "SUCCESS" /\ paidAt' /\ money' = [money EXCEPT !.status = "PAID"]
        /\ SomeCompleted
    BY <1>4 DEF ConfirmCash, Settled, CompletedHasWork
  <2>2. /\ money'.refunded = money.refunded /\ money'.status = "PAID" /\ money'.keys = money.keys
        /\ money.status # "REFUNDED"
    BY <2>1, NotAllBack DEF TypeOK, MoneyType
  <2>3. PaymentAgrees' /\ FullMeansRefunded(money)' /\ KeysAreUsed'
    BY <2>1, <2>2 DEF OutcomeInvariant, PaymentAgrees, FullMeansRefunded, KeysAreUsed, Closed
  <2>4. SharesGivenBack'
    BY <2>1, <2>2 DEF OutcomeInvariant, SharesGivenBack, SomeCompleted, Dropped
  <2>5. NoWorkNoMoney'
    BY <2>1 DEF NoWorkNoMoney, SomeCompleted
  <2> QED BY <2>3, <2>4, <2>5 DEF OutcomeInvariant
<1>5. ASSUME NEW p, p \in {"REFUNDED", payment}, CancelUnpaid(p), money.status = "UNPAID",
             method = "BANK_TRANSFER", UNCHANGED <<money, method>>, paidAt' \in {paidAt, TRUE}
      PROVE  OutcomeInvariant'
  <2>1. \A s \in Sessions : sessionStatus[s] # "COMPLETED" /\ sessionStatus'[s] = "CANCELLED"
    BY <1>5 DEF CancelUnpaid, SetSessions, Settled, UnpaidIsIdle, TypeOK
  <2>2. Closed' /\ ~SomeCompleted'
    BY <1>5, <2>1 DEF CancelUnpaid, Closed, ClosedStatus, SomeCompleted
  <2>3. payment' \notin {"PENDING", "SUCCESS"}
    BY <1>5 DEF CancelUnpaid, ClosePendingPayment, OutcomeInvariant, PaymentAgrees, TypeOK
  <2>4. PaymentAgrees' /\ FullMeansRefunded(money)'
    BY <1>5, <2>3 DEF OutcomeInvariant, PaymentAgrees, FullMeansRefunded
  <2>5. SharesGivenBack' /\ NoWorkNoMoney' /\ KeysAreUsed'
    BY <1>5, <2>1, <2>2, <2>3 DEF SharesGivenBack, NoWorkNoMoney, KeysAreUsed, DoneStatus
  <2> QED BY <2>4, <2>5 DEF OutcomeInvariant
<1>6. CASE WebhookUnder
  BY <1>5, <1>6 DEF WebhookUnder, TooLate, Delivered, Settled, TransferIsBank
<1>7. CASE ExpireUnpaid
  BY <1>5, <1>7 DEF ExpireUnpaid
<1> QED BY <1>1, <1>2, <1>3, <1>4, <1>6, <1>7 DEF PaymentStep

\* The whole booking is cancelled: the sessions not done are dropped together.
LEMMA OutcomeCancelCore ==
    ASSUME TypeOK, OutcomeInvariant, CancelCore
    PROVE  OutcomeInvariant'
<1> DEFINE toCancel == {s \in Sessions : sessionStatus[s] \notin DoneStatus}
           keys == {<<"booking", "cancel">>}
           amount == IF SomeCompleted THEN PerSession * Cardinality(toCancel) ELSE Total
<1>1. /\ SetSessions(toCancel, "CANCELLED") /\ toCancel \in SUBSET Sessions
      /\ money' = Refund(money, amount, keys)
      /\ payment' = PaymentAfterRefund(ClosePendingPayment(payment), money')
      /\ UNCHANGED <<method, paidAt>>
      /\ \A s \in Sessions : sessionStatus[s] # "IN_PROGRESS"
  BY DEF CancelCore
<1>2. ~Closed /\ Closed'
  BY DEF CancelCore, Closed, OpenStatus, ClosedStatus
<1>3. keys \in SUBSET RefundKeys /\ keys \subseteq BookingKeys /\ keys \cap money.keys = {}
  BY <1>2 DEF RefundKeys, BookingKeys, OutcomeInvariant, KeysAreUsed
<1>4. \A s \in Sessions : keys \cap KeysOf(s) = {}
  BY <1>3, KeysDiffer
<1>5. \A s \in toCancel : sessionStatus[s] = "PENDING"
  BY <1>1 DEF DoneStatus, TypeOK, ActiveStatus
<1>6. CASE SomeCompleted
  <2>1. amount = PerSession * Cardinality(toCancel)
    BY <1>6
  <2> HIDE DEF keys, amount, toCancel
  <2> QED BY <1>1, <1>2, <1>3, <1>4, <1>5, <1>6, <2>1, OutcomeDropped
<1>7. CASE ~SomeCompleted
  <2>1. amount = Total
    BY <1>7
  <2>2. \A s \in Sessions : sessionStatus'[s] \in DoneStatus /\ sessionStatus'[s] # "COMPLETED"
    BY <1>1, <1>7 DEF SetSessions, DoneStatus, SomeCompleted
  <2> HIDE DEF keys, amount, toCancel
  <2>3. /\ FullMeansRefunded(money)' /\ money'.status \in {"UNPAID", "REFUNDED"}
        /\ money'.status = "UNPAID" <=> money.status = "UNPAID"
    <3>1. money' \in MoneyType /\ (money'.status = "UNPAID" <=> money.status = "UNPAID")
      BY <1>1, <1>3, <2>1, RefundType, PriceAssumption DEF TypeOK
    <3>2. FullMeansRefunded(money)' /\ money'.status # "PAID"
      BY <1>1, <1>3, <2>1, RefundKeeps, RefundAll, PriceAssumption
         DEF TypeOK, OutcomeInvariant, FullMeansRefunded
    <3> QED BY <3>1, <3>2 DEF MoneyType
  <2>4. ~SomeCompleted'
    BY <2>2 DEF SomeCompleted
  <2> QED BY <1>1, <1>2, <2>2, <2>3, <2>4, OutcomeNothingKept
<1> QED BY <1>6, <1>7

\* One session is cancelled; without work, the last takes all of the price back.
LEMMA OutcomeCancelSchedule ==
    ASSUME TypeOK, OutcomeInvariant, NEW s \in Sessions, CancelSchedule(s)
    PROVE  OutcomeInvariant'
<1> DEFINE keys == {<<s, "cancel">>}
           amount == IF ~OthersActive(s) /\ ~SomeCompleted THEN Total ELSE PerSession
<1>1. /\ SetSessions({s}, "CANCELLED") /\ {s} \in SUBSET Sessions
      /\ money' = Refund(money, amount, keys)
      /\ UNCHANGED <<method, paidAt>>
      /\ sessionStatus[s] = "PENDING"
  BY DEF CancelSchedule
<1>2. /\ \/ payment' = PaymentAfterRefund(payment, money')
         \/ payment' = PaymentAfterRefund(ClosePendingPayment(payment), money')
      /\ ~OthersActive(s) => /\ payment' = PaymentAfterRefund(ClosePendingPayment(payment), money')
                             /\ Closed'
      /\ OthersActive(s) => ~Closed'
      /\ ~Closed
  BY DEF CancelSchedule, SyncAfterClaim, bookingVars, Closed, OpenStatus, ClosedStatus
<1>3. /\ keys \in SUBSET RefundKeys /\ keys \subseteq KeysOf(s) /\ keys \cap money.keys = {}
      /\ keys \cap BookingKeys = {}
  BY <1>1, KeysDiffer DEF RefundKeys, KeysOf, OutcomeInvariant, KeysAreUsed, DoneStatus
<1>4. \A t \in Sessions : keys \cap KeysOf(t) # {} => t \in {s}
  BY <1>3, KeysDiffer
<1>5. PerSession * Cardinality({s}) = PerSession
  BY FS_Singleton, PerSessionNat
<1>6. CASE OthersActive(s) \/ SomeCompleted
  <2>1. amount = PerSession * Cardinality({s})
    BY <1>5, <1>6
  <2>2. SomeCompleted \/ \E t \in Sessions \ {s} : sessionStatus[t] \in ActiveStatus
    BY <1>6 DEF OthersActive
  <2>3. Closed' => SomeCompleted
    BY <1>2, <1>6
  <2>4. \A t \in {s} : sessionStatus[t] = "PENDING"
    BY <1>1
  <2> HIDE DEF keys, amount
  <2> QED BY <1>1, <1>2, <1>3, <1>4, <2>1, <2>2, <2>3, <2>4, OutcomeDropped
<1>7. CASE ~OthersActive(s) /\ ~SomeCompleted
  <2>1. amount = Total
    BY <1>7
  <2>2. \A t \in Sessions : sessionStatus'[t] \in DoneStatus /\ sessionStatus'[t] # "COMPLETED"
    BY <1>1, <1>7 DEF SetSessions, DoneStatus, SomeCompleted, OthersActive, TypeOK
  <2> HIDE DEF keys, amount
  <2>3. /\ FullMeansRefunded(money)' /\ money'.status \in {"UNPAID", "REFUNDED"}
        /\ money'.status = "UNPAID" <=> money.status = "UNPAID"
    <3>1. money' \in MoneyType /\ (money'.status = "UNPAID" <=> money.status = "UNPAID")
      BY <1>1, <1>3, <2>1, RefundType, PriceAssumption DEF TypeOK
    <3>2. FullMeansRefunded(money)' /\ money'.status # "PAID"
      BY <1>1, <1>3, <2>1, RefundKeeps, RefundAll, PriceAssumption
         DEF TypeOK, OutcomeInvariant, FullMeansRefunded
    <3> QED BY <3>1, <3>2 DEF MoneyType
  <2>4. ~SomeCompleted'
    BY <2>2 DEF SomeCompleted
  <2> QED BY <1>1, <1>2, <1>7, <2>2, <2>3, <2>4, OutcomeNothingKept
<1> QED BY <1>6, <1>7

\* The job gives sessions up; without work, the last take all of the price back.
LEMMA OutcomeExpire ==
    ASSUME TypeOK, OutcomeInvariant, Expire
    PROVE  OutcomeInvariant'
<1>1. PICK gone, missed \in SUBSET Sessions : ExpireOf(gone, missed)
  BY ExpireForm
<1> DEFINE keys == missed \X {"missed"}
           amount == PerSession * Cardinality(missed)
<1>2. /\ SetSessions(missed, "MISSED") /\ UNCHANGED <<method, paidAt>>
      /\ \A s \in missed : sessionStatus[s] = "PENDING"
      /\ missed # {} => bookingStatus \in OpenStatus
      /\ money' = IF Fails(missed) THEN Refund(Shared(missed), Total, {<<"booking", "failed">>})
                                   ELSE Refund(money, amount, keys)
      /\ payment' = PaymentAfterRefund(
                        IF Fails(missed) THEN ClosePendingPayment(payment) ELSE payment, money')
      /\ Shared(missed) = Refund(money, amount, keys)
  BY <1>1 DEF ExpireOf, Shared
<1>3. /\ missed # {} => ~Closed
      /\ Ends(missed) => Closed'
      /\ ~Ends(missed) => (Closed' <=> Closed)
  BY <1>1 DEF ExpireOf, Closed, OpenStatus, ClosedStatus, Fails, Ends
<1>4. /\ keys \in SUBSET RefundKeys /\ keys \cap money.keys = {} /\ keys \cap BookingKeys = {}
      /\ \A s \in Sessions : keys \cap KeysOf(s) # {} => s \in missed
  <2>1. \A k \in keys : \E s \in missed : k \in KeysOf(s)
    BY DEF KeysOf
  <2>2. keys \cap money.keys = {}
    BY <1>2, <2>1 DEF OutcomeInvariant, KeysAreUsed, DoneStatus
  <2> QED BY <2>1, <2>2, KeysDiffer DEF RefundKeys
<1>5. amount \in Nat
  BY ShareBelow
<1>6. CASE missed = {}
  <2>1. amount = 0 /\ ~Ends(missed) /\ ~Fails(missed)
    BY <1>6, FS_EmptySet, PerSessionNat DEF Ends, Fails
  <2> HIDE DEF keys, amount
  <2>2. money' = money
    BY <1>2, <1>4, <1>5, <2>1, RefundKeeps DEF OutcomeInvariant, TypeOK
  <2>3. payment' = payment
    BY <1>2, <2>1, <2>2 DEF OutcomeInvariant, PaymentAgrees, PaymentAfterRefund
  <2>4. sessionStatus' = sessionStatus
    BY <1>2, <1>6 DEF SetSessions, TypeOK
  <2> QED BY <1>2, <1>3, <2>1, <2>2, <2>3, <2>4, OutcomeUnchanged
<1>7. CASE missed # {} /\ ~Fails(missed)
  <2>1. SomeCompleted \/ \E s \in Sessions \ missed : sessionStatus[s] \in ActiveStatus
    BY <1>7 DEF Fails, Ends
  <2>2. Closed' => SomeCompleted
    BY <1>3, <1>7 DEF Fails
  <2>3. money' = Refund(money, amount, keys) /\ payment' = PaymentAfterRefund(payment, money')
    BY <1>2, <1>7
  <2>4. amount = PerSession * Cardinality(missed)
    OBVIOUS
  <2> HIDE DEF keys, amount
  <2> QED BY <1>2, <1>3, <1>4, <1>7, <2>1, <2>2, <2>3, <2>4, OutcomeDropped
<1>8. CASE missed # {} /\ Fails(missed)
  <2> DEFINE shared == Shared(missed)
             failed == {<<"booking", "failed">>}
  <2>1. /\ money' = Refund(shared, Total, failed)
        /\ payment' = PaymentAfterRefund(ClosePendingPayment(payment), money')
    BY <1>2, <1>8
  <2>2. \A s \in Sessions : sessionStatus'[s] \in DoneStatus /\ sessionStatus'[s] # "COMPLETED"
    BY <1>2, <1>8 DEF SetSessions, DoneStatus, SomeCompleted, Fails, Ends, TypeOK
  <2>3. failed \in SUBSET RefundKeys /\ failed \subseteq BookingKeys
    BY DEF RefundKeys, BookingKeys
  <2>4. /\ shared \in MoneyType /\ FullMeansRefunded(shared)
        /\ shared.status = "UNPAID" <=> money.status = "UNPAID"
        /\ shared.keys \subseteq money.keys \cup keys
    <3> HIDE DEF keys, amount
    <3> QED BY <1>2, <1>4, <1>5, RefundType, RefundKeeps DEF TypeOK, OutcomeInvariant
  <2>5. failed \cap shared.keys = {}
    BY <1>3, <1>4, <1>8, <2>3, <2>4 DEF OutcomeInvariant, KeysAreUsed
  <2> HIDE DEF failed, shared, keys, amount
  <2>6. /\ money' \in MoneyType /\ FullMeansRefunded(money') /\ money'.status # "PAID"
        /\ money'.status = "UNPAID" <=> shared.status = "UNPAID"
    BY <2>1, <2>3, <2>4, <2>5, RefundType, RefundKeeps, RefundAll, PriceAssumption
  <2>7. FullMeansRefunded(money)' /\ money'.status \in {"UNPAID", "REFUNDED"}
    BY <2>6 DEF FullMeansRefunded, MoneyType
  <2>8. ~SomeCompleted' /\ Closed'
    BY <1>3, <1>8, <2>2 DEF SomeCompleted, Fails
  <2> QED BY <1>2, <2>1, <2>2, <2>4, <2>6, <2>7, <2>8, OutcomeNothingKept
<1> QED BY <1>6, <1>7, <1>8

\* Work is begun and done on open bookings, and drops no session.
LEMMA OutcomeWork ==
    ASSUME TypeOK, Settled, OutcomeInvariant, NEW s \in Sessions,
           CheckIn(s) \/ CheckOut(s) \/ MissedCheckOut(s) \/ AdminComplete(s)
    PROVE  OutcomeInvariant'
<1>1. CASE CheckIn(s)
  <2>1. /\ \A t \in Sessions : sessionStatus'[t] = IF t = s THEN "IN_PROGRESS" ELSE sessionStatus[t]
        /\ sessionStatus[s] = "PENDING" /\ bookingStatus \in OpenStatus
        /\ bookingStatus' = "IN_PROGRESS" /\ UNCHANGED <<money, method, payment, paidAt>>
    BY <1>1 DEF CheckIn, SetSessions, moneyVars
  <2>2. Dropped' = Dropped /\ (SomeCompleted' <=> SomeCompleted) /\ ~Closed /\ ~Closed'
    BY <2>1 DEF Dropped, SomeCompleted, Closed, OpenStatus, ClosedStatus
  <2>3. SharesGivenBack'
    BY <2>1, <2>2 DEF OutcomeInvariant, SharesGivenBack
  <2>4. NoWorkNoMoney'
    BY <2>1, <2>2 DEF NoWorkNoMoney, ActiveStatus
  <2>5. PaymentAgrees' /\ FullMeansRefunded(money)' /\ KeysAreUsed'
    BY <2>1, <2>2 DEF OutcomeInvariant, PaymentAgrees, FullMeansRefunded, KeysAreUsed, DoneStatus
  <2> QED BY <2>3, <2>4, <2>5 DEF OutcomeInvariant
<1>2. ASSUME NEW w, NEW enough, Complete(s, w, enough) PROVE OutcomeInvariant'
  <2>1. /\ \A t \in Sessions : sessionStatus'[t] = IF t = s THEN "COMPLETED" ELSE sessionStatus[t]
        /\ sessionStatus[s] = "IN_PROGRESS" /\ UNCHANGED <<money, method, payment, paidAt>>
    BY <1>2 DEF Complete, SetSessions, moneyVars
  <2>2. Dropped' = Dropped /\ SomeCompleted' /\ ~Closed
    BY <2>1 DEF Dropped, SomeCompleted, Settled, ClosedBookingHasNoActiveSession, ActiveStatus
  <2>3. SharesGivenBack' /\ NoWorkNoMoney'
    BY <2>1, <2>2 DEF OutcomeInvariant, SharesGivenBack, NoWorkNoMoney
  <2>4. PaymentAgrees' /\ FullMeansRefunded(money)' /\ KeysAreUsed'
    BY <2>1, <2>2 DEF OutcomeInvariant, PaymentAgrees, FullMeansRefunded, KeysAreUsed, DoneStatus
  <2> QED BY <2>3, <2>4 DEF OutcomeInvariant
<1> QED BY <1>1, <1>2 DEF CheckOut, MissedCheckOut, AdminComplete, CompleteForWorker

\* Every step keeps the accounts of the booking.
LEMMA NextOutcome == TypeOK /\ Settled /\ OutcomeInvariant /\ [Next]_vars => OutcomeInvariant'
<1> SUFFICES ASSUME TypeOK, Settled, OutcomeInvariant, [Next]_vars PROVE OutcomeInvariant'
  OBVIOUS
<1>1. Closed => Closed'
  BY NextSettled DEF SettledStep, FinalStep, Closed
<1> USE DEF bookingVars, moneyVars, sessionVars, workerVars, raceVars
<1>2. CASE PaymentStep
  BY <1>2, OutcomePayment
<1>3. CASE BookingStep
  <2>1. CASE CustomerCancel \/ AdminCancel
    BY <2>1, OutcomeCancelCore DEF CustomerCancel, AdminCancel
  <2>2. CASE ListLate \/ ListStale
    BY <2>2, OutcomeUnchanged DEF ListLate, ListStale, Closed
  <2>3. CASE Expire
    BY <2>3, OutcomeExpire
  <2> QED BY <1>3, <2>1, <2>2, <2>3 DEF BookingStep
<1>4. ASSUME NEW w \in Workers, NEW S \in SUBSET Sessions, Accept(w, S) PROVE OutcomeInvariant'
  <2>1. UNCHANGED <<money, method, payment, paidAt, sessionStatus>> /\ (Closed' <=> Closed)
    BY <1>4 DEF Accept, SyncAfterClaim, Closed, OpenStatus, ClosedStatus
  <2> QED BY <2>1, OutcomeUnchanged
<1>5. ASSUME NEW w \in Workers, NEW S \in SUBSET Sessions, ClaimPackage(w, S)
      PROVE  OutcomeInvariant'
  BY <1>4, <1>5 DEF ClaimPackage
<1>6. ASSUME NEW s \in Sessions, SessionStep(s) PROVE OutcomeInvariant'
  <2>1. ASSUME NEW w \in Workers, ClaimSchedule(w, s) PROVE OutcomeInvariant'
    <3>1. {s} \in SUBSET Sessions OBVIOUS
    <3> QED BY <1>4, <2>1, <3>1 DEF ClaimSchedule
  <2>2. CASE CancelSchedule(s)
    BY <2>2, OutcomeCancelSchedule
  <2>3. CASE \/ (\E p \in Far..Early : Reschedule(s, p)) \/ Tick(s)
             \/ UnassignRead(s) \/ UnassignRollback(s)
             \/ (\E w \in Workers : LookUp(s, w)) \/ RejectRequest(s)
    BY <2>3, OutcomeUnchanged
       DEF Reschedule, Tick, UnassignRead, UnassignRollback, LookUp, RejectRequest, Closed
  <2>4. ASSUME NEW status, RemoveWorker(s, status) PROVE OutcomeInvariant'
    <3>1. Closed' => Closed
      BY <2>4 DEF RemoveWorker, Closed, ClosedStatus
    <3>2. UNCHANGED <<money, method, payment, paidAt, sessionStatus>>
      BY <2>4 DEF RemoveWorker
    <3> QED BY <1>1, <3>1, <3>2, OutcomeUnchanged
  <2>5. CASE CancelAssignment(s) \/ UnassignCommit(s)
    BY <2>4, <2>5 DEF CancelAssignment, UnassignCommit
  <2>6. CASE CheckIn(s) \/ CheckOut(s) \/ MissedCheckOut(s) \/ AdminComplete(s)
    BY <2>6, OutcomeWork
  <2> QED BY <1>6, <2>1, <2>2, <2>3, <2>5, <2>6, Zenon DEF SessionStep
<1>7. CASE UNCHANGED vars
  BY <1>7, OutcomeUnchanged DEF vars, Closed
<1> QED BY <1>2, <1>3, <1>5, <1>6, <1>7 DEF Next

\* A new booking has given nothing back and has all its sessions to do.
LEMMA InitOutcome == Init => OutcomeInvariant
<1> SUFFICES ASSUME Init PROVE OutcomeInvariant
  OBVIOUS
<1>1. Dropped = {} /\ ~Closed /\ ~SomeCompleted /\ \E s \in Sessions : sessionStatus[s] \in ActiveStatus
  BY SessionsAssumption DEF Init, Dropped, Closed, ClosedStatus, SomeCompleted, ActiveStatus
<1>2. PerSession * Cardinality(Dropped) = 0
  BY <1>1, FS_EmptySet, PerSessionNat
<1>3. FullMeansRefunded(money) /\ SharesGivenBack
  BY <1>2, PriceAssumption DEF Init, FullMeansRefunded, SharesGivenBack
<1>4. NoWorkNoMoney /\ KeysAreUsed
  BY <1>1 DEF Init, NoWorkNoMoney, KeysAreUsed
<1>5. PaymentAgrees
  BY DEF Init, PaymentAgrees
<1> QED BY <1>3, <1>4, <1>5 DEF OutcomeInvariant

\* A booking that has ended kept exactly the price of the work done, whoever dropped which of
\* its sessions and whenever it was paid; no payment stays pending, and without work no money is kept.
THEOREM EndKeepsThePrice == Spec => []EndedIsSettled
<1>1. TypeOK /\ Settled /\ OutcomeInvariant => EndedIsSettled
  <2> SUFFICES ASSUME TypeOK, Settled, OutcomeInvariant PROVE EndedIsSettled
    OBVIOUS
  <2>1. RefundMatchesOutcome
    BY DEF OutcomeInvariant, SharesGivenBack, NoWorkNoMoney, PaymentAgrees, FullMeansRefunded,
           RefundMatchesOutcome, TypeOK, MoneyType
  <2>2. Closed /\ SomeCompleted => money.status # "REFUNDED" /\ payment # "REFUNDED"
    BY NotAllBack DEF OutcomeInvariant, PaymentAgrees, Settled, UnpaidIsIdle, SomeCompleted,
           TypeOK, MoneyType
  <2>3. Closed /\ ~SomeCompleted => money.status # "PAID" /\ payment \notin {"PENDING", "SUCCESS"}
    BY DEF OutcomeInvariant, NoWorkNoMoney, PaymentAgrees
  <2> QED BY <2>1, <2>2, <2>3 DEF EndedIsSettled, NothingDoneNothingKept
<1>2. TypeOK /\ Settled /\ OutcomeInvariant /\ [Next]_vars => OutcomeInvariant'
  BY NextOutcome
<1> QED BY <1>1, <1>2, InitOutcome, TypeCorrect, AlwaysSettled, PTL DEF Spec
=============================================================================
