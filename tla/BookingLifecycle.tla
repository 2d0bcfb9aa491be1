-------------------------- MODULE BookingLifecycle --------------------------
(***************************************************************************)
(* One CleanWise booking from creation to its final status: its sessions   *)
(* (BookingSchedule), the worker accepted for each session                 *)
(* (BookingAssignment), its only payment, its voucher, the refunds it pays *)
(* and the cash commission its workers hold back.                          *)
(*                                                                         *)
(* Every service function that starts by locking the booking row is one    *)
(* action: PostgreSQL runs it as one transaction and the lock is held to   *)
(* the commit.  Functions that read before they hold that lock are split   *)
(* where they read: the admin unassigning a worker (UnassignRead), the     *)
(* worker's check-in and check-out (LookUp) and the expiry job, which      *)
(* lists sessions before it takes the lock (ListLate, ListStale).          *)
(*                                                                         *)
(* Wall-clock time is kept per session, as the part of its schedule the    *)
(* clock has reached; sessions of a booking move independently because     *)
(* their start times are arbitrary.                                        *)
(***************************************************************************)
EXTENDS Integers, FiniteSets

CONSTANTS
    Sessions,       \* the booking's sessions
    Workers,        \* the workers who may take them
    NoWorker,       \* no accepted assignment
    Methods,        \* payment methods the customer may choose from
    Total,          \* booking.total_amount, in dong
    MaxReschedules  \* bound: how often the admin moves a session

ASSUME SessionsAssumption == IsFiniteSet(Sessions) /\ Sessions # {}
ASSUME WorkersAssumption == NoWorker \notin Workers
ASSUME MethodsAssumption == Methods \subseteq {"CASH", "BANK_TRANSFER", "WALLET"}
\* "booking" names the booking itself in the key of a refund.
ASSUME NamesAssumption == "booking" \notin Sessions
ASSUME BoundAssumption == MaxReschedules \in Nat

SessionCount == Cardinality(Sessions)

\* refund_service.per_session_refund_amount: total / sessions, half up.
PerSession == (2 * Total + SessionCount) \div (2 * SessionCount)

\* The price is large enough for the rounded share of all sessions but one
\* to stay below it.
ASSUME PriceAssumption ==
    /\ Total \in Nat \ {0}
    /\ (SessionCount - 1) * PerSession < Total

VARIABLES
    bookingStatus,      \* Booking.status
    money,              \* Booking.payment_status, refunded_amount, refund keys
    method,             \* Payment.method
    payment,            \* Payment.status
    paidAt,             \* Payment.paid_at is set
    transfer,           \* the bank transfer the customer made, if any
    returned,           \* money put back in the wallet by refund_unmatched_payment
    voucher,            \* UserVoucher.status of the booking's voucher
    sessionStatus,      \* BookingSchedule.status
    phase,              \* where the clock stands in the session's schedule
    worker,             \* worker of the ACCEPTED assignment of the session
    reserved,           \* that assignment holds a cash commission
    debited,            \* commissions taken from each worker's wallet, net
    earning,            \* worker of the session's WorkerEarning
    settled,            \* WorkerEarning.settled_at is set
    reschedules,        \* number of reschedules so far
    unassigning,        \* booking status read by an unassign in flight
    lookup,             \* worker whose request passed the assignment lookup
    late,               \* sessions an expiry job listed: no check-in in time
    stale,              \* sessions an expiry job listed: not claimed in time
    raced               \* some transaction acted on a value read before its lock

bookingVars == <<bookingStatus, voucher>>
moneyVars == <<money, method, payment, paidAt, transfer, returned>>
sessionVars == <<sessionStatus, phase, reschedules>>
workerVars == <<worker, reserved, debited, earning, settled>>
raceVars == <<unassigning, lookup, late, stale, raced>>
vars == <<bookingVars, moneyVars, sessionVars, workerVars, raceVars>>

OpenStatus == {"PENDING", "ASSIGNED", "IN_PROGRESS"}
ClosedStatus == {"COMPLETED", "CANCELLED", "FAILED"}
ActiveStatus == {"PENDING", "IN_PROGRESS"}
DoneStatus == {"COMPLETED", "CANCELLED", "MISSED"}
NotReading == "not reading"

\* The clock against one session: more than 6 hours to the start, less than
\* that, the last 30 minutes, the first 30 minutes after the start, up to 30
\* minutes after the end, later.
Far == 0
Near == 1
Early == 2
Grace == 3
Work == 4
Over == 5

Closed == bookingStatus \in ClosedStatus
SomeCompleted == \E s \in Sessions : sessionStatus[s] = "COMPLETED"
MutantOnlyPendingIsActive(s) == \E t \in Sessions \ {s} : sessionStatus[t] = "PENDING"
OthersActive(s) == \E t \in Sessions \ {s} : sessionStatus[t] \in ActiveStatus

\* assignment_service._is_bookable.
Bookable == money.status = "PAID" \/ method = "CASH"

Amount(t) == CASE t = "under" -> Total - 1
               [] t = "exact" -> Total
               [] t = "over"  -> Total + 1
               [] OTHER       -> 0

-----------------------------------------------------------------------------
(* Helpers shared by the handlers *)

MutantRefundUncapped(m, amount, keys) ==
    IF m.status # "PAID" \/ keys \cap m.keys # {} THEN m
    ELSE [status   |-> IF m.refunded + amount >= Total THEN "REFUNDED" ELSE "PAID",
          refunded |-> m.refunded + amount,
          keys     |-> m.keys \cup keys]
MutantRefundAllOrNothing(m, amount, keys) ==
    IF m.refunded + amount > Total THEN m ELSE MutantRefundUncapped(m, amount, keys)

\* refund_service.refund_booking on the record m: idempotent by key, never
\* more than what is left, REFUNDED once all of the price went back.  Several
\* keys stand for the calls of one transaction, one share each: only the last
\* can be cut short (PriceAssumption), so their sum is refunded at once.
Refund(m, amount, keys) ==
    LET left == Total - m.refunded
        due == IF amount < left THEN amount ELSE left
    IN  IF m.status # "PAID" \/ keys \cap m.keys # {} \/ due <= 0
        THEN m
        ELSE [status   |-> IF m.refunded + due >= Total THEN "REFUNDED" ELSE "PAID",
              refunded |-> m.refunded + due,
              keys     |-> m.keys \cup keys]

\* A pending payment is cancelled; a full refund turns a successful one.
ClosePendingPayment(p) == IF p = "PENDING" THEN "CANCELLED" ELSE p
PaymentAfterRefund(p, m) ==
    IF m.status = "REFUNDED" /\ p = "SUCCESS" THEN "REFUNDED" ELSE p

\* voucher_service: marking used raises on a released voucher, which rolls the
\* transaction back; releasing takes RESERVED and USED back to AVAILABLE.
CanMarkUsed == voucher # "AVAILABLE"
MarkUsed(v) == IF v = "NONE" THEN v ELSE "USED"
MutantReleaseReservedOnly(v) == IF v = "RESERVED" THEN "AVAILABLE" ELSE v
Release(v) == IF v = "NONE" THEN v ELSE "AVAILABLE"

MutantReleaseWithoutCredit(S) ==
    /\ reserved' = [s \in Sessions |-> reserved[s] /\ s \notin S]
    /\ debited' = debited

\* earning_service.release_cash_commission for the assignments of sessions S.
ReleaseCommission(S) ==
    /\ reserved' = [s \in Sessions |-> reserved[s] /\ s \notin S]
    /\ debited' = [w \in Workers |->
          debited[w] - Cardinality({s \in S : worker[s] = w /\ reserved[s]})]

\* The accepted assignments of S end.
DropWorkers(S) == worker' = [s \in Sessions |-> IF s \in S THEN NoWorker ELSE worker[s]]

\* What an expiry run listed as late is the assignment: it will find it ended.
Forget(S) == late' = late \ S

SetSessions(S, status) ==
    sessionStatus' = [s \in Sessions |-> IF s \in S THEN status ELSE sessionStatus[s]]

-----------------------------------------------------------------------------
(* booking_service.create_booking: CASH only for a single session; a wallet *)
(* booking is paid, and its voucher used, in the same transaction.          *)
Init ==
    /\ method \in Methods
    /\ method = "CASH" => SessionCount = 1
    /\ bookingStatus = "PENDING"
    /\ money = [status   |-> IF method = "WALLET" THEN "PAID" ELSE "UNPAID",
                refunded |-> 0, keys |-> {}]
    /\ payment = IF method = "WALLET" THEN "SUCCESS" ELSE "PENDING"
    /\ paidAt = (method = "WALLET")
    /\ voucher \in {"NONE", IF method = "WALLET" THEN "USED" ELSE "RESERVED"}
    /\ transfer = "none"
    /\ returned = 0
    /\ sessionStatus = [s \in Sessions |-> "PENDING"]
    /\ phase \in [Sessions -> {Far, Near}]
    /\ worker = [s \in Sessions |-> NoWorker]
    /\ reserved = [s \in Sessions |-> FALSE]
    /\ debited = [w \in Workers |-> 0]
    /\ earning = [s \in Sessions |-> NoWorker]
    /\ settled = [s \in Sessions |-> FALSE]
    /\ reschedules = 0
    /\ unassigning = [s \in Sessions |-> NotReading]
    /\ lookup = [s \in Sessions |-> NoWorker]
    /\ late = {}
    /\ stale = {}
    /\ raced = FALSE

-----------------------------------------------------------------------------
(* Payment: PayOS transfer and webhook, expiry of unpaid bookings *)

\* The customer transfers money, at any time, even after the booking closed.
Transfer(t) ==
    /\ method = "BANK_TRANSFER" /\ transfer = "none"
    /\ transfer' = t
    /\ UNCHANGED <<bookingVars, money, method, payment, paidAt, returned,
                   sessionVars, workerVars, raceVars>>

\* expiry_service.cancel_unpaid_booking, on payment p.  It leaves assignments
\* alone and turns MISSED sessions into CANCELLED ones.
CancelUnpaid(p) ==
    LET dropped == {s \in Sessions : sessionStatus[s] \notin {"COMPLETED", "CANCELLED"}}
    IN  /\ bookingStatus' = "CANCELLED"
        /\ SetSessions(dropped, "CANCELLED")
        /\ payment' = ClosePendingPayment(p)
        /\ voucher' = Release(voucher)
        /\ UNCHANGED <<phase, reschedules, workerVars, raceVars>>

ExpireUnpaid ==
    /\ method = "BANK_TRANSFER"
    /\ bookingStatus = "PENDING" /\ money.status = "UNPAID"
    /\ CancelUnpaid(payment)
    /\ UNCHANGED <<money, method, paidAt, transfer, returned>>

\* handle_payos_webhook may be delivered late and many times; paid_at makes a
\* repeated delivery return before it changes anything.
MutantDeliveredAgain == transfer # "none"
Delivered == transfer # "none" /\ ~paidAt
TooLate ==
    \/ payment # "PENDING"
    \/ bookingStatus \in {"CANCELLED", "FAILED"}
    \/ money.status # "UNPAID"

WebhookLate ==
    /\ Delivered /\ TooLate
    /\ payment' = "REFUNDED"
    /\ paidAt' = TRUE
    /\ returned' = returned + Amount(transfer)
    /\ UNCHANGED <<bookingVars, money, method, transfer, sessionVars, workerVars, raceVars>>

WebhookUnder ==
    /\ Delivered /\ ~TooLate /\ Amount(transfer) < Total
    /\ paidAt' = TRUE
    /\ returned' = returned + Amount(transfer)
    /\ CancelUnpaid("REFUNDED")
    /\ UNCHANGED <<money, method, transfer>>

WebhookPaid ==
    /\ Delivered /\ ~TooLate /\ Amount(transfer) >= Total
    /\ CanMarkUsed
    /\ payment' = "SUCCESS"
    /\ paidAt' = TRUE
    /\ money' = [money EXCEPT !.status = "PAID"]
    /\ voucher' = MarkUsed(voucher)
    /\ returned' = returned + (Amount(transfer) - Total)
    /\ UNCHANGED <<bookingStatus, method, transfer, sessionVars, workerVars, raceVars>>

\* checkin_service._settle_cash_payment, by the worker or after 24 hours.
ConfirmCash ==
    /\ method = "CASH" /\ payment = "PENDING"
    /\ bookingStatus = "COMPLETED"
    /\ payment' = "SUCCESS"
    /\ paidAt' = TRUE
    /\ money' = [money EXCEPT !.status = "PAID"]
    /\ UNCHANGED <<bookingVars, method, transfer, returned, sessionVars, workerVars, raceVars>>

-----------------------------------------------------------------------------
(* Taking and leaving sessions *)

Claimable(s) ==
    /\ sessionStatus[s] = "PENDING" /\ worker[s] = NoWorker
    /\ phase[s] < Grace

MutantCoveredOnce(ss, wk) == \E s \in Sessions : ss[s] # "CANCELLED" /\ wk[s] # NoWorker

\* _sync_booking_status_after_claim: every session that is not cancelled,
\* missed ones included, has an accepted worker in wk.
Covered(ss, wk) ==
    /\ \E s \in Sessions : ss[s] # "CANCELLED"
    /\ \A s \in Sessions : ss[s] # "CANCELLED" => wk[s] # NoWorker

SyncAfterClaim ==
    IF bookingStatus = "PENDING" /\ Covered(sessionStatus', worker')
    THEN CanMarkUsed /\ bookingStatus' = "ASSIGNED" /\ voucher' = MarkUsed(voucher)
    ELSE UNCHANGED bookingVars

\* Worker w is accepted for all of S; a cash booking reserves the commission
\* of each session from w's wallet (too little money rolls the claim back).
Accept(w, S) ==
    /\ bookingStatus \in OpenStatus /\ Bookable
    /\ \A s \in S : Claimable(s)
    /\ worker' = [s \in Sessions |-> IF s \in S THEN w ELSE worker[s]]
    /\ IF method = "CASH"
       THEN /\ reserved' = [s \in Sessions |-> reserved[s] \/ s \in S]
            /\ debited' = [debited EXCEPT ![w] = @ + Cardinality(S)]
       ELSE UNCHANGED <<reserved, debited>>
    /\ sessionStatus' = sessionStatus
    /\ SyncAfterClaim
    /\ UNCHANGED <<moneyVars, phase, reschedules, earning, settled, raceVars>>

\* claim_schedule, also reached by accepting an invitation.
ClaimSchedule(w, s) == Accept(w, {s})

\* claim_booking_package: the sessions it does not skip.
ClaimPackage(w, S) == Cardinality(S) > 1 /\ Accept(w, S)

\* The worker of s is removed and an ASSIGNED booking looks for one again.
RemoveWorker(s, status) ==
    /\ ReleaseCommission({s})
    /\ DropWorkers({s})
    /\ Forget({s})
    /\ bookingStatus' = IF status = "ASSIGNED" THEN "PENDING" ELSE bookingStatus
    /\ UNCHANGED <<voucher, moneyVars, sessionVars, earning, settled, stale>>

\* cancel_assignment: by the worker, at least 6 hours before the start.
CancelAssignment(s) ==
    /\ worker[s] # NoWorker /\ sessionStatus[s] = "PENDING"
    /\ bookingStatus \in OpenStatus
    /\ phase[s] = Far
    /\ RemoveWorker(s, bookingStatus)
    /\ UNCHANGED <<unassigning, lookup, raced>>

\* unassign_worker_by_admin: the query that locks the session reads the
\* booking by a join, when the query starts and without locking it ...
UnassignRead(s) ==
    /\ unassigning[s] = NotReading /\ sessionStatus[s] = "PENDING"
    /\ unassigning' = [unassigning EXCEPT ![s] = bookingStatus]
    /\ UNCHANGED <<bookingVars, moneyVars, sessionVars, workerVars,
                   lookup, late, stale, raced>>

\* ... the locked session and assignment are checked, and the booking written
\* from the status read.  raced records that reading it under the booking's
\* lock would have left another status.
UnassignCommit(s) ==
    /\ unassigning[s] # NotReading
    /\ worker[s] # NoWorker /\ sessionStatus[s] = "PENDING"
    /\ RemoveWorker(s, unassigning[s])
    /\ unassigning' = [unassigning EXCEPT ![s] = NotReading]
    /\ raced' = (raced \/ bookingStatus' #
                    IF bookingStatus = "ASSIGNED" THEN "PENDING" ELSE bookingStatus)
    /\ UNCHANGED lookup

\* Refused by those checks, or aborted by the database (a deadlock).
UnassignRollback(s) ==
    /\ unassigning[s] # NotReading
    /\ unassigning' = [unassigning EXCEPT ![s] = NotReading]
    /\ UNCHANGED <<bookingVars, moneyVars, sessionVars, workerVars,
                   lookup, late, stale, raced>>

-----------------------------------------------------------------------------
(* Doing the work *)

\* checkin_service._get_my_accepted_schedule looks the assignment up, then
\* locks the booking and the session.  One request per session at a time;
\* those that start too early or too late to succeed are left out.
LookUp(s, w) ==
    /\ lookup[s] = NoWorker /\ worker[s] = w
    /\ \/ sessionStatus[s] = "PENDING" /\ phase[s] \in {Early, Grace}
       \/ sessionStatus[s] = "IN_PROGRESS" /\ phase[s] <= Work
    /\ lookup' = [lookup EXCEPT ![s] = w]
    /\ UNCHANGED <<bookingVars, moneyVars, sessionVars, workerVars,
                   unassigning, late, stale, raced>>

\* The request ends.  raced records that its worker has lost the session.
EndRequest(s) ==
    /\ lookup' = [lookup EXCEPT ![s] = NoWorker]
    /\ raced' = (raced \/ worker[s] # lookup[s])
    /\ UNCHANGED <<unassigning, late, stale>>

\* check_in.
CheckIn(s) ==
    /\ lookup[s] # NoWorker
    /\ sessionStatus[s] = "PENDING" /\ phase[s] \in {Early, Grace}
    /\ bookingStatus \in OpenStatus /\ CanMarkUsed
    /\ SetSessions({s}, "IN_PROGRESS")
    /\ bookingStatus' = "IN_PROGRESS"
    /\ voucher' = MarkUsed(voucher)
    /\ EndRequest(s)
    /\ UNCHANGED <<moneyVars, phase, reschedules, workerVars>>

\* Refused (too far away, too late, no photos, session gone) or died.
RejectRequest(s) ==
    /\ lookup[s] # NoWorker
    /\ lookup' = [lookup EXCEPT ![s] = NoWorker]
    /\ UNCHANGED <<bookingVars, moneyVars, sessionVars, workerVars,
                   unassigning, late, stale, raced>>

\* The session is done and its earning recorded for worker w
\* (record_schedule_earning).  A cash commission is settled from the
\* reservation of w's assignment, else from w's wallet if it has enough.
Complete(s, w, enough) ==
    LET held == worker[s] = w /\ reserved[s]
        owed == method = "CASH" /\ ~held
    IN  /\ sessionStatus[s] = "IN_PROGRESS"
        /\ SetSessions({s}, "COMPLETED")
        /\ bookingStatus' = IF ~OthersActive(s) /\ bookingStatus = "IN_PROGRESS"
                            THEN "COMPLETED" ELSE bookingStatus
        /\ earning' = [earning EXCEPT ![s] = w]
        /\ reserved' = [reserved EXCEPT ![s] = @ /\ ~held]
        /\ settled' = [settled EXCEPT ![s] = held \/ (owed /\ enough)]
        /\ debited' = IF owed /\ enough THEN [debited EXCEPT ![w] = @ + 1] ELSE debited
        /\ UNCHANGED <<voucher, moneyVars, phase, reschedules, worker>>

\* check_out, until 30 minutes after the end.
CheckOut(s) ==
    /\ lookup[s] # NoWorker /\ phase[s] <= Work
    /\ \E enough \in BOOLEAN : Complete(s, lookup[s], enough)
    /\ EndRequest(s)

\* A session in progress without a worker is skipped or refused.
CompleteForWorker(s) ==
    /\ worker[s] # NoWorker
    /\ \E enough \in BOOLEAN : Complete(s, worker[s], enough)
    /\ UNCHANGED raceVars

\* handle_missed_checkouts, later.
MissedCheckOut(s) == phase[s] = Over /\ CompleteForWorker(s)

\* complete_schedule_by_admin.
AdminComplete(s) == CompleteForWorker(s)

-----------------------------------------------------------------------------
(* Cancelling *)

\* cancel_booking_core: every session not yet done.
CancelCore ==
    LET toCancel == {s \in Sessions : sessionStatus[s] \notin DoneStatus}
        amount == IF SomeCompleted THEN PerSession * Cardinality(toCancel) ELSE Total
    IN  /\ bookingStatus \in OpenStatus
        /\ \A s \in Sessions : sessionStatus[s] # "IN_PROGRESS"
        /\ toCancel # {}
        /\ ReleaseCommission(toCancel)
        /\ DropWorkers(toCancel)
        /\ Forget(toCancel)
        /\ bookingStatus' = "CANCELLED"
        /\ SetSessions(toCancel, "CANCELLED")
        /\ money' = Refund(money, amount, {<<"booking", "cancel">>})
        /\ payment' = PaymentAfterRefund(ClosePendingPayment(payment), money')
        /\ voucher' = IF SomeCompleted THEN voucher ELSE Release(voucher)
        /\ UNCHANGED <<method, paidAt, transfer, returned, phase, reschedules,
                       earning, settled, unassigning, lookup, stale, raced>>

\* cancel_booking: a booking of several sessions only while unpaid online;
\* otherwise 6 hours before the first pending session.
CustomerCancel ==
    LET unpaidOnline == money.status = "UNPAID" /\ method # "CASH"
    IN  /\ unpaidOnline \/ (SessionCount = 1 /\ \A s \in Sessions :
               sessionStatus[s] = "PENDING" => phase[s] = Far)
        /\ CancelCore

AdminCancel == CancelCore

\* cancel_schedule_by_customer.
CancelSchedule(s) ==
    LET last == ~OthersActive(s)
        amount == IF last /\ ~SomeCompleted THEN Total ELSE PerSession
    IN  /\ bookingStatus \in OpenStatus
        /\ sessionStatus[s] = "PENDING" /\ phase[s] = Far
        /\ ~(~last /\ money.status = "UNPAID" /\ method = "BANK_TRANSFER"
               /\ payment = "PENDING")
        /\ ReleaseCommission({s})
        /\ DropWorkers({s})
        /\ Forget({s})
        /\ SetSessions({s}, "CANCELLED")
        /\ money' = Refund(money, amount, {<<s, "cancel">>})
        /\ IF last
           THEN /\ payment' = PaymentAfterRefund(ClosePendingPayment(payment), money')
                /\ bookingStatus' = IF SomeCompleted THEN "COMPLETED" ELSE "CANCELLED"
                /\ voucher' = IF SomeCompleted THEN voucher ELSE Release(voucher)
           ELSE /\ payment' = PaymentAfterRefund(payment, money')
                /\ SyncAfterClaim
        /\ UNCHANGED <<method, paidAt, transfer, returned, phase, reschedules,
                       earning, settled, unassigning, lookup, stale, raced>>

\* expire_unclaimed_schedules, one transaction with handle_missed_checkins: a
\* run lists the assignments without a check-in 30 minutes after the start and,
\* if this booking has none, the sessions nobody took before their start.  No
\* lock is held yet.  One run at a time works on the booking.
Idle == late = {} /\ stale = {}
MutantUnclaimedAnyStatus == {s \in Sessions : worker[s] = NoWorker}
Unclaimed == {s \in Sessions : sessionStatus[s] = "PENDING" /\ worker[s] = NoWorker}

ListLate ==
    /\ Idle
    /\ late' = {s \in Sessions : sessionStatus[s] = "PENDING" /\ worker[s] # NoWorker
                                    /\ phase[s] >= Work}
    /\ late' # {}
    /\ UNCHANGED <<bookingVars, moneyVars, sessionVars, workerVars,
                   unassigning, lookup, stale, raced>>

ListStale ==
    /\ Idle
    /\ stale' = {s \in Unclaimed : phase[s] >= Grace}
    /\ stale' # {}
    /\ UNCHANGED <<bookingVars, moneyVars, sessionVars, workerVars,
                   unassigning, lookup, late, raced>>

MutantOnceOverNotLate == {s \in late : sessionStatus[s] = "PENDING" /\ worker[s] # NoWorker /\ phase[s] < Over}
\* Listed assignments that are still accepted for a session still pending.
StillLate == {s \in late : sessionStatus[s] = "PENDING" /\ worker[s] # NoWorker}

\* Under the booking's lock the run looks at the listed rows again: at their
\* statuses, not at their start times.  It removes the late workers; then it
\* lists the unclaimed sessions, if it has not yet.  Each becomes MISSED and
\* its share is refunded; the booking closes when no session is left to do.
Expire ==
    LET gone == StillLate
        unclaimed == IF late # {} THEN {s \in Unclaimed \cup gone : phase[s] >= Grace}
                                  ELSE stale \cap Unclaimed
        missed == IF bookingStatus \in OpenStatus THEN unclaimed ELSE {}
        ends == missed # {} /\ \A s \in Sessions \ missed : sessionStatus[s] \notin ActiveStatus
        fails == ends /\ ~SomeCompleted
        shared == Refund(money, PerSession * Cardinality(missed), missed \X {"missed"})
    IN  /\ ~Idle
        /\ ReleaseCommission(gone)
        /\ DropWorkers(gone)
        /\ SetSessions(missed, "MISSED")
        /\ money' = IF fails THEN Refund(shared, Total, {<<"booking", "failed">>}) ELSE shared
        /\ payment' = PaymentAfterRefund(
                          IF fails THEN ClosePendingPayment(payment) ELSE payment, money')
        /\ bookingStatus' =
              IF fails THEN "FAILED"
              ELSE IF ends THEN "COMPLETED"
              ELSE IF gone # {} /\ bookingStatus = "ASSIGNED" THEN "PENDING"
              ELSE bookingStatus
        /\ voucher' = IF fails THEN Release(voucher) ELSE voucher
        /\ late' = {} /\ stale' = {}
        /\ UNCHANGED <<method, paidAt, transfer, returned, phase, reschedules,
                       earning, settled, unassigning, lookup, raced>>

-----------------------------------------------------------------------------
(* Schedule and clock *)

\* update_schedule_by_admin: any future time, whatever the booking's status.
Reschedule(s, p) ==
    /\ sessionStatus[s] = "PENDING"
    /\ p < Grace /\ p # phase[s] /\ reschedules < MaxReschedules
    /\ phase' = [phase EXCEPT ![s] = p]
    /\ reschedules' = reschedules + 1
    /\ UNCHANGED <<bookingVars, moneyVars, sessionStatus, workerVars, raceVars>>

\* The clock matters until the session is done.
Tick(s) ==
    /\ sessionStatus[s] \in ActiveStatus /\ phase[s] < Over
    /\ phase' = [phase EXCEPT ![s] = @ + 1]
    /\ UNCHANGED <<bookingVars, moneyVars, sessionStatus, reschedules, workerVars, raceVars>>

-----------------------------------------------------------------------------
PaymentStep ==
    \/ \E t \in {"under", "exact", "over"} : Transfer(t)
    \/ WebhookLate \/ WebhookUnder \/ WebhookPaid
    \/ ExpireUnpaid \/ ConfirmCash

BookingStep == CustomerCancel \/ AdminCancel \/ ListLate \/ ListStale \/ Expire

SessionStep(s) ==
    \/ \E w \in Workers : ClaimSchedule(w, s) \/ LookUp(s, w)
    \/ CancelAssignment(s) \/ CancelSchedule(s)
    \/ UnassignRead(s) \/ UnassignCommit(s) \/ UnassignRollback(s)
    \/ CheckIn(s) \/ RejectRequest(s)
    \/ CheckOut(s) \/ MissedCheckOut(s) \/ AdminComplete(s)
    \/ \E p \in Far..Early : Reschedule(s, p)
    \/ Tick(s)

Next ==
    \/ PaymentStep
    \/ BookingStep
    \/ \E w \in Workers, S \in SUBSET Sessions : ClaimPackage(w, S)
    \/ \E s \in Sessions : SessionStep(s)

Spec == Init /\ [][Next]_vars

\* Celery beat keeps running the expiry and missed check-out jobs, and the
\* clock advances.
Fairness ==
    /\ WF_vars(ListLate \/ ListStale) /\ WF_vars(Expire)
    /\ \A s \in Sessions : WF_vars(Tick(s)) /\ WF_vars(MissedCheckOut(s))

FairSpec == Spec /\ Fairness

-----------------------------------------------------------------------------
RefundKeys == (Sessions \X {"missed", "cancel"}) \cup {<<"booking", "cancel">>, <<"booking", "failed">>}

MoneyType == [status : {"UNPAID", "PAID", "REFUNDED"},
              refunded : 0..Total, keys : SUBSET RefundKeys]

TypeOK ==
    /\ bookingStatus \in OpenStatus \cup ClosedStatus
    /\ money \in MoneyType
    /\ method \in Methods
    /\ payment \in {"PENDING", "SUCCESS", "CANCELLED", "REFUNDED"}
    /\ paidAt \in BOOLEAN
    /\ transfer \in {"none", "under", "exact", "over"}
    /\ returned \in Nat
    /\ voucher \in {"NONE", "RESERVED", "USED", "AVAILABLE"}
    /\ sessionStatus \in [Sessions -> ActiveStatus \cup DoneStatus]
    /\ phase \in [Sessions -> Far..Over]
    /\ worker \in [Sessions -> Workers \cup {NoWorker}]
    /\ reserved \in [Sessions -> BOOLEAN]
    /\ debited \in [Workers -> Int]
    /\ earning \in [Sessions -> Workers \cup {NoWorker}]
    /\ settled \in [Sessions -> BOOLEAN]
    /\ reschedules \in 0..MaxReschedules
    /\ unassigning \in [Sessions -> OpenStatus \cup ClosedStatus \cup {NotReading}]
    /\ lookup \in [Sessions -> Workers \cup {NoWorker}]
    /\ late \subseteq Sessions
    /\ stale \subseteq Sessions
    /\ raced \in BOOLEAN

Dropped == {s \in Sessions : sessionStatus[s] \in {"CANCELLED", "MISSED"}}

\* Once the booking is closed, no session is waiting or being worked on:
\* cancelling, expiry and the last check-out all leave nothing behind, also
\* when an unassign writes a status it read earlier.
ClosedBookingHasNoActiveSession ==
    Closed => \A s \in Sessions : sessionStatus[s] \notin ActiveStatus

\* A booking paid online has no effect before it is paid: nobody is accepted,
\* checking in or working, so expiring it takes no one's work away.
UnpaidIsIdle ==
    money.status = "UNPAID" /\ method # "CASH" =>
        \A s \in Sessions : /\ worker[s] = NoWorker /\ lookup[s] = NoWorker
                            /\ sessionStatus[s] \notin {"IN_PROGRESS", "COMPLETED"}

\* No more than the price is given back, and the sessions are where the booking and its
\* payment allow them to be, although claims, webhooks, cancellations and the expiry job act
\* on either without the others.
BookingSafe ==
    /\ TypeOK
    /\ ClosedBookingHasNoActiveSession
    /\ UnpaidIsIdle

\* Every dong of a bank transfer that a webhook reported is either the price
\* the booking took or was put back in the wallet; early, late, short, excess
\* and repeated deliveries included (handle_payos_webhook).
MoneyConserved ==
    method = "BANK_TRANSFER" =>
        (IF paidAt THEN Amount(transfer) ELSE 0) =
            returned + (IF money.status = "UNPAID" THEN 0 ELSE Total)

\* A booking paid from the wallet that has ended kept exactly the price of the
\* work done: everything went back if nothing was done, else one share per
\* session cancelled or missed, whichever handlers dropped them in what order.
RefundMatchesOutcome ==
    method = "WALLET" /\ Closed =>
        money.refunded = IF SomeCompleted THEN PerSession * Cardinality(Dropped) ELSE Total

\* Whatever the method: a booking that ended without any work has kept no
\* money, and one with work done never gave the price of that work back.
NothingDoneNothingKept ==
    Closed => /\ ~SomeCompleted => money.status # "PAID" /\ payment \notin {"PENDING", "SUCCESS"}
              /\ SomeCompleted => money.status # "REFUNDED" /\ payment # "REFUNDED"

\* A booking that has ended kept exactly the price of the work done, nothing without
\* work, and no payment stays pending: whoever dropped which session, and when.
EndedIsSettled == RefundMatchesOutcome /\ NothingDoneNothingKept

\* The voucher of an ended booking is used up if a session was completed, and
\* given back otherwise, however it got there (help article on refunds).
VoucherFollowsWork ==
    Closed /\ voucher # "NONE" =>
        voucher = IF SomeCompleted THEN "USED" ELSE "AVAILABLE"

\* What was taken from a worker's wallet is one commission for each session the
\* worker holds with a reservation and one for each completed session that is
\* settled: no release or settlement is lost or done twice.
CommissionLedger ==
    \A w \in Workers :
        debited[w] = Cardinality({s \in Sessions : worker[s] = w /\ reserved[s]})
                   + Cardinality({s \in Sessions : earning[s] = w /\ settled[s]})

\* Only transactions that act on a value read before their lock break the next
\* three; the runs named in the README show each one broken that way.

\* An ASSIGNED booking has an accepted worker for every session that was not
\* cancelled: whoever removes a worker takes the booking back to PENDING.
AssignedIsCovered ==
    ~raced /\ bookingStatus = "ASSIGNED" =>
        \A s \in Sessions : sessionStatus[s] # "CANCELLED" => worker[s] # NoWorker

\* A session in progress has its worker, and its booking is in progress, so the
\* check-out that closes the session can also close the booking.
InProgressHasWorker ==
    ~raced => \A s \in Sessions : sessionStatus[s] = "IN_PROGRESS" =>
                  worker[s] # NoWorker /\ bookingStatus = "IN_PROGRESS"

\* An open booking always has a session that can still move it to its end.
OpenHasActiveSession ==
    ~raced /\ ~Closed => \E s \in Sessions : sessionStatus[s] \in ActiveStatus

\* Unless a handler acted on an out-of-date value: ASSIGNED means that each session
\* has a worker, a session in progress has one, and an open booking can still move.
OpenIsStaffed == AssignedIsCovered /\ InProgressHasWorker /\ OpenHasActiveSession

\* A closed booking keeps its status, and a session that is done stays so,
\* except that an unpaid booking turns the missed ones into cancelled ones.
DoneIsFinal ==
    [][/\ Closed => bookingStatus' = bookingStatus
       /\ \A s \in Sessions : sessionStatus[s] \in DoneStatus =>
              \/ sessionStatus'[s] = sessionStatus[s]
              \/ sessionStatus[s] = "MISSED" /\ money.status = "UNPAID"]_vars

\* While no transaction acts on a stale value, the scheduled jobs alone bring
\* every booking to its end, whatever customers, workers and admins do.
EventuallyClosed == <>(Closed \/ raced)
=============================================================================
