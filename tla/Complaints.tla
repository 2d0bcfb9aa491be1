----------------------------- MODULE Complaints -----------------------------
(***************************************************************************)
(* The complaints about the sessions of one booking and the money they     *)
(* move, beside what the system moves itself: the earning of a session     *)
(* held and released, the refund of a missed session.                      *)
(* apps/complaints/serializers.py, views.py, resolution_service.py and     *)
(* apps/wallets/earning_service.py.                                        *)
(*                                                                         *)
(* A resolution holds the complaint, the booking, the session and, where   *)
(* it touches one, the earning.  The release job holds only the earning:   *)
(* it looks for open complaints and credits the wallet later.              *)
(***************************************************************************)
EXTENDS Integers, FiniteSets

CONSTANTS
    Parts,      \* the sessions of the booking
    Share,      \* what the customer paid for a session
    Gross,      \* the price of a session before the voucher
    Commission  \* calculate_commission(Gross)

ASSUME ComplaintsAssumption ==
    /\ IsFiniteSet(Parts)
    /\ Share \in Nat \ {0} /\ Commission \in Nat /\ Gross \in Nat
    /\ Share <= Gross /\ Commission < Gross

VARIABLES
    inCash,         \* is the booking paid in cash
    part,           \* status of each session
    earning,        \* the earning of each session
    releasing,      \* sessions whose earning the job is about to credit
    complaint,      \* status of the last complaint of a reporter about a session
    refunded,       \* credits refund:schedule:<id>:* of each session
    clawed,         \* debits clawback:schedule:<id>:* of each session
    bookingRefunded,\* refunded_amount of the booking
    paidWorker,     \* credits to the worker for each session, less what was taken back
    shortfall,      \* what a wallet could not cover, by session
    waived,         \* sessions refunded without charging the worker
    early,          \* sessions whose complaint was resolved before they took place
    customerWallet, workerWallet

complaintVars == <<inCash, part, earning, releasing, complaint, refunded, clawed, bookingRefunded,
                   paidWorker, shortfall, waived, early, customerWallet, workerWallet>>
money == <<refunded, clawed, bookingRefunded, paidWorker, shortfall, waived, early,
           customerWallet, workerWallet>>

WorkerAmount == Gross - Commission
Total == Share * Cardinality(Parts)
Whole == "whole booking"
Reporters == {"CUSTOMER", "WORKER"}
Open == {"PENDING", "IN_REVIEW"}
Statuses == Open \cup {"NONE", "CANCELLED", "RESOLVED", "REJECTED"}
NoEarning == [exists |-> FALSE, credited |-> FALSE, voided |-> FALSE, settled |-> FALSE]
NoDeltas == [customer |-> 0, worker |-> 0, short |-> 0]
Least(a, b) == IF a < b THEN a ELSE b
Most(a, b) == IF a > b THEN a ELSE b

NetRefunded(s) == refunded[s] - clawed[s]
Remaining == Total - bookingRefunded
HasOpenComplaint(s) ==
    \E r \in Reporters, t \in {s, Whole} : complaint[<<r, t>>] \in Open
BookingCancelled == \A s \in Parts : part[s] = "MISSED"

-----------------------------------------------------------------------------
(* What the system does by itself.                                         *)

\* check_out and record_schedule_earning: commission in cash is taken or still owed.
CompletePart(s, settled) ==
    /\ part[s] = "ASSIGNED"
    /\ settled => inCash
    /\ part' = [part EXCEPT ![s] = "COMPLETED"]
    /\ earning' = IF earning[s].exists THEN earning
                  ELSE [earning EXCEPT ![s].exists = TRUE, ![s].settled = settled]
    /\ UNCHANGED <<inCash, releasing, complaint, money>>

\* The session nobody checked in to; a prepaid one is refunded.
MissPart(s) ==
    /\ part[s] = "ASSIGNED"
    /\ part' = [part EXCEPT ![s] = "MISSED"]
    /\ LET amount == IF inCash THEN 0 ELSE Least(Share, Remaining)
       IN  /\ refunded' = [refunded EXCEPT ![s] = @ + amount]
           /\ bookingRefunded' = bookingRefunded + amount
           /\ customerWallet' = customerWallet + amount
    /\ UNCHANGED <<inCash, earning, releasing, complaint, clawed, paidWorker, shortfall, waived,
                   early, workerWallet>>

\* Mutant: the job does not look for an earning that was taken back.
Releasable_Voided(s) ==
    /\ earning[s].exists /\ ~inCash /\ ~earning[s].credited /\ ~HasOpenComplaint(s)

Releasable(s) ==
    /\ earning[s].exists /\ ~inCash
    /\ ~earning[s].credited /\ ~earning[s].voided
    /\ ~HasOpenComplaint(s)

\* release_held_earnings, after EARNING_HOLD_HOURS, with the earning locked.
CheckRelease(s) ==
    /\ s \notin releasing /\ Releasable(s)
    /\ releasing' = releasing \cup {s}
    /\ UNCHANGED <<inCash, part, earning, complaint, money>>

Release(s) ==
    /\ s \in releasing
    /\ releasing' = releasing \ {s}
    /\ earning' = [earning EXCEPT ![s].credited = TRUE]
    /\ paidWorker' = [paidWorker EXCEPT ![s] = @ + WorkerAmount]
    /\ workerWallet' = workerWallet + WorkerAmount
    /\ UNCHANGED <<inCash, part, complaint, refunded, clawed, bookingRefunded, shortfall, waived,
                   early, customerWallet>>

Spend ==
    /\ \/ customerWallet > 0 /\ customerWallet' = 0 /\ UNCHANGED workerWallet
       \/ workerWallet > 0 /\ workerWallet' = 0 /\ UNCHANGED customerWallet
    /\ UNCHANGED <<inCash, part, earning, releasing, complaint, refunded, clawed, bookingRefunded,
                   paidWorker, shortfall, waived, early>>

-----------------------------------------------------------------------------
(* The life of a complaint.                                                *)

\* One per reporter and session, unless the one before was cancelled.
MayFile(r, t) ==
    /\ complaint[<<r, t>>] \in {"NONE", "CANCELLED"}
    /\ r = "CUSTOMER" => ~BookingCancelled
    /\ r = "WORKER" => t \in Parts

File(r, t) ==
    /\ MayFile(r, t)
    /\ complaint' = [complaint EXCEPT ![<<r, t>>] = "PENDING"]
    /\ UNCHANGED <<inCash, part, earning, releasing, money>>

CancelComplaint(c) ==
    /\ complaint[c] = "PENDING"
    /\ complaint' = [complaint EXCEPT ![c] = "CANCELLED"]
    /\ UNCHANGED <<inCash, part, earning, releasing, money>>

\* The admin's answer moves no money.
AnswerComplaint(c, status) ==
    /\ complaint[c] \in Open
    /\ complaint' = [complaint EXCEPT ![c] = status]
    /\ UNCHANGED <<inCash, part, earning, releasing, money>>

Resolved(c) == complaint' = [complaint EXCEPT ![c] = "RESOLVED"]

-----------------------------------------------------------------------------
(* Outcomes.                                                               *)

\* What preview_outcome shows the admin, or a refusal.
Refused == [NoDeltas EXCEPT !.short = -1]

PreviewRefund(s, charge) ==
    LET refund == Least(Share - NetRefunded(s), Remaining)
        taken == IF charge /\ earning[s].credited /\ ~earning[s].voided
                 THEN Least(WorkerAmount, workerWallet) ELSE 0
        due == IF charge /\ earning[s].credited /\ ~earning[s].voided THEN WorkerAmount ELSE 0
    IN  IF inCash \/ refund <= 0 THEN Refused
        ELSE [customer |-> refund, worker |-> 0 - taken, short |-> due - taken]

Payout(s) == IF inCash /\ earning[s].settled THEN Gross ELSE WorkerAmount

PreviewPay(s) ==
    LET owed == IF inCash THEN Most(0, Share - clawed[s]) ELSE NetRefunded(s)
        taken == Least(owed, customerWallet)
    IN  IF earning[s].voided \/ earning[s].credited THEN Refused
        ELSE [customer |-> 0 - taken, worker |-> Payout(s), short |-> owed - taken]

\* _debit_up_to: the wallet does not go below zero.
Taken(owed, available) == Least(owed, available)

Upcoming(s) == {t \in {s} : part[t] = "ASSIGNED"}
RefundCap(s) == Share - NetRefunded(s)

\* _refund_customer and, when the worker is charged, _reverse_worker_earning.
RefundCustomer(s, charge) ==
    LET c == <<"CUSTOMER", s>>
        amount == Least(RefundCap(s), Remaining)
        reverse == charge /\ earning[s].exists /\ ~earning[s].voided
        owed == IF reverse /\ earning[s].credited THEN WorkerAmount ELSE 0
        taken == Taken(owed, workerWallet)
    IN  /\ complaint[c] \in Open /\ ~inCash /\ RefundCap(s) > 0 /\ amount > 0
        /\ charge => s \notin releasing
        /\ Resolved(c)
        /\ refunded' = [refunded EXCEPT ![s] = @ + amount]
        /\ bookingRefunded' = bookingRefunded + amount
        /\ customerWallet' = customerWallet + amount
        /\ earning' = IF reverse THEN [earning EXCEPT ![s].voided = TRUE] ELSE earning
        /\ workerWallet' = workerWallet - taken
        /\ paidWorker' = [paidWorker EXCEPT ![s] = @ - taken]
        /\ shortfall' = [shortfall EXCEPT ![s] = @ + owed - taken]
        /\ waived' = IF charge THEN waived ELSE waived \cup {s}
        /\ early' = early \cup Upcoming(s)
        /\ UNCHANGED <<inCash, part, releasing, clawed>>

Owed(s) == IF inCash THEN Most(0, Share - clawed[s]) ELSE NetRefunded(s)

\* The worker is paid, a missed session gets its earning now, and what the customer
\* was refunded is taken back as far as the wallet goes.
PayWorker(s) ==
    LET c == <<"WORKER", s>>
        taken == Taken(Owed(s), customerWallet)
    IN  /\ complaint[c] \in Open
        /\ ~earning[s].voided /\ ~earning[s].credited /\ s \notin releasing
        /\ Resolved(c)
        /\ earning' = [earning EXCEPT ![s].exists = TRUE, ![s].credited = TRUE,
                           ![s].settled = @ \/ inCash \/ ~earning[s].exists]
        /\ paidWorker' = [paidWorker EXCEPT ![s] = @ + Payout(s)]
        /\ workerWallet' = workerWallet + Payout(s)
        /\ early' = early \cup Upcoming(s)
        /\ clawed' = [clawed EXCEPT ![s] = @ + taken]
        /\ customerWallet' = customerWallet - taken
        /\ bookingRefunded' = IF inCash THEN bookingRefunded ELSE Most(0, bookingRefunded - taken)
        /\ shortfall' = [shortfall EXCEPT ![s] = @ + Owed(s) - taken]
        /\ UNCHANGED <<inCash, part, releasing, refunded, waived>>

-----------------------------------------------------------------------------
Subjects == Parts \cup {Whole}

ComplaintsInit ==
    /\ inCash \in BOOLEAN
    /\ part = [s \in Parts |-> "ASSIGNED"] /\ earning = [s \in Parts |-> NoEarning]
    /\ releasing = {} /\ complaint = [c \in Reporters \X Subjects |-> "NONE"]
    /\ refunded = [s \in Parts |-> 0] /\ clawed = [s \in Parts |-> 0] /\ bookingRefunded = 0
    /\ paidWorker = [s \in Parts |-> 0] /\ shortfall = [s \in Parts |-> 0]
    /\ waived = {} /\ early = {}
    /\ customerWallet = 0 /\ workerWallet = 0

Resolve ==
    \E s \in Parts : PayWorker(s) \/ \E charge \in BOOLEAN : RefundCustomer(s, charge)

ReleaseEarnings == \E s \in Parts : CheckRelease(s) \/ Release(s)

ComplaintsNext ==
    \/ \E s \in Parts : MissPart(s) \/ \E settled \in BOOLEAN : CompletePart(s, settled)
    \/ ReleaseEarnings \/ Spend \/ Resolve
    \/ \E r \in Reporters, t \in Subjects : File(r, t) \/ CancelComplaint(<<r, t>>)
    \/ \E c \in Reporters \X Subjects, status \in {"IN_REVIEW", "RESOLVED", "REJECTED"} :
           AnswerComplaint(c, status)

ComplaintsSpec == ComplaintsInit /\ [][ComplaintsNext]_complaintVars

-----------------------------------------------------------------------------
ComplaintsTypeOK ==
    /\ inCash \in BOOLEAN /\ part \in [Parts -> {"ASSIGNED", "COMPLETED", "MISSED"}]
    /\ earning \in [Parts -> [exists : BOOLEAN, credited : BOOLEAN, voided : BOOLEAN,
                              settled : BOOLEAN]]
    /\ releasing \subseteq Parts /\ waived \subseteq Parts /\ early \subseteq Parts
    /\ complaint \in [Reporters \X Subjects -> Statuses]
    /\ \A s \in Parts :
           {refunded[s], clawed[s], paidWorker[s], shortfall[s]} \subseteq Nat
    /\ {bookingRefunded, customerWallet, workerWallet} \subseteq Nat

\* An amount of money for each session, unit by unit.
Units(amount) == UNION {{s} \X (1..amount[s]) : s \in Parts}

\* However refunds, complaints and clawbacks follow each other, the booking's total
\* counts what the customer has back, never more than the price; a session that took
\* place or was missed before its complaint brings back no more than it cost.
RefundsAddUp ==
    ~inCash =>
        /\ \A s \in Parts : NetRefunded(s) >= 0 /\ (s \notin early => NetRefunded(s) <= Share)
        /\ bookingRefunded = Cardinality(Units([s \in Parts |-> NetRefunded(s)]))
        /\ bookingRefunded <= Total

\* The price of a session is not paid out twice, to the customer and to the worker:
\* beyond the voucher, what both hold is covered by a shortfall on record or by an
\* admin who chose not to charge the worker.  An earning a complaint took back while it
\* was held never reaches the wallet.
PaidOutOnce ==
    ~inCash => \A s \in Parts \ early :
        NetRefunded(s) + paidWorker[s]
            <= Most(Share, WorkerAmount) + shortfall[s]
               + (IF s \in waived THEN WorkerAmount ELSE 0)

\* The job never credits an earning that is credited already, though it looks before
\* it writes and the admin may decide for the worker in between.
PaidAtMostOnce ==
    \A s \in Parts :
        /\ paidWorker[s] <= Payout(s)
        /\ s \in releasing => ~earning[s].credited

Booked(s, preview) ==
    /\ customerWallet' - customerWallet = preview.customer
    /\ workerWallet' - workerWallet = preview.worker
    /\ shortfall'[s] - shortfall[s] = preview.short

\* The amounts the admin is shown before deciding are those the decision books, in two
\* computations of the code that share little.
PreviewIsBooked ==
    [][\A s \in Parts :
           /\ PayWorker(s) => Booked(s, PreviewPay(s))
           /\ \A charge \in BOOLEAN :
                  RefundCustomer(s, charge) => Booked(s, PreviewRefund(s, charge))]_complaintVars

\* The money of a booking under complaints, the release job and refunds of its own adds
\* up for customer and worker, nobody is paid twice, and what an admin is shown before
\* a decision is what the decision books.
ComplaintsSafe ==
    /\ [](ComplaintsTypeOK /\ RefundsAddUp /\ PaidOutOnce /\ PaidAtMostOnce)
    /\ PreviewIsBooked
=============================================================================
