--------------------------- MODULE StatusNotices ---------------------------
(***************************************************************************)
(* What the customer and the workers of one booking are told of it: the    *)
(* signals that compare the status in the table with the one being saved,  *)
(* the notices its handlers write in their transactions, and those left    *)
(* for after the commit, which others may overtake and a crash may lose.   *)
(* apps/notifications/signals.py and services.py, and where bookings,      *)
(* assignments, check-ins, payments and refunds call them.                 *)
(*                                                                         *)
(* A handler is a function of the state, made of the steps it goes through *)
(* in one transaction, from its lock of the booking on; what a check-in or *)
(* an admin's removal has read before that may be stale by then.  Any      *)
(* session may be late at any time, and who may claim it is left out: only *)
(* what decides what is told is kept.                                      *)
(***************************************************************************)
EXTENDS Integers, Sequences, SequencesExt, FiniteSets

CONSTANTS
    Visits,         \* sessions of the booking
    Cleaners,       \* workers
    NoCleaner,
    NoVisit,
    Price,          \* Booking.total_amount
    MaxChanges      \* bound on how often the worker of a session changes

ASSUME StatusNoticesAssumption ==
    /\ IsFiniteSet(Visits) /\ Visits # {} /\ NoVisit \notin Visits
    /\ NoCleaner \notin Cleaners
    /\ Price \in Nat /\ Price >= 2 * Cardinality(Visits) /\ MaxChanges \in Nat
    \* The rounded shares of all sessions but one are less than the price.
    /\ \A n \in 1..Cardinality(Visits) : (n - 1) * ((2 * Price + n) \div (2 * n)) < Price

VARIABLES
    order,      \* the booking: status, who cancelled it, its payment and what was refunded
    visit,      \* each session: status, accepted worker, changes of it so far, who began it, a no-show
    atDoor,     \* of each session, the worker whose check-in or check-out has found him accepted
    removing,   \* of each session, the status of the booking read by an admin's removal
    credits,    \* what each refund has put into the customer's wallet
    taken,      \* <<session, change>>: acceptances ended by others than the worker
    told,       \* the notices written
    hooks,      \* notices left for after the commit
    lost        \* those whose process died

statusVars == <<order, visit, atDoor, removing, credits, taken, told, hooks, lost>>

Used == {v \in Visits : visit[v].status # "NONE"}
EndKey(status) == <<status, NoVisit>>
SessionKey(why, v) == <<why, v>>
Transfers == {"late", "under", "over"}
RefundKeys == {EndKey(x) : x \in {"CANCELLED", "FAILED"} \cup Transfers}
              \cup {SessionKey(why, v) : why \in {"missed", "customer_cancel"}, v \in Visits}

Closed == {"CANCELLED", "COMPLETED", "FAILED"}
OpenStatuses == {"PENDING", "ASSIGNED", "IN_PROGRESS"}
ActiveVisits == {"PENDING", "IN_PROGRESS"}

NotReading == "NONE"

Before == [order |-> order, visit |-> visit, credits |-> credits, taken |-> taken,
           told |-> told, hooks |-> hooks]

\* The handler commits.
Saves(s) ==
    /\ order' = s.order /\ visit' = s.visit /\ credits' = s.credits /\ taken' = s.taken
    /\ told' = s.told /\ hooks' = s.hooks /\ lost' = lost

Commits(s) == Saves(s) /\ UNCHANGED <<atDoor, removing>>

WithStatus(s, statuses) == {v \in Visits : s.visit[v].status \in statuses}
Accepted(s) == {v \in Visits : s.visit[v].who # NoCleaner}

-----------------------------------------------------------------------------
(* The notices.                                                            *)

\* Of the end of the booking; it promises a refund when the booking is paid.
TellEnd(s, status) ==
    LET promises == status # "COMPLETED" /\ s.order.money = "PAID"
    IN  [s EXCEPT !.told.ends = Append(@, status),
                  !.told.promised = IF promises THEN @ \cup {EndKey(status)} ELSE @]

TellPaid(s) == [s EXCEPT !.told.paid = @ + 1]
TellDone(s, v) == [s EXCEPT !.told.done = @ \cup {v}]
TellMissed(s, v) == [s EXCEPT !.told.missed = @ \cup {v}]
TellRemoved(s, acceptance) == [s EXCEPT !.told.off = @ \cup {acceptance}]

\* Of a worker who did not come, with a promise when the booking is paid.
TellAbsent(s, v) ==
    [s EXCEPT !.told.absent = @ \cup {v},
              !.told.promised = IF s.order.money = "PAID" THEN @ \cup {SessionKey("missed", v)} ELSE @]

\* The customer reads who comes, as of that change.
TellWho(s, v, w, change) ==
    [s EXCEPT !.told.who[v] = IF change >= @.change THEN [who |-> w, change |-> change] ELSE @]

-----------------------------------------------------------------------------
(* Steps of the handlers.                                                  *)

\* Plausible bug: who cancelled is not looked at.
SetStatus_AnyActor(s, status) ==
    [s EXCEPT !.order.status = status,
              !.told.ends = IF status \in Closed /\ status # s.order.status THEN Append(@, status) ELSE @]

\* Saving the booking with another status: the customer is told of the end, unless he has
\* cancelled it himself, and of the refund when the booking is paid.
SetStatus(s, status) ==
    LET tells == /\ status # s.order.status /\ status \in Closed
                 /\ ~(status = "CANCELLED" /\ s.order.by = "CUSTOMER")
        saved == [s EXCEPT !.order.status = status]
    IN  IF tells THEN TellEnd(saved, status) ELSE saved

\* Saving the payment as paid.
SetPaid(s) == TellPaid([s EXCEPT !.order.payment = "SUCCESS", !.order.money = "PAID"])

ClosePayment(s) == [s EXCEPT !.order.payment = IF @ = "PENDING" THEN "CANCELLED" ELSE @]

RefundHook(key) == [kind |-> "refund", key |-> key, who |-> NoCleaner, change |-> 0]
AssignedHook(v, w, change) == [kind |-> "assigned", key |-> SessionKey("who", v), who |-> w, change |-> change]

Credit(s, key, sum) == [s EXCEPT !.credits[key] = sum, !.hooks = @ \cup {RefundHook(key)}]

\* Half up, of the number of sessions booked.
PerVisit == (2 * Price + Cardinality(Used)) \div (2 * Cardinality(Used))

\* At most what is left, once per key.
RefundBooking(s, key, amount) ==
    LET rest == Price - s.order.refunded
        sum == IF amount < rest THEN amount ELSE rest
        all == sum = rest
    IN  IF s.order.money # "PAID" \/ s.credits[key] > 0 \/ sum <= 0 THEN s
        ELSE [Credit(s, key, sum) EXCEPT
                !.order.refunded = @ + sum,
                !.order.money = IF all THEN "REFUNDED" ELSE @,
                !.order.payment = IF all /\ @ = "SUCCESS" THEN "REFUNDED" ELSE @]

\* An acceptance ends: the next change of the session.
Frees(s, v) == [s EXCEPT !.visit[v].who = NoCleaner, !.visit[v].changes = @ + 1]

\* It is ended by others, who tell the worker.
Removes(s, v) ==
    LET acceptance == <<v, s.visit[v].changes>>
    IN  TellRemoved([Frees(s, v) EXCEPT !.taken = @ \cup {acceptance}], acceptance)

RemovesAll(s, vs) == FoldLeft(Removes, s, SetToSeq(vs \cap Accepted(s)))

\* The worker has left or was removed: the booking looks for another one.
Reopens(s) == IF s.order.status = "ASSIGNED" THEN SetStatus(s, "PENDING") ELSE s

\* _sync_booking_status_after_claim
SyncAfterClaim(s) ==
    IF s.order.status = "PENDING" /\ Used \ WithStatus(s, {"CANCELLED"}) \subseteq Accepted(s)
    THEN SetStatus(s, "ASSIGNED") ELSE s

SetVisits(s, vs, status) ==
    [s EXCEPT !.visit = [v \in Visits |-> IF v \in vs THEN [@[v] EXCEPT !.status = status] ELSE @[v]]]

-----------------------------------------------------------------------------
(* Workers.                                                                *)

Bookable == order.method = "CASH" \/ order.money = "PAID"
Claimable(v) ==
    /\ order.status \in OpenStatuses /\ Bookable
    /\ visit[v].status = "PENDING" /\ visit[v].who = NoCleaner /\ visit[v].changes < MaxChanges

Accepts(s, v, w) == [s EXCEPT !.visit[v].who = w, !.visit[v].changes = @ + 1]

\* One session: the signal of the assignment waits for the commit.
ClaimVisit(w, v) ==
    /\ Claimable(v)
    /\ Commits(SyncAfterClaim([Accepts(Before, v, w) EXCEPT
                   !.hooks = @ \cup {AssignedHook(v, w, visit[v].changes + 1)}]))

\* Several: one notice for all of them, in the transaction.
ClaimVisits(w, vs) ==
    /\ vs # {} /\ \A v \in vs : Claimable(v)
    /\ LET claims(s, v) == TellWho(Accepts(s, v, w), v, w, visit[v].changes + 1)
       IN  Commits(SyncAfterClaim(FoldLeft(claims, Before, SetToSeq(vs))))

\* cancel_assignment
LeaveVisit(v) ==
    /\ visit[v].who # NoCleaner /\ visit[v].status = "PENDING" /\ order.status \in OpenStatuses
    /\ Commits(Reopens(TellWho(Frees(Before, v), v, NoCleaner, visit[v].changes + 1)))

\* _get_my_accepted_schedule looks for the worker's assignment, then locks the booking and
\* the session, and does not look again.
FindMine(v) ==
    /\ atDoor[v] = NoCleaner /\ visit[v].who # NoCleaner /\ visit[v].status \in ActiveVisits
    /\ atDoor' = [atDoor EXCEPT ![v] = visit[v].who]
    /\ Saves(Before) /\ UNCHANGED removing

RequestEnds(v) == atDoor' = [atDoor EXCEPT ![v] = NoCleaner] /\ UNCHANGED removing

CheckInVisit(v) ==
    /\ atDoor[v] # NoCleaner /\ visit[v].status = "PENDING" /\ order.status \in OpenStatuses
    /\ LET started == [SetVisits(Before, {v}, "IN_PROGRESS") EXCEPT !.visit[v].begun = atDoor[v]]
           begun == TellWho(started, v, atDoor[v], visit[v].changes)
       IN  Saves(IF order.status = "IN_PROGRESS" THEN begun ELSE SetStatus(begun, "IN_PROGRESS"))
    /\ RequestEnds(v)

\* The session is told to be done unless the booking, told of by itself, is.
Finished(v) ==
    LET done == SetVisits(Before, {v}, "COMPLETED")
        last == WithStatus(done, ActiveVisits) = {} /\ order.status = "IN_PROGRESS"
        ended == IF last THEN SetStatus(done, "COMPLETED") ELSE done
    IN  IF ended.order.status = "COMPLETED" THEN ended ELSE TellDone(ended, v)

CheckOutVisit(v) ==
    /\ atDoor[v] # NoCleaner /\ visit[v].status = "IN_PROGRESS"
    /\ Saves(Finished(v)) /\ RequestEnds(v)

\* Refused, or its process died.
RequestFails(v) == atDoor[v] # NoCleaner /\ Saves(Before) /\ RequestEnds(v)

\* The job and the admin look for the worker under the lock.
FinishesForWorker(v) ==
    visit[v].status = "IN_PROGRESS" /\ visit[v].who # NoCleaner /\ Commits(Finished(v))

AutoCheckOut(v) == FinishesForWorker(v)
CompleteVisitByAdmin(v) == FinishesForWorker(v)

\* The query that locks the session reads the booking beside it, as it was when the query
\* began; nobody locks the booking.
ReadForRemoval(v) ==
    /\ removing[v] = NotReading /\ visit[v].status = "PENDING"
    /\ removing' = [removing EXCEPT ![v] = order.status]
    /\ Saves(Before) /\ UNCHANGED atDoor

UnassignVisit(v) ==
    /\ removing[v] # NotReading /\ visit[v].status = "PENDING" /\ visit[v].who # NoCleaner
    /\ LET removed == TellWho(Removes(Before, v), v, NoCleaner, visit[v].changes + 1)
       IN  Saves(IF removing[v] = "ASSIGNED" THEN SetStatus(removed, "PENDING") ELSE removed)
    /\ removing' = [removing EXCEPT ![v] = NotReading] /\ UNCHANGED atDoor

RemovalFails(v) ==
    /\ removing[v] # NotReading
    /\ removing' = [removing EXCEPT ![v] = NotReading]
    /\ Saves(Before) /\ UNCHANGED atDoor

-----------------------------------------------------------------------------
(* Cancelling.                                                             *)

HasCompleted(s) == WithStatus(s, {"COMPLETED"}) # {}

\* cancel_booking_core
CancelOrder(by) ==
    /\ order.status \in OpenStatuses
    /\ WithStatus(Before, {"IN_PROGRESS"}) = {} /\ WithStatus(Before, {"PENDING"}) # {}
    /\ by = "CUSTOMER" => Cardinality(Used) = 1 \/ (order.money = "UNPAID" /\ order.method # "CASH")
    /\ LET vs == WithStatus(Before, {"PENDING"})
           ended == SetStatus([RemovesAll(Before, vs) EXCEPT !.order.by = by], "CANCELLED")
           closed == ClosePayment(SetVisits(ended, vs, "CANCELLED"))
       IN  Commits(RefundBooking(closed, EndKey("CANCELLED"),
                       IF HasCompleted(closed) THEN PerVisit * Cardinality(vs) ELSE Price))

\* cancel_schedule_by_customer
CancelVisit(v) ==
    /\ order.status \in OpenStatuses /\ visit[v].status = "PENDING"
    /\ LET gone == SetVisits(RemovesAll(Before, {v}), {v}, "CANCELLED")
           othersActive == WithStatus(gone, ActiveVisits) # {}
           paidBack == RefundBooking(gone, SessionKey("customer_cancel", v),
                           IF othersActive \/ HasCompleted(gone) THEN PerVisit ELSE Price)
       IN  /\ ~(othersActive /\ order.money = "UNPAID" /\ order.method = "BANK_TRANSFER"
                /\ order.payment = "PENDING")
           /\ Commits(IF othersActive THEN SyncAfterClaim(paidBack)
                      ELSE IF HasCompleted(gone) THEN SetStatus(ClosePayment(paidBack), "COMPLETED")
                      ELSE SetStatus([ClosePayment(paidBack) EXCEPT !.order.by = "CUSTOMER"], "CANCELLED"))

\* cancel_unpaid_booking: nobody has cancelled it, and no worker can have it.
CancelUnpaid(s) ==
    LET vs == Used \ WithStatus(s, {"COMPLETED", "CANCELLED"})
    IN  ClosePayment(SetVisits(SetStatus(s, "CANCELLED"), vs, "CANCELLED"))

ExpireUnpaid ==
    /\ order.status = "PENDING" /\ order.money = "UNPAID" /\ order.method = "BANK_TRANSFER"
    /\ Commits(CancelUnpaid(Before))

-----------------------------------------------------------------------------
(* The jobs that look for late sessions, in one transaction.               *)

\* handle_missed_checkins
Absent(s, v) ==
    LET removed == TellWho(Removes(s, v), v, NoCleaner, s.visit[v].changes + 1)
    IN  Reopens(TellAbsent([removed EXCEPT !.visit[v].absent = TRUE], v))

\* expire_unclaimed_schedules: a session nobody has taken, then the booking's end.
Miss(s, v) ==
    LET missed == RefundBooking(SetVisits(s, {v}, "MISSED"), SessionKey("missed", v), PerVisit)
        toldOf(t) == IF t.visit[v].absent THEN t ELSE TellMissed(t, v)
    IN  IF s.order.status \notin OpenStatuses THEN s
        ELSE IF WithStatus(missed, ActiveVisits) # {} THEN toldOf(missed)
        ELSE IF HasCompleted(missed) THEN toldOf(SetStatus(missed, "COMPLETED"))
        ELSE RefundBooking(ClosePayment(SetStatus(missed, "FAILED")), EndKey("FAILED"), Price)

ExpireVisits(late) ==
    /\ late # {} /\ late \subseteq WithStatus(Before, {"PENDING"})
    /\ LET absent == FoldLeft(Absent, Before, SetToSeq(late \cap Accepted(Before)))
       IN  Commits(FoldLeft(Miss, absent, SetToSeq(late)))

-----------------------------------------------------------------------------
(* Payment.                                                                *)

\* process_webhook: a transfer of the right sum, of more, of less, or too late.
TransferArrives(sum) ==
    /\ order.method = "BANK_TRANSFER" /\ order.payment \in {"PENDING", "CANCELLED"}
    /\ \A x \in Transfers : credits[EndKey(x)] = 0
    /\ Commits(IF order.payment # "PENDING" \/ order.status \in {"CANCELLED", "FAILED"}
               THEN Credit(Before, EndKey("late"), sum)
               ELSE IF sum < Price THEN CancelUnpaid(Credit(Before, EndKey("under"), sum))
               ELSE IF sum > Price THEN Credit(SetPaid(Before), EndKey("over"), sum - Price)
               ELSE SetPaid(Before))

\* confirm_cash_collected, and the job a day later.
SettleCash ==
    /\ order.method = "CASH" /\ order.payment = "PENDING" /\ order.status = "COMPLETED"
    /\ Commits(SetPaid(Before))

\* Two hours later the worker is reminded, once.
RemindCash ==
    /\ order.method = "CASH" /\ order.payment = "PENDING" /\ order.status = "COMPLETED"
    /\ told.reminded = 0
    /\ Commits([Before EXCEPT !.told.reminded = 1])

-----------------------------------------------------------------------------
(* After the commit.                                                       *)

HookRuns(h) ==
    /\ h \in hooks
    /\ LET rest == [Before EXCEPT !.hooks = @ \ {h}]
       IN  Commits(IF h.kind = "refund" THEN [rest EXCEPT !.told.back = @ \cup {h.key}]
                   ELSE TellWho(rest, h.key[2], h.who, h.change))

\* The process ends between the commit and the call, or an earlier call has failed.
ProcessDies(h) ==
    /\ h \in hooks
    /\ hooks' = hooks \ {h} /\ lost' = lost \cup {h}
    /\ UNCHANGED <<order, visit, atDoor, removing, credits, taken, told>>

-----------------------------------------------------------------------------
NoNotice == [ends |-> <<>>, paid |-> 0, reminded |-> 0, done |-> {}, missed |-> {}, absent |-> {},
             promised |-> {}, back |-> {}, off |-> {},
             who |-> [v \in Visits |-> [who |-> NoCleaner, change |-> 0]]]

\* A booking in cash has one session; one from the wallet is paid when it is made.
StatusNoticesInit ==
    /\ \E vs \in SUBSET Visits \ {{}} :
          visit = [v \in Visits |-> [status |-> IF v \in vs THEN "PENDING" ELSE "NONE",
                                     who |-> NoCleaner, changes |-> 0, begun |-> NoCleaner,
                                     absent |-> FALSE]]
    /\ atDoor = [v \in Visits |-> NoCleaner] /\ removing = [v \in Visits |-> NotReading]
    /\ \E method \in {"CASH", "BANK_TRANSFER", "WALLET"} :
          /\ method = "CASH" => Cardinality(Used) = 1
          /\ order = [status |-> "PENDING", by |-> "NOBODY", method |-> method, refunded |-> 0,
                      money |-> IF method = "WALLET" THEN "PAID" ELSE "UNPAID",
                      payment |-> IF method = "WALLET" THEN "SUCCESS" ELSE "PENDING"]
          /\ told = [NoNotice EXCEPT !.paid = IF method = "WALLET" THEN 1 ELSE 0]
    /\ credits = [key \in RefundKeys |-> 0] /\ taken = {} /\ hooks = {} /\ lost = {}

StatusNoticesNext ==
    \/ \E v \in Visits :
          \/ \E w \in Cleaners : ClaimVisit(w, v)
          \/ LeaveVisit(v) \/ FindMine(v) \/ CheckInVisit(v) \/ CheckOutVisit(v) \/ RequestFails(v)
          \/ ReadForRemoval(v) \/ UnassignVisit(v) \/ RemovalFails(v) \/ CancelVisit(v)
          \/ AutoCheckOut(v) \/ CompleteVisitByAdmin(v)
    \/ \E w \in Cleaners, vs \in SUBSET Visits : ClaimVisits(w, vs)
    \/ \E by \in {"CUSTOMER", "ADMIN"} : CancelOrder(by)
    \/ \E late \in SUBSET Visits : ExpireVisits(late)
    \/ \E sum \in {Price - 1, Price, Price + 1} : TransferArrives(sum)
    \/ ExpireUnpaid \/ SettleCash \/ RemindCash
    \/ \E h \in hooks : HookRuns(h) \/ ProcessDies(h)

-----------------------------------------------------------------------------
StatusNoticesTypeOK ==
    /\ order.status \in OpenStatuses \cup Closed /\ order.refunded \in 0..Price
    /\ order.money \in {"UNPAID", "PAID", "REFUNDED"}
    /\ \A v \in Visits : visit[v].changes \in 0..(MaxChanges + 1) /\ visit[v].who \in Cleaners \cup {NoCleaner}
    /\ \A h \in hooks \cup lost : h.kind \in {"refund", "assigned"}

\* However a booking ends, by whom and through which handler, its customer is told of the
\* end once, of the way it has ended in, and not when he has cancelled it himself: the
\* signal sees one change of status, and no handler moves a booking that has ended.
EndIsToldOnce ==
    told.ends = IF order.status \in Closed /\ ~(order.status = "CANCELLED" /\ order.by = "CUSTOMER")
                THEN <<order.status>> ELSE <<>>

\* A session that is done or missed is told of, by a notice of its own or by that of the
\* booking which ends with it: the handlers leave one to the other.
OutcomeIsTold ==
    \A v \in Visits :
        /\ visit[v].status = "COMPLETED" => v \in told.done \/ told.ends = <<"COMPLETED">>
        /\ visit[v].status = "MISSED" => v \in told.missed \cup told.absent \/ told.ends = <<"FAILED">>

\* A worker whose accepted session was taken away is told so, and nobody else is: not one
\* who has left, nor one whose session is still his.  Cancelling an unpaid booking tells
\* no worker, as none can have it.
LossesAreTold ==
    /\ told.off = taken
    /\ \A v \in Visits : visit[v].status = "CANCELLED" => visit[v].who = NoCleaner

\* Notices promise refunds before they are made ("the money will be refunded"), by what the
\* payment is at that step: the same transaction makes each of them.
PromisesAreKept == \A key \in told.promised : credits[key] > 0

\* Every refund is told once its call after the commit has run, unless its process died.
RefundsAreTold ==
    LET due == {h.key : h \in {g \in hooks \cup lost : g.kind = "refund"}}
    IN  /\ {key \in RefundKeys : credits[key] > 0} = told.back \cup due
        /\ told.back \cap due = {}

\* Of the notices about who comes to a session, the newest by commit is right once none is
\* outstanding, although the claim of one session writes its own after the commit; or it is
\* that of the check-in which began the session, of a worker who may have lost it, and
\* another may have it, between being found accepted and the lock.
NewestIsRight ==
    \A v \in WithStatus(Before, ActiveVisits) :
        (\A h \in hooks \cup lost : h.key # SessionKey("who", v)) =>
            /\ told.who[v].change = visit[v].changes
            /\ told.who[v].who \in {visit[v].who, visit[v].begun}
            /\ visit[v].status = "PENDING" => told.who[v].who = visit[v].who

\* The payment is told once, whoever confirms it.
PaymentIsToldOnce == told.paid = IF order.payment \in {"SUCCESS", "REFUNDED"} THEN 1 ELSE 0

\* What the customer and the workers of a booking have been told is what has happened to it.
StatusNoticesSafe ==
    /\ StatusNoticesTypeOK
    /\ EndIsToldOnce
    /\ OutcomeIsTold
    /\ LossesAreTold
    /\ PromisesAreKept
    /\ RefundsAreTold
    /\ NewestIsRight
    /\ PaymentIsToldOnce
=============================================================================
