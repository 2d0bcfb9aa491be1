----------------------------- MODULE VipRewards -----------------------------
(***************************************************************************)
(* Vouchers as thanks to the best customers of a month:                    *)
(* apps/analytics/vip_report.py, over assign_voucher_to_customer.          *)
(*                                                                         *)
(* A batch is one transaction that locks its voucher, then its customers   *)
(* one after the other, and gives all of them their voucher or none; an    *)
(* administrator also gives vouchers by hand.  What a customer has booked  *)
(* is not locked by either.  Both count what they issue in the voucher's   *)
(* row, which an edit of the voucher reads without a lock and later writes *)
(* back as a whole.  Vouchers of the other kinds are in module Vouchers.   *)
(***************************************************************************)
EXTENDS Integers, FiniteSetsExt

CONSTANTS
    Patrons,        \* customers, by id
    Thanks,         \* vouchers of distribution type ASSIGNED
    Quotas,         \* issuance limits; one that is never reached stands for none
    IssueLimit,     \* the limit each voucher was made with
    Batches,        \* requests of administrators
    RewardMonths

ASSUME VipAssumption ==
    /\ Patrons \subseteq Nat /\ IsFiniteSet(Patrons)
    /\ Quotas \subseteq Nat \ {0} /\ IssueLimit \in [Thanks -> Quotas]
    /\ RewardMonths \subseteq Nat

VARIABLES
    loyal,          \* <<customer, month>> with enough bookings completed, paid and not refunded
    enabled,        \* customers whose accounts are active
    stock,          \* columns of each voucher: limit, issued_count, whether it ended or is disabled
    rewrites,       \* edits of a voucher past their validation, with the row to write
    outdated,       \* vouchers issued while an edit of them was under way
    given,          \* <<customer, voucher>>: rows of UserVoucher
    thanked,        \* rows of MonthlyVipReward
    batch,          \* what each request is at, with the rows it locked and wrote
    vipReport       \* the administrator's list, put together by several queries

vipVars == <<loyal, enabled, stock, rewrites, outdated, given, thanked, batch, vipReport>>
stockVars == <<stock, rewrites, outdated>>

Fresh ==
    [step |-> "new", month |-> 0, voucher |-> "none", ids |-> {}, locked |-> {}, todo |-> {}, wrote |-> {}]
NoReport == [step |-> "none", month |-> 0, total |-> 0, rewarded |-> 0, grew |-> FALSE]

OngoingBatches == {b \in Batches : batch[b].step \in {"voucher", "customers", "giving", "hand"}}
Holds(b, v) == batch[b].step \in {"customers", "giving", "hand"} /\ batch[b].voucher = v

-----------------------------------------------------------------------------
(* A batch.                                                                *)

AskBatch(b, v, ids, m) ==
    /\ batch[b].step = "new"
    /\ batch' = [batch EXCEPT ![b] = [Fresh EXCEPT !.step = "voucher", !.month = m,
                                                 !.voucher = v, !.ids = ids]]
    /\ UNCHANGED <<loyal, enabled, stockVars, given, thanked, vipReport>>

\* By hand, to one customer, for no month.
AskByHand(b, v, c) == AskBatch(b, v, {c}, 0)

VoucherIsFree(b) == \A other \in Batches \ {b} : ~Holds(other, batch[b].voucher)

LockVoucher(b) ==
    /\ batch[b].step = "voucher" /\ VoucherIsFree(b)
    /\ batch' = [batch EXCEPT ![b].step = IF batch[b].month = 0 THEN "hand" ELSE "customers",
                              ![b].todo = batch[b].ids]
    /\ UNCHANGED <<loyal, enabled, stockVars, given, thanked, vipReport>>

\* Plausible bug: the customers are locked in the order the administrator chose them in.
NextToLock_AsChosen(b) == batch[b].todo

\* The next row of SELECT ... FOR UPDATE ... ORDER BY id.
NextToLock(b) == {Min(batch[b].todo)}

CustomerIsFree(b, c) == \A other \in Batches \ {b} : c \notin batch[other].locked

\* A row that is not of an active customer is passed over: the filter is read again after
\* the wait for it.
LockCustomer(b) ==
    /\ batch[b].step = "customers" /\ batch[b].todo # {}
    /\ \E c \in NextToLock(b) :
          /\ CustomerIsFree(b, c)
          /\ batch' = [batch EXCEPT ![b].todo = @ \ {c}, ![b].locked = @ \cup ({c} \cap enabled)]
    /\ UNCHANGED <<loyal, enabled, stockVars, given, thanked, vipReport>>

ThankedIn(m) == {r.customer : r \in {x \in thanked : x.month = m}}

\* The transaction is over, with all its locks.
Over(b, how) == [batch EXCEPT ![b] = [Fresh EXCEPT !.step = how]]

\* All are still active and eligible, or nobody gets anything; who has been thanked is left out.
CheckCustomers(b) ==
    /\ batch[b].step = "customers" /\ batch[b].todo = {}
    /\ batch' = IF batch[b].locked = batch[b].ids /\ \A c \in batch[b].ids : <<c, batch[b].month>> \in loyal
                THEN [batch EXCEPT ![b].step = "giving", ![b].todo = batch[b].ids \ ThankedIn(batch[b].month)]
                ELSE Over(b, "refused")
    /\ UNCHANGED <<loyal, enabled, stockVars, given, thanked, vipReport>>

\* _validate_claimable_voucher, with what the batch itself has counted, and the customer's
\* own vouchers.
MayReceive(b, c) ==
    LET v == batch[b].voucher IN
    /\ ~stock[v].ended
    /\ stock[v].issued + Cardinality(batch[b].wrote) < stock[v].limit
    /\ <<c, v>> \notin given

\* Rows of UserVoucher are made, and counted in the locked row of the voucher.
Issued(v, customers) ==
    /\ given' = given \cup {<<c, v>> : c \in customers}
    /\ stock' = [stock EXCEPT ![v].issued = @ + Cardinality(customers)]
    /\ outdated' = IF customers # {} /\ \E e \in rewrites : e.voucher = v
                   THEN outdated \cup {v} ELSE outdated
    /\ UNCHANGED rewrites

\* One customer who cannot have it rolls everything back.
GiveNext(b) ==
    /\ batch[b].step = "giving" /\ batch[b].todo # {}
    /\ LET c == Min(batch[b].todo) IN
       batch' = IF MayReceive(b, c)
                THEN [batch EXCEPT ![b].todo = @ \ {c}, ![b].wrote = @ \cup {c}]
                ELSE Over(b, "refused")
    /\ UNCHANGED <<loyal, enabled, stockVars, given, thanked, vipReport>>

\* A row that is there already would be an error of the database instead: unique_together.
CommitBatch(b) ==
    /\ batch[b].step = "giving" /\ batch[b].todo = {}
    /\ LET wrote == batch[b].wrote IN
       IF wrote \cap ThankedIn(batch[b].month) # {}
       THEN /\ batch' = Over(b, "collided")
            /\ UNCHANGED <<given, thanked, stockVars>>
       ELSE /\ Issued(batch[b].voucher, wrote)
            /\ thanked' = thanked \cup {[customer |-> c, month |-> batch[b].month,
                                         voucher |-> batch[b].voucher] : c \in wrote}
            /\ batch' = [batch EXCEPT ![b].step = "done", ![b].locked = {}]
    /\ UNCHANGED <<loyal, enabled, vipReport>>

\* The new row of UserVoucher waits for who holds the row of its customer.
GiveByHand(b) ==
    /\ batch[b].step = "hand"
    /\ LET c == CHOOSE x \in batch[b].ids : TRUE IN
       IF MayReceive(b, c)
       THEN /\ CustomerIsFree(b, c)
            /\ Issued(batch[b].voucher, {c})
            /\ batch' = [batch EXCEPT ![b].step = "done"]
       ELSE /\ batch' = Over(b, "refused")
            /\ UNCHANGED <<given, stockVars>>
    /\ UNCHANGED <<loyal, enabled, thanked, vipReport>>

\* The process or its connection is lost, and the transaction with it.
LoseBatch(b) ==
    /\ b \in OngoingBatches
    /\ batch' = Over(b, "lost")
    /\ UNCHANGED <<loyal, enabled, stockVars, given, thanked, vipReport>>

-----------------------------------------------------------------------------
(* What goes on meanwhile.                                                 *)

\* A booking is completed, or refunded: no row of the customer is touched.
LoyaltyChanges(c, m) ==
    /\ loyal' = IF <<c, m>> \in loyal THEN loyal \ {<<c, m>>} ELSE loyal \cup {<<c, m>>}
    /\ vipReport' = [vipReport EXCEPT !.grew = @ \/ <<c, m>> \notin loyal]
    /\ UNCHANGED <<enabled, stockVars, given, thanked, batch>>

\* The account's row is written, so it waits for who locked it.
DeactivateAccount(c) ==
    /\ c \in enabled /\ \A b \in Batches : c \notin batch[b].locked
    /\ enabled' = enabled \ {c}
    /\ UNCHANGED <<loyal, stockVars, given, thanked, batch, vipReport>>

\* Its time is over, or it is disabled.
EndVoucher(v) ==
    /\ ~stock[v].ended /\ stock' = [stock EXCEPT ![v].ended = TRUE]
    /\ UNCHANGED <<loyal, enabled, rewrites, outdated, given, thanked, batch, vipReport>>

\* An edit of a voucher: the row is read without a lock, and a limit may not be below the
\* counter that was read with it.
BeginRewrite(v, limit, ended) ==
    /\ limit >= stock[v].issued
    /\ rewrites' = rewrites \cup
           {[voucher |-> v, row |-> [limit |-> limit, issued |-> stock[v].issued, ended |-> ended]]}
    /\ UNCHANGED <<loyal, enabled, stock, outdated, given, thanked, batch, vipReport>>

\* save() of every column waits for who locked the row, and puts the counter back.
FinishRewrite(e) ==
    /\ \A b \in Batches : ~Holds(b, e.voucher)
    /\ rewrites' = rewrites \ {e}
    /\ stock' = [stock EXCEPT ![e.voucher] = e.row]
    /\ UNCHANGED <<loyal, enabled, outdated, given, thanked, batch, vipReport>>

Eligible(m) == {c \in enabled : <<c, m>> \in loyal}

\* monthly_vip_report: how many there are, then how many of them were thanked.
OpenReport(m) ==
    /\ vipReport.step = "none"
    /\ vipReport' = [step |-> "counted", month |-> m, total |-> Cardinality(Eligible(m)), rewarded |-> 0,
                     grew |-> FALSE]
    /\ UNCHANGED <<loyal, enabled, stockVars, given, thanked, batch>>

CountRewarded ==
    /\ vipReport.step = "counted"
    /\ vipReport' = [vipReport EXCEPT !.step = "shown",
                        !.rewarded = Cardinality(Eligible(vipReport.month) \cap ThankedIn(vipReport.month))]
    /\ UNCHANGED <<loyal, enabled, stockVars, given, thanked, batch>>

CloseReport ==
    /\ vipReport.step = "shown" /\ vipReport' = NoReport
    /\ UNCHANGED <<loyal, enabled, stockVars, given, thanked, batch>>

-----------------------------------------------------------------------------
VipInit ==
    /\ loyal = Patrons \X RewardMonths /\ enabled = Patrons
    /\ stock = [v \in Thanks |-> [limit |-> IssueLimit[v], issued |-> 0, ended |-> FALSE]]
    /\ rewrites = {} /\ outdated = {}
    /\ given = {} /\ thanked = {}
    /\ batch = [b \in Batches |-> Fresh]
    /\ vipReport = NoReport

VipNext ==
    \/ \E b \in Batches, v \in Thanks :
          \/ \E ids \in (SUBSET Patrons) \ {{}}, m \in RewardMonths : AskBatch(b, v, ids, m)
          \/ \E c \in Patrons : AskByHand(b, v, c)
    \/ \E b \in Batches :
          \/ LockVoucher(b) \/ LockCustomer(b) \/ CheckCustomers(b) \/ GiveNext(b) \/ CommitBatch(b)
          \/ GiveByHand(b) \/ LoseBatch(b)
    \/ \E c \in Patrons, m \in RewardMonths : LoyaltyChanges(c, m)
    \/ \E c \in Patrons : DeactivateAccount(c)
    \/ \E v \in Thanks :
          \/ EndVoucher(v)
          \/ \E limit \in Quotas, ended \in BOOLEAN : BeginRewrite(v, limit, ended)
    \/ \E e \in rewrites : FinishRewrite(e)
    \/ \E m \in RewardMonths : OpenReport(m)
    \/ CountRewarded \/ CloseReport

VipSpec == VipInit /\ [][VipNext]_vipVars

-----------------------------------------------------------------------------
\* A customer is thanked once for a month, whatever vouchers the batches give, and no
\* batch finds that out from the database after it has given its vouchers.
ThankedOnce ==
    /\ \A r, other \in thanked :
          r.customer = other.customer /\ r.month = other.month => r = other
    /\ \A b \in Batches : batch[b].step # "collided"

\* A reward stands for a voucher its customer has, and no two rewards for the same one.
RewardIsAVoucher ==
    /\ \A r \in thanked : <<r.customer, r.voucher>> \in given
    /\ \A r, other \in thanked :
          r.customer = other.customer /\ r.voucher = other.voucher => r = other

IssuedOf(v) == Cardinality({g \in given : g[2] = v})

\* No row breaks the constraint of its table, whatever limits are set; and of a voucher that
\* nobody was given while it was being edited, the counter is the number of wallets it is
\* in, so no more are issued than may be.
IssuedAreCounted ==
    \A v \in Thanks :
        /\ stock[v].issued <= stock[v].limit
        /\ v \notin outdated => stock[v].issued = IssuedOf(v)

\* Who asked for a batch and was not refused finds all of it thanked, by it or before.
BatchIsWhole ==
    \A b \in Batches :
        batch[b].step = "done" /\ batch[b].month # 0 => batch[b].ids \subseteq ThankedIn(batch[b].month)

\* Nobody whose account is closed is being given anything by a batch.
GivenToActive == \A b \in Batches : batch[b].step = "giving" => batch[b].ids \subseteq enabled

WaitsFor(b, other) ==
    \/ batch[b].step = "voucher" /\ Holds(other, batch[b].voucher)
    \/ /\ batch[b].step = "customers" /\ batch[b].todo # {}
       /\ NextToLock(b) \cap batch[other].locked # {}
    \/ batch[b].step = "hand" /\ batch[b].ids \cap batch[other].locked # {}

\* Some request always goes on: none waits for one that waits for it.
NoWaitingCycle ==
    \A waiting \in (SUBSET OngoingBatches) \ {{}} :
        \E b \in waiting : \A other \in waiting \ {b} : ~WaitsFor(b, other)

\* Fewer are not thanked than nobody, only where a customer became eligible in between.
ReportIsSane == vipReport.step = "shown" /\ ~vipReport.grew => vipReport.rewarded <= vipReport.total

\* The customers of a month are thanked once each, all of a batch or none.
VipSafe ==
    /\ ThankedOnce
    /\ RewardIsAVoucher
    /\ IssuedAreCounted
    /\ BatchIsWhole
    /\ GivenToActive
    /\ NoWaitingCycle
    /\ ReportIsSane
=============================================================================
