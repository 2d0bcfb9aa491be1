--------------------------- MODULE PaymentHistory ---------------------------
(***************************************************************************)
(* What a customer is told of his payments and refunds: the screen of      *)
(* apps/payments/history_service.py, put together from two tables by two   *)
(* queries that share no transaction, while payments arrive, are refunded  *)
(* and are taken back.  What moves the money is modelled where it belongs; *)
(* here is what it leaves in the two tables.                               *)
(***************************************************************************)
EXTENDS Integers, Sequences, FiniteSets, Sums

CONSTANTS
    Bills,          \* bookings of one customer, each with its payment
    Cost,           \* what each booking costs
    FetchCap,       \* FETCH_CAP: how many rows of a table are read at most
    MaxLedger       \* bound on the transactions of the wallet

ASSUME HistoryAssumption ==
    IsFiniteSet(Bills) /\ Cost \in Nat \ {0} /\ FetchCap \in Nat \ {0} /\ MaxLedger \in Nat

VARIABLES
    bills,          \* the rows of Payment, oldest first
    bill,           \* of each: its method, its status, whether its booking was paid, and what came and went
    ledger,         \* WalletTransaction of types PAYMENT and REFUND, oldest first
    statement         \* the screen being put together

historyVars == <<bills, bill, ledger, statement>>

Unbilled ==
    [method |-> "none", status |-> "NONE", paid |-> FALSE, received |-> 0, refunded |-> 0, clawed |-> 0]
NoHistory == [step |-> "none", source |-> "all", payments |-> {}, rows |-> {}, calm |-> TRUE]

-----------------------------------------------------------------------------
(* What happens to payments.                                               *)

LedgerRow(kind, b, amount) == [kind |-> kind, bill |-> b, amount |-> amount]

\* A change of a payment with what it adds to the ledger: one transaction of the database.
\* A screen that is complete is looked at before it.
Move(b, new, entries) ==
    /\ Len(ledger) + Len(entries) <= MaxLedger
    /\ bill' = [bill EXCEPT ![b] = new]
    /\ ledger' = ledger \o entries
    /\ statement' = IF statement.step = "payments" THEN [statement EXCEPT !.calm = FALSE] ELSE NoHistory

\* Paid from the wallet it is settled at once.
MakeBill(b, method) ==
    /\ bill[b] = Unbilled
    /\ bills' = Append(bills, b)
    /\ IF method = "WALLET"
       THEN Move(b, [Unbilled EXCEPT !.method = method, !.status = "SUCCESS", !.paid = TRUE,
                                     !.received = Cost],
                 <<LedgerRow("PAYMENT", b, Cost)>>)
       ELSE Move(b, [Unbilled EXCEPT !.method = method, !.status = "PENDING"], <<>>)

CancelBill(b) ==
    /\ bill[b].status = "PENDING"
    /\ Move(b, [bill[b] EXCEPT !.status = "CANCELLED"], <<>>)
    /\ UNCHANGED bills

CollectCash(b) ==
    /\ bill[b].method = "CASH" /\ bill[b].status = "PENDING"
    /\ Move(b, [bill[b] EXCEPT !.status = "SUCCESS", !.paid = TRUE, !.received = Cost], <<>>)
    /\ UNCHANGED bills

\* Too little, or for a booking that is no more, goes to the wallet; so does what is too much.
ReceiveTransfer(b, amount) ==
    /\ bill[b].method = "BANK_TRANSFER" /\ bill[b].status \in {"PENDING", "CANCELLED"}
    /\ IF amount < Cost \/ bill[b].status = "CANCELLED"
       THEN Move(b, [bill[b] EXCEPT !.status = "REFUNDED", !.received = amount, !.refunded = amount],
                 <<LedgerRow("REFUND", b, amount)>>)
       ELSE Move(b, [bill[b] EXCEPT !.status = "SUCCESS", !.paid = TRUE, !.received = amount,
                                    !.refunded = amount - Cost],
                 IF amount = Cost THEN <<>> ELSE <<LedgerRow("REFUND", b, amount - Cost)>>)
    /\ UNCHANGED bills

\* refund_booking: part of it, and REFUNDED with the last part.
RefundBill(b, amount) ==
    LET left == bill[b].received - bill[b].refunded IN
    /\ bill[b].status = "SUCCESS" /\ amount <= left
    /\ Move(b, [bill[b] EXCEPT !.status = IF amount = left THEN "REFUNDED" ELSE @, !.refunded = @ + amount],
            <<LedgerRow("REFUND", b, amount)>>)
    /\ UNCHANGED bills

\* A complaint takes a refund back, as an ADJUSTMENT, which the screen does not read.
ClawBack(b, amount) ==
    LET back == bill[b].refunded - (IF bill[b].received > Cost THEN bill[b].received - Cost ELSE 0) IN
    /\ bill[b].paid /\ amount <= back
    /\ Move(b, [bill[b] EXCEPT !.status = "SUCCESS", !.refunded = @ - amount, !.clawed = @ + amount], <<>>)
    /\ UNCHANGED bills

-----------------------------------------------------------------------------
(* The screen.                                                             *)

IsPaid(status) == status \in {"SUCCESS", "REFUNDED"}

\* The newest of some rows of a table.
Newest(rows) == {i \in rows : Cardinality({j \in rows : j > i}) < FetchCap}

FromSource(source, method) ==
    /\ source = "online" => method # "WALLET"
    /\ source = "wallet" => method = "WALLET"

PaymentRow(b) == [kind |-> "PAYMENT", bill |-> b, key |-> 0, amount |-> Cost, status |-> bill[b].status]
WalletRow(i) == [kind |-> ledger[i].kind, bill |-> ledger[i].bill, key |-> i, amount |-> ledger[i].amount,
                 status |-> "SUCCESS"]

\* The first query: the newest payments of the source.
AskHistory(source) ==
    /\ statement = NoHistory
    /\ LET found == {i \in DOMAIN bills : FromSource(source, bill[bills[i]].method)} IN
       statement' = [NoHistory EXCEPT !.source = source,
                                      !.payments = {PaymentRow(bills[i]) : i \in Newest(found)},
                                      !.step = IF source = "online" THEN "shown" ELSE "payments"]
    /\ UNCHANGED <<bills, bill, ledger>>

\* The bookings whose payment from the wallet is a row already, from the first query alone.
DroppedAs(payments) ==
    {r.bill : r \in {p \in payments : bill[p.bill].method = "WALLET" /\ IsPaid(p.status)}}

\* The second query, and what is left out of it.
ReadLedger ==
    /\ statement.step = "payments"
    /\ statement' = [statement EXCEPT
          !.step = "shown",
          !.rows = {WalletRow(i) : i \in {n \in Newest(DOMAIN ledger) :
                        ~(ledger[n].kind = "PAYMENT" /\ ledger[n].bill \in DroppedAs(statement.payments))}}]
    /\ UNCHANGED <<bills, bill, ledger>>

CloseHistory ==
    /\ statement.step = "shown" /\ statement' = NoHistory
    /\ UNCHANGED <<bills, bill, ledger>>

HistoryRows == statement.payments \cup statement.rows
PaidRows == {r \in HistoryRows : r.kind = "PAYMENT" /\ IsPaid(r.status)}
RefundRows == {r \in HistoryRows : r.kind = "REFUND"}

RowTotal(rows) == SumOver([r \in rows |-> r.amount], rows)

\* The filter by status: what each choice leaves of the rows.
MatchStatus(r, choice) ==
    CASE choice = "paid" -> r.kind = "PAYMENT" /\ r.status = "SUCCESS"
      [] choice = "pending" -> r.status = "PENDING"
      [] choice = "cancelled" -> r.status \in {"CANCELLED", "FAILED"}
      [] choice = "refunded" -> r.kind = "REFUND" \/ r.status = "REFUNDED"
      [] OTHER -> TRUE

-----------------------------------------------------------------------------
HistoryInit ==
    /\ bills = <<>> /\ bill = [b \in Bills |-> Unbilled]
    /\ ledger = <<>> /\ statement = NoHistory

HistoryNext ==
    \/ \E b \in Bills :
          \/ \E method \in {"CASH", "BANK_TRANSFER", "WALLET"} : MakeBill(b, method)
          \/ CancelBill(b) \/ CollectCash(b)
          \/ \E amount \in (Cost - 1)..(Cost + 1) \ {0} : ReceiveTransfer(b, amount)
          \/ \E amount \in 1..Cost : RefundBill(b, amount) \/ ClawBack(b, amount)
    \/ \E source \in {"all", "wallet", "online"} : AskHistory(source)
    \/ ReadLedger \/ CloseHistory

-----------------------------------------------------------------------------
\* A payment is one paid row, from whichever table: what is settled between the two
\* queries, or is too old for one of them, is neither twice on the screen nor dropped
\* by one of them for the other.
PaidOnce ==
    statement.step = "shown" =>
        /\ \A r, other \in PaidRows : r.bill = other.bill => r = other
        /\ statement.source # "online" =>
              \A i \in Newest(DOMAIN ledger) : ledger[i].kind = "PAYMENT" =>
                  \E r \in PaidRows : r.bill = ledger[i].bill

\* Nothing is too old, nothing moved while it was read, and every transfer was right: then
\* what was paid less what came back is what the house has, but for what it took back.
TotalsAgree ==
    /\ statement.step = "shown" /\ statement.calm /\ statement.source = "all"
    /\ Len(bills) <= FetchCap /\ Len(ledger) <= FetchCap
    /\ \A b \in Bills : bill[b].received \in {0, Cost}
    => RowTotal(PaidRows) - RowTotal(RefundRows)
       = SumOver([b \in Bills |-> bill[b].received - bill[b].refunded - bill[b].clawed], Bills)

\* Every row is found under one of the choices of status, a payment under only one of them.
EveryRowIsFound ==
    statement.step = "shown" =>
        \A r \in HistoryRows :
            LET found == {choice \in {"paid", "pending", "cancelled", "refunded"} : MatchStatus(r, choice)}
            IN  Cardinality(found) = 1

\* The customer is told each of his payments once, in totals that agree.
HistorySafe ==
    /\ PaidOnce
    /\ TotalsAgree
    /\ EveryRowIsFound
=============================================================================
