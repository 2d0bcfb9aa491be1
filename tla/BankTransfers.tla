--------------------------- MODULE BankTransfers ---------------------------
(***************************************************************************)
(* Money that comes in through payOS: top-ups of a wallet and the payment  *)
(* of one booking by bank transfer.  apps/wallets/topup_service.py,        *)
(* apps/payments/payment_link_service.py and webhook_service.py.           *)
(*                                                                         *)
(* A link takes one transfer while it lives.  payOS reports a transfer by  *)
(* webhooks that may be lost, repeated and late; a top-up is also asked    *)
(* for, by the app that waits for it and by the expiry job.  A question to *)
(* payOS is one step and the use of its answer another.  The report of the *)
(* payment finds its row by order code without a lock and waits for the    *)
(* locks of booking and payment; the order code may be replaced meanwhile. *)
(***************************************************************************)
EXTENDS Integers, FiniteSets

CONSTANTS
    Topups,
    PaymentLinks,       \* order codes the payment may get, 1..n
    Sums,            \* what a customer may transfer
    Asked,              \* the amount of every link
    MaxPendingTopups,   \* MAX_PENDING_TOPUPS
    MaxCreating         \* bound: creations of top-ups under way

ASSUME BankTransfersAssumption ==
    /\ PaymentLinks \subseteq Nat \ {0} /\ Topups \cap (PaymentLinks \cup {0}) = {}
    /\ Topups \cap {"late", "under", "over"} = {}
    /\ Sums \subseteq Nat \ {0} /\ Asked \in Sums
    /\ MaxPendingTopups \in Nat \ {0} /\ MaxCreating \in Nat \ {0}

VARIABLES
    topup,          \* status of each top-up, NONE before its row exists
    creating,       \* creations past the count of pending top-ups
    payment,        \* status and order code of the payment
    booking,        \* UNPAID, PAID or CANCELLED
    link,           \* age of the payOS link of each order code
    sent,           \* what was transferred to each order code
    webhooks,       \* order codes of the reports under way
    reported,       \* order codes of the reports handled so far
    found,          \* order codes whose report found the payment and waits for the locks
    settledBy,      \* history: the order code whose report settled the payment
    overtaken,      \* history: order codes replaced while a report waited
    unmatched,      \* order codes logged as matching nothing
    answers,        \* answers of payOS not used yet: who asked about which top-up
    unanswered,     \* top-ups the job could not ask payOS about
    credits         \* what the wallet got, by idempotency key

finding == <<found, settledBy, overtaken>>
bankVars == <<topup, creating, payment, booking, link, sent, webhooks, reported, finding,
              unmatched, answers, unanswered, credits>>
bank == <<sent, webhooks>>

Codes == Topups \cup PaymentLinks
Ages == {"NONE", "LIVE", "OVER", "OLD"}     \* OLD: past EXPIRE_GRACE_MINUTES as well
Askers == {"app", "job"}
\* Keys of the credits: topup:<id>, late:<id>, under:<id>, over:<id>.
Keys == Topups \cup {"late", "under", "over"}
NoLink == 0

-----------------------------------------------------------------------------
Pending == {t \in Topups : topup[t] \in {"NEW", "PENDING"} /\ link[t] = "LIVE"}

\* A credit is made once per key.
Credit(key, amount) ==
    credits' = IF credits[key] > 0 THEN credits ELSE [credits EXCEPT ![key] = amount]

\* The count is taken without a lock, and used later.
MayCreate == Cardinality(Pending) < MaxPendingTopups

CountPending(t) ==
    /\ topup[t] = "NONE" /\ t \notin creating /\ Cardinality(creating) < MaxCreating
    /\ MayCreate
    /\ creating' = creating \cup {t}
    /\ UNCHANGED <<topup, payment, booking, link, bank, reported, finding, unmatched, answers, unanswered,
                   credits>>

CreateTopup(t) ==
    /\ t \in creating
    /\ topup' = [topup EXCEPT ![t] = "NEW"]
    /\ link' = [link EXCEPT ![t] = "LIVE"]
    /\ creating' = creating \ {t}
    /\ UNCHANGED <<payment, booking, bank, reported, finding, unmatched, answers, unanswered, credits>>

\* The customer learns the link, or payOS failed and the status is overwritten.
FinishTopup(t, made) ==
    /\ topup[t] = "NEW"
    /\ topup' = [topup EXCEPT ![t] = IF made THEN "PENDING" ELSE "CANCELLED"]
    /\ UNCHANGED <<creating, payment, booking, link, bank, reported, finding, unmatched, answers,
                   unanswered, credits>>

Paid(t) == topup[t] = "SUCCESS"

\* Mutant: money for a top-up that is expired already is kept.
ConfirmTopup_OnlyPending(t) ==
    IF topup[t] # "PENDING" THEN UNCHANGED <<topup, credits>>
    ELSE Credit(t, sent[t]) /\ topup' = [topup EXCEPT ![t] = "SUCCESS"]

\* Called by the webhook and by whoever asked payOS; the row is locked.
ConfirmTopup(t) ==
    IF Paid(t) THEN UNCHANGED <<topup, credits>>
    ELSE /\ Credit(t, sent[t])
         /\ topup' = [topup EXCEPT ![t] = "SUCCESS"]

\* A live link is handed out again.
HasLiveLink == payment.code # NoLink /\ link[payment.code] = "LIVE"

CreatePaymentLink(c) ==
    /\ payment.status = "PENDING" /\ ~HasLiveLink
    /\ link[c] = "NONE"
    /\ payment' = [payment EXCEPT !.code = c]
    /\ link' = [link EXCEPT ![c] = "LIVE"]
    /\ overtaken' = overtaken \cup (found \cap {payment.code})
    /\ UNCHANGED <<topup, creating, booking, bank, reported, found, settledBy, unmatched, answers,
                   unanswered, credits>>

\* expire_unpaid_bookings, or the customer cancels before paying.
CancelUnpaid ==
    /\ booking = "UNPAID"
    /\ booking' = "CANCELLED"
    /\ payment' = [payment EXCEPT !.status = IF @ = "PENDING" THEN "CANCELLED" ELSE @]
    /\ UNCHANGED <<topup, creating, link, bank, reported, finding, unmatched, answers, unanswered, credits>>

-----------------------------------------------------------------------------
(* The bank, payOS and time.                                               *)

Transfer(c, amount) ==
    /\ link[c] = "LIVE" /\ sent[c] = 0
    /\ c \in Topups => topup[c] = "PENDING"
    /\ sent' = [sent EXCEPT ![c] = amount]
    /\ webhooks' = webhooks \cup {c}
    /\ UNCHANGED <<topup, creating, payment, booking, link, reported, finding, unmatched, answers,
                   unanswered, credits>>

LoseWebhook(c) ==
    /\ c \in webhooks
    /\ webhooks' = webhooks \ {c}
    /\ UNCHANGED <<topup, creating, payment, booking, link, sent, reported, finding, unmatched, answers,
                   unanswered, credits>>

Older(old) == CASE old = "LIVE" -> "OVER" [] old = "OVER" -> "OLD"

\* A link whose creation is not answered yet does not outlive it.
TimePasses(c) ==
    /\ link[c] \in {"LIVE", "OVER"}
    /\ c \in Topups => topup[c] # "NEW"
    /\ c \in PaymentLinks => link[c] = "LIVE"
    /\ link' = [link EXCEPT ![c] = Older(@)]
    /\ UNCHANGED <<topup, creating, payment, booking, bank, reported, finding, unmatched, answers,
                   unanswered, credits>>

-----------------------------------------------------------------------------
(* The webhook.  A report stays under way: payOS may repeat it.            *)

StillWaiting == payment.status = "PENDING" /\ booking = "UNPAID"

\* Late: the payment, or the booking, waits no more.
ReturnToWallet(c) ==
    /\ ~StillWaiting
    /\ payment' = [payment EXCEPT !.status = "REFUNDED", !.paid = TRUE]
    /\ Credit("late", sent[c])
    /\ UNCHANGED booking

ReturnShort(c) ==
    /\ StillWaiting /\ sent[c] < Asked
    /\ payment' = [payment EXCEPT !.status = "REFUNDED", !.paid = TRUE]
    /\ booking' = "CANCELLED"
    /\ Credit("under", sent[c])

AcceptPayment(c) ==
    /\ StillWaiting /\ sent[c] >= Asked
    /\ payment' = [payment EXCEPT !.status = "SUCCESS", !.paid = TRUE]
    /\ booking' = "PAID"
    /\ IF sent[c] > Asked THEN Credit("over", sent[c] - Asked) ELSE UNCHANGED credits

\* The lookup takes no lock.
FindPayment(c) ==
    /\ c \in webhooks /\ c = payment.code
    /\ found' = found \cup {c}
    /\ UNCHANGED <<topup, creating, payment, booking, link, bank, reported, settledBy, overtaken,
                   unmatched, answers, unanswered, credits>>

\* The row found before is locked and used, whatever order code it has by now.
HandlePaymentReport(c) ==
    /\ c \in found
    /\ found' = found \ {c} /\ reported' = reported \cup {c}
    /\ IF payment.paid THEN UNCHANGED <<payment, booking, credits, settledBy>>
       ELSE settledBy' = c /\ (ReturnToWallet(c) \/ ReturnShort(c) \/ AcceptPayment(c))
    /\ UNCHANGED <<topup, creating, link, bank, overtaken, unmatched, answers, unanswered>>

HandleTopupReport(c) ==
    /\ c \in Topups
    /\ ConfirmTopup(c)
    /\ UNCHANGED <<payment, booking, unmatched>>

\* Neither a payment nor a top-up: only logged.
LogUnmatched(c) ==
    /\ c \in PaymentLinks \ {payment.code}
    /\ unmatched' = unmatched \cup {c}
    /\ UNCHANGED <<topup, payment, booking, credits>>

HandleWebhook(c) ==
    /\ c \in webhooks
    /\ reported' = reported \cup {c}
    /\ HandleTopupReport(c) \/ LogUnmatched(c)
    /\ UNCHANGED <<creating, link, bank, finding, answers, unanswered>>

-----------------------------------------------------------------------------
(* Asking payOS about a top-up: get status, then use it.                   *)

\* payOS calls a link PAID when the whole amount came in.
PaidInFull(t) == sent[t] >= Asked

\* The detail view of the app; the throttle of five seconds lets it through or not.
AskFromApp(t) ==
    /\ topup[t] = "PENDING"
    /\ ~\E a \in answers : a.who = "app" /\ a.about = t
    /\ answers' = answers \cup {[who |-> "app", about |-> t, paid |-> PaidInFull(t)]}
    /\ UNCHANGED <<topup, creating, payment, booking, link, bank, reported, finding, unmatched,
                   unanswered, credits>>

\* Mutant: the job looks at links that have just ended only.
Due_JustOver(t) == topup[t] = "PENDING" /\ link[t] = "OVER"

\* The job asks about the top-ups whose link ended; payOS may not answer.
Due(t) == topup[t] = "PENDING" /\ link[t] = "OLD"

AskFromJob(t, answered) ==
    /\ Due(t) /\ ~\E a \in answers : a.who = "job"
    /\ answers' = answers \cup {[who |-> "job", about |-> t, paid |-> answered /\ PaidInFull(t)]}
    /\ unanswered' = IF answered THEN unanswered ELSE unanswered \cup {t}
    /\ UNCHANGED <<topup, creating, payment, booking, link, bank, reported, finding, unmatched, credits>>

\* The update names the status it replaces.
Expire(t) ==
    topup' = IF topup[t] = "PENDING" THEN [topup EXCEPT ![t] = "EXPIRED"] ELSE topup

UseAnswer(a) ==
    /\ a \in answers
    /\ answers' = answers \ {a}
    /\ \/ a.paid /\ ConfirmTopup(a.about)
       \/ ~a.paid /\ a.who = "job" /\ Expire(a.about) /\ UNCHANGED credits
       \/ ~a.paid /\ a.who = "app" /\ UNCHANGED <<topup, credits>>
    /\ UNCHANGED <<creating, payment, booking, link, bank, reported, finding, unmatched, unanswered>>

-----------------------------------------------------------------------------
BankInit ==
    /\ topup = [t \in Topups |-> "NONE"] /\ creating = {}
    /\ payment = [status |-> "PENDING", code |-> NoLink, paid |-> FALSE]
    /\ booking = "UNPAID"
    /\ link = [c \in Codes |-> "NONE"] /\ sent = [c \in Codes |-> 0]
    /\ webhooks = {} /\ reported = {} /\ unmatched = {}
    /\ found = {} /\ settledBy = NoLink /\ overtaken = {}
    /\ answers = {} /\ unanswered = {}
    /\ credits = [k \in Keys |-> 0]

ExpiryJob(t) ==
    \/ \E answered \in BOOLEAN : AskFromJob(t, answered)
    \/ \E a \in answers : a.who = "job" /\ a.about = t /\ UseAnswer(a)

BankNext ==
    \/ \E t \in Topups : CountPending(t) \/ CreateTopup(t) \/ AskFromApp(t) \/ ExpiryJob(t)
    \/ \E t \in Topups, made \in BOOLEAN : FinishTopup(t, made)
    \/ \E c \in PaymentLinks : CreatePaymentLink(c)
    \/ CancelUnpaid
    \/ \E c \in Codes, amount \in Sums : Transfer(c, amount)
    \/ \E c \in Codes : LoseWebhook(c) \/ TimePasses(c) \/ HandleWebhook(c)
    \/ \E c \in PaymentLinks : FindPayment(c) \/ HandlePaymentReport(c)
    \/ \E a \in answers : a.who = "app" /\ UseAnswer(a)

\* The job runs every few minutes, and time passes.
BankFairness ==
    \A t \in Topups : WF_bankVars(ExpiryJob(t)) /\ WF_bankVars(TimePasses(t))

BankSpec == BankInit /\ [][BankNext]_bankVars /\ BankFairness

-----------------------------------------------------------------------------
BankTypeOK ==
    /\ topup \in [Topups -> {"NONE", "NEW", "PENDING", "SUCCESS", "EXPIRED", "CANCELLED"}]
    /\ creating \subseteq Topups
    /\ payment.status \in {"PENDING", "SUCCESS", "REFUNDED", "CANCELLED"}
    /\ payment.code \in PaymentLinks \cup {NoLink} /\ payment.paid \in BOOLEAN
    /\ booking \in {"UNPAID", "PAID", "CANCELLED"}
    /\ link \in [Codes -> Ages] /\ \A c \in Codes : sent[c] \in Sums \cup {0}
    /\ webhooks \subseteq Codes /\ reported \subseteq Codes /\ unmatched \subseteq PaymentLinks
    /\ found \subseteq PaymentLinks /\ overtaken \subseteq PaymentLinks
    /\ settledBy \in PaymentLinks \cup {NoLink}
    /\ \A a \in answers : a.who \in Askers /\ a.about \in Topups /\ a.paid \in BOOLEAN
    /\ unanswered \subseteq Topups
    /\ \A k \in Keys : credits[k] \in Nat

\* Every transfer that was reported and matched is in the customer's hands exactly
\* once, as credit of the wallet or as the paid booking, whatever the order of
\* webhooks, polling, cancellation and the expiry job; and a top-up that brought money
\* is not set back by the job or a failing creation.  Two transfers may be made for the
\* payment, to a link and to the one after it: the later report is then dropped, and
\* only when the order code was replaced while one of the reports waited for the locks.
MoneyInOnce ==
    /\ \A t \in Topups : credits[t] = IF Paid(t) THEN sent[t] ELSE 0
    /\ payment.paid =>
           credits["late"] + credits["under"] + credits["over"]
               + (IF booking = "PAID" THEN Asked ELSE 0) = sent[settledBy]
    /\ \A c \in reported \ unmatched :
           IF c \in Topups THEN Paid(c)
           ELSE payment.paid /\ (c = settledBy \/ overtaken \cap {c, settledBy} # {})

\* A report is put aside for a person only when the customer had asked for a newer
\* link after the one the transfer went to had ended.
UnmatchedWasReplaced ==
    \A c \in unmatched : payment.code \notin {c, NoLink} /\ link[c] # "LIVE"

\* The count of pending top-ups is read without a lock: concurrent creations may
\* pass the limit, by less than their number and no further.
PendingBounded == Cardinality(Pending) <= MaxPendingTopups + MaxCreating - 1

\* Even if every webhook is lost, a top-up paid in full is credited, unless payOS left
\* the job's one question about it unanswered.  (A short one is credited by its webhook only.)
TopupIsCredited ==
    \A t \in Topups : PaidInFull(t) ~> (Paid(t) \/ t \in unanswered)

\* Money that comes in arrives once, reports put aside belong to replaced links, and
\* no more top-ups wait than the limit and the creations under way allow.
TransfersSafe ==
    /\ BankTypeOK
    /\ MoneyInOnce
    /\ UnmatchedWasReplaced
    /\ PendingBounded
=============================================================================
