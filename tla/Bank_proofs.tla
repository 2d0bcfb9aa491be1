---------------------------- MODULE Bank_proofs -----------------------------
(***************************************************************************)
(* Proofs about what comes from the bank.                                  *)
(*                                                                         *)
(* BankTransfers: money that reaches the platform's account arrives in the *)
(* wallets once, whatever the order of the reports of the bank, of the     *)
(* customer's own checks, and of the links that replace each other.        *)
(* BankInvariant says what TransfersSafe needs to survive a step: nothing  *)
(* is reported or asked about before its link exists, a payment is settled *)
(* by at most one report, found by the order code it has or has lost, only *)
(* the newest link of a payment is alive, and the top-ups that are being   *)
(* created are counted with those that wait.                               *)
(*                                                                         *)
(* BankAccounts: what the database holds of a user's bank accounts,        *)
(* although every handler writes from what it read before.                 *)
(* AccountInvariant says what of each reading still holds when the handler *)
(* writes: the bank has confirmed, the attempt is of that account, and an  *)
(* expiry that will not touch the account read it when it was not waiting. *)
(* The accounts are counted with those that handlers are about to add.     *)
(*                                                                         *)
(* WithdrawEntry: what repeated requests, marks and codes                  *)
(* that expire, and crossing guesses can do to a wallet.                   *)
(*                                                                         *)
(* EntryInvariant counts the requests at some of their steps (Number). A   *)
(* mailed code is in the cache, in the hands of one request, or spent      *)
(* (CodesSpent), so that withdrawals never outnumber mails. The bound of   *)
(* the guesses needs to know who may still clear the count of tries        *)
(* (FewClear): one request that used the code before, and the one that     *)
(* uses this code. Between two clearings the count holds back all but the  *)
(* requests that have read it already (GuessesLeft).                       *)
(***************************************************************************)
EXTENDS BankTransfers, BankAccounts, WithdrawEntry, FiniteSetTheorems, TLAPS

-----------------------------------------------------------------------------
(* Transfers: the inductive invariant *)

\* The shapes behind BankTypeOK.
BankShape ==
    /\ BankTypeOK
    /\ payment \in [status : {"PENDING", "SUCCESS", "REFUNDED", "CANCELLED"},
                    code : PaymentLinks \cup {NoLink}, paid : BOOLEAN]
    /\ sent \in [Codes -> Sums \cup {0}] /\ credits \in [Keys -> Nat]

\* Nobody pays, reports or asks about what does not exist yet.
MoneyHasItsLink ==
    /\ \A c \in webhooks : sent[c] # 0
    /\ \A c \in Codes : sent[c] # 0 => link[c] # "NONE"
    /\ \A t \in Topups : sent[t] # 0 => topup[t] \notin {"NONE", "NEW"}
    /\ \A a \in answers : topup[a.about] \notin {"NONE", "NEW"}
    /\ \A t \in creating : topup[t] = "NONE"

\* A payment is paid once, and nothing was given before.
PaidIsFinal ==
    /\ payment.paid =>
           /\ payment.status # "PENDING"
           /\ settledBy \in PaymentLinks /\ sent[settledBy] # 0
           /\ settledBy = payment.code \/ settledBy \in overtaken
    /\ ~payment.paid => /\ credits["late"] = 0 /\ credits["under"] = 0 /\ credits["over"] = 0
                        /\ booking # "PAID"

\* A report that waits was found by the order code of now, or one it has lost meanwhile.
FoundEarlier ==
    \A c \in found : sent[c] # 0 /\ (c = payment.code \/ c \in overtaken)

\* Only the newest link of the payment can be alive.
NewestLink ==
    \A c \in PaymentLinks :
        /\ link[c] # "NONE" => payment.code # NoLink
        /\ link[c] = "LIVE" => payment.code = c
        /\ c \in unmatched => link[c] # "NONE"

\* What a creation under way will add to the top-ups that wait is counted with them.
FewPending ==
    /\ IsFiniteSet(Pending) /\ IsFiniteSet(creating)
    /\ Cardinality(creating) <= MaxCreating
    /\ Cardinality(Pending) + Cardinality(creating) <= MaxPendingTopups + MaxCreating - 1

BankInvariant ==
    /\ BankShape
    /\ MoneyInOnce
    /\ UnmatchedWasReplaced
    /\ MoneyHasItsLink
    /\ PaidIsFinal
    /\ FoundEarlier
    /\ NewestLink
    /\ FewPending

-----------------------------------------------------------------------------
(* Each step *)

\* The codes of top-ups, payments and the other keys of the wallet are different things.
LEMMA CodesDiffer ==
    /\ NoLink \notin Codes
    /\ \A t \in Topups : t \notin PaymentLinks /\ t \in Codes /\ t \in Keys
                         /\ t \notin {"late", "under", "over"}
    /\ PaymentLinks \subseteq Codes /\ {"late", "under", "over"} \subseteq Keys
    /\ Asked \in Nat \ {0} /\ Sums \subseteq Nat \ {0} /\ 0 \notin Sums
BY BankTransfersAssumption DEF Codes, Keys, NoLink

\* Where no top-up begins to wait and no creation begins, the count stays.
LEMMA FewerPending ==
    ASSUME FewPending, Pending' \subseteq Pending, creating' = creating
    PROVE  FewPending'
<1>1. IsFiniteSet(Pending') /\ Cardinality(Pending') <= Cardinality(Pending)
  BY FS_Subset DEF FewPending
<1>2. /\ Cardinality(Pending) \in Nat /\ Cardinality(Pending') \in Nat
      /\ Cardinality(creating) \in Nat /\ MaxPendingTopups \in Nat /\ MaxCreating \in Nat
  BY <1>1, FS_CardinalityType, BankTransfersAssumption DEF FewPending
<1> QED BY <1>1, <1>2 DEF FewPending

\* A creation passes the count of the top-ups that wait.
LEMMA BankCountPending ==
    ASSUME BankInvariant, NEW t \in Topups, CountPending(t)
    PROVE  BankInvariant'
<1> USE DEF bank, finding
<1>1. /\ t \notin creating /\ topup[t] = "NONE" /\ creating' = creating \cup {t}
      /\ Cardinality(creating) < MaxCreating /\ Cardinality(Pending) < MaxPendingTopups
      /\ UNCHANGED <<topup, payment, booking, link, sent, webhooks, reported, finding, unmatched, answers,
                     unanswered, credits>>
  BY DEF CountPending, MayCreate
<1>2. BankShape' /\ MoneyInOnce' /\ UnmatchedWasReplaced' /\ PaidIsFinal' /\ FoundEarlier' /\ NewestLink'
  BY <1>1 DEF BankInvariant, BankShape, BankTypeOK, MoneyInOnce, UnmatchedWasReplaced, PaidIsFinal, FoundEarlier,
              NewestLink, Paid
<1>3. MoneyHasItsLink'
  BY <1>1 DEF BankInvariant, MoneyHasItsLink
<1>4. FewPending'
  <2>1. Pending' = Pending /\ IsFiniteSet(Pending) /\ IsFiniteSet(creating)
    BY <1>1 DEF Pending, BankInvariant, FewPending
  <2>2. Cardinality(creating \cup {t}) = Cardinality(creating) + 1 /\ IsFiniteSet(creating \cup {t})
    BY <1>1, <2>1, FS_AddElement
  <2>3. /\ Cardinality(Pending) \in Nat /\ Cardinality(creating) \in Nat
        /\ MaxPendingTopups \in Nat /\ MaxCreating \in Nat
    BY <2>1, FS_CardinalityType, BankTransfersAssumption
  <2> QED BY <1>1, <2>1, <2>2, <2>3 DEF FewPending
<1> QED BY <1>2, <1>3, <1>4 DEF BankInvariant

\* The row of a top-up is made, and its creation is no longer under way.
LEMMA BankCreateTopup ==
    ASSUME BankInvariant, NEW t \in Topups, CreateTopup(t)
    PROVE  BankInvariant'
<1> USE DEF bank, finding
<1>1. /\ t \in creating /\ topup[t] = "NONE"
      /\ topup' = [topup EXCEPT ![t] = "NEW"] /\ link' = [link EXCEPT ![t] = "LIVE"]
      /\ creating' = creating \ {t}
      /\ UNCHANGED <<payment, booking, sent, webhooks, reported, finding, unmatched, answers,
                     unanswered, credits>>
  BY DEF CreateTopup, BankInvariant, MoneyHasItsLink
<1>2. /\ \A u \in Topups : topup'[u] = IF u = t THEN "NEW" ELSE topup[u]
      /\ \A c \in Codes : link'[c] = IF c = t THEN "LIVE" ELSE link[c]
  BY <1>1 DEF BankInvariant, BankShape, BankTypeOK
<1>3. BankShape'
  BY <1>1 DEF BankInvariant, BankShape, BankTypeOK, Ages
<1>4. MoneyInOnce'
  BY <1>1, <1>2 DEF BankInvariant, MoneyInOnce, Paid
<1>5. UnmatchedWasReplaced' /\ NewestLink' /\ PaidIsFinal' /\ FoundEarlier'
  BY <1>1, <1>2, CodesDiffer
     DEF BankInvariant, UnmatchedWasReplaced, NewestLink, PaidIsFinal, FoundEarlier, BankShape, BankTypeOK
<1>6. MoneyHasItsLink'
  BY <1>1, <1>2 DEF BankInvariant, MoneyHasItsLink, BankShape, BankTypeOK
<1>7. FewPending'
  <2>1. /\ Pending' = Pending \cup {t} /\ t \notin Pending
        /\ IsFiniteSet(Pending) /\ IsFiniteSet(creating)
    BY <1>1, <1>2, CodesDiffer DEF Pending, BankInvariant, FewPending
  <2>2. /\ Cardinality(Pending \cup {t}) = Cardinality(Pending) + 1 /\ IsFiniteSet(Pending \cup {t})
        /\ Cardinality(creating \ {t}) = Cardinality(creating) - 1 /\ IsFiniteSet(creating \ {t})
    BY <1>1, <2>1, FS_AddElement, FS_RemoveElement
  <2>3. /\ Cardinality(Pending) \in Nat /\ Cardinality(creating) \in Nat
        /\ MaxPendingTopups \in Nat /\ MaxCreating \in Nat
    BY <2>1, FS_CardinalityType, BankTransfersAssumption
  <2> QED BY <1>1, <2>1, <2>2, <2>3 DEF FewPending, BankInvariant
<1> QED BY <1>3, <1>4, <1>5, <1>6, <1>7 DEF BankInvariant

\* The status of a top-up that was not paid changes to one that is not SUCCESS.
LEMMA BankTopupMoves ==
    ASSUME BankInvariant, NEW t \in Topups, NEW status \in {"PENDING", "CANCELLED", "EXPIRED"},
           topup[t] \in {"NEW", "PENDING"}, status # "PENDING" \/ topup[t] = "NEW",
           topup' = [topup EXCEPT ![t] = status], answers' \subseteq answers,
           UNCHANGED <<creating, payment, booking, link, bank, reported, finding, unmatched,
                       unanswered, credits>>
    PROVE  BankInvariant'
<1> USE DEF bank, finding
<1>1. \A u \in Topups : topup'[u] = IF u = t THEN status ELSE topup[u]
  BY DEF BankInvariant, BankShape, BankTypeOK
<1>2. BankShape'
  BY DEF BankInvariant, BankShape, BankTypeOK
<1>3. MoneyInOnce'
  BY <1>1 DEF BankInvariant, MoneyInOnce, Paid
<1>4. UnmatchedWasReplaced' /\ NewestLink' /\ PaidIsFinal' /\ FoundEarlier'
  BY DEF BankInvariant, UnmatchedWasReplaced, NewestLink, PaidIsFinal, FoundEarlier
<1>5. MoneyHasItsLink'
  BY <1>1 DEF BankInvariant, MoneyHasItsLink, BankShape, BankTypeOK
<1>6. Pending' \subseteq Pending
  BY <1>1 DEF Pending
<1>7. FewPending'
  BY <1>6, FewerPending DEF BankInvariant
<1> QED BY <1>2, <1>3, <1>4, <1>5, <1>7 DEF BankInvariant

\* A top-up whose link exists is confirmed, by a webhook or by an answer of payOS.
LEMMA BankConfirmTopup ==
    ASSUME BankInvariant, NEW t \in Topups, topup[t] \notin {"NONE", "NEW"}, ConfirmTopup(t),
           reported' \subseteq reported \cup {t}, answers' \subseteq answers,
           UNCHANGED <<creating, payment, booking, link, bank, finding, unmatched, unanswered>>
    PROVE  BankInvariant'
<1> USE DEF bank, finding
<1>1. topup' \in [Topups -> {"NONE", "NEW", "PENDING", "SUCCESS", "EXPIRED", "CANCELLED"}]
  BY DEF ConfirmTopup, BankInvariant, BankShape, BankTypeOK
<1>2. \A u \in Topups : topup'[u] = IF u = t THEN "SUCCESS" ELSE topup[u]
  BY DEF ConfirmTopup, Paid, BankInvariant, BankShape, BankTypeOK
<1>3. sent[t] \in Nat
  <2>1. sent[t] \in Sums \cup {0}
    BY CodesDiffer DEF BankInvariant, BankShape
  <2>2. \A amount \in Sums : amount \in Nat
    BY BankTransfersAssumption
  <2> QED BY <2>1, <2>2
<1>4. credits' \in [Keys -> Nat]
  BY <1>3 DEF ConfirmTopup, Credit, BankInvariant, BankShape
<1>5. /\ credits'[t] = sent[t]
      /\ \A k \in Keys \ {t} : credits'[k] = credits[k]
  <2>1. CASE Paid(t)
    BY <2>1 DEF ConfirmTopup, BankInvariant, MoneyInOnce
  <2>2. CASE ~Paid(t)
    <3>1. credits[t] = 0 /\ t \in Keys /\ credits \in [Keys -> Nat]
      BY <2>2, CodesDiffer DEF BankInvariant, BankShape, MoneyInOnce
    <3>2. credits' = [credits EXCEPT ![t] = sent[t]]
      BY <2>2, <3>1 DEF ConfirmTopup, Credit
    <3> QED BY <3>1, <3>2
  <2> QED BY <2>1, <2>2
<1>6. BankShape'
  BY <1>1, <1>4 DEF BankInvariant, BankShape, BankTypeOK, Codes
<1>7. MoneyInOnce'
  <2>1. \A u \in Topups : credits'[u] = IF Paid(u)' THEN sent[u] ELSE 0
    BY <1>2, <1>5, CodesDiffer DEF BankInvariant, MoneyInOnce, Paid
  <2>2. \A k \in {"late", "under", "over"} : credits'[k] = credits[k]
    BY <1>5, CodesDiffer
  <2>3. \A c \in (reported \ unmatched)' :
            IF c \in Topups THEN Paid(c)'
            ELSE payment.paid /\ (c = settledBy \/ overtaken \cap {c, settledBy} # {})
    BY <1>2 DEF BankInvariant, MoneyInOnce, Paid
  <2> QED BY <2>1, <2>2, <2>3 DEF BankInvariant, MoneyInOnce
<1>8. UnmatchedWasReplaced' /\ NewestLink'
  BY DEF BankInvariant, UnmatchedWasReplaced, NewestLink
<1>9. PaidIsFinal' /\ FoundEarlier'
  BY <1>5, CodesDiffer DEF BankInvariant, PaidIsFinal, FoundEarlier
<1>10. MoneyHasItsLink'
  BY <1>2 DEF BankInvariant, MoneyHasItsLink, BankShape, BankTypeOK
<1>11. Pending' \subseteq Pending
  BY <1>2 DEF Pending
<1>12. FewPending'
  BY <1>11, FewerPending DEF BankInvariant
<1> QED BY <1>6, <1>7, <1>8, <1>9, <1>10, <1>12 DEF BankInvariant

\* Questions and reports come and go.
LEMMA BankOnlyAsked ==
    ASSUME BankInvariant,
           \A a \in answers' : a \in answers \/ (/\ a.who \in Askers /\ a.about \in Topups
                                                 /\ a.paid \in BOOLEAN /\ topup[a.about] = "PENDING"),
           unanswered' \subseteq Topups, webhooks' \subseteq webhooks,
           UNCHANGED <<topup, creating, payment, booking, link, sent, reported, finding, unmatched, credits>>
    PROVE  BankInvariant'
<1> USE DEF finding
<1>1. BankShape'
  BY DEF BankInvariant, BankShape, BankTypeOK
<1>2. MoneyInOnce' /\ UnmatchedWasReplaced' /\ NewestLink' /\ PaidIsFinal' /\ FoundEarlier'
  BY DEF BankInvariant, MoneyInOnce, Paid, UnmatchedWasReplaced, NewestLink, PaidIsFinal, FoundEarlier
<1>3. MoneyHasItsLink'
  BY DEF BankInvariant, MoneyHasItsLink
<1>4. FewPending'
  BY DEF BankInvariant, FewPending, Pending
<1> QED BY <1>1, <1>2, <1>3, <1>4 DEF BankInvariant

\* The payment gets a new link, when it waits and has no live one.
LEMMA BankCreatePaymentLink ==
    ASSUME BankInvariant, NEW c \in PaymentLinks, CreatePaymentLink(c)
    PROVE  BankInvariant'
<1> USE DEF bank, finding
<1>1. /\ payment.status = "PENDING" /\ ~HasLiveLink /\ link[c] = "NONE" /\ c \in Codes
      /\ payment' = [payment EXCEPT !.code = c] /\ link' = [link EXCEPT ![c] = "LIVE"]
      /\ UNCHANGED <<topup, creating, booking, sent, webhooks, reported, found, settledBy,
                     unmatched, answers, unanswered, credits>>
      /\ overtaken' = overtaken \cup (found \cap {payment.code})
  BY CodesDiffer DEF CreatePaymentLink
<1>2. /\ payment'.code = c /\ payment'.status = payment.status /\ payment'.paid = payment.paid
      /\ payment' \in [status : {"PENDING", "SUCCESS", "REFUNDED", "CANCELLED"},
                       code : PaymentLinks \cup {NoLink}, paid : BOOLEAN]
      /\ \A d \in Codes : link'[d] = IF d = c THEN "LIVE" ELSE link[d]
      /\ link' \in [Codes -> Ages]
  BY <1>1 DEF BankInvariant, BankShape, BankTypeOK, Ages
<1>3. BankShape'
  BY <1>1, <1>2 DEF BankInvariant, BankShape, BankTypeOK
<1>4. ~payment.paid
  BY <1>1 DEF BankInvariant, PaidIsFinal, FoundEarlier
<1>5. MoneyInOnce' /\ PaidIsFinal' /\ FoundEarlier'
  <2>1. MoneyInOnce'
    BY <1>1, <1>2, <1>4 DEF BankInvariant, MoneyInOnce, Paid
  <2>2. PaidIsFinal' /\ FoundEarlier'
    BY <1>1, <1>2, <1>4 DEF BankInvariant, PaidIsFinal, FoundEarlier
  <2> QED BY <2>1, <2>2
<1>6. c # NoLink /\ c \notin unmatched
  BY <1>1, CodesDiffer DEF BankInvariant, NewestLink
<1>7. \A d \in PaymentLinks : link[d] # "LIVE"
  BY <1>1, CodesDiffer DEF BankInvariant, NewestLink, HasLiveLink, NoLink
<1>8. UnmatchedWasReplaced'
  BY <1>1, <1>2, <1>6, CodesDiffer DEF BankInvariant, UnmatchedWasReplaced, BankShape, BankTypeOK
<1>9. NewestLink'
  BY <1>1, <1>2, <1>6, <1>7, CodesDiffer DEF BankInvariant, NewestLink
<1>10. MoneyHasItsLink'
  BY <1>1, <1>2 DEF BankInvariant, MoneyHasItsLink
<1>11. Pending' = Pending
  BY <1>1, <1>2, CodesDiffer DEF Pending
<1>12. FewPending'
  BY <1>1, <1>11, FewerPending DEF BankInvariant
<1> QED BY <1>3, <1>5, <1>8, <1>9, <1>10, <1>12 DEF BankInvariant

\* The booking is cancelled before it is paid.
LEMMA BankCancelUnpaid ==
    ASSUME BankInvariant, CancelUnpaid
    PROVE  BankInvariant'
<1> USE DEF bank, finding
<1>1. /\ booking = "UNPAID" /\ booking' = "CANCELLED"
      /\ payment' = [payment EXCEPT !.status = IF @ = "PENDING" THEN "CANCELLED" ELSE @]
      /\ UNCHANGED <<topup, creating, link, sent, webhooks, reported, finding, unmatched, answers,
                     unanswered, credits>>
  BY DEF CancelUnpaid
<1>2. /\ payment'.code = payment.code /\ payment'.paid = payment.paid
      /\ payment'.status = IF payment.status = "PENDING" THEN "CANCELLED" ELSE payment.status
      /\ payment' \in [status : {"PENDING", "SUCCESS", "REFUNDED", "CANCELLED"},
                       code : PaymentLinks \cup {NoLink}, paid : BOOLEAN]
  BY <1>1 DEF BankInvariant, BankShape
<1>3. BankShape'
  BY <1>1, <1>2 DEF BankInvariant, BankShape, BankTypeOK
<1>4. MoneyInOnce' /\ PaidIsFinal' /\ FoundEarlier'
  BY <1>1, <1>2 DEF BankInvariant, MoneyInOnce, Paid, PaidIsFinal, FoundEarlier
<1>5. UnmatchedWasReplaced' /\ NewestLink' /\ MoneyHasItsLink'
  BY <1>1, <1>2 DEF BankInvariant, UnmatchedWasReplaced, NewestLink, MoneyHasItsLink
<1>6. FewPending'
  BY <1>1 DEF BankInvariant, FewPending, Pending
<1> QED BY <1>3, <1>4, <1>5, <1>6 DEF BankInvariant

\* Money is sent to a live link.
LEMMA BankTransfer ==
    ASSUME BankInvariant, NEW c \in Codes, NEW amount \in Sums, Transfer(c, amount)
    PROVE  BankInvariant'
<1> USE DEF bank, finding
<1>1. /\ link[c] = "LIVE" /\ sent[c] = 0 /\ (c \in Topups => topup[c] = "PENDING")
      /\ sent' = [sent EXCEPT ![c] = amount] /\ webhooks' = webhooks \cup {c}
      /\ UNCHANGED <<topup, creating, payment, booking, link, reported, finding, unmatched, answers,
                     unanswered, credits>>
  BY DEF Transfer
<1>2. /\ \A d \in Codes : sent'[d] = IF d = c THEN amount ELSE sent[d]
      /\ sent' \in [Codes -> Sums \cup {0}] /\ amount # 0
  BY <1>1, CodesDiffer DEF BankInvariant, BankShape
<1>3. BankShape'
  BY <1>1, <1>2 DEF BankInvariant, BankShape, BankTypeOK
<1>4. payment.paid => settledBy \in Codes /\ settledBy # c
  BY <1>1, CodesDiffer DEF BankInvariant, PaidIsFinal, FoundEarlier, BankShape, BankTypeOK
<1>5. MoneyInOnce'
  <2>1. \A t \in Topups : credits[t] = IF Paid(t) THEN sent'[t] ELSE 0
    BY <1>1, <1>2, CodesDiffer DEF BankInvariant, MoneyInOnce, Paid
  <2> QED BY <1>1, <1>2, <1>4, <2>1 DEF BankInvariant, MoneyInOnce, Paid
<1>6. PaidIsFinal' /\ FoundEarlier'
  BY <1>1, <1>2, <1>4 DEF BankInvariant, PaidIsFinal, FoundEarlier
<1>7. UnmatchedWasReplaced' /\ NewestLink'
  BY <1>1 DEF BankInvariant, UnmatchedWasReplaced, NewestLink
<1>8. MoneyHasItsLink'
  BY <1>1, <1>2, CodesDiffer DEF BankInvariant, MoneyHasItsLink, BankShape, BankTypeOK
<1>9. FewPending'
  BY <1>1 DEF BankInvariant, FewPending, Pending
<1> QED BY <1>3, <1>5, <1>6, <1>7, <1>8, <1>9 DEF BankInvariant

\* A link gets older and ends; none comes alive again.
LEMMA BankTimePasses ==
    ASSUME BankInvariant, NEW c \in Codes, TimePasses(c)
    PROVE  BankInvariant'
<1> USE DEF bank, finding
<1>1. /\ link[c] \in {"LIVE", "OVER"} /\ link' = [link EXCEPT ![c] = Older(@)]
      /\ UNCHANGED <<topup, creating, payment, booking, sent, webhooks, reported, finding, unmatched,
                     answers, unanswered, credits>>
  BY DEF TimePasses
<1>2. Older(link[c]) \in {"OVER", "OLD"}
  BY <1>1 DEF Older
<1>3. /\ \A d \in Codes : link'[d] = link[d] \/ (link'[d] \in {"OVER", "OLD"} /\ link[d] # "NONE")
      /\ link' \in [Codes -> Ages]
  BY <1>1, <1>2 DEF BankInvariant, BankShape, BankTypeOK, Ages
<1>4. BankShape'
  BY <1>1, <1>3 DEF BankInvariant, BankShape, BankTypeOK
<1>5. MoneyInOnce' /\ PaidIsFinal' /\ FoundEarlier'
  BY <1>1 DEF BankInvariant, MoneyInOnce, Paid, PaidIsFinal, FoundEarlier
<1>6. UnmatchedWasReplaced' /\ NewestLink'
  BY <1>1, <1>3, CodesDiffer
     DEF BankInvariant, UnmatchedWasReplaced, NewestLink, BankShape, BankTypeOK
<1>7. MoneyHasItsLink'
  BY <1>1, <1>3 DEF BankInvariant, MoneyHasItsLink
<1>8. Pending' \subseteq Pending
  BY <1>1, <1>3, CodesDiffer DEF Pending
<1>9. FewPending'
  BY <1>1, <1>8, FewerPending DEF BankInvariant
<1> QED BY <1>4, <1>5, <1>6, <1>7, <1>9 DEF BankInvariant

\* A report finds the payment by the order code it has now.
LEMMA BankFindPayment ==
    ASSUME BankInvariant, NEW c \in PaymentLinks, FindPayment(c)
    PROVE  BankInvariant'
<1> USE DEF bank
<1>1. /\ c \in webhooks /\ c = payment.code /\ found' = found \cup {c}
      /\ UNCHANGED <<topup, creating, payment, booking, link, sent, webhooks, reported, settledBy,
                     overtaken, unmatched, answers, unanswered, credits>>
  BY DEF FindPayment
<1>2. BankShape' /\ MoneyInOnce' /\ UnmatchedWasReplaced' /\ MoneyHasItsLink' /\ NewestLink'
  BY <1>1 DEF BankInvariant, BankShape, BankTypeOK, MoneyInOnce, Paid, UnmatchedWasReplaced,
              MoneyHasItsLink, NewestLink
<1>3. PaidIsFinal' /\ FoundEarlier'
  BY <1>1 DEF BankInvariant, PaidIsFinal, FoundEarlier, MoneyHasItsLink
<1>4. FewPending'
  BY <1>1 DEF BankInvariant, FewPending, Pending
<1> QED BY <1>2, <1>3, <1>4 DEF BankInvariant

\* A report of the payment: handled before, returned, short, or accepted.
LEMMA BankPaymentReport ==
    ASSUME BankInvariant, NEW c \in PaymentLinks, HandlePaymentReport(c)
    PROVE  BankInvariant'
<1> USE DEF bank, finding
<1>1. /\ c \in found /\ found' = found \ {c} /\ reported' = reported \cup {c}
      /\ UNCHANGED <<topup, creating, link, sent, webhooks, overtaken, unmatched, answers, unanswered>>
      /\ c \in Codes
      /\ settledBy' = IF payment.paid THEN settledBy ELSE c
  BY CodesDiffer DEF HandlePaymentReport
<1>2. /\ c # NoLink /\ c \notin Topups
      /\ sent[c] \in Nat /\ sent[c] # 0 /\ Asked \in Nat
      /\ c = payment.code \/ c \in overtaken
  <2>1. sent[c] \in Sums \cup {0} /\ sent[c] # 0 /\ (c = payment.code \/ c \in overtaken)
    BY <1>1 DEF BankInvariant, BankShape, FoundEarlier
  <2>2. \A amount \in Sums : amount \in Nat
    BY BankTransfersAssumption
  <2> QED BY <1>1, <2>1, <2>2, CodesDiffer
<1>3. UnmatchedWasReplaced' /\ NewestLink' /\ MoneyHasItsLink' /\ FewPending' /\ payment'.code = payment.code
      /\ payment'.paid
      /\ payment' \in [status : {"PENDING", "SUCCESS", "REFUNDED", "CANCELLED"},
                       code : PaymentLinks \cup {NoLink}, paid : BOOLEAN]
      /\ payment'.status # "PENDING"
  <2>1. /\ payment'.code = payment.code /\ payment'.paid
        /\ payment' \in [status : {"PENDING", "SUCCESS", "REFUNDED", "CANCELLED"},
                         code : PaymentLinks \cup {NoLink}, paid : BOOLEAN]
        /\ payment'.status # "PENDING"
    BY DEF HandlePaymentReport, ReturnToWallet, ReturnShort, AcceptPayment, BankInvariant, BankShape,
           PaidIsFinal
  <2>2. FewPending'
    BY <1>1 DEF BankInvariant, FewPending, Pending
  <2> QED BY <1>1, <2>1, <2>2
      DEF BankInvariant, UnmatchedWasReplaced, NewestLink, MoneyHasItsLink
<1>4. PaidIsFinal' /\ FoundEarlier'
  BY <1>1, <1>2, <1>3 DEF BankInvariant, PaidIsFinal, FoundEarlier
<1>5. \A d \in reported' \ unmatched' :
          IF d \in Topups THEN Paid(d)'
          ELSE payment'.paid /\ (d = settledBy' \/ overtaken' \cap {d, settledBy'} # {})
  <2> SUFFICES ASSUME NEW d \in reported' \ unmatched', d \notin Topups
               PROVE  d = settledBy' \/ overtaken' \cap {d, settledBy'} # {}
    BY <1>1, <1>2, <1>3 DEF BankInvariant, MoneyInOnce, Paid
  <2>1. CASE d = c
    BY <1>1, <1>2, <2>1 DEF BankInvariant, PaidIsFinal
  <2>2. CASE d # c
    BY <1>1, <2>2 DEF BankInvariant, MoneyInOnce
  <2> QED BY <2>1, <2>2
<1> SUFFICES /\ credits' \in [Keys -> Nat] /\ booking' \in {"UNPAID", "PAID", "CANCELLED"}
             /\ \A t \in Topups : credits'[t] = credits[t]
             /\ credits'["late"] + credits'["under"] + credits'["over"]
                   + (IF booking' = "PAID" THEN Asked ELSE 0) = sent[settledBy']
  <2>1. BankShape'
    BY <1>1, <1>3 DEF BankInvariant, BankShape, BankTypeOK
  <2>2. MoneyInOnce'
    BY <1>1, <1>3, <1>5 DEF BankInvariant, MoneyInOnce, Paid
  <2> QED BY <1>3, <1>4, <2>1, <2>2 DEF BankInvariant
<1>6. CASE payment.paid
  BY <1>1, <1>6 DEF HandlePaymentReport, BankInvariant, MoneyInOnce, BankShape, BankTypeOK
<1>7. CASE ~payment.paid
  <2>1. /\ credits["late"] = 0 /\ credits["under"] = 0 /\ credits["over"] = 0
        /\ booking \in {"UNPAID", "CANCELLED"} /\ credits \in [Keys -> Nat]
        /\ {"late", "under", "over"} \subseteq Keys
        /\ \A t \in Topups : t \notin {"late", "under", "over"} /\ t \in Keys
    BY <1>7, CodesDiffer DEF BankInvariant, PaidIsFinal, FoundEarlier, BankShape, BankTypeOK
  <2>2. CASE ReturnToWallet(c)
    <3>1. credits' = [credits EXCEPT !["late"] = sent[c]] /\ booking' = booking
      BY <2>1, <2>2 DEF ReturnToWallet, Credit
    <3> QED BY <1>1, <1>2, <1>7, <2>1, <3>1
  <2>3. CASE ReturnShort(c)
    <3>1. credits' = [credits EXCEPT !["under"] = sent[c]] /\ booking' = "CANCELLED"
      BY <2>1, <2>3 DEF ReturnShort, Credit
    <3> QED BY <1>1, <1>2, <1>7, <2>1, <3>1
  <2>4. CASE AcceptPayment(c) /\ sent[c] > Asked
    <3>1. /\ credits' = [credits EXCEPT !["over"] = sent[c] - Asked] /\ booking' = "PAID"
          /\ sent[c] - Asked \in Nat
      BY <1>2, <2>1, <2>4 DEF AcceptPayment, Credit
    <3> QED BY <1>1, <1>2, <1>7, <2>1, <3>1
  <2>5. CASE AcceptPayment(c) /\ ~(sent[c] > Asked)
    <3>1. credits' = credits /\ booking' = "PAID" /\ sent[c] = Asked
      BY <1>2, <2>5 DEF AcceptPayment
    <3> QED BY <1>1, <1>2, <1>7, <2>1, <3>1
  <2> QED BY <1>7, <2>2, <2>3, <2>4, <2>5 DEF HandlePaymentReport
<1> QED BY <1>6, <1>7

\* A report that matches nothing is put aside.
LEMMA BankLogUnmatched ==
    ASSUME BankInvariant, NEW c \in webhooks, LogUnmatched(c), reported' = reported \cup {c},
           UNCHANGED <<creating, link, bank, finding, answers, unanswered>>
    PROVE  BankInvariant'
<1> USE DEF bank, finding
<1>1. /\ c \in PaymentLinks /\ c # payment.code /\ unmatched' = unmatched \cup {c} /\ c \in Codes
      /\ UNCHANGED <<topup, payment, booking, credits>>
  BY DEF LogUnmatched, BankInvariant, BankShape, BankTypeOK
<1>2. link[c] # "NONE"
  BY <1>1 DEF BankInvariant, MoneyHasItsLink
<1>3. BankShape' /\ MoneyInOnce' /\ PaidIsFinal' /\ FoundEarlier' /\ MoneyHasItsLink'
  BY <1>1 DEF BankInvariant, BankShape, BankTypeOK, MoneyInOnce, Paid, PaidIsFinal, FoundEarlier, MoneyHasItsLink
<1>4. UnmatchedWasReplaced' /\ NewestLink'
  BY <1>1, <1>2 DEF BankInvariant, UnmatchedWasReplaced, NewestLink
<1>5. FewPending'
  BY <1>1 DEF BankInvariant, FewPending, Pending
<1> QED BY <1>3, <1>4, <1>5 DEF BankInvariant

\* A webhook is one of these, or the report of a top-up.
LEMMA BankHandleWebhook ==
    ASSUME BankInvariant, NEW c \in Codes, HandleWebhook(c)
    PROVE  BankInvariant'
<1>1. /\ c \in webhooks /\ reported' = reported \cup {c}
      /\ UNCHANGED <<creating, link, bank, finding, answers, unanswered>>
  BY DEF HandleWebhook
<1>2. CASE HandleTopupReport(c)
  <2>1. /\ c \in Topups /\ ConfirmTopup(c) /\ UNCHANGED <<payment, booking, unmatched>>
        /\ topup[c] \notin {"NONE", "NEW"}
    BY <1>1, <1>2 DEF HandleTopupReport, BankInvariant, MoneyHasItsLink
  <2>2. answers' \subseteq answers /\ reported' \subseteq reported \cup {c}
    BY <1>1
  <2> QED BY <1>1, <2>1, <2>2, BankConfirmTopup
<1>3. CASE LogUnmatched(c)
  BY <1>1, <1>3, BankLogUnmatched
<1> QED BY <1>2, <1>3 DEF HandleWebhook

\* The app or the job uses what payOS answered some time ago.
LEMMA BankUseAnswer ==
    ASSUME BankInvariant, NEW a \in answers, UseAnswer(a)
    PROVE  BankInvariant'
<1> DEFINE t == a.about
<1>1. /\ t \in Topups /\ topup[t] \notin {"NONE", "NEW"} /\ answers' \subseteq answers
      /\ UNCHANGED <<creating, payment, booking, link, bank, reported, finding, unmatched, unanswered>>
  BY DEF UseAnswer, BankInvariant, BankShape, BankTypeOK, MoneyHasItsLink
<1> HIDE DEF t
<1>2. CASE ConfirmTopup(t)
  <2>1. reported' \subseteq reported \cup {t}
    BY <1>1
  <2> QED BY <1>1, <1>2, <2>1, BankConfirmTopup
<1>3. CASE UNCHANGED <<topup, credits>>
  BY <1>1, <1>3, BankOnlyAsked DEF bank, BankInvariant, BankShape, BankTypeOK
<1>4. CASE topup[t] = "PENDING" /\ topup' = [topup EXCEPT ![t] = "EXPIRED"] /\ UNCHANGED credits
  BY <1>1, <1>4, BankTopupMoves
<1> QED BY <1>2, <1>3, <1>4 DEF UseAnswer, Expire, t

\* Every step keeps the invariant.
LEMMA NextBank == BankInvariant /\ [BankNext]_bankVars => BankInvariant'
<1> SUFFICES ASSUME BankInvariant, [BankNext]_bankVars PROVE BankInvariant'
  OBVIOUS
<1>1. ASSUME NEW t \in Topups, CountPending(t) \/ CreateTopup(t) PROVE BankInvariant'
  BY <1>1, BankCountPending, BankCreateTopup
<1>2. ASSUME NEW t \in Topups, AskFromApp(t) PROVE BankInvariant'
  <2>1. topup[t] = "PENDING" /\ answers' = answers \cup {[who |-> "app", about |-> t, paid |-> PaidInFull(t)]}
        /\ UNCHANGED <<topup, creating, payment, booking, link, sent, webhooks, reported, finding, unmatched,
                       unanswered, credits>>
    BY <1>2 DEF AskFromApp, bank
  <2>2. unanswered' \subseteq Topups /\ webhooks' \subseteq webhooks
    BY <2>1 DEF BankInvariant, BankShape, BankTypeOK
  <2>3. \A a \in answers' : a \in answers \/ (/\ a.who \in Askers /\ a.about \in Topups
                                              /\ a.paid \in BOOLEAN /\ topup[a.about] = "PENDING")
    <3> DEFINE p == PaidInFull(t)
               new == [who |-> "app", about |-> t, paid |-> p]
    <3>1. p \in BOOLEAN
      BY DEF PaidInFull
    <3>2. answers' = answers \cup {new} /\ topup[t] = "PENDING"
      BY <2>1
    <3> HIDE DEF p
    <3>3. new.who = "app" /\ new.about = t /\ new.paid = p
      BY Zenon
    <3>4. new.paid \in BOOLEAN
      BY <3>1, <3>3, Zenon
    <3> HIDE DEF new
    <3> QED BY <3>2, <3>3, <3>4 DEF Askers
  <2> QED BY <2>1, <2>2, <2>3, BankOnlyAsked
<1>3. ASSUME NEW t \in Topups, NEW answered \in BOOLEAN, AskFromJob(t, answered) PROVE BankInvariant'
  <2>1. /\ topup[t] = "PENDING" /\ unanswered' \subseteq unanswered \cup {t}
        /\ answers' = answers \cup {[who |-> "job", about |-> t, paid |-> answered /\ PaidInFull(t)]}
        /\ UNCHANGED <<topup, creating, payment, booking, link, sent, webhooks, reported, finding, unmatched, credits>>
    BY <1>3 DEF AskFromJob, Due, bank
  <2>2. unanswered' \subseteq Topups /\ webhooks' \subseteq webhooks
    BY <2>1 DEF BankInvariant, BankShape, BankTypeOK
  <2>3. \A a \in answers' : a \in answers \/ (/\ a.who \in Askers /\ a.about \in Topups
                                              /\ a.paid \in BOOLEAN /\ topup[a.about] = "PENDING")
    <3> DEFINE p == answered /\ PaidInFull(t)
               new == [who |-> "job", about |-> t, paid |-> p]
    <3>1. p \in BOOLEAN
      BY DEF PaidInFull
    <3>2. answers' = answers \cup {new} /\ topup[t] = "PENDING"
      BY <2>1
    <3> HIDE DEF p
    <3>3. new.who = "job" /\ new.about = t /\ new.paid = p
      BY Zenon
    <3>4. new.paid \in BOOLEAN
      BY <3>1, <3>3, Zenon
    <3> HIDE DEF new
    <3> QED BY <3>2, <3>3, <3>4 DEF Askers
  <2> QED BY <2>1, <2>2, <2>3, BankOnlyAsked
<1>4. ASSUME NEW a \in answers, UseAnswer(a) PROVE BankInvariant'
  BY <1>4, BankUseAnswer
<1>5. ASSUME NEW t \in Topups, NEW done \in BOOLEAN, FinishTopup(t, done) PROVE BankInvariant'
  <2> DEFINE status == IF done THEN "PENDING" ELSE "CANCELLED"
  <2>1. /\ topup[t] = "NEW" /\ topup' = [topup EXCEPT ![t] = status] /\ answers' \subseteq answers
        /\ UNCHANGED <<creating, payment, booking, link, bank, reported, finding, unmatched, unanswered, credits>>
        /\ status \in {"PENDING", "CANCELLED", "EXPIRED"}
    BY <1>5 DEF FinishTopup
  <2> HIDE DEF status
  <2> QED BY <2>1, BankTopupMoves
<1>6. ASSUME NEW c \in Codes, LoseWebhook(c) PROVE BankInvariant'
  BY <1>6, BankOnlyAsked DEF LoseWebhook, BankInvariant, BankShape, BankTypeOK
<1>7. CASE UNCHANGED bankVars
  BY <1>7, BankOnlyAsked DEF bankVars, BankInvariant, BankShape, BankTypeOK
<1>8. CASE CancelUnpaid
  BY <1>8, BankCancelUnpaid
<1>9. ASSUME NEW c \in PaymentLinks, CreatePaymentLink(c) PROVE BankInvariant'
  BY <1>9, BankCreatePaymentLink
<1>10. ASSUME NEW c \in Codes, TimePasses(c) \/ HandleWebhook(c) PROVE BankInvariant'
  BY <1>10, BankTimePasses, BankHandleWebhook
<1>11. ASSUME NEW c \in Codes, NEW amount \in Sums, Transfer(c, amount) PROVE BankInvariant'
  BY <1>11, BankTransfer
<1>12. ASSUME NEW t \in Topups, ExpiryJob(t) PROVE BankInvariant'
  BY <1>3, <1>4, <1>12 DEF ExpiryJob
<1>13. ASSUME NEW c \in PaymentLinks, FindPayment(c) \/ HandlePaymentReport(c) PROVE BankInvariant'
  BY <1>13, BankFindPayment, BankPaymentReport
<1> QED BY <1>1, <1>2, <1>4, <1>5, <1>6, <1>7, <1>8, <1>9, <1>10, <1>11, <1>12, <1>13 DEF BankNext

\* Nothing was asked for, sent or reported yet.
LEMMA InitBank == BankInit => BankInvariant
<1> SUFFICES ASSUME BankInit PROVE BankInvariant
  OBVIOUS
<1>1. /\ \A t \in Topups : topup[t] = "NONE" /\ credits[t] = 0
      /\ \A c \in Codes : sent[c] = 0 /\ link[c] = "NONE"
      /\ \A k \in {"late", "under", "over"} : credits[k] = 0
  BY CodesDiffer DEF BankInit
<1>2. BankShape
  BY DEF BankInit, BankShape, BankTypeOK, Ages
<1>3. MoneyInOnce /\ UnmatchedWasReplaced /\ MoneyHasItsLink /\ PaidIsFinal /\ NewestLink
  BY <1>1, CodesDiffer
     DEF BankInit, MoneyInOnce, Paid, UnmatchedWasReplaced, MoneyHasItsLink, PaidIsFinal, FoundEarlier, NewestLink
<1>4. FoundEarlier
  BY DEF BankInit, FoundEarlier
<1>5. FewPending
  <2>1. Pending = {} /\ creating = {}
    BY <1>1 DEF BankInit, Pending
  <2>2. /\ IsFiniteSet(Pending) /\ Cardinality(Pending) = 0
        /\ IsFiniteSet(creating) /\ Cardinality(creating) = 0
    BY <2>1, FS_EmptySet
  <2> QED BY <2>2, BankTransfersAssumption DEF FewPending
<1> QED BY <1>2, <1>3, <1>4, <1>5 DEF BankInvariant

\* However webhooks are lost, repeated and late, whoever else asks payOS, and in whatever order
\* bookings are cancelled and top-ups expire: money that was reported arrives exactly once, a
\* report is put aside only when its link was replaced, and the limit of pending top-ups is
\* passed only by creations that counted at the same time.
THEOREM MoneyArrivesOnce == BankSpec => []TransfersSafe
<1>1. BankInvariant => TransfersSafe
  <2> SUFFICES ASSUME BankInvariant PROVE TransfersSafe
    OBVIOUS
  <2>1. PendingBounded
    <3>1. /\ Cardinality(Pending) \in Nat /\ Cardinality(creating) \in Nat
          /\ MaxPendingTopups \in Nat /\ MaxCreating \in Nat
      BY FS_CardinalityType, BankTransfersAssumption DEF BankInvariant, FewPending
    <3> QED BY <3>1 DEF BankInvariant, FewPending, PendingBounded
  <2> QED BY <2>1 DEF BankInvariant, BankShape, TransfersSafe
<1> QED BY <1>1, InitBank, NextBank, PTL DEF BankSpec

-----------------------------------------------------------------------------
(* Bank accounts: the inductive invariant *)

AccountRows == [active : BOOLEAN, default : BOOLEAN, verification : Verifications]
AttemptRows ==
    [of : Accounts \cup {NoAccount}, late : BOOLEAN, status : {"NONE", "PENDING", "VERIFIED", "EXPIRED"}]

\* What the variables are.
AccountShape ==
    /\ account \in [Accounts -> AccountRows]
    /\ attempt \in [Attempts -> AttemptRows]
    /\ \A h \in handlers : h.op \in Operations /\ h.of \in Accounts
    /\ IsFiniteSet(handlers) /\ Cardinality(handlers) <= MaxHandlers
    /\ confirmed \subseteq Accounts /\ writtenBack \subseteq Accounts

\* What a handler has read of an attempt, and what of it still holds when it writes.
ReadBefore(h) ==
    /\ h.op = "confirm" => h.of \in confirmed
    /\ h.op \in {"confirm", "late", "expire"} =>
           /\ h.attempt \in Attempts
           /\ attempt[h.attempt].of = h.of /\ attempt[h.attempt].status # "NONE"
    /\ /\ h.op = "expire" /\ h.row.verification # "PENDING"
       /\ attempt[h.attempt].status = "PENDING" /\ account[h.of].verification = "PENDING"
       => h.of \in writtenBack
    /\ h.op = "edit" =>
           h.row \in AccountRows /\ (h.row.verification = "SANDBOX_VERIFIED" => h.of \in confirmed)

OneTried ==
    \A v, w \in Attempts :
        /\ attempt[v].of = attempt[w].of
        /\ attempt[v].status = "PENDING" /\ attempt[w].status = "PENDING"
        => v = w

\* The accounts there are or that an edit may bring back, with those about to be added.
Adding == {h \in handlers : h.op = "add"}
Editing == {h \in handlers : h.op = "edit"}
Standing == Active \cup {h.of : h \in Editing}
AddsAreCounted ==
    /\ IsFiniteSet(Standing)
    /\ Cardinality(Standing) + Cardinality(Adding) <= MaxAccounts + MaxHandlers - 1

AccountInvariant ==
    /\ AccountShape
    /\ \A h \in handlers : ReadBefore(h)
    /\ VerifiedWasConfirmed
    /\ PendingCanEnd
    /\ OneTried
    /\ AddsAreCounted

-----------------------------------------------------------------------------
(* What begins and what ends *)

\* The limits are numbers, and no account has the name of none.
LEMMA Numbers ==
    /\ MaxAccounts \in Nat \ {0} /\ MaxHandlers \in Nat \ {0}
    /\ NoAccount \notin Accounts
BY BankAccountsAssumption

\* What the steps may rely on.
LEMMA AccountFacts ==
    ASSUME AccountInvariant
    PROVE  /\ IsFiniteSet(handlers) /\ Cardinality(handlers) \in Nat
           /\ IsFiniteSet(Active) /\ Cardinality(Active) \in Nat
           /\ IsFiniteSet(Standing) /\ Cardinality(Standing) \in Nat
           /\ Cardinality(Active) <= Cardinality(Standing)
           /\ IsFiniteSet(Adding) /\ Cardinality(Adding) \in Nat
           /\ IsFiniteSet(Editing) /\ Cardinality(Editing) \in Nat
           /\ Cardinality(Standing) <= Cardinality(Active) + Cardinality(Editing)
           /\ Active \subseteq Accounts
<1>1. IsFiniteSet(handlers) /\ IsFiniteSet(Standing)
  BY DEF AccountInvariant, AccountShape, AddsAreCounted
<1>2. Adding \subseteq handlers /\ Editing \subseteq handlers
  BY DEF Adding, Editing
<1>3. Active \subseteq Standing
  BY DEF Standing
<1>4. /\ IsFiniteSet(Active) /\ Cardinality(Active) <= Cardinality(Standing)
      /\ IsFiniteSet(Adding) /\ IsFiniteSet(Editing)
  BY <1>1, <1>2, <1>3, FS_Subset
<1>5. PICK S, T, of : S = Editing /\ T = {h.of : h \in Editing} /\ of = [h \in Editing |-> h.of]
  OBVIOUS
<1>6. of \in Surjection(S, T)
  BY <1>5 DEF Surjection
<1>7. IsFiniteSet(T) /\ Cardinality(T) <= Cardinality(S)
  BY <1>4, <1>5, <1>6, FS_Surjection
<1>8. Standing = Active \cup T
  BY <1>5 DEF Standing
<1>9. Cardinality(Standing) <= Cardinality(Active) + Cardinality(T)
  <2>1. Cardinality(Active \cap T) \in Nat /\ Cardinality(Active) \in Nat /\ Cardinality(T) \in Nat
    BY <1>4, <1>7, FS_Intersection, FS_CardinalityType
  <2>2. Cardinality(Active \cup T) = Cardinality(Active) + Cardinality(T) - Cardinality(Active \cap T)
    BY <1>4, <1>7, FS_Union
  <2> QED BY <1>8, <2>1, <2>2
<1>10. /\ Cardinality(Active) \in Nat /\ Cardinality(T) \in Nat /\ Cardinality(Editing) \in Nat
       /\ Cardinality(Standing) \in Nat /\ Cardinality(Adding) \in Nat /\ Cardinality(handlers) \in Nat
  BY <1>1, <1>4, <1>7, FS_CardinalityType
<1>11. Cardinality(Standing) <= Cardinality(Active) + Cardinality(Editing)
  BY <1>5, <1>7, <1>9, <1>10
<1> QED BY <1>1, <1>4, <1>10, <1>11 DEF Active

\* A request has read its account, and how many there are if it adds one.
LEMMA BeginKeeps ==
    ASSUME AccountInvariant, NEW h, Begin(h), h.op \in Operations \ {"reset"}, h.of \in Accounts,
           h.op = "add" => Cardinality(Active) < MaxAccounts,
           h.op = "edit" => h.of \in Active,
           confirmed' \subseteq Accounts, confirmed \subseteq confirmed', ReadBefore(h)'
    PROVE  AccountInvariant'
<1>1. /\ handlers' = handlers \cup {h} /\ h \notin handlers
      /\ UNCHANGED <<account, attempt, writtenBack>> /\ Cardinality(handlers) < MaxHandlers
  BY DEF Begin
<1>2. IsFiniteSet(handlers') /\ Cardinality(handlers') = Cardinality(handlers) + 1
  BY <1>1, FS_AddElement DEF AccountInvariant, AccountShape
<1>3. Cardinality(handlers') <= MaxHandlers /\ Cardinality(handlers') \in Nat
  BY <1>1, <1>2, AccountFacts, Numbers
<1>4. AccountShape'
  BY <1>1, <1>2, <1>3 DEF AccountInvariant, AccountShape
<1>5. \A g \in handlers' : ReadBefore(g)'
  <2>1. ASSUME NEW g \in handlers PROVE ReadBefore(g)'
    BY <1>1 DEF AccountInvariant, ReadBefore
  <2> QED BY <1>1, <2>1
<1>6. Active' = Active
  BY <1>1 DEF Active
<1>7. Standing' = Standing /\ (h.op = "add" => Editing' = Editing)
  BY <1>1, <1>6 DEF Standing, Editing
<1>8. Cardinality(Standing) + Cardinality(Adding') <= MaxAccounts + MaxHandlers - 1
  <2>1. CASE h.op = "add"
    <3>1. Cardinality(Active) < MaxAccounts
      BY <2>1
    <3>2. PICK A, E, H : A = Adding' /\ E = Editing /\ H = handlers'
      OBVIOUS
    <3>3. A \subseteq H /\ E \subseteq H /\ A \cap E = {} /\ A \cup E \subseteq H
      BY <1>7, <2>1, <3>2 DEF Adding, Editing
    <3>4. IsFiniteSet(A) /\ IsFiniteSet(E) /\ Cardinality(A \cup E) <= Cardinality(H)
      BY <1>2, <3>2, <3>3, FS_Subset
    <3>5. /\ Cardinality(A \cup E) = Cardinality(A) + Cardinality(E) - 0
          /\ Cardinality(A) \in Nat /\ Cardinality(E) \in Nat
      BY <3>3, <3>4, FS_Union, FS_EmptySet, FS_CardinalityType
    <3> QED BY <1>3, <3>1, <3>2, <3>4, <3>5, AccountFacts, Numbers
  <2>2. CASE h.op # "add"
    <3>1. Adding' = Adding
      BY <1>1, <2>2 DEF Adding
    <3> QED BY <3>1 DEF AccountInvariant, AddsAreCounted
  <2> QED BY <2>1, <2>2
<1>9. AddsAreCounted'
  BY <1>7, <1>8, AccountFacts DEF AddsAreCounted
<1>10. VerifiedWasConfirmed' /\ OneTried'
  BY <1>1 DEF AccountInvariant, VerifiedWasConfirmed, OneTried
<1>11. PendingCanEnd'
  <2>1. Resetting' = Resetting
    BY <1>1 DEF Resetting
  <2> QED BY <1>1, <2>1 DEF AccountInvariant, PendingCanEnd, Tried
<1> QED BY <1>4, <1>5, <1>9, <1>10, <1>11 DEF AccountInvariant

\* A handler has written, and at most the account it adds or edits is active in addition.
LEMMA DoneKeeps ==
    ASSUME AccountInvariant, NEW h \in handlers, Done(h),
           Active' \subseteq Active \cup (IF h.op \in {"add", "edit"} THEN {h.of} ELSE {})
    PROVE  /\ handlers' \subseteq handlers
           /\ IsFiniteSet(handlers') /\ Cardinality(handlers') <= MaxHandlers
           /\ AddsAreCounted'
<1>1. handlers' = handlers \ {h}
  BY DEF Done
<1>2. IsFiniteSet(handlers) /\ Cardinality(handlers) <= MaxHandlers
  BY DEF AccountInvariant, AccountShape
<1>3. IsFiniteSet(handlers') /\ Cardinality(handlers') \in Nat
      /\ Cardinality(handlers') <= Cardinality(handlers)
  BY <1>1, <1>2, FS_Subset, FS_CardinalityType
<1>4. Cardinality(handlers') <= MaxHandlers
  BY <1>2, <1>3, AccountFacts, Numbers
<1>5. Standing' \subseteq Standing \cup (IF h.op = "add" THEN {h.of} ELSE {})
  <2>1. \A a \in Active' : a \in Standing \/ (h.op = "add" /\ a = h.of)
    BY DEF Standing, Editing
  <2>2. \A g \in Editing' : g.of \in Standing
    BY <1>1 DEF Standing, Editing
  <2> QED BY <2>1, <2>2 DEF Standing
<1>6. /\ IsFiniteSet(Standing')
      /\ Cardinality(Standing') + Cardinality(Adding') <= Cardinality(Standing) + Cardinality(Adding)
  <2>1. CASE h.op = "add"
    <3>1. Adding' = Adding \ {h} /\ h \in Adding
      BY <1>1, <2>1 DEF Adding
    <3>2. Cardinality(Adding') = Cardinality(Adding) - 1
      BY <3>1, AccountFacts, FS_RemoveElement
    <3>3. Standing' \subseteq Standing \cup {h.of}
      BY <1>5, <2>1
    <3>4. /\ IsFiniteSet(Standing \cup {h.of})
          /\ Cardinality(Standing \cup {h.of})
                = IF h.of \in Standing THEN Cardinality(Standing) ELSE Cardinality(Standing) + 1
      BY AccountFacts, FS_AddElement
    <3>5. /\ IsFiniteSet(Standing') /\ Cardinality(Standing') \in Nat
          /\ Cardinality(Standing') <= Cardinality(Standing \cup {h.of})
      BY <3>3, <3>4, FS_Subset, FS_CardinalityType
    <3> QED BY <3>2, <3>4, <3>5, AccountFacts
  <2>2. CASE h.op # "add"
    <3>1. Adding' = Adding
      BY <1>1, <2>2 DEF Adding
    <3>2. Standing' \subseteq Standing
      BY <1>5, <2>2
    <3>3. /\ IsFiniteSet(Standing') /\ Cardinality(Standing') \in Nat
          /\ Cardinality(Standing') <= Cardinality(Standing)
      BY <3>2, AccountFacts, FS_Subset, FS_CardinalityType
    <3> QED BY <3>1, <3>3, AccountFacts
  <2> QED BY <2>1, <2>2
<1>7. Cardinality(Standing') \in Nat /\ Cardinality(Adding') \in Nat
  <2>1. Adding' \subseteq handlers'
    BY DEF Adding
  <2> QED BY <1>3, <1>6, <2>1, FS_Subset, FS_CardinalityType
<1>8. Cardinality(Standing') + Cardinality(Adding') <= MaxAccounts + MaxHandlers - 1
  <2>1. Cardinality(Standing) + Cardinality(Adding) <= MaxAccounts + MaxHandlers - 1
    BY DEF AccountInvariant, AddsAreCounted
  <2> QED BY <1>6, <1>7, <2>1, AccountFacts, Numbers
<1> QED BY <1>1, <1>3, <1>4, <1>6, <1>8 DEF AddsAreCounted

\* Rows are written, or refused by the database.
LEMMA WriteKeeps ==
    ASSUME AccountInvariant, NEW h \in handlers, h.op # "reset", Done(h),
           UNCHANGED <<attempt, confirmed, writtenBack>>, NEW rows \in [Accounts -> AccountRows], Write(rows),
           \A a \in Accounts :
               /\ rows[a].verification \in {account[a].verification, "UNVERIFIED"}
               /\ rows[a].active => account[a].active \/ (h.op = "add" /\ a = h.of)
    PROVE  AccountInvariant'
<1>1. /\ account' \in [Accounts -> AccountRows]
      /\ \A a \in Accounts :
            /\ account'[a].verification \in {account[a].verification, "UNVERIFIED"}
            /\ account'[a].active => account[a].active \/ (h.op = "add" /\ a = h.of)
  <2>1. CASE account' = rows
    BY <2>1
  <2>2. CASE account' = account
    BY <2>2 DEF AccountInvariant, AccountShape
  <2> QED BY <2>1, <2>2 DEF Write
<1>2. Active' \subseteq Active \cup (IF h.op \in {"add", "edit"} THEN {h.of} ELSE {})
  BY <1>1 DEF Active
<1>3. /\ handlers' \subseteq handlers /\ AddsAreCounted'
      /\ IsFiniteSet(handlers') /\ Cardinality(handlers') <= MaxHandlers
  BY <1>2, DoneKeeps
<1>4. AccountShape'
  BY <1>1, <1>3 DEF AccountInvariant, AccountShape
<1>5. \A g \in handlers' : ReadBefore(g)'
  <2> SUFFICES ASSUME NEW g \in handlers PROVE ReadBefore(g)'
    BY <1>3
  <2>1. ReadBefore(g) /\ g.of \in Accounts
    BY DEF AccountInvariant, AccountShape
  <2> QED BY <1>1, <2>1 DEF ReadBefore
<1>6. VerifiedWasConfirmed' /\ OneTried'
  BY <1>1 DEF AccountInvariant, VerifiedWasConfirmed, OneTried
<1>7. PendingCanEnd'
  <2>1. Resetting' = Resetting
    BY DEF Resetting, Done
  <2> QED BY <1>1, <2>1 DEF AccountInvariant, PendingCanEnd, Tried
<1> QED BY <1>3, <1>4, <1>5, <1>6, <1>7 DEF AccountInvariant

-----------------------------------------------------------------------------
(* Each step *)

\* A request to add, choose, delete or verify an account reads it.
LEMMA AccountRead ==
    ASSUME AccountInvariant, NEW a \in Accounts,
           ReadForAdd(a) \/ ReadForChoose(a) \/ ReadForDelete(a) \/ ReadForEdit(a) \/ ReadForStart(a)
    PROVE  AccountInvariant'
<1>1. PICK h : /\ Begin(h) /\ UNCHANGED confirmed /\ h.of = a
               /\ h.op \in {"add", "choose", "delete", "edit", "start"}
               /\ h.op = "add" => Cardinality(Active) < MaxAccounts
               /\ h.op = "edit" => a \in Active /\ h.row = account[a]
  <2>1. CASE ReadForAdd(a)
    <3>1. PICK h : h = Handler("add", a, NoAttempt, NoRow)
      OBVIOUS
    <3>2. h.op = "add" /\ h.of = a
      BY <3>1 DEF Handler
    <3> QED BY <2>1, <3>1, <3>2 DEF ReadForAdd
  <2>2. CASE ReadForChoose(a)
    <3>1. PICK h : h = Handler("choose", a, NoAttempt, account[a])
      OBVIOUS
    <3>2. h.op = "choose" /\ h.of = a
      BY <3>1 DEF Handler
    <3> QED BY <2>2, <3>1, <3>2 DEF ReadForChoose
  <2>3. CASE ReadForDelete(a)
    <3>1. PICK h : h = Handler("delete", a, NoAttempt, account[a])
      OBVIOUS
    <3>2. h.op = "delete" /\ h.of = a
      BY <3>1 DEF Handler
    <3> QED BY <2>3, <3>1, <3>2 DEF ReadForDelete
  <2>4. CASE ReadForStart(a)
    <3>1. PICK h : h = Handler("start", a, NoAttempt, NoRow)
      OBVIOUS
    <3>2. h.op = "start" /\ h.of = a
      BY <3>1 DEF Handler
    <3> QED BY <2>4, <3>1, <3>2 DEF ReadForStart
  <2>5. CASE ReadForEdit(a)
    <3>1. PICK h : h = Handler("edit", a, NoAttempt, account[a])
      OBVIOUS
    <3>2. h.op = "edit" /\ h.of = a /\ h.row = account[a]
      BY <3>1 DEF Handler
    <3> QED BY <2>5, <3>1, <3>2 DEF ReadForEdit
  <2> QED BY <2>1, <2>2, <2>3, <2>4, <2>5
<1>2. ReadBefore(h)' /\ h.op \in Operations \ {"reset"}
  <2>1. account[a] \in AccountRows
    BY DEF AccountInvariant, AccountShape
  <2>2. account[a].verification = "SANDBOX_VERIFIED" => a \in confirmed'
    BY <1>1 DEF AccountInvariant, VerifiedWasConfirmed
  <2> QED BY <1>1, <2>1, <2>2 DEF ReadBefore, Operations
<1>3. confirmed' \subseteq Accounts /\ confirmed \subseteq confirmed'
  BY <1>1 DEF AccountInvariant, AccountShape
<1> QED BY <1>1, <1>2, <1>3, BeginKeeps

\* A code is read, and the bank asked, or an attempt past its end is found.
LEMMA AttemptRead ==
    ASSUME AccountInvariant, NEW v \in Attempts, ReadForConfirm(v) \/ ReadForExpiry(v)
    PROVE  AccountInvariant'
<1> DEFINE a == attempt[v].of
<1>1. /\ attempt[v].status = "PENDING" /\ a \in Accounts
      /\ UNCHANGED <<account, attempt>>
  BY DEF ReadForConfirm, ReadForExpiry, Active, Begin
<1>2. PICK h : /\ Begin(h) /\ h.of = a /\ h.attempt = v /\ h.op \in {"confirm", "late", "expire"}
               /\ confirmed' = IF h.op = "confirm" THEN confirmed \cup {a} ELSE confirmed
               /\ h.op = "expire" => h.row = account[a]
  <2>1. CASE ReadForConfirm(v) /\ attempt[v].late
    <3>1. PICK h : h = Handler("late", a, v, NoRow)
      OBVIOUS
    <3>2. h.op = "late" /\ h.of = a /\ h.attempt = v
      BY <3>1 DEF Handler
    <3> QED BY <2>1, <3>1, <3>2 DEF ReadForConfirm
  <2>2. CASE ReadForConfirm(v) /\ ~attempt[v].late
    <3>1. PICK h : h = Handler("confirm", a, v, NoRow)
      OBVIOUS
    <3>2. h.op = "confirm" /\ h.of = a /\ h.attempt = v
      BY <3>1 DEF Handler
    <3> QED BY <2>2, <3>1, <3>2 DEF ReadForConfirm
  <2>3. CASE ReadForExpiry(v)
    <3>1. PICK h : h = Handler("expire", a, v, account[a])
      OBVIOUS
    <3>2. Begin(h) /\ UNCHANGED confirmed
      BY <2>3, <3>1 DEF ReadForExpiry
    <3>3. h.op = "expire" /\ h.of = a /\ h.attempt = v /\ h.row = account[a]
      BY <3>1 DEF Handler
    <3> QED BY <3>2, <3>3
  <2> QED BY <2>1, <2>2, <2>3
<1>3. confirmed' \subseteq Accounts /\ confirmed \subseteq confirmed'
  BY <1>1, <1>2 DEF AccountInvariant, AccountShape
<1>4. ReadBefore(h)' /\ h.op \in Operations \ {"reset"}
  <2>1. UNCHANGED <<account, attempt>>
    BY <1>1
  <2> QED BY <1>1, <1>2, <2>1 DEF ReadBefore, Operations
<1> QED BY <1>1, <1>2, <1>3, <1>4, BeginKeeps

\* The account is added.
LEMMA AccountAdd ==
    ASSUME AccountInvariant, NEW h \in handlers, NEW default \in BOOLEAN, Add(h, default)
    PROVE  AccountInvariant'
<1>1. h.op = "add" /\ h.of \in Accounts /\ Done(h) /\ UNCHANGED <<attempt, confirmed, writtenBack>>
  BY DEF Add, AccountInvariant, AccountShape
<1>2. PICK first \in BOOLEAN : first = (default \/ Active = {})
  OBVIOUS
<1> DEFINE new == [active |-> TRUE, default |-> first, verification |-> "UNVERIFIED"]
           others == [b \in Accounts |-> IF first THEN [account[b] EXCEPT !.default = FALSE] ELSE account[b]]
           rows == [others EXCEPT ![h.of] = new]
<1>3. Write(rows)
  BY <1>2 DEF Add
<1>4. \A b \in Accounts : account[b] \in AccountRows
  BY DEF AccountInvariant, AccountShape
<1>5. /\ others \in [Accounts -> AccountRows]
      /\ \A b \in Accounts : /\ others[b].verification = account[b].verification
                             /\ others[b].active = account[b].active
  <2>1. \A b \in Accounts : /\ [account[b] EXCEPT !.default = FALSE] \in AccountRows
                            /\ [account[b] EXCEPT !.default = FALSE].verification = account[b].verification
                            /\ [account[b] EXCEPT !.default = FALSE].active = account[b].active
    BY <1>4 DEF AccountRows
  <2> QED BY <1>4, <2>1
<1>6. new \in AccountRows /\ new.verification = "UNVERIFIED"
  BY DEF AccountRows, Verifications
<1>7. /\ rows \in [Accounts -> AccountRows]
      /\ \A b \in Accounts : /\ rows[b].verification \in {account[b].verification, "UNVERIFIED"}
                             /\ rows[b].active => account[b].active \/ b = h.of
  <2> HIDE DEF others, new
  <2>1. \A b \in Accounts : rows[b] = IF b = h.of THEN new ELSE others[b]
    BY <1>5
  <2> QED BY <1>1, <1>5, <1>6, <2>1
<1> HIDE DEF rows
<1> QED BY <1>1, <1>3, <1>7, WriteKeeps

\* A default is chosen.
LEMMA AccountChoose ==
    ASSUME AccountInvariant, NEW h \in handlers, Choose(h)
    PROVE  AccountInvariant'
<1> DEFINE rows == [b \in Accounts |->
               IF b = h.of
               THEN IF h.row.default THEN account[b] ELSE [account[b] EXCEPT !.default = TRUE]
               ELSE [account[b] EXCEPT !.default = @ /\ ~account[b].active]]
<1>1. Done(h) /\ h.op # "reset" /\ UNCHANGED <<attempt, confirmed, writtenBack>> /\ Write(rows)
  BY DEF Choose
<1>2. ASSUME NEW b \in Accounts
      PROVE  /\ rows[b] \in AccountRows /\ rows[b].verification = account[b].verification
             /\ rows[b].active = account[b].active
  <2>1. account[b] \in AccountRows
    BY DEF AccountInvariant, AccountShape
  <2>2. ASSUME NEW p \in BOOLEAN
        PROVE  LET row == [account[b] EXCEPT !.default = p]
               IN  /\ row \in AccountRows /\ row.verification = account[b].verification
                   /\ row.active = account[b].active
    BY <2>1 DEF AccountRows
  <2>3. PICK p \in BOOLEAN : p = (account[b].default /\ ~account[b].active)
    OBVIOUS
  <2>4. rows[b] \in {account[b], [account[b] EXCEPT !.default = TRUE], [account[b] EXCEPT !.default = p]}
    BY <2>3
  <2> QED BY <2>1, <2>2, <2>4
<1>3. rows \in [Accounts -> AccountRows]
  BY <1>2
<1> HIDE DEF rows
<1> QED BY <1>1, <1>2, <1>3, WriteKeeps

\* An account is deleted, and another one may become the default.
LEMMA AccountDelete ==
    ASSUME AccountInvariant, NEW h \in handlers, Delete(h)
    PROVE  AccountInvariant'
<1> DEFINE gone == Without(h.of)
           Fewer(rows) ==
               /\ rows \in [Accounts -> AccountRows]
               /\ \A b \in Accounts : /\ rows[b].verification = account[b].verification
                                      /\ rows[b].active => account[b].active
<1>1. Done(h) /\ h.op # "reset" /\ UNCHANGED <<attempt, confirmed, writtenBack>> /\ h.of \in Accounts
      /\ account \in [Accounts -> AccountRows]
  BY DEF Delete, AccountInvariant, AccountShape
<1>2. PICK row : row = [account[h.of] EXCEPT !.active = FALSE, !.default = FALSE]
  OBVIOUS
<1>3. /\ row \in AccountRows /\ row.verification = account[h.of].verification
      /\ row.active = FALSE
  BY <1>1, <1>2 DEF AccountRows
<1>4. gone = [account EXCEPT ![h.of] = row]
  BY <1>1, <1>2 DEF Without
<1>5. Fewer(gone)
  BY <1>1, <1>3, <1>4
<1>6. ASSUME NEW b \in Accounts PROVE Fewer([gone EXCEPT ![b].default = TRUE])
  <2> HIDE DEF gone
  <2>1. PICK next : next = [gone[b] EXCEPT !.default = TRUE]
    OBVIOUS
  <2>2. gone[b] \in AccountRows
    BY <1>5
  <2>3. /\ next \in AccountRows /\ next.verification = gone[b].verification
        /\ next.active = gone[b].active
    BY <2>1, <2>2 DEF AccountRows
  <2>4. [gone EXCEPT ![b].default = TRUE] = [gone EXCEPT ![b] = next]
    BY <2>1
  <2> QED BY <1>5, <2>3, <2>4
<1>7. PICK rows : Write(rows) /\ Fewer(rows)
  <2>1. CASE h.row.default /\ Active \ {h.of} # {}
    <3>1. PICK b \in Active \ {h.of} : Write([gone EXCEPT ![b].default = TRUE])
      BY <2>1 DEF Delete
    <3>2. b \in Accounts
      BY DEF Active
    <3> HIDE DEF Fewer, gone
    <3> QED BY <1>6, <3>1, <3>2
  <2>2. CASE ~(h.row.default /\ Active \ {h.of} # {})
    <3>1. Write(gone)
      BY <2>2 DEF Delete
    <3> HIDE DEF Fewer, gone
    <3> QED BY <1>5, <3>1
  <2> QED BY <2>1, <2>2
<1> QED BY <1>1, <1>7, WriteKeeps

\* An edit saves the row as it was read; where that changes the verification, it is known.
LEMMA AccountEdit ==
    ASSUME AccountInvariant, NEW h \in handlers, Edit(h)
    PROVE  AccountInvariant'
<1> DEFINE a == h.of
<1>1. /\ h.op = "edit" /\ a \in Accounts /\ Done(h) /\ UNCHANGED <<attempt, confirmed>>
      /\ Write([account EXCEPT ![a] = h.row])
      /\ writtenBack' = IF account'[a].verification # account[a].verification
                        THEN writtenBack \cup {a} ELSE writtenBack
      /\ account \in [Accounts -> AccountRows]
  BY DEF Edit, AccountInvariant, AccountShape
<1>2. h.row \in AccountRows /\ (h.row.verification = "SANDBOX_VERIFIED" => a \in confirmed)
  BY <1>1 DEF AccountInvariant, ReadBefore
<1>3. /\ account' \in [Accounts -> AccountRows]
      /\ \A b \in Accounts \ {a} : account'[b] = account[b]
      /\ account'[a] = account[a] \/ account'[a] = h.row
  BY <1>1, <1>2 DEF Write
<1>4. /\ handlers' \subseteq handlers /\ AddsAreCounted'
      /\ IsFiniteSet(handlers') /\ Cardinality(handlers') <= MaxHandlers
  <2>1. Active' \subseteq Active \cup {a}
    BY <1>3 DEF Active
  <2> QED BY <1>1, <2>1, DoneKeeps
<1>5. AccountShape'
  BY <1>1, <1>3, <1>4 DEF AccountInvariant, AccountShape
<1>6. /\ writtenBack \subseteq writtenBack'
      /\ \A b \in Accounts \ writtenBack' : account'[b].verification = account[b].verification
  BY <1>1, <1>3
<1>7. \A g \in handlers' : ReadBefore(g)'
  <2> SUFFICES ASSUME NEW g \in handlers PROVE ReadBefore(g)'
    BY <1>4
  <2>1. ReadBefore(g) /\ g.of \in Accounts
    BY DEF AccountInvariant, AccountShape
  <2> QED BY <1>1, <1>6, <2>1 DEF ReadBefore
<1>8. VerifiedWasConfirmed'
  BY <1>1, <1>2, <1>3 DEF AccountInvariant, VerifiedWasConfirmed
<1>9. PendingCanEnd' /\ OneTried'
  <2>1. Resetting' = Resetting
    BY <1>1 DEF Resetting, Done
  <2>2. PendingCanEnd'
    BY <1>1, <1>6, <2>1 DEF AccountInvariant, PendingCanEnd, Tried
  <2> QED BY <1>1, <2>2 DEF AccountInvariant, OneTried
<1> QED BY <1>4, <1>5, <1>7, <1>8, <1>9 DEF AccountInvariant

\* What changes of the accounts when one verification changes.
LEMMA VerificationChanges ==
    ASSUME AccountInvariant, NEW a \in Accounts, NEW how \in Verifications,
           account' = [account EXCEPT ![a].verification = how]
    PROVE  /\ account' \in [Accounts -> AccountRows] /\ Active' = Active
           /\ \A b \in Accounts :
                 account'[b].verification = IF b = a THEN how ELSE account[b].verification
<1>1. account \in [Accounts -> AccountRows]
  BY DEF AccountInvariant, AccountShape
<1>2. PICK row : row = [account[a] EXCEPT !.verification = how]
  OBVIOUS
<1>3. row \in AccountRows /\ row.verification = how /\ row.active = account[a].active
  BY <1>1, <1>2 DEF AccountRows
<1>4. account' = [account EXCEPT ![a] = row]
  BY <1>1, <1>2
<1>5. \A b \in Accounts : account'[b] = IF b = a THEN row ELSE account[b]
  BY <1>1, <1>4
<1> QED BY <1>1, <1>3, <1>4, <1>5 DEF Active

\* A verification starts and takes the place of those before.
LEMMA AttemptStarts ==
    ASSUME AccountInvariant, NEW h \in handlers, NEW v \in Attempts, NEW needsCode \in BOOLEAN,
           StartAttempt(h, v, needsCode)
    PROVE  AccountInvariant'
<1> DEFINE a == h.of
           how == IF needsCode THEN "PENDING" ELSE "SANDBOX_VERIFIED"
           status == IF needsCode THEN "PENDING" ELSE "VERIFIED"
           new == [of |-> a, status |-> status, late |-> FALSE]
<1>1. /\ h.op = "start" /\ a \in Accounts /\ attempt[v] = Unused /\ Done(h)
      /\ attempt' = [Superseded(a) EXCEPT ![v] = new]
      /\ account' = [account EXCEPT ![a].verification = how]
      /\ confirmed' = IF needsCode THEN confirmed ELSE confirmed \cup {a}
      /\ writtenBack' = writtenBack \ {a}
  BY DEF StartAttempt, AccountInvariant, AccountShape
<1>2. attempt \in [Attempts -> AttemptRows]
  BY DEF AccountInvariant, AccountShape
<1>3. new \in AttemptRows /\ new.of = a /\ new.status = status
  BY <1>1 DEF AttemptRows
<1>4. \A w \in Attempts \ {v} :
          /\ attempt'[w] \in AttemptRows /\ attempt'[w].of = attempt[w].of
          /\ attempt'[w].status = IF w \in Tried(a) THEN "EXPIRED" ELSE attempt[w].status
  <2>1. \A w \in Attempts : /\ [attempt[w] EXCEPT !.status = "EXPIRED"] \in AttemptRows
                            /\ [attempt[w] EXCEPT !.status = "EXPIRED"].of = attempt[w].of
                            /\ [attempt[w] EXCEPT !.status = "EXPIRED"].status = "EXPIRED"
    BY <1>2 DEF AttemptRows
  <2>2. \A w \in Attempts \ {v} : attempt'[w] = IF w \in Tried(a)
                                                THEN [attempt[w] EXCEPT !.status = "EXPIRED"]
                                                ELSE attempt[w]
    BY <1>1 DEF Superseded
  <2> QED BY <1>2, <2>1, <2>2
<1>5. attempt'[v] = new
  BY <1>1 DEF Superseded
<1>6. attempt' \in [Attempts -> AttemptRows]
  <2>1. attempt' = [w \in Attempts |-> attempt'[w]]
    BY <1>1 DEF Superseded
  <2> HIDE DEF new
  <2> QED BY <1>3, <1>4, <1>5, <2>1
<1>7. /\ account' \in [Accounts -> AccountRows] /\ Active' = Active
      /\ \A b \in Accounts :
            account'[b].verification = IF b = a THEN how ELSE account[b].verification
  <2>1. how \in Verifications
    BY DEF Verifications
  <2> QED BY <1>1, <2>1, VerificationChanges
<1>8. /\ handlers' \subseteq handlers /\ AddsAreCounted'
      /\ IsFiniteSet(handlers') /\ Cardinality(handlers') <= MaxHandlers
  BY <1>1, <1>7, DoneKeeps
<1>9. \A w \in Attempts : attempt'[w].status = "PENDING" =>
          \/ w = v /\ needsCode
          \/ w # v /\ attempt[w].status = "PENDING" /\ attempt[w].of # a
  BY <1>3, <1>4, <1>5 DEF Tried
<1> HIDE DEF new
<1>10. AccountShape'
  BY <1>1, <1>6, <1>7, <1>8 DEF AccountInvariant, AccountShape
<1>11. ASSUME NEW g \in handlers PROVE ReadBefore(g)'
  <2>1. ReadBefore(g) /\ g.of \in Accounts
    BY DEF AccountInvariant, AccountShape
  <2>2. ASSUME g.op \in {"confirm", "late", "expire"}
        PROVE  /\ g.attempt \in Attempts /\ g.attempt # v
               /\ attempt'[g.attempt].of = g.of /\ attempt'[g.attempt].status # "NONE"
    <3>1. g.attempt \in Attempts /\ attempt[g.attempt].of = g.of /\ attempt[g.attempt].status # "NONE"
      BY <2>1, <2>2 DEF ReadBefore
    <3>2. g.attempt # v
      BY <1>1, <3>1 DEF Unused
    <3> QED BY <1>4, <3>1, <3>2
  <2>3. g.op = "confirm" => g.of \in confirmed'
    BY <1>1, <2>1 DEF ReadBefore
  <2>4. ASSUME g.op = "expire", g.row.verification # "PENDING",
               attempt'[g.attempt].status = "PENDING", account'[g.of].verification = "PENDING"
        PROVE  g.of \in writtenBack'
    <3>1. g.attempt \in Attempts /\ g.attempt # v /\ attempt[g.attempt].of = g.of
      BY <2>1, <2>2, <2>4 DEF ReadBefore
    <3>2. attempt[g.attempt].status = "PENDING" /\ g.of # a
      BY <1>9, <2>4, <3>1
    <3> QED BY <1>1, <1>7, <2>1, <2>4, <3>2 DEF ReadBefore
  <2>5. g.op = "edit" =>
            g.row \in AccountRows /\ (g.row.verification = "SANDBOX_VERIFIED" => g.of \in confirmed')
    BY <1>1, <2>1 DEF ReadBefore
  <2> QED BY <2>2, <2>3, <2>4, <2>5 DEF ReadBefore
<1>12. VerifiedWasConfirmed'
  BY <1>1, <1>7 DEF AccountInvariant, VerifiedWasConfirmed
<1>13. PendingCanEnd'
  <2> SUFFICES ASSUME NEW b \in Accounts, account'[b].verification = "PENDING",
                      b \notin Resetting', b \notin writtenBack'
               PROVE  \E w \in Attempts : attempt'[w].of = b /\ attempt'[w].status = "PENDING"
    BY DEF PendingCanEnd, Tried
  <2>1. CASE b = a
    BY <1>3, <1>5, <1>7, <2>1
  <2>2. CASE b # a
    <3>0. b \notin Resetting /\ b \notin writtenBack
      BY <1>1, <2>2 DEF Resetting, Done
    <3>1. PICK w \in Attempts : attempt[w].of = b /\ attempt[w].status = "PENDING"
      BY <1>7, <2>2, <3>0 DEF AccountInvariant, PendingCanEnd, Tried
    <3>2. w # v
      BY <1>1, <3>1 DEF Unused
    <3> QED BY <1>4, <2>2, <3>1, <3>2 DEF Tried
  <2> QED BY <2>1, <2>2
<1>14. OneTried'
  <2> SUFFICES ASSUME NEW u \in Attempts, NEW w \in Attempts, attempt'[u].of = attempt'[w].of,
                      attempt'[u].status = "PENDING", attempt'[w].status = "PENDING"
               PROVE  u = w
    BY DEF OneTried
  <2> QED BY <1>3, <1>4, <1>5, <1>9 DEF AccountInvariant, OneTried
<1> QED BY <1>8, <1>10, <1>11, <1>12, <1>13, <1>14 DEF AccountInvariant

\* An attempt is past its end.
LEMMA AttemptGrowsLate ==
    ASSUME AccountInvariant, NEW v \in Attempts, GrowLate(v)
    PROVE  AccountInvariant'
<1>1. /\ UNCHANGED <<account, handlers, confirmed, writtenBack>> /\ attempt' = [attempt EXCEPT ![v].late = TRUE]
      /\ attempt \in [Attempts -> AttemptRows]
  BY DEF GrowLate, AccountInvariant, AccountShape
<1>2. PICK row : row = [attempt[v] EXCEPT !.late = TRUE]
  OBVIOUS
<1>3. row \in AttemptRows /\ row.of = attempt[v].of /\ row.status = attempt[v].status
  BY <1>1, <1>2 DEF AttemptRows
<1>4. attempt' = [attempt EXCEPT ![v] = row]
  BY <1>1, <1>2
<1>5. /\ attempt' \in [Attempts -> AttemptRows]
      /\ \A w \in Attempts : attempt'[w].of = attempt[w].of /\ attempt'[w].status = attempt[w].status
  BY <1>1, <1>3, <1>4
<1>6. AccountShape' /\ AddsAreCounted'
  BY <1>1, <1>5 DEF AccountInvariant, AccountShape, AddsAreCounted, Standing, Editing, Active, Adding
<1>7. \A h \in handlers' : ReadBefore(h)'
  BY <1>1, <1>5 DEF AccountInvariant, ReadBefore
<1>8. VerifiedWasConfirmed' /\ PendingCanEnd' /\ OneTried'
  BY <1>1, <1>5 DEF AccountInvariant, VerifiedWasConfirmed, PendingCanEnd, OneTried, Tried, Resetting
<1> QED BY <1>6, <1>7, <1>8 DEF AccountInvariant

\* What becomes of an attempt that ends.
LEMMA AttemptEnds ==
    ASSUME AccountInvariant, NEW v \in Attempts, NEW status \in {"VERIFIED", "EXPIRED"},
           attempt' = [attempt EXCEPT ![v].status = status]
    PROVE  /\ attempt' \in [Attempts -> AttemptRows] /\ OneTried'
           /\ \A w \in Attempts : /\ attempt'[w].of = attempt[w].of
                                  /\ attempt'[w].status = IF w = v THEN status ELSE attempt[w].status
<1>1. attempt \in [Attempts -> AttemptRows]
  BY DEF AccountInvariant, AccountShape
<1>2. PICK row : row = [attempt[v] EXCEPT !.status = status]
  OBVIOUS
<1>3. row \in AttemptRows /\ row.of = attempt[v].of /\ row.status = status
  BY <1>1, <1>2 DEF AttemptRows
<1>4. attempt' = [attempt EXCEPT ![v] = row]
  BY <1>2
<1>5. \A w \in Attempts : /\ attempt'[w].of = attempt[w].of
                          /\ attempt'[w].status = IF w = v THEN status ELSE attempt[w].status
  BY <1>1, <1>3, <1>4
<1> QED BY <1>1, <1>3, <1>4, <1>5 DEF AccountInvariant, OneTried

\* The bank has confirmed the code.
LEMMA AttemptConfirmed ==
    ASSUME AccountInvariant, NEW h \in handlers, MarkVerified(h)
    PROVE  AccountInvariant'
<1> DEFINE v == h.attempt
           a == h.of
<1>1. /\ h.op = "confirm" /\ Done(h) /\ UNCHANGED confirmed
      /\ attempt' = [attempt EXCEPT ![v].status = "VERIFIED"]
      /\ account' = [account EXCEPT ![a].verification = "SANDBOX_VERIFIED"]
      /\ writtenBack' = writtenBack \ {a}
      /\ v \in Attempts /\ a \in Accounts /\ attempt[v].of = a /\ a \in confirmed
  BY DEF MarkVerified, AccountInvariant, AccountShape, ReadBefore
<1>2. /\ attempt' \in [Attempts -> AttemptRows] /\ OneTried'
      /\ \A w \in Attempts : /\ attempt'[w].of = attempt[w].of
                             /\ attempt'[w].status = IF w = v THEN "VERIFIED" ELSE attempt[w].status
  BY <1>1, AttemptEnds
<1>3. /\ account' \in [Accounts -> AccountRows] /\ Active' = Active
      /\ \A b \in Accounts : account'[b].verification
                                 = IF b = a THEN "SANDBOX_VERIFIED" ELSE account[b].verification
  BY <1>1, VerificationChanges DEF Verifications
<1>4. /\ handlers' \subseteq handlers /\ AddsAreCounted'
      /\ IsFiniteSet(handlers') /\ Cardinality(handlers') <= MaxHandlers
  BY <1>3, DoneKeeps, <1>1
<1>5. AccountShape'
  BY <1>1, <1>2, <1>3, <1>4 DEF AccountInvariant, AccountShape
<1>6. ASSUME NEW g \in handlers PROVE ReadBefore(g)'
  <2>1. ReadBefore(g) /\ g.of \in Accounts
    BY DEF AccountInvariant, AccountShape
  <2> QED BY <1>1, <1>2, <1>3, <2>1 DEF ReadBefore
<1>7. VerifiedWasConfirmed'
  BY <1>1, <1>3 DEF AccountInvariant, VerifiedWasConfirmed
<1>8. PendingCanEnd'
  <2> SUFFICES ASSUME NEW b \in Accounts, account'[b].verification = "PENDING",
                      b \notin Resetting', b \notin writtenBack'
               PROVE  \E w \in Attempts : attempt'[w].of = b /\ attempt'[w].status = "PENDING"
    BY DEF PendingCanEnd, Tried
  <2>1. b # a /\ account[b].verification = "PENDING" /\ b \notin Resetting /\ b \notin writtenBack
    BY <1>1, <1>3 DEF Resetting, Done
  <2>2. PICK w \in Attempts : attempt[w].of = b /\ attempt[w].status = "PENDING"
    BY <2>1 DEF AccountInvariant, PendingCanEnd, Tried
  <2> QED BY <1>1, <1>2, <2>1, <2>2
<1> QED BY <1>2, <1>4, <1>5, <1>6, <1>7, <1>8 DEF AccountInvariant

\* The attempt is saved, and the account is to be reset or was not waiting when it was read.
LEMMA AttemptExpires ==
    ASSUME AccountInvariant, NEW h \in handlers, ExpireAttempt(h)
    PROVE  AccountInvariant'
<1> DEFINE v == h.attempt
           a == h.of
           resets == h.op = "late" \/ h.row.verification = "PENDING"
<1>1. /\ h.op \in {"late", "expire"} /\ UNCHANGED <<account, confirmed, writtenBack>>
      /\ attempt' = [attempt EXCEPT ![v].status = "EXPIRED"]
      /\ v \in Attempts /\ a \in Accounts /\ attempt[v].of = a /\ ReadBefore(h)
  BY DEF ExpireAttempt, AccountInvariant, AccountShape, ReadBefore
<1>2. /\ attempt' \in [Attempts -> AttemptRows] /\ OneTried'
      /\ \A w \in Attempts : /\ attempt'[w].of = attempt[w].of
                             /\ attempt'[w].status = IF w = v THEN "EXPIRED" ELSE attempt[w].status
  BY <1>1, AttemptEnds
<1>3. PICK reset : reset = Handler("reset", a, v, NoRow)
  OBVIOUS
<1>4. /\ reset.op = "reset" /\ reset.of = a
      /\ handlers' = IF resets THEN (handlers \ {h}) \cup {reset} ELSE handlers \ {h}
  BY <1>3 DEF ExpireAttempt, Handler, Done
<1>5. IsFiniteSet(handlers') /\ Cardinality(handlers') <= MaxHandlers
  <2>1. IsFiniteSet(handlers) /\ Cardinality(handlers) <= MaxHandlers /\ Cardinality(handlers) \in Nat
    BY AccountFacts DEF AccountInvariant, AccountShape
  <2>2. PICK rest : rest = handlers \ {h}
    OBVIOUS
  <2>3. IsFiniteSet(rest) /\ Cardinality(rest) = Cardinality(handlers) - 1
    BY <2>1, <2>2, FS_RemoveElement
  <2>4. /\ IsFiniteSet(rest \cup {reset})
        /\ Cardinality(rest \cup {reset}) = IF reset \in rest THEN Cardinality(rest) ELSE Cardinality(rest) + 1
    BY <2>3, FS_AddElement
  <2> QED BY <1>4, <2>1, <2>2, <2>3, <2>4, Numbers
<1>6. AddsAreCounted'
  <2>1. Active' = Active /\ Adding' = Adding /\ Editing' = Editing
    BY <1>1, <1>4 DEF Active, Adding, Editing
  <2>2. Standing' = Standing
    BY <2>1 DEF Standing
  <2> QED BY <2>1, <2>2 DEF AccountInvariant, AddsAreCounted
<1>7. AccountShape'
  <2>1. \A g \in handlers' : g.op \in Operations /\ g.of \in Accounts
    BY <1>1, <1>4 DEF AccountInvariant, AccountShape, Operations
  <2> QED BY <1>1, <1>2, <1>5, <2>1 DEF AccountInvariant, AccountShape
<1>8. ASSUME NEW g \in handlers' PROVE ReadBefore(g)'
  <2>1. CASE g = reset
    BY <1>4, <2>1 DEF ReadBefore
  <2>2. CASE g \in handlers
    <3>1. ReadBefore(g) /\ g.of \in Accounts
      BY <2>2 DEF AccountInvariant, AccountShape
    <3> QED BY <1>1, <1>2, <3>1 DEF ReadBefore
  <2> QED BY <1>4, <2>1, <2>2
<1>9. VerifiedWasConfirmed'
  BY <1>1 DEF AccountInvariant, VerifiedWasConfirmed
<1>10. PendingCanEnd'
  <2> SUFFICES ASSUME NEW b \in Accounts, account'[b].verification = "PENDING",
                      b \notin Resetting', b \notin writtenBack'
               PROVE  \E w \in Attempts : attempt'[w].of = b /\ attempt'[w].status = "PENDING"
    BY DEF PendingCanEnd, Tried
  <2>1. account[b].verification = "PENDING" /\ b \notin Resetting /\ b \notin writtenBack
    BY <1>1, <1>4 DEF Resetting
  <2>2. PICK w \in Attempts : attempt[w].of = b /\ attempt[w].status = "PENDING"
    BY <2>1 DEF AccountInvariant, PendingCanEnd, Tried
  <2>3. w # v
    <3>1. ASSUME w = v PROVE FALSE
      <4>1. b = a
        BY <1>1, <2>2, <3>1
      <4>2. ~resets
        BY <1>4, <4>1 DEF Resetting
      <4> QED BY <1>1, <2>1, <2>2, <3>1, <4>1, <4>2 DEF ReadBefore
    <3> QED BY <3>1
  <2> QED BY <1>2, <2>2, <2>3
<1> QED BY <1>2, <1>6, <1>7, <1>8, <1>9, <1>10 DEF AccountInvariant

\* The account of an expired attempt does not wait any more.
LEMMA AccountReset ==
    ASSUME AccountInvariant, NEW h \in handlers, ResetAccount(h)
    PROVE  AccountInvariant'
<1> DEFINE a == h.of
<1>1. /\ h.op = "reset" /\ Done(h) /\ UNCHANGED <<attempt, confirmed>> /\ a \in Accounts
      /\ account' = [account EXCEPT ![a].verification = "UNVERIFIED"]
      /\ writtenBack' = writtenBack \ {a}
  BY DEF ResetAccount, AccountInvariant, AccountShape
<1>2. /\ account' \in [Accounts -> AccountRows] /\ Active' = Active
      /\ \A b \in Accounts : account'[b].verification
                                 = IF b = a THEN "UNVERIFIED" ELSE account[b].verification
  BY <1>1, VerificationChanges DEF Verifications
<1>3. /\ handlers' \subseteq handlers /\ AddsAreCounted'
      /\ IsFiniteSet(handlers') /\ Cardinality(handlers') <= MaxHandlers
  BY <1>1, <1>2, DoneKeeps
<1>4. AccountShape'
  BY <1>1, <1>2, <1>3 DEF AccountInvariant, AccountShape
<1>5. ASSUME NEW g \in handlers PROVE ReadBefore(g)'
  <2>1. ReadBefore(g) /\ g.of \in Accounts
    BY DEF AccountInvariant, AccountShape
  <2> QED BY <1>1, <1>2, <2>1 DEF ReadBefore
<1>6. VerifiedWasConfirmed' /\ OneTried'
  BY <1>1, <1>2 DEF AccountInvariant, VerifiedWasConfirmed, OneTried
<1>7. PendingCanEnd'
  <2> SUFFICES ASSUME NEW b \in Accounts, account'[b].verification = "PENDING",
                      b \notin Resetting', b \notin writtenBack'
               PROVE  \E w \in Attempts : attempt'[w].of = b /\ attempt'[w].status = "PENDING"
    BY DEF PendingCanEnd, Tried
  <2>1. b # a /\ account[b].verification = "PENDING" /\ b \notin Resetting /\ b \notin writtenBack
    BY <1>1, <1>2 DEF Resetting, Done
  <2> QED BY <1>1, <2>1 DEF AccountInvariant, PendingCanEnd, Tried
<1> QED BY <1>3, <1>4, <1>5, <1>6, <1>7 DEF AccountInvariant

\* Every step keeps the invariant.
LEMMA AccountStep ==
    ASSUME AccountInvariant, [AccountsNext]_accountVars
    PROVE  AccountInvariant'
<1>1. ASSUME NEW a \in Accounts,
             ReadForAdd(a) \/ ReadForChoose(a) \/ ReadForDelete(a) \/ ReadForEdit(a) \/ ReadForStart(a)
      PROVE  AccountInvariant'
  BY <1>1, AccountRead
<1>2. ASSUME NEW h \in handlers,
             Choose(h) \/ Delete(h) \/ Edit(h) \/ \E default \in BOOLEAN : Add(h, default)
      PROVE  AccountInvariant'
  BY <1>2, AccountChoose, AccountDelete, AccountEdit, AccountAdd
<1>3. ASSUME NEW h \in handlers, NEW v \in Attempts, NEW needsCode \in BOOLEAN,
             StartAttempt(h, v, needsCode)
      PROVE  AccountInvariant'
  BY <1>3, AttemptStarts
<1>4. ASSUME NEW h \in handlers, MarkVerified(h) \/ ExpireAttempt(h) \/ ResetAccount(h)
      PROVE  AccountInvariant'
  BY <1>4, AttemptConfirmed, AttemptExpires, AccountReset
<1>5. ASSUME NEW v \in Attempts, GrowLate(v) \/ ReadForConfirm(v) \/ ReadForExpiry(v)
      PROVE  AccountInvariant'
  BY <1>5, AttemptGrowsLate, AttemptRead
<1>6. CASE UNCHANGED accountVars
  BY <1>6 DEF accountVars, AccountInvariant, AccountShape, ReadBefore, VerifiedWasConfirmed,
              PendingCanEnd, Resetting, OneTried, AddsAreCounted, Tried, Active, Standing, Adding,
              Editing
<1> QED BY <1>1, <1>2, <1>3, <1>4, <1>5, <1>6 DEF AccountsNext

\* There are no accounts at first.
LEMMA AccountStart == AccountsInit => AccountInvariant
<1> SUFFICES ASSUME AccountsInit PROVE AccountInvariant
  OBVIOUS
<1>1. /\ account = [a \in Accounts |-> NoRow] /\ attempt = [v \in Attempts |-> Unused]
      /\ handlers = {} /\ confirmed = {} /\ writtenBack = {}
  BY DEF AccountsInit
<1>2. NoRow \in AccountRows /\ NoRow.verification = "NONE" /\ NoRow.active = FALSE
  BY DEF NoRow, AccountRows, Verifications
<1>3. Unused \in AttemptRows /\ Unused.status = "NONE"
  BY DEF Unused, AttemptRows
<1>4. Active = {} /\ Adding = {} /\ Standing = {}
  BY <1>1, <1>2 DEF Active, Adding, Standing, Editing
<1>5. AccountShape /\ AddsAreCounted
  BY <1>1, <1>2, <1>3, <1>4, FS_EmptySet, Numbers DEF AccountShape, AddsAreCounted
<1>6. VerifiedWasConfirmed /\ PendingCanEnd /\ OneTried
  BY <1>1, <1>2, <1>3 DEF VerifiedWasConfirmed, PendingCanEnd, OneTried
<1> QED BY <1>1, <1>5, <1>6 DEF AccountInvariant

\* Whatever handlers read their account and write it later, an edit all of it, in whatever
\* order: an account counts as verified only if the bank confirmed it, one that waits for a
\* verification has an attempt that can end and only one, but while an expiry has yet to reset
\* it or an edit has put the waiting back, and there are no more accounts than may be and were
\* being added or brought back at once.
THEOREM AccountsStaySound == AccountsSpec => []AccountsSafe
<1>1. AccountInvariant /\ [AccountsNext]_accountVars => AccountInvariant'
  BY AccountStep
<1>2. AccountInvariant => AccountsSafe
  <2> SUFFICES ASSUME AccountInvariant PROVE AccountsSafe
    OBVIOUS
  <2>1. AccountsTypeOK
    BY DEF AccountInvariant, AccountShape, AccountsTypeOK, AccountRows, AttemptRows
  <2>2. VerifiedWasConfirmed /\ PendingCanEnd
    BY DEF AccountInvariant
  <2>3. OneAttempt
    <3> SUFFICES ASSUME NEW a \in Accounts PROVE Cardinality(Tried(a)) <= 1
      BY DEF OneAttempt
    <3>1. CASE Tried(a) = {}
      BY <3>1, FS_EmptySet
    <3>2. CASE Tried(a) # {}
      <4>1. PICK v \in Tried(a) : TRUE
        BY <3>2
      <4>2. Tried(a) = {v}
        BY <4>1 DEF Tried, AccountInvariant, OneTried
      <4> QED BY <4>2, FS_Singleton
    <3> QED BY <3>1, <3>2
  <2>4. AccountsBounded
    <3>1. Cardinality(Standing) + Cardinality(Adding) <= MaxAccounts + MaxHandlers - 1
      BY DEF AccountInvariant, AddsAreCounted
    <3> QED BY <3>1, AccountFacts, Numbers DEF AccountsBounded
  <2> QED BY <2>1, <2>2, <2>3, <2>4 DEF AccountsSafe
<1> QED BY <1>1, <1>2, AccountStart, PTL DEF AccountsSpec

-----------------------------------------------------------------------------
(* Requests to withdraw. *)

-----------------------------------------------------------------------------
(* The inductive invariant *)

MarkRows == [state : {"FREE", "PROCESSING", "DONE"}, code : Wrong..MaxSends]
RequestRows ==
    [at : Steps, key : RequestKeys \cup {NoKey}, code : Wrong..MaxSends,
     expected : NoCode..MaxSends, mailed : BOOLEAN]

\* The shapes behind EntryTypeOK.
EntryShape ==
    /\ mark \in [RequestKeys -> MarkRows] /\ request \in [Requests -> RequestRows]
    /\ expecting \in NoCode..mailed /\ mailed \in 0..MaxSends
    /\ tries \in Nat \cup {NoCount} /\ sending \in {"no", "yes", "lapsed"}
    /\ guesses \in Nat /\ balance \in Nat
    /\ made \in [RequestKeys -> [1..MaxSends -> Nat]]

\* What a request carries from step to step: its key, a code that was mailed once it was
\* compared, and an answer that is true.
RequestAgrees(r) ==
    /\ ~At(r, "idle") => request[r].key \in RequestKeys
    /\ request[r].code <= mailed /\ request[r].expected <= mailed
    /\ request[r].at \in {"tries", "compare"} => request[r].expected # NoCode
    /\ request[r].at \in {"consume", "clear", "debit", "answer"} => request[r].code \in MailedCodes
    /\ At(r, "answer") => made[request[r].key][request[r].code] > 0

\* The requests at one of some steps.
With(steps) == {r \in Requests : request[r].at \in steps}
Number(steps) == Cardinality(With(steps))
Clearing == With({"clear"})
All == Cardinality(Requests)

\* A mailed code is in the cache, or used by a request under way, or by a withdrawal made.
CodesSpent ==
    /\ IsFiniteSet(Withdrawals)
    /\ Made + Number({"clear", "debit"}) + (IF expecting # NoCode THEN 1 ELSE 0) <= mailed
    /\ Withdrawn = Amount * Made
    /\ Made > 0 => balance >= MinRemaining
    /\ Withdrawn <= DailyMax

\* While the last code is in the cache, at most one request may still clear the count, and it
\* used the code before; one code is used up between two mails.
FewClear ==
    /\ \A q, r \in Clearing : ~request[q].mailed /\ ~request[r].mailed => q = r
    /\ expecting # NoCode => /\ \A q \in Clearing : request[q].mailed
                             /\ \A q, r \in Clearing : q = r

\* A count that is missing counts as none.
Count(t) == IF t = NoCount THEN 0 ELSE t

\* Guesses yet to come while nobody sets the count: those that may still read it before it is
\* full, less the guesses under way that will be added to it; none but those compared when full.
RunLeft(t, c, g) == IF Count(t) >= MaxTries THEN c ELSE MaxTries - 1 - Count(t) + All - g

\* How often the count may yet be set while its code is in the cache: by the requests that found
\* it missing, or may find it so; by the one that used the code before; by the mail of the code.
StartsLeft(t, s, clears, mails) ==
    (IF t = NoCount THEN All ELSE s) + (IF clears THEN All + 1 ELSE 0)
        + (IF mails = "yes" THEN All + 2 ELSE IF mails = "lapsed" THEN 1 ELSE 0)

Compared == {"compare"}
Guessed == {"count", "add", "restart"}
Run == RunLeft(tries, Number(Compared), Number(Guessed))
Starts == StartsLeft(tries, Number({"restart"}), Clearing # {}, sending)
MostGuesses == OneRun * (Restarts + 1)

\* The guesses made, those left in this run and those of the runs to come; once the code is gone,
\* those of the requests under way.
GuessesLeft ==
    /\ expecting # NoCode => guesses + Run + OneRun * Starts <= MostGuesses
    /\ expecting = NoCode => guesses + Number({"tries", "compare"}) <= MostGuesses + All

EntryInvariant ==
    /\ EntryShape /\ KeptAnswerIsTrue
    /\ \A r \in Requests : RequestAgrees(r)
    /\ CodesSpent /\ FewClear /\ GuessesLeft

-----------------------------------------------------------------------------
(* Counting requests *)

\* Sets of requests are finite, and two without a common request are not more than all.
LEMMA Subsets ==
    ASSUME NEW S \in SUBSET Requests
    PROVE  /\ IsFiniteSet(S) /\ Cardinality(S) \in Nat /\ Cardinality(S) <= All /\ All \in Nat
           /\ \A r \in S : Cardinality(S \ {r}) = Cardinality(S) - 1
           /\ \A r \in Requests \ S : Cardinality(S \cup {r}) = Cardinality(S) + 1
           /\ \A T \in SUBSET Requests : S \cap T = {} => Cardinality(S) + Cardinality(T) <= All
<1>1. IsFiniteSet(S) /\ Cardinality(S) <= All
  BY WithdrawEntryAssumption, FS_Subset DEF All
<1>2. Cardinality(S) \in Nat /\ All \in Nat
  BY <1>1, WithdrawEntryAssumption, FS_CardinalityType DEF All
<1>3. \A r \in S : Cardinality(S \ {r}) = Cardinality(S) - 1
  BY <1>1, FS_RemoveElement
<1>4. ASSUME NEW r \in Requests \ S PROVE Cardinality(S \cup {r}) = Cardinality(S) + 1
  BY <1>1, FS_AddElement
<1>5. ASSUME NEW T \in SUBSET Requests, S \cap T = {} PROVE Cardinality(S) + Cardinality(T) <= All
  <2>1. IsFiniteSet(T) /\ Cardinality(T) \in Nat
    BY WithdrawEntryAssumption, FS_Subset, FS_CardinalityType
  <2>2. Cardinality(S \cap T) = 0
    BY <1>5, FS_EmptySet
  <2>3. Cardinality(S \cup T) = Cardinality(S) + Cardinality(T) - Cardinality(S \cap T)
    BY <1>1, <2>1, FS_Union
  <2>4. Cardinality(S \cup T) <= All
    BY WithdrawEntryAssumption, FS_Subset DEF All
  <2> QED BY <1>2, <2>1, <2>2, <2>3, <2>4
<1> QED BY <1>1, <1>2, <1>3, <1>4, <1>5

-----------------------------------------------------------------------------
(* Guesses to come *)

\* The counts of the mail and of the guesses are whole numbers.
LEMMA Limits ==
    /\ All \in Nat /\ MaxTries \in Nat /\ MaxTries >= 1
    /\ OneRun \in Nat /\ OneRun = MaxTries - 1 + All /\ OneRun >= All
    /\ Restarts \in Nat /\ Restarts = 3 * All + 3 /\ MostGuesses \in Nat
<1>1. All \in Nat /\ MaxTries \in Nat /\ MaxTries >= 1
  BY WithdrawEntryAssumption, FS_CardinalityType DEF All
<1>2. OneRun \in Nat /\ OneRun = MaxTries - 1 + All /\ OneRun >= All
  BY <1>1 DEF OneRun, All
<1>3. Restarts \in Nat /\ Restarts = 3 * All + 3
  BY <1>1 DEF Restarts, All
<1>4. MostGuesses \in Nat
  BY <1>2, <1>3 DEF MostGuesses
<1> QED BY <1>1, <1>2, <1>3, <1>4

\* What is left of a run is at most one run, and enough for those that compare.
LEMMA RunIsLimited ==
    ASSUME NEW t \in Nat \cup {NoCount}, NEW c \in Nat, NEW g \in Nat, c + g <= All
    PROVE  RunLeft(t, c, g) \in Nat /\ RunLeft(t, c, g) <= OneRun /\ c <= RunLeft(t, c, g)
<1>1. Count(t) \in Nat
  BY DEF Count, NoCount
<1> QED BY <1>1, Limits DEF RunLeft

\* The settings left are a whole number, and the most there are after a mail.
LEMMA StartsAreLimited ==
    ASSUME NEW t, NEW s \in Nat, s <= All, NEW clears \in BOOLEAN, NEW mails
    PROVE  StartsLeft(t, s, clears, mails) \in Nat /\ StartsLeft(t, s, clears, mails) <= Restarts
BY Limits DEF StartsLeft

\* Of runs of k guesses, one less to come makes room for the k of the one that starts.
LEMMA OneRunLess ==
    ASSUME NEW k \in Nat, NEW a \in Nat, NEW b \in Nat
    PROVE  /\ k * a \in Nat /\ k * b \in Nat
           /\ a <= b => k * a <= k * b
           /\ a + 1 <= b => k * a + k <= k * b
<1>1. k * a \in Nat /\ k * b \in Nat
  OBVIOUS
<1>2. ASSUME a <= b PROVE k * a <= k * b
  <2>1. PICK d \in Nat : b = a + d
    BY <1>2
  <2>2. k * b = k * a + k * d /\ k * d \in Nat
    BY <2>1
  <2> QED BY <1>1, <2>2
<1>3. ASSUME a + 1 <= b PROVE k * a + k <= k * b
  <2>1. PICK d \in Nat : b = a + 1 + d
    BY <1>3
  <2>2. k * b = k * a + k + k * d /\ k * d \in Nat
    BY <2>1
  <2> QED BY <1>1, <2>2
<1> QED BY <1>1, <1>2, <1>3

-----------------------------------------------------------------------------
(* Steps *)

\* How many requests can be at some steps.
LEMMA NumbersOfRequests ==
    ASSUME NEW U
    PROVE  With(U) \in SUBSET Requests /\ Number(U) \in Nat /\ Number(U) <= All
<1>1. With(U) \in SUBSET Requests
  BY DEF With
<1> QED BY <1>1, Subsets DEF Number

\* A step of one request moves no other.
LEMMA Move ==
    ASSUME EntryInvariant, NEW r \in Requests, NEW row \in RequestRows,
           request' = [request EXCEPT ![r] = row]
    PROVE  /\ request' \in [Requests -> RequestRows] /\ request'[r] = row
           /\ \A q \in Requests \ {r} : request'[q] = request[q]
BY DEF EntryInvariant, EntryShape

\* What a step of one request does to the numbers.
LEMMA Counted ==
    ASSUME EntryInvariant, NEW r \in Requests, NEW row \in RequestRows,
           request' = [request EXCEPT ![r] = row], NEW U
    PROVE  Number(U)' = Number(U) + (IF row.at \in U THEN 1 ELSE 0)
                                  - (IF request[r].at \in U THEN 1 ELSE 0)
<1>1. request'[r] = row /\ \A q \in Requests \ {r} : request'[q] = request[q]
  BY Move
<1>2. PICK S, T : S = With(U) /\ T = With(U)'
  OBVIOUS
<1>3. S \in SUBSET Requests /\ (r \in S <=> request[r].at \in U) /\ Cardinality(S) \in Nat
  BY <1>2, Subsets DEF With
<1>4. T = IF row.at \in U THEN S \cup {r} ELSE S \ {r}
  BY <1>1, <1>2 DEF With
<1>5. Number(U) = Cardinality(S) /\ Number(U)' = Cardinality(T)
  BY <1>2 DEF Number
<1>6. CASE row.at \in U /\ r \in S
  BY <1>3, <1>4, <1>5, <1>6
<1>7. CASE row.at \in U /\ r \notin S
  BY <1>3, <1>4, <1>5, <1>7, Subsets
<1>8. CASE row.at \notin U /\ r \in S
  BY <1>3, <1>4, <1>5, <1>8, Subsets
<1>9. CASE row.at \notin U /\ r \notin S
  <2>1. T = S
    BY <1>4, <1>9
  <2> QED BY <1>3, <1>5, <1>9, <2>1
<1> QED BY <1>6, <1>7, <1>8, <1>9

\* The shapes of the variables, one by one.
LEMMA Shaped ==
    ASSUME EntryInvariant
    PROVE  /\ mark \in [RequestKeys -> MarkRows] /\ request \in [Requests -> RequestRows]
           /\ expecting \in Int /\ NoCode <= expecting /\ expecting <= mailed
           /\ mailed \in Nat /\ mailed <= MaxSends /\ MaxSends \in Nat
           /\ tries \in Nat \cup {NoCount} /\ sending \in {"no", "yes", "lapsed"}
           /\ guesses \in Nat /\ balance \in Nat
           /\ made \in [RequestKeys -> [1..MaxSends -> Nat]]
           /\ MaxTries \in Nat /\ MaxTries >= 1
BY WithdrawEntryAssumption DEF EntryInvariant, EntryShape, NoCode

\* What the invariant says of one request.
LEMMA RowOf ==
    ASSUME EntryInvariant, NEW r \in Requests
    PROVE  /\ request[r] \in RequestRows
           /\ request[r].at \in Steps /\ request[r].key \in RequestKeys \cup {NoKey}
           /\ request[r].code \in Int /\ request[r].expected \in Int
           /\ NoCode <= request[r].expected /\ request[r].expected <= mailed
           /\ request[r].mailed \in BOOLEAN /\ RequestAgrees(r)
BY Shaped DEF EntryInvariant, RequestRows, RequestAgrees, NoCode, Wrong

\* GoTo changes where the request is, and nothing else of it.
LEMMA Goes ==
    ASSUME EntryInvariant, NEW r \in Requests, NEW step \in Steps, GoTo(r, step)
    PROVE  \E row \in RequestRows :
               /\ request' = [request EXCEPT ![r] = row]
               /\ row.at = step /\ row.key = request[r].key /\ row.code = request[r].code
               /\ row.expected = request[r].expected /\ row.mailed = request[r].mailed
<1>1. PICK row : row = [request[r] EXCEPT !.at = step]
  OBVIOUS
<1>2. /\ row \in RequestRows /\ row.at = step /\ row.key = request[r].key
      /\ row.code = request[r].code /\ row.expected = request[r].expected
      /\ row.mailed = request[r].mailed
  BY <1>1, RowOf DEF RequestRows
<1>3. request' = [request EXCEPT ![r] = row]
  BY <1>1, Shaped DEF GoTo
<1> QED BY <1>2, <1>3

\* What is left to show of a step of a request on its code.
LEMMA Inside ==
    ASSUME EntryInvariant, NEW r \in Requests, NEW row \in RequestRows,
           request' = [request EXCEPT ![r] = row], UNCHANGED <<mark, made, mailed, balance>>,
           expecting' \in {expecting, NoCode}, tries' \in Nat \cup {NoCount}, guesses' \in Nat,
           sending' = sending, ~At(r, "idle"), row.key = request[r].key, row.code = request[r].code,
           row.expected <= mailed, row.at # "answer",
           row.at \in {"tries", "compare"} => row.expected # NoCode,
           row.at \in {"consume", "clear", "debit"} => row.code \in MailedCodes,
           Number({"clear", "debit"})' + (IF expecting' # NoCode THEN 1 ELSE 0)
               <= Number({"clear", "debit"}) + (IF expecting # NoCode THEN 1 ELSE 0),
           FewClear', GuessesLeft'
    PROVE  EntryInvariant'
<1>1. /\ request' \in [Requests -> RequestRows] /\ request'[r] = row
      /\ \A q \in Requests \ {r} : request'[q] = request[q]
  BY Move
<1>2. EntryShape'
  BY <1>1, Shaped DEF EntryInvariant, EntryShape, NoCode
<1>3. KeptAnswerIsTrue'
  BY DEF EntryInvariant, KeptAnswerIsTrue, MailedCodes
<1>4. \A q \in Requests \ {r} : RequestAgrees(q)'
  BY <1>1 DEF EntryInvariant, RequestAgrees, At, MailedCodes
<1>5. RequestAgrees(r)'
  BY <1>1, RowOf DEF RequestAgrees, At, MailedCodes
<1>6. CodesSpent'
  <2>1. PICK spent, n, u, v, w \in Int :
          /\ spent = Made /\ n = mailed /\ u = Number({"clear", "debit"})
          /\ v = Number({"clear", "debit"})' /\ w \in {0, 1}
          /\ w = (IF expecting # NoCode THEN 1 ELSE 0)
    <3>1. Number({"clear", "debit"}) \in Nat /\ Made \in Nat
      BY NumbersOfRequests, FS_CardinalityType DEF EntryInvariant, CodesSpent, Made
    <3>2. With({"clear", "debit"})' \in SUBSET Requests
      BY DEF With
    <3>3. Number({"clear", "debit"})' \in Nat
      BY <3>2, Subsets DEF Number
    <3> QED BY <3>1, <3>3, Shaped
  <2>2. Withdrawals' = Withdrawals /\ Made' = Made /\ Withdrawn' = Withdrawn
    BY DEF Withdrawals, Made, Withdrawn
  <2>3. Made' + Number({"clear", "debit"})' + (IF expecting' # NoCode THEN 1 ELSE 0) <= mailed'
    BY <2>1, <2>2 DEF EntryInvariant, CodesSpent
  <2> QED BY <2>2, <2>3 DEF EntryInvariant, CodesSpent
<1> QED BY <1>2, <1>3, <1>4, <1>5, <1>6 DEF EntryInvariant

\* Nobody new is about to clear the count.
LEMMA ClearStays ==
    ASSUME EntryInvariant, NEW r \in Requests, NEW row \in RequestRows,
           request' = [request EXCEPT ![r] = row], row.at # "clear",
           expecting' \in {expecting, NoCode}
    PROVE  FewClear' /\ Clearing' = Clearing \ {r}
<1>1. /\ request'[r] = row /\ \A q \in Requests \ {r} : request'[q] = request[q]
  BY Move
<1>2. Clearing' = Clearing \ {r}
  BY <1>1 DEF Clearing, With
<1>3. \A q \in Clearing' : q \in Clearing /\ request'[q] = request[q]
  BY <1>1, <1>2 DEF Clearing, With
<1> QED BY <1>2, <1>3 DEF EntryInvariant, FewClear

\* The numbers after a step of one request, as integers.
LEMMA After ==
    ASSUME EntryInvariant, NEW r \in Requests, NEW row \in RequestRows,
           request' = [request EXCEPT ![r] = row], NEW U
    PROVE  /\ Number(U) \in Nat /\ Number(U) <= All /\ Number(U)' \in Nat /\ Number(U)' <= All
           /\ Number(U)' = Number(U) + (IF row.at \in U THEN 1 ELSE 0)
                                     - (IF request[r].at \in U THEN 1 ELSE 0)
<1>1. With(U)' \in SUBSET Requests
  BY DEF With
<1>2. Number(U)' \in Nat /\ Number(U)' <= All
  BY <1>1, Subsets DEF Number
<1> QED BY <1>2, Counted, NumbersOfRequests

\* What is left before a step.
LEMMA LeftNow ==
    ASSUME EntryInvariant
    PROVE  /\ Run \in Nat /\ Run <= OneRun /\ Starts \in Nat /\ Starts <= Restarts
           /\ Number(Compared) \in Nat /\ Number(Guessed) \in Nat
           /\ Number(Compared) + Number(Guessed) <= All
<1>1. /\ With(Compared) \in SUBSET Requests /\ With(Guessed) \in SUBSET Requests
      /\ With(Compared) \cap With(Guessed) = {}
  BY DEF With, Compared, Guessed
<1>2. Number(Compared) + Number(Guessed) <= All
  BY <1>1, Subsets DEF Number
<1> QED BY <1>2, NumbersOfRequests, RunIsLimited, StartsAreLimited, Shaped DEF Run, Starts

\* What is left after it.
LEMMA LeftNext ==
    ASSUME tries' \in Nat \cup {NoCount}
    PROVE  /\ Run' \in Nat /\ Run' <= OneRun /\ Starts' \in Nat /\ Starts' <= Restarts
           /\ Number(Compared)' \in Nat /\ Number(Guessed)' \in Nat
           /\ Number(Compared)' + Number(Guessed)' <= All
<1>1. /\ With(Compared)' \in SUBSET Requests /\ With(Guessed)' \in SUBSET Requests
      /\ With({"restart"})' \in SUBSET Requests
      /\ With(Compared)' \cap With(Guessed)' = {}
  BY DEF With, Compared, Guessed
<1>2. /\ Number(Compared)' + Number(Guessed)' <= All
      /\ Number(Compared)' \in Nat /\ Number(Guessed)' \in Nat
      /\ Number({"restart"})' \in Nat /\ Number({"restart"})' <= All
  BY <1>1, Subsets DEF Number
<1>3. /\ Run' = RunLeft(tries', Number(Compared)', Number(Guessed)')
      /\ Starts' = StartsLeft(tries', Number({"restart"})', Clearing' # {}, sending')
  BY DEF Run, Starts, RunLeft, StartsLeft, Count, All
<1> QED BY <1>2, <1>3, RunIsLimited, StartsAreLimited

\* A step goes on in the run of guesses or starts the next; or it goes on with those under way
\* once the code is gone.
LEMMA GuessesStay ==
    ASSUME EntryInvariant, tries' \in Nat \cup {NoCount}, guesses' \in Nat,
           \/ expecting # NoCode /\ expecting' # NoCode
              /\ guesses' + Run' <= guesses + Run /\ Starts' <= Starts
           \/ expecting # NoCode /\ expecting' # NoCode
              /\ guesses' <= guesses /\ Starts' + 1 <= Starts
           \/ expecting # NoCode /\ expecting' = NoCode /\ guesses' <= guesses
           \/ expecting = NoCode /\ expecting' = NoCode
              /\ guesses' + Number({"tries", "compare"})'
                    <= guesses + Number({"tries", "compare"})
    PROVE  GuessesLeft'
<1>1. With({"tries", "compare"})' \in SUBSET Requests
  BY DEF With
<1>2. /\ Number({"tries", "compare"})' \in Nat /\ Number({"tries", "compare"})' <= All
      /\ Number({"tries", "compare"}) \in Nat
  BY <1>1, Subsets, NumbersOfRequests DEF Number
<1>3. MostGuesses' = MostGuesses /\ All' = All /\ OneRun' = OneRun
  BY DEF MostGuesses, All, OneRun, Restarts
<1>4. PICK most, k, all, n, m \in Nat :
         /\ most = MostGuesses /\ k = OneRun /\ all = All
         /\ n = Number({"tries", "compare"}) /\ m = Number({"tries", "compare"})' /\ m <= all
  BY <1>2, Limits
<1>5. PICK x, y, a, b, g, h \in Nat :
         /\ x = Run /\ y = Run' /\ a = Starts /\ b = Starts' /\ g = guesses /\ h = guesses'
         /\ x <= k /\ y <= k
  BY <1>4, LeftNow, LeftNext, Shaped
<1>6. CASE expecting # NoCode /\ expecting' # NoCode
  <2>1. g + x + k * a <= most
    BY <1>4, <1>5, <1>6 DEF EntryInvariant, GuessesLeft
  <2>2. h + y + k * b <= most
    <3>0. PICK ka, kb \in Nat : ka = k * a /\ kb = k * b
      BY OneRunLess
    <3>1. CASE h + y <= g + x /\ b <= a
      <4>1. kb <= ka
        BY <3>0, <3>1, OneRunLess
      <4>2. h + y + kb <= most
        BY <2>1, <3>0, <3>1, <4>1
      <4> QED BY <3>0, <4>2
    <3>2. CASE h <= g /\ b + 1 <= a
      <4>1. kb + k <= ka
        BY <3>0, <3>2, OneRunLess
      <4>2. g + x + ka <= most /\ h <= g /\ y <= k
        BY <1>5, <2>1, <3>0, <3>2
      <4>3. h + y + kb <= most
        BY <4>1, <4>2
      <4> QED BY <3>0, <4>3
    <3> QED BY <1>5, <1>6, <3>1, <3>2
  <2> QED BY <1>3, <1>4, <1>5, <1>6, <2>2 DEF GuessesLeft
<1>7. CASE expecting # NoCode /\ expecting' = NoCode
  <2>1. g + x + k * a <= most /\ k * a \in Nat
    BY <1>4, <1>5, <1>7, OneRunLess DEF EntryInvariant, GuessesLeft
  <2>2. h <= g
    BY <1>5, <1>7
  <2>3. h + m <= most + all
    BY <1>4, <1>5, <2>1, <2>2
  <2> QED BY <1>3, <1>4, <1>5, <1>7, <2>3 DEF GuessesLeft
<1>8. CASE expecting = NoCode /\ expecting' = NoCode
  <2>1. g + n <= most + all
    BY <1>4, <1>5, <1>8 DEF EntryInvariant, GuessesLeft
  <2>2. h + m <= g + n
    BY <1>4, <1>5, <1>8
  <2> QED BY <1>3, <1>4, <1>5, <1>8, <2>1, <2>2 DEF GuessesLeft
<1> QED BY <1>6, <1>7, <1>8

\* A request that finds no code is refused; else it expects one that was mailed.
LEMMA KeepsWithReadCode ==
    ASSUME EntryInvariant, NEW r \in Requests, ReadCode(r)
    PROVE  EntryInvariant'
<1>1. /\ At(r, "code") /\ UNCHANGED <<mark, expecting, tries, sending, guesses, mailed, made, balance>>
      /\ expecting = NoCode => GoTo(r, "refused")
  BY DEF ReadCode, cache, GoTo
<1>2. PICK row \in RequestRows :
         /\ request' = [request EXCEPT ![r] = row]
         /\ row.key = request[r].key /\ row.code = request[r].code
         /\ row.mailed = request[r].mailed /\ row.expected <= mailed
         /\ IF expecting = NoCode THEN row.at = "refused"
            ELSE row.at = "tries" /\ row.expected # NoCode
  <2>1. CASE expecting = NoCode
    BY <1>1, <2>1, Goes, RowOf DEF Steps
  <2>2. CASE expecting # NoCode
    <3>1. PICK row : row = [request[r] EXCEPT !.at = "tries", !.expected = expecting]
      OBVIOUS
    <3>2. expecting \in NoCode..MaxSends
      BY Shaped DEF NoCode
    <3>3. /\ row \in RequestRows /\ row.at = "tries" /\ row.expected = expecting
          /\ row.key = request[r].key /\ row.code = request[r].code
          /\ row.mailed = request[r].mailed
      BY <3>1, <3>2, RowOf DEF RequestRows, Steps, CheckSteps
    <3>4. request' = [request EXCEPT ![r] = row]
      BY <2>2, <3>1, Shaped DEF ReadCode
    <3> QED BY <2>2, <3>3, <3>4, Shaped
  <2> QED BY <2>1, <2>2
<1>3. FewClear' /\ Clearing' = Clearing
  BY <1>1, <1>2, ClearStays DEF Clearing, With, At
<1>4. /\ Number({"clear", "debit"})' = Number({"clear", "debit"})
      /\ Run' = Run /\ Starts' = Starts
      /\ expecting = NoCode => Number({"tries", "compare"})' = Number({"tries", "compare"})
  <2>1. ASSUME NEW U PROVE /\ Number(U)' = Number(U) + (IF row.at \in U THEN 1 ELSE 0)
                                                     - (IF request[r].at \in U THEN 1 ELSE 0)
                           /\ Number(U) \in Nat
    BY <1>2, After
  <2>2. Number({"clear", "debit"})' = Number({"clear", "debit"})
    BY <1>1, <1>2, <2>1 DEF At
  <2>3. Number(Compared)' = Number(Compared)
    BY <1>1, <1>2, <2>1 DEF At, Compared
  <2>4. Number(Guessed)' = Number(Guessed)
    BY <1>1, <1>2, <2>1 DEF At, Guessed
  <2>5. Number({"restart"})' = Number({"restart"})
    BY <1>1, <1>2, <2>1 DEF At
  <2>6. expecting = NoCode => Number({"tries", "compare"})' = Number({"tries", "compare"})
    BY <1>1, <1>2, <2>1 DEF At
  <2> QED BY <1>1, <1>3, <2>2, <2>3, <2>4, <2>5, <2>6 DEF Run, Starts, RunLeft, StartsLeft, Count, All
<1>5. GuessesLeft'
  BY <1>1, <1>4, GuessesStay, LeftNow, NumbersOfRequests, Shaped
<1>6. Number({"clear", "debit"})' + (IF expecting' # NoCode THEN 1 ELSE 0)
         <= Number({"clear", "debit"}) + (IF expecting # NoCode THEN 1 ELSE 0)
  BY <1>1, <1>4, NumbersOfRequests
<1>7. /\ ~At(r, "idle") /\ tries' \in Nat \cup {NoCount} /\ guesses' \in Nat /\ row.at # "answer"
      /\ row.at \in {"tries", "compare"} => row.expected # NoCode
      /\ row.at \notin {"consume", "clear", "debit"}
  BY <1>1, <1>2, Shaped DEF At
<1> QED BY <1>1, <1>2, <1>3, <1>5, <1>6, <1>7, Inside

\* A request that goes on to compare has seen a count below the limit.
LEMMA KeepsWithReadTries ==
    ASSUME EntryInvariant, NEW r \in Requests, ReadTries(r)
    PROVE  EntryInvariant'
<1> DEFINE full == CountedTries >= MaxTries
<1>1. /\ At(r, "tries") /\ UNCHANGED <<mark, tries, sending, guesses, mailed, made, balance>>
      /\ IF full THEN expecting' = NoCode /\ GoTo(r, "refused")
         ELSE expecting' = expecting /\ GoTo(r, "compare")
  BY DEF ReadTries, GoTo
<1>2. PICK row \in RequestRows :
         /\ request' = [request EXCEPT ![r] = row]
         /\ row.key = request[r].key /\ row.code = request[r].code
         /\ row.mailed = request[r].mailed /\ row.expected = request[r].expected
         /\ row.at = IF full THEN "refused" ELSE "compare"
  <2>1. CASE full
    BY <1>1, <2>1, Goes DEF Steps, CheckSteps
  <2>2. CASE ~full
    BY <1>1, <2>2, Goes DEF Steps, CheckSteps
  <2> QED BY <2>1, <2>2
<1>3. FewClear' /\ Clearing' = Clearing
  BY <1>1, <1>2, ClearStays DEF Clearing, With, At
<1> HIDE DEF full
<1>4. /\ Number({"clear", "debit"})' = Number({"clear", "debit"})
      /\ ~full => Run' = Run /\ Starts' = Starts
      /\ Number({"tries", "compare"})' <= Number({"tries", "compare"})
  <2>1. ASSUME NEW U PROVE /\ Number(U)' = Number(U) + (IF row.at \in U THEN 1 ELSE 0)
                                                     - (IF request[r].at \in U THEN 1 ELSE 0)
                           /\ Number(U) \in Nat /\ Number(U)' \in Nat
    BY <1>2, After
  <2>2. Number({"clear", "debit"})' = Number({"clear", "debit"})
    BY <1>1, <1>2, <2>1 DEF At
  <2>3. Number(Guessed)' = Number(Guessed)
    BY <1>1, <1>2, <2>1 DEF At, Guessed
  <2>4. Number({"restart"})' = Number({"restart"})
    BY <1>1, <1>2, <2>1 DEF At
  <2>5. Number({"tries", "compare"})' <= Number({"tries", "compare"})
    BY <1>1, <1>2, <2>1 DEF At
  <2>6. ~full => ~(Count(tries) >= MaxTries)
    BY DEF full, CountedTries, Count
  <2> QED BY <1>1, <1>3, <2>2, <2>3, <2>4, <2>5, <2>6 DEF Run, Starts, RunLeft, StartsLeft, Count, All
<1>5. GuessesLeft'
  <2>1. /\ tries' \in Nat \cup {NoCount} /\ guesses' = guesses /\ guesses \in Nat
        /\ Number({"tries", "compare"})' \in Nat /\ Number({"tries", "compare"}) \in Nat
    BY <1>1, <1>2, After, Shaped
  <2>2. guesses' + Number({"tries", "compare"})' <= guesses + Number({"tries", "compare"})
    BY <1>4, <2>1
  <2>3. CASE full
    BY <1>1, <2>1, <2>2, <2>3, GuessesStay
  <2>4. CASE ~full
    <3>1. guesses' + Run' <= guesses + Run /\ Starts' <= Starts
      BY <1>4, <2>1, <2>4, LeftNow
    <3> QED BY <1>1, <2>1, <2>2, <2>4, <3>1, GuessesStay
  <2> QED BY <2>3, <2>4
<1>6. Number({"clear", "debit"})' + (IF expecting' # NoCode THEN 1 ELSE 0)
         <= Number({"clear", "debit"}) + (IF expecting # NoCode THEN 1 ELSE 0)
  BY <1>1, <1>4, NumbersOfRequests
<1>7. /\ ~At(r, "idle") /\ tries' \in Nat \cup {NoCount} /\ guesses' \in Nat /\ row.at # "answer"
      /\ row.expected # NoCode /\ row.expected <= mailed
      /\ row.at \notin {"consume", "clear", "debit"} /\ expecting' \in {expecting, NoCode}
  BY <1>1, <1>2, RowOf, Shaped DEF At, RequestAgrees
<1> QED BY <1>1, <1>2, <1>3, <1>5, <1>6, <1>7, Inside

\* A guess under way becomes a guess made, or a request with a mailed code.
LEMMA KeepsWithCompare ==
    ASSUME EntryInvariant, NEW r \in Requests, Compare(r)
    PROVE  EntryInvariant'
<1> DEFINE right == request[r].code = request[r].expected
<1>1. /\ At(r, "compare") /\ UNCHANGED <<mark, expecting, tries, sending, mailed, made, balance>>
      /\ IF right THEN GoTo(r, "consume") /\ guesses' = guesses
         ELSE GoTo(r, "count") /\ guesses' = guesses + 1
  BY DEF Compare, GoTo
<1>2. PICK row \in RequestRows :
         /\ request' = [request EXCEPT ![r] = row]
         /\ row.key = request[r].key /\ row.code = request[r].code
         /\ row.mailed = request[r].mailed /\ row.expected = request[r].expected
         /\ row.at = IF right THEN "consume" ELSE "count"
  <2>1. CASE right
    BY <1>1, <2>1, Goes DEF Steps, CheckSteps
  <2>2. CASE ~right
    BY <1>1, <2>2, Goes DEF Steps, CheckSteps
  <2> QED BY <2>1, <2>2
<1>3. FewClear' /\ Clearing' = Clearing
  BY <1>1, <1>2, ClearStays DEF Clearing, With, At
<1>4. PICK one \in {0, 1} : one = (IF right THEN 0 ELSE 1)
  OBVIOUS
<1>5. /\ Number({"clear", "debit"})' = Number({"clear", "debit"})
      /\ Number({"tries", "compare"})' = Number({"tries", "compare"}) - 1
      /\ Run' + one <= Run /\ Starts' = Starts
  <2>1. ASSUME NEW U PROVE /\ Number(U)' = Number(U) + (IF row.at \in U THEN 1 ELSE 0)
                                                     - (IF request[r].at \in U THEN 1 ELSE 0)
                           /\ Number(U) \in Nat /\ Number(U)' \in Nat
    BY <1>2, After
  <2>2. Number({"clear", "debit"})' = Number({"clear", "debit"})
    BY <1>1, <1>2, <2>1 DEF At
  <2>3. Number({"tries", "compare"})' = Number({"tries", "compare"}) - 1
    BY <1>1, <1>2, <2>1 DEF At
  <2>4. Number(Compared)' = Number(Compared) - 1
    BY <1>1, <1>2, <2>1 DEF At, Compared
  <2>5. Number(Guessed)' = Number(Guessed) + one
    BY <1>1, <1>2, <1>4, <2>1 DEF At, Guessed
  <2>6. Number({"restart"})' = Number({"restart"})
    BY <1>1, <1>2, <2>1 DEF At
  <2>7. Starts' = Starts
    BY <1>1, <1>3, <2>6 DEF Starts, StartsLeft, All
  <2>8. PICK c, g \in Nat : c = Number(Compared) /\ g = Number(Guessed)
    BY <2>1
  <2>9. Run = RunLeft(tries, c, g) /\ Run' = RunLeft(tries, c - 1, g + one)
    BY <1>1, <2>4, <2>5, <2>8 DEF Run, RunLeft, Count, All
  <2>10. Count(tries) \in Nat
    BY Shaped DEF Count, NoCount
  <2> QED BY <1>4, <2>2, <2>3, <2>7, <2>8, <2>9, <2>10, Limits DEF RunLeft
<1>6. GuessesLeft'
  <2>1. guesses' = guesses + one
    BY <1>1, <1>4, Shaped
  <2>2. guesses' \in Nat /\ tries' \in Nat \cup {NoCount}
    BY <1>1, <1>4, <2>1, Shaped
  <2>3. guesses' + Run' <= guesses + Run /\ Starts' <= Starts
    <3>1. PICK x, y, a, g \in Nat : x = Run /\ y = Run' /\ a = Starts /\ g = guesses
      BY <2>2, LeftNow, LeftNext, Shaped
    <3>2. y + one <= x /\ guesses' = g + one /\ Starts' = a
      BY <1>5, <2>1, <3>1
    <3>3. g + one + y <= g + x /\ a <= a
      BY <3>2
    <3> QED BY <3>1, <3>2, <3>3
  <2>4. guesses' + Number({"tries", "compare"})' <= guesses + Number({"tries", "compare"})
    BY <1>4, <1>5, <2>1, NumbersOfRequests, Shaped
  <2> QED BY <1>1, <2>2, <2>3, <2>4, GuessesStay
<1>7. Number({"clear", "debit"})' + (IF expecting' # NoCode THEN 1 ELSE 0)
         <= Number({"clear", "debit"}) + (IF expecting # NoCode THEN 1 ELSE 0)
  BY <1>1, <1>5, NumbersOfRequests
<1>8. /\ ~At(r, "idle") /\ tries' \in Nat \cup {NoCount} /\ guesses' \in Nat /\ row.at # "answer"
      /\ row.expected <= mailed /\ row.at \notin {"tries", "compare", "clear", "debit"}
      /\ expecting' \in {expecting, NoCode}
  BY <1>1, <1>2, RowOf, Shaped DEF At
<1>9. row.at \in {"consume", "clear", "debit"} => row.code \in MailedCodes
  <2>1. request[r].expected # NoCode
    BY <1>1, RowOf DEF RequestAgrees, At
  <2>2. right => request[r].code \in MailedCodes
    BY <2>1, RowOf, Shaped DEF MailedCodes, NoCode
  <2> QED BY <1>2, <2>2
<1> QED BY <1>1, <1>2, <1>3, <1>6, <1>7, <1>8, <1>9, Inside

\* What is left to show of a step of a request that counts its guess.
LEMMA WhileCounting ==
    ASSUME EntryInvariant, NEW r \in Requests, request[r].at \in Guessed,
           NEW step \in Guessed \cup {"refused"}, GoTo(r, step),
           UNCHANGED <<mark, expecting, sending, guesses, mailed, made, balance>>,
           tries' \in Nat \cup {NoCount},
           expecting # NoCode => \/ Run' <= Run /\ Starts' <= Starts
                                 \/ Starts' + 1 <= Starts
    PROVE  EntryInvariant'
<1>1. PICK row \in RequestRows :
         /\ request' = [request EXCEPT ![r] = row] /\ row.at = step
         /\ row.key = request[r].key /\ row.code = request[r].code
         /\ row.mailed = request[r].mailed /\ row.expected = request[r].expected
  BY Goes DEF Guessed, Steps, CheckSteps
<1>2. FewClear'
  BY <1>1, ClearStays DEF Guessed
<1>3. /\ Number({"clear", "debit"})' = Number({"clear", "debit"})
      /\ Number({"tries", "compare"})' = Number({"tries", "compare"})
  <2>1. ASSUME NEW U PROVE /\ Number(U)' = Number(U) + (IF row.at \in U THEN 1 ELSE 0)
                                                     - (IF request[r].at \in U THEN 1 ELSE 0)
                           /\ Number(U) \in Nat
    BY <1>1, After
  <2>2. Number({"clear", "debit"})' = Number({"clear", "debit"})
    BY <1>1, <2>1 DEF Guessed
  <2>3. Number({"tries", "compare"})' = Number({"tries", "compare"})
    BY <1>1, <2>1 DEF Guessed
  <2> QED BY <2>2, <2>3
<1>4. GuessesLeft'
  BY <1>3, GuessesStay, LeftNow, LeftNext, NumbersOfRequests, Shaped
<1>5. Number({"clear", "debit"})' + (IF expecting' # NoCode THEN 1 ELSE 0)
         <= Number({"clear", "debit"}) + (IF expecting # NoCode THEN 1 ELSE 0)
  BY <1>3, NumbersOfRequests
<1>6. /\ ~At(r, "idle") /\ row.at # "answer" /\ row.expected <= mailed /\ guesses' \in Nat
      /\ row.at \notin {"tries", "compare", "consume", "clear", "debit"}
  BY <1>1, RowOf, Shaped DEF At, Guessed
<1> QED BY <1>1, <1>2, <1>4, <1>5, <1>6, Inside

\* What a step of a request that counts its guess does to the numbers of those left.
LEMMA CountingNumbers ==
    ASSUME EntryInvariant, NEW r \in Requests, request[r].at \in Guessed,
           NEW step \in Guessed \cup {"refused"}, GoTo(r, step)
    PROVE  /\ Clearing' = Clearing
           /\ Number(Compared)' = Number(Compared)
           /\ Number(Guessed)' = Number(Guessed) - (IF step = "refused" THEN 1 ELSE 0)
           /\ Number({"restart"})' = Number({"restart"}) + (IF step = "restart" THEN 1 ELSE 0)
                                         - (IF At(r, "restart") THEN 1 ELSE 0)
           /\ Number({"restart"}) \in Nat /\ Number({"restart"}) <= All
           /\ Number({"restart"})' \in Nat /\ Number({"restart"})' <= All
<1>1. PICK row \in RequestRows : request' = [request EXCEPT ![r] = row] /\ row.at = step
  BY Goes DEF Guessed, Steps, CheckSteps
<1>2. ASSUME NEW U PROVE /\ Number(U)' = Number(U) + (IF row.at \in U THEN 1 ELSE 0)
                                                   - (IF request[r].at \in U THEN 1 ELSE 0)
                         /\ Number(U) \in Nat /\ Number(U)' \in Nat
                         /\ Number(U) <= All /\ Number(U)' <= All
  BY <1>1, After
<1>3. Clearing' = Clearing
  <2>1. request'[r] = row /\ \A q \in Requests \ {r} : request'[q] = request[q]
    BY <1>1, Move
  <2> QED BY <1>1, <2>1 DEF Clearing, With, Guessed
<1>4. Number(Compared)' = Number(Compared)
  BY <1>1, <1>2 DEF Compared, Guessed
<1>5. Number(Guessed)' = Number(Guessed) - (IF step = "refused" THEN 1 ELSE 0)
  BY <1>1, <1>2 DEF Guessed
<1>6. Number({"restart"})' = Number({"restart"}) + (IF step = "restart" THEN 1 ELSE 0)
                                 - (IF At(r, "restart") THEN 1 ELSE 0)
  BY <1>1, <1>2 DEF At
<1> QED BY <1>2, <1>3, <1>4, <1>5, <1>6

\* A request that finds no count was one of those that may find none.
LEMMA KeepsWithFindTries ==
    ASSUME EntryInvariant, NEW r \in Requests, FindTries(r)
    PROVE  EntryInvariant'
<1>1. PICK step \in {"add", "restart"} :
         /\ GoTo(r, step) /\ (step = "restart" <=> tries = NoCount)
         /\ At(r, "count") /\ UNCHANGED <<mark, cache, mailed, made, balance>>
  BY DEF FindTries, GoTo
<1>2. Run' = Run /\ Starts' = Starts
  <2>1. /\ Clearing' = Clearing /\ Number(Compared)' = Number(Compared)
        /\ Number(Guessed)' = Number(Guessed) - 0
        /\ tries # NoCount => Number({"restart"})' = Number({"restart"}) + 0 - 0
        /\ Number({"restart"}) \in Nat
    BY <1>1, CountingNumbers DEF Guessed, At
  <2>2. Number(Guessed) \in Nat
    BY LeftNow
  <2> QED BY <1>1, <2>1, <2>2 DEF cache, Run, Starts, RunLeft, StartsLeft, Count, All
<1> QED BY <1>1, <1>2, LeftNow, Shaped, WhileCounting DEF cache, Guessed, At

\* A guess added to the count is no longer under way; a count that lapsed before is one again.
LEMMA KeepsWithAddTry ==
    ASSUME EntryInvariant, NEW r \in Requests, AddTry(r)
    PROVE  EntryInvariant'
<1>1. /\ GoTo(r, "refused") /\ At(r, "add") /\ tries' = CountedTries + 1
      /\ UNCHANGED <<mark, expecting, sending, mailed, guesses, made, balance>>
  BY DEF AddTry, GoTo
<1>2. PICK n \in Nat : n = Count(tries) /\ tries' = n + 1 /\ Count(tries') = n + 1 /\ tries' # NoCount
  BY <1>1, Shaped DEF CountedTries, Count, NoCount
<1>3. /\ Clearing' = Clearing /\ Number(Compared)' = Number(Compared)
      /\ Number(Guessed)' = Number(Guessed) - 1
      /\ Number({"restart"})' = Number({"restart"}) /\ Number({"restart"}) <= All
      /\ Number({"restart"}) \in Nat
  BY <1>1, CountingNumbers DEF Guessed, At
<1>4. Starts' <= Starts
  BY <1>1, <1>2, <1>3, Limits DEF Starts, StartsLeft, All
<1>5. Run' <= Run
  <2>1. PICK c, g \in Nat : c = Number(Compared) /\ g = Number(Guessed) /\ c + g <= All
    BY LeftNow
  <2>2. /\ Run = IF n >= MaxTries THEN c ELSE MaxTries - 1 - n + All - g
        /\ Run' = IF n + 1 >= MaxTries THEN c ELSE MaxTries - 1 - (n + 1) + All - (g - 1)
    BY <1>2, <1>3, <2>1 DEF Run, RunLeft, All
  <2> QED BY <2>1, <2>2, Limits
<1>6. tries' \in Nat \cup {NoCount}
  BY <1>2
<1> QED BY <1>1, <1>4, <1>5, <1>6, WhileCounting DEF Guessed, At

\* A request that found no count sets it to one, and is not among those that may do so again.
LEMMA KeepsWithRestartTries ==
    ASSUME EntryInvariant, NEW r \in Requests, RestartTries(r)
    PROVE  EntryInvariant'
<1>1. /\ GoTo(r, "refused") /\ At(r, "restart") /\ tries' = 1
      /\ UNCHANGED <<mark, expecting, sending, mailed, guesses, made, balance>>
  BY DEF RestartTries, GoTo
<1>2. /\ Clearing' = Clearing
      /\ Number({"restart"})' = Number({"restart"}) - 1 /\ Number({"restart"}) <= All
      /\ Number({"restart"}) \in Nat
  BY <1>1, CountingNumbers DEF Guessed, At
<1>3. Starts' + 1 <= Starts
  BY <1>1, <1>2, Limits DEF Starts, StartsLeft, All, NoCount
<1> QED BY <1>1, <1>3, WhileCounting DEF Guessed, At

\* The code leaves the cache for one request, which will clear the count.
LEMMA KeepsWithConsume ==
    ASSUME EntryInvariant, NEW r \in Requests, Consume(r)
    PROVE  EntryInvariant'
<1>1. /\ At(r, "consume") /\ UNCHANGED <<mark, tries, sending, guesses, mailed, made, balance>>
      /\ expecting' = NoCode
      /\ IF expecting # NoCode THEN GoTo(r, "clear") ELSE GoTo(r, "refused")
  BY DEF Consume, Consumed, GoTo
<1>2. PICK row \in RequestRows :
         /\ request' = [request EXCEPT ![r] = row]
         /\ row.key = request[r].key /\ row.code = request[r].code
         /\ row.mailed = request[r].mailed /\ row.expected = request[r].expected
         /\ row.at = IF expecting # NoCode THEN "clear" ELSE "refused"
  <2>1. CASE expecting # NoCode
    BY <1>1, <2>1, Goes DEF Steps, CheckSteps
  <2>2. CASE expecting = NoCode
    BY <1>1, <2>2, Goes DEF Steps, CheckSteps
  <2> QED BY <2>1, <2>2
<1>3. FewClear'
  <2>1. /\ request'[r] = row /\ \A q \in Requests \ {r} : request'[q] = request[q]
    BY <1>2, Move
  <2>2. CASE expecting # NoCode
    <3>1. \A q \in Clearing : request[q].mailed
      BY <2>2 DEF EntryInvariant, FewClear
    <3>2. \A q \in Clearing' \ {r} : request'[q].mailed
      BY <2>1, <3>1 DEF Clearing, With
    <3> QED BY <1>1, <3>2 DEF FewClear
  <2>3. CASE expecting = NoCode
    BY <1>1, <1>2, <2>3, ClearStays
  <2> QED BY <2>2, <2>3
<1>4. \A U : /\ Number(U)' = Number(U) + (IF row.at \in U THEN 1 ELSE 0)
                                      - (IF request[r].at \in U THEN 1 ELSE 0)
             /\ Number(U) \in Nat
  BY <1>2, After, NumbersOfRequests
<1>5. GuessesLeft'
  <2>1. Number({"tries", "compare"})' = Number({"tries", "compare"})
    BY <1>1, <1>2, <1>4 DEF At
  <2> QED BY <1>1, <2>1, GuessesStay, NumbersOfRequests, Shaped
<1>6. Number({"clear", "debit"})' + (IF expecting' # NoCode THEN 1 ELSE 0)
         <= Number({"clear", "debit"}) + (IF expecting # NoCode THEN 1 ELSE 0)
  <2>1. Number({"clear", "debit"})'
          = Number({"clear", "debit"}) + (IF expecting # NoCode THEN 1 ELSE 0)
    BY <1>1, <1>2, <1>4 DEF At
  <2> QED BY <1>1, <1>4, <2>1
<1>7. /\ ~At(r, "idle") /\ tries' \in Nat \cup {NoCount} /\ guesses' \in Nat /\ row.at # "answer"
      /\ row.expected <= mailed /\ row.at \notin {"tries", "compare"}
      /\ row.code \in MailedCodes
  BY <1>1, <1>2, RowOf, Shaped DEF At, RequestAgrees
<1> QED BY <1>1, <1>2, <1>3, <1>5, <1>6, <1>7, Inside

\* The request that used the code before clears the count, while this code is in the cache once.
LEMMA KeepsWithClear ==
    ASSUME EntryInvariant, NEW r \in Requests, ClearTries(r)
    PROVE  EntryInvariant'
<1>1. /\ At(r, "clear") /\ UNCHANGED <<mark, expecting, sending, guesses, mailed, made, balance>>
      /\ tries' = NoCount /\ GoTo(r, "debit")
  BY DEF ClearTries, GoTo
<1>2. PICK row \in RequestRows :
         /\ request' = [request EXCEPT ![r] = row] /\ row.at = "debit"
         /\ row.key = request[r].key /\ row.code = request[r].code
         /\ row.mailed = request[r].mailed /\ row.expected = request[r].expected
  BY <1>1, Goes DEF Steps, CheckSteps
<1>3. FewClear' /\ Clearing' = Clearing \ {r}
  BY <1>1, <1>2, ClearStays
<1>4. \A U : /\ Number(U)' = Number(U) + (IF row.at \in U THEN 1 ELSE 0)
                                      - (IF request[r].at \in U THEN 1 ELSE 0)
             /\ Number(U) \in Nat
  BY <1>2, After, NumbersOfRequests
<1>5. /\ Number({"tries", "compare"})' = Number({"tries", "compare"})
      /\ Number({"restart"})' = Number({"restart"})
      /\ Number({"clear", "debit"})' = Number({"clear", "debit"})
  <2>1. Number({"tries", "compare"})' = Number({"tries", "compare"})
    BY <1>1, <1>2, <1>4 DEF At
  <2>2. Number({"restart"})' = Number({"restart"})
    BY <1>1, <1>2, <1>4 DEF At
  <2>3. Number({"clear", "debit"})' = Number({"clear", "debit"})
    BY <1>1, <1>2, <1>4 DEF At
  <2> QED BY <2>1, <2>2, <2>3
<1>6. Clearing # {} /\ (expecting # NoCode => Clearing' = {})
  BY <1>1, <1>3 DEF Clearing, With, At, EntryInvariant, FewClear
<1>7. GuessesLeft'
  <2>1. Number({"restart"}) \in Nat /\ Number({"restart"}) <= All
    BY NumbersOfRequests
  <2>2. expecting # NoCode => Starts' + 1 <= Starts
    BY <1>1, <1>5, <1>6, <2>1, Limits DEF Starts, StartsLeft, All
  <2> QED BY <1>1, <1>5, <2>2, GuessesStay, NumbersOfRequests, Shaped
<1>8. Number({"clear", "debit"})' + (IF expecting' # NoCode THEN 1 ELSE 0)
         <= Number({"clear", "debit"}) + (IF expecting # NoCode THEN 1 ELSE 0)
  BY <1>1, <1>4, <1>5
<1>9. /\ ~At(r, "idle") /\ tries' \in Nat \cup {NoCount} /\ guesses' \in Nat /\ row.at # "answer"
      /\ row.expected <= mailed /\ row.at \notin {"tries", "compare"}
      /\ row.code \in MailedCodes
  BY <1>1, <1>2, RowOf, Shaped DEF At, RequestAgrees
<1> QED BY <1>1, <1>2, <1>3, <1>7, <1>8, <1>9, Inside

\* Without a code in the cache, only the requests under way guess.
LEMMA KeepsWithCodeExpires ==
    ASSUME EntryInvariant, CodeExpires
    PROVE  EntryInvariant'
<1> USE DEF CodeExpires
<1>1. EntryShape' /\ KeptAnswerIsTrue'
  BY Shaped DEF EntryInvariant, EntryShape, KeptAnswerIsTrue, MailedCodes, NoCode
<1>2. \A r \in Requests : RequestAgrees(r)'
  BY DEF EntryInvariant, RequestAgrees, At, MailedCodes
<1>3. Clearing' = Clearing /\ \A U : Number(U)' = Number(U)
  BY DEF Clearing, With, Number
<1>4. CodesSpent'
  <2>1. Number({"clear", "debit"}) \in Nat /\ Made \in Nat
    BY NumbersOfRequests, FS_CardinalityType DEF EntryInvariant, CodesSpent, Made
  <2>2. Withdrawals' = Withdrawals /\ Made' = Made /\ Withdrawn' = Withdrawn
    BY DEF Withdrawals, Made, Withdrawn
  <2>3. Made + Number({"clear", "debit"}) + 1 <= mailed
    BY DEF EntryInvariant, CodesSpent
  <2>4. Made + Number({"clear", "debit"}) + 0 <= mailed
    BY <2>1, <2>3, Shaped
  <2>5. Made' + Number({"clear", "debit"})' + (IF expecting' # NoCode THEN 1 ELSE 0) <= mailed'
    BY <1>3, <2>2, <2>4
  <2> QED BY <2>2, <2>5 DEF EntryInvariant, CodesSpent
<1>5. FewClear'
  BY <1>3 DEF EntryInvariant, FewClear
<1>6. GuessesLeft'
  BY <1>3, GuessesStay, NumbersOfRequests, Shaped
<1> QED BY <1>1, <1>2, <1>4, <1>5, <1>6 DEF EntryInvariant

\* A new code: no guesses yet, and one more mail than before.
LEMMA KeepsWithSendCode ==
    ASSUME EntryInvariant, SendCode
    PROVE  EntryInvariant'
<1> USE DEF SendCode
<1>1. /\ request' \in [Requests -> RequestRows]
      /\ \A r \in Requests :
            /\ request'[r].at = request[r].at /\ request'[r].key = request[r].key
            /\ request'[r].code = request[r].code /\ request'[r].expected = request[r].expected
            /\ At(r, "clear") => request'[r].mailed /\ ~request[r].mailed
  <2>1. ASSUME NEW r \in Requests
        PROVE  /\ request'[r] \in RequestRows
               /\ request'[r].at = request[r].at /\ request'[r].key = request[r].key
               /\ request'[r].code = request[r].code /\ request'[r].expected = request[r].expected
               /\ At(r, "clear") => request'[r].mailed /\ ~request[r].mailed
    <3>1. PICK row : row = [request[r] EXCEPT !.mailed = TRUE]
      OBVIOUS
    <3>2. /\ row \in RequestRows /\ row.at = request[r].at /\ row.key = request[r].key
          /\ row.code = request[r].code /\ row.expected = request[r].expected /\ row.mailed
      BY <3>1, RowOf DEF RequestRows
    <3>3. request'[r] = IF Checking(r) THEN row ELSE request[r]
      BY <3>1
    <3>4. At(r, "clear") => Checking(r) /\ ~request[r].mailed
      BY DEF At, Checking, CheckSteps, MayMail
    <3> QED BY <3>2, <3>3, <3>4, RowOf
  <2> QED BY <2>1
<1>2. mailed' = mailed + 1 /\ mailed' <= MaxSends /\ mailed \in Nat /\ MaxSends \in Nat
  <2>1. mailed < MaxSends
    OBVIOUS
  <2> QED BY <2>1, Shaped
<1>3. EntryShape'
  BY <1>1, <1>2, Shaped DEF EntryShape, NoCode
<1>4. KeptAnswerIsTrue'
  BY <1>2 DEF EntryInvariant, KeptAnswerIsTrue, MailedCodes
<1>5. ASSUME NEW r \in Requests PROVE RequestAgrees(r)'
  BY <1>1, <1>2, RowOf DEF RequestAgrees, At, MailedCodes
<1>6. \A U : With(U)' = With(U) /\ Number(U)' = Number(U)
  BY <1>1 DEF With, Number
<1>7. CodesSpent'
  <2>1. PICK spent, n, u \in Nat : spent = Made /\ n = mailed /\ u = Number({"clear", "debit"})
    BY NumbersOfRequests, Shaped, FS_CardinalityType DEF EntryInvariant, CodesSpent, Made
  <2>2. Withdrawals' = Withdrawals /\ Made' = Made /\ Withdrawn' = Withdrawn
    BY DEF Withdrawals, Made, Withdrawn
  <2>3. spent + u <= n
    BY <2>1 DEF EntryInvariant, CodesSpent
  <2>4. spent + u + (IF expecting' # NoCode THEN 1 ELSE 0) <= n + 1
    BY <2>1, <2>3
  <2>5. Made' + Number({"clear", "debit"})' + (IF expecting' # NoCode THEN 1 ELSE 0) <= mailed'
    BY <1>6, <2>1, <2>2, <2>4
  <2> QED BY <2>2, <2>5 DEF EntryInvariant, CodesSpent
<1>8. /\ Clearing' = Clearing
      /\ \A q \in Clearing : q \in Requests /\ request'[q].mailed /\ ~request[q].mailed
  BY <1>1, <1>6 DEF Clearing, With, At
<1>9. FewClear'
  BY <1>8 DEF EntryInvariant, FewClear
<1>10. GuessesLeft'
  <2>1. expecting' # NoCode /\ guesses' = 0
    BY <1>2 DEF NoCode
  <2>2. /\ Run' \in Nat /\ Run' <= OneRun /\ Starts' \in Nat /\ Starts' <= Restarts
    BY Shaped, LeftNext
  <2>3. OneRun * Starts' <= OneRun * Restarts /\ OneRun * Starts' \in Nat /\ OneRun * Restarts \in Nat
    BY <2>2, Limits, OneRunLess
  <2>4. OneRun * (Restarts + 1) = OneRun * Restarts + OneRun
    BY Limits
  <2>5. MostGuesses' = OneRun * (Restarts + 1) /\ OneRun' = OneRun
    BY DEF MostGuesses, OneRun, Restarts
  <2>6. 0 + Run' + OneRun * Starts' <= OneRun * (Restarts + 1)
    BY <2>2, <2>3, <2>4, Limits
  <2> QED BY <2>1, <2>5, <2>6 DEF GuessesLeft
<1> QED BY <1>3, <1>4, <1>5, <1>7, <1>9, <1>10 DEF EntryInvariant

\* What is left to show of a step that only touches the count.
LEMMA OnlyTheCount ==
    ASSUME EntryInvariant, UNCHANGED <<mark, request, expecting, mailed, guesses, made, balance>>,
           tries' \in Nat \cup {NoCount}, sending' \in {"no", "yes", "lapsed"},
           expecting # NoCode => Starts' + 1 <= Starts
    PROVE  EntryInvariant'
<1>1. EntryShape' /\ KeptAnswerIsTrue'
  BY DEF EntryInvariant, EntryShape, KeptAnswerIsTrue, MailedCodes
<1>2. \A r \in Requests : RequestAgrees(r)'
  BY DEF EntryInvariant, RequestAgrees, At, MailedCodes
<1>3. Clearing' = Clearing /\ \A U : Number(U)' = Number(U)
  BY DEF Clearing, With, Number
<1>4. CodesSpent'
  <2>1. Withdrawals' = Withdrawals /\ Made' = Made /\ Withdrawn' = Withdrawn
    BY DEF Withdrawals, Made, Withdrawn
  <2> QED BY <1>3, <2>1 DEF EntryInvariant, CodesSpent
<1>5. FewClear'
  BY <1>3 DEF EntryInvariant, FewClear
<1>6. GuessesLeft'
  BY <1>3, GuessesStay, NumbersOfRequests, Shaped
<1> QED BY <1>1, <1>2, <1>4, <1>5, <1>6 DEF EntryInvariant

\* The mail sets the count.
LEMMA KeepsWithZeroTries ==
    ASSUME EntryInvariant, ZeroTries
    PROVE  EntryInvariant'
<1> USE DEF ZeroTries
<1>1. Clearing' = Clearing /\ Number({"restart"})' = Number({"restart"})
  BY DEF Clearing, With, Number
<1>2. Number({"restart"}) \in Nat /\ Number({"restart"}) <= All
  BY NumbersOfRequests
<1>3. Starts' + 1 <= Starts
  <2>1. PICK s, n \in Nat, clears \in BOOLEAN :
          s = Number({"restart"}) /\ n = All /\ s <= n /\ clears = (Clearing # {})
    BY <1>2, Limits
  <2>2. /\ Starts = StartsLeft(tries, s, clears, sending)
        /\ Starts' = StartsLeft(0, s, clears, "no")
    BY <1>1, <2>1 DEF Starts, StartsLeft, All
  <2>3. sending = "yes" \/ sending = "lapsed"
    BY Shaped
  <2> QED BY <2>1, <2>2, <2>3 DEF StartsLeft, NoCount
<1>4. tries' \in Nat \cup {NoCount} /\ sending' \in {"no", "yes", "lapsed"}
  OBVIOUS
<1> QED BY <1>3, <1>4, OnlyTheCount

\* While the mail has still to set it, the count before may lapse once.
LEMMA KeepsWithTriesExpire ==
    ASSUME EntryInvariant, TriesExpire
    PROVE  EntryInvariant'
<1> USE DEF TriesExpire
<1>1. Clearing' = Clearing /\ Number({"restart"})' = Number({"restart"})
  BY DEF Clearing, With, Number
<1>2. Number({"restart"}) \in Nat /\ Number({"restart"}) <= All
  BY NumbersOfRequests
<1>3. ASSUME expecting # NoCode PROVE Starts' + 1 <= Starts
  <2>1. PICK s, n \in Nat, clears \in BOOLEAN :
          s = Number({"restart"}) /\ n = All /\ s <= n /\ clears = (Clearing # {})
    BY <1>2, Limits
  <2>2. /\ Starts = StartsLeft(tries, s, clears, "yes")
        /\ Starts' = StartsLeft(NoCount, s, clears, "lapsed")
    BY <1>1, <1>3, <2>1 DEF Starts, StartsLeft, All
  <2> QED BY <2>1, <2>2 DEF StartsLeft, NoCount
<1>4. sending' \in {"no", "yes", "lapsed"}
  BY Shaped
<1> QED BY <1>3, <1>4, OnlyTheCount

\* What is left to show of a step that does not touch the check of a code.
LEMMA Outside ==
    ASSUME EntryInvariant, NEW r \in Requests, NEW row \in RequestRows,
           request' = [request EXCEPT ![r] = row], UNCHANGED <<cache, mailed, made, balance>>,
           mark' \in [RequestKeys -> MarkRows], KeptAnswerIsTrue',
           request[r].at \in {"idle", "answer", "refused"},
           row.at \in {"code", "idle"}, row.at = "idle" \/ row.key \in RequestKeys,
           row.code <= mailed, row.expected <= mailed
    PROVE  EntryInvariant'
<1> USE DEF cache
<1>1. /\ request' \in [Requests -> RequestRows] /\ request'[r] = row
      /\ \A q \in Requests \ {r} : request'[q] = request[q]
  BY Move
<1>2. EntryShape'
  BY <1>1, Shaped DEF EntryInvariant, EntryShape
<1>3. \A q \in Requests \ {r} : RequestAgrees(q)'
  BY <1>1 DEF EntryInvariant, RequestAgrees, At, MailedCodes
<1>4. RequestAgrees(r)'
  BY <1>1 DEF RequestAgrees, At, MailedCodes
<1>5. /\ With({"clear", "debit"})' = With({"clear", "debit"})
      /\ With({"tries", "compare"})' = With({"tries", "compare"})
      /\ With(Compared)' = With(Compared) /\ With(Guessed)' = With(Guessed)
      /\ With({"restart"})' = With({"restart"}) /\ With({"clear"})' = With({"clear"})
  BY <1>1 DEF With, Compared, Guessed
<1>6. /\ Number({"clear", "debit"})' = Number({"clear", "debit"})
      /\ Number({"tries", "compare"})' = Number({"tries", "compare"})
      /\ Run' = Run /\ Starts' = Starts
  BY <1>5 DEF Number, Clearing, Run, Starts, RunLeft, StartsLeft, Count, All
<1>7. CodesSpent'
  <2>1. Withdrawals' = Withdrawals /\ Made' = Made /\ Withdrawn' = Withdrawn
    BY DEF Withdrawals, Made, Withdrawn
  <2> QED BY <1>6, <2>1 DEF EntryInvariant, CodesSpent
<1>8. FewClear'
  BY <1>1, ClearStays
<1>9. GuessesLeft'
  BY <1>6, GuessesStay, LeftNow, NumbersOfRequests, Shaped
<1> QED BY <1>2, <1>3, <1>4, <1>7, <1>8, <1>9 DEF EntryInvariant

\* A request enters with any code.
LEMMA KeepsWithEnter ==
    ASSUME EntryInvariant, NEW r \in Requests, NEW k \in RequestKeys,
           NEW c \in MailedCodes \cup {Wrong}, Enter(r, k, c)
    PROVE  EntryInvariant'
<1>1. c \in Wrong..MaxSends /\ c <= mailed
  BY Shaped DEF MailedCodes, Wrong
<1>2. PICK row \in RequestRows :
         /\ request' = [request EXCEPT ![r] = row] /\ row.at = "code" /\ row.key = k
         /\ row.code = c /\ row.expected = NoCode
  <2>1. PICK row : row = [Idle EXCEPT !.at = "code", !.key = k, !.code = c]
    OBVIOUS
  <2>2. NoCode \in NoCode..MaxSends
    BY Shaped DEF NoCode
  <2>3. row \in RequestRows /\ row.at = "code" /\ row.key = k /\ row.code = c /\ row.expected = NoCode
    BY <1>1, <2>1, <2>2 DEF Idle, RequestRows, Steps
  <2> QED BY <2>1, <2>3 DEF Enter
<1>3. PICK m \in MarkRows : mark' = [mark EXCEPT ![k] = m] /\ m.state = "PROCESSING"
  <2>1. PICK m : m = [state |-> "PROCESSING", code |-> c]
    OBVIOUS
  <2>2. m \in MarkRows /\ m.state = "PROCESSING"
    BY <1>1, <2>1 DEF MarkRows
  <2>3. mark' = [mark EXCEPT ![k] = m]
    BY <2>1 DEF Enter
  <2> QED BY <2>2, <2>3
<1>4. /\ mark' \in [RequestKeys -> MarkRows] /\ mark'[k] = m
      /\ \A l \in RequestKeys \ {k} : mark'[l] = mark[l]
  BY <1>3, Shaped
<1>5. KeptAnswerIsTrue'
  BY <1>3, <1>4 DEF Enter, EntryInvariant, KeptAnswerIsTrue, MailedCodes
<1>6. /\ request[r].at = "idle" /\ UNCHANGED <<cache, mailed, made, balance>>
      /\ row.expected <= mailed
  <2>1. request[r].at = "idle" /\ UNCHANGED <<cache, mailed, made, balance>>
    BY DEF Enter, At
  <2>2. row.expected <= mailed
    BY <1>2, Shaped DEF NoCode
  <2> QED BY <2>1, <2>2
<1> QED BY <1>1, <1>2, <1>4, <1>5, <1>6, Outside

\* The answer kept is that of a withdrawal.
LEMMA KeepsWithAnswer ==
    ASSUME EntryInvariant, NEW r \in Requests, Answer(r)
    PROVE  EntryInvariant'
<1>1. PICK k \in RequestKeys : k = request[r].key
  BY RowOf DEF Answer, RequestAgrees, At
<1>2. PICK m \in MarkRows :
         /\ mark' = [mark EXCEPT ![k] = m]
         /\ m.state = "DONE" => m.code \in MailedCodes /\ made[k][m.code] > 0
  <2>1. PICK m : m = IF At(r, "answer") THEN [state |-> "DONE", code |-> request[r].code] ELSE Free
    OBVIOUS
  <2>2. mark' = [mark EXCEPT ![k] = m]
    BY <1>1, <2>1 DEF Answer
  <2>3. CASE At(r, "answer")
    <3>1. request[r].code \in Wrong..MaxSends
      BY Shaped DEF RequestRows
    <3>2. request[r].code \in MailedCodes /\ made[k][request[r].code] > 0
      BY <1>1, <2>3, RowOf DEF RequestAgrees, At
    <3>3. m = [state |-> "DONE", code |-> request[r].code]
      BY <2>1, <2>3
    <3>4. m \in MarkRows /\ m.code = request[r].code
      BY <3>1, <3>3 DEF MarkRows
    <3> QED BY <2>2, <3>2, <3>4
  <2>4. CASE ~At(r, "answer")
    <3>1. NoCode \in Wrong..MaxSends
      BY Shaped DEF NoCode, Wrong
    <3>2. m = [state |-> "FREE", code |-> NoCode]
      BY <2>1, <2>4 DEF Free
    <3>3. m \in MarkRows /\ m.state # "DONE"
      BY <3>1, <3>2 DEF MarkRows
    <3> QED BY <2>2, <3>3
  <2> QED BY <2>3, <2>4
<1>3. /\ mark' \in [RequestKeys -> MarkRows] /\ mark'[k] = m
      /\ \A l \in RequestKeys \ {k} : mark'[l] = mark[l]
  BY <1>2, Shaped
<1>4. KeptAnswerIsTrue'
  BY <1>2, <1>3 DEF Answer, EntryInvariant, KeptAnswerIsTrue, MailedCodes
<1>5. /\ Idle \in RequestRows /\ Idle.at = "idle" /\ Idle.code <= mailed /\ Idle.expected <= mailed
  <2>1. NoCode \in Wrong..MaxSends /\ NoCode \in NoCode..MaxSends /\ NoCode <= mailed
    BY Shaped DEF NoCode, Wrong
  <2> QED BY <2>1 DEF Idle, RequestRows, Steps
<1>6. /\ request[r].at \in {"answer", "refused"} /\ UNCHANGED <<cache, mailed, made, balance>>
      /\ request' = [request EXCEPT ![r] = Idle]
  BY DEF Answer, At
<1> QED BY <1>3, <1>4, <1>5, <1>6, Outside

\* Marks are read by the decorator only.
LEMMA KeepsWithMark ==
    ASSUME EntryInvariant, UNCHANGED <<request, cache, mailed, made, balance>>,
           mark' \in [RequestKeys -> MarkRows], KeptAnswerIsTrue'
    PROVE  EntryInvariant'
<1> USE DEF cache
<1>1. EntryShape'
  BY DEF EntryInvariant, EntryShape
<1>2. \A r \in Requests : RequestAgrees(r)'
  BY DEF EntryInvariant, RequestAgrees, At, MailedCodes
<1>3. Clearing' = Clearing /\ Run' = Run /\ Starts' = Starts /\ \A U : Number(U)' = Number(U)
  <2>1. With(Compared)' = With(Compared) /\ With(Guessed)' = With(Guessed)
    BY DEF With
  <2>2. Clearing' = Clearing /\ \A U : Number(U)' = Number(U)
    BY DEF Clearing, With, Number
  <2> QED BY <2>1, <2>2 DEF Number, Run, Starts, RunLeft, StartsLeft, Count, All
<1>4. CodesSpent'
  <2>1. Withdrawals' = Withdrawals /\ Made' = Made /\ Withdrawn' = Withdrawn
    BY DEF Withdrawals, Made, Withdrawn
  <2> QED BY <1>3, <2>1 DEF EntryInvariant, CodesSpent
<1>5. FewClear'
  BY <1>3 DEF EntryInvariant, FewClear
<1>6. GuessesLeft'
  BY <1>3, GuessesStay, LeftNow, NumbersOfRequests, Shaped
<1> QED BY <1>1, <1>2, <1>4, <1>5, <1>6 DEF EntryInvariant

\* A mark that expires says nothing any more.
LEMMA KeepsWithMarkExpires ==
    ASSUME EntryInvariant, NEW k \in RequestKeys, MarkExpires(k)
    PROVE  EntryInvariant'
<1>1. NoCode \in Wrong..MaxSends
  BY Shaped DEF NoCode, Wrong
<1>2. /\ mark' \in [RequestKeys -> MarkRows] /\ mark'[k] = Free
      /\ \A l \in RequestKeys \ {k} : mark'[l] = mark[l]
  BY <1>1, Shaped DEF MarkExpires, Free, MarkRows
<1>3. KeptAnswerIsTrue'
  BY <1>2 DEF MarkExpires, EntryInvariant, KeptAnswerIsTrue, MailedCodes, Free
<1> QED BY <1>2, <1>3, KeepsWithMark DEF MarkExpires

\* One withdrawal more.
LEMMA WithdrawalAdds ==
    ASSUME EntryInvariant, NEW k \in RequestKeys, NEW c \in 1..MaxSends,
           made' = [made EXCEPT ![k][c] = @ + 1]
    PROVE  /\ made' \in [RequestKeys -> [1..MaxSends -> Nat]]
           /\ made'[k][c] = made[k][c] + 1
           /\ \A l \in RequestKeys, d \in 1..MaxSends : made'[l][d] >= made[l][d]
           /\ IsFiniteSet(Withdrawals') /\ Made \in Nat /\ Made' = Made + 1
<1>1. made \in [RequestKeys -> [1..MaxSends -> Nat]]
  BY Shaped
<1>2. PICK n \in Nat : n = made[k][c]
  BY <1>1
<1>3. PICK line : line = [made[k] EXCEPT ![c] = n + 1]
  OBVIOUS
<1>4. /\ line \in [1..MaxSends -> Nat] /\ line[c] = n + 1
      /\ \A d \in (1..MaxSends) \ {c} : line[d] = made[k][d]
  <2>1. made[k] \in [1..MaxSends -> Nat] /\ n + 1 \in Nat
    BY <1>1
  <2> QED BY <1>3, <2>1
<1>5. made' = [made EXCEPT ![k] = line]
  BY <1>1, <1>2, <1>3
<1>6. /\ made' \in [RequestKeys -> [1..MaxSends -> Nat]] /\ made'[k] = line
      /\ \A l \in RequestKeys \ {k} : made'[l] = made[l]
  BY <1>1, <1>4, <1>5
<1>7. /\ made'[k][c] = n + 1
      /\ \A l \in RequestKeys, d \in 1..MaxSends : l # k \/ d # c => made'[l][d] = made[l][d]
  BY <1>4, <1>6
<1>8. PICK S, T : S = Withdrawals /\ T = Withdrawals'
  OBVIOUS
<1>9. T = S \cup {<<k, c, n + 1>>}
  <2> DEFINE Before(l, d) == {l} \X {d} \X (1..made[l][d])
             Now(l, d) == {l} \X {d} \X (1..made'[l][d])
  <2>1. /\ S = UNION {Before(l, d) : l \in RequestKeys, d \in 1..MaxSends}
        /\ T = UNION {Now(l, d) : l \in RequestKeys, d \in 1..MaxSends}
    BY <1>8 DEF Withdrawals
  <2>2. Now(k, c) = Before(k, c) \cup {<<k, c, n + 1>>}
    <3>1. 1..(n + 1) = (1..n) \cup {n + 1}
      BY <1>2
    <3>2. {k} \X {c} \X (1..(n + 1)) = ({k} \X {c} \X (1..n)) \cup {<<k, c, n + 1>>}
      BY <3>1
    <3> QED BY <1>2, <1>7, <3>2
  <2>3. \A l \in RequestKeys, d \in 1..MaxSends : l # k \/ d # c => Now(l, d) = Before(l, d)
    BY <1>7
  <2> HIDE DEF Before, Now
  <2>4. \A x : x \in S <=> \E l \in RequestKeys, d \in 1..MaxSends : x \in Before(l, d)
    BY <2>1
  <2>5. \A x : x \in T <=> \E l \in RequestKeys, d \in 1..MaxSends : x \in Now(l, d)
    BY <2>1
  <2> QED BY <2>2, <2>3, <2>4, <2>5
<1>10. <<k, c, n + 1>> \notin S
  BY <1>2, <1>8 DEF Withdrawals
<1>11. IsFiniteSet(S)
  BY <1>8 DEF EntryInvariant, CodesSpent
<1>12. IsFiniteSet(T) /\ Cardinality(T) = Cardinality(S) + 1 /\ Cardinality(S) \in Nat
  BY <1>9, <1>10, <1>11, FS_AddElement, FS_CardinalityType
<1>13. \A l \in RequestKeys, d \in 1..MaxSends : made'[l][d] >= made[l][d]
  <2>1. ASSUME NEW l \in RequestKeys, NEW d \in 1..MaxSends PROVE made'[l][d] >= made[l][d]
    <3>1. made[l][d] \in Nat
      BY <1>1
    <3> QED BY <1>2, <1>7, <3>1
  <2> QED BY <2>1
<1> QED BY <1>2, <1>6, <1>7, <1>8, <1>12, <1>13 DEF Made

\* A withdrawal uses up the code its request held, and the limits were looked at under the lock.
LEMMA KeepsWithDebit ==
    ASSUME EntryInvariant, NEW r \in Requests, Debit(r)
    PROVE  EntryInvariant'
<1>1. PICK k \in RequestKeys, c \in 1..MaxSends :
         k = request[r].key /\ c = request[r].code /\ c \in MailedCodes
  <2>1. request[r].key \in RequestKeys /\ request[r].code \in MailedCodes
    BY RowOf DEF Debit, RequestAgrees, At
  <2>2. request[r].code \in 1..MaxSends
    BY <2>1, Shaped DEF MailedCodes
  <2> QED BY <2>1, <2>2
<1>2. /\ At(r, "debit") /\ UNCHANGED <<mark, expecting, tries, sending, guesses, mailed>>
      /\ IF Covered THEN /\ balance' = balance - Amount
                         /\ made' = [made EXCEPT ![k][c] = @ + 1]
                         /\ GoTo(r, "answer")
         ELSE balance' = balance /\ made' = made /\ GoTo(r, "refused")
  BY <1>1 DEF Debit, cache, GoTo
<1>3. PICK row \in RequestRows :
         /\ request' = [request EXCEPT ![r] = row]
         /\ row.key = k /\ row.code = c /\ row.expected = request[r].expected
         /\ row.at = IF Covered THEN "answer" ELSE "refused"
  <2>1. CASE Covered
    BY <1>1, <1>2, <2>1, Goes DEF Steps
  <2>2. CASE ~Covered
    BY <1>1, <1>2, <2>2, Goes DEF Steps
  <2> QED BY <2>1, <2>2
<1>4. /\ request' \in [Requests -> RequestRows] /\ request'[r] = row
      /\ \A q \in Requests \ {r} : request'[q] = request[q]
  BY <1>3, Move
<1>5. PICK spent \in Nat, next \in Nat, amount \in Nat, floor \in Nat, start \in Nat, limit \in Nat :
         /\ spent = Made /\ next = Made' /\ next = (IF Covered THEN spent + 1 ELSE spent)
         /\ amount = Amount /\ floor = MinRemaining /\ start = Balance /\ limit = DailyMax
         /\ made' \in [RequestKeys -> [1..MaxSends -> Nat]] /\ IsFiniteSet(Withdrawals)'
         /\ \A l \in RequestKeys, d \in 1..MaxSends : made'[l][d] >= made[l][d]
         /\ Covered => made'[k][c] > 0
  <2>1. Made \in Nat
    BY FS_CardinalityType DEF EntryInvariant, CodesSpent, Made
  <2>2. CASE Covered
    <3>1. /\ made' \in [RequestKeys -> [1..MaxSends -> Nat]] /\ made'[k][c] = made[k][c] + 1
          /\ \A l \in RequestKeys, d \in 1..MaxSends : made'[l][d] >= made[l][d]
          /\ IsFiniteSet(Withdrawals') /\ Made' = Made + 1
      BY <1>2, <2>2, WithdrawalAdds
    <3>2. made[k][c] \in Nat
      BY Shaped
    <3>3. made'[k][c] > 0 /\ Made' \in Nat
      BY <2>1, <3>1, <3>2
    <3> QED BY <2>1, <2>2, <3>1, <3>3, WithdrawEntryAssumption
  <2>3. CASE ~Covered
    <3>1. made' = made
      BY <1>2, <2>3
    <3>2. Made' = Made /\ IsFiniteSet(Withdrawals)'
      BY <3>1 DEF Made, Withdrawals, EntryInvariant, CodesSpent
    <3>3. \A l \in RequestKeys, d \in 1..MaxSends : made'[l][d] >= made[l][d]
      <4>1. ASSUME NEW l \in RequestKeys, NEW d \in 1..MaxSends PROVE made'[l][d] >= made[l][d]
        <5>1. made[l][d] \in Nat
          BY Shaped
        <5> QED BY <3>1, <5>1
      <4> QED BY <4>1
    <3> QED BY <2>1, <2>3, <3>1, <3>2, <3>3, Shaped, WithdrawEntryAssumption
  <2> QED BY <2>2, <2>3
<1>6. /\ Covered => balance - amount >= floor /\ start - balance + amount <= limit
      /\ balance \in Nat
  BY <1>5, Shaped DEF Covered, Withdrawn
<1>7. EntryShape'
  <2>1. balance' \in Nat
    BY <1>2, <1>5, <1>6
  <2> QED BY <1>2, <1>4, <1>5, <2>1 DEF EntryInvariant, EntryShape
<1>8. KeptAnswerIsTrue'
  <2>1. ASSUME NEW l \in RequestKeys, mark'[l].state = "DONE"
        PROVE  mark'[l].code \in MailedCodes' /\ made'[l][mark'[l].code] > 0
    <3>1. mark[l].code \in MailedCodes /\ made[l][mark[l].code] > 0
      BY <1>2, <2>1 DEF EntryInvariant, KeptAnswerIsTrue
    <3>2. mark[l].code \in 1..MaxSends
      BY <3>1, Shaped DEF MailedCodes
    <3>3. /\ made'[l][mark[l].code] >= made[l][mark[l].code]
          /\ made'[l][mark[l].code] \in Nat /\ made[l][mark[l].code] \in Nat
      BY <1>5, <3>2, Shaped
    <3> QED BY <1>2, <3>1, <3>3 DEF MailedCodes
  <2> QED BY <2>1 DEF KeptAnswerIsTrue
<1>9. ASSUME NEW q \in Requests PROVE RequestAgrees(q)'
  <2>1. CASE q = r
    BY <1>1, <1>2, <1>3, <1>4, <1>5, <2>1, RowOf, Shaped DEF RequestAgrees, At, MailedCodes
  <2>2. CASE q # r
    <3>1. ASSUME request[q].at = "answer"
          PROVE  made'[request[q].key][request[q].code] > 0
      <4>1. /\ request[q].key \in RequestKeys /\ request[q].code \in 1..MaxSends
            /\ made[request[q].key][request[q].code] > 0
        BY <3>1, RowOf, Shaped DEF RequestAgrees, At, MailedCodes
      <4>2. /\ made'[request[q].key][request[q].code] >= made[request[q].key][request[q].code]
            /\ made'[request[q].key][request[q].code] \in Nat
            /\ made[request[q].key][request[q].code] \in Nat
        BY <1>5, <4>1, Shaped
      <4> QED BY <4>1, <4>2
    <3> QED BY <1>2, <1>4, <2>2, <3>1, RowOf DEF RequestAgrees, At, MailedCodes
  <2> QED BY <2>1, <2>2
<1>10. \A U : /\ Number(U)' = Number(U) + (IF row.at \in U THEN 1 ELSE 0)
                                       - (IF request[r].at \in U THEN 1 ELSE 0)
              /\ Number(U) \in Nat
  BY <1>3, After, NumbersOfRequests
<1>11. /\ Number({"tries", "compare"})' = Number({"tries", "compare"})
       /\ Number(Compared)' = Number(Compared) /\ Number(Guessed)' = Number(Guessed)
       /\ Number({"restart"})' = Number({"restart"})
       /\ Number({"clear", "debit"})' = Number({"clear", "debit"}) - 1
  <2>1. Number({"tries", "compare"})' = Number({"tries", "compare"})
    BY <1>2, <1>3, <1>10 DEF At
  <2>2. Number(Compared)' = Number(Compared)
    BY <1>2, <1>3, <1>10 DEF At, Compared
  <2>3. Number({"clear", "debit"})' = Number({"clear", "debit"}) - 1
    BY <1>2, <1>3, <1>10 DEF At
  <2>4. Number(Guessed)' = Number(Guessed)
    BY <1>2, <1>3, <1>10 DEF At, Guessed
  <2>5. Number({"restart"})' = Number({"restart"})
    BY <1>2, <1>3, <1>10 DEF At
  <2> QED BY <2>1, <2>2, <2>3, <2>4, <2>5
<1>12. FewClear' /\ Clearing' = Clearing
  BY <1>2, <1>3, ClearStays DEF Clearing, With, At
<1>13. GuessesLeft'
  <2>1. Run' = Run /\ Starts' = Starts
    BY <1>2, <1>11, <1>12 DEF Run, Starts, RunLeft, StartsLeft, Count, All
  <2>2. /\ expecting' = expecting /\ guesses' = guesses /\ guesses \in Nat
        /\ tries' \in Nat \cup {NoCount} /\ Number({"tries", "compare"}) \in Nat
    BY <1>2, NumbersOfRequests, Shaped
  <2>3. guesses' + Run' <= guesses + Run /\ Starts' <= Starts
    BY <2>1, <2>2, LeftNow
  <2>4. guesses' + Number({"tries", "compare"})' <= guesses + Number({"tries", "compare"})
    BY <1>11, <2>2
  <2> QED BY <2>2, <2>3, <2>4, GuessesStay
<1>14. CodesSpent'
  <2>1. PICK u \in Nat, e \in {0, 1} :
          u = Number({"clear", "debit"}) /\ e = (IF expecting # NoCode THEN 1 ELSE 0)
    BY <1>10
  <2>2. spent + u + e <= mailed
    BY <1>5, <2>1 DEF EntryInvariant, CodesSpent
  <2>3. next + (u - 1) + e <= mailed
    BY <1>5, <2>1, <2>2, Shaped
  <2>4. start - balance = amount * spent
    BY <1>5 DEF EntryInvariant, CodesSpent, Withdrawn
  <2>5. start - balance' = amount * next
    <3>1. CASE Covered
      <4>1. amount * (spent + 1) = amount * spent + amount
        OBVIOUS
      <4>2. start - (balance - amount) = (start - balance) + amount
        BY <1>6
      <4> QED BY <1>2, <1>5, <2>4, <3>1, <4>1, <4>2
    <3>2. CASE ~Covered
      BY <1>2, <1>5, <2>4, <3>2
    <3> QED BY <3>1, <3>2
  <2>6. next > 0 => balance' >= floor
    <3>1. CASE Covered
      BY <1>2, <1>5, <1>6, <3>1
    <3>2. CASE ~Covered
      BY <1>2, <1>5, <3>2 DEF EntryInvariant, CodesSpent
    <3> QED BY <3>1, <3>2
  <2>7. start - balance' <= limit
    <3>1. CASE Covered
      BY <1>2, <1>5, <1>6, <3>1
    <3>2. CASE ~Covered
      BY <1>2, <1>5, <3>2 DEF EntryInvariant, CodesSpent, Withdrawn
    <3> QED BY <3>1, <3>2
  <2>8. Withdrawn' = start - balance'
    BY <1>5 DEF Withdrawn
  <2>9. Made' + Number({"clear", "debit"})' + (IF expecting' # NoCode THEN 1 ELSE 0) <= mailed'
    BY <1>2, <1>5, <1>11, <2>1, <2>3
  <2> QED BY <1>5, <2>5, <2>6, <2>7, <2>8, <2>9 DEF CodesSpent
<1> QED BY <1>7, <1>8, <1>9, <1>12, <1>13, <1>14 DEF EntryInvariant

\* At first no code was mailed and nothing withdrawn.
LEMMA InitIsSound == EntryInit => EntryInvariant
<1> SUFFICES ASSUME EntryInit PROVE EntryInvariant
  OBVIOUS
<1> USE DEF EntryInit
<1>1. NoCode \in NoCode..MaxSends /\ NoCode \in Wrong..MaxSends /\ 0 \in 0..MaxSends /\ NoCode = 0
  BY WithdrawEntryAssumption DEF NoCode, Wrong
<1>2. Free \in MarkRows /\ Free.state = "FREE" /\ Idle \in RequestRows /\ Idle.at = "idle"
      /\ Idle.code = 0 /\ Idle.expected = 0
  BY <1>1 DEF Free, MarkRows, Idle, RequestRows, Steps
<1>3. EntryShape
  BY <1>1, <1>2, WithdrawEntryAssumption DEF EntryShape
<1>4. KeptAnswerIsTrue
  BY <1>2 DEF KeptAnswerIsTrue
<1>5. \A r \in Requests : RequestAgrees(r)
  BY <1>2 DEF RequestAgrees, At
<1>6. ASSUME NEW U, "idle" \notin U PROVE With(U) = {} /\ Number(U) = 0
  <2>1. With(U) = {}
    BY <1>2, <1>6 DEF With
  <2> QED BY <2>1, FS_EmptySet DEF Number
<1>7. CodesSpent
  <2>1. Withdrawals = {}
    BY DEF Withdrawals
  <2>2. IsFiniteSet(Withdrawals) /\ Made = 0 /\ Withdrawn = 0
    BY <2>1, FS_EmptySet, WithdrawEntryAssumption DEF Made, Withdrawn
  <2>3. Number({"clear", "debit"}) = 0
    BY <1>6
  <2>4. Amount * 0 = 0 /\ DailyMax \in Nat
    BY WithdrawEntryAssumption
  <2> QED BY <1>1, <2>2, <2>3, <2>4 DEF CodesSpent
<1>8. FewClear
  BY <1>2 DEF FewClear, Clearing, With
<1>9. GuessesLeft
  <2>1. Number({"tries", "compare"}) = 0
    BY <1>6
  <2> QED BY <1>1, <2>1, Limits DEF GuessesLeft
<1> QED BY <1>3, <1>4, <1>5, <1>7, <1>8, <1>9 DEF EntryInvariant

\* Every step of the requests and the cache keeps the invariant.
LEMMA StepIsSound == EntryInvariant /\ [EntryNext]_entryVars => EntryInvariant'
<1> SUFFICES ASSUME EntryInvariant, [EntryNext]_entryVars PROVE EntryInvariant'
  OBVIOUS
<1>1. CASE UNCHANGED entryVars
  <2>1. /\ UNCHANGED <<request, cache, mailed, made, balance>> /\ mark' = mark
    BY <1>1 DEF entryVars, cache
  <2>2. mark' \in [RequestKeys -> MarkRows] /\ KeptAnswerIsTrue'
    BY <2>1, Shaped DEF EntryInvariant, KeptAnswerIsTrue, MailedCodes
  <2> QED BY <2>1, <2>2, KeepsWithMark
<1>2. CASE EntryNext
  BY <1>2, KeepsWithSendCode, KeepsWithCodeExpires, KeepsWithMarkExpires, KeepsWithEnter,
     KeepsWithZeroTries, KeepsWithTriesExpire, KeepsWithReadCode, KeepsWithReadTries,
     KeepsWithCompare, KeepsWithFindTries, KeepsWithAddTry, KeepsWithRestartTries,
     KeepsWithConsume, KeepsWithClear, KeepsWithDebit, KeepsWithAnswer DEF EntryNext
<1> QED BY <1>1, <1>2

\* The invariant contains EntrySafe.
LEMMA InvariantIsEnough == EntryInvariant => EntrySafe
<1> SUFFICES ASSUME EntryInvariant PROVE EntrySafe
  OBVIOUS
<1>1. EntryTypeOK
  BY Shaped DEF EntryTypeOK, EntryInvariant, EntryShape, MarkRows, RequestRows
<1>2. MailPerWithdrawal
  <2>1. PICK spent \in Nat, u \in Nat, e \in {0, 1} :
          /\ spent = Made /\ u = Number({"clear", "debit"})
          /\ e = (IF expecting # NoCode THEN 1 ELSE 0)
    BY NumbersOfRequests, FS_CardinalityType DEF EntryInvariant, CodesSpent, Made
  <2>2. spent + u + e <= mailed
    BY <2>1 DEF EntryInvariant, CodesSpent
  <2>3. spent + e <= mailed
    BY <2>1, <2>2, Shaped
  <2> QED BY <2>1, <2>3 DEF MailPerWithdrawal
<1>3. WithdrawalsCovered
  BY DEF EntryInvariant, CodesSpent, WithdrawalsCovered
<1>4. GuessesBounded
  <2>1. PICK k \in Nat, h \in Nat, x \in Nat :
          k = OneRun * Starts /\ h = Number({"tries", "compare"}) /\ x = Run
    BY LeftNow, Limits, NumbersOfRequests, OneRunLess
  <2>2. guesses <= MostGuesses + All
    <3>1. CASE expecting # NoCode
      <4>1. guesses + x + k <= MostGuesses
        BY <2>1, <3>1 DEF EntryInvariant, GuessesLeft
      <4> QED BY <2>1, <4>1, Limits, Shaped
    <3>2. CASE expecting = NoCode
      <4>1. guesses + h <= MostGuesses + All
        BY <2>1, <3>2 DEF EntryInvariant, GuessesLeft
      <4> QED BY <2>1, <4>1, Limits, Shaped
    <3> QED BY <3>1, <3>2
  <2> QED BY <2>2 DEF GuessesBounded, MostGuesses, All
<1> QED BY <1>1, <1>2, <1>3, <1>4 DEF EntryInvariant, EntrySafe

\* For any number of requests and keys, any limits and any first balance: no more withdrawals
\* than codes mailed, answers kept are true, the escrow and the daily limit hold, and a code is
\* guessed a bounded number of times, whatever requests repeat and whatever expires.
THEOREM EntryStaysSafe == EntrySpec => []EntrySafe
<1>1. EntrySpec => []EntryInvariant
  BY InitIsSound, StepIsSound, PTL DEF EntrySpec
<1> QED BY <1>1, InvariantIsEnough, PTL
=============================================================================
