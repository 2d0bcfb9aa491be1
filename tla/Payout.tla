------------------------------- MODULE Payout -------------------------------
(***************************************************************************)
(* Withdrawals of one wallet through the PayOS payout channel              *)
(* (withdraw_service, payout_client).  The amount is taken from the wallet *)
(* first; then PayOS is called, outside any transaction, by the request    *)
(* that created the withdrawal, by the job that pushes unfinished ones and *)
(* by customers asking for the state.  A call may be refused, answered or  *)
(* lost, its process may die at any point, and the result decides whether  *)
(* the wallet is credited again.                                           *)
(*                                                                         *)
(* Each statement outside a transaction commits alone and is a step of its *)
(* own; a transaction is one step.  The wallet transaction of a request is *)
(* PENDING, SUCCESS or FAILED as the request is PROCESSING, SUCCESS or     *)
(* FAILED: both are written together, by _finalize only.                   *)
(***************************************************************************)
EXTENDS Integers, FiniteSets

CONSTANTS
    Requests,   \* withdrawals of the wallet
    Amount,     \* WithdrawRequest.amount
    Funds,      \* Wallet.balance at first
    Floor,      \* what must stay in the wallet (400 000 dong for workers)
    Callers,    \* processes that run submit_payout or refresh_withdraw
    Unreadable, \* requests whose account number may fail to decrypt
    NoRequest

ASSUME RequestsAssumption == IsFiniteSet(Requests) /\ NoRequest \notin Requests
ASSUME AmountAssumption == Amount \in [Requests -> Nat \ {0}]
ASSUME FundsAssumption == Funds \in Nat /\ Floor \in Nat
ASSUME UnreadableAssumption == Unreadable \subseteq Requests

VARIABLES
    balance,    \* Wallet.balance
    status,     \* WithdrawRequest.status, or "NEW" before it exists
    submitted,  \* submit_attempts, counted up to 2
    unknown,    \* had_unknown_result
    review,     \* needs_review
    payoutId,   \* payout_id is known
    age,        \* 0, then 1 after MAX_RETRY_AGE, 2 after MAX_PROCESSING_AGE
    call,       \* what each caller is doing
    payos,      \* the payout at PayOS, by reference_id
    wire,       \* requests with a call given up that may still reach PayOS
    gap         \* submitted while another submission was open, or given up
                \* unread after one

rowVars == <<balance, status, submitted, unknown, review, payoutId, age>>
vars == <<rowVars, call, payos, wire, gap>>

Idle == [at |-> "idle", req |-> NoRequest, first |-> FALSE, answer |-> "NONE"]
At(c, step) == call[c].at = step
Go(c, step) == call' = [call EXCEPT ![c].at = step]
GoWith(c, step, a) == call' = [call EXCEPT ![c].at = step, ![c].answer = a]
Leave(c) == call' = [call EXCEPT ![c] = Idle]

Submitting == {"count", "call", "sent", "accepted", "answered", "conclude"}
InSubmission(c, r) == call[c].req = r /\ call[c].at \in Submitting
Open(r) == status[r] = "PROCESSING" /\ ~review[r]

\* What PayOS tells about a payout (payout_client._translate).
Report(r) == CASE payos[r] = "paid" -> "SUCCESS"
               [] payos[r] = "failed" -> "FAILED"
               [] OTHER -> "PENDING"

Init ==
    /\ balance = Funds
    /\ status = [r \in Requests |-> "NEW"]
    /\ submitted = [r \in Requests |-> 0]
    /\ unknown = [r \in Requests |-> FALSE]
    /\ review = [r \in Requests |-> FALSE]
    /\ payoutId = [r \in Requests |-> FALSE]
    /\ age = [r \in Requests |-> 0]
    /\ call = [c \in Callers |-> Idle]
    /\ payos = [r \in Requests |-> "none"]
    /\ wire = {}
    /\ gap = {}

-----------------------------------------------------------------------------
(* Starting *)

\* request_withdraw, request_worker_withdraw: what must remain is checked under
\* the wallet's lock.
RequestWithdraw(r) ==
    /\ balance - Amount[r] >= Floor
    /\ balance' = balance - Amount[r]

\* create_withdraw: one transaction under the wallet's lock, then submit.
Create(c, r) ==
    /\ At(c, "idle") /\ status[r] = "NEW"
    /\ RequestWithdraw(r)
    /\ status' = [status EXCEPT ![r] = "PROCESSING"]
    /\ call' = [call EXCEPT ![c] = [Idle EXCEPT !.at = "submit", !.req = r]]
    /\ UNCHANGED <<submitted, unknown, review, payoutId, age, payos, wire, gap>>

\* refresh_withdraw, from the job or from a customer asking.
Refresh(c, r) ==
    LET next == IF payoutId[r] THEN "ask" ELSE IF age[r] > 0 THEN "flag" ELSE "submit"
    IN  /\ At(c, "idle") /\ Open(r)
        /\ call' = [call EXCEPT ![c] = [Idle EXCEPT !.at = next, !.req = r]]
        /\ UNCHANGED <<rowVars, payos, wire, gap>>

-----------------------------------------------------------------------------
(* submit_payout *)

Others(c, r) == \E d \in Callers \ {c} : InSubmission(d, r)

\* The request is read; a closed one or one under review is left alone.
SkipClosed(c) ==
    LET r == call[c].req
    IN  /\ At(c, "submit") /\ ~Open(r)
        /\ Leave(c)
        /\ UNCHANGED <<rowVars, payos, wire, gap>>

StartSubmit(c) ==
    LET r == call[c].req
    IN  /\ At(c, "submit") /\ Open(r)
        /\ Go(c, "count")
        /\ gap' = IF Others(c, r) THEN gap \cup {r} ELSE gap
        /\ UNCHANGED <<rowVars, payos, wire>>

\* The account number cannot be decrypted: review if an earlier result was
\* unknown, else the request is about to fail.
Undecrypted(c) ==
    LET r == call[c].req
    IN  /\ At(c, "submit") /\ Open(r) /\ r \in Unreadable
        /\ IF unknown[r] THEN Go(c, "flag") ELSE GoWith(c, "conclude", "FAILED")
        /\ gap' = IF ~unknown[r] /\ (submitted[r] > 0 \/ Others(c, r))
                  THEN gap \cup {r} ELSE gap
        /\ UNCHANGED <<rowVars, payos, wire>>

Count(c) ==
    LET r == call[c].req
    IN  /\ At(c, "count")
        /\ submitted' = [submitted EXCEPT ![r] = IF @ = 0 THEN 1 ELSE 2]
        /\ Go(c, "call")
        /\ UNCHANGED <<balance, status, unknown, review, payoutId, age, payos, wire, gap>>

\* Whether this is the first attempt is read just before the call.
MutantFirst(r) == ~unknown[r]
First(r) == ~unknown[r] /\ submitted[r] <= 1

CallPayOS(c) ==
    /\ At(c, "call")
    /\ call' = [call EXCEPT ![c].at = "sent", ![c].first = First(call[c].req)]
    /\ UNCHANGED <<rowVars, payos, wire, gap>>

-----------------------------------------------------------------------------
(* PayOS: the reference_id is its idempotency key *)

Receive(r) == payos' = [payos EXCEPT ![r] = IF @ = "none" THEN "pending" ELSE @]

Accept(c) ==
    /\ At(c, "sent")
    /\ Receive(call[c].req)
    /\ Go(c, "accepted")
    /\ UNCHANGED <<rowVars, wire, gap>>

Answer(c) ==
    /\ At(c, "accepted")
    /\ GoWith(c, "answered", Report(call[c].req))
    /\ UNCHANGED <<rowVars, payos, wire, gap>>

\* Also for a reference it knows already.
Refuse(c) ==
    /\ At(c, "sent")
    /\ GoWith(c, "answered", "REJECTED")
    /\ UNCHANGED <<rowVars, payos, wire, gap>>

\* A time-out, a lost connection or a transient error, before or after the
\* call arrived.
Lost(c) ==
    /\ call[c].at \in {"sent", "accepted"}
    /\ GoWith(c, "answered", "UNKNOWN")
    /\ wire' = IF At(c, "sent") THEN wire \cup {call[c].req} ELSE wire
    /\ UNCHANGED <<rowVars, payos, gap>>

\* A call given up arrives after all.
Straggle(r) ==
    /\ r \in wire
    /\ wire' = wire \ {r}
    /\ Receive(r)
    /\ UNCHANGED <<rowVars, call, gap>>

\* The call was refused or never arrives.
Vanish(r) ==
    /\ r \in wire
    /\ wire' = wire \ {r}
    /\ UNCHANGED <<rowVars, call, payos, gap>>

BankDecides(r, outcome) ==
    /\ payos[r] = "pending"
    /\ payos' = [payos EXCEPT ![r] = outcome]
    /\ UNCHANGED <<rowVars, call, wire, gap>>

-----------------------------------------------------------------------------
(* Acting on what came back *)

\* PayoutRejected: the money has surely not left only on the first attempt.
Rejected(c) ==
    /\ At(c, "answered") /\ call[c].answer = "REJECTED"
    /\ IF call[c].first THEN GoWith(c, "conclude", "FAILED") ELSE Go(c, "flag")
    /\ UNCHANGED <<rowVars, payos, wire, gap>>

\* PayoutUnknown: nothing is decided, the job will call again.
Unknown(c) ==
    /\ At(c, "answered") /\ call[c].answer = "UNKNOWN"
    /\ unknown' = [unknown EXCEPT ![call[c].req] = TRUE]
    /\ Leave(c)
    /\ UNCHANGED <<balance, status, submitted, review, payoutId, age, payos, wire, gap>>

\* get_payout_status.
Ask(c) ==
    /\ At(c, "ask")
    /\ \E a \in {Report(call[c].req), "UNKNOWN"} : GoWith(c, "polled", a)
    /\ UNCHANGED <<rowVars, payos, wire, gap>>

MutantStillPending(c) ==
    /\ At(c, "polled") /\ call[c].answer \in {"PENDING", "UNKNOWN"}
    /\ Leave(c)
    /\ UNCHANGED <<rowVars, payos, wire, gap>>

\* refresh_withdraw without a final result: reviewed by hand after 6 hours.
StillPending(c) ==
    /\ At(c, "polled") /\ call[c].answer \in {"PENDING", "UNKNOWN"}
    /\ IF age[call[c].req] > 1 THEN Go(c, "flag") ELSE Leave(c)
    /\ UNCHANGED <<rowVars, payos, wire, gap>>

\* _apply_result: the payout id is kept, a final state is concluded.
Apply(c) ==
    LET r == call[c].req
    IN  /\ call[c].at \in {"answered", "polled"}
        /\ \/ call[c].answer \in {"SUCCESS", "FAILED"} /\ Go(c, "conclude")
           \/ At(c, "answered") /\ call[c].answer = "PENDING" /\ Leave(c)
        /\ payoutId' = [payoutId EXCEPT ![r] = @ \/ status[r] = "PROCESSING"]
        /\ UNCHANGED <<balance, status, submitted, unknown, review, age, payos, wire, gap>>

StillProcessing(r) == status[r] = "PROCESSING"

\* admin_confirm_withdraw, admin_reject_withdraw.
BalanceAfter(r, verdict) == IF verdict = "FAILED" THEN balance + Amount[r] ELSE balance

\* _finalize on request r.
Finalize(r, verdict) ==
    /\ status' = [status EXCEPT ![r] = verdict]
    /\ review' = [review EXCEPT ![r] = FALSE]
    /\ balance' = BalanceAfter(r, verdict)

Conclude(c) ==
    LET r == call[c].req
    IN  /\ At(c, "conclude")
        /\ IF StillProcessing(r) THEN Finalize(r, call[c].answer)
                                 ELSE UNCHANGED <<status, review, balance>>
        /\ Leave(c)
        /\ UNCHANGED <<submitted, unknown, payoutId, age, payos, wire, gap>>

\* _flag_review.
Flag(c) ==
    LET r == call[c].req
    IN  /\ At(c, "flag")
        /\ review' = [review EXCEPT ![r] = @ \/ status[r] = "PROCESSING"]
        /\ Leave(c)
        /\ UNCHANGED <<balance, status, submitted, unknown, payoutId, age, payos, wire, gap>>

\* resolve_review: the admin has looked the payout up, after it came to an end
\* and with no call under way.
Resolve(r) ==
    /\ StillProcessing(r) /\ review[r]
    /\ payos[r] # "pending" /\ r \notin wire
    /\ \A c \in Callers : ~InSubmission(c, r)
    /\ Finalize(r, IF payos[r] = "paid" THEN "SUCCESS" ELSE "FAILED")
    /\ UNCHANGED <<submitted, unknown, payoutId, age, call, payos, wire, gap>>

-----------------------------------------------------------------------------
(* Crashes and time *)

Crash(c) ==
    /\ ~At(c, "idle")
    /\ Leave(c)
    /\ wire' = IF At(c, "sent") THEN wire \cup {call[c].req} ELSE wire
    /\ UNCHANGED <<rowVars, payos, gap>>

Tick(r) ==
    /\ Open(r) /\ age[r] < 2
    /\ age' = [age EXCEPT ![r] = @ + 1]
    /\ UNCHANGED <<balance, status, submitted, unknown, review, payoutId,
                   call, payos, wire, gap>>

-----------------------------------------------------------------------------
Own(c) ==
    \/ SkipClosed(c) \/ StartSubmit(c) \/ Undecrypted(c) \/ Count(c) \/ CallPayOS(c)
    \/ Rejected(c) \/ Unknown(c) \/ Ask(c) \/ StillPending(c) \/ Apply(c)
    \/ Conclude(c) \/ Flag(c)

PayOSStep(c) == Accept(c) \/ Answer(c) \/ Refuse(c) \/ Lost(c)

RequestStep(r) ==
    \/ \E c \in Callers : Create(c, r) \/ Refresh(c, r)
    \/ Straggle(r) \/ Vanish(r)
    \/ \E outcome \in {"paid", "failed"} : BankDecides(r, outcome)
    \/ Resolve(r) \/ Tick(r)

Next ==
    \/ \E c \in Callers : Own(c) \/ PayOSStep(c) \/ Crash(c)
    \/ \E r \in Requests : RequestStep(r)

Spec == Init /\ [][Next]_vars

\* The job runs every minute over all open requests, calls end by a time-out at
\* the latest, and no process dies at the same point forever.
Fairness ==
    /\ \A c \in Callers : WF_vars(Own(c)) /\ WF_vars(PayOSStep(c))
    /\ \A r \in Requests :
          /\ SF_vars(\E c \in Callers : Refresh(c, r))
          /\ SF_vars(\E c \in Callers : call[c].req = r /\ Ask(c))
          /\ SF_vars(\E c \in Callers : call[c].req = r /\ (StillPending(c) \/ Apply(c)))
          /\ SF_vars(\E c \in Callers : call[c].req = r /\ (Conclude(c) \/ Flag(c)))
          /\ WF_vars(Tick(r))

FairSpec == Spec /\ Fairness

-----------------------------------------------------------------------------
Steps == {"idle", "submit", "count", "call", "sent", "accepted", "answered",
          "ask", "polled", "conclude", "flag"}
Answers == {"NONE", "REJECTED", "UNKNOWN", "PENDING", "SUCCESS", "FAILED"}
Calls == [at : Steps, req : Requests \cup {NoRequest}, first : BOOLEAN, answer : Answers]

TypeOK ==
    /\ balance \in Nat
    /\ status \in [Requests -> {"NEW", "PROCESSING", "SUCCESS", "FAILED"}]
    /\ submitted \in [Requests -> 0..2]
    /\ unknown \in [Requests -> BOOLEAN]
    /\ review \in [Requests -> BOOLEAN]
    /\ payoutId \in [Requests -> BOOLEAN]
    /\ age \in [Requests -> 0..2]
    /\ call \in [Callers -> Calls]
    /\ payos \in [Requests -> {"none", "pending", "paid", "failed"}]
    /\ wire \subseteq Requests
    /\ gap \subseteq Requests

\* A request is SUCCESS only if PayOS has paid it: the amount is never written
\* off while the money is still with the platform.
SuccessMeansPaid == \A r \in Requests : status[r] = "SUCCESS" => payos[r] = "paid"

\* The wallet is credited again only if the money has not left and no call that
\* could still send it is under way, unless submissions of the request
\* overlapped or an account number became unreadable after one.
RefundMeansUnpaid ==
    \A r \in Requests \ gap : status[r] = "FAILED" =>
        \/ payos[r] = "failed"
        \/ payos[r] = "none" /\ r \notin wire /\ \A c \in Callers : ~InSubmission(c, r)

\* Withdrawals whose amount is not in the wallet, and that money, unit by unit.
Taken == {r \in Requests : status[r] \notin {"NEW", "FAILED"}}
Units(requests) == UNION {{r} \X (1..Amount[r]) : r \in requests}

\* What is in the wallet and what was taken for requests that have not failed
\* always add up to the first balance (the nightly reconcile_wallets check).
LedgerBalanced == balance + Cardinality(Units(Taken)) = Funds

\* However the callers of _finalize overlap, die and meet answers that come late, the
\* status of a withdrawal, the wallet and the bank tell the same story.
PayoutSafe == SuccessMeansPaid /\ RefundMeansUnpaid /\ LedgerBalanced

\* Where the amount of r is, seen from outside.
Place(r) == CASE status[r] = "NEW" -> "wallet"
              [] status[r] = "FAILED" /\ payos[r] # "paid" -> "returned"
              [] status[r] = "FAILED" /\ payos[r] = "paid" -> "returned and at the bank"
              [] status[r] \in {"PROCESSING", "SUCCESS"} /\ payos[r] = "paid" -> "bank"
              [] OTHER -> "held"

Abstract == INSTANCE MoneyMove WITH place <- [r \in Requests |-> Place(r)]

\* Withdrawals whose submissions do not overlap move each amount once.
MovesOnce == Abstract!Spec

\* Every withdrawal is decided or shown to an admin, whatever PayOS answers and
\* although processes may die.
EventuallyDecided ==
    \A r \in Requests : status[r] = "PROCESSING" ~>
        status[r] \in {"SUCCESS", "FAILED"} \/ review[r]
=============================================================================
