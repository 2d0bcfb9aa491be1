--------------------------- MODULE WithdrawEntry ---------------------------
(***************************************************************************)
(* A request to withdraw money, up to the row of the withdrawal: the key   *)
(* that keeps a repeated request from running twice, the code mailed to    *)
(* the user, and the debit of the wallet.  apps/common/idempotency.py,     *)
(* wallets/withdraw_otp.py, create_withdraw of withdraw_service.py and     *)
(* wallet_service.py.  What follows the row is module Payout.              *)
(*                                                                         *)
(* The keys and the code live in the cache: every access is a step of its  *)
(* own, and the mark of a running request disappears after its time to     *)
(* live even if the request still runs.                                    *)
(***************************************************************************)
EXTENDS Integers, FiniteSets

CONSTANTS
    Requests,       \* running requests (processes of the server)
    RequestKeys,    \* values of the header Idempotency-Key
    NoKey,
    MaxSends,       \* bound: codes mailed
    MaxTries,       \* MAX_TRIES
    Amount, Balance, MinRemaining,  \* MIN_WORKER_ESCROW_BALANCE, or 0 for customers
    DailyMax        \* WALLET_WITHDRAW_DAILY_MAX

ASSUME WithdrawEntryAssumption ==
    /\ IsFiniteSet(Requests) /\ Requests # {}
    /\ NoKey \notin RequestKeys /\ MaxSends \in Nat /\ MaxTries \in Nat \ {0}
    /\ Amount \in Nat \ {0} /\ Balance \in Nat /\ MinRemaining \in Nat /\ DailyMax \in Nat

VARIABLES
    mark,       \* what the cache holds under each key, and for which body
    request,    \* where each request is: key, code it sends, code it expects
    expecting,  \* the code whose hash is in the cache, NoCode when none
    tries,      \* wrong tries counted, NoCount when the cache has no count
    sending,    \* a mail's code is written, its count not yet; the count before it may lapse
    mailed,     \* codes mailed so far
    guesses,    \* comparisons that failed, since the last code was mailed
    made,       \* withdrawals made: by key and code
    balance     \* balance of the wallet

entryVars == <<mark, request, expecting, tries, sending, mailed, guesses, made, balance>>
cache == <<expecting, tries, sending, guesses>>

NoCode == 0
Wrong == -1     \* a code never mailed
NoCount == -1
MailedCodes == 1..mailed
Free == [state |-> "FREE", code |-> NoCode]
\* From the reading of the code to the clearing of the count.
CheckSteps == {"tries", "compare", "count", "add", "restart", "consume", "clear"}
Steps == CheckSteps \cup {"idle", "code", "debit", "answer", "refused"}
Idle == [at |-> "idle", key |-> NoKey, code |-> NoCode, expected |-> NoCode, mailed |-> FALSE]

At(r, step) == request[r].at = step
GoTo(r, step) == request' = [request EXCEPT ![r].at = step]
Checking(r) == request[r].at \in CheckSteps

-----------------------------------------------------------------------------
(* The decorator.                                                          *)

\* SET NX; a request that finds the key taken is answered at once.
Enter(r, k, c) ==
    /\ At(r, "idle") /\ mark[k] = Free
    /\ mark' = [mark EXCEPT ![k] = [state |-> "PROCESSING", code |-> c]]
    /\ request' = [request EXCEPT ![r] = [Idle EXCEPT !.at = "code", !.key = k, !.code = c]]
    /\ UNCHANGED <<cache, mailed, made, balance>>

\* The time to live of the mark ends.
MarkExpires(k) ==
    /\ mark[k].state = "PROCESSING"
    /\ mark' = [mark EXCEPT ![k] = Free]
    /\ UNCHANGED <<request, cache, mailed, made, balance>>

\* A success replaces the mark, a failure deletes what is there.
Answer(r) ==
    /\ At(r, "answer") \/ At(r, "refused")
    /\ mark' = [mark EXCEPT ![request[r].key] =
                   IF At(r, "answer") THEN [state |-> "DONE", code |-> request[r].code] ELSE Free]
    /\ request' = [request EXCEPT ![r] = Idle]
    /\ UNCHANGED <<cache, mailed, made, balance>>

-----------------------------------------------------------------------------
(* The code.                                                               *)

\* One code a minute; neither a request's check nor the writes of a mail take two.
MayMail == sending = "no" /\ \A r \in Requests : Checking(r) => ~request[r].mailed

\* The code is written, and then the count set to zero.
SendCode ==
    /\ mailed < MaxSends /\ MayMail
    /\ mailed' = mailed + 1 /\ expecting' = mailed + 1 /\ guesses' = 0 /\ sending' = "yes"
    /\ request' = [r \in Requests |->
                      IF Checking(r) THEN [request[r] EXCEPT !.mailed = TRUE] ELSE request[r]]
    /\ UNCHANGED <<mark, tries, made, balance>>

ZeroTries ==
    /\ sending # "no"
    /\ tries' = 0 /\ sending' = "no"
    /\ UNCHANGED <<mark, request, expecting, mailed, guesses, made, balance>>

CodeExpires ==
    /\ expecting # NoCode
    /\ expecting' = NoCode
    /\ UNCHANGED <<mark, request, tries, sending, mailed, guesses, made, balance>>

\* The count is written after the code and lives as long: it outlives its code, and may
\* lapse between the writes of a new code and of a new count.
TriesExpire ==
    /\ tries # NoCount
    /\ expecting = NoCode \/ sending = "yes"
    /\ tries' = NoCount
    /\ sending' = IF sending = "yes" THEN "lapsed" ELSE sending
    /\ UNCHANGED <<mark, request, expecting, mailed, guesses, made, balance>>

ReadCode(r) ==
    /\ At(r, "code")
    /\ request' = IF expecting = NoCode THEN [request EXCEPT ![r].at = "refused"]
                  ELSE [request EXCEPT ![r].at = "tries", ![r].expected = expecting]
    /\ UNCHANGED <<mark, cache, mailed, made, balance>>

\* A missing count counts as none.
CountedTries == IF tries = NoCount THEN 0 ELSE tries

ReadTries(r) ==
    /\ At(r, "tries")
    /\ IF CountedTries >= MaxTries THEN expecting' = NoCode /\ GoTo(r, "refused")
       ELSE UNCHANGED expecting /\ GoTo(r, "compare")
    /\ UNCHANGED <<mark, tries, sending, mailed, guesses, made, balance>>

Compare(r) ==
    /\ At(r, "compare")
    /\ IF request[r].code = request[r].expected
       THEN GoTo(r, "consume") /\ UNCHANGED guesses
       ELSE GoTo(r, "count") /\ guesses' = guesses + 1
    /\ UNCHANGED <<mark, expecting, tries, sending, mailed, made, balance>>

\* The cache's incr looks for the count, and adds one to it in another access, which makes
\* a missing count one; where it found none it fails, and the count is set to one instead.
FindTries(r) ==
    /\ At(r, "count")
    /\ IF tries = NoCount THEN GoTo(r, "restart") ELSE GoTo(r, "add")
    /\ UNCHANGED <<mark, cache, mailed, made, balance>>

AddTry(r) ==
    /\ At(r, "add")
    /\ tries' = CountedTries + 1
    /\ GoTo(r, "refused")
    /\ UNCHANGED <<mark, expecting, sending, mailed, guesses, made, balance>>

RestartTries(r) ==
    /\ At(r, "restart")
    /\ tries' = 1
    /\ GoTo(r, "refused")
    /\ UNCHANGED <<mark, expecting, sending, mailed, guesses, made, balance>>

\* Mutant: the answer of the delete is not looked at.
Consumed_Always == TRUE

\* The delete tells whether there was something to delete.
Consumed == expecting # NoCode

Consume(r) ==
    /\ At(r, "consume")
    /\ expecting' = NoCode
    /\ IF Consumed THEN GoTo(r, "clear") ELSE GoTo(r, "refused")
    /\ UNCHANGED <<mark, tries, sending, mailed, guesses, made, balance>>

ClearTries(r) ==
    /\ At(r, "clear")
    /\ tries' = NoCount
    /\ GoTo(r, "debit")
    /\ UNCHANGED <<mark, expecting, sending, mailed, guesses, made, balance>>

-----------------------------------------------------------------------------
(* The debit, in one transaction that locks the wallet.                    *)

\* The withdrawals one by one: of which key and code, and the how many-th.
Withdrawals ==
    UNION {{k} \X {c} \X (1..made[k][c]) : k \in RequestKeys, c \in 1..MaxSends}
Made == Cardinality(Withdrawals)
Withdrawn == Balance - balance
Covered == balance - Amount >= MinRemaining /\ Withdrawn + Amount <= DailyMax

Debit(r) ==
    /\ At(r, "debit")
    /\ IF Covered
       THEN /\ balance' = balance - Amount
            /\ made' = [made EXCEPT ![request[r].key][request[r].code] = @ + 1]
            /\ GoTo(r, "answer")
       ELSE UNCHANGED <<balance, made>> /\ GoTo(r, "refused")
    /\ UNCHANGED <<mark, cache, mailed>>

-----------------------------------------------------------------------------
EntryInit ==
    /\ mark = [k \in RequestKeys |-> Free]
    /\ request = [r \in Requests |-> Idle]
    /\ expecting = NoCode /\ tries = NoCount /\ sending = "no" /\ mailed = 0 /\ guesses = 0
    /\ made = [k \in RequestKeys |-> [c \in 1..MaxSends |-> 0]]
    /\ balance = Balance

EntryNext ==
    \/ SendCode \/ ZeroTries \/ CodeExpires \/ TriesExpire
    \/ \E k \in RequestKeys : MarkExpires(k)
    \/ \E r \in Requests :
           \/ \E k \in RequestKeys, c \in MailedCodes \cup {Wrong} : Enter(r, k, c)
           \/ ReadCode(r) \/ ReadTries(r) \/ Compare(r)
           \/ FindTries(r) \/ AddTry(r) \/ RestartTries(r) \/ Consume(r) \/ ClearTries(r)
           \/ Debit(r) \/ Answer(r)

EntrySpec == EntryInit /\ [][EntryNext]_entryVars

-----------------------------------------------------------------------------
EntryTypeOK ==
    /\ \A k \in RequestKeys :
           mark[k].state \in {"FREE", "PROCESSING", "DONE"} /\ mark[k].code \in Wrong..MaxSends
    /\ \A r \in Requests :
           /\ request[r].at \in Steps /\ request[r].key \in RequestKeys \cup {NoKey}
           /\ request[r].code \in Wrong..MaxSends /\ request[r].expected \in NoCode..MaxSends
    /\ expecting \in NoCode..mailed /\ mailed \in 0..MaxSends
    /\ tries \in Nat \cup {NoCount} /\ sending \in {"no", "yes", "lapsed"} /\ guesses \in Nat /\ balance \in Nat
    /\ made \in [RequestKeys -> [1..MaxSends -> Nat]]

\* Every withdrawal took one mailed code out of the cache: however often the app
\* repeats its request, and whatever mark expires, there are no more than mails.
MailPerWithdrawal == Made + (IF expecting # NoCode THEN 1 ELSE 0) <= mailed

\* The answer kept for a key says that money was taken only if it was, for this body.
KeptAnswerIsTrue ==
    \A k \in RequestKeys :
        mark[k].state = "DONE" => mark[k].code \in MailedCodes /\ made[k][mark[k].code] > 0

\* What leaves the wallet leaves the escrow in it, stays within the limit of the day, and
\* is what the withdrawals made add up to.
WithdrawalsCovered ==
    /\ Made > 0 => balance >= MinRemaining
    /\ Withdrawn <= DailyMax
    /\ Withdrawn = Amount * Made

\* Wrong guesses while the count of tries grows from one setting to the next: requests
\* that read the count before it was full may guess after that.
OneRun == MaxTries - 1 + Cardinality(Requests)

\* The count of one code starts anew when its mail sets it, when the count before lapses,
\* and when the request that used the code before clears it; each time it was missing,
\* each request may set it to one.
Restarts == 3 * Cardinality(Requests) + 3

\* Wrong guesses of one code are bounded although the count is read, looked for, added to
\* and set in accesses of their own; those that have read it when the code ends come on top.
GuessesBounded == guesses <= OneRun * (Restarts + 1) + Cardinality(Requests)

\* Repeated requests, marks that end too early and crossing guesses cannot make more
\* withdrawals than codes were mailed, nor more than the wallet and the day allow, nor
\* an answer kept that is not true, nor endless guesses of one code.
EntrySafe ==
    /\ EntryTypeOK
    /\ MailPerWithdrawal
    /\ KeptAnswerIsTrue
    /\ WithdrawalsCovered
    /\ GuessesBounded
=============================================================================
