# Verification of the CleanWise backend

TLA+ specifications of the CleanWise booking backend (`src/`, a Django and
Celery application on PostgreSQL), checked with TLC and proved with TLAPS.
Paths below are relative to `src/apps/` unless they start with `src/`.

## 1. The system

Customers book a cleaning service as one or several *sessions*
(`BookingSchedule`), pay in cash, by bank transfer (PayOS) or from a wallet,
and may use a voucher. Workers claim sessions, are invited to them or asked for
by the customer, check in and out; the platform keeps a commission of 10 %.
Admins move sessions, remove workers, cancel, complete, review profiles and
settle complaints. Celery beat runs the jobs that expire, complete and release
things (`src/core/settings/base.py:360`). An assistant answers in a chat and can
book, cancel and accept on the user's behalf.

Most state changes are PostgreSQL transactions at READ COMMITTED. Handlers of
bookings serialise by locking the booking row (`select_for_update`) and then the
rows below it. What interleaves is therefore: transactions of different handlers
in any order; inside a handler, what it read before it got the lock; steps after
a commit (pushes, caches, counters); and everything kept in the cache, where
each access stands alone. Many handlers of the other components take no lock at
all: they read a row, validate, and later save every column of it.

| Component | State | Operations | Interacts by | Hard part | Correct when | Modules |
|---|---|---|---|---|---|---|
| Booking life cycle (`bookings/`) | `Booking.status`, `payment_status`, `refunded_amount`, session statuses | create, cancel (customer, admin, one session), expire unpaid, unassign, reschedule, admin completion | calls refunds, earnings, vouchers in its transaction | six kinds of actors end sessions in any order; unlocked reads | statuses agree, final ones stay, refunds equal the work not done | `BookingLifecycle` |
| Forms, schedules, prices (`bookings/service_data_validation.py`, `schedule_builder.py`) | the form, the sessions built from it | validate, build, check, price | a service's schema and tables | three walks over one schema, two readings of the clock | a package is spread as chosen, what is accepted is priced as listed | `BookingEntry` |
| Assignments (`worker/assignment_service.py`) | `BookingAssignment` | claim one, claim a package, cancel, missed check-in and check-out, expire unclaimed | locks the booking, writes its status | candidate lists read before the lock; a worker's other bookings | ASSIGNED means covered; one worker per session | `BookingLifecycle`, `Dispatch` |
| Invitations, preferred worker (`worker/invitation_service.py`, `worker/tasks.py`) | PENDING assignments, the preferred worker's time | invite, respond, withdraw, expire, decline, tell the customer | finishes with a claim | an answer racing expiry, withdrawal, reschedule, another claim | one outcome per invitation, first refusal respected, everyone told once | `Dispatch` |
| Check-in and check-out (`worker/checkin_service.py`) | session status, cash payment | check in, check out, confirm cash | records earnings | assignment looked up before the lock | a session in progress has a worker | `BookingLifecycle` |
| Earnings, complaints (`wallets/earning_service.py`, `complaints/`) | `WorkerEarning`, `commission_reserved`, complaint and outcome | reserve, release, record, hold, release, void; file, resolve, withdraw | wallets, refunds | clawing back what other keys paid; the release job's unlocked check | each commission and earning once; refunds within the price | `BookingLifecycle`, `Complaints` |
| Refunds, ledger (`wallets/`) | balance, `WalletTransaction`, keys | credit, debit, refund, request, confirm and reject withdrawal | everything that moves money | keys of different callers, concurrent debits | balance is the sum of the rows | `BookingLifecycle`, `Payout`, `Complaints` |
| Withdrawals (`wallets/withdraw_service.py`, `withdraw_otp.py`, `common/idempotency.py`) | `WithdrawRequest`, code and key in the cache | send code, create, submit, apply result, refresh, resolve review | PayOS over HTTP outside transactions | unknown results, retries, crashes, concurrent callers | one code one withdrawal; refunded only if the money did not leave | `WithdrawEntry`, `Payout`, `MoneyMove` |
| Top-ups, payments (`wallets/topup_service.py`, `payments/`) | `WalletTopup`, `Payment` | create, confirm, refresh, expire, new link, webhook | PayOS | two confirmations and an expiry race; a link replaced while a report waits for the locks | paid money is credited once | `BankTransfers`, `BookingLifecycle` |
| Bank accounts (`payments/views.py`, `bankhub.py`) | `UserPaymentMethod`, `BankAccountVerification` | add, rename, delete, choose default, start and confirm verification | bank | unlocked reads around calls to the bank, whole rows written back | verified means confirmed | `BankAccounts` |
| Vouchers (`vouchers/`) | `Voucher`, `UserVoucher`, quota | claim, assign, edit, reserve, mark used, release | booking transactions | quota under concurrency; an edit saves the whole row | quota kept, what is offered can be had | `Vouchers`, `BookingLifecycle` |
| Reviews (`reviews/`) | rows, average, images | create, edit, hide | worker profile, Cloudinary | an average over unlocked rows, which a profile edit writes back; files outside the transaction | average equals the rows | `Reviews` |
| Chat (`chat/`) | conversations, messages, violations, sockets | send, read, typing, authenticate | websocket | limits over several chats, repeated sends, timers beside handlers | a lock stops everything, a key is used once, sockets end | `ChatMessages`, `ChatSocket` |
| Notifications (`notifications/`, reminders of `worker/tasks.py`) | rows, badge, push tasks, devices | tell, read, clear, push, remind | commits of all the others | steps after the commit | nothing pushed that was rolled back, nothing twice | `Notifications`, `Reminders` (proofs in `Platform_proofs`) |
| Accounts (`authentication/`) | `User`, reset codes, refresh tokens, `WorkerProfile` | sign in, refresh, reset, edit, submit, review | notices | no locks but one; whole rows saved | tokens rotate once, reviews are of what was submitted | `Passwords`, `Profiles` (proofs in `Platform_proofs`) |
| Addresses, catalogue (`addresses/`, `services/`, `common/cache_utils.py`) | rows, defaults, images, versioned cache | create, edit, delete, set default | bookings, Cloudinary, Redis | stale rows written back; cache filled while it is invalidated | one default, files exist, entries fresh | `Addresses`, `Catalogue`, `CatalogueCache` (proofs in `Platform_proofs`) |
| Notices of a booking (`notifications/signals.py`, `services.py`, callers) | who was told what, notices left for after the commit | end, miss, complete, pay, refund, remove a worker | inside the handlers' transactions and after them | signals that compare statuses, handlers that leave a notice to another, lost and overtaken calls | told once what happened, promises kept | `StatusNotices` |
| Requests of workers (`worker/views.py`, `common/distributed_lock.py`, `chat/service.py`) | locks in Redis, links of acceptances to chats, tabs | ask for a session or package, link the chat, list | assignments, chat, assistant | locks that expire while held; links after the commit | one worker, who can write and finds the session once | `WorkerDesk` |
| Areas, favourites (`worker/serializers.py`, `favorite_worker_service.py`) | `WorkerWorkingArea`, favourites, their monthly entries | save areas, favour | booking forms, job board | an area list rewritten by unlocked statements; a month that ends within a request | areas are what was asked for, favourites are in their month | `WorkerDirectory` |
| Income summary (`wallets/worker_earnings.py`) | nothing of its own | put the summary together | reads earnings | queries without a common transaction; month and week borders | nothing hidden, bars add up | `WorkerIncome` |
| Payment history (`payments/history_service.py`) | nothing of its own | list, filter, total | reads payments and ledger | two tables, two queries, limited rows | a payment is one row, totals agree | `PaymentHistory` |
| Rewards (`analytics/vip_report.py`) | `MonthlyVipReward`, `UserVoucher` | give a batch, report | vouchers | locks of a batch in order; checks of what nobody locks; a counter that an edit writes back | thanked once, all or none, no deadlock | `VipRewards` |
| Assistant (`chatbot/`) | runs, messages, drafts in table and cache; what the tools of a turn have read | claim a turn, call tools, answer, show cards, prepare, confirm | booking, cancel, accept, check-out, complaints | turns that hang, die, are repeated; a model that may ask for any card | it does what was agreed, once; cards are of what was read | `Assistant`, `AgentTurn` |
| Reports, AI engine | rows without a protocol | - | read the rest | - | - | - (section 12) |

The hazards of this code, each at its line, are listed in `PROJECT.json`.

## 2. Modules

Each component has a module with its variables, one action per operation and its
properties; components that share no state are checked side by side in one
instance (`MCServices`, `MCPlatform`, `MCMoney`, `MCDesks`): a variable `active` says which
of them moves, so that their states add up instead of multiplying. Components
that act on one another are one module: `BookingLifecycle` holds bookings,
assignments, check-in, refunds, commission, voucher and webhook; `Dispatch` holds
everything that decides whose a session is; `Complaints` holds earnings, refunds
and complaints; `BankTransfers` holds top-ups, links and webhooks.

| Module | Of | Checked by |
|---|---|---|
| `BookingLifecycle` (proofs in `BookingLifecycle_proofs`) | one booking from creation to end | `package`, `single` |
| `Dispatch` (proofs in `Dispatch_proofs`) | who gets a session: preferred worker, invitations, job board, reschedules | `dispatch`, `double_booking` |
| `BookingEntry`, with the forms of `MCForms` | from a form to priced sessions | `platform` |
| `Payout`, `MoneyMove` (proofs in `Payout_proofs`) | a withdrawal and PayOS; its abstract specification | `desks`, `money`, `payout_overlap` |
| `WithdrawEntry` (proofs in `Bank_proofs`) | idempotency key, one-time code, limits and debit of a withdrawal | `services`, `otp_reuse` |
| `BankTransfers` (proofs in `Bank_proofs`) | top-ups, payment links, webhooks | `money` |
| `BankAccounts` (proofs in `Bank_proofs`) | bank accounts and their verification | `services` |
| `Complaints` (proofs in `Complaints_proofs`) | complaints, held earnings, session refunds | `services`, `double_refund` |
| `Vouchers` (proofs in `Desks_proofs`) | quota, offers, wallets of vouchers | `services` |
| `Reviews` (proofs in `Complaints_proofs`) | reviews, average, images | `services` |
| `ChatMessages`, `ChatSocket` (proofs in `Chat_proofs`) | messages and moderation; sockets and typing | `services`, `money` |
| `Passwords`, `Profiles` (proofs in `Platform_proofs`) | accounts and tokens; worker profiles | `platform` |
| `Notifications`, `Reminders` (proofs in `Platform_proofs`) | notices, badge, pushes; the reminder job | `platform` |
| `Addresses`, `Catalogue`, `CatalogueCache` (proofs in `Platform_proofs`) | reference data under concurrent edits | `platform` |
| `Assistant` (proofs in `Platform_proofs`) | turns and drafts of the chatbot | `platform`, `same_turn_booking` |
| `AgentTurn` | one run of the language model: tools, sources, cards | `desks` |
| `StatusNotices` | what the customer and the workers of a booking are told | `desks` |
| `WorkerDesk` (proofs in `Desks_proofs`) | a worker's requests, their locks in Redis, chat links and tabs | `desks` |
| `WorkerDirectory` (proofs in `Desks_proofs`) | areas and favourites | `desks` |
| `WorkerIncome`, `Sums` | the income summary; sums of amounts (proofs in `Desks_proofs`) | `desks` |
| `VipRewards` (proofs in `Desks_proofs`) | vouchers for the best customers of a month, with their row locks | `desks` |
| `PaymentHistory` | the screen of payments and refunds (proofs in `Desks_proofs`) | `desks` |

Still worth doing: the row locks of the handlers as a module of their own (the
deadlock of `unassign`), and proofs of `StatusNoticesSafe` and `AgentTurnSafe`.

## 3. Module `BookingLifecycle`

One booking with its sessions. State and code:

| Variable | Code |
|---|---|
| `bookingStatus`, `sessionStatus` | `Booking.status`, `BookingSchedule.status` |
| `money` | `Booking.payment_status`, `refunded_amount`, idempotency keys of the refunds paid |
| `method`, `payment`, `paidAt` | the booking's `Payment` |
| `transfer`, `returned` | the transfer at the bank (environment), and what `refund_unmatched_payment` put in the wallet |
| `voucher` | `UserVoucher.status` |
| `worker`, `reserved` | the ACCEPTED `BookingAssignment` of a session and its `commission_reserved` |
| `debited`, `earning`, `settled` | commissions taken from each worker's wallet, `WorkerEarning` |
| `phase` | the clock against the session: `Far` (more than 6 h ahead), `Near`, `Early` (last 30 min), `Grace` (first 30 min after the start), `Work` (until 30 min after the end), `Over` |
| `unassigning`, `lookup`, `late`, `stale` | values read by a request or job before its lock |
| `raced` | history: some transaction acted on such a value after it had changed |

Actions are whole transactions, named after the functions: `ClaimSchedule`,
`ClaimPackage` (both through `Accept` and `SyncAfterClaim`), `CancelAssignment`,
`CheckIn`, `CheckOut`, `AdminComplete`, `MissedCheckOut`, `CustomerCancel`,
`AdminCancel`, `CancelSchedule`, `ExpireUnpaid`, `WebhookLate/Under/Paid`,
`ConfirmCash`, `Reschedule`. Three handlers are split where they read without
the lock:

- `UnassignRead` / `UnassignCommit` (`bookings/admin_services.py:209`): the
  booking comes in by a join, the lock is on the session only.
- `LookUp`, then `CheckIn`, `CheckOut` or `RejectRequest`
  (`worker/checkin_service.py:39`): the assignment is looked up before the lock
  and not again.
- `ListLate` or `ListStale`, then `Expire` (`worker/assignment_service.py:476`):
  the job lists sessions first. `Expire` is what one run does to one booking:
  it removes the late workers, lists the unclaimed sessions, marks each of them
  missed, refunds each, and closes the booking, all in one transaction.

`Transfer` and `Tick` are the environment: the customer's bank and the clock.
Because sessions of a booking start at arbitrary times, their phases move
independently.

Abstractions, all named in the module: one transfer per booking; one request
per session and one expiry run per booking in flight; the unpaid time limit may
fire at any time; commissions are counted, not priced; `MaxReschedules` bounds
the reschedules. A run of the job that is aborted by the database is the same as
one that never started.

## 4. Modules `Payout` and `MoneyMove`

Withdrawals of one wallet. `MoneyMove` is the abstract specification: an amount
is in the wallet, held, at the bank or returned. `Payout` is the protocol of
`wallets/withdraw_service.py`, split into the statements that commit alone:

| Variable | Code |
|---|---|
| `balance` | `Wallet.balance` |
| `status`, `submitted`, `unknown`, `review`, `payoutId` | `WithdrawRequest.status`, `submit_attempts` (counted up to 2: the code only asks whether it is above 1), `had_unknown_result`, `needs_review`, `payout_id` |
| `age` | the request's age against `MAX_RETRY_AGE` and `MAX_PROCESSING_AGE` |
| `call` | for each process (the request that creates the withdrawal, the job, a customer's poll) the next step, the withdrawal it works on, whether it took itself for the first attempt, and what it heard |
| `payos` | the payout at PayOS, one per `reference_id` since this is the idempotency key |
| `wire` | calls that were given up and may still arrive |
| `gap` | history: submissions of the request overlapped, or its account number could not be read after an earlier submission |

One submission goes `submit`, `count`, `call`, `sent`, (`accepted`), `answered`,
then to `conclude` (`_finalize`), `flag` (`_flag_review`) or back to idle; a poll
goes `ask`, `polled`, then the same. `_finalize` is one transaction, with
`BalanceAfter` for `admin_confirm_withdraw` and `admin_reject_withdraw`. The
wallet transaction's status is not a variable: `_finalize` is the only caller
of these two, and writes both statuses in one transaction, so its branch for a
wallet transaction that is not PENDING is never taken.

Environment: PayOS accepts, answers, refuses (a known reference too) or loses a
call; a lost call or one cut off by `Crash` may arrive later (`Straggle`) or
never (`Vanish`); the bank pays or fails a payout; `Resolve` is the admin, who is
assumed to do what the docstring of `resolve_review` asks: look the payout up
once it has ended and no call is under way. What comes before the row of the
withdrawal (key, one-time password, limits) is module `WithdrawEntry`; the
throttle on polling only refuses requests. A create call of the
client (mock mode included) behaves as `Accept`, `Answer`, `Refuse` or `Lost`.

| Property | Says | Would break if |
|---|---|---|
| `SuccessMeansPaid` | SUCCESS only for what PayOS has paid | a state that is not final is taken for success |
| `RefundMeansUnpaid` | refunded only if the money has not left and no call can still send it, except in a gap | the counted attempt is not asked before a refund |
| `LedgerBalanced` | the balance and what was taken for requests that have not failed add up (`reconcile_wallets`) | two conclusions both act |
| `MovesOnce` | `Payout` implements `MoneyMove` | the money is both returned and paid |
| `EventuallyDecided` | a withdrawal ends or is shown to an admin | a time limit does not raise the flag |

The run checks the first three as one invariant, `PayoutSafe`.

The exception in `RefundMeansUnpaid` is no comfort: the run `payout_overlap` shows
that the code does refund money that leaves there, and so it does when a process
has died after PayOS took the call and the next one cannot decrypt the account
number (`wallets/withdraw_service.py:180` asks `had_unknown_result` and not the
counted attempts).

## 5. Properties of `BookingLifecycle`

| Property | Says | Would break if |
|---|---|---|
| `ClosedBookingHasNoActiveSession` | no session of a closed booking is waiting or in progress | a closing handler counts the remaining sessions wrongly |
| `UnpaidIsIdle` | nobody is accepted for or works on a booking to be paid online before it is paid | a claim forgets `_is_bookable` |
| `MoneyConserved` | every dong of a reported transfer is the price or back in the wallet | a repeated webhook pays again |
| `RefundMatchesOutcome` | an ended wallet booking kept exactly the price of the work done | shares, keys, caps or rounding of different handlers disagree |
| `NothingDoneNothingKept` | an ended booking without work keeps no money, one with work keeps some; no payment left pending | a pending payment survives the booking |
| `VoucherFollowsWork` | used if a session was completed, else given back | a release misses a used voucher |
| `CommissionLedger` | a worker's debits are the commissions held plus those settled | a release forgets the wallet or runs twice |
| `AssignedIsCovered` | an ASSIGNED booking has a worker on each session not cancelled | a removal leaves the booking ASSIGNED |
| `InProgressHasWorker` | a session in progress has its worker and its booking is in progress | the job removes workers who checked in |
| `OpenHasActiveSession` | an open booking can still move | the last session ends without closing the booking |
| `DoneIsFinal` | closed bookings and done sessions stay so | a job acts on an out-of-date list |
| `EventuallyClosed` | the scheduled jobs bring every booking to its end | any path that closes nothing |

`BookingSafe` is `TypeOK`, `ClosedBookingHasNoActiveSession` and `UnpaidIsIdle`,
`EndedIsSettled` is `RefundMatchesOutcome` and `NothingDoneNothingKept`, and
`OpenIsStaffed` is `AssignedIsCovered`, `InProgressHasWorker` and
`OpenHasActiveSession`: the names the configuration checks.

`AssignedIsCovered`, `InProgressHasWorker`, `OpenHasActiveSession` and
`EventuallyClosed` are claimed as long as no transaction has acted on an
out-of-date value (`~raced`); the code breaks
them otherwise (section 10). `raced` is set only by a worker request whose worker has lost
the session and by an unassign that writes another status than it would have
written under the booking's lock. All the others hold with those races
included. `RefundMatchesOutcome` is about wallet bookings: a bank booking may
have a session marked missed before the transfer arrives, and the code does not
refund it; no document of the repository says what should happen.

## 6. Module `Dispatch`

Who gets a session. Time is counted in half hours; a booking may have several
sessions, and there is more than one booking, because a worker's calendar is
shared by all of them.

| Variable | Code |
|---|---|
| `start`, `status`, `open`, `bookable` | `scheduled_start`, statuses of session and booking, paid or to be paid in cash |
| `preferred`, `prefUntil`, `prefNotified`, `told` | the worker the customer asked for, `preferred_worker_expires_at`, `preferred_expiry_notified_at`, and the messages sent |
| `invite`, `inviteUntil`, `holder` | `BookingAssignment` of each worker: PENDING with `expired_at`, ACCEPTED, and the others |
| `claiming`, `moving` | a claim and a reschedule between their checks and their writes |
| `expiring`, `noticing` | what the two jobs have listed |

`ClaimSession`, `ClaimPackage` and `AcceptInvitation` check and `FinishClaim`
writes; `BeginMove` and `FinishMove` are the reschedule. They are split because
they read the worker's other sessions under locks that do not exclude each
other. Everything else is one transaction: `SendInvitations`,
`WithdrawInvitation`, `RejectInvitation`, `ExpireInvitation`, `Pay` (which opens
the preferred worker's time), `Decline`, `TellEndedRequest`, `CancelAssignment`,
`UnassignByAdmin`, `CancelSession`, `CancelBooking`, `StartWork`, `CloseSession`.
`Listed`, `ClaimState`, `ShownInvitation` and `CanCancel` are what the app is
told; the properties compare them with what the handlers accept.

| Property | Says | Would break if |
|---|---|---|
| `InvitationsSafe` | one holder, no open invitation left beside one, none in force together with the preferred worker's time, none that ends after half an hour before the start | a claim leaves the other invitations open |
| `ClaimsNeverOverlap` | without a reschedule no worker has two sessions at a time | a package is not compared with itself |
| `ToldOnce` | the customer hears once that the preferred worker will not come | a refusal does not mark the session |
| `OffersHold` | what is listed can be claimed, what is shown open can be accepted or left | the job board ignores the preferred worker |
| `FirstRefusal` | nobody passes the preferred worker, or open invitations | payment does not open the time |

## 7. The other modules

Each row names what is a step of its own, because that is where others come in.

| Module | Steps and state | Its property says |
|---|---|---|
| `WithdrawEntry` | `begin_idempotent` and `finish`, the marks that expire (`MarkExpires`), mailing a code (its hash and its count are two writes), reading, comparing, deleting it, finding, adding to or restarting the count, the debit under the wallet's lock; every access of the cache is a step, and each entry may expire; state in the cache: `mark`, `expecting`, `tries` | `EntrySafe`: no more withdrawals than codes mailed, kept answers true, escrow and daily limit kept, a code is guessed a bounded number of times: at most `OneRun` between two settings of the count, which is set at most `Restarts` times |
| `BankTransfers` | creation (count, call, row), transfers, webhooks lost and repeated, questions to payOS and the use of their answers, the expiry job; a report finds its payment (`FindPayment`), waits and is handled (`HandlePaymentReport`), while its link may be replaced | `TransfersSafe`: what was reported arrives exactly once (a second transfer is dropped only if a link was replaced while a report waited), a report put aside went to a replaced link, pending top-ups bounded; `TopupIsCredited`: a top-up paid in full, even if each webhook is lost |
| `BankAccounts` | every handler reads first (`handlers` holds what it read) and writes later, `Edit` the whole row; `ExpireAttempt` and `ResetAccount` are the two saves of an expiry; the bank confirms or not in between | `AccountsSafe`: verified means confirmed by the bank, a verification under way can end unless an edit put it back, one attempt, bounded number |
| `Complaints` | decisions in one transaction, the release job in two (look, credit); sessions are completed and missed beside them | `ComplaintsSafe`: refunds add up and stay within the price, no session paid to both sides beyond shortfall and waiver, no earning credited twice, and the preview is what is booked |
| `Vouchers` | claims under the row's lock; an admin's edit reads, validates and writes all columns later | `VouchersSafe`: quota equals wallets unless an edit was overtaken, what the app offers can be had, one live booking per voucher taken |
| `Reviews` | a change computes the average when it starts to write and commits later, may roll back; old images are destroyed after the commit; `ReadProfile` and `SaveProfile` are the worker's edit of his profile, which writes the average it has read | `ReviewsSafe`: stored average right unless changes overlapped or an edit put an earlier one back, images exist and are not shared, an average is between 0.00 and 5.00, reviews neither lost nor rewritten late |
| `ChatMessages` | a send waits for the writer's row after its check; receipts in three statements | `ChatSafe`: warnings bounded, a key handled once, receipts true, silence while locked |
| `ChatSocket` | a consumer awaits inside each event; two timers close the socket beside it | `SocketSafe`: nothing left of a closed socket, "typing" has a source; `SocketsEnd`: both come to an end |
| `Passwords` | each statement of forgot, verify, reset, change, profile save, status, login; rotation of a token under its lock; a process may die between any two (`GiveUp`) | `PasswordsSafe`: the password chosen last works unless an old profile row was saved over it, tokens are exchanged once, resets end the tokens they found, codes and tries few |
| `Profiles` | submission under the lock; edits and reviews write what they read; notices come from the status before the save | `ProfilesSafe`: only the submitted is reviewed, approver, reason and notices fit the status |
| `Notifications` | row in the transaction; after the commit: count, send the number, queue the push; the push task lists devices, posts, retries | `NotificationsSafe`: nothing pushed that was rolled back, the badge follows, a device hears again only after a failure |
| `Reminders` | a run lists, then takes each session by a conditional update, while the session moves | `RemindersSafe`: once per time, marked means reminded |
| `CatalogueCache` | save, bump and the three steps of a reader; entries expire, a bump may find no version | `EntryIsFresh`: the entry under the current version is the committed content, unless a commit still waits for its bump or a version was set back |
| `Catalogue` | load (with the images, `FirstLoaded` takes the first of these), save, icon, images one by one, commit or roll back, destroying files | `CatalogueSafe`: one primary image at most and one after each edit that found images, files exist |
| `Addresses` | load, then the statements of a transaction one by one, each waiting for the rows that others hold (`work`): check of a move, write of the whole row, counting, deleting, replacing, and the three of `set_default_address`; a request may fail at any statement (`Refuse`: the move of a place in use, the unique constraint, a circle of waiting that the database breaks); bookings read the address and are made later | `AddressesSafe`: a customer with addresses has a default, the place of an open booking stays |
| `BookingEntry` | submit (validate and build), the clock, create (check again and price) | `FormsSafe`: packages spread as chosen and in time, what is accepted is priced, pay adds up, prices are those listed for the things named (`ListedPrice` of `MCForms`, computed by key, as the code does not) |
| `Assistant` | a turn is claimed, tools are called in any order, the answer is written; processes die, hang and come back after the lease; drafts in a row or in the cache, where a call gets one (`FetchDraft`), deletes what is there (`TakeDraft`) and then does what it got (`CarryOut`), beside other calls | `AssistantSafe`: one answer per message, of the last attempt; each thing done deleted a draft of its own, and is that draft or an older one, not of its own attempt (`ActedOnce`); the history told to the model is the end of what the user saw, in its order, as long as turns and characters allow (`HistoryAsSeen`) |
| `StatusNotices` | each handler is one transaction, a function made of its steps in order, so that a notice sees the state at that step; check-in and check-out have found their worker before (`FindMine`), the removal by an admin has read the booking (`ReadForRemoval`); calls after the commit run later, in any order, or are lost with their process | `StatusNoticesSafe`: the end told once and as it was (`EndIsToldOnce`), done and missed sessions by one notice or the other (`OutcomeIsTold`), workers told of what was taken from them (`LossesAreTold`), promised refunds made, refunds and payments told once (`PromisesAreKept`, `RefundsAreTold`, `PaymentIsToldOnce`), the newest notice of a worker right, or that of the check-in that began the session (`NewestIsRight`) |
| `AgentTurn` | each call of the model, each tool and the answer are steps; the model may call any tool, say anything and ask for any cards; a deadline, failures, one retry; services, articles and bookings vanish meanwhile | `AgentTurnSafe`: cards were read in this turn, sources are kept and first, service cards are named in the text, what is shown is there and of who asks, and the ranks of both searches of the help are added up |
| `WorkerDesk` | taking the Redis lock, its expiry, the service's transaction, release by token, each chat link after it; dying in between; sessions begin, end and are missed beside it | `DeskSafe`: nobody shares a lock that has not expired, a worker can write to his customer unless the link failed, nothing unaccepted is linked, each session is in one tab, and the assistant finds the same |
| `WorkerDirectory` | a save of areas in its statements, each seeing what others had committed when it began and waiting for their rows; a favourite's row and its commit; acceptances, months | `DirectorySafe`: whatever saves overlap, nothing is left that none of them asked for and nothing is lost that all of them asked for (`AreasAsAsked`), so one alone leaves its areas of one province; each favourite counted in the month it was made (`CountedWhenMade`) |
| `WorkerIncome` | the queries of a summary one by one, in the order of the code, while earnings are recorded, settled and voided and days pass | `IncomeSafe`: no earning is missing between two queries, the bars add up to the pay, weeks and months meet without overlap |
| `PaymentHistory` | the two queries of the screen; payments made, settled, cancelled, refunded and taken back in between | `HistorySafe`: a payment is one paid row, the totals agree with the money when nothing moved, every row is under one choice of status |
| `VipRewards` | a batch locks its voucher, then its customers in order, checks, gives one after the other, commits or rolls back; giving by hand; an edit of a voucher reads and validates (`BeginRewrite`) and writes the row, its counter too, under the lock later (`FinishRewrite`); the report's queries | `VipSafe`: one reward per customer and month and none without a voucher, the counter within its limit and equal to the wallets unless an edit was overtaken (`IssuedAreCounted`), a batch whole or undone, closed accounts get nothing, no cycle of waiting, the report is sane unless somebody became eligible meanwhile |

In `MCDesks`, `ToldSafe` is `StatusNoticesSafe`, `AgentTurnSafe` and `HistorySafe`,
each while its component moves; the other properties of this table
are checked under their own names.

Where a property of this table has an exception ("unless an edit was overtaken"),
a history variable marks exactly the transaction that wrote from an out-of-date
reading; what goes wrong there is described in section 10.

## 8. Runs that pass

All have `CHECK_DEADLOCK FALSE`: a booking, a withdrawal or a conversation that
has ended and has nothing in flight has no next step, as it should.

| Run | Instance | Why it is enough |
|---|---|---|
| `package` (`MCPackage.cfg`) | 2 sessions, 2 workers, bank transfer and wallet (cash is for a single session), 1 reschedule, symmetric; price 5, so that one share is 3 and the last refund is cut short | two sessions give every mix of done, cancelled and missed; two workers give lost and regained sessions |
| `single` (`MCSingle.cfg`) | `FairSpec`, 1 session, 2 workers, all methods of payment, 1 reschedule | cash bookings have one session; `package` shows that an open booking has an active session, this run that an active session ends |
| `desks` (`MCDesks.cfg`) | a withdrawal of 2 from 3, 2 processes whose submissions do not overlap (`NoOverlap`, part of the guard `Explored`); a turn with 2 services, 2 bookings of which 1 is somebody else's, 3 sections of 2 articles, limits of 3 tools, 2 model calls, 2 cards; a booking of 2 sessions with 2 workers; 2 requests for 2 jobs on 2 days; 1 worker with 2 saves over 3 wards of 2 provinces; 2 earnings, one of each kind, in a month of 8 days and one of 2; 3 payments with 2 read; 2 batches over 2 customers and 2 vouchers, one of them for a single customer, whose limit an edit may raise to 2 | `MovesOnce` under crashes and late calls (the theorem covers the rest); two of everything that meets, and one more than what is read or allowed; a month that ends within a week; requests and workers are symmetric |
| `money` (`MCMoney.cfg`) | `MoneySpec`; 1 withdrawal of 2 from 3 with 1 to remain, 2 processes, its account may become unreadable; 3 top-ups of which one is paid, 2 links of one payment; 2 devices | two processes give overlapping submissions; the top-ups share nothing but the limit of 1 |
| `dispatch` (`MCDispatch.cfg`) | a booking of two sessions and one of a single session, 2 workers, 1 reschedule, 4 half hours, at most two steps in flight (`Bounds`) | the third session is there to clash with the others; every pair of handlers meets |
| `services` (`MCServices.cfg`) | two or three of everything (accounts, requests, keys, sessions, vouchers, reviews, chats), limits of 1 or 2; 2 codes mailed, 1 wrong try allowed | limits are reached with two requests, and passed with three; the second code is mailed while the first is compared |
| `platform` (`MCPlatform.cfg`) | two requests at a time for accounts, profiles, notices, catalogue; three writers of the cache; three requests about two addresses; three kinds of service with all forms of `MCForms`; two messages with two attempts each, two calls of tools at once, messages of 1 or 3 characters and a history of 2 turns and 2 characters | a third request adds only orders of what two already do; the forms have each kind of field, each empty, wrong and right |

`FewComplaints`, `FewMessages`, `FewAccounts` (one account is verified, one at a time is
deleted), `FewEdits` (one edit of the profile at a time, while no image is stored; all in
`services`),
`FewCredentials`, `FewDrafts` (a draft is replaced by another only where a booking is made or
an address added) and `FewCalls` (two calls meet over the draft of an address only, whose
guards are those of the other kinds; in `platform`) leave out combinations of
independent parts and are state
constraints: what they cut is not explored further, so no claim is made there.
Those of `MCDesks` are a guard of its next state (`Explored'` in `DesksNext`), with the
same effect: a turn reads little once it is late or a card was
withdrawn, and calls three tools only to ask for cards that stay (`FewCalls`), one crash between a change and its notice, none while a request stands at the door, and one such request and one removal at a time (`FewLosses`),
two requests are together only while the jobs are on offer for the first time (`FewAsks`), a
favourites stand still while a worker saves his areas, and wards are closed only before saves meet (`FewSaves`), a summary is
asked for at the borders of weeks and months, of jobs done around them, and looked
at before the second midnight (`FewDays`), one lapse of a customer, one batch while a report is read, one edit at a time, of the first voucher, while nobody lapses or reads a report (`FewLapses`), and the third payment
comes when one of the others was settled from the wallet (`FewBills`).

Fairness. Celery beat starts the expiry and missed check-out jobs every 60
seconds and the clock advances, so `ListLate \/ ListStale`, `Expire`, `Tick` and
`MissedCheckOut` are weakly fair. Nothing that people do is fair. In `Payout` the
job runs every minute over all open requests and calls end by a time-out, so the
steps of a process and `Tick` are weakly fair; since crashes may happen at any
time, `Refresh` and the steps after it are strongly fair: a process does not die
at the same point forever. PayOS need not answer and the admin need not act. The
top-ups' expiry job and their clock are weakly fair (`BankFairness`), transfers,
webhooks and answers are not. A socket's event handlers end and its timers fire
(`SocketFairness`); users do nothing by necessity.

## 9. Runs that show the code differing from what the repository says

| Run | Statement | What happens |
|---|---|---|
| `double_booking` | overlapping sessions of a worker are refused (messages of the claim and of the reschedule) | a reschedule and a claim read each other's sessions before either has written |
| `otp_reuse` | of two requests with the same right code only one passes (comment in `wallets/withdraw_otp.py:62`) | the second finds the code mailed meanwhile and uses that up with the old comparison |
| `double_refund` | a session refunded in full is not refunded again (`complaints/resolution_service.py:90`) | the refund of a session missed or cancelled later has another key and does not look |
| `payout_overlap` | the wallet is refunded only if the money has surely not left (head of `wallets/withdraw_service.py`) | the first submission reads `attempts = 1`, a second one is accepted by PayOS, the first is refused and refunds |
| `same_turn_booking` | a booking draft is confirmed in the next message (`chatbot/services/booking.py:116`) | a UUID is compared with a string, so the turn that prepared the draft may confirm it |

## 10. Other disagreements met while modelling

They have no run of their own; the models behave as the code does.

Bookings and assignments:
- `worker/checkin_service.py:40`: check-in looks its assignment up before the
  lock. An unassign in between leaves a session in progress without a worker,
  which no job completes (`assignment_service.py:442`) and the admin cannot,
  against the help article that overdue sessions are completed by the system; and
  the newest notice of the session names the worker who has left it.
- `bookings/admin_services.py:231`: unassign locks the session only and writes
  PENDING over the IN_PROGRESS another session's check-in has written.
- `worker/assignment_service.py:494`: the expiry job's second look omits the
  start time; a session an admin has just moved is marked missed.
- `worker/assignment_service.py:479`: late workers are removed and the sessions
  without a worker marked missed in one transaction, while the help article says
  that the booking looks for another worker again.
- The test at `bookings/tests.py:313` expects the payment of a transfer below the
  price to be FAILED; `handle_payos_webhook` leaves it REFUNDED.
- A session missed before the bank transfer arrives is not refunded when the
  booking is then paid (`payments/webhook_service.py:101`).
- A package built exactly at the lead time is refused if the clock moves before
  `_validate_schedules`. An extra named twice is charged twice; an item whose
  price is not found is free when another item has one.

Money and vouchers:
- `wallets/withdraw_service.py:180` refunds when the account number cannot be
  decrypted, though an earlier process may have died after PayOS took the call.
- `_get_payout_method` (`wallets/withdraw_service.py:72`) requires VERIFIED;
  `bankhub` only sets SANDBOX_VERIFIED.
- An admin's edit of a voucher writes the whole row (`vouchers/views.py:171`): the
  count of issued vouchers can be set back (`overtaken`), and more are then given, by
  claims and by rewards, than the limit says (`outdated` in `VipRewards`).
- `payments/webhook_service.py:55`: while the report of a transfer waits for the locks,
  a new payment link may replace the order code it was found by. The payment is then
  settled by the old transfer, and the one made to the new link is dropped by
  `if payment.paid_at` without a refund or a log (`overtaken` in `BankTransfers`).
- `wallets/topup_service.py:185`: a top-up transferred short of its amount is credited by
  its webhook only; if that is lost, the polling waits for PAID and the job expires it.
- An account's edit (`payments/views.py:99`) saves every column it has read: it can bring
  back an account deleted meanwhile, past the limit, or a PENDING verification that
  nobody can confirm or expire any more (`writtenBack`).
- The wrong tries of a withdrawal code are read, found missing and set in accesses of
  their own: two requests that find no count each restart it at one, so that more than
  `MAX_TRIES` guesses are possible.

Accounts and profiles:
- A profile save writes every column of the user (`authentication/serializers.py:130`):
  it can undo a password reset or a deactivation (`overwritten`).
- An edit of a worker's profile can write back a status read before a review
  (`reverted`); a review does not look at the status again under its lock, so a
  profile withdrawn to DRAFT meanwhile can be activated.
- A worker's edit of his profile (`authentication/serializers.py:536`) saves the average
  rating it has read: a review written meanwhile is missing from it until the next one.
- `WorkerRegisterView`'s docstring says PENDING; the profile starts as DRAFT.

The rest:
- The conversation of a job is created once after the claim and a failure is only
  logged (`worker/views.py:395`); whether a chat is open is asked before the send
  waits for its turn (`chat/service.py:85`).
- Clearing all notifications does not send the badge; a reminder run that listed a
  session before it was moved marks the new time as reminded.
- A cache version that expires is set to 2 by whoever bumps it next, also after
  later bumps (`rewound`); the cached provinces have no version at all.
- A PATCH of a service or an address writes the whole row it had read: a deleted
  address can come back, a replaced icon too; an image destroyed at Cloudinary
  stays destroyed when its transaction is rolled back.
- `services/serializers.py:436` looks for the first image in the prefetched list: an edit
  that deletes the primary image without choosing another may pick the deleted row, whose
  save then fails after its file was destroyed; the first images added to a service
  without any get no primary one.
- `addresses/serializers.py:74`: `ward`, `city` and `province_code` can be edited but are
  no LOCATION_FIELDS, so they change under an open booking; the job board looks at
  `province_code` (`worker/assignment_service.py:190`). `where` stands for LOCATION_FIELDS.
- `address_service.py:24`: the deletion of the default address that waits for a row which
  is deleted meanwhile misses an address created while it waited, and leaves no default
  (`crossed`).
- The chatbot's cached drafts are compared by a thread that contains the attempt:
  a failed turn sent again may confirm what its first attempt drafted, against the
  docstring of `_take_draft`; a call that got a draft deletes whatever is under the key,
  so one that hangs in between carries out the draft it got and uses up a later one; `MAX_ADDRESSES` is looked at only when an address is
  prepared; a draft is lost when the service refuses it.
- `payments/history_service.py`: "online" leaves out only the wallet, so it lists
  cash as well, which the docstring excludes. Transfers above or below the price
  count as the price, and what an outcome of a complaint takes back is an
  ADJUSTMENT, which the totals do not see.
- A package claimed again after its chat link failed is not linked
  (`worker/views.py:395`), a single session is. A pending session of a past day is
  in no tab until the job has marked it.
- Two saves of a worker's areas at once can leave areas of two provinces, or none
  (`worker/serializers.py:136`); `AreasAsAsked` says what they cannot do.
- A VIP batch locks its customers, not their bookings: who is refunded between the
  check and the commit is thanked all the same. The report counts by several
  queries, so its numbers disagree when a customer becomes eligible in between.

## 11. Proofs

Eight modules hold theorems; each EXTENDS the components it is about, and those of
several components treat one after the other. TLC checked
every inductive invariant as an invariant of the instance of its run (where a
quantifier ranges over the naturals, over a bounded part of them). Each has one
lemma per action or group of actions and one step per conjunct
the action can disturb; the last step is propositional temporal logic.

`BookingLifecycle_proofs`, for any finite set of sessions, any workers, any
price and any number of reschedules:

- `TypeCorrect`: `Spec => []TypeOK`. The part with content is that
  `money.refunded` never exceeds `Total` (`RefundType`).
- `AlwaysSettled`: `Spec => []Settled`, the inductive invariant. Neither
  `ClosedBookingHasNoActiveSession` nor `UnpaidIsIdle` is inductive alone: an
  expiry of an unpaid booking cancels only sessions not completed and closes the
  booking, so it needs to know that an unpaid booking has nobody working; that
  a webhook finds money to take only on bank bookings (`TransferIsBank`); and a
  cash payment is confirmed only on a booking with work (`CompletedHasWork`).
  `Settled` is their conjunction.
- `BookingStaysSafe`: `Spec => []BookingSafe`, a consequence of both.
- `FinalStaysFinal`: `Spec => DoneIsFinal`, from `Settled`, step by step.
- `TransferMoneyConserved`: `Spec => []MoneyConserved`, with the extra conjunct
  that a bank booking that is not unpaid has had its webhook
  (`PaidMeansTransferred`).
- `OpenStaysStaffed`: `Spec => []OpenIsStaffed`. Its three parts (ASSIGNED means
  covered, work means a worker, an open booking can move) carry one another
  over a step together with `Settled`; where a step raises `raced` nothing is claimed.
- `VoucherEndsWithWork`: `Spec => []VoucherFollowsWork`, with `WorkUsesVoucher`: once
  work began the voucher is used, so that no later release can find it reserved.
- `CommissionsAddUp`: `Spec => []CommissionLedger`. The two sets that are counted
  stay in step with the debits because a reservation has a worker
  (`ReservedHasWorker`) and an earning a completed session (`EarnedIsDone`).
- `EndKeepsThePrice`: `Spec => []EndedIsSettled`, for every method of payment (the run
  has no cash), that is `RefundMatchesOutcome` and
  `NothingDoneNothingKept`. The invariant follows the money before the end too:
  until then, and at an end with work, the sum of the refunds is the share of a session times
  the sessions dropped (`SharesGivenBack`), a refund of everything is recognised
  as such (`FullMeansRefunded`), the payment and the booking agree
  (`PaymentAgrees`), and no key is used up that a later refund needs (`KeysAreUsed`).

`Dispatch_proofs`, for any bookings, sessions, workers, start times and clock:

- `Invariance`: `Spec => []IInv`. A claim and a reschedule read first and write
  later; `ClaimsHold`, `MovesKnow` and `CalendarKept` say what their locks keep true
  in between. `RequestsOpened` and `ToldHasEnded` say why the preferred worker's
  request is opened and told of once.
- `InvitationsAreSafe`, `NoOverlap`, `HeardOnce`, `OffersAreGood`: consequences
  (the last one needs a look at every step a claim made at once would take).
- `RefusalFirst`: `Spec => FirstRefusal`, an action property, from the same invariant.

`Payout_proofs`, for any finite set of withdrawals, any amounts and any number of
processes:

- `Invariance`: `Spec => []IInv`. `RefundMeansUnpaid` is not inductive: a refund
  is decided by what a process remembers. `IInv` adds that what a process has
  heard stays true (`CallersKnow`), that nothing is sent before an attempt is
  counted (`CountedBeforeSent`), that outside gaps at most one process is in a
  submission (`OneSubmission`), and that one which takes itself for the first
  attempt is the first, with nothing at PayOS or on the wire (`FirstIsFirst`).
  TLC confirmed it with three processes too.
- `PayoutStaysSafe`: `Spec => []PayoutSafe`. Its first two parts are consequences; the
  third, `LedgerBalanced`, holds in gaps too. The sum of the
  amounts is the number of units of money taken (`Units`), so that it can be reasoned about by
  counting a set; a step leaves the ledger alone, takes one amount, keeps it or
  gives it back (`LedgerStep`). The run of TLC has one withdrawal, the theorem any
  number.
- `MovesEachAmountOnce`: `Spec /\ [](gap = {}) => MovesOnce`. Every step is a
  `Hold`, a `Send`, a `Return` or a stutter of `MoneyMove` (`MoveStep`), by the
  invariant before and after it.

`Complaints_proofs`, `ComplaintsStaySafe`: `ComplaintsSpec => ComplaintsSafe`, for
any finite set of sessions and any prices; four invariants and the action property
`PreviewIsBooked`. `EarningAgrees` relates the row of an earning to what was paid for
it: nothing before it is credited, all of it while it stands, no more than the
recorded shortfall once it was taken back. `RefundAgrees` relates the status of a
session to what was refunded for it: nothing for work whose earning is still held,
which is why the job may credit what it has looked at earlier. The total of the
booking is counted unit by unit, and a step for one session moves it by as much
(`TotalMoves`). That the preview is what is booked needs the invariant too: it does
not look whether an earning exists, but one that is credited does.

`Complaints_proofs`, `ReviewsStaySafe`: `ReviewsSpec => ReviewsSafe`, for any
sessions, ratings and images: three invariants and the action property `ReviewStays`.
`AverageAgrees` says what a transaction that is alone has computed: the average
that its commit makes true; an edit of the profile that puts back another than the
stored one sets `overlapped`. It is compared with the same sum, so that it is enough
that both depend on the shown ratings alone (`AverageIsOfShown`). That an average is
at most 5.00 needs the sum itself: `SumFunction` is a recursive function by its
definition, and the proof shows that there is one (`SumsExist`) and how far it grows
(`SumIsBounded`) by the least number of elements for which either would fail, which
the well-foundedness of < on the naturals provides (`LeastExists`): an induction
without the induction theorems. `ImagesSound` counts as a review's the images it has and those
its transaction would leave it with: they are there, nobody else's and not about to be destroyed.

`Bank_proofs`, `MoneyArrivesOnce`: `BankSpec => []TransfersSafe`, for any
top-ups, links and sums. `BankInvariant` adds that nothing is reported or asked
about before its link exists (`MoneyHasItsLink`), that a payment is settled by one
report (`PaidIsFinal`), that a report which waits was found by the code the payment has
or by one it lost meanwhile (`FoundEarlier`), that only the newest link is alive
(`NewestLink`), and that top-ups being created are counted with those that wait
(`FewPending`).

`Desks_proofs`, `VouchersStaySafe`: `VouchersSpec => []VouchersSafe`. An edit
writes back the counter it has read, so `VoucherInvariant` speaks of the edits under
way: no counter about to be written is ahead of the wallets (`IssuedIsOwned`), and
one that no claim overtook is that of the table (`EditsAgree`).

`Desks_proofs`, `ThanksStaySafe`: `VipSpec => []VipSafe`. `VipInvariant` says
what the locks of a batch protect (`LocksExclude`, `GivesWhatItMay`: what it has
given and not committed still fits under the limit, as no edit of its voucher can
write meanwhile), and that an edit nobody overtook writes back the counter that is
there (`EditsAreUpToDate`). That batches do
not wait in a circle follows from the order of the locks (`LocksInOrder`): among
batches that wait for one another, the one that wants the greatest id would wait
for a greater one.

`Desks_proofs`, `DeskStaysSafe`: `DeskSafe` holds always, for any sessions of a booking,
workers, requests and days. A lock that has not expired is held by the request that
took it (`AsksFit`). What was linked to a chat, could not be, or is still to be
linked was accepted (`AcceptedOnly`), and the last acceptance of a session that
somebody has is one of the three (`LastIsKnown`): this is what keeps the chat open
when the process dies between the commit and the link.

`Desks_proofs`, `DirectoryStaysSafe`: `DirectorySafe` holds always, for any wards,
workers and saves. `SaveSound` follows a save from statement to statement, against the
areas its worker has by then: what it did not ask for was there when it began to
delete, or was brought by a save that it met (`met`), and what it has found goes only with
a save that did not ask for it. What was deleted or added by a save that is rolled back is
of the same kind, so `AreasAsAsked` is kept by every commit. `FavouritesCounted` ties
each favourite to its month, also while its row is inserted and not committed.

`Desks_proofs`, `IncomeStaysSafe`: `IncomeSafe` holds always, for any earnings and any
calendar. What a query of the summary does not find any more, or not yet, is what a later
one finds (`ReadsAgree`). `SumOver` is a recursive function by its definition: there is one
(`SumsExist`), it does not depend on the order (`TotalWithout`) nor on how its terms are
divided (`BarsAddUp`), by counting up the elements (`CountUp`, from `LeastExists`). Months
are found by their starts, which are sums: each day is in exactly one month (`MonthAtIs`),
and in one bar of the chart (`BarIsThere`).

`Desks_proofs`, `HistoryStaysSafe`: `HistorySafe` holds always, for any payments, limits and
ledger. `HistoryInvariant` says what the status of a payment says of its money (`BillFits`),
that the ledger has each payment from the wallet once, and each refund (`LedgerFits`: the
rows of a payment add up to what was refunded and taken back, at every moment), and that
what a screen shows was so when it was read (`ScreenFits`). The seven changes of a payment
share one lemma (`MoveKeeps`): none, or one transaction, is added to the ledger. The totals
then agree because rows divided by their payment add up (`BarsAddUp`).

`Bank_proofs`, `AccountsStaySound`: `AccountsSpec => []AccountsSafe`.
`ReadBefore` says what of each handler's reading still holds when it writes, the row
of an edit included, and `AddsAreCounted` counts the accounts with those about to be
added and those an edit may bring back.

`Chat_proofs`:

- `SocketsStaySafe`: `SocketSpec => []SocketSafe`, for any devices, with
  `TypingIsKnown`: a device is listed as typing only while its socket is ready.
- `ChatStaysSafe`: `ChatSpec => ChatSafe`, for any chats, keys and limits; four invariants
  and the action property `LockedIsSilent`. `StoredOnce` and `ChargedOnce` follow each
  key: without an answer it has no message and was not counted; `ReadsAreThere`
  says that readers and receipts point at messages there are.

`Bank_proofs`, `EntryStaysSafe`: `EntrySpec => []EntrySafe`, for any
finite number of requests, any keys and limits. `EntryInvariant` counts the requests
at some of their steps. A mailed code is in the cache, in the hands of one request,
or spent (`CodesSpent`); of the requests that used the code before, and this one, at
most one may still clear the count of tries (`FewClear`). Guesses are counted in runs:
while nobody sets the count, those that have read it before it was full may still guess
(`RunLeft`); and the requests that may yet set it, because they found it missing, used up
the code or mail the next one, are counted too (`StartsLeft`). `GuessesLeft` says that
guesses made and guesses left stay within `OneRun * (Restarts + 1)`, and within one more
for each request after the code is gone.

`Platform_proofs` has eight components, each for any number of requests and rows:

- `PasswordsStaySafe`: `PasswordsSpec => []PasswordsSafe`. A token is held by one
  refresh (`OneHolder`) and has ended once it was exchanged (`ExchangedHasEnded`),
  so it is exchanged once. A request that has closed the older codes opens one at
  most, so open codes are counted with the requests about to open one (`OpenOrComing`).
- `ProfilesStaySafe`: `ProfilesSpec => []ProfilesSafe`. The row a request is about to
  save is as sound as the one in the table (`SoundToSave`), and no review puts a
  profile back to waiting.
- `NotificationsStaySafe`: `NotificationsSpec => []NotificationsSafe`. A row is told of
  by the request that wrote it (`OneAuthor`), which has not queued its push yet
  (`TellersFit`), so nothing is pushed twice; a device was reached no more often
  than the task was tried (`PushFits`).
- `RemindersStaySafe`: `RemindersSpec => []RemindersSafe`. For a time the session has
  left, the reminders and the runs that still list it are counted together
  (`RemindersFit`).
- `EntriesStayFresh`: `CacheSpec => []EntryIsFresh`, for any number of writers,
  readers and versions. Unless a save is still to raise the version (`WillBump`),
  what is stored under it, and what a reader is about to store there, is what is
  committed (`CurrentIsFresh`); nothing waits under later versions (`NothingAhead`).
- `CatalogueStaysSafe`: `CatalogueSpec => []CatalogueSafe`. One transaction is at work
  and would commit a sound row whose files are there (`OneWorks`, `WorkIsSound`); the
  image it picks is still there if it saw the service as it is (`PickIsKept`), and what
  becomes primary is an image of the service (`PrimariesOfSound`);
  an icon that is uploaded is shown to nobody before (`IconsAreNew`), and the one to
  be destroyed to nobody after the commit (`DestroysTheOld`).
- `AddressesStaySafe`: `AddressesSpec => []AddressesSafe`. A row is held by one
  transaction (`HeldApart`), which leaves a place as it is or moves it (`RowFits`);
  what it has listed, locked or chosen so far is active, so that its commit leaves a
  default where there is an address (`RequestFits`). A move that was allowed and waits
  for its write, where a booking was made meanwhile, is marked as crossed
  (`MovesAreSeen`); rows stay, so that a booking's address is there (`RowsStay`).
- `AssistantStaysSafe`: `AssistantSpec => []AssistantSafe`, for any messages, attempts
  and drafts. Turns, the draft of a booking, the draft in the cache and the order of the
  answers are four invariants; the `Frame` lemmas say which steps leave each of them alone. A message
  that was answered gets no further attempt (`AnsweredStays`); each call has deleted a draft of its
  own, and got that one or an older one, of another attempt (`CallSound`). A message has one row, and only the last one is
  ever running (`RunningIsLast`), so that answers are written in the order of the
  messages (`RepliesOrdered`); the history, chosen by counting the answered messages
  after each and adding up their characters, is then the end of the answers.

Assumptions on the constants, all evaluated by TLC in the runs:

- `BookingLifecycle`: sessions are a finite non-empty set and none is called
  "booking" (`NamesAssumption`: a refund's key names a session by its id, or the
  booking), `NoWorker` is no worker, the price is a positive integer, and
  (`PriceAssumption`) the rounded share of all sessions but one is below the
  price. Prices are thousands of dong and packages have tens of sessions at
  most, so this holds with room to spare.
- `Dispatch`: times are naturals, durations and the time before a session in which
  nobody is asked any more are positive.
- `Payout`: amounts are positive integers, the first balance and the floor are
  naturals, the requests are a finite set and `NoRequest` is none of them.
- `Complaints`: the sessions of a booking are finitely many, a voucher does not raise
  the price, and the commission is below it.
- `BankTransfers`: order codes are positive and no top-up has the code of a link
  (`_new_order_code` looks in both tables) or the name of another credit (the keys
  have different prefixes); sums and limits are positive.
- `Vouchers`, `VipRewards`: customers are finitely many, as the rows of a table are;
  limits are positive (a constraint of the table); customers are named by ids. A voucher
  without a limit is one whose limit is never reached.
- `WithdrawEntry`: requests are finitely many and at least one; limits and the first
  balance are naturals.
- `Reviews`: ratings are 1 to 5; sessions and images are finitely many.
- `WorkerDesk`: the sessions of a booking are finitely many and at least two.
  `WorkerDirectory`: a save is of a worker, and there is at least one month.
- `WorkerIncome`: earnings are finitely many, and the calendar has at least one month, each of
  1 to 31 days. `PaymentHistory`: payments are finitely many, each booking costs something,
  and at least one row is read.
- `StatusNotices` (no theorem): as in `BookingLifecycle`, the rounded shares of all sessions
  but one are below the price; without it a promise to several absentees could outlast the
  money.
- `Catalogue`: an uploaded icon is a new file
  (Cloudinary gives it a name of its own). `CatalogueCache`: versions go beyond 1.
- `Passwords`, `Notifications`, `Reminders`, `Assistant`: requests, notices, runs and
  messages are finitely many, limits are naturals, and a code may be tried at least once.
- `BankAccounts`, `ChatMessages`: limits are positive or natural numbers; the
  values for "none" are none of the others.

Only model-checked, and why:

- liveness (`EventuallyClosed`, `EventuallyDecided`, `TopupIsCredited`, `SocketsEnd`)
  needs fairness and ENABLED, which are out of the prover's reach;
- `FormsSafe` (`BookingEntry`, `MCForms`), over the concrete offers of the run, whose
  prices and dates are folds over the fields of a form;
- in `ToldSafe`, `StatusNoticesSafe`, whose handlers fold their steps over the sessions, and
  `AgentTurnSafe`, whose answers are selected and sorted from sequences: the induction theorems
  of the library cannot be used, and an induction by counting, as for the sums, was not carried
  through for these. The third part of `ToldSafe`, `HistorySafe`, is `HistoryStaysSafe`.

Every other property of the runs that pass is a theorem or part of one.

## 12. Not modelled

GPS distance, the wording of messages, listing queries, filters and permissions
are left out unless a property is about them (job board, tabs, payment history,
income): they change no state or only decide whether a request is refused.
Field checks are modelled for booking forms only. Row locks as such are modelled
in `VipRewards` only: the deadlock of `unassign` with the handlers that lock the booking first
is listed as a hazard. `analytics/report_service.py` only reads; `ai_engine` has
models without code; the tools `prepare_booking` and `confirm_booking` of
`chatbot/services/booking_tool.py` are not given to any agent. PayOS, the bank,
Cloudinary, Expo, the language model and the clock are environment.

## 13. Running

    tlc -workers 2 -config MCPackage.cfg MCBookingLifecycle.tla
    tlc -workers 2 -config MCServices.cfg MCServices.tla
    tlc -workers 2 -config MCDesks.cfg MCDesks.tla
    for m in *_proofs.tla; do tlapm $m; done
