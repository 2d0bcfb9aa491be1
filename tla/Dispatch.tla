------------------------------ MODULE Dispatch ------------------------------
(***************************************************************************)
(* How a session finds its worker: the customer's preferred worker has the *)
(* first refusal, the admin may invite workers, the others claim from the  *)
(* job board; the admin may move a session, withdraw an invitation or take *)
(* the worker off.  apps/worker/assignment_service.py, invitation_service, *)
(* tasks.py and the reschedule of apps/bookings/admin_services.py.         *)
(*                                                                         *)
(* Time is counted in half hours.  A claim and a reschedule are two steps  *)
(* each: they read the worker's other sessions under locks that do not     *)
(* exclude each other, and write later.  Everything else holds the booking *)
(* or the session row from its first read to its commit.                   *)
(***************************************************************************)
EXTENDS Integers, FiniteSets

CONSTANTS
    Sessions, Workers, NoWorker,
    BookingOf,      \* the booking of each session
    CashBookings,   \* bookings paid in cash: a claim reserves the commission
    StartTimes,     \* start times a session may have
    Duration,       \* how long a session lasts
    Window,         \* PREFERRED_WORKER_WINDOW
    Buffer,         \* PREFERRED_WORKER_START_BUFFER, also of invitations
    CancelLead,     \* MIN_CANCEL_HOURS and CUSTOMER_MIN_CANCEL_HOURS
    Early,          \* CHECKIN_EARLY_MINUTES
    Responses,      \* response times an admin may choose
    Horizon,        \* bound: the clock stops here
    MaxMoves        \* bound: reschedules of all sessions together

Bookings == {BookingOf[s] : s \in Sessions}
\* No time and no due time of an answer is as early as this.
Never == -1 - Buffer
Clock == 0..Horizon

ASSUME DispatchAssumption ==
    /\ NoWorker \notin Workers /\ CashBookings \subseteq Bookings
    /\ StartTimes \subseteq Nat \ {0} /\ Horizon \in Nat /\ MaxMoves \in Nat
    /\ Duration \in Nat \ {0} /\ Window \in Nat \ {0} /\ Buffer \in Nat \ {0}
    /\ CancelLead \in Nat /\ Early \in Nat /\ Responses \subseteq Nat \ {0}

VARIABLES
    now,
    start,          \* scheduled_start of each session
    status,         \* PENDING, IN_PROGRESS, or CLOSED for the statuses after them
    open,           \* bookings whose status is one of OPEN_BOOKING_STATUSES
    bookable,       \* bookings paid, or to be paid in cash
    preferred,      \* the worker the customer asked for, by booking
    prefUntil,      \* preferred_worker_expires_at, Never when null
    prefNotified,   \* sessions whose preferred_expiry_notified_at is set
    told,           \* messages to the customer that the request has ended
    invite,         \* status of the last invitation of each worker
    inviteUntil,    \* expired_at of the last invitations sent
    holder,         \* worker of the ACCEPTED assignment
    claiming,       \* a claim between its checks and its writes
    moving,         \* a reschedule between its checks and its writes
    expiring,       \* invitations the expiry job has listed
    noticing,       \* sessions the notice job has listed
    moves           \* reschedules so far

vars == <<now, start, status, open, bookable, preferred, prefUntil, prefNotified, told,
          invite, inviteUntil, holder, claiming, moving, expiring, noticing, moves>>
request == <<prefUntil, prefNotified, told, noticing>>
invites == <<invite, inviteUntil, expiring>>

Invitation == {"none", "PENDING", "ACCEPTED", "REJECTED", "CANCELLED", "EXPIRED"}
NoClaim == [sessions |-> {}, invited |-> FALSE]
NoMove == [to |-> Never, pending |-> {}]

-----------------------------------------------------------------------------
(* What the code asks before it acts.                                      *)

Earliest(a, b) == IF a < b THEN a ELSE b
Overlap(s, t) == start[s] < start[t] + Duration /\ start[t] < start[s] + Duration
Active(s) == status[s] \in {"PENDING", "IN_PROGRESS"}

\* Read without a lock on the other sessions.
Conflict(w, s) == \E t \in Sessions \ {s} : holder[t] = w /\ Active(t) /\ Overlap(s, t)

InvitationIsLive(s, w) == invite[s][w] = "PENDING" /\ inviteUntil[s] > now
Invited(s) == {w \in Workers : InvitationIsLive(s, w)}
RequestIsLive(s) == preferred[BookingOf[s]] # NoWorker /\ prefUntil[s] > now
ExclusiveToOther(s, w) == RequestIsLive(s) /\ preferred[BookingOf[s]] # w

\* Shared by the admin's invitation and the list of candidates.
ValidForSchedule(s) ==
    /\ BookingOf[s] \in open \cap bookable
    /\ status[s] = "PENDING" /\ start[s] > now

Claimable(w, s) == ValidForSchedule(s) /\ holder[s] = NoWorker /\ ~Conflict(w, s)

\* Mutant: the job board forgets the preferred worker.
Listed_NoPreference(w, s) ==
    /\ ValidForSchedule(s) /\ holder[s] = NoWorker /\ ~Conflict(w, s)
    /\ Invited(s) = {} \/ w \in Invited(s)

\* The reads of the job board, of the claim state of one session of a booking
\* and of the admin's list of candidates.
Listed(w, s) ==
    /\ status[s] = "PENDING" /\ start[s] > now
    /\ BookingOf[s] \in open \cap bookable
    /\ holder[s] = NoWorker
    /\ ~\E t \in Sessions : holder[t] = w /\ Active(t) /\ Overlap(s, t)
    /\ Invited(s) = {} \/ w \in Invited(s)
    /\ \/ preferred[BookingOf[s]] \in {NoWorker, w}
       \/ prefUntil[s] = Never
       \/ prefUntil[s] <= now

ClaimState(w, s) ==
    IF holder[s] # NoWorker THEN IF holder[s] = w THEN "MINE" ELSE "TAKEN"
    ELSE IF \/ Invited(s) # {} /\ w \notin Invited(s)
            \/ ExclusiveToOther(s, w)
            \/ status[s] # "PENDING" \/ start[s] <= now \/ BookingOf[s] \notin open
         THEN "TAKEN"
         ELSE IF Conflict(w, s) THEN "CONFLICT" ELSE "OPEN"

Suitable(s) == IF ValidForSchedule(s) THEN {w \in Workers : ~Conflict(w, s)} ELSE {}

\* An invitation as the worker's app shows it: its status, or EXPIRED when it
\* can no longer be accepted though the job has not closed it yet.
ShownInvitation(w, s) ==
    IF /\ invite[s][w] = "PENDING"
       /\ inviteUntil[s] <= now \/ status[s] # "PENDING" \/ BookingOf[s] \notin open
    THEN "EXPIRED" ELSE invite[s][w]

CanCancel(s) == status[s] = "PENDING" /\ start[s] - CancelLead > now

-----------------------------------------------------------------------------
(* Locks: the user row of a worker whose claim runs, the booking row and   *)
(* the session rows.                                                       *)

UserFree(w) == claiming[w] = NoClaim
BookingFree(b) == \A w \in Workers : \A s \in claiming[w].sessions : BookingOf[s] # b
RowFree(s) == moving[s] = NoMove /\ \A w \in Workers : s \notin claiming[w].sessions
RowsFree(b) == \A s \in Sessions : BookingOf[s] = b => RowFree(s)

TypeOK ==
    /\ now \in Clock
    /\ start \in [Sessions -> StartTimes]
    /\ status \in [Sessions -> {"PENDING", "IN_PROGRESS", "CLOSED"}]
    /\ open \subseteq Bookings /\ bookable \subseteq Bookings
    /\ preferred \in [Bookings -> Workers \cup {NoWorker}]
    /\ prefUntil \in [Sessions -> Int] /\ prefNotified \subseteq Sessions
    /\ told \in [Sessions -> Nat]
    /\ invite \in [Sessions -> [Workers -> Invitation]]
    /\ inviteUntil \in [Sessions -> Int]
    /\ holder \in [Sessions -> Workers \cup {NoWorker}]
    /\ claiming \in [Workers -> [sessions : SUBSET Sessions, invited : BOOLEAN]]
    /\ moving \in [Sessions -> [to : StartTimes \cup {Never}, pending : SUBSET Workers]]
    /\ expiring \subseteq Sessions \X Workers /\ noticing \subseteq Sessions
    /\ moves \in 0..MaxMoves

Activated(b) ==
    [s \in Sessions |->
        IF BookingOf[s] = b /\ status[s] = "PENDING" /\ prefUntil[s] = Never
              /\ preferred[b] # NoWorker
        THEN Earliest(now + Window, start[s] - Buffer)
        ELSE prefUntil[s]]

Init ==
    /\ now = 0
    /\ start \in [Sessions -> StartTimes]
    /\ status = [s \in Sessions |-> "PENDING"]
    /\ open = Bookings
    /\ bookable = CashBookings
    /\ preferred \in [Bookings -> Workers \cup {NoWorker}]
    \* A cash booking opens the request when it is made.
    /\ prefUntil = [s \in Sessions |->
            IF BookingOf[s] \in CashBookings /\ preferred[BookingOf[s]] # NoWorker
            THEN Earliest(Window, start[s] - Buffer) ELSE Never]
    /\ prefNotified = {} /\ told = [s \in Sessions |-> 0]
    /\ invite = [s \in Sessions |-> [w \in Workers |-> "none"]]
    /\ inviteUntil = [s \in Sessions |-> Never]
    /\ holder = [s \in Sessions |-> NoWorker]
    /\ claiming = [w \in Workers |-> NoClaim]
    /\ moving = [s \in Sessions |-> NoMove]
    /\ expiring = {} /\ noticing = {} /\ moves = 0

-----------------------------------------------------------------------------
(* The customer's request.                                                 *)

\* Mutant: the payment does not open the request.
Pay_NoActivation(b) ==
    /\ b \in open \ bookable /\ BookingFree(b) /\ RowsFree(b)
    /\ bookable' = bookable \cup {b}
    /\ UNCHANGED <<now, start, status, open, preferred, request, invites, holder,
                   claiming, moving, moves>>

\* The transfer is confirmed: the booking can be claimed and the request opens.
Pay(b) ==
    /\ b \in open \ bookable /\ BookingFree(b) /\ RowsFree(b)
    /\ bookable' = bookable \cup {b}
    /\ prefUntil' = Activated(b)
    /\ UNCHANGED <<now, start, status, open, preferred, prefNotified, told, invites,
                   holder, claiming, moving, noticing, moves>>

\* Mutant: a refusal does not mark the request as answered for.
Decline_NotMarked(w, b) ==
    LET live == {s \in Sessions : /\ BookingOf[s] = b /\ status[s] = "PENDING"
                                  /\ prefUntil[s] = Never \/ prefUntil[s] > now}
    IN  /\ b \in open /\ preferred[b] = w /\ BookingFree(b) /\ RowsFree(b)
        /\ ~\E s \in Sessions : BookingOf[s] = b /\ holder[s] = w
        /\ live # {}
        /\ prefUntil' = [s \in Sessions |-> IF s \in live THEN now ELSE prefUntil[s]]
        /\ told' = [s \in Sessions |-> told[s] + IF s \in live THEN 1 ELSE 0]
        /\ UNCHANGED <<now, start, status, open, bookable, preferred, prefNotified, invites,
                       holder, claiming, moving, noticing, moves>>

\* decline_preferred_request; unopened requests can be declined too.
Decline(w, b) ==
    LET mine == {s \in Sessions : BookingOf[s] = b /\ status[s] = "PENDING"}
        live == {s \in mine : prefUntil[s] = Never \/ prefUntil[s] > now}
    IN  /\ b \in open /\ preferred[b] = w /\ BookingFree(b) /\ RowsFree(b)
        /\ ~\E s \in Sessions : BookingOf[s] = b /\ holder[s] = w
        /\ live # {}
        /\ prefUntil' = [s \in Sessions |-> IF s \in live THEN now ELSE prefUntil[s]]
        /\ prefNotified' = prefNotified \cup live
        /\ told' = [s \in Sessions |-> told[s] + IF s \in live THEN 1 ELSE 0]
        /\ UNCHANGED <<now, start, status, open, bookable, preferred, invites, holder,
                       claiming, moving, noticing, moves>>

\* notify_preferred_expired_task lists the sessions without a lock ...
ListEndedRequests ==
    /\ noticing = {}
    /\ noticing' = {s \in Sessions \ prefNotified :
            /\ status[s] = "PENDING" /\ holder[s] = NoWorker /\ BookingOf[s] \in open
            /\ preferred[BookingOf[s]] # NoWorker
            /\ prefUntil[s] # Never /\ prefUntil[s] <= now}
    /\ noticing' # {}
    /\ UNCHANGED <<now, start, status, open, bookable, preferred, prefUntil, prefNotified,
                   told, invites, holder, claiming, moving, moves>>

\* ... and takes each of them with a conditional update.
TellEndedRequest(s) ==
    /\ s \in noticing /\ RowFree(s)
    /\ noticing' = noticing \ {s}
    /\ prefNotified' = prefNotified \cup {s}
    /\ told' = [told EXCEPT ![s] = @ + IF s \in prefNotified THEN 0 ELSE 1]
    /\ UNCHANGED <<now, start, status, open, bookable, preferred, prefUntil, invites,
                   holder, claiming, moving, moves>>

-----------------------------------------------------------------------------
(* Invitations of the admin.                                               *)

\* Stale ones are expired first; nothing is sent while any is live.
SendInvitations(s, ws, response) ==
    LET until == Earliest(now + response, start[s] - Buffer) IN
    /\ ws # {} /\ BookingFree(BookingOf[s]) /\ RowFree(s)
    /\ ValidForSchedule(s) /\ ws \subseteq Suitable(s)
    /\ holder[s] = NoWorker /\ Invited(s) = {} /\ ~RequestIsLive(s)
    /\ until > now
    /\ invite' = [invite EXCEPT ![s] = [w \in Workers |->
            IF w \in ws THEN "PENDING"
            ELSE IF @[w] = "PENDING" THEN "EXPIRED" ELSE @[w]]]
    /\ inviteUntil' = [inviteUntil EXCEPT ![s] = until]
    \* The rows the job has listed are closed: the invitations sent are new rows.
    /\ expiring' = expiring \ ({s} \X Workers)
    /\ UNCHANGED <<now, start, status, open, bookable, preferred, request, holder,
                   claiming, moving, moves>>

WithdrawInvitation(s) ==
    /\ BookingFree(BookingOf[s]) /\ RowFree(s)
    /\ \/ /\ Invited(s) # {}
          /\ invite' = [invite EXCEPT ![s] = [w \in Workers |->
                IF w \in Invited(s) THEN "CANCELLED" ELSE @[w]]]
          /\ UNCHANGED request
       \/ /\ Invited(s) = {} /\ RequestIsLive(s)
          /\ prefUntil' = [prefUntil EXCEPT ![s] = now]
          /\ prefNotified' = prefNotified \cup {s}
          /\ told' = [told EXCEPT ![s] = @ + 1]
          /\ UNCHANGED <<invite, noticing>>
    /\ UNCHANGED <<now, start, status, open, bookable, preferred, inviteUntil, expiring,
                   holder, claiming, moving, moves>>

\* Only the booking and the invitation row are locked.
RejectInvitation(w, s) ==
    /\ UserFree(w) /\ BookingFree(BookingOf[s]) /\ InvitationIsLive(s, w)
    /\ invite' = [invite EXCEPT ![s][w] = "REJECTED"]
    /\ UNCHANGED <<now, start, status, open, bookable, preferred, request, inviteUntil,
                   expiring, holder, claiming, moving, moves>>

ListStaleInvitations ==
    /\ expiring = {}
    /\ expiring' = {p \in Sessions \X Workers :
            /\ invite[p[1]][p[2]] = "PENDING"
            /\ \/ inviteUntil[p[1]] <= now
               \/ status[p[1]] # "PENDING"
               \/ BookingOf[p[1]] \notin open}
    /\ expiring' # {}
    /\ UNCHANGED <<now, start, status, open, bookable, preferred, request, invite,
                   inviteUntil, holder, claiming, moving, moves>>

\* Whatever the listing found is expired if it is still PENDING.
ExpireInvitation(s, w) ==
    /\ <<s, w>> \in expiring /\ BookingFree(BookingOf[s])
    /\ expiring' = expiring \ {<<s, w>>}
    /\ invite' = [invite EXCEPT ![s][w] = IF @ = "PENDING" THEN "EXPIRED" ELSE @]
    /\ UNCHANGED <<now, start, status, open, bookable, preferred, request, inviteUntil,
                   holder, claiming, moving, moves>>

-----------------------------------------------------------------------------
(* Claims.                                                                 *)

BeginClaim(w, ss, invited) ==
    /\ UserFree(w)
    /\ \A s \in ss : RowFree(s) /\ BookingFree(BookingOf[s])
    /\ claiming' = [claiming EXCEPT ![w] = [sessions |-> ss, invited |-> invited]]
    /\ UNCHANGED <<now, start, status, open, bookable, preferred, request, invites, holder,
                   moving, moves>>

\* claim_schedule: the user row, the booking and the session are locked and
\* every check is made; the accept of an invitation goes on to it.
ClaimSession(w, s) == Claimable(w, s) /\ BeginClaim(w, {s}, FALSE)
AcceptInvitation(w, s) ==
    InvitationIsLive(s, w) /\ Claimable(w, s) /\ BeginClaim(w, {s}, TRUE)

\* Mutant: sessions taken earlier in the same request are not looked at.
ClaimPackage_NoSkip(w, b, asked) ==
    LET free == {s \in asked : Claimable(w, s)}
    IN  free # {} /\ BeginClaim(w, free, FALSE)

\* claim_booking_package: among the sessions asked for, those that overlap
\* neither the worker's other sessions nor one taken earlier in this request.
ClaimPackage(w, b, asked) ==
    LET free == {s \in asked : Claimable(w, s)}
        Before(s, t) == start[s] < start[t]
    IN  \E chosen \in SUBSET free :
            /\ chosen # {}
            /\ \A s \in free : s \in chosen <=>
                    ~\E t \in chosen : Before(t, s) /\ Overlap(s, t)
            /\ \A s, t \in chosen : s # t => ~Overlap(s, t)
            /\ BeginClaim(w, chosen, FALSE)

\* _accept_or_create_assignment, with the clock read again.
CanTake(w, s, invited) ==
    /\ ~ExclusiveToOther(s, w)
    /\ IF invited THEN InvitationIsLive(s, w)
       ELSE Invited(s) = {} \/ w \in Invited(s)

\* Mutant: the other invitations stay open.
FinishClaim_LeavesOthers(w) ==
    LET c == claiming[w]
        takable == {s \in c.sessions : CanTake(w, s, c.invited)}
    IN  /\ c # NoClaim
        /\ holder' = [s \in Sessions |-> IF s \in takable THEN w ELSE holder[s]]
        /\ invite' = [s \in Sessions |->
              IF s \in takable /\ InvitationIsLive(s, w)
              THEN [invite[s] EXCEPT ![w] = "ACCEPTED"] ELSE invite[s]]
        /\ claiming' = [claiming EXCEPT ![w] = NoClaim]
        /\ UNCHANGED <<now, start, status, open, bookable, preferred, request, inviteUntil,
                       expiring, moving, moves>>

\* The sessions that are still the worker's to take; a cash claim may also be
\* refused for want of money in the wallet.  The invitations left are closed.
FinishClaim(w) ==
    LET c == claiming[w]
        takable == {s \in c.sessions : CanTake(w, s, c.invited)}
        cash == {s \in takable : BookingOf[s] \in CashBookings}
    IN  /\ c # NoClaim
        /\ \E taken \in SUBSET takable :
            /\ takable \ cash \subseteq taken
            /\ holder' = [s \in Sessions |-> IF s \in taken THEN w ELSE holder[s]]
            /\ invite' = [s \in Sessions |-> IF s \notin taken THEN invite[s]
                  ELSE [v \in Workers |->
                        IF invite[s][v] # "PENDING" THEN invite[s][v]
                        ELSE IF v = w /\ InvitationIsLive(s, w) THEN "ACCEPTED"
                        ELSE "CANCELLED"]]
        /\ claiming' = [claiming EXCEPT ![w] = NoClaim]
        /\ UNCHANGED <<now, start, status, open, bookable, preferred, request, inviteUntil,
                       expiring, moving, moves>>

\* The worker leaves, or the admin takes the worker off.  Taking off locks the
\* session row only.
Leave(s) ==
    /\ holder' = [holder EXCEPT ![s] = NoWorker]
    /\ invite' = [invite EXCEPT ![s][holder[s]] = IF @ = "ACCEPTED" THEN "CANCELLED" ELSE @]
    /\ UNCHANGED <<now, start, status, open, bookable, preferred, request, inviteUntil,
                   expiring, claiming, moving, moves>>

CancelAssignment(s) ==
    /\ holder[s] # NoWorker /\ RowFree(s) /\ BookingFree(BookingOf[s])
    /\ status[s] = "PENDING" /\ BookingOf[s] \in open /\ start[s] - now >= CancelLead
    /\ Leave(s)

UnassignByAdmin(s) ==
    /\ holder[s] # NoWorker /\ RowFree(s) /\ status[s] = "PENDING"
    /\ Leave(s)

-----------------------------------------------------------------------------
(* The admin moves a session.                                              *)

\* Only the session row is locked; the other sessions of the worker are read.
BeginMove(s, to) ==
    /\ status[s] = "PENDING" /\ RowFree(s) /\ moves < MaxMoves
    /\ to # start[s] /\ to > now
    /\ holder[s] # NoWorker =>
         ~\E t \in Sessions \ {s} :
             /\ holder[t] = holder[s] /\ Active(t)
             /\ start[t] < to + Duration /\ to < start[t] + Duration
    /\ moving' = [moving EXCEPT ![s] =
            [to |-> to, pending |-> {w \in Workers : invite[s][w] = "PENDING"}]]
    /\ moves' = moves + 1
    /\ UNCHANGED <<now, start, status, open, bookable, preferred, request, invites, holder,
                   claiming>>

\* The invitations it read are cancelled, whatever became of them since, and
\* the request of the customer ends.
FinishMove(s) ==
    LET m == moving[s] IN
    /\ m # NoMove
    /\ start' = [start EXCEPT ![s] = m.to]
    /\ invite' = [invite EXCEPT ![s] = [w \in Workers |->
            IF w \in m.pending THEN "CANCELLED" ELSE @[w]]]
    /\ moving' = [moving EXCEPT ![s] = NoMove]
    /\ IF preferred[BookingOf[s]] = NoWorker THEN UNCHANGED <<prefUntil, prefNotified>>
       ELSE /\ prefUntil' = [prefUntil EXCEPT ![s] = now]
            /\ prefNotified' = prefNotified \cup {s}
    /\ UNCHANGED <<now, status, open, bookable, preferred, told, noticing, inviteUntil,
                   expiring, holder, claiming, moves>>

-----------------------------------------------------------------------------
(* What BookingLifecycle tells in full: work begins and ends, sessions     *)
(* nobody came for are missed, bookings are cancelled.                     *)

StartWork(s) ==
    /\ status[s] = "PENDING" /\ BookingOf[s] \in open /\ holder[s] # NoWorker /\ RowFree(s)
    /\ start[s] - Early <= now
    /\ status' = [status EXCEPT ![s] = "IN_PROGRESS"]
    /\ UNCHANGED <<now, start, open, bookable, preferred, request, invites, holder,
                   claiming, moving, moves>>

\* Also takes the worker off whom the check-in job found missing.
CloseSession(s) ==
    /\ \/ status[s] = "IN_PROGRESS" /\ UNCHANGED <<holder, invite>>
       \/ /\ status[s] = "PENDING" /\ start[s] < now
          /\ holder' = [holder EXCEPT ![s] = NoWorker]
          /\ invite' = [invite EXCEPT ![s] = [w \in Workers |->
                IF @[w] = "ACCEPTED" THEN "CANCELLED" ELSE @[w]]]
    /\ RowFree(s) /\ BookingFree(BookingOf[s]) /\ BookingOf[s] \in open
    /\ status' = [status EXCEPT ![s] = "CLOSED"]
    /\ open' = IF \A t \in Sessions \ {s} : BookingOf[t] = BookingOf[s] => ~Active(t)
               THEN open \ {BookingOf[s]} ELSE open
    /\ UNCHANGED <<now, start, bookable, preferred, request, inviteUntil, expiring,
                   claiming, moving, moves>>

\* What cancelling sessions not begun does to their workers and invitations.
Cancel(ss) ==
    /\ status' = [s \in Sessions |-> IF s \in ss THEN "CLOSED" ELSE status[s]]
    /\ holder' = [s \in Sessions |-> IF s \in ss THEN NoWorker ELSE holder[s]]
    /\ invite' = [s \in Sessions |-> IF s \notin ss THEN invite[s]
            ELSE [w \in Workers |->
                    IF invite[s][w] \in {"PENDING", "ACCEPTED"} THEN "CANCELLED"
                    ELSE invite[s][w]]]
    /\ UNCHANGED <<now, start, bookable, preferred, request, inviteUntil, expiring,
                   claiming, moving, moves>>

\* By the customer or by an admin.
CancelBooking(b) ==
    LET pending == {s \in Sessions : BookingOf[s] = b /\ status[s] = "PENDING"} IN
    /\ b \in open /\ BookingFree(b) /\ pending # {} /\ \A s \in pending : RowFree(s)
    /\ \A s \in Sessions : BookingOf[s] = b => status[s] # "IN_PROGRESS"
    /\ open' = open \ {b}
    /\ Cancel(pending)

\* By the customer, one session; the last one closes the booking.
CancelSession(s) ==
    LET b == BookingOf[s]
        othersActive == \E t \in Sessions \ {s} : BookingOf[t] = b /\ Active(t)
    IN  /\ b \in open /\ BookingFree(b) /\ RowFree(s)
        /\ status[s] = "PENDING" /\ start[s] - now >= CancelLead
        /\ othersActive => b \in bookable
        /\ open' = IF othersActive THEN open ELSE open \ {b}
        /\ Cancel({s})

Tick ==
    /\ now < Horizon
    /\ now' = now + 1
    /\ UNCHANGED <<start, status, open, bookable, preferred, request, invites, holder,
                   claiming, moving, moves>>

Next ==
    \/ Tick \/ ListEndedRequests \/ ListStaleInvitations
    \/ \E b \in Bookings : Pay(b) \/ CancelBooking(b)
    \/ \E w \in Workers : FinishClaim(w)
    \/ \E s \in Sessions :
          \/ TellEndedRequest(s) \/ WithdrawInvitation(s) \/ CancelAssignment(s)
          \/ CancelSession(s) \/ UnassignByAdmin(s) \/ FinishMove(s) \/ StartWork(s) \/ CloseSession(s)
          \/ \E to \in StartTimes : BeginMove(s, to)
          \/ \E ws \in SUBSET Workers, r \in Responses : SendInvitations(s, ws, r)
    \/ \E w \in Workers, s \in Sessions :
          \/ RejectInvitation(w, s) \/ ExpireInvitation(s, w)
          \/ ClaimSession(w, s) \/ AcceptInvitation(w, s)
    \/ \E w \in Workers, b \in Bookings :
          \/ Decline(w, b)
          \/ \E asked \in (SUBSET {s \in Sessions : BookingOf[s] = b}) \ {{}} : ClaimPackage(w, b, asked)

Spec == Init /\ [][Next]_vars

-----------------------------------------------------------------------------
(* Properties.                                                             *)

\* A session that has its worker has no open invitation left, and only that
\* worker's invitation stands accepted: whoever answers next, whether it was
\* invited, withdrawn or expired meanwhile, cannot find the session twice.
InvitationsSettled ==
    \A s \in Sessions : \A w \in Workers :
        /\ invite[s][w] = "ACCEPTED" => holder[s] = w
        /\ invite[s][w] = "PENDING" => holder[s] = NoWorker

\* Two sessions of one worker overlap only after an admin moved one: claims of
\* single sessions, of packages and of invitations never cause it, in any order.
ClaimsNeverOverlap ==
    moves = 0 =>
        \A s, t \in Sessions :
            s # t /\ holder[s] # NoWorker /\ holder[s] = holder[t] /\ Active(s) /\ Active(t)
                => ~Overlap(s, t)

\* Nobody takes a session before the request to the preferred worker was opened
\* and has ended, nor past the workers an invitation still waits for.
FirstRefusal ==
    [][\A s \in Sessions :
          holder[s] = NoWorker /\ holder'[s] # NoWorker =>
              /\ preferred[BookingOf[s]] \notin {NoWorker, holder'[s]} =>
                    prefUntil[s] # Never /\ prefUntil[s] <= now
              /\ Invited(s) # {} => holder'[s] \in Invited(s)]_vars

\* An open invitation, and an open request, end early enough before the session
\* for the admin to find somebody else, however the session was moved.
AnswerDueInTime ==
    \A s \in Sessions :
        /\ Invited(s) # {} => inviteUntil[s] <= start[s] - Buffer
        /\ RequestIsLive(s) => prefUntil[s] <= start[s] - Buffer

\* The customer hears once at most that the preferred worker will not come:
\* by refusal, withdrawal or expiry, whichever of them is first.
ToldOnce == \A s \in Sessions : told[s] <= 1

\* What the job board offers, the session list of the booking offers as well,
\* and a claim made at once goes through to its last step.
OfferedIsClaimable ==
    \A w \in Workers, s \in Sessions :
        /\ Listed(w, s) => ClaimState(w, s) = "OPEN"
        /\ ClaimState(w, s) = "OPEN" /\ BookingOf[s] \in bookable =>
              Claimable(w, s) /\ CanTake(w, s, FALSE)

\* An invitation the app shows as open can be accepted at once, and a session it
\* lets the worker leave can be left: the session has not begun, been cancelled
\* or gone to somebody else behind it, and its booking is open.
ShownOpenIsOpen ==
    \A s \in Sessions :
        /\ \A w \in Workers :
              ShownInvitation(w, s) = "PENDING" /\ ~Conflict(w, s) => Claimable(w, s)
        /\ CanCancel(s) => BookingOf[s] \in open /\ start[s] - now >= CancelLead

\* A request never keeps out the workers an invitation is open for: the two
\* kinds of precedence are never in force together.
OnePrecedence == \A s \in Sessions : ~(Invited(s) # {} /\ RequestIsLive(s))

\* Whoever answers, withdraws or moves first: a session has one holder, no precedence is
\* left open once it is taken, and none is in force with another or too late.
InvitationsSafe ==
    /\ TypeOK
    /\ InvitationsSettled
    /\ AnswerDueInTime
    /\ OnePrecedence

\* What the app offers a worker, to claim, to accept or to leave, goes through.
OffersHold == OfferedIsClaimable /\ ShownOpenIsOpen
=============================================================================
