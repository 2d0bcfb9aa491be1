------------------------------ MODULE WorkerDesk ------------------------------
(***************************************************************************)
(* How a worker's requests for sessions go through the views: a lock in    *)
(* Redis around the service, which has its own locks, then the chat with   *)
(* the customer after the commit; and how the worker finds his sessions    *)
(* again, in the tabs of the app and through the assistant.                *)
(* apps/worker/views.py, common/distributed_lock.py, chat/service.py, the  *)
(* queries of worker/assignment_service.py and of chatbot worker_tool.py.  *)
(*                                                                         *)
(* The sessions are those of one booking.  A lock in Redis may expire      *)
(* while it is held, and is done without when Redis is away.               *)
(***************************************************************************)
EXTENDS Integers, FiniteSets

CONSTANTS
    Jobs,           \* sessions
    JobDay,         \* the day of each
    Helpers,        \* workers
    NoHelper,
    Asks,           \* requests being handled
    NoAsk,
    LastDay,        \* bound on the days
    MaxTerms        \* bound on how often a session is accepted

ASSUME WorkerDeskAssumption ==
    /\ IsFiniteSet(Jobs) /\ Cardinality(Jobs) >= 2 /\ JobDay \in [Jobs -> 0..LastDay]
    /\ NoHelper \notin Helpers /\ NoAsk \notin Asks /\ LastDay \in Nat /\ MaxTerms \in Nat

VARIABLES
    today,
    job,        \* each session: status, accepted worker, acceptances so far, who did not come
    lockedBy,   \* the locks in Redis: of one session, or of the booking
    ask,        \* each request
    links,      \* acceptances that are linked to a chat
    unlinked    \* those whose link failed, or whose request died before it

deskVars == <<today, job, lockedBy, ask, links, unlinked>>

Days == 0..LastDay
Ongoing == {"PENDING", "IN_PROGRESS"}
Ended == {"COMPLETED", "CANCELLED", "MISSED"}

\* A lock is named by the sessions it is about.
LockNames == {{j} : j \in Jobs} \cup {Jobs}

NotAsking == [step |-> "idle", by |-> NoHelper, wants |-> {}, whole |-> FALSE,
              lock |-> {}, expired |-> FALSE, got |-> {}]

Acceptance(j) == <<j, job[j].terms>>

-----------------------------------------------------------------------------
(* A request.                                                              *)

\* It waits for the lock, three seconds at most, or goes without when Redis is away.
EntersWith(r, h, wants, whole, lock) ==
    /\ ask[r] = NotAsking
    /\ lock # {} => lockedBy[lock] = NoAsk
    /\ lockedBy' = IF lock = {} THEN lockedBy ELSE [lockedBy EXCEPT ![lock] = r]
    /\ ask' = [ask EXCEPT ![r] = [NotAsking EXCEPT !.step = "inside", !.by = h, !.wants = wants,
                                                   !.whole = whole, !.lock = lock]]
    /\ UNCHANGED <<today, job, links, unlinked>>

\* WorkerClaimScheduleView
AskForJob(r, h, j) == EntersWith(r, h, {j}, FALSE, {j})

\* WorkerClaimBookingPackageView, and the answer to a customer's request in the assistant.
AskForPackage(r, h, js) == js # {} /\ EntersWith(r, h, js, TRUE, Jobs)

\* WorkerInvitationResponseView takes no lock; nor do the others while Redis is away.
AskWithoutLock(r, h, js, whole) ==
    /\ js # {} /\ (~whole => Cardinality(js) = 1)
    /\ EntersWith(r, h, js, whole, {})

\* More time than its ttl has passed.
LockExpires(r) ==
    /\ ask[r].lock # {} /\ lockedBy[ask[r].lock] = r
    /\ lockedBy' = [lockedBy EXCEPT ![ask[r].lock] = NoAsk]
    /\ ask' = IF ask[r].step = "dead" THEN [ask EXCEPT ![r] = NotAsking]
              ELSE [ask EXCEPT ![r].expired = TRUE]
    /\ UNCHANGED <<today, job, links, unlinked>>

IsFree(j) == job[j].status = "PENDING" /\ job[j].who = NoHelper /\ JobDay[j] >= today
             /\ job[j].terms < MaxTerms

\* A session that is already his is answered again when it is asked for alone; a package
\* passes over it.
Granted(r) ==
    LET free == {j \in ask[r].wants : IsFree(j)}
        mine == {j \in ask[r].wants : job[j].who = ask[r].by}
    IN  IF ask[r].whole THEN [new |-> free, told |-> free]
        ELSE [new |-> free, told |-> free \cup mine]

\* claim_schedule or claim_booking_package, in one transaction that holds the rows of the
\* worker, the booking and the sessions.  What is refused leaves the lock all the same.
ServeAsk(r) ==
    /\ ask[r].step = "inside"
    /\ job' = [j \in Jobs |-> IF j \in Granted(r).new
                              THEN [job[j] EXCEPT !.who = ask[r].by, !.terms = @ + 1] ELSE job[j]]
    /\ ask' = [ask EXCEPT ![r].step = "leaving",
                          ![r].got = {<<j, job'[j].terms>> : j \in Granted(r).told}]
    /\ UNCHANGED <<today, lockedBy, links, unlinked>>

Serving(r) == IF ask[r].got = {} THEN NotAsking
              ELSE [ask[r] EXCEPT !.step = "linking", !.lock = {}, !.expired = FALSE]

\* Plausible bug: the key is deleted whoever holds it.
LeaveLock_Anyones(r) ==
    /\ ask[r].step = "leaving"
    /\ lockedBy' = IF ask[r].lock # {} THEN [lockedBy EXCEPT ![ask[r].lock] = NoAsk] ELSE lockedBy
    /\ ask' = [ask EXCEPT ![r] = Serving(r)]
    /\ UNCHANGED <<today, job, links, unlinked>>

\* Its own lock, if it still holds it: LockNotOwnedError is passed over.
LeaveLock(r) ==
    /\ ask[r].step = "leaving"
    /\ lockedBy' = IF ask[r].lock # {} /\ lockedBy[ask[r].lock] = r
                   THEN [lockedBy EXCEPT ![ask[r].lock] = NoAsk] ELSE lockedBy
    /\ ask' = [ask EXCEPT ![r] = Serving(r)]
    /\ UNCHANGED <<today, job, links, unlinked>>

Linked(r, a) == IF ask[r].got = {a} THEN NotAsking ELSE [ask[r] EXCEPT !.got = @ \ {a}]

\* ensure_chat_for_assignment, once per acceptance, whatever has become of it since.
EnsureChat(r, a) ==
    /\ ask[r].step = "linking" /\ a \in ask[r].got
    /\ links' = links \cup {a} /\ unlinked' = unlinked \ {a}
    /\ ask' = [ask EXCEPT ![r] = Linked(r, a)]
    /\ UNCHANGED <<today, job, lockedBy>>

\* Its errors are swallowed: the session is accepted all the same.
ChatFails(r, a) ==
    /\ ask[r].step = "linking" /\ a \in ask[r].got
    /\ unlinked' = IF a \in links THEN unlinked ELSE unlinked \cup {a}
    /\ ask' = [ask EXCEPT ![r] = Linked(r, a)]
    /\ UNCHANGED <<today, job, lockedBy, links>>

\* The lock of a dead process stays until it expires.
AskDies(r) ==
    /\ ask[r].step \in {"inside", "leaving", "linking"}
    /\ unlinked' = unlinked \cup (ask[r].got \ links)
    /\ ask' = [ask EXCEPT ![r] = IF ask[r].lock # {} /\ lockedBy[ask[r].lock] = r
                                 THEN [NotAsking EXCEPT !.step = "dead", !.lock = ask[r].lock]
                                 ELSE NotAsking]
    /\ UNCHANGED <<today, job, lockedBy, links>>

-----------------------------------------------------------------------------
(* The sessions.                                                           *)

Becomes(j, row) ==
    /\ job' = [job EXCEPT ![j] = row]
    /\ UNCHANGED <<today, lockedBy, ask, links, unlinked>>

\* The worker leaves it, or is taken off.
GivesUp(j) ==
    /\ job[j].status = "PENDING" /\ job[j].who # NoHelper
    /\ Becomes(j, [job[j] EXCEPT !.who = NoHelper])

BeginsWork(j) ==
    /\ job[j].status = "PENDING" /\ job[j].who # NoHelper /\ JobDay[j] = today
    /\ Becomes(j, [job[j] EXCEPT !.status = "IN_PROGRESS"])

EndsWork(j) ==
    /\ job[j].status = "IN_PROGRESS"
    /\ Becomes(j, [job[j] EXCEPT !.status = "COMPLETED"])

JobIsCancelled(j) ==
    /\ job[j].status = "PENDING"
    /\ Becomes(j, [job[j] EXCEPT !.status = "CANCELLED", !.who = NoHelper])

\* The job takes it from a worker who did not come, and ends it; it may be late.
JobIsMissed(j) ==
    /\ job[j].status = "PENDING" /\ JobDay[j] <= today
    /\ Becomes(j, [job[j] EXCEPT !.status = "MISSED", !.who = NoHelper, !.absent = job[j].who])

NightFalls ==
    /\ today < LastDay /\ today' = today + 1
    /\ UNCHANGED <<job, lockedBy, ask, links, unlinked>>

-----------------------------------------------------------------------------
(* What a worker is shown.                                                 *)

\* _my_assignment_exists
MyJobs(h) == {j \in Jobs : job[j].who = h \/ (job[j].status = "MISSED" /\ job[j].absent = h)}

Tabs == {"today", "upcoming", "completed", "cancelled"}

\* _tab_q
InTab(tab, j) ==
    \/ /\ tab = "today"
       /\ job[j].status = "IN_PROGRESS" \/ (job[j].status = "PENDING" /\ JobDay[j] = today)
    \/ tab = "upcoming" /\ job[j].status = "PENDING" /\ JobDay[j] > today
    \/ tab = "completed" /\ job[j].status = "COMPLETED"
    \/ tab = "cancelled" /\ job[j].status \in {"CANCELLED", "MISSED"}

\* count_my_schedules_by_tab, of one booking: whether it is counted.
CountedIn(tab, h) == \E j \in MyJobs(h) : InTab(tab, j)

\* list_my_schedules, of a tab
ListOfTab(tab, h) ==
    {j \in MyJobs(h) : CASE tab \in {"today", "upcoming"} -> InTab(tab, j)
                         [] tab = "completed" -> job[j].status = "COMPLETED"
                         [] tab = "cancelled" -> job[j].status \in {"CANCELLED", "MISSED"}}

\* list_booking_schedules_for_worker: his own, and all that are not over.
JobsOfBooking(h) == {j \in Jobs : job[j].who = h \/ job[j].status = "PENDING"}

\* get_my_schedule of the assistant: of a status, or what is ahead.
AssistantLists(h, status) ==
    IF status = "MISSED" THEN {j \in Jobs : job[j].status = "MISSED" /\ job[j].absent = h}
    ELSE {j \in Jobs : job[j].who = h /\ job[j].status = status}
AssistantListsAhead(h) == {j \in Jobs : job[j].who = h /\ job[j].status \in Ongoing}

\* _annotate_my_progress
ProgressOf(h) ==
    [completed |-> Cardinality({j \in MyJobs(h) : job[j].status = "COMPLETED"}),
     accepted |-> Cardinality({j \in MyJobs(h) : job[j].status \notin {"CANCELLED", "MISSED"}})]

\* can_send: the chat of the customer and this worker.
CanChat(h) ==
    \E j \in Jobs : job[j].who = h /\ job[j].status \in Ongoing /\ Acceptance(j) \in links

-----------------------------------------------------------------------------
DeskInit ==
    /\ today = 0
    /\ job = [j \in Jobs |-> [status |-> "PENDING", who |-> NoHelper, terms |-> 0, absent |-> NoHelper]]
    /\ lockedBy = [name \in LockNames |-> NoAsk]
    /\ ask = [r \in Asks |-> NotAsking] /\ links = {} /\ unlinked = {}

DeskNext ==
    \/ \E r \in Asks, h \in Helpers :
          \/ \E j \in Jobs : AskForJob(r, h, j)
          \/ \E js \in SUBSET Jobs : AskForPackage(r, h, js)
          \/ \E js \in SUBSET Jobs, whole \in BOOLEAN : AskWithoutLock(r, h, js, whole)
    \/ \E r \in Asks :
          \/ LockExpires(r) \/ ServeAsk(r) \/ LeaveLock(r) \/ AskDies(r)
          \/ \E a \in ask[r].got : EnsureChat(r, a) \/ ChatFails(r, a)
    \/ \E j \in Jobs :
          GivesUp(j) \/ BeginsWork(j) \/ EndsWork(j) \/ JobIsCancelled(j) \/ JobIsMissed(j)
    \/ NightFalls

-----------------------------------------------------------------------------
DeskTypeOK ==
    /\ today \in Days
    /\ \A j \in Jobs : /\ job[j].status \in Ongoing \cup Ended
                       /\ job[j].who \in Helpers \cup {NoHelper} /\ job[j].terms \in 0..MaxTerms
    /\ lockedBy \in [LockNames -> Asks \cup {NoAsk}]
    /\ \A r \in Asks : ask[r].step \in {"idle", "inside", "leaving", "linking", "dead"}
    /\ links \cap unlinked = {}

\* Two requests are inside the same lock of Redis only when that of one has expired: a
\* request that comes back late does not free the lock of the one after it.
LockedAlone ==
    \A r, s \in Asks :
        /\ r # s /\ ask[r].lock # {} /\ ask[r].lock = ask[s].lock
        => ask[r].expired \/ ask[s].expired

\* A worker can write to the customer as long as he has a session ahead, once the request
\* that brought it is done, unless the link failed and he has not asked again: whichever
\* way he took it, and although links are made after the commit and outside the lock.
ChatIsOpen ==
    \A j \in Jobs :
        /\ job[j].who # NoHelper /\ job[j].status \in Ongoing
        /\ Acceptance(j) \notin unlinked
        /\ \A r \in Asks : Acceptance(j) \notin ask[r].got
        => CanChat(job[j].who)

\* A chat is never linked to what was not accepted, whoever won the session.
OnlyAcceptedIsLinked ==
    \A a \in links \cup unlinked : a[2] \in 1..job[a[1]].terms

Overdue(j) == job[j].status = "PENDING" /\ JobDay[j] < today

\* Each session of a worker is in one tab, that counts it; one of a past day that the job
\* has not looked at yet is in none.  Nobody finds the session of somebody else, and what
\* is cancelled is no longer anybody's.
OneTab ==
    \A h \in Helpers :
        /\ \A j \in MyJobs(h) :
              /\ Cardinality({tab \in Tabs : j \in ListOfTab(tab, h)}) = IF Overdue(j) THEN 0 ELSE 1
              /\ job[j].status # "CANCELLED"
              /\ \A g \in Helpers \ {h} : j \notin MyJobs(g)
        /\ \A tab \in Tabs : CountedIn(tab, h) <=> ListOfTab(tab, h) # {}

\* The assistant finds the sessions that the app shows: all of them by their status, and
\* ahead those of today, the coming ones, and those in no tab.  A booking shows what is left.
AssistantAgrees ==
    \A h \in Helpers :
        /\ UNION {AssistantLists(h, status) : status \in Ongoing \cup Ended} = MyJobs(h)
        /\ AssistantListsAhead(h) = ListOfTab("today", h) \cup ListOfTab("upcoming", h)
                                    \cup {j \in MyJobs(h) : Overdue(j)}
        /\ ProgressOf(h).accepted = Cardinality(AssistantListsAhead(h) \cup ListOfTab("completed", h))
        /\ AssistantListsAhead(h) \subseteq JobsOfBooking(h)

\* Locks that expire, lost links and late jobs leave each session with one worker, who can
\* write to its customer and finds it in one place.
DeskSafe ==
    /\ DeskTypeOK
    /\ LockedAlone
    /\ ChatIsOpen
    /\ OnlyAcceptedIsLinked
    /\ OneTab
    /\ AssistantAgrees
=============================================================================
