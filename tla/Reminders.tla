------------------------------ MODULE Reminders ------------------------------
(***************************************************************************)
(* The reminder an hour before a session: send_schedule_reminders_task     *)
(* (apps/worker/tasks.py) against an admin who moves the session           *)
(* (apps/bookings/admin_services.py), claims and cancellations.            *)
(***************************************************************************)
EXTENDS Integers, FiniteSets

CONSTANTS
    ReminderRuns,   \* overlapping runs of the job
    MaxMoves        \* bound: how often the session is moved

ASSUME RemindersAssumption == IsFiniteSet(ReminderRuns) /\ MaxMoves \in Nat

VARIABLES
    visit,      \* is the session waiting, has it a worker, how far ahead is it,
                \* has reminder_sent_at a value, how often was it moved
    listed,     \* for each run, the time of the session it has listed, or none
    reminders   \* how often the customer was reminded of each time

reminderVars == <<visit, listed, reminders>>

None == -1

ListVisit(j) ==
    /\ listed[j] = None
    /\ visit.waiting /\ visit.worker /\ visit.ahead = "hour" /\ ~visit.sent
    /\ listed' = [listed EXCEPT ![j] = visit.moves]
    /\ UNCHANGED <<visit, reminders>>

\* Mutant: the update is unconditional.
Claimed_Always == TRUE

\* A conditional update takes the right to send; nothing else is looked at again.
Claimed == ~visit.sent

Remind(j) ==
    /\ listed[j] # None
    /\ visit' = [visit EXCEPT !.sent = TRUE]
    /\ reminders' = IF Claimed THEN [reminders EXCEPT ![listed[j]] = @ + 1] ELSE reminders
    /\ listed' = [listed EXCEPT ![j] = None]

\* update_schedule_by_admin: a new time is to be reminded of, a new note is not.
EditVisit(ahead, moving) ==
    /\ visit.waiting /\ (moving => visit.moves < MaxMoves)
    /\ visit' = IF moving THEN [visit EXCEPT !.ahead = ahead, !.sent = FALSE, !.moves = @ + 1]
                ELSE visit
    /\ UNCHANGED <<listed, reminders>>

ChangeWorker ==
    /\ visit.waiting
    /\ visit' = [visit EXCEPT !.worker = ~@] /\ UNCHANGED <<listed, reminders>>

CancelVisit ==
    /\ visit.waiting
    /\ visit' = [visit EXCEPT !.waiting = FALSE] /\ UNCHANGED <<listed, reminders>>

ComeCloser ==
    /\ visit.ahead # "past"
    /\ visit' = [visit EXCEPT !.ahead = IF @ = "far" THEN "hour" ELSE "past"]
    /\ UNCHANGED <<listed, reminders>>

RemindersInit ==
    /\ visit = [waiting |-> TRUE, worker |-> FALSE, ahead |-> "far", sent |-> FALSE, moves |-> 0]
    /\ listed = [j \in ReminderRuns |-> None]
    /\ reminders = [m \in 0..MaxMoves |-> 0]

RemindersNext ==
    \/ \E j \in ReminderRuns : ListVisit(j) \/ Remind(j)
    \/ \E ahead \in {"far", "hour"}, moving \in BOOLEAN : EditVisit(ahead, moving)
    \/ ChangeWorker \/ CancelVisit \/ ComeCloser

RemindersSpec == RemindersInit /\ [][RemindersNext]_reminderVars

-----------------------------------------------------------------------------
\* The customer is reminded of a time once, by whichever run of the job; and once more
\* at most for each run that had listed it before the session was moved.
RemindedOnce ==
    \A m \in 0..MaxMoves :
        reminders[m] <= IF m = visit.moves THEN 1 ELSE 1 + Cardinality(ReminderRuns)

\* A session whose reminder counts as sent was the subject of one: of its present time,
\* or of an earlier one a run had listed when the session was moved.
SentWasReminded ==
    visit.sent => \E m \in 0..visit.moves : reminders[m] > 0

\* Overlapping runs remind the customer of a time once, and a session marked as reminded
\* was the subject of a reminder.
RemindersSafe ==
    /\ RemindedOnce
    /\ SentWasReminded
=============================================================================
