---------------------------- MODULE Notifications ----------------------------
(***************************************************************************)
(* The notifications of one user: rows written inside the transaction of   *)
(* what they tell, the number of unread ones shown by the app, and the     *)
(* push messages a task sends to the user's devices.                       *)
(* apps/notifications/services.py, views.py, realtime.py, push.py,         *)
(* tasks.py and preferences.py.                                            *)
(*                                                                         *)
(* After a commit the handler counts the unread rows, sends the number to  *)
(* the sockets and queues the push: steps between which others run.        *)
(***************************************************************************)
EXTENDS Integers, FiniteSets

CONSTANTS
    Notices,        \* notifications
    Tellers,        \* requests and jobs that write them
    PushDevices,    \* push tokens
    MaxRetries      \* max_retries of send_push_task

ASSUME NotificationsAssumption ==
    IsFiniteSet(Notices) /\ IsFiniteSet(Tellers) /\ MaxRetries \in Nat

VARIABLES
    notice,     \* for each notification, the state of its row
    teller,     \* for each request: next step, notification, number counted
    badge,      \* the number the app shows
    push,       \* for each notification: its task, tries so far, devices listed
    owner,      \* DeviceToken.user
    pushOn,     \* NotificationPreference.push_enabled
    got,        \* pushes that reached a device
    answered,   \* pushes Expo has taken and said so
    offBeat     \* the number shown was not sent last by the last change

noticeVars == <<notice, teller, badge, push, owner, pushOn, got, answered, offBeat>>

IdleTeller == [op |-> "idle", about |-> {}, count |-> 0]
NoPush == [step |-> "none", tries |-> 0, to |-> {}]

Unread == {n \in Notices : notice[n] = "unread"}

Goes(x, op) == teller' = [teller EXCEPT ![x].op = op]
Rests(x) == teller' = [teller EXCEPT ![x] = IdleTeller]

-----------------------------------------------------------------------------
(* Writing and reading.                                                    *)

\* Mutant: the push is queued inside the transaction.
CreateNotice_Pushes(x, n) ==
    /\ teller[x].op = "idle" /\ notice[n] = "none"
    /\ notice' = [notice EXCEPT ![n] = "open"]
    /\ teller' = [teller EXCEPT ![x].op = "open", ![x].about = {n}]
    /\ push' = [push EXCEPT ![n].step = "queued"]
    /\ UNCHANGED <<badge, owner, pushOn, got, answered, offBeat>>

\* create_notification: the row, inside the caller's transaction.
CreateNotice(x, n) ==
    /\ teller[x].op = "idle" /\ notice[n] = "none"
    /\ notice' = [notice EXCEPT ![n] = "open"]
    /\ teller' = [teller EXCEPT ![x].op = "open", ![x].about = {n}]
    /\ UNCHANGED <<badge, push, owner, pushOn, got, answered, offBeat>>

\* What follows is registered to run after the commit.
Commit(x) ==
    /\ teller[x].op = "open"
    /\ notice' = [n \in Notices |-> IF n \in teller[x].about THEN "unread" ELSE notice[n]]
    /\ Goes(x, "count") /\ UNCHANGED <<badge, push, owner, pushOn, got, answered, offBeat>>

Rollback(x) ==
    /\ teller[x].op = "open"
    /\ notice' = [n \in Notices |-> IF n \in teller[x].about THEN "undone" ELSE notice[n]]
    /\ Rests(x) /\ UNCHANGED <<badge, push, owner, pushOn, got, answered, offBeat>>

ReadBy(S) == [n \in Notices |-> IF n \in S THEN "read" ELSE notice[n]]

MarkRead(x, n) ==
    /\ teller[x].op = "idle" /\ n \in Unread
    /\ notice' = ReadBy({n})
    /\ Goes(x, "count") /\ UNCHANGED <<badge, push, owner, pushOn, got, answered, offBeat>>

MarkAllRead(x) ==
    /\ teller[x].op = "idle"
    /\ notice' = ReadBy(Unread)
    /\ Goes(x, "count") /\ UNCHANGED <<badge, push, owner, pushOn, got, answered, offBeat>>

\* The rows are deleted; nothing is sent to the sockets.
ClearAll ==
    /\ \E n \in Notices : notice[n] \in {"unread", "read"}
    /\ notice' = [n \in Notices |-> IF notice[n] \in {"unread", "read"} THEN "cleared"
                                    ELSE notice[n]]
    /\ offBeat' = (offBeat \/ Unread # {})
    /\ UNCHANGED <<teller, badge, push, owner, pushOn, got, answered>>

-----------------------------------------------------------------------------
(* After the commit.                                                       *)

CountUnread(x) ==
    /\ teller[x].op = "count"
    /\ teller' = [teller EXCEPT ![x].op = "send", ![x].count = Cardinality(Unread)]
    /\ UNCHANGED <<notice, badge, push, owner, pushOn, got, answered, offBeat>>

SendCount(x) ==
    /\ teller[x].op = "send"
    /\ badge' = teller[x].count
    /\ offBeat' = (teller[x].count # Cardinality(Unread))
    /\ IF teller[x].about = {} THEN Rests(x) ELSE Goes(x, "queue")
    /\ UNCHANGED <<notice, push, owner, pushOn, got, answered>>

\* A socket layer that fails is only logged.
SendFails(x) ==
    /\ teller[x].op = "send"
    /\ offBeat' = TRUE
    /\ IF teller[x].about = {} THEN Rests(x) ELSE Goes(x, "queue")
    /\ UNCHANGED <<notice, badge, push, owner, pushOn, got, answered>>

\* A queue that cannot be reached is only logged too.
QueuePush(x, reached) ==
    /\ teller[x].op = "queue"
    /\ push' = [n \in Notices |-> IF n \in teller[x].about /\ reached
                                  THEN [NoPush EXCEPT !.step = "queued"] ELSE push[n]]
    /\ Rests(x) /\ UNCHANGED <<notice, badge, owner, pushOn, got, answered, offBeat>>

\* The process dies after the commit.
TellerDies(x) ==
    /\ teller[x].op \in {"count", "send", "queue"}
    /\ offBeat' = (offBeat \/ teller[x].op # "queue")
    /\ Rests(x) /\ UNCHANGED <<notice, badge, push, owner, pushOn, got, answered>>

-----------------------------------------------------------------------------
(* The push task.                                                          *)

Own == {d \in PushDevices : owner[d] = "user"}

\* The preference and the devices are those of the moment of sending.
ListDevices(n) ==
    /\ push[n].step = "queued"
    /\ push' = [push EXCEPT ![n].step = IF pushOn /\ Own # {} THEN "listed" ELSE "done",
                            ![n].to = IF pushOn THEN Own ELSE {}]
    /\ UNCHANGED <<notice, teller, badge, owner, pushOn, got, answered, offBeat>>

Reaches(n) == got' = [d \in PushDevices |-> IF d \in push[n].to THEN [got[d] EXCEPT ![n] = @ + 1]
                                            ELSE got[d]]

PostPush(n) ==
    /\ push[n].step = "listed"
    /\ push' = [push EXCEPT ![n].step = "done"]
    /\ answered' = answered \cup {n} /\ Reaches(n)
    /\ UNCHANGED <<notice, teller, badge, owner, pushOn, offBeat>>

\* An error or a time-out is tried again, from the devices on.
Again(n) ==
    [push EXCEPT ![n] = [step |-> IF @.tries < MaxRetries THEN "queued" ELSE "done",
                         tries |-> @.tries + 1, to |-> {}]]

\* Expo may have sent the messages all the same.
PostFails(n, sent) ==
    /\ push[n].step = "listed"
    /\ push' = Again(n)
    /\ IF sent THEN Reaches(n) ELSE UNCHANGED got
    /\ UNCHANGED <<notice, teller, badge, owner, pushOn, answered, offBeat>>

\* update_or_create by token: the device changes hands.
RegisterDevice(d, who) ==
    /\ owner[d] # who
    /\ owner' = [owner EXCEPT ![d] = who]
    /\ UNCHANGED <<notice, teller, badge, push, pushOn, got, answered, offBeat>>

SetPreference ==
    /\ pushOn' = ~pushOn
    /\ UNCHANGED <<notice, teller, badge, push, owner, got, answered, offBeat>>

-----------------------------------------------------------------------------
NotificationsInit ==
    /\ notice = [n \in Notices |-> "none"] /\ teller = [x \in Tellers |-> IdleTeller]
    /\ push = [n \in Notices |-> NoPush] /\ badge = 0 /\ pushOn = TRUE
    /\ owner = [d \in PushDevices |-> "nobody"]
    /\ got = [d \in PushDevices |-> [n \in Notices |-> 0]]
    /\ answered = {} /\ offBeat = FALSE

NotificationsNext ==
    \/ ClearAll \/ SetPreference
    \/ \E x \in Tellers :
           \/ Commit(x) \/ Rollback(x) \/ MarkAllRead(x) \/ CountUnread(x) \/ SendCount(x)
           \/ SendFails(x) \/ TellerDies(x)
           \/ \E reached \in BOOLEAN : QueuePush(x, reached)
           \/ \E n \in Notices : CreateNotice(x, n) \/ MarkRead(x, n)
    \/ \E n \in Notices :
           ListDevices(n) \/ PostPush(n) \/ \E sent \in BOOLEAN : PostFails(n, sent)
    \/ \E d \in PushDevices, who \in {"user", "other", "nobody"} : RegisterDevice(d, who)

NotificationsSpec == NotificationsInit /\ [][NotificationsNext]_noticeVars

-----------------------------------------------------------------------------
\* Never more posts than the retries allow; the rest is the shape of the state.
NotificationsTypeOK ==
    /\ \A n \in Notices : /\ notice[n] \in {"none", "open", "undone", "unread", "read", "cleared"}
                          /\ push[n].step \in {"none", "queued", "listed", "done"}
                          /\ push[n].tries \in 0..(MaxRetries + 1)
                          /\ push[n].step \in {"queued", "listed"} => push[n].tries <= MaxRetries
    /\ badge \in 0..Cardinality(Notices)
    /\ \A x \in Tellers : teller[x].op \in {"idle", "open", "count", "send", "queue"}
    /\ owner \in [PushDevices -> {"user", "other", "nobody"}]
    /\ answered \subseteq Notices /\ offBeat \in BOOLEAN /\ pushOn \in BOOLEAN

\* No device is told of something that was rolled back or may still be: pushes are
\* queued after the commit.
PushedWasKept ==
    \A d \in PushDevices, n \in Notices : got[d][n] > 0 => notice[n] \notin {"none", "open", "undone"}

\* Once nothing is under way the app shows the number of unread notifications, unless
\* a number was overtaken by another, lost, or the list was cleared.
BadgeFollows ==
    offBeat \/ badge = Cardinality(Unread) \/ \E x \in Tellers : teller[x].op \in {"count", "send"}

\* A device gets a push again only if Expo did not answer: one more for each failure.
PushedOnce ==
    \A d \in PushDevices, n \in Notices :
        got[d][n] <= push[n].tries + (IF n \in answered THEN 1 ELSE 0)

\* Nothing is pushed that was rolled back, a device hears again only after a failure,
\* and the badge follows the unread rows, although every step after a commit may be
\* overtaken or lost.
NotificationsSafe ==
    /\ NotificationsTypeOK
    /\ PushedWasKept
    /\ BadgeFollows
    /\ PushedOnce
=============================================================================
