---------------------------- MODULE ChatMessages ----------------------------
(***************************************************************************)
(* Messages one user writes to the other side of several conversations:    *)
(* moderation, temporary locks, retries and read receipts.                 *)
(* apps/chat/service.py, policy.py, redaction.py, moderation.py, admin.py. *)
(*                                                                         *)
(* A send first checks that the conversation is open; then it waits for    *)
(* the writer's row, which serialises every send of that user.  A refused  *)
(* message is committed all the same: the violation must count.            *)
(***************************************************************************)
EXTENDS Integers, Sequences, FiniteSets

CONSTANTS
    Chats,              \* conversations of the writer, one job each
    ChatKeys, NoChatKey,    \* client_message_id, and its absence
    WarningLimit,       \* CHAT_WARNING_LIMIT
    LockSteps,          \* length of CHAT_LOCK_DAYS
    MaxMessages, MaxViolations      \* bounds: messages of a chat, violations in the window

ASSUME ChatMessagesAssumption ==
    /\ NoChatKey \notin ChatKeys
    /\ WarningLimit \in Nat \ {0} /\ LockSteps \in Nat \ {0}
    /\ MaxMessages \in Nat /\ MaxViolations \in Nat

VARIABLES
    job,            \* the assignment behind each chat: NONE, ACCEPTED, LINKED or ENDED
    sends,          \* sends past the check that the chat is open
    delivery,       \* ChatSendAttempt of each key
    messages,       \* messages of each chat, in the order of their ids
    violations,     \* actions of the violations of the window, oldest first
    chatLock,       \* step of CHAT_LOCK_DAYS the writer is locked for, 0 when free
    reading,        \* last unread id a reader found, -1 when nobody reads
    receipt,        \* last_read_message_id of the latest receipt
    charged         \* keys whose message was counted as a violation, and how often

chatVars == <<job, sends, delivery, messages, violations, chatLock, reading, receipt, charged>>

Contents == {"CLEAN", "REDACTABLE", "BLOCKED"}
NoDelivery == [chat |-> "none", content |-> "none", outcome |-> "NONE"]

-----------------------------------------------------------------------------
(* The job and its conversation.                                           *)

AcceptJob(k) ==
    /\ job[k] = "NONE"
    /\ job' = [job EXCEPT ![k] = "ACCEPTED"]
    /\ UNCHANGED <<sends, delivery, messages, violations, chatLock, reading, receipt, charged>>

\* Tried once after the claim has committed; a failure is swallowed.
EnsureChatForAssignment(k) ==
    /\ job[k] = "ACCEPTED"
    /\ job' = [job EXCEPT ![k] = "LINKED"]
    /\ UNCHANGED <<sends, delivery, messages, violations, chatLock, reading, receipt, charged>>

EndJob(k) ==
    /\ job[k] \in {"ACCEPTED", "LINKED"}
    /\ job' = [job EXCEPT ![k] = "ENDED"]
    /\ UNCHANGED <<sends, delivery, messages, violations, chatLock, reading, receipt, charged>>

CanSend(k) == job[k] = "LINKED"

-----------------------------------------------------------------------------
(* Moderation.                                                             *)

\* Contacts are cut out; the rest may be delivered.
RedactContacts(content) == content = "REDACTABLE"

\* Nothing is left, or what is left solicits a deal outside the app.
DetectViolation(content) == content = "BLOCKED"

PolicyStatus == [count |-> Len(violations), locked |-> chatLock > 0]

Smaller(a, b) == IF a < b THEN a ELSE b

\* Plausible bug: one warning too many.
LockStep_OffByOne(count) ==
    IF count > WarningLimit + 1 THEN Smaller(count - WarningLimit, LockSteps) ELSE 0

\* Days of the lock that the next violation brings, as a step of the schedule.
LockStep(count) == IF count > WarningLimit THEN Smaller(count - WarningLimit, LockSteps) ELSE 0

RecordViolation(key) ==
    LET step == LockStep(PolicyStatus.count + 1)
    IN  /\ chatLock' = IF step > 0 THEN step ELSE chatLock
        /\ violations' = Append(violations, IF step > 0 THEN "LOCK" ELSE "WARN")
        /\ charged' = IF key = NoChatKey THEN charged ELSE [charged EXCEPT ![key] = @ + 1]

-----------------------------------------------------------------------------
(* Sending.                                                                *)

BeginSend(k, key, content) ==
    /\ CanSend(k)
    /\ ~\E x \in sends : x.chat = k
    /\ sends' = sends \cup {[chat |-> k, key |-> key, content |-> content]}
    /\ UNCHANGED <<job, delivery, messages, violations, chatLock, reading, receipt, charged>>

Remember(x, outcome) ==
    delivery' = IF x.key = NoChatKey THEN delivery
               ELSE [delivery EXCEPT ![x.key] =
                        [chat |-> x.chat, content |-> x.content, outcome |-> outcome]]

KnownKey(x) == x.key # NoChatKey /\ delivery[x.key] # NoDelivery

\* The first answer again, or a refusal when the content is another.
RepeatAnswer(x) ==
    /\ KnownKey(x)
    /\ UNCHANGED <<delivery, messages, violations, chatLock, charged>>

RefuseLocked(x) ==
    /\ ~KnownKey(x) /\ PolicyStatus.locked
    /\ UNCHANGED <<delivery, messages, violations, chatLock, charged>>

Store(x) == messages' = [messages EXCEPT ![x.chat] = Append(@, [key |-> x.key, read |-> FALSE])]

DeliverClean(x) ==
    /\ x.content = "CLEAN"
    /\ Store(x) /\ Remember(x, "SENT")
    /\ UNCHANGED <<violations, chatLock, charged>>

\* A violation is recorded first; if it locks the writer nothing is delivered.
Moderate(x) ==
    /\ DetectViolation(x.content) \/ RedactContacts(x.content)
    /\ Len(violations) < MaxViolations
    /\ RecordViolation(x.key)
    /\ IF LockStep(PolicyStatus.count + 1) > 0 \/ DetectViolation(x.content)
       THEN Remember(x, "REFUSED") /\ UNCHANGED messages
       ELSE Store(x) /\ Remember(x, "SENT")

FinishSend(x) ==
    /\ x \in sends
    /\ sends' = sends \ {x}
    /\ Len(messages[x.chat]) < MaxMessages
    /\ \/ RepeatAnswer(x)
       \/ RefuseLocked(x)
       \/ ~KnownKey(x) /\ ~PolicyStatus.locked /\ (DeliverClean(x) \/ Moderate(x))
    /\ UNCHANGED <<job, reading, receipt>>

\* The lock ends, or an administrator takes it away.
Unlock ==
    /\ chatLock > 0
    /\ chatLock' = 0
    /\ UNCHANGED <<job, sends, delivery, messages, violations, reading, receipt, charged>>

\* The oldest violation leaves the window.
WindowMoves ==
    /\ violations # <<>>
    /\ violations' = Tail(violations)
    /\ UNCHANGED <<job, sends, delivery, messages, chatLock, reading, receipt, charged>>

-----------------------------------------------------------------------------
(* Reading, by the other side.  The last unread id is one query, the       *)
(* update of the unread messages another.                                  *)

Unread(k) == {i \in 1..Len(messages[k]) : ~messages[k][i].read}

LastUnread(k) == IF Unread(k) = {} THEN 0 ELSE CHOOSE i \in Unread(k) : \A j \in Unread(k) : j <= i

BeginRead(k) ==
    /\ reading[k] = -1
    /\ reading' = [reading EXCEPT ![k] = LastUnread(k)]
    /\ UNCHANGED <<job, sends, delivery, messages, violations, chatLock, receipt, charged>>

FinishRead(k) ==
    /\ reading[k] # -1
    /\ reading' = [reading EXCEPT ![k] = -1]
    /\ messages' = [messages EXCEPT ![k] = [i \in 1..Len(@) |-> [@[i] EXCEPT !.read = TRUE]]]
    /\ receipt' = IF reading[k] = 0 THEN receipt ELSE [receipt EXCEPT ![k] = reading[k]]
    /\ UNCHANGED <<job, sends, delivery, violations, chatLock, charged>>

-----------------------------------------------------------------------------
ChatInit ==
    /\ job = [k \in Chats |-> "NONE"] /\ sends = {}
    /\ delivery = [key \in ChatKeys |-> NoDelivery]
    /\ messages = [k \in Chats |-> <<>>]
    /\ violations = <<>> /\ chatLock = 0
    /\ reading = [k \in Chats |-> -1] /\ receipt = [k \in Chats |-> 0]
    /\ charged = [key \in ChatKeys |-> 0]

ChatNext ==
    \/ \E k \in Chats : AcceptJob(k) \/ EnsureChatForAssignment(k) \/ EndJob(k)
    \/ \E k \in Chats, key \in ChatKeys \cup {NoChatKey}, content \in Contents :
           BeginSend(k, key, content)
    \/ \E x \in sends : FinishSend(x)
    \/ Unlock \/ WindowMoves
    \/ \E k \in Chats : BeginRead(k) \/ FinishRead(k)

ChatSpec == ChatInit /\ [][ChatNext]_chatVars

-----------------------------------------------------------------------------
ChatTypeOK ==
    /\ job \in [Chats -> {"NONE", "ACCEPTED", "LINKED", "ENDED"}]
    /\ \A x \in sends : x.chat \in Chats /\ x.content \in Contents
    /\ \A k \in Chats : Len(messages[k]) <= MaxMessages /\ reading[k] \in -1..MaxMessages
    /\ \A i \in 1..Len(violations) : violations[i] \in {"WARN", "LOCK"}
    /\ chatLock \in 0..LockSteps

\* However many messages a user sends at once, no more violations of a window pass
\* with a warning than the limit; the next one locks.
WarningsBounded ==
    Cardinality({i \in 1..Len(violations) : violations[i] = "WARN"}) <= WarningLimit

\* A message sent again under its key is stored once and counts as one violation,
\* and its first answer stays: no message without it, one message with it.
KeyHandledOnce ==
    \A key \in ChatKeys :
        LET copies == UNION {{<<k, i>> : i \in {j \in 1..Len(messages[k]) : messages[k][j].key = key}}
                             : k \in Chats}
        IN  /\ Cardinality(copies) = IF delivery[key].outcome = "SENT" THEN 1 ELSE 0
            /\ charged[key] <= 1

\* While a writer is locked nothing of theirs is stored, not even a message that was
\* already waiting when the lock came.
LockedIsSilent == [][chatLock > 0 => \A k \in Chats : Len(messages'[k]) = Len(messages[k])]_chatVars

\* A read receipt never covers a message that is still unread, even if more messages
\* come in while the reader is being served.
ReceiptIsTrue == \A k \in Chats : \A i \in 1..receipt[k] : messages[k][i].read

\* However many messages a user sends at once, and however often one of them again:
\* warnings lead to a lock, the lock stops everything, a key is used once, and a receipt
\* covers only what was read.
ChatSafe ==
    /\ [](ChatTypeOK /\ WarningsBounded /\ KeyHandledOnce /\ ReceiptIsTrue)
    /\ LockedIsSilent
=============================================================================
