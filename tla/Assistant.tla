------------------------------ MODULE Assistant ------------------------------
(***************************************************************************)
(* One conversation with the assistant: the turns in which it answers the  *)
(* messages of a customer or a worker, and the drafts it prepares and      *)
(* carries out.  apps/chatbot/services/conversation.py, booking.py,        *)
(* booking_tool.py, address_tool.py, worker_tool.py, agent/ and views.py.  *)
(*                                                                         *)
(* A turn is claimed in a transaction, the language model then calls tools *)
(* in any order, and the answer is written in a second transaction.  A     *)
(* process may die or hang in between; the lease of the turn then lets the *)
(* message, or a new one, be claimed again.  What the model decides to     *)
(* call is arbitrary: the rules are what the tools enforce.  It may call   *)
(* several tools at once, and one that confirms a draft gets it from the   *)
(* cache, deletes it and then does what it says, each in its own access.   *)
(***************************************************************************)
EXTENDS Integers, Sequences, SequencesExt, FiniteSets, Sums

CONSTANTS
    Utterances,     \* ids of the messages the client sends
    MaxAttempts,    \* bound on the attempts of a turn
    MaxDrafts,      \* bound on the drafts prepared
    ToolCalls,      \* calls of tools that may be under way at once
    Lengths,        \* of a message together with its answer
    HistoryTurns,       \* CHATBOT_HISTORY_TURNS
    HistoryCharacters   \* CHATBOT_HISTORY_CHARACTERS

ASSUME AssistantAssumption ==
    /\ IsFiniteSet(Utterances) /\ Lengths \subseteq Nat
    /\ HistoryTurns \in Nat /\ HistoryCharacters \in Nat
    /\ MaxAttempts \in Nat /\ MaxDrafts \in Nat

VARIABLES
    conversation,   \* ACTIVE, CLOSED or DELETED
    written,        \* messages in the order of their rows
    clear,          \* messages that say nothing but that the user agrees
    turn,           \* ChatbotRun of each message: status, attempt, lease passed
    atWork,         \* attempts whose process still runs
    replies,        \* answers in the order they were written
    draft,          \* ChatbotBookingDraft of the conversation
    booked,         \* bookings made from it
    kind,           \* what is drafted in this conversation
    target,         \* can that thing be done, and is what it needs at hand?
    length,         \* characters of each message and its answer
    cached,         \* its draft in the cache, or NoCached
    confirming,     \* calls that confirm a draft: the draft they got, and the one they deleted
    acts            \* what was done from such drafts

assistantVars == <<conversation, written, clear, turn, atWork, replies, draft, booked,
                   kind, length, target, cached, confirming, acts>>
turnVars == <<conversation, written, clear, turn, atWork, replies>>
bookingDraftVars == <<draft, booked>>
cachedVars == <<target, cached, confirming, acts>>
settledVars == <<kind, length>>

Kinds == {"BOOKING", "CANCEL", "ADDRESS", "INVITATION", "PREFERRED", "CHECK_OUT", "COMPLAINT"}

Attempt(m, k) == [of |-> m, number |-> k]
NoCached == [by |-> Attempt("none", 0), accept |-> TRUE, number |-> 0]
NoCall == [by |-> NoCached.by, from |-> NoCached.by, accept |-> TRUE, number |-> 0, took |-> 0]
NoDraft == [status |-> "NONE", by |-> "none", late |-> FALSE, number |-> 0]

-----------------------------------------------------------------------------
(* Turns.                                                                  *)

Known(m) == m \in Range(written)
Position(m) == CHOOSE i \in DOMAIN written : written[i] = m
Running == {m \in Utterances : turn[m].status = "RUNNING"}

\* OUTDATED_RETRY: the user has written something since.
Outdated(m) == Known(m) /\ Position(m) < Len(written)

\* A turn whose lease has passed fails, and the message gets a new attempt.
ClaimedTurn(m) ==
    [n \in Utterances |->
        IF n = m THEN [status |-> "RUNNING", number |-> turn[m].number + 1, late |-> FALSE]
        ELSE IF n \in Running THEN [turn[n] EXCEPT !.status = "FAILED"] ELSE turn[n]]

\* A message that was answered is only replayed.
ClaimRun(m, agrees) ==
    /\ conversation = "ACTIVE" /\ turn[m].status # "SUCCEEDED" /\ turn[m].number < MaxAttempts
    /\ \A n \in Running : turn[n].late
    /\ ~Outdated(m)
    /\ written' = IF Known(m) THEN written ELSE Append(written, m)
    /\ clear' = IF ~Known(m) /\ agrees THEN clear \cup {m} ELSE clear
    /\ turn' = ClaimedTurn(m)
    /\ atWork' = atWork \cup {Attempt(m, turn[m].number + 1)}
    /\ UNCHANGED <<conversation, replies, bookingDraftVars, settledVars, cachedVars>>

\* Longer than the time a turn is given, one call of the model and a minute.
LeasePasses(m) ==
    /\ m \in Running /\ ~turn[m].late
    /\ turn' = [turn EXCEPT ![m].late = TRUE]
    /\ UNCHANGED <<conversation, written, clear, atWork, replies, bookingDraftVars, settledVars, cachedVars>>

\* Asking for the state of a turn whose lease has passed ends it.
ExpireRun(m) ==
    /\ m \in Running /\ turn[m].late
    /\ turn' = [turn EXCEPT ![m].status = "FAILED"]
    /\ UNCHANGED <<conversation, written, clear, atWork, replies, bookingDraftVars, settledVars, cachedVars>>

\* Plausible bug: any attempt of a running turn may answer.
StillMine_AnyAttempt(a) == turn[a.of].status = "RUNNING"

StillMine(a) == turn[a.of].status = "RUNNING" /\ turn[a.of].number = a.number

\* The agent waits for the tools it has called.
ToolsReturned(a) == \A c \in ToolCalls : confirming[c].by # a

Complete(a) ==
    /\ a \in atWork /\ ToolsReturned(a) /\ atWork' = atWork \ {a}
    /\ IF StillMine(a)
       THEN /\ turn' = [turn EXCEPT ![a.of].status = "SUCCEEDED"]
            /\ replies' = Append(replies, a)
       ELSE UNCHANGED <<turn, replies>>
    /\ UNCHANGED <<conversation, written, clear, bookingDraftVars, settledVars, cachedVars>>

Fail(a) ==
    /\ a \in atWork /\ ToolsReturned(a) /\ atWork' = atWork \ {a}
    /\ turn' = IF StillMine(a) THEN [turn EXCEPT ![a.of].status = "FAILED"] ELSE turn
    /\ UNCHANGED <<conversation, written, clear, replies, bookingDraftVars, settledVars, cachedVars>>

AttemptDies(a) ==
    /\ a \in atWork /\ atWork' = atWork \ {a}
    /\ confirming' = [c \in ToolCalls |-> IF confirming[c].by = a THEN NoCall ELSE confirming[c]]
    /\ UNCHANGED <<conversation, written, clear, turn, replies, bookingDraftVars, settledVars,
                   target, cached, acts>>

CloseOrReopen ==
    /\ conversation # "DELETED" /\ Running = {}
    /\ conversation' = IF conversation = "ACTIVE" THEN "CLOSED" ELSE "ACTIVE"
    /\ UNCHANGED <<written, clear, turn, atWork, replies, bookingDraftVars, settledVars, cachedVars>>

\* Turns, messages and the draft of a booking go with it; a draft in the cache does not,
\* and a tool that hangs goes on.
DeleteConversation ==
    /\ conversation # "DELETED" /\ Running = {}
    /\ conversation' = "DELETED"
    /\ written' = <<>> /\ clear' = {} /\ replies' = <<>> /\ draft' = NoDraft /\ booked' = <<>>
    /\ turn' = [m \in Utterances |-> [status |-> "NONE", number |-> 0, late |-> FALSE]]
    /\ UNCHANGED <<atWork, settledVars, cachedVars>>

Answered == {m \in Utterances : turn[m].status = "SUCCEEDED"}

Since(m) == {n \in Answered : Position(n) >= Position(m)}

Fits(told) ==
    Cardinality(told) <= HistoryTurns /\ SumOver(length, told) <= HistoryCharacters

\* committed_history: the last messages that were answered, by their rows, as many as
\* fit.  The model is told them in this order.
History == {m \in Answered : Fits(Since(m))}

-----------------------------------------------------------------------------
(* Tools.  None starts after the deadline of the turn, long before the     *)
(* lease passes.                                                           *)

Works(a) == a \in atWork /\ StillMine(a) /\ ~turn[a.of].late

\* A quote is stored, in place of any draft there was.
PrepareBooking(a) ==
    /\ kind = "BOOKING" /\ Works(a) /\ draft.number < MaxDrafts
    /\ draft' = [status |-> "AWAITING", by |-> a.of, late |-> FALSE, number |-> draft.number + 1]
    /\ UNCHANGED <<turnVars, booked, settledVars, cachedVars>>

\* The turn that prepared the draft is stored as a UUID and compared with a string:
\* the two are never equal, so the turn may confirm what it prepared.
MayConfirm == draft.status = "AWAITING" /\ ~draft.late

Confirmed == [draft EXCEPT !.status = "CONFIRMED"]

\* The message must say that the user agrees.  A draft that is confirmed already only
\* brings its booking back.
ConfirmBooking(a) ==
    /\ Works(a) /\ a.of \in clear /\ MayConfirm
    /\ draft' = Confirmed
    /\ booked' = Append(booked, [number |-> draft.number, from |-> draft.by, by |-> a.of])
    /\ UNCHANGED <<turnVars, settledVars, cachedVars>>

DiscardBookingDraft(a) ==
    /\ Works(a) /\ draft.status = "AWAITING"
    /\ draft' = [draft EXCEPT !.status = "CANCELLED"]
    /\ UNCHANGED <<turnVars, booked, settledVars, cachedVars>>

DraftExpires ==
    \/ /\ draft.status = "AWAITING" /\ ~draft.late
       /\ draft' = [draft EXCEPT !.late = TRUE]
       /\ UNCHANGED <<turnVars, booked, settledVars, cachedVars>>
    \/ /\ cached.number > 0 /\ cached.by.of # "none"
       /\ cached' = [NoCached EXCEPT !.number = cached.number]
       /\ UNCHANGED <<turnVars, bookingDraftVars, settledVars, target, confirming, acts>>

Prepare(a, accept) ==
    /\ Works(a) /\ cached.number < MaxDrafts
    /\ cached' = [by |-> a, accept |-> accept, number |-> cached.number + 1]
    /\ UNCHANGED <<turnVars, bookingDraftVars, settledVars, target, confirming, acts>>

\* cache.get: a draft, which another attempt has made.
FetchDraft(a, c) ==
    /\ Works(a) /\ confirming[c] = NoCall
    /\ cached.by.of # "none" /\ cached.by # a
    /\ confirming' = [confirming EXCEPT ![c] =
           [by |-> a, from |-> cached.by, accept |-> cached.accept, number |-> cached.number, took |-> 0]]
    /\ UNCHANGED <<turnVars, bookingDraftVars, settledVars, target, cached, acts>>

Emptied == [NoCached EXCEPT !.number = cached.number]

\* cache.delete: whatever is there by now; the call ends if nothing is.
TakeDraft(c) ==
    /\ confirming[c].number > 0 /\ confirming[c].took = 0
    /\ IF cached.by.of # "none"
       THEN cached' = Emptied /\ confirming' = [confirming EXCEPT ![c].took = cached.number]
       ELSE confirming' = [confirming EXCEPT ![c] = NoCall] /\ UNCHANGED cached
    /\ UNCHANGED <<turnVars, bookingDraftVars, settledVars, target, acts>>

\* The service decides once more; the draft is lost if it refuses.
CarryOut(c, possible) ==
    /\ confirming[c].took > 0
    /\ confirming' = [confirming EXCEPT ![c] = NoCall]
    /\ IF possible
       THEN /\ acts' = Append(acts, confirming[c])
            /\ target' = [target EXCEPT !.open = FALSE]
       ELSE UNCHANGED <<target, acts>>
    /\ UNCHANGED <<turnVars, bookingDraftVars, settledVars, cached>>

\* A booking or a session that may still be cancelled, early enough.
PrepareCancel(a) == kind = "CANCEL" /\ target.open /\ Prepare(a, TRUE)
ConfirmCancel(c) == kind = "CANCEL" /\ CarryOut(c, target.open)

\* The fields of an address; nobody else has a say in them.
PrepareAddress(a) == kind = "ADDRESS" /\ Prepare(a, TRUE)
ConfirmAddress(c) == kind = "ADDRESS" /\ CarryOut(c, TRUE)

\* The invitation is open, and the wallet holds the commission of a cash booking.
CanAnswer(accept) == target.open /\ (accept => target.provided)

PrepareInvitationResponse(a) ==
    kind = "INVITATION" /\ \E accept \in BOOLEAN : CanAnswer(accept) /\ Prepare(a, accept)
ConfirmInvitationResponse(c) == kind = "INVITATION" /\ CarryOut(c, CanAnswer(confirming[c].accept))

\* The sessions the customer asked this worker for.
PreparePreferredResponse(a) ==
    kind = "PREFERRED" /\ \E accept \in BOOLEAN : CanAnswer(accept) /\ Prepare(a, accept)
ConfirmPreferredResponse(c) == kind = "PREFERRED" /\ CarryOut(c, CanAnswer(confirming[c].accept))

\* The session is in progress, not overdue, and has pictures of before and after.
PrepareCheckOut(a) == kind = "CHECK_OUT" /\ target.open /\ target.provided /\ Prepare(a, TRUE)
ConfirmCheckOut(c) == kind = "CHECK_OUT" /\ CarryOut(c, target.open /\ target.provided)

\* The kind of the complaint fits the state of the session, and none is open.
PrepareComplaint(a) == kind = "COMPLAINT" /\ target.open /\ Prepare(a, TRUE)
ConfirmComplaint(c) == kind = "COMPLAINT" /\ CarryOut(c, target.open)

\* Customers, workers, admins and jobs change what the draft is about.
TargetChanges ==
    /\ kind # "ADDRESS"
    /\ cached.by.of # "none" \/ confirming # [c \in ToolCalls |-> NoCall]
    /\ \E t \in [open : BOOLEAN, provided : BOOLEAN] : (t.open => target.open) /\ target' = t
    /\ UNCHANGED <<turnVars, bookingDraftVars, settledVars, cached, confirming, acts>>

-----------------------------------------------------------------------------
AssistantInit ==
    /\ conversation = "ACTIVE" /\ written = <<>> /\ clear = {} /\ atWork = {} /\ replies = <<>>
    /\ turn = [m \in Utterances |-> [status |-> "NONE", number |-> 0, late |-> FALSE]]
    /\ draft = NoDraft /\ booked = <<>> /\ cached = NoCached /\ acts = <<>>
    /\ confirming = [c \in ToolCalls |-> NoCall] /\ length \in [Utterances -> Lengths]
    /\ kind \in Kinds /\ target = [open |-> TRUE, provided |-> TRUE]

AssistantNext ==
    \/ \E m \in Utterances :
        \/ \E agrees \in BOOLEAN : ClaimRun(m, agrees)
        \/ LeasePasses(m) \/ ExpireRun(m)
    \/ \E a \in atWork :
        \/ Complete(a) \/ Fail(a) \/ AttemptDies(a)
        \/ PrepareBooking(a) \/ ConfirmBooking(a) \/ DiscardBookingDraft(a)
        \/ PrepareCancel(a) \/ PrepareAddress(a) \/ PrepareInvitationResponse(a)
        \/ PreparePreferredResponse(a) \/ PrepareCheckOut(a) \/ PrepareComplaint(a)
        \/ \E c \in ToolCalls : FetchDraft(a, c)
    \/ \E c \in ToolCalls :
        \/ TakeDraft(c)
        \/ ConfirmCancel(c) \/ ConfirmAddress(c) \/ ConfirmInvitationResponse(c)
        \/ ConfirmPreferredResponse(c) \/ ConfirmCheckOut(c) \/ ConfirmComplaint(c)
    \/ CloseOrReopen \/ DeleteConversation \/ DraftExpires \/ TargetChanges

AssistantSpec == AssistantInit /\ [][AssistantNext]_assistantVars

-----------------------------------------------------------------------------
\* A conversation has one turn at a time, although a turn may be given up, expired by
\* another request or claimed again; the rest is the shape of the state.
AssistantTypeOK ==
    /\ Cardinality(Running) <= 1
    /\ conversation = "DELETED" => Running = {} /\ written = <<>>
    /\ \A m \in Utterances : Known(m) <=> turn[m].number > 0
    /\ conversation # "DELETED" => \A a \in atWork : a.number <= turn[a.of].number

\* The model is told the end of the conversation as the user saw it: the order of the
\* messages, by which the history is put together and cut, is the order in which they
\* were answered.
AnsweredFrom(k) == {replies[j].of : j \in {i \in DOMAIN replies : i >= k}}

HistoryAsSeen ==
    /\ \A i, j \in DOMAIN replies : i < j => Position(replies[i].of) < Position(replies[j].of)
    /\ History = {replies[k].of : k \in {i \in DOMAIN replies : Fits(AnsweredFrom(i))}}

\* The answer kept is the answer of the last attempt: one that comes after its lease
\* had passed and the message was sent again is not written.
AnswerOfLastAttempt == \A i \in DOMAIN replies : turn[replies[i].of].number = replies[i].number

\* A quote becomes a booking at most once, and never after a later quote did, although
\* a turn that died after making it is claimed again and the model confirms again; and
\* only in the turn of a message that says that the customer agrees.
BookedAsAgreed ==
    /\ \A i, j \in DOMAIN booked : i < j => booked[i].number < booked[j].number
    /\ \A i \in DOMAIN booked : booked[i].by \in clear

\* Calls that overlap, of one attempt or of several, never do more than was prepared: each
\* deletes a draft of its own before it does anything.  The one it does is that draft or an
\* older one, which it had got before the draft was replaced, and never its own attempt's.
ActedOnce ==
    /\ \A i, j \in DOMAIN acts : acts[i].took = acts[j].took => i = j
    /\ \A i \in DOMAIN acts : acts[i].number <= acts[i].took /\ acts[i].from # acts[i].by

\* "Confirm in the next message" (confirm_booking): the quote is shown and agreed to
\* before it is booked, so the turn that books it is not the one that prepared it.
BookedInLaterTurn == \A i \in DOMAIN booked : booked[i].by # booked[i].from

\* A turn that hangs, dies or is repeated leaves one answer, of its last attempt; a quote is
\* booked once, and from other drafts no more is done than was prepared.
AssistantSafe ==
    /\ AssistantTypeOK
    /\ HistoryAsSeen
    /\ AnswerOfLastAttempt
    /\ BookedAsAgreed
    /\ ActedOnce
=============================================================================
