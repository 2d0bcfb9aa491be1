---------------------------- MODULE Chat_proofs -----------------------------
(***************************************************************************)
(* Proofs about the chat between customer and worker: ChatSocket, the      *)
(* sockets and what they show of somebody typing, and ChatMessages, the    *)
(* messages with their moderation and receipts.                            *)
(*                                                                         *)
(* SocketInvariant adds to SocketSafe that a device listed as typing has a *)
(* socket that is ready, so that its end retracts what is shown.           *)
(* ChatInvariant follows each message key: one that has no answer yet has  *)
(* no message and was not counted, one answered SENT has exactly one. It   *)
(* also says that a reader and a receipt point at messages that exist.     *)
(***************************************************************************)
EXTENDS ChatSocket, ChatMessages, SequenceTheorems, FiniteSetTheorems, WellFoundedInduction, TLAPS

-----------------------------------------------------------------------------
(* The sockets *)

\* A device is listed as typing only while its socket is ready, and while it tells so.
TypingIsKnown ==
    \A d \in Devices :
        /\ d \in typing => d \in member
        /\ phase[d] = "STARTING" => d \in typing

SocketInvariant == SocketSafe /\ TypingIsKnown

\* A socket opens, closes, or decides.
LEMMA SocketMoves ==
    ASSUME SocketInvariant, NEW d \in Devices,
           \/ Connect(d) \/ CloseIfUnauthenticated(d) \/ CloseWhenTokenExpires(d)
           \/ \E b \in BOOLEAN : ReceiveFirst(d, b) \/ AuthenticateAccessToken(d, b)
    PROVE  SocketInvariant'
<1>1. UNCHANGED <<typing, allowed, shown>>
  BY DEF Connect, CloseIfUnauthenticated, CloseWhenTokenExpires, ReceiveFirst, AuthenticateAccessToken
<1>2. /\ phase \in [Devices -> Phases] /\ ending \subseteq Devices /\ member \subseteq Devices
      /\ typing \subseteq Devices /\ allowed \in BOOLEAN /\ shown \in BOOLEAN
      /\ ClosedIsGone /\ ShownHasSource /\ TypingIsKnown
  BY DEF SocketInvariant, SocketSafe, SocketTypeOK
<1>3. PICK p \in {"OPEN", "AUTHENTICATING", "READY", "STARTING", "STOPPING"} :
          /\ phase' = [phase EXCEPT ![d] = p]
          /\ p \in {"STARTING", "STOPPING"} => phase[d] = p
          /\ phase[d] \in {"READY", "STARTING", "STOPPING"} => p = phase[d]
          /\ ending' \in {ending, ending \cup {d}}
          /\ \/ p \in {"OPEN", "AUTHENTICATING"} /\ member' = member
             \/ p \in {"READY", "STARTING", "STOPPING"} /\ member' = member \cup {d}
  <2>1. CASE Connect(d)
    BY <2>1, <1>2 DEF Connect, Enter
  <2>2. CASE CloseIfUnauthenticated(d)
    BY <2>2, <1>2 DEF CloseIfUnauthenticated
  <2>3. CASE CloseWhenTokenExpires(d)
    <3>1. d \in member
      BY <2>3, <1>2 DEF CloseWhenTokenExpires, ClosedIsGone
    <3> QED BY <2>3, <3>1, <1>2 DEF CloseWhenTokenExpires
  <2>4. CASE \E b \in BOOLEAN : ReceiveFirst(d, b)
    BY <2>4, <1>2 DEF ReceiveFirst, Enter
  <2>5. CASE \E b \in BOOLEAN : AuthenticateAccessToken(d, b)
    BY <2>5, <1>2 DEF AuthenticateAccessToken, Enter
  <2> QED BY <2>1, <2>2, <2>3, <2>4, <2>5
<1>4. \A e \in Devices : phase'[e] = IF e = d THEN p ELSE phase[e]
  BY <1>2, <1>3
<1>5. SocketTypeOK'
  BY <1>1, <1>2, <1>3 DEF SocketTypeOK, Phases
<1>6. ClosedIsGone'
  BY <1>1, <1>2, <1>3, <1>4 DEF ClosedIsGone, Phases
<1>7. ShownHasSource' /\ TypingIsKnown'
  BY <1>1, <1>2, <1>3, <1>4 DEF ShownHasSource, TypingIsKnown
<1> QED BY <1>5, <1>6, <1>7 DEF SocketInvariant, SocketSafe

\* A device begins or ends to type, and the other side is told.
LEMMA SocketTypes ==
    ASSUME SocketInvariant, NEW d \in Devices, TypingStart(d) \/ TypingStop(d) \/ PublishTyping(d)
    PROVE  SocketInvariant'
<1>1. /\ phase \in [Devices -> Phases] /\ ending \subseteq Devices /\ member \subseteq Devices
      /\ typing \subseteq Devices /\ allowed \in BOOLEAN /\ shown \in BOOLEAN
      /\ ClosedIsGone /\ ShownHasSource /\ TypingIsKnown
  BY DEF SocketInvariant, SocketSafe, SocketTypeOK
<1>2. CASE TypingStart(d)
  <2>1. \A e \in Devices : phase'[e] = IF e = d THEN "STARTING" ELSE phase[e]
    BY <1>1, <1>2 DEF TypingStart, Enter
  <2> QED BY <1>1, <1>2, <2>1 DEF TypingStart, Enter, SocketInvariant, SocketSafe, SocketTypeOK,
                                  ClosedIsGone, ShownHasSource, TypingIsKnown, Phases
<1>3. CASE TypingStop(d)
  <2>1. \A e \in Devices : phase'[e] = IF e = d THEN "STOPPING" ELSE phase[e]
    BY <1>1, <1>3 DEF TypingStop, Enter
  <2> QED BY <1>1, <1>3, <2>1 DEF TypingStop, Enter, SocketInvariant, SocketSafe, SocketTypeOK,
                                  ClosedIsGone, ShownHasSource, TypingIsKnown, Phases
<1>4. CASE PublishTyping(d)
  <2>1. \A e \in Devices : phase'[e] = IF e = d THEN "READY" ELSE phase[e]
    BY <1>1, <1>4 DEF PublishTyping, Enter
  <2>2. shown' \in BOOLEAN /\ (shown' => phase[d] = "STARTING")
    BY <1>4 DEF PublishTyping
  <2>3. UNCHANGED <<ending, member, typing, allowed>> /\ phase' = [phase EXCEPT ![d] = "READY"]
        /\ phase[d] \in {"STARTING", "STOPPING"}
    BY <1>4 DEF PublishTyping, Enter
  <2>4. SocketTypeOK'
    BY <1>1, <2>2, <2>3 DEF SocketTypeOK, Phases
  <2>5. ClosedIsGone' /\ TypingIsKnown'
    BY <1>1, <2>1, <2>3 DEF ClosedIsGone, TypingIsKnown
  <2>6. ShownHasSource'
    BY <1>1, <2>2, <2>3 DEF ShownHasSource, TypingIsKnown
  <2> QED BY <2>4, <2>5, <2>6 DEF SocketInvariant, SocketSafe
<1> QED BY <1>2, <1>3, <1>4

\* The socket is gone, and takes back what it showed.
LEMMA SocketGone ==
    ASSUME SocketInvariant, NEW d \in Devices, Disconnect(d)
    PROVE  SocketInvariant'
<1>1. /\ phase \in [Devices -> Phases] /\ ending \subseteq Devices /\ member \subseteq Devices
      /\ typing \subseteq Devices /\ allowed \in BOOLEAN /\ shown \in BOOLEAN
      /\ ClosedIsGone /\ ShownHasSource /\ TypingIsKnown
  BY DEF SocketInvariant, SocketSafe, SocketTypeOK
<1>2. /\ phase' = [phase EXCEPT ![d] = "CLOSED"] /\ phase[d] \in {"OPEN", "READY"}
      /\ ending' = ending \ {d} /\ member' = member \ {d} /\ typing' = typing \ {d}
      /\ UNCHANGED allowed
  BY DEF Disconnect, Enter, Resting
<1>3. shown' \in BOOLEAN /\ (shown' => shown /\ d \notin typing)
  BY DEF Disconnect
<1>4. \A e \in Devices : phase'[e] = IF e = d THEN "CLOSED" ELSE phase[e]
  BY <1>1, <1>2
<1>5. SocketTypeOK'
  BY <1>1, <1>2, <1>3 DEF SocketTypeOK, Phases
<1>6. ClosedIsGone' /\ TypingIsKnown'
  BY <1>1, <1>2, <1>4 DEF ClosedIsGone, TypingIsKnown
<1>7. ShownHasSource'
  BY <1>1, <1>2, <1>3, <1>4 DEF ShownHasSource
<1> QED BY <1>5, <1>6, <1>7 DEF SocketInvariant, SocketSafe

\* Whatever the timers interrupt, a socket that is gone left nothing in the group or the
\* typing list, none is ready outside the group, and "typing" is shown only while some
\* socket will take it back.
THEOREM SocketsStaySafe == SocketSpec => []SocketSafe
<1>1. SocketInit => SocketInvariant
  BY DEF SocketInit, SocketInvariant, SocketSafe, SocketTypeOK, ClosedIsGone, ShownHasSource,
         TypingIsKnown, Phases
<1>2. SocketInvariant /\ [SocketNext]_socketVars => SocketInvariant'
  <2> SUFFICES ASSUME SocketInvariant, [SocketNext]_socketVars PROVE SocketInvariant'
    OBVIOUS
  <2>1. CASE PolicyChanges \/ UNCHANGED socketVars
    <3>1. UNCHANGED <<phase, ending, member, typing, shown>>
      BY <2>1 DEF PolicyChanges, socketVars
    <3>2. allowed' \in BOOLEAN
      BY <2>1 DEF PolicyChanges, socketVars, SocketInvariant, SocketSafe, SocketTypeOK
    <3>3. SocketTypeOK'
      BY <3>1, <3>2 DEF SocketInvariant, SocketSafe, SocketTypeOK
    <3>4. ClosedIsGone' /\ ShownHasSource' /\ TypingIsKnown'
      BY <3>1 DEF SocketInvariant, SocketSafe, ClosedIsGone, ShownHasSource, TypingIsKnown
    <3> QED BY <3>3, <3>4 DEF SocketInvariant, SocketSafe
  <2> QED BY <2>1, SocketMoves, SocketTypes, SocketGone DEF SocketNext
<1>3. SocketInvariant => SocketSafe
  BY DEF SocketInvariant
<1> QED BY <1>1, <1>2, <1>3, PTL DEF SocketSpec

-----------------------------------------------------------------------------
(* The messages: the inductive invariant *)

Rows == [key : ChatKeys \cup {NoChatKey}, read : BOOLEAN]
Outcomes == {"NONE", "SENT", "REFUSED"}
Warnings(v) == {i \in 1..Len(v) : v[i] = "WARN"}

\* The variables hold what ChatTypeOK says of them, as sequences and functions.
ChatShape ==
    /\ job \in [Chats -> {"NONE", "ACCEPTED", "LINKED", "ENDED"}]
    /\ sends \subseteq [chat : Chats, key : ChatKeys \cup {NoChatKey}, content : Contents]
    /\ delivery \in [ChatKeys -> [chat : Chats \cup {"none"}, content : Contents \cup {"none"},
                                  outcome : Outcomes]]
    /\ messages \in [Chats -> Seq(Rows)]
    /\ \A k \in Chats : Len(messages[k]) <= MaxMessages
    /\ violations \in Seq({"WARN", "LOCK"})
    /\ chatLock \in 0..LockSteps
    /\ reading \in [Chats -> Int] /\ receipt \in [Chats -> Nat]
    /\ charged \in [ChatKeys -> Nat]

\* What a reader found, and what a receipt covers, is there.
ReadsAreThere ==
    \A k \in Chats : reading[k] \in -1..Len(messages[k]) /\ receipt[k] <= Len(messages[k])

\* The i-th message of chat k was sent under the key.
IsCopy(key, k, i) == k \in Chats /\ i \in 1..Len(messages[k]) /\ messages[k][i].key = key

\* A key has a message exactly when its answer is SENT, and never a second one.
StoredOnce ==
    \A key \in ChatKeys :
        /\ delivery[key].outcome = "SENT" <=> \E k \in Chats : \E i \in Nat : IsCopy(key, k, i)
        /\ \A k, l \in Chats, i, j \in Nat :
               IsCopy(key, k, i) /\ IsCopy(key, l, j) => k = l /\ i = j

\* A key without an answer has not been counted, one with an answer at most once.
ChargedOnce ==
    \A key \in ChatKeys : /\ charged[key] <= 1
                          /\ delivery[key] = NoDelivery => charged[key] = 0

ChatInvariant ==
    ChatShape /\ ReadsAreThere /\ WarningsBounded /\ StoredOnce /\ ChargedOnce /\ ReceiptIsTrue

-----------------------------------------------------------------------------
(* Helpers about messages *)

\* The last unread message is one of the chat, or there is none.
LEMMA LastUnreadIsThere ==
    ASSUME ChatShape, NEW k \in Chats
    PROVE  LastUnread(k) \in 0..Len(messages[k])
<1>1. messages[k] \in Seq(Rows) /\ Len(messages[k]) \in Nat
  BY DEF ChatShape
<1> DEFINE n == Len(messages[k])
           U == Unread(k)
           Above == {i..n : i \in U}
<1>2. U \subseteq 1..n
  BY DEF Unread
<1> HIDE DEF U
<1>3. CASE U = {}
  BY <1>1, <1>3 DEF LastUnread, U
<1>4. CASE U # {}
  <2>1. Above \in SUBSET FiniteSubsetsOf(Nat) /\ Above # {}
    <3>1. ASSUME NEW i \in U PROVE (i..n) \in FiniteSubsetsOf(Nat)
      <4>1. i \in Int /\ i >= 1 /\ n \in Int
        BY <1>1, <1>2
      <4>2. (i..n) \subseteq Nat
        BY <4>1
      <4> QED BY <4>1, <4>2, FS_Interval DEF FiniteSubsetsOf
    <3> QED BY <1>4, <3>1
  <2>2. PICK T \in Above : \A V \in Above : ~ (<<V, T>> \in StrictSubsetOrdering(Nat))
    <3> HIDE DEF Above
    <3> QED BY <2>1, WFMin, FS_StrictSubsetOrderingWellFounded
  <2>3. PICK i \in U : T = i..n
    BY <2>2
  <2>4. ASSUME NEW j \in U PROVE j <= i
    <3> SUFFICES ASSUME i < j PROVE FALSE
      BY <1>1, <1>2
    <3>1. i \in Int /\ j \in Int /\ n \in Int /\ i <= n /\ j <= n /\ 1 <= i
      BY <1>1, <1>2
    <3>2. (j..n) \subseteq i..n /\ i \in i..n /\ i \notin j..n
      BY <3>1
    <3>3. (j..n) \in Above /\ (i..n) \in Above
      OBVIOUS
    <3>4. (i..n) \subseteq Nat /\ (j..n) \subseteq Nat
      BY <3>1
    <3>5. <<j..n, T>> \in StrictSubsetOrdering(Nat)
      BY <2>3, <3>2, <3>4 DEF StrictSubsetOrdering
    <3> QED BY <2>2, <3>3, <3>5
  <2>5. LastUnread(k) \in U
    BY <1>4, <2>4 DEF LastUnread, U
  <2>6. LastUnread(k) \in 1..n
    BY <1>2, <2>5
  <2> QED BY <1>1, <2>6
<1> QED BY <1>3, <1>4

\* The step of a lock is 0, or one of the schedule.
LEMMA StepOfSchedule ==
    ASSUME NEW count \in Nat
    PROVE  /\ LockStep(count) \in 0..LockSteps
           /\ LockStep(count) = 0 => count <= WarningLimit
BY ChatMessagesAssumption DEF LockStep, Smaller

\* Warnings of a window that moved.
LEMMA WarningsOfTail ==
    ASSUME NEW v \in Seq({"WARN", "LOCK"}), v # <<>>
    PROVE  Cardinality(Warnings(Tail(v))) <= Cardinality(Warnings(v))
<1>1. /\ Tail(v) \in Seq({"WARN", "LOCK"}) /\ Len(Tail(v)) = Len(v) - 1 /\ Len(v) \in Nat \ {0}
      /\ \A i \in 1..Len(Tail(v)) : Tail(v)[i] = v[i + 1]
  BY HeadTailProperties, LenProperties, EmptySeq
<1>2. IsFiniteSet(Warnings(v))
  <2>1. Warnings(v) \subseteq 1..Len(v)
    BY DEF Warnings
  <2>2. IsFiniteSet(1..Len(v))
    BY <1>1, FS_Interval
  <2> QED BY <2>1, <2>2, FS_Subset
<1> DEFINE next == [i \in Warnings(Tail(v)) |-> i + 1]
<1>3. next \in Injection(Warnings(Tail(v)), Warnings(v))
  <2>1. \A i \in Warnings(Tail(v)) : i \in Nat /\ i + 1 \in Warnings(v)
    BY <1>1 DEF Warnings
  <2>2. next \in [Warnings(Tail(v)) -> Warnings(v)]
    BY <2>1
  <2>3. \A i, j \in Warnings(Tail(v)) : next[i] = next[j] => i = j
    BY <2>1
  <2> QED BY <2>2, <2>3 DEF Injection, IsInjective
<1> HIDE DEF next
<1> QED BY <1>2, <1>3, FS_Injection

\* A violation is a warning only while the limit allows one.
LEMMA WarningsOfViolation ==
    ASSUME NEW v \in Seq({"WARN", "LOCK"}), Cardinality(Warnings(v)) <= WarningLimit,
           NEW action, action = IF LockStep(Len(v) + 1) > 0 THEN "LOCK" ELSE "WARN"
    PROVE  Cardinality(Warnings(Append(v, action))) <= WarningLimit
<1>1. Len(v) \in Nat /\ LockStep(Len(v) + 1) \in 0..LockSteps /\ action \in {"WARN", "LOCK"}
  BY StepOfSchedule, LenProperties
<1>2. /\ Append(v, action) \in Seq({"WARN", "LOCK"})
      /\ Len(Append(v, action)) = Len(v) + 1
      /\ \A i \in 1..Len(v) : Append(v, action)[i] = v[i]
      /\ Append(v, action)[Len(v) + 1] = action
  BY <1>1, AppendProperties
<1>3. CASE action = "LOCK"
  <2>1. Warnings(Append(v, action)) = Warnings(v)
    BY <1>1, <1>2, <1>3 DEF Warnings
  <2> QED BY <2>1
<1>4. CASE action = "WARN"
  <2>1. Len(v) + 1 <= WarningLimit
    BY <1>1, <1>4, StepOfSchedule, ChatMessagesAssumption
  <2>2. Warnings(Append(v, action)) \subseteq 1..(Len(v) + 1)
    BY <1>2 DEF Warnings
  <2>3. IsFiniteSet(1..(Len(v) + 1)) /\ Cardinality(1..(Len(v) + 1)) = Len(v) + 1
    BY <1>1, FS_Interval
  <2>4. /\ Cardinality(Warnings(Append(v, action))) <= Len(v) + 1
        /\ Cardinality(Warnings(Append(v, action))) \in Nat
    BY <2>2, <2>3, FS_Subset, FS_CardinalityType
  <2> QED BY <1>1, <2>1, <2>4, ChatMessagesAssumption
<1> QED BY <1>1, <1>3, <1>4

-----------------------------------------------------------------------------
(* Every step of the messages keeps the invariant *)

\* What is kept when no message is stored and nothing answered.
LEMMA NothingAnswered ==
    ASSUME ChatInvariant, UNCHANGED <<delivery, messages, charged>>
    PROVE  StoredOnce' /\ ChargedOnce'
<1>1. \A key, k, i : IsCopy(key, k, i)' <=> IsCopy(key, k, i)
  BY DEF IsCopy
<1>2. StoredOnce'
  BY <1>1 DEF ChatInvariant, StoredOnce
<1>3. ChargedOnce'
  BY DEF ChatInvariant, ChargedOnce
<1> QED BY <1>2, <1>3

\* Jobs, beginnings of a send, and the end of a lock.
LEMMA QuietStep ==
    ASSUME ChatInvariant,
           \/ \E k \in Chats : AcceptJob(k) \/ EnsureChatForAssignment(k) \/ EndJob(k)
           \/ \E k \in Chats, key \in ChatKeys \cup {NoChatKey}, content \in Contents :
                  BeginSend(k, key, content)
           \/ \E x \in sends : FinishSend(x) /\ (RepeatAnswer(x) \/ RefuseLocked(x))
           \/ Unlock \/ UNCHANGED chatVars
    PROVE  ChatInvariant'
<1>1. UNCHANGED <<delivery, messages, violations, reading, receipt, charged>>
  BY DEF AcceptJob, EnsureChatForAssignment, EndJob, BeginSend, FinishSend, RepeatAnswer, RefuseLocked,
         Unlock, chatVars
<1>2. job' \in [Chats -> {"NONE", "ACCEPTED", "LINKED", "ENDED"}]
  BY DEF AcceptJob, EnsureChatForAssignment, EndJob, BeginSend, FinishSend, Unlock, chatVars,
         ChatInvariant, ChatShape
<1>3. sends' \subseteq [chat : Chats, key : ChatKeys \cup {NoChatKey}, content : Contents]
  BY DEF AcceptJob, EnsureChatForAssignment, EndJob, BeginSend, FinishSend, Unlock, chatVars,
         ChatInvariant, ChatShape
<1>4. chatLock' \in 0..LockSteps
  BY ChatMessagesAssumption
  DEF AcceptJob, EnsureChatForAssignment, EndJob, BeginSend, FinishSend, RepeatAnswer, RefuseLocked,
      Unlock, chatVars, ChatInvariant, ChatShape
<1>5. ChatShape'
  BY <1>1, <1>2, <1>3, <1>4 DEF ChatInvariant, ChatShape
<1>6. ReadsAreThere' /\ WarningsBounded' /\ ReceiptIsTrue'
  BY <1>1 DEF ChatInvariant, ReadsAreThere, WarningsBounded, ReceiptIsTrue
<1> QED BY <1>1, <1>5, <1>6, NothingAnswered DEF ChatInvariant

\* The window of the violations moves.
LEMMA WindowStep ==
    ASSUME ChatInvariant, WindowMoves
    PROVE  ChatInvariant'
<1>1. /\ UNCHANGED <<job, sends, delivery, messages, chatLock, reading, receipt, charged>>
      /\ violations # <<>> /\ violations' = Tail(violations)
      /\ violations \in Seq({"WARN", "LOCK"})
  BY DEF WindowMoves, ChatInvariant, ChatShape
<1>2. violations' \in Seq({"WARN", "LOCK"})
  BY <1>1, HeadTailProperties
<1>3. ChatShape'
  BY <1>1, <1>2 DEF ChatInvariant, ChatShape
<1>4. WarningsBounded'
  <2>1. Cardinality(Warnings(violations)) <= WarningLimit
    BY DEF ChatInvariant, WarningsBounded, Warnings
  <2>2. \A v \in {violations, violations'} : IsFiniteSet(Warnings(v))
    <3>1. ASSUME NEW v \in Seq({"WARN", "LOCK"}) PROVE IsFiniteSet(Warnings(v))
      <4>1. Warnings(v) \subseteq 1..Len(v) /\ Len(v) \in Nat
        BY LenProperties DEF Warnings
      <4>2. IsFiniteSet(1..Len(v))
        BY <4>1, FS_Interval
      <4> QED BY <4>1, <4>2, FS_Subset
    <3> QED BY <1>1, <1>2, <3>1
  <2>3. Cardinality(Warnings(violations)) \in Nat /\ Cardinality(Warnings(violations')) \in Nat
    BY <2>2, FS_CardinalityType
  <2>4. Cardinality(Warnings(violations')) <= WarningLimit
    BY <1>1, <2>1, <2>3, WarningsOfTail, ChatMessagesAssumption
  <2> QED BY <2>4 DEF WarningsBounded, Warnings
<1>5. ReadsAreThere' /\ ReceiptIsTrue'
  BY <1>1 DEF ChatInvariant, ReadsAreThere, ReceiptIsTrue
<1> QED BY <1>1, <1>3, <1>4, <1>5, NothingAnswered DEF ChatInvariant

\* A reader begins: the last unread id is one of the chat.
LEMMA BeginReadStep ==
    ASSUME ChatInvariant, NEW k \in Chats, BeginRead(k)
    PROVE  ChatInvariant'
<1>1. /\ UNCHANGED <<job, sends, delivery, messages, violations, chatLock, receipt, charged>>
      /\ reading' = [reading EXCEPT ![k] = LastUnread(k)]
      /\ reading \in [Chats -> Int] /\ LastUnread(k) \in 0..Len(messages[k])
  BY LastUnreadIsThere DEF BeginRead, ChatInvariant, ChatShape
<1>2. /\ reading' \in [Chats -> Int]
      /\ \A l \in Chats : reading'[l] = IF l = k THEN LastUnread(k) ELSE reading[l]
  BY <1>1
<1>3. ChatShape'
  BY <1>1, <1>2 DEF ChatInvariant, ChatShape
<1>4. ReadsAreThere'
  BY <1>1, <1>2 DEF ChatInvariant, ReadsAreThere
<1>5. WarningsBounded' /\ ReceiptIsTrue'
  BY <1>1 DEF ChatInvariant, WarningsBounded, ReceiptIsTrue
<1> QED BY <1>1, <1>3, <1>4, <1>5, NothingAnswered DEF ChatInvariant

\* A reader ends: every message of the chat is read, those that came meanwhile too.
LEMMA MessagesRead ==
    ASSUME ChatShape, NEW k \in Chats, FinishRead(k)
    PROVE  /\ messages' \in [Chats -> Seq(Rows)]
           /\ \A l \in Chats : Len(messages'[l]) = Len(messages[l])
           /\ \A l \in Chats \ {k} : messages'[l] = messages[l]
           /\ \A i \in 1..Len(messages[k]) : messages'[k][i].read
           /\ \A l \in Chats : \A i \in 1..Len(messages[l]) : messages'[l][i].key = messages[l][i].key
<1> DEFINE n == Len(messages[k])
<1>1. messages \in [Chats -> Seq(Rows)] /\ messages[k] \in Seq(Rows) /\ n \in Nat
  BY DEF ChatShape
<1>2. \A i \in 1..n : messages[k][i] \in Rows
  BY <1>1, ElementOfSeq
<1>3. PICK row : row = [i \in 1..n |-> [messages[k][i] EXCEPT !.read = TRUE]]
  OBVIOUS
<1>4. messages' = [messages EXCEPT ![k] = row]
  BY <1>3 DEF FinishRead
<1>5. \A i \in 1..n : row[i] \in Rows /\ row[i].key = messages[k][i].key /\ row[i].read
  BY <1>2, <1>3 DEF Rows
<1>6. row \in Seq(Rows) /\ Len(row) = n
  <2>1. row = [i \in 1..n |-> row[i]]
    BY <1>3
  <2>2. row \in [1..n -> Rows]
    BY <1>5, <2>1
  <2>3. row \in Seq(Rows)
    BY <1>1, <2>2, SeqDef
  <2>4. DOMAIN row = 1..n
    BY <1>3
  <2> QED BY <1>1, <2>3, <2>4, LenProperties
<1>7. messages'[k] = row /\ \A l \in Chats \ {k} : messages'[l] = messages[l]
  BY <1>1, <1>4
<1>8. messages' \in [Chats -> Seq(Rows)]
  BY <1>1, <1>4, <1>6
<1> QED BY <1>5, <1>6, <1>7, <1>8

\* The receipt then covers only what was read.
LEMMA FinishReadStep ==
    ASSUME ChatInvariant, NEW k \in Chats, FinishRead(k)
    PROVE  ChatInvariant'
<1>1. /\ UNCHANGED <<job, sends, delivery, violations, chatLock, charged>>
      /\ reading \in [Chats -> Int] /\ receipt \in [Chats -> Nat] /\ reading[k] # -1
      /\ reading' = [reading EXCEPT ![k] = -1]
      /\ receipt' = IF reading[k] = 0 THEN receipt ELSE [receipt EXCEPT ![k] = reading[k]]
      /\ reading[k] \in -1..Len(messages[k])
      /\ \A l \in Chats : Len(messages[l]) \in Nat
  BY DEF FinishRead, ChatInvariant, ChatShape, ReadsAreThere
<1>2. /\ messages' \in [Chats -> Seq(Rows)]
      /\ \A l \in Chats : Len(messages'[l]) = Len(messages[l])
      /\ \A l \in Chats \ {k} : messages'[l] = messages[l]
      /\ \A i \in 1..Len(messages[k]) : messages'[k][i].read
      /\ \A l \in Chats : \A i \in 1..Len(messages[l]) : messages'[l][i].key = messages[l][i].key
  BY MessagesRead DEF ChatInvariant
<1>3. /\ reading' \in [Chats -> Int] /\ receipt' \in [Chats -> Nat]
      /\ \A l \in Chats : reading'[l] = IF l = k THEN -1 ELSE reading[l]
      /\ \A l \in Chats \ {k} : receipt'[l] = receipt[l]
      /\ receipt'[k] \in {receipt[k], reading[k]} /\ receipt'[k] \in Nat
  BY <1>1
<1>4. ChatShape'
  BY <1>1, <1>2, <1>3 DEF ChatInvariant, ChatShape, Rows
<1>5. ReadsAreThere'
  BY <1>1, <1>2, <1>3 DEF ChatInvariant, ReadsAreThere
<1>6. ReceiptIsTrue'
  <2>1. receipt'[k] <= Len(messages[k])
    BY <1>1, <1>3 DEF ChatInvariant, ReadsAreThere
  <2>2. ASSUME NEW i \in 1..receipt'[k] PROVE messages'[k][i].read
    <3>1. i \in 1..Len(messages[k])
      BY <1>1, <1>3, <2>1
    <3> QED BY <1>2, <3>1
  <2>3. \A l \in Chats \ {k} : \A i \in 1..receipt'[l] : messages'[l][i].read
    BY <1>2, <1>3 DEF ChatInvariant, ReceiptIsTrue
  <2> QED BY <2>2, <2>3 DEF ReceiptIsTrue
<1>7. WarningsBounded' /\ ChargedOnce'
  BY <1>1 DEF ChatInvariant, WarningsBounded, ChargedOnce
<1>8. StoredOnce'
  <2>1. \A key, l, i : IsCopy(key, l, i)' <=> IsCopy(key, l, i)
    BY <1>2 DEF IsCopy
  <2> QED BY <1>1, <2>1 DEF ChatInvariant, StoredOnce
<1> QED BY <1>4, <1>5, <1>6, <1>7, <1>8 DEF ChatInvariant

\* A message is stored after those that were there.
LEMMA StoreAppends ==
    ASSUME ChatShape, NEW x \in sends, Store(x)
    PROVE  /\ messages' \in [Chats -> Seq(Rows)]
           /\ \A k \in Chats \ {x.chat} : messages'[k] = messages[k]
           /\ x.chat \in Chats /\ Len(messages[x.chat]) \in Nat
           /\ Len(messages'[x.chat]) = Len(messages[x.chat]) + 1
           /\ \A i \in 1..Len(messages[x.chat]) : messages'[x.chat][i] = messages[x.chat][i]
           /\ messages'[x.chat][Len(messages[x.chat]) + 1].key = x.key
<1>1. messages \in [Chats -> Seq(Rows)] /\ x.chat \in Chats /\ x.key \in ChatKeys \cup {NoChatKey}
  BY DEF ChatShape
<1>2. PICK row : row = [key |-> x.key, read |-> FALSE]
  OBVIOUS
<1>3. row \in Rows /\ row.key = x.key
  BY <1>1, <1>2 DEF Rows
<1>4. PICK old \in Seq(Rows) : old = messages[x.chat]
  BY <1>1
<1>5. messages' = [messages EXCEPT ![x.chat] = Append(old, row)]
  BY <1>2, <1>4 DEF Store
<1>6. /\ Append(old, row) \in Seq(Rows) /\ Len(Append(old, row)) = Len(old) + 1
      /\ \A i \in 1..Len(old) : Append(old, row)[i] = old[i]
      /\ Append(old, row)[Len(old) + 1] = row
  BY <1>3, <1>4, AppendProperties
<1>7. messages'[x.chat] = Append(old, row) /\ Len(old) \in Nat
  BY <1>1, <1>4, <1>5, LenProperties
<1> QED BY <1>1, <1>3, <1>4, <1>5, <1>6, <1>7

\* A first answer: the message is stored and SENT, or it is REFUSED; its key is counted at
\* most once.
LEMMA FirstAnswer ==
    ASSUME ChatInvariant, NEW x \in sends, ~KnownKey(x), NEW outcome,
           Remember(x, outcome), Len(messages[x.chat]) < MaxMessages,
           UNCHANGED <<reading, receipt>>,
           \/ outcome = "SENT" /\ Store(x)
           \/ outcome = "REFUSED" /\ UNCHANGED messages,
           \/ UNCHANGED charged
           \/ charged' = IF x.key = NoChatKey THEN charged ELSE [charged EXCEPT ![x.key] = @ + 1]
    PROVE  /\ delivery' \in [ChatKeys -> [chat : Chats \cup {"none"}, content : Contents \cup {"none"},
                                          outcome : Outcomes]]
           /\ messages' \in [Chats -> Seq(Rows)] /\ \A k \in Chats : Len(messages'[k]) <= MaxMessages
           /\ charged' \in [ChatKeys -> Nat]
           /\ ReadsAreThere' /\ StoredOnce' /\ ChargedOnce' /\ ReceiptIsTrue'
<1> DEFINE n == Len(messages[x.chat])
<1>1. /\ x.chat \in Chats /\ x.key \in ChatKeys \cup {NoChatKey} /\ x.content \in Contents
      /\ delivery \in [ChatKeys -> [chat : Chats \cup {"none"}, content : Contents \cup {"none"},
                                    outcome : Outcomes]]
      /\ messages \in [Chats -> Seq(Rows)] /\ charged \in [ChatKeys -> Nat]
      /\ receipt \in [Chats -> Nat] /\ MaxMessages \in Nat
      /\ \A k \in Chats : Len(messages[k]) <= MaxMessages
      /\ \A k \in Chats : Len(messages[k]) \in Nat
  BY ChatMessagesAssumption DEF ChatInvariant, ChatShape
<1>2. PICK answer : answer = [chat |-> x.chat, content |-> x.content, outcome |-> outcome]
  OBVIOUS
<1>3. /\ answer \in [chat : Chats \cup {"none"}, content : Contents \cup {"none"}, outcome : Outcomes]
      /\ answer.outcome = outcome /\ answer # NoDelivery
  BY <1>1, <1>2 DEF Outcomes, NoDelivery
<1>4. delivery' = IF x.key = NoChatKey THEN delivery ELSE [delivery EXCEPT ![x.key] = answer]
  BY <1>2 DEF Remember
<1>5. /\ delivery' \in [ChatKeys -> [chat : Chats \cup {"none"}, content : Contents \cup {"none"},
                                     outcome : Outcomes]]
      /\ \A key \in ChatKeys : delivery'[key] = IF key = x.key THEN answer ELSE delivery[key]
  BY <1>1, <1>3, <1>4, ChatMessagesAssumption
<1>6. \A key \in ChatKeys : key = x.key => delivery[key] = NoDelivery /\ delivery[key].outcome = "NONE"
  BY ChatMessagesAssumption DEF KnownKey, NoDelivery
<1>7. ChargedOnce' /\ charged' \in [ChatKeys -> Nat]
  <2>1. \A key \in ChatKeys : charged[key] <= 1 /\ (delivery[key] = NoDelivery => charged[key] = 0)
    BY DEF ChatInvariant, ChargedOnce
  <2>2. /\ charged' \in [ChatKeys -> Nat]
        /\ \A key \in ChatKeys : \/ charged'[key] = charged[key]
                                 \/ key = x.key /\ charged'[key] = charged[key] + 1
    BY <1>1
  <2>3. ASSUME NEW key \in ChatKeys
        PROVE  charged'[key] <= 1 /\ (delivery'[key] = NoDelivery => charged'[key] = 0)
    BY <1>1, <1>3, <1>5, <1>6, <2>1, <2>2
  <2> QED BY <2>2, <2>3 DEF ChargedOnce
<1>8. /\ messages' \in [Chats -> Seq(Rows)]
      /\ \A k \in Chats \ {x.chat} : messages'[k] = messages[k]
      /\ \A i \in 1..n : messages'[x.chat][i] = messages[x.chat][i]
      /\ \/ outcome = "REFUSED" /\ Len(messages'[x.chat]) = n
         \/ /\ outcome = "SENT" /\ Len(messages'[x.chat]) = n + 1
            /\ messages'[x.chat][n + 1].key = x.key
  <2>1. CASE outcome = "SENT" /\ Store(x)
    BY <2>1, StoreAppends DEF ChatInvariant
  <2>2. CASE outcome = "REFUSED" /\ UNCHANGED messages
    BY <2>2, <1>1
  <2> QED BY <2>1, <2>2
<1>9. n \in Nat /\ n < MaxMessages
  BY <1>1
<1>10. \A k \in Chats : Len(messages[k]) <= Len(messages'[k]) /\ Len(messages'[k]) <= MaxMessages
                        /\ Len(messages'[k]) \in Nat
  BY <1>1, <1>8, <1>9
<1>11. \A k \in Chats : \A i \in 1..Len(messages[k]) : messages'[k][i] = messages[k][i]
  BY <1>8
<1>12. ReadsAreThere'
  BY <1>1, <1>10 DEF ChatInvariant, ReadsAreThere
<1>13. ReceiptIsTrue'
  <2>1. ASSUME NEW k \in Chats, NEW i \in 1..receipt[k] PROVE messages'[k][i].read
    <3>1. i \in 1..Len(messages[k])
      BY <1>1 DEF ChatInvariant, ReadsAreThere
    <3>2. messages[k][i].read
      BY DEF ChatInvariant, ReceiptIsTrue
    <3> QED BY <1>11, <3>1, <3>2
  <2> QED BY <2>1 DEF ReceiptIsTrue
<1>14. \A key \in ChatKeys, k \in Chats, i \in Nat :
           IsCopy(key, k, i)' <=> \/ IsCopy(key, k, i)
                                  \/ outcome = "SENT" /\ key = x.key /\ k = x.chat /\ i = n + 1
  <2> SUFFICES ASSUME NEW key \in ChatKeys, NEW k \in Chats, NEW i \in Nat
               PROVE  IsCopy(key, k, i)' <=>
                          \/ IsCopy(key, k, i)
                          \/ outcome = "SENT" /\ key = x.key /\ k = x.chat /\ i = n + 1
    OBVIOUS
  <2>1. CASE k # x.chat
    BY <1>8, <2>1 DEF IsCopy
  <2>2. CASE k = x.chat /\ i \in 1..n
    BY <1>8, <1>9, <2>2 DEF IsCopy
  <2>3. CASE k = x.chat /\ i = n + 1
    BY <1>8, <1>9, <2>3 DEF IsCopy
  <2>4. CASE k = x.chat /\ i \notin 1..(n + 1)
    BY <1>8, <1>9, <2>4 DEF IsCopy
  <2> QED BY <1>9, <2>1, <2>2, <2>3, <2>4
<1>15. StoredOnce'
  <2> DEFINE Copy(key, k, i) == IsCopy(key, k, i)
             Later(key, k, i) == IsCopy(key, k, i)'
  <2>1. \A key \in ChatKeys :
            /\ delivery[key].outcome = "SENT" <=> \E k \in Chats : \E i \in Nat : Copy(key, k, i)
            /\ \A k, l \in Chats, i, j \in Nat : Copy(key, k, i) /\ Copy(key, l, j) => k = l /\ i = j
    BY DEF ChatInvariant, StoredOnce
  <2>2. \A key \in ChatKeys, k \in Chats, i \in Nat :
            Later(key, k, i) <=> \/ Copy(key, k, i)
                                 \/ outcome = "SENT" /\ key = x.key /\ k = x.chat /\ i = n + 1
    BY <1>14
  <2>3. n + 1 \in Nat
    BY <1>9
  <2>4. outcome \in {"SENT", "REFUSED"}
    OBVIOUS
  <2> HIDE DEF Copy, Later, n
  <2>5. ASSUME NEW key \in ChatKeys
        PROVE  /\ delivery'[key].outcome = "SENT" <=> \E k \in Chats : \E i \in Nat : Later(key, k, i)
               /\ \A k, l \in Chats, i, j \in Nat :
                      Later(key, k, i) /\ Later(key, l, j) => k = l /\ i = j
    <3>1. CASE key = x.key
      <4>1. \A k \in Chats, i \in Nat : ~ Copy(key, k, i)
        BY <1>6, <2>1, <3>1
      <4>2. delivery'[key].outcome = outcome
        BY <1>3, <1>5, <3>1
      <4> QED BY <1>1, <2>2, <2>3, <2>4, <3>1, <4>1, <4>2
    <3>2. CASE key # x.key
      BY <1>5, <2>1, <2>2, <3>2
    <3> QED BY <3>1, <3>2
  <2> QED BY <2>5 DEF StoredOnce, Later
<1> QED BY <1>5, <1>7, <1>8, <1>10, <1>12, <1>13, <1>15

\* What FinishSend does when it answers a message for the first time.
LEMMA AnswerStep ==
    ASSUME ChatInvariant, NEW x \in sends, FinishSend(x), ~KnownKey(x), DeliverClean(x) \/ Moderate(x)
    PROVE  ChatInvariant'
<1>1. /\ sends' = sends \ {x} /\ UNCHANGED <<job, reading, receipt>>
      /\ Len(messages[x.chat]) < MaxMessages
  BY DEF FinishSend
<1>2. PICK outcome \in {"SENT", "REFUSED"} :
          /\ Remember(x, outcome)
          /\ \/ outcome = "SENT" /\ Store(x)
             \/ outcome = "REFUSED" /\ UNCHANGED messages
  BY DEF DeliverClean, Moderate
<1>3. \/ UNCHANGED charged
      \/ charged' = IF x.key = NoChatKey THEN charged ELSE [charged EXCEPT ![x.key] = @ + 1]
  BY DEF DeliverClean, Moderate, RecordViolation
<1>4. /\ delivery' \in [ChatKeys -> [chat : Chats \cup {"none"}, content : Contents \cup {"none"},
                                     outcome : Outcomes]]
      /\ messages' \in [Chats -> Seq(Rows)] /\ \A k \in Chats : Len(messages'[k]) <= MaxMessages
      /\ charged' \in [ChatKeys -> Nat]
      /\ ReadsAreThere' /\ StoredOnce' /\ ChargedOnce' /\ ReceiptIsTrue'
  BY <1>1, <1>2, <1>3, FirstAnswer
<1>5. /\ violations' \in Seq({"WARN", "LOCK"}) /\ chatLock' \in 0..LockSteps
      /\ Cardinality(Warnings(violations')) <= WarningLimit
  <2>1. /\ violations \in Seq({"WARN", "LOCK"}) /\ chatLock \in 0..LockSteps
        /\ Cardinality(Warnings(violations)) <= WarningLimit
    BY DEF ChatInvariant, ChatShape, WarningsBounded, Warnings
  <2>2. CASE DeliverClean(x)
    BY <2>1, <2>2 DEF DeliverClean
  <2>3. CASE Moderate(x)
    <3>1. Len(violations) + 1 \in Nat /\ LockStep(Len(violations) + 1) \in 0..LockSteps
      BY <2>1, LenProperties, StepOfSchedule
    <3>2. PICK action : action = IF LockStep(Len(violations) + 1) > 0 THEN "LOCK" ELSE "WARN"
      OBVIOUS
    <3>3. /\ violations' = Append(violations, action)
          /\ chatLock' \in {chatLock, LockStep(Len(violations) + 1)}
      BY <2>3, <3>2 DEF Moderate, RecordViolation, PolicyStatus
    <3>4. Append(violations, action) \in Seq({"WARN", "LOCK"})
      BY <2>1, <3>2, AppendProperties
    <3>5. Cardinality(Warnings(Append(violations, action))) <= WarningLimit
      BY <2>1, <3>2, WarningsOfViolation
    <3> QED BY <2>1, <3>1, <3>3, <3>4, <3>5
  <2> QED BY <2>2, <2>3
<1>6. ChatShape'
  BY <1>1, <1>4, <1>5 DEF ChatInvariant, ChatShape
<1>7. WarningsBounded'
  BY <1>5 DEF WarningsBounded, Warnings
<1> QED BY <1>4, <1>6, <1>7 DEF ChatInvariant

\* Every step of the chat keeps the invariant.
LEMMA ChatNextKeeps ==
    ASSUME ChatInvariant, [ChatNext]_chatVars
    PROVE  ChatInvariant'
<1>1. CASE \E x \in sends : FinishSend(x)
  <2>1. PICK x \in sends : FinishSend(x)
    BY <1>1
  <2>2. CASE RepeatAnswer(x) \/ RefuseLocked(x)
    BY <2>1, <2>2, QuietStep
  <2>3. CASE ~KnownKey(x) /\ (DeliverClean(x) \/ Moderate(x))
    BY <2>1, <2>3, AnswerStep
  <2> QED BY <2>1, <2>2, <2>3 DEF FinishSend
<1> QED BY <1>1, QuietStep, WindowStep, BeginReadStep, FinishReadStep DEF ChatNext

\* At the beginning nobody wrote anything.
LEMMA ChatBegins ==
    ASSUME ChatInit
    PROVE  ChatInvariant
<1>1. ChatShape
  <2>1. /\ violations \in Seq({"WARN", "LOCK"})
        /\ \A k \in Chats : messages[k] \in Seq(Rows) /\ Len(messages[k]) = 0
    BY EmptySeq DEF ChatInit
  <2>2. messages \in [Chats -> Seq(Rows)]
    BY <2>1 DEF ChatInit
  <2>3. delivery \in [ChatKeys -> [chat : Chats \cup {"none"}, content : Contents \cup {"none"},
                                   outcome : Outcomes]]
    BY DEF ChatInit, NoDelivery, Outcomes
  <2> QED BY <2>1, <2>2, <2>3, ChatMessagesAssumption DEF ChatInit, ChatShape
<1>2. ReadsAreThere /\ StoredOnce /\ ChargedOnce /\ ReceiptIsTrue
  BY DEF ChatInit, ReadsAreThere, StoredOnce, IsCopy, ChargedOnce, ReceiptIsTrue, NoDelivery
<1>3. WarningsBounded
  <2>1. {i \in 1..Len(violations) : violations[i] = "WARN"} = {}
    BY DEF ChatInit
  <2> QED BY <2>1, FS_EmptySet, ChatMessagesAssumption DEF WarningsBounded
<1> QED BY <1>1, <1>2, <1>3 DEF ChatInvariant

\* A key that is stored once has one copy, any other none.
LEMMA OneCopyPerAnswer ==
    ASSUME ChatInvariant
    PROVE  KeyHandledOnce
<1> DEFINE Copies(key) ==
        UNION {{<<k, i>> : i \in {j \in 1..Len(messages[k]) : messages[k][j].key = key}} : k \in Chats}
<1>1. ASSUME NEW key \in ChatKeys
      PROVE  Cardinality(Copies(key)) = IF delivery[key].outcome = "SENT" THEN 1 ELSE 0
  <2>1. \A p : p \in Copies(key) <=> \E k \in Chats : \E i \in Nat : p = <<k, i>> /\ IsCopy(key, k, i)
    BY DEF IsCopy
  <2>2. CASE delivery[key].outcome = "SENT"
    <3>1. PICK k \in Chats, i \in Nat : IsCopy(key, k, i)
      BY <2>2 DEF ChatInvariant, StoredOnce
    <3>2. \A l \in Chats, j \in Nat : IsCopy(key, l, j) => l = k /\ j = i
      BY <3>1 DEF ChatInvariant, StoredOnce
    <3> HIDE DEF Copies
    <3>3. Copies(key) = {<<k, i>>}
      BY <2>1, <3>1, <3>2
    <3> QED BY <2>2, <3>3, FS_Singleton
  <2>3. CASE delivery[key].outcome # "SENT"
    <3>1. \A k \in Chats, i \in Nat : ~ IsCopy(key, k, i)
      BY <2>3 DEF ChatInvariant, StoredOnce
    <3> HIDE DEF Copies
    <3>2. Copies(key) = {}
      BY <2>1, <3>1
    <3> QED BY <2>3, <3>2, FS_EmptySet
  <2> QED BY <2>2, <2>3
<1> QED BY <1>1 DEF KeyHandledOnce, ChatInvariant, ChargedOnce

\* The type invariant of the runs follows from the shapes.
LEMMA ShapeIsTyped ==
    ASSUME ChatInvariant
    PROVE  ChatTypeOK
<1>1. \A x \in sends : x.chat \in Chats /\ x.content \in Contents
  BY DEF ChatInvariant, ChatShape
<1>2. \A k \in Chats : Len(messages[k]) \in Nat /\ Len(messages[k]) <= MaxMessages
                       /\ reading[k] \in -1..MaxMessages
  BY ChatMessagesAssumption DEF ChatInvariant, ChatShape, ReadsAreThere
<1>3. \A i \in 1..Len(violations) : violations[i] \in {"WARN", "LOCK"}
  BY ElementOfSeq DEF ChatInvariant, ChatShape
<1> QED BY <1>1, <1>2, <1>3 DEF ChatInvariant, ChatShape, ChatTypeOK

\* While the lock is on, no step makes a chat longer.
LEMMA LockedAddsNothing ==
    ASSUME ChatInvariant, [ChatNext]_chatVars, chatLock > 0
    PROVE  \A k \in Chats : Len(messages'[k]) = Len(messages[k])
<1>1. CASE \E x \in sends : FinishSend(x)
  BY <1>1 DEF FinishSend, RepeatAnswer, RefuseLocked, PolicyStatus
<1>2. CASE \E k \in Chats : FinishRead(k)
  BY <1>2, MessagesRead DEF ChatInvariant
<1>3. CASE UNCHANGED messages
  BY <1>3
<1> QED BY <1>1, <1>2, <1>3 DEF ChatNext, AcceptJob, EnsureChatForAssignment, EndJob, BeginSend,
                                Unlock, WindowMoves, BeginRead, chatVars

\* However many messages a user sends at once, and however often one of them again: the
\* warnings of a window stay within the limit, a key is stored and counted once, nothing is
\* stored while the writer is locked, and a receipt covers only what was read.
THEOREM ChatStaysSafe == ChatSpec => ChatSafe
<1>1. ChatInit => ChatInvariant
  BY ChatBegins
<1>2. ChatInvariant /\ [ChatNext]_chatVars => ChatInvariant'
  BY ChatNextKeeps
<1>3. ChatInvariant => ChatTypeOK /\ WarningsBounded /\ KeyHandledOnce /\ ReceiptIsTrue
  BY ShapeIsTyped, OneCopyPerAnswer DEF ChatInvariant
<1>4. ChatInvariant /\ [ChatNext]_chatVars =>
          [chatLock > 0 => \A k \in Chats : Len(messages'[k]) = Len(messages[k])]_chatVars
  BY LockedAddsNothing
<1> QED BY <1>1, <1>2, <1>3, <1>4, PTL DEF ChatSpec, ChatSafe, LockedIsSilent
=============================================================================
