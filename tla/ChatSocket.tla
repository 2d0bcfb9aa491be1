----------------------------- MODULE ChatSocket -----------------------------
(***************************************************************************)
(* The sockets of one user's devices and the "is typing" they show to the  *)
(* other side of a chat.  apps/chat/consumers.py.                          *)
(*                                                                         *)
(* A consumer handles one event at a time and awaits inside it; the timer  *)
(* of the authentication and that of the token run beside it and close the *)
(* socket, whose disconnect event then waits for its turn.                 *)
(***************************************************************************)
EXTENDS FiniteSets

CONSTANT Devices

VARIABLES
    phase,          \* what the consumer of each device does
    ending,         \* devices whose socket is closed, the disconnect event pending
    member,         \* devices in the user's group of the channel layer
    typing,         \* devices with the chat in typing_conversations
    allowed,        \* can_send and not locked
    shown           \* what the other side shows

socketVars == <<phase, ending, member, typing, allowed, shown>>

Phases == {"CLOSED", "OPEN", "AUTHENTICATING", "READY", "STARTING", "STOPPING"}
\* Phases in which no event is being handled.
Resting == {"OPEN", "READY"}

Enter(d, p) == phase' = [phase EXCEPT ![d] = p]

-----------------------------------------------------------------------------
Connect(d) ==
    /\ phase[d] = "CLOSED"
    /\ Enter(d, "OPEN")
    /\ UNCHANGED <<ending, member, typing, allowed, shown>>

\* Any other first event closes the socket.
ReceiveFirst(d, token) ==
    /\ phase[d] = "OPEN" /\ d \notin ending
    /\ IF token THEN Enter(d, "AUTHENTICATING") /\ UNCHANGED ending
       ELSE ending' = ending \cup {d} /\ UNCHANGED phase
    /\ UNCHANGED <<member, typing, allowed, shown>>

\* The timer may have closed the socket meanwhile.
AuthenticateAccessToken(d, valid) ==
    /\ phase[d] = "AUTHENTICATING"
    /\ IF valid
       THEN Enter(d, "READY") /\ member' = member \cup {d} /\ UNCHANGED ending
       ELSE Enter(d, "OPEN") /\ ending' = ending \cup {d} /\ UNCHANGED member
    /\ UNCHANGED <<typing, allowed, shown>>

CloseIfUnauthenticated(d) ==
    /\ phase[d] \in {"OPEN", "AUTHENTICATING"} /\ d \notin ending
    /\ ending' = ending \cup {d}
    /\ UNCHANGED <<phase, member, typing, allowed, shown>>

\* Plausible bug: a device that types is taken as active and never closed.
CloseWhenTokenExpires_Idle(d) ==
    /\ phase[d] \in {"READY", "STARTING", "STOPPING"} /\ d \notin ending \cup typing
    /\ ending' = ending \cup {d}
    /\ UNCHANGED <<phase, member, typing, allowed, shown>>

\* The token expires, or the client goes away.
CloseWhenTokenExpires(d) ==
    /\ phase[d] \in {"READY", "STARTING", "STOPPING"} /\ d \notin ending
    /\ ending' = ending \cup {d}
    /\ UNCHANGED <<phase, member, typing, allowed, shown>>

\* Refused when the chat is closed or the user locked: the entry stays then.
TypingStart(d) ==
    /\ phase[d] = "READY" /\ d \notin ending /\ allowed
    /\ typing' = typing \cup {d}
    /\ Enter(d, "STARTING")
    /\ UNCHANGED <<ending, member, allowed, shown>>

TypingStop(d) ==
    /\ phase[d] = "READY" /\ d \notin ending /\ allowed
    /\ typing' = typing \ {d}
    /\ Enter(d, "STOPPING")
    /\ UNCHANGED <<ending, member, allowed, shown>>

PublishTyping(d) ==
    /\ phase[d] \in {"STARTING", "STOPPING"}
    /\ shown' = (phase[d] = "STARTING")
    /\ Enter(d, "READY")
    /\ UNCHANGED <<ending, member, typing, allowed>>

\* Plausible bug: the channel stays in the user's group.
Disconnect_KeepsGroup(d) ==
    /\ d \in ending /\ phase[d] \in Resting
    /\ Enter(d, "CLOSED")
    /\ ending' = ending \ {d}
    /\ typing' = typing \ {d}
    /\ shown' = (shown /\ d \notin typing)
    /\ UNCHANGED <<member, allowed>>

Disconnect(d) ==
    /\ d \in ending /\ phase[d] \in Resting
    /\ Enter(d, "CLOSED")
    /\ ending' = ending \ {d}
    /\ member' = member \ {d}
    /\ typing' = typing \ {d}
    /\ shown' = (shown /\ d \notin typing)
    /\ UNCHANGED allowed

PolicyChanges ==
    /\ allowed' = ~allowed
    /\ UNCHANGED <<phase, ending, member, typing, shown>>

-----------------------------------------------------------------------------
SocketInit ==
    /\ phase = [d \in Devices |-> "CLOSED"]
    /\ ending = {} /\ member = {} /\ typing = {}
    /\ allowed = TRUE /\ shown = FALSE

SocketNext ==
    \/ \E d \in Devices :
           \/ Connect(d) \/ CloseIfUnauthenticated(d) \/ CloseWhenTokenExpires(d)
           \/ TypingStart(d) \/ TypingStop(d) \/ PublishTyping(d) \/ Disconnect(d)
    \/ \E d \in Devices, b \in BOOLEAN : ReceiveFirst(d, b) \/ AuthenticateAccessToken(d, b)
    \/ PolicyChanges

Handlers(d) ==
    PublishTyping(d) \/ Disconnect(d) \/ \E valid \in BOOLEAN : AuthenticateAccessToken(d, valid)

\* The event loop runs what is ready, and timers fire.
SocketFairness ==
    \A d \in Devices :
        /\ WF_socketVars(Handlers(d))
        /\ WF_socketVars(CloseIfUnauthenticated(d) \/ CloseWhenTokenExpires(d))

SocketSpec == SocketInit /\ [][SocketNext]_socketVars /\ SocketFairness

-----------------------------------------------------------------------------
SocketTypeOK ==
    /\ phase \in [Devices -> Phases]
    /\ ending \subseteq Devices /\ member \subseteq Devices /\ typing \subseteq Devices
    /\ allowed \in BOOLEAN /\ shown \in BOOLEAN

\* Whatever the timers interrupt, a socket that is gone left nothing in the group or
\* in the typing list, and none is ready outside the group.
ClosedIsGone ==
    \A d \in Devices :
        /\ phase[d] = "CLOSED" => d \notin ending \cup member \cup typing
        /\ phase[d] \in {"READY", "STARTING", "STOPPING"} <=> d \in member

\* The other side sees "typing" only while a socket still owes the retraction.
ShownHasSource == shown => \E d \in Devices : d \in typing \/ phase[d] = "STOPPING"

\* Even when the stop is refused because the chat was closed or the user locked, the
\* other side does not see "typing" for ever: the token expires.
TypingEnds == shown ~> ~shown

\* A socket does not stay unauthenticated.
SocketDecides ==
    \A d \in Devices : phase[d] \in {"OPEN", "AUTHENTICATING"} ~> phase[d] \in {"CLOSED", "READY"}

\* A socket that is gone left nothing behind, and "typing" is shown only while somebody
\* will take it back.
SocketSafe ==
    /\ SocketTypeOK
    /\ ClosedIsGone
    /\ ShownHasSource

\* Every socket comes to a decision, and every "typing" to its end.
SocketsEnd == TypingEnds /\ SocketDecides
=============================================================================
