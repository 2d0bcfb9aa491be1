-------------------------- MODULE Dispatch_proofs --------------------------
(***************************************************************************)
(* Proofs about Dispatch. What TLC checks on a few sessions and workers    *)
(* holds for all of them: a session that is taken has one worker and no    *)
(* open invitation, claims do not make a worker's sessions overlap, the    *)
(* preferred worker has the first refusal, and the app offers only what    *)
(* the server then grants.                                                 *)
(*                                                                         *)
(* The properties are not inductive as they stand. A claim and a move of a *)
(* session read first and write later, so IInv says what their locks keep  *)
(* true in between (ClaimsHold, MovesKnow, CalendarKept); a request is     *)
(* told of once because what was told, or is listed to be, has ended for   *)
(* good (ToldHasEnded).                                                    *)
(***************************************************************************)
EXTENDS Dispatch, TLAPS

\* A reschedule under way knows where to, and every invitation that is open.
MovesKnow ==
    \A s \in Sessions : moving[s] # NoMove =>
        /\ moving[s].to \in StartTimes
        /\ \A w \in Workers : invite[s][w] = "PENDING" => w \in moving[s].pending

\* What a claim has checked of its sessions stays so until it writes, and no other
\* claim is about them.
ClaimsHold ==
    \A w \in Workers : \A s \in claiming[w].sessions :
        /\ holder[s] = NoWorker /\ status[s] = "PENDING" /\ BookingOf[s] \in bookable
        /\ \A v \in Workers : s \in claiming[v].sessions => v = w

InvitedIsBookable ==
    \A s \in Sessions, w \in Workers : invite[s][w] = "PENDING" => BookingOf[s] \in bookable

\* A request is opened by the payment, or with the booking.
RequestsOpened ==
    \A s \in Sessions :
        BookingOf[s] \in bookable /\ status[s] = "PENDING" /\ preferred[BookingOf[s]] # NoWorker
            => prefUntil[s] # Never

\* What the customer was told of, or is about to be, has ended for good.
ToldHasEnded ==
    \A s \in Sessions :
        /\ s \in prefNotified \cup noticing => prefUntil[s] # Never /\ prefUntil[s] <= now
        /\ told[s] # 0 => s \in prefNotified

ActiveIsOpen == \A s \in Sessions : Active(s) => BookingOf[s] \in open

\* Until a session is moved, neither the sessions a worker has nor those he is about to
\* have overlap.
CalendarKept ==
    moves = 0 =>
        /\ \A s \in Sessions : moving[s] = NoMove
        /\ \A w \in Workers : \A s \in claiming[w].sessions : \A t \in Sessions \ {s} :
              Overlap(s, t) => t \notin claiming[w].sessions /\ ~(holder[t] = w /\ Active(t))

IInv ==
    /\ TypeOK
    /\ MovesKnow
    /\ ClaimsHold
    /\ InvitationsSettled
    /\ InvitedIsBookable
    /\ AnswerDueInTime
    /\ OnePrecedence
    /\ RequestsOpened
    /\ ToldHasEnded
    /\ ToldOnce
    /\ ActiveIsOpen
    /\ CalendarKept
    /\ ClaimsNeverOverlap

\* Times are integers, and the clock and the start times are not negative.
LEMMA Times ==
  ASSUME TypeOK
  PROVE  /\ now \in Int /\ now >= 0 /\ Horizon \in Int
         /\ Buffer \in Int /\ Buffer > 0 /\ Window \in Int /\ Duration \in Int /\ Duration > 0
         /\ \A r \in Responses : r \in Int
         /\ \A t \in StartTimes : t \in Int /\ t > 0
         /\ \A s \in Sessions : /\ start[s] \in Int /\ start[s] > 0
                               /\ prefUntil[s] \in Int /\ inviteUntil[s] \in Int
<1>1. now \in Clock /\ Horizon \in Nat
  BY DispatchAssumption DEF TypeOK
<1>2. now \in Int /\ now >= 0 /\ Horizon \in Int
  BY <1>1 DEF Clock
<1>3. /\ Buffer \in Int /\ Buffer > 0 /\ Window \in Int /\ Duration \in Int /\ Duration > 0
      /\ \A r \in Responses : r \in Int
      /\ \A t \in StartTimes : t \in Int /\ t > 0
  BY DispatchAssumption
<1>4. \A s \in Sessions : start[s] \in StartTimes /\ prefUntil[s] \in Int /\ inviteUntil[s] \in Int
  BY DEF TypeOK
<1> QED
  BY <1>2, <1>3, <1>4

-----------------------------------------------------------------------------
(* Types. *)

\* Every step keeps the types.
LEMMA TypeStep ==
  ASSUME TypeOK, MovesKnow, [Next]_vars
  PROVE  TypeOK'
<1>1. ASSUME Tick
      PROVE  TypeOK'
  BY <1>1, DispatchAssumption DEF Tick, Clock, TypeOK, request, invites
<1>2. ASSUME ListEndedRequests
      PROVE  TypeOK'
  BY <1>2, DispatchAssumption DEF ListEndedRequests, TypeOK, request, invites, Invitation,
     NoClaim, NoMove
<1>3. ASSUME ListStaleInvitations
      PROVE  TypeOK'
  BY <1>3, DispatchAssumption DEF ListStaleInvitations, TypeOK, request, invites,
     Invitation, NoClaim, NoMove
<1>4. ASSUME NEW b \in Bookings, Pay(b)
      PROVE  TypeOK'
  <2>1. now \in Int /\ Window \in Int /\ Buffer \in Int /\ \A s \in Sessions : start[s] \in Int
    BY Times
  <2>2. \A s \in Sessions : Earliest(now + Window, start[s] - Buffer) \in Int
    BY <2>1 DEF Earliest
  <2>3. prefUntil' \in [Sessions -> Int]
    BY <1>4, <2>2 DEF Pay, Activated, TypeOK
  <2> QED
    BY <1>4, <2>3 DEF Pay, TypeOK, invites
<1>5. ASSUME NEW b \in Bookings, CancelBooking(b)
      PROVE  TypeOK'
  BY <1>5, DispatchAssumption DEF CancelBooking, Cancel, TypeOK, request, invites,
     Invitation, NoClaim, NoMove
<1>6. ASSUME NEW w \in Workers, FinishClaim(w)
      PROVE  TypeOK'
  BY <1>6, DispatchAssumption DEF FinishClaim, TypeOK, request, invites, Invitation,
     NoClaim, NoMove
<1>7. ASSUME NEW s \in Sessions, TellEndedRequest(s)
      PROVE  TypeOK'
  BY <1>7, DispatchAssumption DEF TellEndedRequest, TypeOK, request, invites, Invitation,
     NoClaim, NoMove
<1>8. ASSUME NEW s \in Sessions, WithdrawInvitation(s)
      PROVE  TypeOK'
  <2>1. CASE Invited(s) # {}
    <3>1. invite' = [invite EXCEPT ![s] = [w \in Workers |->
                        IF w \in Invited(s) THEN "CANCELLED" ELSE invite[s][w]]]
      BY <1>8, <2>1 DEF WithdrawInvitation
    <3>2. [w \in Workers |-> IF w \in Invited(s) THEN "CANCELLED" ELSE invite[s][w]]
            \in [Workers -> Invitation]
      BY DEF TypeOK, Invitation
    <3> QED
      BY <1>8, <2>1, <3>1, <3>2 DEF WithdrawInvitation, TypeOK, request
  <2>2. CASE Invited(s) = {}
    <3>1. now \in Int
      BY Times
    <3> QED
      BY <1>8, <2>2, <3>1 DEF WithdrawInvitation, TypeOK
  <2> QED
    BY <2>1, <2>2
<1>9. ASSUME NEW s \in Sessions, CancelAssignment(s)
      PROVE  TypeOK'
  BY <1>9, DispatchAssumption DEF CancelAssignment, Leave, TypeOK, request, invites,
     Invitation, NoClaim, NoMove
<1>10. ASSUME NEW s \in Sessions, CancelSession(s)
      PROVE  TypeOK'
  BY <1>10, DispatchAssumption DEF CancelSession, Cancel, TypeOK, request, invites,
     Invitation, NoClaim, NoMove
<1>11. ASSUME NEW s \in Sessions, UnassignByAdmin(s)
      PROVE  TypeOK'
  BY <1>11, DispatchAssumption DEF UnassignByAdmin, Leave, TypeOK, request, invites,
     Invitation, NoClaim, NoMove
<1>12. ASSUME NEW s \in Sessions, FinishMove(s)
      PROVE  TypeOK'
  <2>1. now \in Int /\ moving[s].to \in StartTimes
    BY <1>12, Times DEF FinishMove, MovesKnow
  <2>2. /\ start' \in [Sessions -> StartTimes]
        /\ moving' \in [Sessions -> [to : StartTimes \cup {Never}, pending : SUBSET Workers]]
    BY <1>12, <2>1 DEF FinishMove, TypeOK, NoMove
  <2>3. invite' \in [Sessions -> [Workers -> Invitation]]
    BY <1>12 DEF FinishMove, TypeOK, Invitation
  <2>4. prefUntil' \in [Sessions -> Int] /\ prefNotified' \subseteq Sessions
    BY <1>12, <2>1 DEF FinishMove, TypeOK
  <2> QED
    BY <1>12, <2>2, <2>3, <2>4 DEF FinishMove, TypeOK
<1>13. ASSUME NEW s \in Sessions, StartWork(s)
      PROVE  TypeOK'
  BY <1>13, DispatchAssumption DEF StartWork, TypeOK, request, invites, Invitation, NoClaim,
     NoMove
<1>14. ASSUME NEW s \in Sessions, CloseSession(s)
      PROVE  TypeOK'
  <2>1. /\ holder' \in [Sessions -> Workers \cup {NoWorker}]
        /\ invite' \in [Sessions -> [Workers -> Invitation]]
    <3>1. CASE UNCHANGED <<holder, invite>>
      BY <3>1 DEF TypeOK
    <3>2. CASE ~UNCHANGED <<holder, invite>>
      <4>1. /\ holder' = [holder EXCEPT ![s] = NoWorker]
            /\ invite' = [invite EXCEPT ![s] = [w \in Workers |->
                    IF invite[s][w] = "ACCEPTED" THEN "CANCELLED" ELSE invite[s][w]]]
        BY <1>14, <3>2 DEF CloseSession
      <4>2. [w \in Workers |-> IF invite[s][w] = "ACCEPTED" THEN "CANCELLED" ELSE invite[s][w]]
              \in [Workers -> Invitation]
        BY DEF TypeOK, Invitation
      <4> QED
        BY <4>1, <4>2 DEF TypeOK
    <3> QED
      BY <3>1, <3>2
  <2>2. open' \subseteq Bookings /\ status' \in [Sessions -> {"PENDING", "IN_PROGRESS", "CLOSED"}]
    BY <1>14 DEF CloseSession, TypeOK
  <2> QED
    BY <1>14, <2>1, <2>2 DEF CloseSession, TypeOK, request
<1>15. ASSUME NEW s \in Sessions, NEW to \in StartTimes, BeginMove(s, to)
      PROVE  TypeOK'
  BY <1>15, DispatchAssumption DEF BeginMove, TypeOK, request, invites, Invitation, NoClaim,
     NoMove
<1>16. ASSUME NEW s \in Sessions, NEW ws \in SUBSET Workers, NEW r \in Responses,
             SendInvitations(s, ws, r)
      PROVE  TypeOK'
  <2>1. now \in Int /\ Buffer \in Int /\ r \in Int /\ start[s] \in Int
    BY Times
  <2>2. Earliest(now + r, start[s] - Buffer) \in Int
    BY <2>1 DEF Earliest
  <2>3. inviteUntil' \in [Sessions -> Int] /\ expiring' \subseteq Sessions \X Workers
    BY <1>16, <2>2 DEF SendInvitations, TypeOK
  <2>4. invite' \in [Sessions -> [Workers -> Invitation]]
    BY <1>16 DEF SendInvitations, TypeOK, Invitation
  <2> QED
    BY <1>16, <2>3, <2>4 DEF SendInvitations, TypeOK, request
<1>17. ASSUME NEW w \in Workers, NEW s \in Sessions, RejectInvitation(w, s)
      PROVE  TypeOK'
  BY <1>17, DispatchAssumption DEF RejectInvitation, TypeOK, request, invites, Invitation,
     NoClaim, NoMove
<1>18. ASSUME NEW w \in Workers, NEW s \in Sessions, ExpireInvitation(s, w)
      PROVE  TypeOK'
  BY <1>18, DispatchAssumption DEF ExpireInvitation, TypeOK, request, invites, Invitation,
     NoClaim, NoMove
<1>19. ASSUME NEW w \in Workers, NEW s \in Sessions, ClaimSession(w, s)
      PROVE  TypeOK'
  BY <1>19, DispatchAssumption DEF ClaimSession, BeginClaim, TypeOK, request, invites,
     Invitation, NoClaim, NoMove
<1>20. ASSUME NEW w \in Workers, NEW s \in Sessions, AcceptInvitation(w, s)
      PROVE  TypeOK'
  BY <1>20, DispatchAssumption DEF AcceptInvitation, BeginClaim, TypeOK, request, invites,
     Invitation, NoClaim, NoMove
<1>21. ASSUME NEW w \in Workers, NEW b \in Bookings, Decline(w, b)
      PROVE  TypeOK'
  <2>1. now \in Int
    BY Times
  <2>2. prefUntil' \in [Sessions -> Int] /\ told' \in [Sessions -> Nat] /\ prefNotified' \subseteq Sessions
    BY <1>21, <2>1 DEF Decline, TypeOK
  <2> QED
    BY <1>21, <2>2 DEF Decline, TypeOK, invites
<1>22. ASSUME NEW w \in Workers, NEW b \in Bookings,
             NEW asked \in SUBSET {s \in Sessions : BookingOf[s] = b}, ClaimPackage(w, b, asked)
      PROVE  TypeOK'
  BY <1>22, DispatchAssumption DEF ClaimPackage, BeginClaim, TypeOK, request, invites,
     Invitation, NoClaim, NoMove
<1>23. CASE UNCHANGED vars
  BY <1>23 DEF vars, request, invites, TypeOK, request, invites, Invitation, NoClaim, NoMove
<1> QED
  BY <1>1, <1>2, <1>3, <1>4, <1>5, <1>6, <1>7, <1>8, <1>9, <1>10, <1>11, <1>12, <1>13,
     <1>14, <1>15, <1>16, <1>17, <1>18, <1>19, <1>20, <1>21, <1>22, <1>23
  DEF Next

-----------------------------------------------------------------------------
(* What the handlers do to invitations, invitation by invitation. *)

\* A withdrawal only cancels, and only invitations to that session.
LEMMA InvitesWithdrawn ==
  ASSUME TypeOK, NEW s \in Sessions, WithdrawInvitation(s)
  PROVE  \A t \in Sessions, v \in Workers :
            invite'[t][v] = invite[t][v] \/ (t = s /\ invite'[t][v] = "CANCELLED")
<1>1. CASE Invited(s) # {}
  <2>1. invite' = [invite EXCEPT ![s] = [w \in Workers |->
                      IF w \in Invited(s) THEN "CANCELLED" ELSE invite[s][w]]]
    BY <1>1 DEF WithdrawInvitation
  <2> QED
    BY <2>1 DEF TypeOK
<1>2. CASE Invited(s) = {}
  BY <1>2 DEF WithdrawInvitation
<1> QED
  BY <1>1, <1>2

\* Work done leaves them; a session nobody came for loses its worker's acceptance.
LEMMA InvitesClosed ==
  ASSUME TypeOK, NEW s \in Sessions, CloseSession(s)
  PROVE  \/ UNCHANGED <<holder, invite>>
         \/ /\ holder' = [holder EXCEPT ![s] = NoWorker]
            /\ \A t \in Sessions, v \in Workers :
                  invite'[t][v] = IF t = s /\ invite[t][v] = "ACCEPTED" THEN "CANCELLED"
                                  ELSE invite[t][v]
<1>1. CASE UNCHANGED <<holder, invite>>
  BY <1>1
<1>2. CASE ~UNCHANGED <<holder, invite>>
  <2>1. /\ holder' = [holder EXCEPT ![s] = NoWorker]
        /\ invite' = [invite EXCEPT ![s] = [w \in Workers |->
                IF invite[s][w] = "ACCEPTED" THEN "CANCELLED" ELSE invite[s][w]]]
    BY <1>2 DEF CloseSession
  <2> QED
    BY <2>1 DEF TypeOK
<1> QED
  BY <1>1, <1>2

\* An invitation sent expires what had stayed open, to that session only.
LEMMA InvitesSent ==
  ASSUME TypeOK, NEW s \in Sessions, NEW ws \in SUBSET Workers, NEW r \in Responses,
         SendInvitations(s, ws, r)
  PROVE  \A t \in Sessions, v \in Workers :
            invite'[t][v] = IF t # s THEN invite[t][v]
                            ELSE IF v \in ws THEN "PENDING"
                            ELSE IF invite[t][v] = "PENDING" THEN "EXPIRED" ELSE invite[t][v]
<1>1. invite' = [invite EXCEPT ![s] = [w \in Workers |->
            IF w \in ws THEN "PENDING"
            ELSE IF invite[s][w] = "PENDING" THEN "EXPIRED" ELSE invite[s][w]]]
  BY DEF SendInvitations
<1> QED
  BY <1>1 DEF TypeOK

\* A move cancels the invitations that were open when it began.
LEMMA InvitesMoved ==
  ASSUME TypeOK, NEW s \in Sessions, FinishMove(s)
  PROVE  \A t \in Sessions, v \in Workers :
            invite'[t][v] = IF t = s /\ v \in moving[s].pending THEN "CANCELLED" ELSE invite[t][v]
<1>1. invite' = [invite EXCEPT ![s] = [w \in Workers |->
            IF w \in moving[s].pending THEN "CANCELLED" ELSE invite[s][w]]]
  BY DEF FinishMove
<1> QED
  BY <1>1 DEF TypeOK

\* A claim leaves what it has taken without open invitations; the others stay as they are.
LEMMA ClaimFinished ==
  ASSUME TypeOK, NEW w \in Workers, FinishClaim(w)
  PROVE  /\ claiming[w] # NoClaim
         /\ claiming' = [claiming EXCEPT ![w] = NoClaim]
         /\ UNCHANGED <<now, start, status, open, bookable, preferred, prefUntil, prefNotified,
                        told, noticing, inviteUntil, expiring, moving, moves>>
         /\ \E taken \in SUBSET claiming[w].sessions :
              /\ \A s \in taken : CanTake(w, s, claiming[w].invited)
              /\ holder' = [s \in Sessions |-> IF s \in taken THEN w ELSE holder[s]]
              /\ \A s \in Sessions, v \in Workers :
                    /\ s \notin taken => invite'[s][v] = invite[s][v]
                    /\ s \in taken =>
                          /\ invite'[s][v] # "PENDING"
                          /\ invite'[s][v] = "ACCEPTED" => v = w \/ invite[s][v] = "ACCEPTED"
<1>1. PICK taken \in SUBSET {s \in claiming[w].sessions : CanTake(w, s, claiming[w].invited)} :
        /\ holder' = [s \in Sessions |-> IF s \in taken THEN w ELSE holder[s]]
        /\ invite' = [s \in Sessions |-> IF s \notin taken THEN invite[s]
              ELSE [v \in Workers |->
                    IF invite[s][v] # "PENDING" THEN invite[s][v]
                    ELSE IF v = w /\ InvitationIsLive(s, w) THEN "ACCEPTED"
                    ELSE "CANCELLED"]]
  BY DEF FinishClaim
<1>2. \A s \in Sessions, v \in Workers :
          /\ s \notin taken => invite'[s][v] = invite[s][v]
          /\ s \in taken =>
                /\ invite'[s][v] # "PENDING"
                /\ invite'[s][v] = "ACCEPTED" => v = w \/ invite[s][v] = "ACCEPTED"
  BY <1>1
<1>3. /\ claiming[w] # NoClaim
      /\ claiming' = [claiming EXCEPT ![w] = NoClaim]
      /\ UNCHANGED <<now, start, status, open, bookable, preferred, prefUntil, prefNotified,
                     told, noticing, inviteUntil, expiring, moving, moves>>
  BY DEF FinishClaim, request
<1> QED
  BY <1>1, <1>2, <1>3

\* Sessions that nobody has, and no row of which is locked, are now being claimed.
Begun(w) ==
    \E ss \in SUBSET Sessions, invited \in BOOLEAN :
        /\ \A s \in ss :
             /\ Claimable(w, s) /\ moving[s] = NoMove
             /\ \A v \in Workers : s \notin claiming[v].sessions
        /\ \A s, t \in ss : s # t => ~Overlap(s, t)
        /\ claiming[w] = NoClaim
        /\ claiming' = [claiming EXCEPT ![w] = [sessions |-> ss, invited |-> invited]]
        /\ UNCHANGED <<now, start, status, open, bookable, preferred, prefUntil, prefNotified,
                       told, noticing, invite, inviteUntil, expiring, holder, moving, moves>>

\* Each of the three claims begins so.
LEMMA ClaimBegun ==
  ASSUME TypeOK, NEW w \in Workers,
         \/ \E s \in Sessions : ClaimSession(w, s) \/ AcceptInvitation(w, s)
         \/ \E b \in Bookings : \E asked \in SUBSET {s \in Sessions : BookingOf[s] = b} :
                ClaimPackage(w, b, asked)
  PROVE  Begun(w)
<1>1. ASSUME NEW s \in Sessions, NEW invited \in BOOLEAN,
             Claimable(w, s), BeginClaim(w, {s}, invited)
      PROVE  \E ss \in SUBSET Sessions : ss = {s} /\ BeginClaim(w, ss, invited)
                 /\ \A t \in ss : Claimable(w, t) /\ \A u \in ss : t = u
  BY <1>1
<1>2. ASSUME NEW b \in Bookings, NEW asked \in SUBSET {s \in Sessions : BookingOf[s] = b},
             ClaimPackage(w, b, asked)
      PROVE  \E ss \in SUBSET Sessions : BeginClaim(w, ss, FALSE)
                 /\ \A t \in ss : Claimable(w, t) /\ \A u \in ss : t # u => ~Overlap(t, u)
  BY <1>2 DEF ClaimPackage
<1>3. PICK ss \in SUBSET Sessions, invited \in BOOLEAN :
          /\ BeginClaim(w, ss, invited)
          /\ \A t \in ss : Claimable(w, t) /\ \A u \in ss : t # u => ~Overlap(t, u)
  BY <1>1, <1>2 DEF ClaimSession, AcceptInvitation
<1> QED
  BY <1>3 DEF Begun, BeginClaim, RowFree, UserFree, request, invites

-----------------------------------------------------------------------------
(* Step by step, one lemma for each part of the invariant. *)

\* A reschedule under way keeps what it knows: what it has read is locked.
LEMMA MovesStep ==
  ASSUME TypeOK, MovesKnow, [Next]_vars
  PROVE  MovesKnow'
<1>1. ASSUME UNCHANGED <<moving, invite>>
      PROVE  MovesKnow'
  BY <1>1 DEF MovesKnow, TypeOK, RowFree, NoMove, request, invites
<1>2. ASSUME NEW b \in Bookings, CancelBooking(b)
      PROVE  MovesKnow'
  BY <1>2 DEF CancelBooking, Cancel, MovesKnow, TypeOK, RowFree, NoMove, request, invites
<1>3. ASSUME NEW w \in Workers, FinishClaim(w)
      PROVE  MovesKnow'
  BY <1>3 DEF FinishClaim, MovesKnow, TypeOK, RowFree, NoMove, request, invites
<1>4. ASSUME NEW s \in Sessions, WithdrawInvitation(s)
      PROVE  MovesKnow'
  <2>1. /\ \A t \in Sessions, v \in Workers :
              invite'[t][v] = invite[t][v] \/ (t = s /\ invite'[t][v] = "CANCELLED")
        /\ moving' = moving
    BY <1>4, InvitesWithdrawn DEF WithdrawInvitation
  <2> QED
    BY <2>1 DEF MovesKnow
<1>5. ASSUME NEW s \in Sessions, CancelAssignment(s)
      PROVE  MovesKnow'
  BY <1>5 DEF CancelAssignment, Leave, MovesKnow, TypeOK, RowFree, NoMove, request, invites
<1>6. ASSUME NEW s \in Sessions, CancelSession(s)
      PROVE  MovesKnow'
  BY <1>6 DEF CancelSession, Cancel, MovesKnow, TypeOK, RowFree, NoMove, request, invites
<1>7. ASSUME NEW s \in Sessions, UnassignByAdmin(s)
      PROVE  MovesKnow'
  BY <1>7 DEF UnassignByAdmin, Leave, MovesKnow, TypeOK, RowFree, NoMove, request, invites
<1>8. ASSUME NEW s \in Sessions, FinishMove(s)
      PROVE  MovesKnow'
  <2>1. \A t \in Sessions, v \in Workers : t # s => invite'[t][v] = invite[t][v]
    BY <1>8, InvitesMoved
  <2>2. moving' = [moving EXCEPT ![s] = NoMove]
    BY <1>8 DEF FinishMove
  <2> QED
    BY <2>1, <2>2 DEF MovesKnow, TypeOK
<1>9. ASSUME NEW s \in Sessions, CloseSession(s)
      PROVE  MovesKnow'
  <2>1. moving' = moving /\ \A t \in Sessions, v \in Workers :
              invite'[t][v] = invite[t][v] \/ invite'[t][v] = "CANCELLED"
    BY <1>9, InvitesClosed DEF CloseSession
  <2> QED
    BY <2>1 DEF MovesKnow
<1>10. ASSUME NEW s \in Sessions, NEW to \in StartTimes, BeginMove(s, to)
      PROVE  MovesKnow'
  <2>1. /\ moving' = [moving EXCEPT ![s] =
              [to |-> to, pending |-> {w \in Workers : invite[s][w] = "PENDING"}]]
        /\ invite' = invite
    BY <1>10 DEF BeginMove, invites
  <2> QED
    BY <2>1 DEF MovesKnow, TypeOK
<1>11. ASSUME NEW s \in Sessions, NEW ws \in SUBSET Workers, NEW r \in Responses,
             SendInvitations(s, ws, r)
      PROVE  MovesKnow'
  <2>1. /\ \A t \in Sessions, v \in Workers : t # s => invite'[t][v] = invite[t][v]
        /\ moving' = moving /\ moving[s] = NoMove
    BY <1>11, InvitesSent DEF SendInvitations, RowFree
  <2> QED
    BY <2>1 DEF MovesKnow
<1>12. ASSUME NEW w \in Workers, NEW s \in Sessions, RejectInvitation(w, s)
      PROVE  MovesKnow'
  BY <1>12 DEF RejectInvitation, MovesKnow, TypeOK, RowFree, NoMove, request, invites
<1>13. ASSUME NEW w \in Workers, NEW s \in Sessions, ExpireInvitation(s, w)
      PROVE  MovesKnow'
  BY <1>13 DEF ExpireInvitation, MovesKnow, TypeOK, RowFree, NoMove, request, invites
<1>14. CASE UNCHANGED vars
  BY <1>14, <1>1 DEF vars, request, invites
<1> QED
  BY <1>1, <1>2, <1>3, <1>4, <1>5, <1>6, <1>7, <1>8, <1>9, <1>10, <1>11, <1>12, <1>13, <1>14
  DEF Next, Tick, ListEndedRequests, ListStaleInvitations, Pay, Activated, TellEndedRequest,
      StartWork, ClaimSession, BeginClaim, AcceptInvitation, Decline, ClaimPackage, request,
      invites

\* What a claim has checked is locked until it writes.
LEMMA ClaimsStep ==
  ASSUME TypeOK, ClaimsHold, [Next]_vars
  PROVE  ClaimsHold'
<1>1. ASSUME UNCHANGED <<claiming, holder, status, bookable>>
      PROVE  ClaimsHold'
  BY <1>1 DEF ClaimsHold, TypeOK, RowFree, NoClaim, request, invites
<1>2. ASSUME NEW b \in Bookings, Pay(b)
      PROVE  ClaimsHold'
  BY <1>2 DEF Pay, Activated, ClaimsHold, TypeOK, RowFree, NoClaim, request, invites
<1>3. ASSUME NEW b \in Bookings, CancelBooking(b)
      PROVE  ClaimsHold'
  BY <1>3 DEF CancelBooking, Cancel, ClaimsHold, TypeOK, RowFree, NoClaim, request, invites
<1>4. ASSUME NEW w \in Workers, FinishClaim(w)
      PROVE  ClaimsHold'
  <2>1. PICK taken \in SUBSET claiming[w].sessions :
            /\ holder' = [s \in Sessions |-> IF s \in taken THEN w ELSE holder[s]]
            /\ claiming' = [claiming EXCEPT ![w] = NoClaim]
            /\ UNCHANGED <<status, bookable>>
    BY <1>4, ClaimFinished
  <2> QED
    BY <2>1 DEF ClaimsHold, TypeOK, NoClaim
<1>5. ASSUME NEW s \in Sessions, CancelAssignment(s)
      PROVE  ClaimsHold'
  BY <1>5 DEF CancelAssignment, Leave, ClaimsHold, TypeOK, RowFree, NoClaim, request,
     invites
<1>6. ASSUME NEW s \in Sessions, CancelSession(s)
      PROVE  ClaimsHold'
  BY <1>6 DEF CancelSession, Cancel, ClaimsHold, TypeOK, RowFree, NoClaim, request, invites
<1>7. ASSUME NEW s \in Sessions, UnassignByAdmin(s)
      PROVE  ClaimsHold'
  BY <1>7 DEF UnassignByAdmin, Leave, ClaimsHold, TypeOK, RowFree, NoClaim, request, invites
<1>8. ASSUME NEW s \in Sessions, StartWork(s)
      PROVE  ClaimsHold'
  BY <1>8 DEF StartWork, ClaimsHold, TypeOK, RowFree, NoClaim, request, invites
<1>9. ASSUME NEW s \in Sessions, CloseSession(s)
      PROVE  ClaimsHold'
  BY <1>9 DEF CloseSession, ClaimsHold, TypeOK, RowFree, NoClaim, request, invites
<1>10. ASSUME NEW w \in Workers, NEW s \in Sessions, ClaimSession(w, s)
      PROVE  ClaimsHold'
  <2>0. Begun(w)
    BY <1>10, ClaimBegun
  <2>1. PICK ss \in SUBSET Sessions, invited \in BOOLEAN :
            /\ \A t \in ss : Claimable(w, t) /\ \A v \in Workers : t \notin claiming[v].sessions
            /\ claiming' = [claiming EXCEPT ![w] = [sessions |-> ss, invited |-> invited]]
            /\ UNCHANGED <<holder, status, bookable>>
    BY <2>0 DEF Begun
  <2> QED
    BY <2>1 DEF ClaimsHold, TypeOK, Claimable, ValidForSchedule
<1>11. ASSUME NEW w \in Workers, NEW s \in Sessions, AcceptInvitation(w, s)
      PROVE  ClaimsHold'
  <2>0. Begun(w)
    BY <1>11, ClaimBegun
  <2>1. PICK ss \in SUBSET Sessions, invited \in BOOLEAN :
            /\ \A t \in ss : Claimable(w, t) /\ \A v \in Workers : t \notin claiming[v].sessions
            /\ claiming' = [claiming EXCEPT ![w] = [sessions |-> ss, invited |-> invited]]
            /\ UNCHANGED <<holder, status, bookable>>
    BY <2>0 DEF Begun
  <2> QED
    BY <2>1 DEF ClaimsHold, TypeOK, Claimable, ValidForSchedule
<1>12. ASSUME NEW w \in Workers, NEW b \in Bookings,
             NEW asked \in SUBSET {s \in Sessions : BookingOf[s] = b}, ClaimPackage(w, b, asked)
      PROVE  ClaimsHold'
  <2>0. Begun(w)
    BY <1>12, ClaimBegun
  <2>1. PICK ss \in SUBSET Sessions, invited \in BOOLEAN :
            /\ \A t \in ss : Claimable(w, t) /\ \A v \in Workers : t \notin claiming[v].sessions
            /\ claiming' = [claiming EXCEPT ![w] = [sessions |-> ss, invited |-> invited]]
            /\ UNCHANGED <<holder, status, bookable>>
    BY <2>0 DEF Begun
  <2> QED
    BY <2>1 DEF ClaimsHold, TypeOK, Claimable, ValidForSchedule
<1>13. CASE UNCHANGED vars
  BY <1>13, <1>1 DEF vars, request, invites
<1> QED
  BY <1>1, <1>2, <1>3, <1>4, <1>5, <1>6, <1>7, <1>8, <1>9, <1>10, <1>11, <1>12, <1>13
  DEF Next, Tick, ListEndedRequests, ListStaleInvitations, TellEndedRequest,
      WithdrawInvitation, FinishMove, BeginMove, SendInvitations, RejectInvitation,
      ExpireInvitation, Decline, request, invites

\* A session that is taken keeps no open invitation, and no other accepted one.
LEMMA SettledStep ==
  ASSUME TypeOK, ClaimsHold, InvitationsSettled, [Next]_vars
  PROVE  InvitationsSettled'
<1>1. ASSUME UNCHANGED <<invite, holder>>
      PROVE  InvitationsSettled'
  BY <1>1 DEF InvitationsSettled, ClaimsHold, TypeOK, request, invites
<1>2. ASSUME NEW b \in Bookings, CancelBooking(b)
      PROVE  InvitationsSettled'
  BY <1>2 DEF CancelBooking, Cancel, InvitationsSettled, ClaimsHold, TypeOK, request,
     invites
<1>3. ASSUME NEW w \in Workers, FinishClaim(w)
      PROVE  InvitationsSettled'
  <2>1. PICK taken \in SUBSET claiming[w].sessions :
            /\ holder' = [s \in Sessions |-> IF s \in taken THEN w ELSE holder[s]]
            /\ \A s \in Sessions, v \in Workers :
                  /\ s \notin taken => invite'[s][v] = invite[s][v]
                  /\ s \in taken =>
                        /\ invite'[s][v] # "PENDING"
                        /\ invite'[s][v] = "ACCEPTED" => v = w \/ invite[s][v] = "ACCEPTED"
    BY <1>3, ClaimFinished
  <2>2. \A s \in taken : holder[s] = NoWorker
    BY <2>1 DEF ClaimsHold
  <2>3. \A v \in Workers : v # NoWorker
    BY DispatchAssumption
  <2> QED
    BY <2>1, <2>2, <2>3 DEF InvitationsSettled
<1>4. ASSUME NEW s \in Sessions, WithdrawInvitation(s)
      PROVE  InvitationsSettled'
  <2>1. /\ \A t \in Sessions, v \in Workers :
              invite'[t][v] = invite[t][v] \/ (t = s /\ invite'[t][v] = "CANCELLED")
        /\ holder' = holder
    BY <1>4, InvitesWithdrawn DEF WithdrawInvitation
  <2> QED
    BY <2>1 DEF InvitationsSettled
<1>5. ASSUME NEW s \in Sessions, CancelAssignment(s)
      PROVE  InvitationsSettled'
  BY <1>5 DEF CancelAssignment, Leave, InvitationsSettled, ClaimsHold, TypeOK, request,
     invites
<1>6. ASSUME NEW s \in Sessions, CancelSession(s)
      PROVE  InvitationsSettled'
  BY <1>6 DEF CancelSession, Cancel, InvitationsSettled, ClaimsHold, TypeOK, request,
     invites
<1>7. ASSUME NEW s \in Sessions, UnassignByAdmin(s)
      PROVE  InvitationsSettled'
  BY <1>7 DEF UnassignByAdmin, Leave, InvitationsSettled, ClaimsHold, TypeOK, request,
     invites
<1>8. ASSUME NEW s \in Sessions, FinishMove(s)
      PROVE  InvitationsSettled'
  <2>1. holder' = holder
    BY <1>8 DEF FinishMove
  <2> QED
    BY <1>8, <2>1, InvitesMoved DEF InvitationsSettled
<1>9. ASSUME NEW s \in Sessions, CloseSession(s)
      PROVE  InvitationsSettled'
  <2>1. CASE UNCHANGED <<holder, invite>>
    BY <2>1 DEF InvitationsSettled
  <2>2. CASE ~UNCHANGED <<holder, invite>>
    BY <1>9, <2>2, InvitesClosed DEF InvitationsSettled, TypeOK
  <2> QED
    BY <2>1, <2>2
<1>10. ASSUME NEW s \in Sessions, NEW ws \in SUBSET Workers, NEW r \in Responses,
             SendInvitations(s, ws, r)
      PROVE  InvitationsSettled'
  <2>1. holder' = holder /\ holder[s] = NoWorker
    BY <1>10 DEF SendInvitations
  <2> QED
    BY <1>10, <2>1, InvitesSent DEF InvitationsSettled
<1>11. ASSUME NEW w \in Workers, NEW s \in Sessions, RejectInvitation(w, s)
      PROVE  InvitationsSettled'
  BY <1>11 DEF RejectInvitation, InvitationsSettled, ClaimsHold, TypeOK, request, invites
<1>12. ASSUME NEW w \in Workers, NEW s \in Sessions, ExpireInvitation(s, w)
      PROVE  InvitationsSettled'
  BY <1>12 DEF ExpireInvitation, InvitationsSettled, ClaimsHold, TypeOK, request, invites
<1>13. CASE UNCHANGED vars
  BY <1>13, <1>1 DEF vars, request, invites
<1> QED
  BY <1>1, <1>2, <1>3, <1>4, <1>5, <1>6, <1>7, <1>8, <1>9, <1>10, <1>11, <1>12, <1>13
  DEF Next, Tick, ListEndedRequests, ListStaleInvitations, Pay, Activated, TellEndedRequest,
      StartWork, BeginMove, ClaimSession, BeginClaim, AcceptInvitation, Decline,
      ClaimPackage, request, invites

\* Workers are invited to bookings that are paid, or to be paid in cash.
LEMMA BookableStep ==
  ASSUME TypeOK, InvitedIsBookable, [Next]_vars
  PROVE  InvitedIsBookable'
<1>1. ASSUME UNCHANGED <<invite, bookable>>
      PROVE  InvitedIsBookable'
  BY <1>1 DEF InvitedIsBookable, TypeOK, ValidForSchedule, request, invites
<1>2. ASSUME NEW b \in Bookings, Pay(b)
      PROVE  InvitedIsBookable'
  BY <1>2 DEF Pay, InvitedIsBookable, invites
<1>3. ASSUME NEW b \in Bookings, CancelBooking(b)
      PROVE  InvitedIsBookable'
  BY <1>3 DEF CancelBooking, Cancel, InvitedIsBookable, TypeOK, ValidForSchedule, request,
     invites
<1>4. ASSUME NEW w \in Workers, FinishClaim(w)
      PROVE  InvitedIsBookable'
  <2>1. bookable' = bookable /\ \A s \in Sessions, v \in Workers :
              invite'[s][v] # "PENDING" \/ invite'[s][v] = invite[s][v]
    BY <1>4, ClaimFinished
  <2> QED
    BY <2>1 DEF InvitedIsBookable
<1>5. ASSUME NEW s \in Sessions, WithdrawInvitation(s)
      PROVE  InvitedIsBookable'
  <2>1. /\ \A t \in Sessions, v \in Workers :
              invite'[t][v] = invite[t][v] \/ (t = s /\ invite'[t][v] = "CANCELLED")
        /\ bookable' = bookable
    BY <1>5, InvitesWithdrawn DEF WithdrawInvitation
  <2> QED
    BY <2>1 DEF InvitedIsBookable
<1>6. ASSUME NEW s \in Sessions, CancelAssignment(s)
      PROVE  InvitedIsBookable'
  BY <1>6 DEF CancelAssignment, Leave, InvitedIsBookable, TypeOK, ValidForSchedule, request,
     invites
<1>7. ASSUME NEW s \in Sessions, CancelSession(s)
      PROVE  InvitedIsBookable'
  BY <1>7 DEF CancelSession, Cancel, InvitedIsBookable, TypeOK, ValidForSchedule, request,
     invites
<1>8. ASSUME NEW s \in Sessions, UnassignByAdmin(s)
      PROVE  InvitedIsBookable'
  BY <1>8 DEF UnassignByAdmin, Leave, InvitedIsBookable, TypeOK, ValidForSchedule, request,
     invites
<1>9. ASSUME NEW s \in Sessions, FinishMove(s)
      PROVE  InvitedIsBookable'
  <2>1. bookable' = bookable
    BY <1>9 DEF FinishMove
  <2> QED
    BY <1>9, <2>1, InvitesMoved DEF InvitedIsBookable
<1>10. ASSUME NEW s \in Sessions, CloseSession(s)
      PROVE  InvitedIsBookable'
  <2>1. bookable' = bookable /\ \A t \in Sessions, v \in Workers :
              invite'[t][v] = invite[t][v] \/ invite'[t][v] = "CANCELLED"
    BY <1>10, InvitesClosed DEF CloseSession
  <2> QED
    BY <2>1 DEF InvitedIsBookable
<1>11. ASSUME NEW s \in Sessions, NEW ws \in SUBSET Workers, NEW r \in Responses,
             SendInvitations(s, ws, r)
      PROVE  InvitedIsBookable'
  <2>1. bookable' = bookable /\ BookingOf[s] \in bookable
    BY <1>11 DEF SendInvitations, ValidForSchedule
  <2> QED
    BY <1>11, <2>1, InvitesSent DEF InvitedIsBookable
<1>12. ASSUME NEW w \in Workers, NEW s \in Sessions, RejectInvitation(w, s)
      PROVE  InvitedIsBookable'
  BY <1>12 DEF RejectInvitation, InvitedIsBookable, TypeOK, ValidForSchedule, request,
     invites
<1>13. ASSUME NEW w \in Workers, NEW s \in Sessions, ExpireInvitation(s, w)
      PROVE  InvitedIsBookable'
  BY <1>13 DEF ExpireInvitation, InvitedIsBookable, TypeOK, ValidForSchedule, request,
     invites
<1>14. CASE UNCHANGED vars
  BY <1>14, <1>1 DEF vars, request, invites
<1> QED
  BY <1>1, <1>2, <1>3, <1>4, <1>5, <1>6, <1>7, <1>8, <1>9, <1>10, <1>11, <1>12, <1>13, <1>14
  DEF Next, Tick, ListEndedRequests, ListStaleInvitations, TellEndedRequest, StartWork,
      BeginMove, ClaimSession, BeginClaim, AcceptInvitation, Decline, ClaimPackage, request,
      invites


\* AnswerDueInTime and OnePrecedence, session by session.
Precedence(s) ==
    /\ Invited(s) # {} => inviteUntil[s] <= start[s] - Buffer
    /\ RequestIsLive(s) => prefUntil[s] <= start[s] - Buffer
    /\ ~(Invited(s) # {} /\ RequestIsLive(s))

\* Precedence ends with time, an answer or a withdrawal, and only a due time that is
\* given anew can begin it.
LEMMA PrecedenceKept ==
  ASSUME TypeOK, NEW s \in Sessions, Precedence(s),
         now' \in Int, now' >= now, start'[s] = start[s],
         preferred' = preferred, inviteUntil'[s] = inviteUntil[s],
         prefUntil'[s] = prefUntil[s] \/ prefUntil'[s] = now,
         \A w \in Workers : invite'[s][w] = "PENDING" => invite[s][w] = "PENDING"
  PROVE  Precedence(s)'
<1>1. now \in Int /\ inviteUntil[s] \in Int /\ prefUntil[s] \in Int /\ start[s] \in Int
  BY Times
<1>2. Invited(s)' \subseteq Invited(s)
  BY <1>1 DEF Invited, InvitationIsLive
<1>3. RequestIsLive(s)' => RequestIsLive(s) /\ prefUntil'[s] = prefUntil[s]
  BY <1>1 DEF RequestIsLive
<1> QED
  BY <1>2, <1>3 DEF Precedence

\* Nobody's precedence lasts too long, and no two are in force together.
LEMMA PrecedenceStep ==
  ASSUME TypeOK, MovesKnow, InvitedIsBookable, \A s \in Sessions : Precedence(s), [Next]_vars
  PROVE  (\A s \in Sessions : Precedence(s))'
<1>0. now \in Int /\ now >= 0
  BY Times
<1>1. ASSUME UNCHANGED <<now, start, preferred, prefUntil, invite, inviteUntil>>
      PROVE  (\A s \in Sessions : Precedence(s))'
  BY <1>1 DEF Precedence, Invited, InvitationIsLive, RequestIsLive
<1>2. ASSUME Tick
      PROVE  (\A s \in Sessions : Precedence(s))'
  <2>1. now' = now + 1 /\ UNCHANGED <<start, preferred, prefUntil, invite, inviteUntil>>
    BY <1>2 DEF Tick, request, invites
  <2> QED
    BY <2>1, <1>0, PrecedenceKept
<1>3. ASSUME NEW b \in Bookings, Pay(b)
      PROVE  (\A s \in Sessions : Precedence(s))'
  <2>1. /\ prefUntil' = Activated(b) /\ b \notin bookable
        /\ UNCHANGED <<now, start, preferred, invite, inviteUntil>>
    BY <1>3 DEF Pay, invites
  <2> TAKE s \in Sessions
  <2>2. CASE prefUntil'[s] = prefUntil[s]
    BY <2>1, <2>2, <1>0, PrecedenceKept
  <2>3. CASE prefUntil'[s] # prefUntil[s]
    <3>1. BookingOf[s] = b /\ prefUntil'[s] = Earliest(now + Window, start[s] - Buffer)
      BY <2>1, <2>3 DEF Activated
    <3>2. Invited(s)' = {}
      BY <2>1, <3>1 DEF Invited, InvitationIsLive, InvitedIsBookable
    <3>3. prefUntil'[s] <= start'[s] - Buffer
      BY <2>1, <3>1, Times DEF Earliest
    <3> QED
      BY <3>2, <3>3 DEF Precedence
  <2> QED
    BY <2>2, <2>3
<1>4. ASSUME NEW b \in Bookings, CancelBooking(b)
      PROVE  (\A s \in Sessions : Precedence(s))'
  <2>1. /\ now' = now /\ start' = start /\ preferred' = preferred /\ inviteUntil' = inviteUntil
        /\ \A t \in Sessions : prefUntil'[t] = prefUntil[t] \/ prefUntil'[t] = now
        /\ \A t \in Sessions, v \in Workers : invite'[t][v] = "PENDING" => invite[t][v] = "PENDING"
    BY <1>4 DEF CancelBooking, Cancel, TypeOK, request, invites
  <2> QED
    BY <2>1, <1>0, PrecedenceKept
<1>5. ASSUME NEW w \in Workers, FinishClaim(w)
      PROVE  (\A t \in Sessions : Precedence(t))'
  <2>1. /\ now' = now /\ start' = start /\ preferred' = preferred /\ inviteUntil' = inviteUntil
        /\ \A t \in Sessions : prefUntil'[t] = prefUntil[t] \/ prefUntil'[t] = now
        /\ \A t \in Sessions, v \in Workers : invite'[t][v] = "PENDING" => invite[t][v] = "PENDING"
    BY <1>5, ClaimFinished DEF TypeOK, request, invites
  <2> QED
    BY <2>1, <1>0, PrecedenceKept
<1>6. ASSUME NEW s \in Sessions, WithdrawInvitation(s)
      PROVE  (\A t \in Sessions : Precedence(t))'
  <2>1. now' = now /\ start' = start /\ preferred' = preferred /\ inviteUntil' = inviteUntil
    BY <1>6 DEF WithdrawInvitation
  <2>2. \A t \in Sessions, v \in Workers : invite'[t][v] = "PENDING" => invite[t][v] = "PENDING"
    BY <1>6, InvitesWithdrawn
  <2>3. \A t \in Sessions : prefUntil'[t] = prefUntil[t] \/ prefUntil'[t] = now
    <3>1. prefUntil' = prefUntil \/ prefUntil' = [prefUntil EXCEPT ![s] = now]
      BY <1>6 DEF WithdrawInvitation, request
    <3> QED
      BY <3>1 DEF TypeOK
  <2> QED
    BY <2>1, <2>2, <2>3, <1>0, PrecedenceKept
<1>7. ASSUME NEW s \in Sessions, CancelAssignment(s)
      PROVE  (\A t \in Sessions : Precedence(t))'
  <2>1. /\ now' = now /\ start' = start /\ preferred' = preferred /\ inviteUntil' = inviteUntil
        /\ \A t \in Sessions : prefUntil'[t] = prefUntil[t] \/ prefUntil'[t] = now
        /\ \A t \in Sessions, v \in Workers : invite'[t][v] = "PENDING" => invite[t][v] = "PENDING"
    BY <1>7 DEF CancelAssignment, Leave, TypeOK, request, invites
  <2> QED
    BY <2>1, <1>0, PrecedenceKept
<1>8. ASSUME NEW s \in Sessions, CancelSession(s)
      PROVE  (\A t \in Sessions : Precedence(t))'
  <2>1. /\ now' = now /\ start' = start /\ preferred' = preferred /\ inviteUntil' = inviteUntil
        /\ \A t \in Sessions : prefUntil'[t] = prefUntil[t] \/ prefUntil'[t] = now
        /\ \A t \in Sessions, v \in Workers : invite'[t][v] = "PENDING" => invite[t][v] = "PENDING"
    BY <1>8 DEF CancelSession, Cancel, TypeOK, request, invites
  <2> QED
    BY <2>1, <1>0, PrecedenceKept
<1>9. ASSUME NEW s \in Sessions, UnassignByAdmin(s)
      PROVE  (\A t \in Sessions : Precedence(t))'
  <2>1. /\ now' = now /\ start' = start /\ preferred' = preferred /\ inviteUntil' = inviteUntil
        /\ \A t \in Sessions : prefUntil'[t] = prefUntil[t] \/ prefUntil'[t] = now
        /\ \A t \in Sessions, v \in Workers : invite'[t][v] = "PENDING" => invite[t][v] = "PENDING"
    BY <1>9 DEF UnassignByAdmin, Leave, TypeOK, request, invites
  <2> QED
    BY <2>1, <1>0, PrecedenceKept
<1>10. ASSUME NEW s \in Sessions, FinishMove(s)
      PROVE  (\A t \in Sessions : Precedence(t))'
  <2>1. /\ UNCHANGED <<now, preferred, inviteUntil>>
        /\ \A t \in Sessions : t # s => start'[t] = start[t] /\ prefUntil'[t] = prefUntil[t]
        /\ prefUntil'[s] = prefUntil[s] \/ prefUntil'[s] = now
        /\ moving[s] # NoMove /\ preferred[BookingOf[s]] # NoWorker => prefUntil'[s] = now
        /\ moving[s] # NoMove
    BY <1>10 DEF FinishMove, TypeOK
  <2>2. \A t \in Sessions, v \in Workers :
            invite'[t][v] = IF t = s /\ v \in moving[s].pending THEN "CANCELLED" ELSE invite[t][v]
    BY <1>10, InvitesMoved
  <2>3. \A t \in Sessions : t # s => Precedence(t)'
    BY <2>1, <2>2, <1>0, PrecedenceKept
  <2>4. Invited(s)' = {}
    BY <2>1, <2>2 DEF Invited, InvitationIsLive, MovesKnow
  <2>5. ~RequestIsLive(s)'
    BY <2>1, <1>0 DEF RequestIsLive
  <2> QED
    BY <2>3, <2>4, <2>5 DEF Precedence
<1>11. ASSUME NEW s \in Sessions, CloseSession(s)
      PROVE  (\A t \in Sessions : Precedence(t))'
  <2>1. /\ now' = now /\ start' = start /\ preferred' = preferred /\ inviteUntil' = inviteUntil
        /\ \A t \in Sessions : prefUntil'[t] = prefUntil[t] \/ prefUntil'[t] = now
        /\ \A t \in Sessions, v \in Workers : invite'[t][v] = "PENDING" => invite[t][v] = "PENDING"
    BY <1>11, InvitesClosed DEF CloseSession, TypeOK, request, invites
  <2> QED
    BY <2>1, <1>0, PrecedenceKept
<1>12. ASSUME NEW s \in Sessions, NEW ws \in SUBSET Workers, NEW r \in Responses,
             SendInvitations(s, ws, r)
      PROVE  (\A t \in Sessions : Precedence(t))'
  <2>1. /\ UNCHANGED <<now, start, preferred, prefUntil>> /\ ~RequestIsLive(s)
        /\ inviteUntil' = [inviteUntil EXCEPT ![s] = Earliest(now + r, start[s] - Buffer)]
    BY <1>12 DEF SendInvitations, request
  <2>2. \A t \in Sessions, v \in Workers : t # s => invite'[t][v] = invite[t][v]
    BY <1>12, InvitesSent
  <2>3. \A t \in Sessions : t # s => Precedence(t)'
    <3>1. \A t \in Sessions : t # s => inviteUntil'[t] = inviteUntil[t]
      BY <2>1 DEF TypeOK
    <3> QED
      BY <2>1, <2>2, <3>1, <1>0, PrecedenceKept
  <2>4. ~RequestIsLive(s)'
    BY <2>1 DEF RequestIsLive
  <2>5. inviteUntil'[s] <= start'[s] - Buffer
    <3>1. Earliest(now + r, start[s] - Buffer) <= start[s] - Buffer
      BY Times DEF Earliest
    <3> QED
      BY <2>1, <3>1 DEF TypeOK
  <2> QED
    BY <2>3, <2>4, <2>5 DEF Precedence
<1>13. ASSUME NEW w \in Workers, NEW s \in Sessions, RejectInvitation(w, s)
      PROVE  (\A t \in Sessions : Precedence(t))'
  <2>1. /\ now' = now /\ start' = start /\ preferred' = preferred /\ inviteUntil' = inviteUntil
        /\ \A t \in Sessions : prefUntil'[t] = prefUntil[t] \/ prefUntil'[t] = now
        /\ \A t \in Sessions, v \in Workers : invite'[t][v] = "PENDING" => invite[t][v] = "PENDING"
    BY <1>13 DEF RejectInvitation, TypeOK, request, invites
  <2> QED
    BY <2>1, <1>0, PrecedenceKept
<1>14. ASSUME NEW w \in Workers, NEW s \in Sessions, ExpireInvitation(s, w)
      PROVE  (\A t \in Sessions : Precedence(t))'
  <2>1. /\ now' = now /\ start' = start /\ preferred' = preferred /\ inviteUntil' = inviteUntil
        /\ \A t \in Sessions : prefUntil'[t] = prefUntil[t] \/ prefUntil'[t] = now
        /\ \A t \in Sessions, v \in Workers : invite'[t][v] = "PENDING" => invite[t][v] = "PENDING"
    BY <1>14 DEF ExpireInvitation, TypeOK, request, invites
  <2> QED
    BY <2>1, <1>0, PrecedenceKept
<1>15. ASSUME NEW w \in Workers, NEW b \in Bookings, Decline(w, b)
      PROVE  (\A s \in Sessions : Precedence(s))'
  <2>1. /\ now' = now /\ start' = start /\ preferred' = preferred /\ inviteUntil' = inviteUntil
        /\ \A t \in Sessions : prefUntil'[t] = prefUntil[t] \/ prefUntil'[t] = now
        /\ \A t \in Sessions, v \in Workers : invite'[t][v] = "PENDING" => invite[t][v] = "PENDING"
    BY <1>15 DEF Decline, TypeOK, request, invites
  <2> QED
    BY <2>1, <1>0, PrecedenceKept
<1>16. CASE UNCHANGED vars
  BY <1>16, <1>1 DEF vars, request, invites
<1> QED
  BY <1>1, <1>2, <1>3, <1>4, <1>5, <1>6, <1>7, <1>8, <1>9, <1>10, <1>11, <1>12, <1>13,
     <1>14, <1>15, <1>16
  DEF Next, ListEndedRequests, ListStaleInvitations, TellEndedRequest, StartWork, BeginMove,
      ClaimSession, BeginClaim, AcceptInvitation, ClaimPackage, request, invites

\* Every request that may keep others away has been opened.
LEMMA OpenedStep ==
  ASSUME TypeOK, RequestsOpened, [Next]_vars
  PROVE  RequestsOpened'
<1>0. now \in Int /\ now >= 0 /\ now # Never
  BY Times DEF Never
<1>1. ASSUME UNCHANGED <<bookable, status, preferred, prefUntil>>
      PROVE  RequestsOpened'
  BY <1>1 DEF RequestsOpened, TypeOK, request, invites
<1>2. ASSUME NEW b \in Bookings, Pay(b)
      PROVE  RequestsOpened'
  <2>1. /\ prefUntil' = Activated(b) /\ bookable' = bookable \cup {b}
        /\ UNCHANGED <<status, preferred>>
    BY <1>2 DEF Pay
  <2>2. \A s \in Sessions : Earliest(now + Window, start[s] - Buffer) # Never
    BY <1>0, Times, DispatchAssumption DEF Earliest, Never
  <2> QED
    BY <2>1, <2>2 DEF RequestsOpened, Activated
<1>3. ASSUME NEW b \in Bookings, CancelBooking(b)
      PROVE  RequestsOpened'
  BY <1>3, <1>0 DEF CancelBooking, Cancel, RequestsOpened, TypeOK, request, invites
<1>4. ASSUME NEW s \in Sessions, WithdrawInvitation(s)
      PROVE  RequestsOpened'
  BY <1>4, <1>0 DEF WithdrawInvitation, RequestsOpened, TypeOK, request, invites
<1>5. ASSUME NEW s \in Sessions, CancelSession(s)
      PROVE  RequestsOpened'
  BY <1>5, <1>0 DEF CancelSession, Cancel, RequestsOpened, TypeOK, request, invites
<1>6. ASSUME NEW s \in Sessions, FinishMove(s)
      PROVE  RequestsOpened'
  BY <1>6, <1>0 DEF FinishMove, RequestsOpened, TypeOK, request, invites
<1>7. ASSUME NEW s \in Sessions, StartWork(s)
      PROVE  RequestsOpened'
  BY <1>7, <1>0 DEF StartWork, RequestsOpened, TypeOK, request, invites
<1>8. ASSUME NEW s \in Sessions, CloseSession(s)
      PROVE  RequestsOpened'
  BY <1>8, <1>0 DEF CloseSession, RequestsOpened, TypeOK, request, invites
<1>9. ASSUME NEW w \in Workers, NEW b \in Bookings, Decline(w, b)
      PROVE  RequestsOpened'
  BY <1>9, <1>0 DEF Decline, RequestsOpened, TypeOK, request, invites
<1>10. CASE UNCHANGED vars
  BY <1>10, <1>1 DEF vars, request, invites
<1> QED
  BY <1>1, <1>2, <1>3, <1>4, <1>5, <1>6, <1>7, <1>8, <1>9, <1>10
  DEF Next, Tick, ListEndedRequests, ListStaleInvitations, FinishClaim, TellEndedRequest,
      CancelAssignment, Leave, UnassignByAdmin, BeginMove, SendInvitations,
      RejectInvitation, ExpireInvitation, ClaimSession, BeginClaim, AcceptInvitation,
      ClaimPackage, request, invites

\* What the customer is told of has ended, so that it is told once.
LEMMA ToldStep ==
  ASSUME TypeOK, ToldHasEnded, ToldOnce, [Next]_vars
  PROVE  (ToldHasEnded /\ ToldOnce)'
<1>0. /\ now \in Int /\ now >= 0 /\ now # Never
      /\ \A s \in Sessions : prefUntil[s] \in Int /\ told[s] \in Nat
  BY Times DEF Never, TypeOK
<1>1. ASSUME UNCHANGED <<now, prefNotified, noticing, prefUntil, told>>
      PROVE  (ToldHasEnded /\ ToldOnce)'
  BY <1>1 DEF ToldHasEnded, ToldOnce, TypeOK, request, invites
<1>2. ASSUME Tick
      PROVE  (ToldHasEnded /\ ToldOnce)'
  BY <1>2, <1>0 DEF Tick, ToldHasEnded, ToldOnce, TypeOK, request, invites
<1>3. ASSUME ListEndedRequests
      PROVE  (ToldHasEnded /\ ToldOnce)'
  BY <1>3, <1>0 DEF ListEndedRequests, ToldHasEnded, ToldOnce, TypeOK, request, invites
<1>4. ASSUME NEW b \in Bookings, Pay(b)
      PROVE  (ToldHasEnded /\ ToldOnce)'
  BY <1>4, <1>0 DEF Pay, Activated, ToldHasEnded, ToldOnce, TypeOK, request, invites
<1>5. ASSUME NEW s \in Sessions, TellEndedRequest(s)
      PROVE  (ToldHasEnded /\ ToldOnce)'
  BY <1>5, <1>0 DEF TellEndedRequest, ToldHasEnded, ToldOnce, TypeOK, request, invites
<1>6. ASSUME NEW s \in Sessions, WithdrawInvitation(s)
      PROVE  (ToldHasEnded /\ ToldOnce)'
  <2>1. CASE Invited(s) # {}
    BY <1>6, <2>1 DEF WithdrawInvitation, ToldHasEnded, ToldOnce, request
  <2>2. CASE Invited(s) = {}
    <3>1. /\ prefUntil[s] > now
          /\ prefUntil' = [prefUntil EXCEPT ![s] = now]
          /\ prefNotified' = prefNotified \cup {s}
          /\ told' = [told EXCEPT ![s] = @ + 1]
          /\ UNCHANGED <<now, noticing>>
      BY <1>6, <2>2 DEF WithdrawInvitation, RequestIsLive
    <3>2. told[s] = 0
      BY <3>1, <1>0 DEF ToldHasEnded
    <3> QED
      BY <3>1, <3>2, <1>0 DEF ToldHasEnded, ToldOnce, TypeOK
  <2> QED
    BY <2>1, <2>2
<1>7. ASSUME NEW s \in Sessions, FinishMove(s)
      PROVE  (ToldHasEnded /\ ToldOnce)'
  BY <1>7, <1>0 DEF FinishMove, ToldHasEnded, ToldOnce, TypeOK, request, invites
<1>8. ASSUME NEW w \in Workers, NEW b \in Bookings, Decline(w, b)
      PROVE  (ToldHasEnded /\ ToldOnce)'
  BY <1>8, <1>0 DEF Decline, ToldHasEnded, ToldOnce, TypeOK, request, invites
<1>9. CASE UNCHANGED vars
  BY <1>9, <1>1 DEF vars, request, invites
<1> QED
  BY <1>1, <1>2, <1>3, <1>4, <1>5, <1>6, <1>7, <1>8, <1>9
  DEF Next, ListStaleInvitations, CancelBooking, Cancel, FinishClaim, CancelAssignment,
      Leave, CancelSession, UnassignByAdmin, StartWork, CloseSession, BeginMove,
      SendInvitations, RejectInvitation, ExpireInvitation, ClaimSession, BeginClaim,
      AcceptInvitation, ClaimPackage, request, invites

\* The booking of a session that is not over is open.
LEMMA ActiveStep ==
  ASSUME TypeOK, ActiveIsOpen, [Next]_vars
  PROVE  ActiveIsOpen'
<1>1. ASSUME UNCHANGED <<status, open>>
      PROVE  ActiveIsOpen'
  BY <1>1 DEF ActiveIsOpen, Active, TypeOK
<1>2. ASSUME NEW b \in Bookings, CancelBooking(b)
      PROVE  ActiveIsOpen'
  BY <1>2 DEF CancelBooking, Cancel, ActiveIsOpen, Active, TypeOK
<1>3. ASSUME NEW s \in Sessions, CancelSession(s)
      PROVE  ActiveIsOpen'
  BY <1>3 DEF CancelSession, Cancel, ActiveIsOpen, Active, TypeOK
<1>4. ASSUME NEW s \in Sessions, StartWork(s)
      PROVE  ActiveIsOpen'
  BY <1>4 DEF StartWork, ActiveIsOpen, Active, TypeOK
<1>5. ASSUME NEW s \in Sessions, CloseSession(s)
      PROVE  ActiveIsOpen'
  BY <1>5 DEF CloseSession, ActiveIsOpen, Active, TypeOK
<1>6. CASE UNCHANGED vars
  BY <1>6, <1>1 DEF vars, request, invites
<1> QED
  BY <1>1, <1>2, <1>3, <1>4, <1>5, <1>6
  DEF Next, Tick, ListEndedRequests, ListStaleInvitations, Pay, Activated, FinishClaim,
      TellEndedRequest, WithdrawInvitation, CancelAssignment, Leave, UnassignByAdmin,
      FinishMove, BeginMove, SendInvitations, RejectInvitation, ExpireInvitation,
      ClaimSession, BeginClaim, AcceptInvitation, Decline, ClaimPackage, request, invites

\* Until the admin moves a session, no claim makes two sessions of a worker overlap.
LEMMA CalendarStep ==
  ASSUME TypeOK, ClaimsHold, CalendarKept, ClaimsNeverOverlap, [Next]_vars
  PROVE  (CalendarKept /\ ClaimsNeverOverlap)'
<1>1. ASSUME UNCHANGED <<moves, moving, claiming, holder, status, start>>
      PROVE  (CalendarKept /\ ClaimsNeverOverlap)'
  BY <1>1 DEF CalendarKept, ClaimsNeverOverlap, Overlap, Active, TypeOK
<1>2. ASSUME NEW b \in Bookings, CancelBooking(b)
      PROVE  (CalendarKept /\ ClaimsNeverOverlap)'
  BY <1>2, DispatchAssumption DEF CancelBooking, Cancel, CalendarKept, ClaimsNeverOverlap,
     Overlap, Active, TypeOK
<1>3. ASSUME NEW w \in Workers, FinishClaim(w)
      PROVE  (CalendarKept /\ ClaimsNeverOverlap)'
  <2>1. PICK taken \in SUBSET claiming[w].sessions :
            /\ holder' = [s \in Sessions |-> IF s \in taken THEN w ELSE holder[s]]
            /\ claiming' = [claiming EXCEPT ![w] = NoClaim]
            /\ UNCHANGED <<moves, moving, status, start>>
    BY <1>3, ClaimFinished
  <2>2. SUFFICES ASSUME moves = 0 PROVE (CalendarKept /\ ClaimsNeverOverlap)'
    BY <2>1 DEF CalendarKept, ClaimsNeverOverlap
  <2>3. \A s \in Sessions : /\ holder'[s] = IF s \in taken THEN w ELSE holder[s]
                            /\ Active(s)' = Active(s)
                            /\ \A t \in Sessions : Overlap(s, t)' = Overlap(s, t)
    BY <2>1 DEF Active, Overlap
  <2>4. CalendarKept'
    BY <2>1, <2>2, <2>3 DEF CalendarKept, TypeOK, NoClaim
  <2>5. ClaimsNeverOverlap'
    BY <2>1, <2>2, <2>3 DEF CalendarKept, ClaimsNeverOverlap, Overlap, TypeOK
  <2> QED
    BY <2>4, <2>5
<1>4. ASSUME NEW s \in Sessions, CancelAssignment(s)
      PROVE  (CalendarKept /\ ClaimsNeverOverlap)'
  BY <1>4, DispatchAssumption DEF CancelAssignment, Leave, CalendarKept, ClaimsNeverOverlap,
     Overlap, Active, TypeOK
<1>5. ASSUME NEW s \in Sessions, CancelSession(s)
      PROVE  (CalendarKept /\ ClaimsNeverOverlap)'
  BY <1>5, DispatchAssumption DEF CancelSession, Cancel, CalendarKept, ClaimsNeverOverlap,
     Overlap, Active, TypeOK
<1>6. ASSUME NEW s \in Sessions, UnassignByAdmin(s)
      PROVE  (CalendarKept /\ ClaimsNeverOverlap)'
  BY <1>6, DispatchAssumption DEF UnassignByAdmin, Leave, CalendarKept, ClaimsNeverOverlap,
     Overlap, Active, TypeOK
<1>7. ASSUME NEW s \in Sessions, FinishMove(s)
      PROVE  (CalendarKept /\ ClaimsNeverOverlap)'
  BY <1>7, DispatchAssumption DEF FinishMove, CalendarKept, ClaimsNeverOverlap, Overlap,
     Active, TypeOK
<1>8. ASSUME NEW s \in Sessions, StartWork(s)
      PROVE  (CalendarKept /\ ClaimsNeverOverlap)'
  BY <1>8, DispatchAssumption DEF StartWork, CalendarKept, ClaimsNeverOverlap, Overlap,
     Active, TypeOK
<1>9. ASSUME NEW s \in Sessions, CloseSession(s)
      PROVE  (CalendarKept /\ ClaimsNeverOverlap)'
  BY <1>9, DispatchAssumption DEF CloseSession, CalendarKept, ClaimsNeverOverlap, Overlap,
     Active, TypeOK
<1>10. ASSUME NEW s \in Sessions, NEW to \in StartTimes, BeginMove(s, to)
      PROVE  (CalendarKept /\ ClaimsNeverOverlap)'
  BY <1>10, DispatchAssumption DEF BeginMove, CalendarKept, ClaimsNeverOverlap, Overlap,
     Active, TypeOK
<1>11. ASSUME NEW w \in Workers, NEW s \in Sessions, ClaimSession(w, s)
      PROVE  (CalendarKept /\ ClaimsNeverOverlap)'
  <2>0. Begun(w)
    BY <1>11, ClaimBegun
  <2>1. PICK ss \in SUBSET Sessions, invited \in BOOLEAN :
            /\ \A s1 \in ss : /\ ~Conflict(w, s1)
                              /\ \A t \in ss : s1 # t => ~Overlap(s1, t)
            /\ claiming' = [claiming EXCEPT ![w] = [sessions |-> ss, invited |-> invited]]
            /\ UNCHANGED <<moves, moving, holder, status, start>>
    BY <2>0 DEF Begun, Claimable
  <2>2. ClaimsNeverOverlap'
    BY <2>1 DEF ClaimsNeverOverlap, Overlap, Active
  <2>3. CalendarKept'
    BY <2>1 DEF CalendarKept, Conflict, Overlap, Active, TypeOK
  <2> QED
    BY <2>2, <2>3
<1>12. ASSUME NEW w \in Workers, NEW s \in Sessions, AcceptInvitation(w, s)
      PROVE  (CalendarKept /\ ClaimsNeverOverlap)'
  <2>0. Begun(w)
    BY <1>12, ClaimBegun
  <2>1. PICK ss \in SUBSET Sessions, invited \in BOOLEAN :
            /\ \A s1 \in ss : /\ ~Conflict(w, s1)
                              /\ \A t \in ss : s1 # t => ~Overlap(s1, t)
            /\ claiming' = [claiming EXCEPT ![w] = [sessions |-> ss, invited |-> invited]]
            /\ UNCHANGED <<moves, moving, holder, status, start>>
    BY <2>0 DEF Begun, Claimable
  <2>2. ClaimsNeverOverlap'
    BY <2>1 DEF ClaimsNeverOverlap, Overlap, Active
  <2>3. CalendarKept'
    BY <2>1 DEF CalendarKept, Conflict, Overlap, Active, TypeOK
  <2> QED
    BY <2>2, <2>3
<1>13. ASSUME NEW w \in Workers, NEW b \in Bookings,
             NEW asked \in SUBSET {s \in Sessions : BookingOf[s] = b}, ClaimPackage(w, b, asked)
      PROVE  (CalendarKept /\ ClaimsNeverOverlap)'
  <2>0. Begun(w)
    BY <1>13, ClaimBegun
  <2>1. PICK ss \in SUBSET Sessions, invited \in BOOLEAN :
            /\ \A s1 \in ss : /\ ~Conflict(w, s1)
                              /\ \A t \in ss : s1 # t => ~Overlap(s1, t)
            /\ claiming' = [claiming EXCEPT ![w] = [sessions |-> ss, invited |-> invited]]
            /\ UNCHANGED <<moves, moving, holder, status, start>>
    BY <2>0 DEF Begun, Claimable
  <2>2. ClaimsNeverOverlap'
    BY <2>1 DEF ClaimsNeverOverlap, Overlap, Active
  <2>3. CalendarKept'
    BY <2>1 DEF CalendarKept, Conflict, Overlap, Active, TypeOK
  <2> QED
    BY <2>2, <2>3
<1>14. CASE UNCHANGED vars
  BY <1>14, <1>1 DEF vars, request, invites
<1> QED
  BY <1>1, <1>2, <1>3, <1>4, <1>5, <1>6, <1>7, <1>8, <1>9, <1>10, <1>11, <1>12, <1>13, <1>14
  DEF Next, Tick, ListEndedRequests, ListStaleInvitations, Pay, Activated, TellEndedRequest,
      WithdrawInvitation, SendInvitations, RejectInvitation, ExpireInvitation, Decline,
      request, invites

-----------------------------------------------------------------------------
(* The theorems.                                                           *)

\* The initial states satisfy it.
LEMMA InitHolds ==
  ASSUME Init
  PROVE  IInv
<1>1. /\ CashBookings \subseteq Bookings /\ NoWorker \notin Workers
      /\ Horizon \in Nat /\ MaxMoves \in Nat /\ Window \in Int /\ Window > 0
      /\ Buffer \in Int /\ Buffer > 0 /\ Duration \in Int
      /\ \A t \in StartTimes : t \in Int /\ t > 0
  BY DispatchAssumption
<1>2. start \in [Sessions -> StartTimes] /\ \A s \in Sessions : BookingOf[s] \in Bookings
  BY DEF Init, Bookings
<1>3. Never \in Int /\ Never < 0 /\ 0 - Buffer > Never
  BY <1>1 DEF Never
<1>4. \A s \in Sessions : /\ Earliest(Window, start[s] - Buffer) \in Int
                          /\ Earliest(Window, start[s] - Buffer) # Never
                          /\ Earliest(Window, start[s] - Buffer) <= start[s] - Buffer
  BY <1>1, <1>2, <1>3 DEF Earliest
<1>5. TypeOK
  <2>1. /\ now \in Clock /\ moves \in 0..MaxMoves /\ told \in [Sessions -> Nat]
        /\ inviteUntil \in [Sessions -> Int]
    BY <1>1, <1>3 DEF Init, Clock
  <2>2. prefUntil \in [Sessions -> Int]
    BY <1>3, <1>4 DEF Init
  <2>3. /\ invite \in [Sessions -> [Workers -> Invitation]]
        /\ holder \in [Sessions -> Workers \cup {NoWorker}]
        /\ claiming \in [Workers -> [sessions : SUBSET Sessions, invited : BOOLEAN]]
        /\ moving \in [Sessions -> [to : StartTimes \cup {Never}, pending : SUBSET Workers]]
    BY DEF Init, Invitation, NoClaim, NoMove
  <2> QED
    BY <1>1, <1>2, <2>1, <2>2, <2>3 DEF Init, TypeOK
<1>6. MovesKnow /\ ClaimsHold /\ InvitationsSettled /\ InvitedIsBookable
  BY DEF Init, MovesKnow, ClaimsHold, InvitationsSettled, InvitedIsBookable, NoClaim
<1>7. AnswerDueInTime /\ OnePrecedence
  <2>1. \A s \in Sessions : Invited(s) = {}
    BY DEF Init, Invited, InvitationIsLive
  <2>2. \A s \in Sessions : prefUntil[s] > now => prefUntil[s] <= start[s] - Buffer
    BY <1>3, <1>4 DEF Init
  <2> QED
    BY <2>1, <2>2 DEF AnswerDueInTime, OnePrecedence, RequestIsLive
<1>8. RequestsOpened /\ ToldHasEnded /\ ToldOnce /\ ActiveIsOpen
  BY <1>2, <1>4 DEF Init, RequestsOpened, ToldHasEnded, ToldOnce, ActiveIsOpen
<1>9. CalendarKept /\ ClaimsNeverOverlap
  BY DEF Init, CalendarKept, ClaimsNeverOverlap, NoClaim
<1> QED
  BY <1>5, <1>6, <1>7, <1>8, <1>9 DEF IInv

\* The conjuncts of IInv hold each other up: every step keeps all of them.
LEMMA IInvKept ==
  ASSUME IInv, [Next]_vars
  PROVE  IInv'
<1>1. TypeOK' /\ MovesKnow' /\ ClaimsHold' /\ InvitationsSettled' /\ InvitedIsBookable'
  BY TypeStep, MovesStep, ClaimsStep, SettledStep, BookableStep DEF IInv
<1>2. \A s \in Sessions : Precedence(s)
  BY DEF IInv, AnswerDueInTime, OnePrecedence, Precedence
<1>3. \A s \in Sessions : Precedence(s)'
  BY <1>2, PrecedenceStep DEF IInv
<1>4. AnswerDueInTime' /\ OnePrecedence'
  BY <1>3 DEF AnswerDueInTime, OnePrecedence, Precedence
<1>5. RequestsOpened' /\ ToldHasEnded' /\ ToldOnce' /\ ActiveIsOpen'
  BY OpenedStep, ToldStep, ActiveStep DEF IInv
<1>6. CalendarKept' /\ ClaimsNeverOverlap'
  BY CalendarStep DEF IInv
<1> QED
  BY <1>1, <1>4, <1>5, <1>6 DEF IInv

\* The inductive invariant of claims, invitations, requests and moves.
THEOREM Invariance == Spec => []IInv
<1>1. Init => IInv
  BY InitHolds
<1>2. IInv /\ [Next]_vars => IInv'
  BY IInvKept
<1> QED
  BY <1>1, <1>2, PTL DEF Spec

\* Whatever the order of claims, answers, withdrawals, expiries and moves, a session that
\* is taken keeps no open invitation, precedence ends in time, and only one is in force.
THEOREM InvitationsAreSafe == Spec => []InvitationsSafe
<1>1. IInv => InvitationsSafe
  BY DEF IInv, InvitationsSafe
<1> QED
  BY <1>1, Invariance, PTL

\* However many workers and sessions: as long as the admin moves nothing, no interleaving
\* of claims gives a worker two sessions at the same time.
THEOREM NoOverlap == Spec => []ClaimsNeverOverlap
<1>1. IInv => ClaimsNeverOverlap
  BY DEF IInv
<1> QED
  BY <1>1, Invariance, PTL

\* Refusal, withdrawal and the notice job together tell the customer once at most.
THEOREM HeardOnce == Spec => []ToldOnce
<1>1. IInv => ToldOnce
  BY DEF IInv
<1> QED
  BY <1>1, Invariance, PTL

\* The job board and the list of sessions offer what the claim then accepts.
LEMMA OfferHolds ==
  ASSUME IInv
  PROVE  OfferedIsClaimable
<1> SUFFICES ASSUME NEW w \in Workers, NEW s \in Sessions
             PROVE  /\ Listed(w, s) => ClaimState(w, s) = "OPEN"
                    /\ ClaimState(w, s) = "OPEN" /\ BookingOf[s] \in bookable =>
                          Claimable(w, s) /\ CanTake(w, s, FALSE)
  BY DEF OfferedIsClaimable
<1>1. /\ now \in Int /\ now >= 0 /\ start[s] \in Int /\ prefUntil[s] \in Int
      /\ Never < now
  BY Times DEF IInv, Never
<1>2. Listed(w, s) => ClaimState(w, s) = "OPEN"
  <2> SUFFICES ASSUME Listed(w, s) PROVE ClaimState(w, s) = "OPEN"
    OBVIOUS
  <2>1. ~ExclusiveToOther(s, w)
    BY <1>1 DEF Listed, ExclusiveToOther, RequestIsLive
  <2>2. ~Conflict(w, s)
    BY DEF Listed, Conflict
  <2> QED
    BY <1>1, <2>1, <2>2 DEF Listed, ClaimState
<1>3. ASSUME ClaimState(w, s) = "OPEN", BookingOf[s] \in bookable
      PROVE  Claimable(w, s) /\ CanTake(w, s, FALSE)
  <2>1. /\ holder[s] = NoWorker /\ ~ExclusiveToOther(s, w) /\ ~Conflict(w, s)
        /\ Invited(s) = {} \/ w \in Invited(s)
        /\ status[s] = "PENDING" /\ ~(start[s] <= now) /\ BookingOf[s] \in open
    BY <1>3 DEF ClaimState
  <2> QED
    BY <1>1, <1>3, <2>1 DEF Claimable, ValidForSchedule, CanTake
<1> QED
  BY <1>2, <1>3

\* What the app shows as open, to accept or to leave, is.
LEMMA ShownHolds ==
  ASSUME IInv
  PROVE  ShownOpenIsOpen
<1> SUFFICES ASSUME NEW s \in Sessions
             PROVE  /\ \A w \in Workers :
                          ShownInvitation(w, s) = "PENDING" /\ ~Conflict(w, s) => Claimable(w, s)
                    /\ CanCancel(s) => BookingOf[s] \in open /\ start[s] - now >= CancelLead
  BY DEF ShownOpenIsOpen
<1>1. /\ now \in Int /\ start[s] \in Int /\ inviteUntil[s] \in Int
      /\ Buffer \in Int /\ Buffer > 0
  BY Times DEF IInv
<1>2. ASSUME NEW w \in Workers, ShownInvitation(w, s) = "PENDING", ~Conflict(w, s)
      PROVE  Claimable(w, s)
  <2>1. /\ invite[s][w] = "PENDING" /\ ~(inviteUntil[s] <= now)
        /\ status[s] = "PENDING" /\ BookingOf[s] \in open
    BY <1>2 DEF ShownInvitation
  <2>2. w \in Invited(s)
    BY <1>1, <2>1 DEF Invited, InvitationIsLive
  <2>3. start[s] > now
    BY <1>1, <2>1, <2>2 DEF IInv, AnswerDueInTime
  <2>4. BookingOf[s] \in bookable /\ holder[s] = NoWorker
    BY <2>1 DEF IInv, InvitedIsBookable, InvitationsSettled
  <2> QED
    BY <1>2, <2>1, <2>3, <2>4 DEF Claimable, ValidForSchedule
<1>3. ASSUME CanCancel(s)
      PROVE  BookingOf[s] \in open /\ start[s] - now >= CancelLead
  <2>1. CancelLead \in Int
    BY DispatchAssumption
  <2>2. BookingOf[s] \in open
    BY <1>3 DEF CanCancel, IInv, ActiveIsOpen, Active
  <2> QED
    BY <1>1, <1>3, <2>1, <2>2 DEF CanCancel
<1> QED
  BY <1>2, <1>3

\* No worker is offered what the server would then refuse at once.
THEOREM OffersAreGood == Spec => []OffersHold
<1>1. IInv => OffersHold
  BY OfferHolds, ShownHolds DEF OffersHold
<1> QED
  BY <1>1, Invariance, PTL

\* Who may take a session in a step.
RefusalRespected ==
    \A s \in Sessions :
        holder[s] = NoWorker /\ holder'[s] # NoWorker =>
            /\ preferred[BookingOf[s]] \notin {NoWorker, holder'[s]} =>
                  prefUntil[s] # Never /\ prefUntil[s] <= now
            /\ Invited(s) # {} => holder'[s] \in Invited(s)

\* Only the last step of a claim gives a session to a worker, and it looks again at the
\* request and at the invitations.
LEMMA RefusalStep ==
  ASSUME IInv, [Next]_vars
  PROVE  RefusalRespected
<1>1. ASSUME UNCHANGED <<holder>>
      PROVE  RefusalRespected
  BY <1>1 DEF RefusalRespected, TypeOK, IInv
<1>2. ASSUME NEW b \in Bookings, CancelBooking(b)
      PROVE  RefusalRespected
  BY <1>2 DEF CancelBooking, Cancel, RefusalRespected, TypeOK, IInv
<1>3. ASSUME NEW w \in Workers, FinishClaim(w)
      PROVE  RefusalRespected
  <2>1. PICK taken \in SUBSET claiming[w].sessions :
            /\ \A s \in taken : CanTake(w, s, claiming[w].invited)
            /\ holder' = [s \in Sessions |-> IF s \in taken THEN w ELSE holder[s]]
    BY <1>3, ClaimFinished DEF IInv
  <2>2. TypeOK /\ ClaimsHold /\ RequestsOpened
    BY DEF IInv
  <2> SUFFICES ASSUME NEW s \in Sessions, holder[s] = NoWorker, holder'[s] # NoWorker
               PROVE  /\ preferred[BookingOf[s]] \notin {NoWorker, holder'[s]} =>
                            prefUntil[s] # Never /\ prefUntil[s] <= now
                      /\ Invited(s) # {} => holder'[s] \in Invited(s)
    BY DEF RefusalRespected
  <2>3. s \in taken /\ holder'[s] = w
    BY <2>1
  <2>4. Invited(s) # {} => w \in Invited(s)
    BY <2>1, <2>3 DEF CanTake, Invited
  <2>5. ASSUME preferred[BookingOf[s]] \notin {NoWorker, w}
        PROVE  prefUntil[s] # Never /\ prefUntil[s] <= now
    <3>1. now \in Int /\ prefUntil[s] \in Int
      BY <2>2, Times
    <3>2. status[s] = "PENDING" /\ BookingOf[s] \in bookable
      BY <2>2, <2>3 DEF ClaimsHold
    <3>3. ~(prefUntil[s] > now)
      BY <2>1, <2>3, <2>5 DEF CanTake, ExclusiveToOther, RequestIsLive
    <3> QED
      BY <2>2, <2>5, <3>1, <3>2, <3>3 DEF RequestsOpened
  <2> QED
    BY <2>3, <2>4, <2>5
<1>4. ASSUME NEW s \in Sessions, CancelAssignment(s)
      PROVE  RefusalRespected
  BY <1>4 DEF CancelAssignment, Leave, RefusalRespected, TypeOK, IInv
<1>5. ASSUME NEW s \in Sessions, CancelSession(s)
      PROVE  RefusalRespected
  BY <1>5 DEF CancelSession, Cancel, RefusalRespected, TypeOK, IInv
<1>6. ASSUME NEW s \in Sessions, UnassignByAdmin(s)
      PROVE  RefusalRespected
  BY <1>6 DEF UnassignByAdmin, Leave, RefusalRespected, TypeOK, IInv
<1>7. ASSUME NEW s \in Sessions, CloseSession(s)
      PROVE  RefusalRespected
  BY <1>7, InvitesClosed DEF RefusalRespected, TypeOK, IInv
<1>8. CASE UNCHANGED vars
  BY <1>8, <1>1 DEF vars, request, invites
<1> QED
  BY <1>1, <1>2, <1>3, <1>4, <1>5, <1>6, <1>7, <1>8
  DEF Next, Tick, ListEndedRequests, ListStaleInvitations, Pay, Activated, TellEndedRequest,
      WithdrawInvitation, FinishMove, StartWork, BeginMove, SendInvitations,
      RejectInvitation, ExpireInvitation, ClaimSession, BeginClaim, AcceptInvitation,
      Decline, ClaimPackage, request, invites

\* Nobody takes a session before the preferred worker's request was opened and is over, nor
\* past the workers whose invitation is open.
THEOREM RefusalFirst == Spec => FirstRefusal
<1>1. IInv /\ [Next]_vars => RefusalRespected
  BY RefusalStep
<1>2. IInv /\ [Next]_vars =>
        [\A s \in Sessions :
            holder[s] = NoWorker /\ holder'[s] # NoWorker =>
                /\ preferred[BookingOf[s]] \notin {NoWorker, holder'[s]} =>
                      prefUntil[s] # Never /\ prefUntil[s] <= now
                /\ Invited(s) # {} => holder'[s] \in Invited(s)]_vars
  BY <1>1 DEF RefusalRespected
<1> QED
  BY <1>2, Invariance, PTL DEF Spec, FirstRefusal

=============================================================================
