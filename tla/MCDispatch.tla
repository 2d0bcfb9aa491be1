---------------------------- MODULE MCDispatch ----------------------------
(***************************************************************************)
(* Instances of Dispatch for TLC, and what the messages of the code say of *)
(* a worker's calendar.                                                    *)
(***************************************************************************)
EXTENDS Dispatch, TLC

CONSTANTS s1, s2, s3

\* A booking of two sessions and one of a single session, paid in cash.
MCBookingOf == s1 :> "b1" @@ s2 :> "b2" @@ s3 :> "b1"
MCCash == {"b2"}

\* Bounds of the run: only the first booking has a preferred worker and
\* invitations (the second is there to clash with it), only its first session is
\* invited to and moved, and at most two steps are under way that end later, one
\* of them a job of the scheduler.
UnderWay ==
    Cardinality({w \in Workers : claiming[w] # NoClaim})
        + Cardinality({s \in Sessions : moving[s] # NoMove})
        + Cardinality(expiring) + Cardinality(noticing)

Bounds ==
    /\ preferred["b2"] = NoWorker /\ start[s2] = 2 /\ start[s3] = 3
    /\ \A w \in Workers : invite[s2][w] = "none" /\ invite[s3][w] = "none"
    /\ s3 \in prefNotified => prefUntil[s3] = prefUntil[s1]
    /\ Cardinality({s \in Sessions : ~Active(s)}) <= 2
    /\ Cardinality(expiring) + Cardinality(noticing) <= 1 /\ UnderWay <= 2

Symmetry == Permutations(Workers)
-----------------------------------------------------------------------------
\* "You already have another session that overlaps this time" (the refusal of a
\* claim) and "the new time overlaps other work of the worker" (the refusal of a
\* reschedule).  Each reads the other's sessions before the other has written.
NoDoubleBooking ==
    \A s, t \in Sessions :
        s # t /\ holder[s] # NoWorker /\ holder[s] = holder[t] /\ Active(s) /\ Active(t)
            => ~Overlap(s, t)
=============================================================================
