------------------------------ MODULE MCPayout ------------------------------
(***************************************************************************)
(* Instances of Payout for TLC.  A request is named by its amount.         *)
(***************************************************************************)
EXTENDS Payout

Amounts == [r \in Requests |-> r]

\* Processes may work on a withdrawal together, but not with overlapping submissions.
NoOverlap == gap = {}

-----------------------------------------------------------------------------
\* "Refund the wallet only when it is certain that the money has not left"
\* (the money principle at the top of withdraw_service).
RefundOnlyIfCertain ==
    \A r \in Requests : status[r] = "FAILED" => payos[r] \notin {"pending", "paid"}
=============================================================================
