------------------------------ MODULE MoneyMove ------------------------------
(***************************************************************************)
(* What a withdrawal promises, whatever happens to the calls that carry it *)
(* out: its amount leaves the wallet once, and then either reaches the     *)
(* bank account or comes back to the wallet, never both and neither twice. *)
(***************************************************************************)
EXTENDS Integers

CONSTANTS
    Requests,   \* withdrawals of one wallet
    Amount,     \* what each of them asks for
    Funds       \* what the wallet holds at first

VARIABLES
    balance,    \* the wallet
    place       \* where the amount of each request is

Init ==
    /\ balance = Funds
    /\ place = [r \in Requests |-> "wallet"]

Hold(r) ==
    /\ place[r] = "wallet" /\ balance >= Amount[r]
    /\ place' = [place EXCEPT ![r] = "held"]
    /\ balance' = balance - Amount[r]

Send(r) ==
    /\ place[r] = "held"
    /\ place' = [place EXCEPT ![r] = "bank"]
    /\ UNCHANGED balance

Return(r) ==
    /\ place[r] = "held"
    /\ place' = [place EXCEPT ![r] = "returned"]
    /\ balance' = balance + Amount[r]

Next == \E r \in Requests : Hold(r) \/ Send(r) \/ Return(r)

Spec == Init /\ [][Next]_<<balance, place>>
=============================================================================
