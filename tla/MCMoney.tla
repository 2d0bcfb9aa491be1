------------------------------ MODULE MCMoney ------------------------------
(***************************************************************************)
(* Components whose liveness is checked, in one run: `active` tells which  *)
(* of them moves, so that their states add up instead of multiplying.      *)
(* The top-ups and the payment of BankTransfers share no state either,     *)
(* except the wallet's credits, which are kept by key.                     *)
(***************************************************************************)
EXTENDS MCPayout, BankTransfers, ChatSocket

CONSTANTS t1

VARIABLE active

Modes == {"topups", "creation", "payment", "socket", "payouts"}

\* Top-ups share nothing but the limit of pending ones: one is paid, all are created.
TopupsMove ==
    /\ \A t \in Topups \ {t1} : topup'[t] = "NONE" /\ t \notin creating'
    /\ UNCHANGED <<payment, booking>>
CreationMoves == UNCHANGED <<payment, booking, sent, answers>>
PaymentMoves == UNCHANGED <<topup, creating>>

MoneyInit == active \in Modes /\ BankInit /\ SocketInit /\ Init

MoneyNext ==
    /\ UNCHANGED active
    /\ \/ /\ BankNext /\ UNCHANGED <<socketVars, vars>>
          /\ \/ active = "topups" /\ TopupsMove
             \/ active = "creation" /\ CreationMoves
             \/ active = "payment" /\ PaymentMoves
       \/ active = "socket" /\ SocketNext /\ UNCHANGED <<bankVars, vars>>
       \/ active = "payouts" /\ Next /\ UNCHANGED <<bankVars, socketVars>>

moneyVars == <<active, bankVars, socketVars, vars>>

-----------------------------------------------------------------------------
\* The fairness of the components, while they move.
TopupStep(step) == active = "topups" /\ step /\ UNCHANGED <<active, socketVars, vars>>
SocketStep(step) == active = "socket" /\ step /\ UNCHANGED <<active, bankVars, vars>>
PayoutStep(step) == active = "payouts" /\ step /\ UNCHANGED <<active, bankVars, socketVars>>

MoneyFairness ==
    /\ \A t \in Topups :
          WF_moneyVars(TopupStep(ExpiryJob(t))) /\ WF_moneyVars(TopupStep(TimePasses(t)))
    /\ \A d \in Devices :
          /\ WF_moneyVars(SocketStep(Handlers(d)))
          /\ WF_moneyVars(SocketStep(CloseIfUnauthenticated(d) \/ CloseWhenTokenExpires(d)))
    /\ \A c \in Callers : WF_moneyVars(PayoutStep(Own(c))) /\ WF_moneyVars(PayoutStep(PayOSStep(c)))
    /\ \A r \in Requests :
          /\ SF_moneyVars(PayoutStep(\E c \in Callers : Refresh(c, r)))
          /\ SF_moneyVars(PayoutStep(\E c \in Callers : call[c].req = r /\ Ask(c)))
          /\ SF_moneyVars(PayoutStep(\E c \in Callers :
                              call[c].req = r /\ (StillPending(c) \/ Apply(c))))
          /\ SF_moneyVars(PayoutStep(\E c \in Callers :
                              call[c].req = r /\ (Conclude(c) \/ Flag(c))))
          /\ WF_moneyVars(PayoutStep(Tick(r)))

MoneySpec == MoneyInit /\ [][MoneyNext]_moneyVars /\ MoneyFairness
=============================================================================
