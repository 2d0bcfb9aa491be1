--------------------------- MODULE Payout_proofs ---------------------------
(***************************************************************************)
(* Theorems about Payout, for any number of withdrawals, of amounts and of *)
(* processes.                                                              *)
(***************************************************************************)
EXTENDS Payout, FiniteSetTheorems, TLAPS

-----------------------------------------------------------------------------
(* The inductive invariant *)

Untouched(r) == payos[r] = "none" /\ r \notin wire

\* c is between the start of a submission of r and the end of it, or about to
\* refund r for another reason than a payout that failed at PayOS.
Busy(c, r) ==
    /\ call[c].req = r
    /\ \/ call[c].at \in {"count", "call", "sent", "accepted", "answered"}
       \/ call[c].at = "conclude" /\ call[c].answer = "FAILED" /\ payos[r] # "failed"

CallersKnow ==
    \A c \in Callers :
        /\ call[c].at = "idle" <=> call[c].req = NoRequest
        /\ call[c].at \in {"answered", "polled"} =>
              /\ call[c].answer = "FAILED" => payos[call[c].req] = "failed"
              /\ call[c].answer = "SUCCESS" => payos[call[c].req] = "paid"
        /\ call[c].at = "conclude" =>
              /\ call[c].answer \in {"SUCCESS", "FAILED"}
              /\ call[c].answer = "SUCCESS" => payos[call[c].req] = "paid"

\* Before the first attempt is counted nothing has been sent.
CountedBeforeSent ==
    \A r \in Requests : submitted[r] = 0 =>
        /\ Untouched(r)
        /\ \A c \in Callers : call[c].req = r =>
              call[c].at \notin {"call", "sent", "accepted", "answered"}

OneSubmission ==
    \A r \in Requests \ gap : \A c, d \in Callers :
        Busy(c, r) /\ Busy(d, r) => c = d

\* A submission that takes itself for the first one is.
FirstIsFirst ==
    \A r \in Requests \ gap : \A c \in Callers : call[c].req = r =>
        /\ call[c].at = "call" /\ submitted[r] <= 1 => Untouched(r)
        /\ call[c].at = "sent" /\ call[c].first => Untouched(r)
        /\ call[c].at = "answered" /\ call[c].answer = "REJECTED" /\ call[c].first
              => Untouched(r)
        /\ call[c].at = "conclude" /\ call[c].answer = "FAILED" /\ payos[r] # "failed"
              => Untouched(r)

NewUnused ==
    \A r \in Requests : status[r] = "NEW" =>
        submitted[r] = 0 /\ \A c \in Callers : call[c].req # r

IInv ==
    /\ TypeOK
    /\ CallersKnow
    /\ CountedBeforeSent
    /\ OneSubmission
    /\ FirstIsFirst
    /\ NewUnused
    /\ SuccessMeansPaid
    /\ RefundMeansUnpaid

-----------------------------------------------------------------------------
(* Types *)

LEMMA AmountsAreNat == \A r \in Requests : Amount[r] \in Nat
  BY AmountAssumption

LEMMA RequestOfCaller ==
  ASSUME TypeOK, CallersKnow, NEW c \in Callers, call[c].at # "idle"
  PROVE  call[c].req \in Requests
  BY DEF TypeOK, Calls, CallersKnow

\* A caller may move on, with or without an answer.
LEMMA CallStaysTyped ==
  ASSUME TypeOK, NEW c \in Callers, NEW step \in Steps
  PROVE  /\ [call EXCEPT ![c].at = step] \in [Callers -> Calls]
         /\ \A a \in Answers :
              [call EXCEPT ![c].at = step, ![c].answer = a] \in [Callers -> Calls]
         /\ \A b \in BOOLEAN :
              [call EXCEPT ![c].at = step, ![c].first = b] \in [Callers -> Calls]
<1>1. call \in [Callers -> Calls] /\ call[c] \in Calls
  BY DEF TypeOK
<1>2. [call[c] EXCEPT !.at = step] \in Calls
  BY <1>1 DEF Calls
<1>3. ASSUME NEW a \in Answers
      PROVE  [call[c] EXCEPT !.at = step, !.answer = a] \in Calls
  BY <1>1 DEF Calls
<1>4. ASSUME NEW b \in BOOLEAN
      PROVE  [call[c] EXCEPT !.at = step, !.first = b] \in Calls
  BY <1>1 DEF Calls
<1> QED
  BY <1>1, <1>2, <1>3, <1>4

LEMMA MovesTyped ==
  ASSUME TypeOK, NEW c \in Callers
  PROVE  /\ Leave(c) => call' \in [Callers -> Calls]
         /\ \A step \in Steps : Go(c, step) => call' \in [Callers -> Calls]
         /\ \A step \in Steps, a \in Answers :
              GoWith(c, step, a) => call' \in [Callers -> Calls]
<1>1. Idle \in Calls
  BY DEF Idle, Calls, Steps, Answers
<1>2. Leave(c) => call' \in [Callers -> Calls]
  BY <1>1 DEF Leave, TypeOK
<1>3. ASSUME NEW step \in Steps, Go(c, step)
      PROVE  call' \in [Callers -> Calls]
  BY <1>3, CallStaysTyped DEF Go
<1>4. ASSUME NEW step \in Steps, NEW a \in Answers, GoWith(c, step, a)
      PROVE  call' \in [Callers -> Calls]
  BY <1>4, CallStaysTyped DEF GoWith
<1> QED
  BY <1>2, <1>3, <1>4

LEMMA TypeStep ==
  ASSUME TypeOK, CallersKnow, [Next]_vars
  PROVE  TypeOK'
<1> USE DEF At
<1>1. ASSUME NEW c \in Callers, NEW r \in Requests, Create(c, r)
      PROVE  TypeOK'
  <2>1. call' \in [Callers -> Calls]
    BY <1>1 DEF Create, RequestWithdraw, TypeOK, Idle, Calls, Steps, Answers
  <2>2. balance' \in Nat
    BY <1>1, AmountsAreNat, FundsAssumption DEF Create, RequestWithdraw, TypeOK
  <2> QED
    BY <1>1, <2>1, <2>2 DEF Create, RequestWithdraw, TypeOK
<1>2. ASSUME NEW c \in Callers, NEW r \in Requests, Refresh(c, r)
      PROVE  TypeOK'
  <2>1. call' \in [Callers -> Calls]
    BY <1>2 DEF Refresh, TypeOK, Idle, Calls, Steps, Answers
  <2> QED
    BY <1>2, <2>1 DEF Refresh, TypeOK, rowVars
<1>3. ASSUME NEW c \in Callers, SkipClosed(c)
      PROVE  TypeOK'
  <2>1. call' \in [Callers -> Calls]
    BY <1>3, MovesTyped DEF SkipClosed
  <2> QED
    BY <1>3, <2>1 DEF SkipClosed, TypeOK, rowVars
<1>4. ASSUME NEW c \in Callers, StartSubmit(c)
      PROVE  TypeOK'
  <2>1. call' \in [Callers -> Calls]
    BY <1>4, MovesTyped DEF StartSubmit, Steps
  <2>2. call[c].req \in Requests
    BY <1>4, RequestOfCaller DEF StartSubmit
  <2> QED
    BY <1>4, <2>1, <2>2 DEF StartSubmit, TypeOK, rowVars
<1>5. ASSUME NEW c \in Callers, Undecrypted(c)
      PROVE  TypeOK'
  <2>1. call' \in [Callers -> Calls]
    BY <1>5, MovesTyped DEF Undecrypted, Steps, Answers
  <2>2. call[c].req \in Requests
    BY <1>5, RequestOfCaller DEF Undecrypted
  <2> QED
    BY <1>5, <2>1, <2>2 DEF Undecrypted, TypeOK, rowVars
<1>6. ASSUME NEW c \in Callers, Count(c)
      PROVE  TypeOK'
  <2>1. call' \in [Callers -> Calls]
    BY <1>6, MovesTyped DEF Count, Steps
  <2>2. (IF submitted[call[c].req] = 0 THEN 1 ELSE 2) \in 0..2
    BY <1>6 DEF Count
  <2>3. submitted' \in [Requests -> 0..2]
    BY <1>6, <2>2 DEF Count, TypeOK
  <2> QED
    BY <1>6, <2>1, <2>2, <2>3 DEF Count, TypeOK
<1>7. ASSUME NEW c \in Callers, CallPayOS(c)
      PROVE  TypeOK'
  <2>1. call' \in [Callers -> Calls]
    BY <1>7, CallStaysTyped DEF CallPayOS, TypeOK, First, Steps
  <2> QED
    BY <1>7, <2>1 DEF CallPayOS, TypeOK, rowVars
<1>8. ASSUME NEW c \in Callers, Accept(c)
      PROVE  TypeOK'
  <2>1. call' \in [Callers -> Calls]
    BY <1>8, MovesTyped DEF Accept, Steps
  <2> QED
    BY <1>8, <2>1 DEF Accept, TypeOK, Receive, rowVars
<1>9. ASSUME NEW c \in Callers, Answer(c)
      PROVE  TypeOK'
  <2>1. call' \in [Callers -> Calls]
    BY <1>9, MovesTyped DEF Answer, Report, Steps, Answers
  <2> QED
    BY <1>9, <2>1 DEF Answer, TypeOK, rowVars
<1>10. ASSUME NEW c \in Callers, Refuse(c)
      PROVE  TypeOK'
  <2>1. call' \in [Callers -> Calls]
    BY <1>10, MovesTyped DEF Refuse, Steps, Answers
  <2> QED
    BY <1>10, <2>1 DEF Refuse, TypeOK, rowVars
<1>11. ASSUME NEW c \in Callers, Lost(c)
      PROVE  TypeOK'
  <2>1. call' \in [Callers -> Calls]
    BY <1>11, MovesTyped DEF Lost, Steps, Answers
  <2>2. call[c].req \in Requests
    BY <1>11, RequestOfCaller DEF Lost
  <2> QED
    BY <1>11, <2>1, <2>2 DEF Lost, TypeOK, rowVars
<1>12. ASSUME NEW c \in Callers, Rejected(c)
      PROVE  TypeOK'
  <2>1. call' \in [Callers -> Calls]
    BY <1>12, MovesTyped DEF Rejected, Steps, Answers
  <2> QED
    BY <1>12, <2>1 DEF Rejected, TypeOK, rowVars
<1>13. ASSUME NEW c \in Callers, Unknown(c)
      PROVE  TypeOK'
  <2>1. call' \in [Callers -> Calls]
    BY <1>13, MovesTyped DEF Unknown
  <2> QED
    BY <1>13, <2>1 DEF Unknown, TypeOK
<1>14. ASSUME NEW c \in Callers, Ask(c)
      PROVE  TypeOK'
  <2>1. call' \in [Callers -> Calls]
    BY <1>14, MovesTyped DEF Ask, Report, Steps, Answers
  <2> QED
    BY <1>14, <2>1 DEF Ask, TypeOK, rowVars
<1>15. ASSUME NEW c \in Callers, StillPending(c)
      PROVE  TypeOK'
  <2>1. call' \in [Callers -> Calls]
    BY <1>15, MovesTyped DEF StillPending, Steps, Answers
  <2> QED
    BY <1>15, <2>1 DEF StillPending, TypeOK, rowVars
<1>16. ASSUME NEW c \in Callers, Apply(c)
      PROVE  TypeOK'
  <2>1. call' \in [Callers -> Calls]
    BY <1>16, MovesTyped DEF Apply, Steps, Answers
  <2>2. payoutId' \in [Requests -> BOOLEAN]
    BY <1>16 DEF Apply, TypeOK
  <2> QED
    BY <1>16, <2>1, <2>2 DEF Apply, TypeOK
<1>17. ASSUME NEW c \in Callers, Conclude(c)
      PROVE  TypeOK'
  <2>1. call' \in [Callers -> Calls]
    BY <1>17, MovesTyped DEF Conclude
  <2>2. call[c].req \in Requests
    BY <1>17, RequestOfCaller DEF Conclude
  <2>3. balance' \in Nat
    BY <1>17, <2>2, AmountsAreNat DEF Conclude, Finalize, BalanceAfter, TypeOK
  <2>4. status' \in [Requests -> {"NEW", "PROCESSING", "SUCCESS", "FAILED"}]
    BY <1>17 DEF Conclude, Finalize, BalanceAfter, TypeOK, CallersKnow
  <2> QED
    BY <1>17, <2>1, <2>2, <2>3, <2>4 DEF Conclude, TypeOK, Finalize, BalanceAfter
<1>18. ASSUME NEW c \in Callers, Flag(c)
      PROVE  TypeOK'
  <2>1. call' \in [Callers -> Calls]
    BY <1>18, MovesTyped DEF Flag
  <2>2. review' \in [Requests -> BOOLEAN]
    BY <1>18 DEF Flag, TypeOK
  <2> QED
    BY <1>18, <2>1, <2>2 DEF Flag, TypeOK
<1>19. ASSUME NEW c \in Callers, Crash(c)
      PROVE  TypeOK'
  <2>1. call' \in [Callers -> Calls]
    BY <1>19, MovesTyped DEF Crash
  <2>2. call[c].req \in Requests
    BY <1>19, RequestOfCaller DEF Crash
  <2> QED
    BY <1>19, <2>1, <2>2 DEF Crash, TypeOK, rowVars
<1>20. ASSUME NEW r \in Requests, Straggle(r)
      PROVE  TypeOK'
  BY <1>20 DEF Straggle, TypeOK, Receive, rowVars
<1>21. ASSUME NEW r \in Requests, Vanish(r)
      PROVE  TypeOK'
  BY <1>21 DEF Vanish, TypeOK, rowVars
<1>22. ASSUME NEW r \in Requests, NEW outcome \in {"paid", "failed"}, BankDecides(r, outcome)
      PROVE  TypeOK'
  BY <1>22 DEF BankDecides, TypeOK, rowVars
<1>23. ASSUME NEW r \in Requests, Resolve(r)
      PROVE  TypeOK'
  <2>1. call' \in [Callers -> Calls]
    BY <1>23 DEF Resolve, TypeOK
  <2>2. balance' \in Nat
    BY <1>23, AmountsAreNat DEF Resolve, Finalize, BalanceAfter, TypeOK
  <2>3. status' \in [Requests -> {"NEW", "PROCESSING", "SUCCESS", "FAILED"}]
    BY <1>23 DEF Resolve, Finalize, BalanceAfter, TypeOK
  <2> QED
    BY <1>23, <2>1, <2>2, <2>3 DEF Resolve, TypeOK, Finalize, BalanceAfter
<1>24. ASSUME NEW r \in Requests, Tick(r)
      PROVE  TypeOK'
  BY <1>24 DEF Tick, TypeOK
<1>25. CASE UNCHANGED vars
  BY <1>25 DEF vars, rowVars, TypeOK
<1> QED
  BY <1>1, <1>2, <1>3, <1>4, <1>5, <1>6, <1>7, <1>8, <1>9, <1>10, <1>11, <1>12,
      <1>13, <1>14, <1>15, <1>16, <1>17, <1>18, <1>19, <1>20, <1>21, <1>22,
      <1>23, <1>24, <1>25  DEF Next, Own, PayOSStep, RequestStep

-----------------------------------------------------------------------------
(* The invariant is inductive *)

\* What a caller has heard stays true: a payout that ended does not change.
LEMMA KnowStep ==
  ASSUME IInv, TypeOK', [Next]_vars
  PROVE  CallersKnow'
<1> USE RequestsAssumption
    DEF IInv, TypeOK, Calls, Steps, Answers, At, Go, GoWith, Leave, Idle,
        Open, rowVars, CallersKnow
<1>1. ASSUME NEW c \in Callers, NEW r \in Requests, Create(c, r) PROVE CallersKnow'
  BY <1>1 DEF Create, RequestWithdraw
<1>2. ASSUME NEW c \in Callers, NEW r \in Requests, Refresh(c, r) PROVE CallersKnow'
  BY <1>2 DEF Refresh
<1>3. ASSUME NEW c \in Callers, SkipClosed(c) PROVE CallersKnow'
  BY <1>3 DEF SkipClosed
<1>4. ASSUME NEW c \in Callers, StartSubmit(c) PROVE CallersKnow'
  BY <1>4 DEF StartSubmit, Others, InSubmission, Submitting
<1>5. ASSUME NEW c \in Callers, Undecrypted(c) PROVE CallersKnow'
  BY <1>5 DEF Undecrypted, Others, InSubmission, Submitting
<1>6. ASSUME NEW c \in Callers, Count(c) PROVE CallersKnow'
  BY <1>6 DEF Count
<1>7. ASSUME NEW c \in Callers, CallPayOS(c) PROVE CallersKnow'
  BY <1>7 DEF CallPayOS, First
<1>8. ASSUME NEW c \in Callers, Accept(c) PROVE CallersKnow'
  BY <1>8 DEF Accept, Receive
<1>9. ASSUME NEW c \in Callers, Answer(c) PROVE CallersKnow'
  BY <1>9 DEF Answer, Report
<1>10. ASSUME NEW c \in Callers, Refuse(c) PROVE CallersKnow'
  BY <1>10 DEF Refuse
<1>11. ASSUME NEW c \in Callers, Lost(c) PROVE CallersKnow'
  BY <1>11 DEF Lost
<1>12. ASSUME NEW c \in Callers, Rejected(c) PROVE CallersKnow'
  BY <1>12 DEF Rejected
<1>13. ASSUME NEW c \in Callers, Unknown(c) PROVE CallersKnow'
  BY <1>13 DEF Unknown
<1>14. ASSUME NEW c \in Callers, Ask(c) PROVE CallersKnow'
  BY <1>14 DEF Ask, Report
<1>15. ASSUME NEW c \in Callers, StillPending(c) PROVE CallersKnow'
  BY <1>15 DEF StillPending
<1>16. ASSUME NEW c \in Callers, Apply(c) PROVE CallersKnow'
  BY <1>16 DEF Apply
<1>17. ASSUME NEW c \in Callers, Conclude(c) PROVE CallersKnow'
  BY <1>17 DEF Conclude, Finalize, BalanceAfter, StillProcessing
<1>18. ASSUME NEW c \in Callers, Flag(c) PROVE CallersKnow'
  BY <1>18 DEF Flag
<1>19. ASSUME NEW c \in Callers, Crash(c) PROVE CallersKnow'
  BY <1>19 DEF Crash
<1>20. ASSUME NEW r \in Requests, Straggle(r) PROVE CallersKnow'
  BY <1>20 DEF Straggle, Receive
<1>21. ASSUME NEW r \in Requests, Vanish(r) PROVE CallersKnow'
  BY <1>21 DEF Vanish
<1>22. ASSUME NEW r \in Requests, Resolve(r) PROVE CallersKnow'
  BY <1>22 DEF Resolve, Finalize, BalanceAfter, StillProcessing, InSubmission, Submitting
<1>23. ASSUME NEW r \in Requests, Tick(r) PROVE CallersKnow'
  BY <1>23 DEF Tick
<1>24. ASSUME NEW r \in Requests, NEW outcome \in {"paid", "failed"},
             BankDecides(r, outcome)
      PROVE  CallersKnow'
  BY <1>24 DEF BankDecides
<1>25. CASE UNCHANGED vars
  BY <1>25 DEF vars
<1> QED
  BY <1>1, <1>2, <1>3, <1>4, <1>5, <1>6, <1>7, <1>8, <1>9, <1>10, <1>11, <1>12,
      <1>13, <1>14, <1>15, <1>16, <1>17, <1>18, <1>19, <1>20, <1>21, <1>22,
      <1>23, <1>24, <1>25 DEF Next, Own, PayOSStep, RequestStep

\* Nothing is sent before the attempt is counted.
LEMMA CountedStep ==
  ASSUME IInv, TypeOK', [Next]_vars
  PROVE  CountedBeforeSent'
<1> USE RequestsAssumption
    DEF IInv, TypeOK, Calls, Steps, Answers, At, Go, GoWith, Leave, Idle,
        Open, rowVars, CountedBeforeSent, NewUnused, CallersKnow, Untouched
<1>1. ASSUME NEW c \in Callers, NEW r \in Requests, Create(c, r) PROVE CountedBeforeSent'
  BY <1>1 DEF Create, RequestWithdraw
<1>2. ASSUME NEW c \in Callers, NEW r \in Requests, Refresh(c, r) PROVE CountedBeforeSent'
  BY <1>2 DEF Refresh
<1>3. ASSUME NEW c \in Callers, SkipClosed(c) PROVE CountedBeforeSent'
  BY <1>3 DEF SkipClosed
<1>4. ASSUME NEW c \in Callers, StartSubmit(c) PROVE CountedBeforeSent'
  BY <1>4 DEF StartSubmit, Others, InSubmission, Submitting
<1>5. ASSUME NEW c \in Callers, Undecrypted(c) PROVE CountedBeforeSent'
  BY <1>5 DEF Undecrypted, Others, InSubmission, Submitting
<1>6. ASSUME NEW c \in Callers, Count(c) PROVE CountedBeforeSent'
  BY <1>6 DEF Count
<1>7. ASSUME NEW c \in Callers, CallPayOS(c) PROVE CountedBeforeSent'
  BY <1>7 DEF CallPayOS, First
<1>8. ASSUME NEW c \in Callers, Accept(c) PROVE CountedBeforeSent'
  BY <1>8 DEF Accept, Receive
<1>9. ASSUME NEW c \in Callers, Answer(c) PROVE CountedBeforeSent'
  BY <1>9 DEF Answer, Report
<1>10. ASSUME NEW c \in Callers, Refuse(c) PROVE CountedBeforeSent'
  BY <1>10 DEF Refuse
<1>11. ASSUME NEW c \in Callers, Lost(c) PROVE CountedBeforeSent'
  BY <1>11 DEF Lost
<1>12. ASSUME NEW c \in Callers, Rejected(c) PROVE CountedBeforeSent'
  BY <1>12 DEF Rejected
<1>13. ASSUME NEW c \in Callers, Unknown(c) PROVE CountedBeforeSent'
  BY <1>13 DEF Unknown
<1>14. ASSUME NEW c \in Callers, Ask(c) PROVE CountedBeforeSent'
  BY <1>14 DEF Ask, Report
<1>15. ASSUME NEW c \in Callers, StillPending(c) PROVE CountedBeforeSent'
  BY <1>15 DEF StillPending
<1>16. ASSUME NEW c \in Callers, Apply(c) PROVE CountedBeforeSent'
  BY <1>16 DEF Apply
<1>17. ASSUME NEW c \in Callers, Conclude(c) PROVE CountedBeforeSent'
  BY <1>17 DEF Conclude, Finalize, BalanceAfter, StillProcessing
<1>18. ASSUME NEW c \in Callers, Flag(c) PROVE CountedBeforeSent'
  BY <1>18 DEF Flag
<1>19. ASSUME NEW c \in Callers, Crash(c) PROVE CountedBeforeSent'
  BY <1>19 DEF Crash
<1>20. ASSUME NEW r \in Requests, Straggle(r) PROVE CountedBeforeSent'
  BY <1>20 DEF Straggle, Receive
<1>21. ASSUME NEW r \in Requests, Vanish(r) PROVE CountedBeforeSent'
  BY <1>21 DEF Vanish
<1>22. ASSUME NEW r \in Requests, Resolve(r) PROVE CountedBeforeSent'
  BY <1>22 DEF Resolve, Finalize, BalanceAfter, StillProcessing, InSubmission, Submitting
<1>23. ASSUME NEW r \in Requests, Tick(r) PROVE CountedBeforeSent'
  BY <1>23 DEF Tick
<1>24. ASSUME NEW r \in Requests, NEW outcome \in {"paid", "failed"},
             BankDecides(r, outcome)
      PROVE  CountedBeforeSent'
  BY <1>24 DEF BankDecides
<1>25. CASE UNCHANGED vars
  BY <1>25 DEF vars
<1> QED
  BY <1>1, <1>2, <1>3, <1>4, <1>5, <1>6, <1>7, <1>8, <1>9, <1>10, <1>11, <1>12,
      <1>13, <1>14, <1>15, <1>16, <1>17, <1>18, <1>19, <1>20, <1>21, <1>22,
      <1>23, <1>24, <1>25 DEF Next, Own, PayOSStep, RequestStep

\* A second submission starts only by making the request a gap.
LEMMA OneStep ==
  ASSUME IInv, TypeOK', [Next]_vars
  PROVE  OneSubmission'
<1> USE RequestsAssumption
    DEF IInv, TypeOK, Calls, Steps, Answers, At, Go, GoWith, Leave, Idle,
        Open, rowVars, OneSubmission, CallersKnow, Busy, Untouched
<1>1. ASSUME NEW c \in Callers, NEW r \in Requests, Create(c, r) PROVE OneSubmission'
  BY <1>1 DEF Create, RequestWithdraw
<1>2. ASSUME NEW c \in Callers, NEW r \in Requests, Refresh(c, r) PROVE OneSubmission'
  BY <1>2 DEF Refresh
<1>3. ASSUME NEW c \in Callers, SkipClosed(c) PROVE OneSubmission'
  BY <1>3 DEF SkipClosed
<1>4. ASSUME NEW c \in Callers, StartSubmit(c) PROVE OneSubmission'
  BY <1>4 DEF StartSubmit, Others, InSubmission, Submitting
<1>5. ASSUME NEW c \in Callers, Undecrypted(c) PROVE OneSubmission'
  BY <1>5 DEF Undecrypted, Others, InSubmission, Submitting
<1>6. ASSUME NEW c \in Callers, Count(c) PROVE OneSubmission'
  BY <1>6 DEF Count
<1>7. ASSUME NEW c \in Callers, CallPayOS(c) PROVE OneSubmission'
  BY <1>7 DEF CallPayOS, First
<1>8. ASSUME NEW c \in Callers, Accept(c) PROVE OneSubmission'
  BY <1>8 DEF Accept, Receive
<1>9. ASSUME NEW c \in Callers, Answer(c) PROVE OneSubmission'
  BY <1>9 DEF Answer, Report
<1>10. ASSUME NEW c \in Callers, Refuse(c) PROVE OneSubmission'
  BY <1>10 DEF Refuse
<1>11. ASSUME NEW c \in Callers, Lost(c) PROVE OneSubmission'
  BY <1>11 DEF Lost
<1>12. ASSUME NEW c \in Callers, Rejected(c) PROVE OneSubmission'
  <2>1. call[c].at = "answered" /\ \A d \in Callers \ {c} : call'[d] = call[d]
    BY <1>12 DEF Rejected
  <2>2. call'[c].req = call[c].req
    BY <1>12 DEF Rejected
  <2>3. \A d \in Callers, r \in Requests : Busy(d, r)' => Busy(d, r)
    BY <1>12, <2>1, <2>2 DEF Rejected
  <2> QED
    BY <1>12, <2>3 DEF Rejected
<1>13. ASSUME NEW c \in Callers, Unknown(c) PROVE OneSubmission'
  BY <1>13 DEF Unknown
<1>14. ASSUME NEW c \in Callers, Ask(c) PROVE OneSubmission'
  BY <1>14 DEF Ask, Report
<1>15. ASSUME NEW c \in Callers, StillPending(c) PROVE OneSubmission'
  BY <1>15 DEF StillPending
<1>16. ASSUME NEW c \in Callers, Apply(c) PROVE OneSubmission'
  BY <1>16 DEF Apply
<1>17. ASSUME NEW c \in Callers, Conclude(c) PROVE OneSubmission'
  BY <1>17 DEF Conclude, Finalize, BalanceAfter, StillProcessing
<1>18. ASSUME NEW c \in Callers, Flag(c) PROVE OneSubmission'
  BY <1>18 DEF Flag
<1>19. ASSUME NEW c \in Callers, Crash(c) PROVE OneSubmission'
  BY <1>19 DEF Crash
<1>20. ASSUME NEW r \in Requests, Straggle(r) PROVE OneSubmission'
  BY <1>20 DEF Straggle, Receive
<1>21. ASSUME NEW r \in Requests, Vanish(r) PROVE OneSubmission'
  BY <1>21 DEF Vanish
<1>22. ASSUME NEW r \in Requests, Resolve(r) PROVE OneSubmission'
  BY <1>22 DEF Resolve, Finalize, BalanceAfter, StillProcessing, InSubmission, Submitting
<1>23. ASSUME NEW r \in Requests, Tick(r) PROVE OneSubmission'
  BY <1>23 DEF Tick
<1>24. ASSUME NEW r \in Requests, NEW outcome \in {"paid", "failed"},
             BankDecides(r, outcome)
      PROVE  OneSubmission'
  BY <1>24 DEF BankDecides
<1>25. CASE UNCHANGED vars
  BY <1>25 DEF vars
<1> QED
  BY <1>1, <1>2, <1>3, <1>4, <1>5, <1>6, <1>7, <1>8, <1>9, <1>10, <1>11, <1>12,
      <1>13, <1>14, <1>15, <1>16, <1>17, <1>18, <1>19, <1>20, <1>21, <1>22,
      <1>23, <1>24, <1>25 DEF Next, Own, PayOSStep, RequestStep

\* While a first submission is open nobody else can touch the request at PayOS.
LEMMA FirstStep ==
  ASSUME IInv, TypeOK', [Next]_vars
  PROVE  FirstIsFirst'
<1> USE RequestsAssumption
    DEF IInv, TypeOK, Calls, Steps, Answers, At, Go, GoWith, Leave, Idle,
        Open, rowVars, FirstIsFirst, OneSubmission, CountedBeforeSent,
        CallersKnow, Busy, Untouched
<1>1. ASSUME NEW c \in Callers, NEW r \in Requests, Create(c, r) PROVE FirstIsFirst'
  BY <1>1 DEF Create, RequestWithdraw
<1>2. ASSUME NEW c \in Callers, NEW r \in Requests, Refresh(c, r) PROVE FirstIsFirst'
  BY <1>2 DEF Refresh
<1>3. ASSUME NEW c \in Callers, SkipClosed(c) PROVE FirstIsFirst'
  BY <1>3 DEF SkipClosed
<1>4. ASSUME NEW c \in Callers, StartSubmit(c) PROVE FirstIsFirst'
  BY <1>4 DEF StartSubmit, Others, InSubmission, Submitting
<1>5. ASSUME NEW c \in Callers, Undecrypted(c) PROVE FirstIsFirst'
  BY <1>5 DEF Undecrypted, Others, InSubmission, Submitting
<1>6. ASSUME NEW c \in Callers, Count(c) PROVE FirstIsFirst'
  BY <1>6 DEF Count
<1>7. ASSUME NEW c \in Callers, CallPayOS(c) PROVE FirstIsFirst'
  BY <1>7 DEF CallPayOS, First
<1>8. ASSUME NEW c \in Callers, Accept(c) PROVE FirstIsFirst'
  BY <1>8 DEF Accept, Receive
<1>9. ASSUME NEW c \in Callers, Answer(c) PROVE FirstIsFirst'
  BY <1>9 DEF Answer, Report
<1>10. ASSUME NEW c \in Callers, Refuse(c) PROVE FirstIsFirst'
  BY <1>10 DEF Refuse
<1>11. ASSUME NEW c \in Callers, Lost(c) PROVE FirstIsFirst'
  BY <1>11 DEF Lost
<1>12. ASSUME NEW c \in Callers, Rejected(c) PROVE FirstIsFirst'
  BY <1>12 DEF Rejected
<1>13. ASSUME NEW c \in Callers, Unknown(c) PROVE FirstIsFirst'
  BY <1>13 DEF Unknown
<1>14. ASSUME NEW c \in Callers, Ask(c) PROVE FirstIsFirst'
  BY <1>14 DEF Ask, Report
<1>15. ASSUME NEW c \in Callers, StillPending(c) PROVE FirstIsFirst'
  BY <1>15 DEF StillPending
<1>16. ASSUME NEW c \in Callers, Apply(c) PROVE FirstIsFirst'
  BY <1>16 DEF Apply
<1>17. ASSUME NEW c \in Callers, Conclude(c) PROVE FirstIsFirst'
  BY <1>17 DEF Conclude, Finalize, BalanceAfter, StillProcessing
<1>18. ASSUME NEW c \in Callers, Flag(c) PROVE FirstIsFirst'
  BY <1>18 DEF Flag
<1>19. ASSUME NEW c \in Callers, Crash(c) PROVE FirstIsFirst'
  BY <1>19 DEF Crash
<1>20. ASSUME NEW r \in Requests, Straggle(r) PROVE FirstIsFirst'
  BY <1>20 DEF Straggle, Receive
<1>21. ASSUME NEW r \in Requests, Vanish(r) PROVE FirstIsFirst'
  BY <1>21 DEF Vanish
<1>22. ASSUME NEW r \in Requests, Resolve(r) PROVE FirstIsFirst'
  BY <1>22 DEF Resolve, Finalize, BalanceAfter, StillProcessing, InSubmission, Submitting
<1>23. ASSUME NEW r \in Requests, Tick(r) PROVE FirstIsFirst'
  BY <1>23 DEF Tick
<1>24. ASSUME NEW r \in Requests, NEW outcome \in {"paid", "failed"},
             BankDecides(r, outcome)
      PROVE  FirstIsFirst'
  BY <1>24 DEF BankDecides
<1>25. CASE UNCHANGED vars
  BY <1>25 DEF vars
<1> QED
  BY <1>1, <1>2, <1>3, <1>4, <1>5, <1>6, <1>7, <1>8, <1>9, <1>10, <1>11, <1>12,
      <1>13, <1>14, <1>15, <1>16, <1>17, <1>18, <1>19, <1>20, <1>21, <1>22,
      <1>23, <1>24, <1>25 DEF Next, Own, PayOSStep, RequestStep

\* Only existing requests are worked on.
LEMMA NewStep ==
  ASSUME IInv, TypeOK', [Next]_vars
  PROVE  NewUnused'
<1> USE RequestsAssumption
    DEF IInv, TypeOK, Calls, Steps, Answers, At, Go, GoWith, Leave, Idle,
        Open, rowVars, NewUnused, CallersKnow
<1>1. ASSUME NEW c \in Callers, NEW r \in Requests, Create(c, r) PROVE NewUnused'
  BY <1>1 DEF Create, RequestWithdraw
<1>2. ASSUME NEW c \in Callers, NEW r \in Requests, Refresh(c, r) PROVE NewUnused'
  BY <1>2 DEF Refresh
<1>3. ASSUME NEW c \in Callers, SkipClosed(c) PROVE NewUnused'
  BY <1>3 DEF SkipClosed
<1>4. ASSUME NEW c \in Callers, StartSubmit(c) PROVE NewUnused'
  BY <1>4 DEF StartSubmit, Others, InSubmission, Submitting
<1>5. ASSUME NEW c \in Callers, Undecrypted(c) PROVE NewUnused'
  BY <1>5 DEF Undecrypted, Others, InSubmission, Submitting
<1>6. ASSUME NEW c \in Callers, Count(c) PROVE NewUnused'
  BY <1>6 DEF Count
<1>7. ASSUME NEW c \in Callers, CallPayOS(c) PROVE NewUnused'
  BY <1>7 DEF CallPayOS, First
<1>8. ASSUME NEW c \in Callers, Accept(c) PROVE NewUnused'
  BY <1>8 DEF Accept, Receive
<1>9. ASSUME NEW c \in Callers, Answer(c) PROVE NewUnused'
  BY <1>9 DEF Answer, Report
<1>10. ASSUME NEW c \in Callers, Refuse(c) PROVE NewUnused'
  BY <1>10 DEF Refuse
<1>11. ASSUME NEW c \in Callers, Lost(c) PROVE NewUnused'
  BY <1>11 DEF Lost
<1>12. ASSUME NEW c \in Callers, Rejected(c) PROVE NewUnused'
  BY <1>12 DEF Rejected
<1>13. ASSUME NEW c \in Callers, Unknown(c) PROVE NewUnused'
  BY <1>13 DEF Unknown
<1>14. ASSUME NEW c \in Callers, Ask(c) PROVE NewUnused'
  BY <1>14 DEF Ask, Report
<1>15. ASSUME NEW c \in Callers, StillPending(c) PROVE NewUnused'
  BY <1>15 DEF StillPending
<1>16. ASSUME NEW c \in Callers, Apply(c) PROVE NewUnused'
  BY <1>16 DEF Apply
<1>17. ASSUME NEW c \in Callers, Conclude(c) PROVE NewUnused'
  BY <1>17 DEF Conclude, Finalize, BalanceAfter, StillProcessing
<1>18. ASSUME NEW c \in Callers, Flag(c) PROVE NewUnused'
  BY <1>18 DEF Flag
<1>19. ASSUME NEW c \in Callers, Crash(c) PROVE NewUnused'
  BY <1>19 DEF Crash
<1>20. ASSUME NEW r \in Requests, Straggle(r) PROVE NewUnused'
  BY <1>20 DEF Straggle, Receive
<1>21. ASSUME NEW r \in Requests, Vanish(r) PROVE NewUnused'
  BY <1>21 DEF Vanish
<1>22. ASSUME NEW r \in Requests, Resolve(r) PROVE NewUnused'
  BY <1>22 DEF Resolve, Finalize, BalanceAfter, StillProcessing, InSubmission, Submitting
<1>23. ASSUME NEW r \in Requests, Tick(r) PROVE NewUnused'
  BY <1>23 DEF Tick
<1>24. ASSUME NEW r \in Requests, NEW outcome \in {"paid", "failed"},
             BankDecides(r, outcome)
      PROVE  NewUnused'
  BY <1>24 DEF BankDecides
<1>25. CASE UNCHANGED vars
  BY <1>25 DEF vars
<1> QED
  BY <1>1, <1>2, <1>3, <1>4, <1>5, <1>6, <1>7, <1>8, <1>9, <1>10, <1>11, <1>12,
      <1>13, <1>14, <1>15, <1>16, <1>17, <1>18, <1>19, <1>20, <1>21, <1>22,
      <1>23, <1>24, <1>25 DEF Next, Own, PayOSStep, RequestStep

\* SUCCESS is concluded from an answer, or by the admin who looked it up.
LEMMA PaidStep ==
  ASSUME IInv, TypeOK', [Next]_vars
  PROVE  SuccessMeansPaid'
<1> USE RequestsAssumption
    DEF IInv, TypeOK, Calls, Steps, Answers, At, Go, GoWith, Leave, Idle,
        Open, rowVars, SuccessMeansPaid, CallersKnow
<1>1. ASSUME NEW c \in Callers, NEW r \in Requests, Create(c, r) PROVE SuccessMeansPaid'
  BY <1>1 DEF Create, RequestWithdraw
<1>2. ASSUME NEW c \in Callers, NEW r \in Requests, Refresh(c, r) PROVE SuccessMeansPaid'
  BY <1>2 DEF Refresh
<1>3. ASSUME NEW c \in Callers, SkipClosed(c) PROVE SuccessMeansPaid'
  BY <1>3 DEF SkipClosed
<1>4. ASSUME NEW c \in Callers, StartSubmit(c) PROVE SuccessMeansPaid'
  BY <1>4 DEF StartSubmit, Others, InSubmission, Submitting
<1>5. ASSUME NEW c \in Callers, Undecrypted(c) PROVE SuccessMeansPaid'
  BY <1>5 DEF Undecrypted, Others, InSubmission, Submitting
<1>6. ASSUME NEW c \in Callers, Count(c) PROVE SuccessMeansPaid'
  BY <1>6 DEF Count
<1>7. ASSUME NEW c \in Callers, CallPayOS(c) PROVE SuccessMeansPaid'
  BY <1>7 DEF CallPayOS, First
<1>8. ASSUME NEW c \in Callers, Accept(c) PROVE SuccessMeansPaid'
  BY <1>8 DEF Accept, Receive
<1>9. ASSUME NEW c \in Callers, Answer(c) PROVE SuccessMeansPaid'
  BY <1>9 DEF Answer, Report
<1>10. ASSUME NEW c \in Callers, Refuse(c) PROVE SuccessMeansPaid'
  BY <1>10 DEF Refuse
<1>11. ASSUME NEW c \in Callers, Lost(c) PROVE SuccessMeansPaid'
  BY <1>11 DEF Lost
<1>12. ASSUME NEW c \in Callers, Rejected(c) PROVE SuccessMeansPaid'
  BY <1>12 DEF Rejected
<1>13. ASSUME NEW c \in Callers, Unknown(c) PROVE SuccessMeansPaid'
  BY <1>13 DEF Unknown
<1>14. ASSUME NEW c \in Callers, Ask(c) PROVE SuccessMeansPaid'
  BY <1>14 DEF Ask, Report
<1>15. ASSUME NEW c \in Callers, StillPending(c) PROVE SuccessMeansPaid'
  BY <1>15 DEF StillPending
<1>16. ASSUME NEW c \in Callers, Apply(c) PROVE SuccessMeansPaid'
  BY <1>16 DEF Apply
<1>17. ASSUME NEW c \in Callers, Conclude(c) PROVE SuccessMeansPaid'
  BY <1>17 DEF Conclude, Finalize, BalanceAfter, StillProcessing
<1>18. ASSUME NEW c \in Callers, Flag(c) PROVE SuccessMeansPaid'
  BY <1>18 DEF Flag
<1>19. ASSUME NEW c \in Callers, Crash(c) PROVE SuccessMeansPaid'
  BY <1>19 DEF Crash
<1>20. ASSUME NEW r \in Requests, Straggle(r) PROVE SuccessMeansPaid'
  BY <1>20 DEF Straggle, Receive
<1>21. ASSUME NEW r \in Requests, Vanish(r) PROVE SuccessMeansPaid'
  BY <1>21 DEF Vanish
<1>22. ASSUME NEW r \in Requests, Resolve(r) PROVE SuccessMeansPaid'
  BY <1>22 DEF Resolve, Finalize, BalanceAfter, StillProcessing, InSubmission, Submitting
<1>23. ASSUME NEW r \in Requests, Tick(r) PROVE SuccessMeansPaid'
  BY <1>23 DEF Tick
<1>24. ASSUME NEW r \in Requests, NEW outcome \in {"paid", "failed"},
             BankDecides(r, outcome)
      PROVE  SuccessMeansPaid'
  BY <1>24 DEF BankDecides
<1>25. CASE UNCHANGED vars
  BY <1>25 DEF vars
<1> QED
  BY <1>1, <1>2, <1>3, <1>4, <1>5, <1>6, <1>7, <1>8, <1>9, <1>10, <1>11, <1>12,
      <1>13, <1>14, <1>15, <1>16, <1>17, <1>18, <1>19, <1>20, <1>21, <1>22,
      <1>23, <1>24, <1>25 DEF Next, Own, PayOSStep, RequestStep

\* A refund follows a failed payout, or a refused first submission that nobody
\* else overlaps.
LEMMA RefundStep ==
  ASSUME IInv, TypeOK', [Next]_vars
  PROVE  RefundMeansUnpaid'
<1> USE RequestsAssumption
    DEF IInv, TypeOK, Calls, Steps, Answers, At, Go, GoWith, Leave, Idle,
        Open, rowVars, RefundMeansUnpaid, OneSubmission, FirstIsFirst,
        CallersKnow, NewUnused, Busy, Untouched, InSubmission, Submitting
<1>1. ASSUME NEW c \in Callers, NEW r \in Requests, Create(c, r) PROVE RefundMeansUnpaid'
  BY <1>1 DEF Create, RequestWithdraw
<1>2. ASSUME NEW c \in Callers, NEW r \in Requests, Refresh(c, r) PROVE RefundMeansUnpaid'
  BY <1>2 DEF Refresh
<1>3. ASSUME NEW c \in Callers, SkipClosed(c) PROVE RefundMeansUnpaid'
  BY <1>3 DEF SkipClosed
<1>4. ASSUME NEW c \in Callers, StartSubmit(c) PROVE RefundMeansUnpaid'
  BY <1>4 DEF StartSubmit, Others, InSubmission, Submitting
<1>5. ASSUME NEW c \in Callers, Undecrypted(c) PROVE RefundMeansUnpaid'
  BY <1>5 DEF Undecrypted, Others, InSubmission, Submitting
<1>6. ASSUME NEW c \in Callers, Count(c) PROVE RefundMeansUnpaid'
  BY <1>6 DEF Count
<1>7. ASSUME NEW c \in Callers, CallPayOS(c) PROVE RefundMeansUnpaid'
  BY <1>7 DEF CallPayOS, First
<1>8. ASSUME NEW c \in Callers, Accept(c) PROVE RefundMeansUnpaid'
  BY <1>8 DEF Accept, Receive
<1>9. ASSUME NEW c \in Callers, Answer(c) PROVE RefundMeansUnpaid'
  BY <1>9 DEF Answer, Report
<1>10. ASSUME NEW c \in Callers, Refuse(c) PROVE RefundMeansUnpaid'
  BY <1>10 DEF Refuse
<1>11. ASSUME NEW c \in Callers, Lost(c) PROVE RefundMeansUnpaid'
  BY <1>11 DEF Lost
<1>12. ASSUME NEW c \in Callers, Rejected(c) PROVE RefundMeansUnpaid'
  BY <1>12 DEF Rejected
<1>13. ASSUME NEW c \in Callers, Unknown(c) PROVE RefundMeansUnpaid'
  BY <1>13 DEF Unknown
<1>14. ASSUME NEW c \in Callers, Ask(c) PROVE RefundMeansUnpaid'
  BY <1>14 DEF Ask, Report
<1>15. ASSUME NEW c \in Callers, StillPending(c) PROVE RefundMeansUnpaid'
  BY <1>15 DEF StillPending
<1>16. ASSUME NEW c \in Callers, Apply(c) PROVE RefundMeansUnpaid'
  BY <1>16 DEF Apply
<1>17. ASSUME NEW c \in Callers, Conclude(c) PROVE RefundMeansUnpaid'
  BY <1>17 DEF Conclude, Finalize, BalanceAfter, StillProcessing
<1>18. ASSUME NEW c \in Callers, Flag(c) PROVE RefundMeansUnpaid'
  BY <1>18 DEF Flag
<1>19. ASSUME NEW c \in Callers, Crash(c) PROVE RefundMeansUnpaid'
  BY <1>19 DEF Crash
<1>20. ASSUME NEW r \in Requests, Straggle(r) PROVE RefundMeansUnpaid'
  BY <1>20 DEF Straggle, Receive
<1>21. ASSUME NEW r \in Requests, Vanish(r) PROVE RefundMeansUnpaid'
  BY <1>21 DEF Vanish
<1>22. ASSUME NEW r \in Requests, Resolve(r) PROVE RefundMeansUnpaid'
  BY <1>22 DEF Resolve, Finalize, BalanceAfter, StillProcessing, InSubmission, Submitting
<1>23. ASSUME NEW r \in Requests, Tick(r) PROVE RefundMeansUnpaid'
  BY <1>23 DEF Tick
<1>24. ASSUME NEW r \in Requests, NEW outcome \in {"paid", "failed"},
             BankDecides(r, outcome)
      PROVE  RefundMeansUnpaid'
  BY <1>24 DEF BankDecides
<1>25. CASE UNCHANGED vars
  BY <1>25 DEF vars
<1> QED
  BY <1>1, <1>2, <1>3, <1>4, <1>5, <1>6, <1>7, <1>8, <1>9, <1>10, <1>11, <1>12,
      <1>13, <1>14, <1>15, <1>16, <1>17, <1>18, <1>19, <1>20, <1>21, <1>22,
      <1>23, <1>24, <1>25 DEF Next, Own, PayOSStep, RequestStep

LEMMA InitInv == Init => IInv
  BY RequestsAssumption, FundsAssumption
     DEF Init, IInv, TypeOK, Calls, Steps, Answers, Idle, CallersKnow,
         CountedBeforeSent, Untouched, OneSubmission, Busy, FirstIsFirst, NewUnused,
         SuccessMeansPaid, RefundMeansUnpaid

\* The invariant of which the safety properties are parts.
THEOREM Invariance == Spec => []IInv
<1>1. IInv /\ [Next]_vars => IInv'
  <2> SUFFICES ASSUME IInv, [Next]_vars PROVE IInv'
    OBVIOUS
  <2>1. TypeOK'
    BY TypeStep DEF IInv
  <2> QED
    BY <2>1, KnowStep, CountedStep, OneStep, FirstStep, NewStep, PaidStep, RefundStep
       DEF IInv
<1> QED
  BY <1>1, InitInv, PTL DEF Spec

-----------------------------------------------------------------------------
\* Every variable keeps its type; in particular the balance never goes below
\* zero (request_withdraw, admin_reject_withdraw).
THEOREM TypeCorrect == Spec => []TypeOK
<1>1. IInv => TypeOK
  BY DEF IInv
<1> QED
  BY <1>1, Invariance, PTL

\* _finalize writes SUCCESS only for a payout that PayOS has paid (SuccessMeansPaid).
THEOREM SuccessIsPaid == Spec => []SuccessMeansPaid
<1>1. IInv => SuccessMeansPaid
  BY DEF IInv
<1> QED
  BY <1>1, Invariance, PTL

\* submit_payout and refresh_withdraw give money back only if it has not left
\* and no call can still send it, for requests without a gap.
THEOREM RefundIsSafe == Spec => []RefundMeansUnpaid
<1>1. IInv => RefundMeansUnpaid
  BY DEF IInv
<1> QED
  BY <1>1, Invariance, PTL

-----------------------------------------------------------------------------
(* Refinement of MoneyMove *)

Places == [r \in Requests |-> Place(r)]

LEMMA SamePlaces ==
  ASSUME \A r \in Requests : Place(r)' = Place(r)
  PROVE  Places' = Places
  BY DEF Places

\* What changes neither the balance nor a status nor a payout moves no money.
LEMMA QuietStep ==
  ASSUME UNCHANGED <<balance, status, payos>>
  PROVE  UNCHANGED <<balance, Places>>
  BY SamePlaces DEF Place

\* A call that reaches PayOS for the first time leaves the amount held.
LEMMA ReceiveIsQuiet ==
  ASSUME IInv, NEW r \in Requests, status[r] # "NEW", Receive(r),
         UNCHANGED <<balance, status>>
  PROVE  UNCHANGED <<balance, Places>>
  BY SamePlaces DEF Receive, Place, IInv, TypeOK

\* A verdict that is true of the payout returns the amount or moves nothing.
LEMMA VerdictMoves ==
  ASSUME IInv, RefundMeansUnpaid', gap' = {}, NEW r \in Requests,
         NEW verdict \in {"SUCCESS", "FAILED"}, status[r] = "PROCESSING",
         verdict = "SUCCESS" => payos[r] = "paid",
         Finalize(r, verdict), UNCHANGED payos
  PROVE  Abstract!Return(r) \/ UNCHANGED <<balance, Places>>
<1>1. \A q \in Requests \ {r} : Place(q)' = Place(q)
  BY DEF Finalize, BalanceAfter, Place, IInv, TypeOK
<1>2. CASE verdict = "SUCCESS"
  <2>1. Place(r)' = Place(r)
    BY <1>2 DEF Finalize, BalanceAfter, Place, IInv, TypeOK
  <2> QED
    BY <1>1, <1>2, <2>1, SamePlaces DEF Finalize, BalanceAfter
<1>3. CASE verdict = "FAILED"
  <2>1. status'[r] = "FAILED" /\ payos'[r] # "paid" /\ payos[r] # "paid"
    BY <1>3 DEF Finalize, BalanceAfter, IInv, TypeOK, RefundMeansUnpaid
  <2>2. Place(r) = "held" /\ Place(r)' = "returned"
    BY <2>1 DEF Place
  <2>3. Places' = [Places EXCEPT ![r] = "returned"]
    BY <1>1, <2>2 DEF Places
  <2> QED
    BY <1>3, <2>2, <2>3 DEF Finalize, BalanceAfter, Abstract!Return, Places
<1> QED
  BY <1>2, <1>3

LEMMA MoveStep ==
  ASSUME IInv, IInv', gap = {}, gap' = {}, [Next]_vars
  PROVE  [Abstract!Next]_<<balance, Places>>
<1> USE DEF rowVars
<1>1. ASSUME NEW c \in Callers, NEW r \in Requests, Create(c, r)
      PROVE  Abstract!Hold(r)
  <2>1. payos[r] = "none"
    BY <1>1 DEF Create, RequestWithdraw, IInv, NewUnused, CountedBeforeSent, Untouched
  <2>2. Place(r) = "wallet" /\ Place(r)' = "held"
    BY <1>1, <2>1 DEF Create, RequestWithdraw, Place, IInv, TypeOK
  <2>3. \A q \in Requests \ {r} : Place(q)' = Place(q)
    BY <1>1 DEF Create, RequestWithdraw, Place, IInv, TypeOK
  <2>4. Places' = [Places EXCEPT ![r] = "held"]
    BY <2>2, <2>3 DEF Places
  <2>5. balance >= Amount[r]
    BY <1>1, AmountsAreNat, FundsAssumption DEF Create, RequestWithdraw, IInv, TypeOK
  <2> QED
    BY <1>1, <2>2, <2>4, <2>5 DEF Create, RequestWithdraw, Abstract!Hold, Places
<1>2. ASSUME NEW c \in Callers, NEW r \in Requests, Refresh(c, r)
      PROVE  UNCHANGED <<balance, Places>>
  BY <1>2, QuietStep DEF Refresh
<1>3. ASSUME NEW c \in Callers, Own(c), ~Conclude(c)
      PROVE  UNCHANGED <<balance, Places>>
  BY <1>3, QuietStep
     DEF Own, SkipClosed, StartSubmit, Undecrypted, Count, CallPayOS, Rejected,
         Unknown, Ask, StillPending, Apply, Flag
<1>4. ASSUME NEW c \in Callers, Conclude(c)
      PROVE  [Abstract!Next]_<<balance, Places>>
  <2> DEFINE r == call[c].req
  <2>1. r \in Requests /\ call[c].answer \in {"SUCCESS", "FAILED"}
        /\ (call[c].answer = "SUCCESS" => payos[r] = "paid")
    BY <1>4, RequestOfCaller DEF Conclude, At, IInv, CallersKnow
  <2>2. CASE StillProcessing(r)
    <3>1. Abstract!Return(r) \/ UNCHANGED <<balance, Places>>
      BY <1>4, <2>1, <2>2, VerdictMoves DEF Conclude, StillProcessing, IInv
    <3> QED
      BY <2>1, <3>1 DEF Abstract!Next
  <2>3. CASE ~StillProcessing(r)
    BY <1>4, <2>3, QuietStep DEF Conclude
  <2> QED
    BY <2>2, <2>3
<1>5. ASSUME NEW c \in Callers, PayOSStep(c)
      PROVE  UNCHANGED <<balance, Places>>
  <2>1. CASE Accept(c)
    <3>1. call[c].req \in Requests /\ status[call[c].req] # "NEW"
      BY <2>1, RequestOfCaller DEF Accept, At, IInv, NewUnused
    <3> QED
      BY <2>1, <3>1, ReceiveIsQuiet DEF Accept
  <2>2. CASE ~Accept(c)
    BY <1>5, <2>2, QuietStep DEF PayOSStep, Answer, Refuse, Lost
  <2> QED
    BY <2>1, <2>2
<1>6. ASSUME NEW c \in Callers, Crash(c)
      PROVE  UNCHANGED <<balance, Places>>
  BY <1>6, QuietStep DEF Crash
<1>7. ASSUME NEW r \in Requests, Straggle(r)
      PROVE  UNCHANGED <<balance, Places>>
  <2>1. status[r] # "NEW"
    BY <1>7 DEF Straggle, IInv, NewUnused, CountedBeforeSent, Untouched
  <2> QED
    BY <1>7, <2>1, ReceiveIsQuiet DEF Straggle
<1>8. ASSUME NEW r \in Requests, Vanish(r) \/ Tick(r)
      PROVE  UNCHANGED <<balance, Places>>
  BY <1>8, QuietStep DEF Vanish, Tick
<1>9. ASSUME NEW r \in Requests, NEW outcome \in {"paid", "failed"},
             BankDecides(r, outcome)
      PROVE  Abstract!Send(r) \/ UNCHANGED <<balance, Places>>
  <2>1. status[r] = "PROCESSING" /\ payos[r] = "pending"
    BY <1>9 DEF BankDecides, IInv, TypeOK, NewUnused, CountedBeforeSent, Untouched,
                SuccessMeansPaid, RefundMeansUnpaid
  <2>2. \A q \in Requests \ {r} : Place(q)' = Place(q)
    BY <1>9 DEF BankDecides, Place, IInv, TypeOK
  <2>3. payos'[r] = outcome /\ UNCHANGED <<balance, status>>
    BY <1>9 DEF BankDecides, IInv, TypeOK
  <2>4. Place(r) = "held"
    BY <2>1 DEF Place
  <2>5. CASE outcome = "paid"
    <3>1. Place(r)' = "bank"
      BY <2>1, <2>3, <2>5 DEF Place
    <3>2. Places' = [Places EXCEPT ![r] = "bank"]
      BY <2>2, <3>1 DEF Places
    <3> QED
      BY <2>3, <2>4, <3>2 DEF Abstract!Send, Places
  <2>6. CASE outcome = "failed"
    <3>1. Place(r)' = "held"
      BY <2>1, <2>3, <2>6 DEF Place
    <3> QED
      BY <2>2, <2>3, <2>4, <3>1, SamePlaces
  <2> QED
    BY <2>5, <2>6
<1>10. ASSUME NEW r \in Requests, Resolve(r)
       PROVE  Abstract!Return(r) \/ UNCHANGED <<balance, Places>>
  <2> DEFINE verdict == IF payos[r] = "paid" THEN "SUCCESS" ELSE "FAILED"
  <2>1. /\ verdict \in {"SUCCESS", "FAILED"}
        /\ verdict = "SUCCESS" => payos[r] = "paid"
        /\ status[r] = "PROCESSING" /\ Finalize(r, verdict) /\ UNCHANGED payos
    BY <1>10 DEF Resolve, StillProcessing
  <2> HIDE DEF verdict
  <2> QED
    BY <2>1, VerdictMoves DEF IInv
<1>11. CASE UNCHANGED vars
  BY <1>11, QuietStep DEF vars
<1> QED
  BY <1>1, <1>2, <1>3, <1>4, <1>5, <1>6, <1>7, <1>8, <1>9, <1>10, <1>11
     DEF Next, RequestStep, Abstract!Next

\* Withdrawals without a gap implement MoneyMove: the amount of each is taken
\* once, and then reaches the bank or comes back, not both.
THEOREM MovesEachAmountOnce == Spec /\ [](gap = {}) => MovesOnce
<1>1. Init => Abstract!Init
  BY DEF Init, Abstract!Init, Place
<1>2. IInv /\ IInv' /\ gap = {} /\ (gap = {})' /\ [Next]_vars
        => [Abstract!Next]_<<balance, [r \in Requests |-> Place(r)]>>
  BY MoveStep DEF Places
<1> QED
  BY <1>1, <1>2, Invariance, PTL DEF Spec, MovesOnce, Abstract!Spec

-----------------------------------------------------------------------------
(* The ledger *)

LedgerInvariant == LedgerBalanced /\ IsFiniteSet(Units(Taken))

\* The units of one request more.
LEMMA UnitsOfOneMore ==
  ASSUME NEW S \in SUBSET Requests, NEW r \in Requests \ S
  PROVE  /\ IsFiniteSet(Units(S)) <=> IsFiniteSet(Units(S \cup {r}))
         /\ IsFiniteSet(Units(S)) =>
              Cardinality(Units(S \cup {r})) = Cardinality(Units(S)) + Amount[r]
<1>1. PICK n \in Nat : n = Amount[r]
  BY AmountAssumption
<1> DEFINE Mine == {r} \X (1..n)
<1>2. IsFiniteSet(1..n) /\ Cardinality(1..n) = n
  <2>1. 1 \in Int /\ n \in Int /\ n >= 0
    BY <1>1
  <2>2. IsFiniteSet(1..n) /\ Cardinality(1..n) = IF 1 > n THEN 0 ELSE n - 1 + 1
    BY <2>1, FS_Interval
  <2> QED
    BY <2>1, <2>2
<1>3. IsFiniteSet({r}) /\ Cardinality({r}) = 1
  BY FS_Singleton
<1>4. IsFiniteSet(Mine) /\ Cardinality(Mine) = n
  <2>1. IsFiniteSet(Mine) /\ Cardinality(Mine) = Cardinality({r}) * Cardinality(1..n)
    BY <1>2, <1>3, FS_Product
  <2> QED
    BY <1>1, <1>2, <1>3, <2>1
<1>5. Units(S \cup {r}) = Units(S) \cup Mine
  BY <1>1 DEF Units
<1>6. Units(S) \cap Mine = {}
  BY DEF Units
<1> HIDE DEF Mine
<1>7. ASSUME IsFiniteSet(Units(S))
      PROVE  /\ IsFiniteSet(Units(S \cup {r}))
             /\ Cardinality(Units(S \cup {r})) = Cardinality(Units(S)) + Amount[r]
  <2>1. /\ IsFiniteSet(Units(S) \cup Mine)
        /\ Cardinality(Units(S) \cup Mine) =
             Cardinality(Units(S)) + Cardinality(Mine) - Cardinality(Units(S) \cap Mine)
    BY <1>4, <1>7, FS_Union
  <2>2. Cardinality(Units(S) \cap Mine) = 0
    BY <1>6, FS_EmptySet
  <2>3. Cardinality(Units(S)) \in Nat
    BY <1>7, FS_CardinalityType
  <2>4. Cardinality(Units(S \cup {r})) = Cardinality(Units(S)) + n - 0
    BY <1>4, <1>5, <2>1, <2>2
  <2>5. IsFiniteSet(Units(S \cup {r}))
    BY <1>5, <2>1
  <2>6. Cardinality(Units(S)) + n - 0 = Cardinality(Units(S)) + Amount[r]
    BY <1>1, <2>3
  <2> QED
    BY <2>4, <2>5, <2>6
<1>8. ASSUME IsFiniteSet(Units(S \cup {r}))
      PROVE  IsFiniteSet(Units(S))
  BY <1>5, <1>8, FS_Subset
<1> QED
  BY <1>7, <1>8

\* What a step does to the ledger: nothing, take an amount, keep it, or give it back.
LEMMA LedgerStep ==
  ASSUME IInv, [Next]_vars
  PROVE  \/ UNCHANGED <<balance, status>>
         \/ \E r \in Requests :
              /\ status[r] = "NEW" /\ status' = [status EXCEPT ![r] = "PROCESSING"]
              /\ balance' = balance - Amount[r]
         \/ \E r \in Requests :
              /\ status[r] = "PROCESSING" /\ status' = [status EXCEPT ![r] = "SUCCESS"]
              /\ UNCHANGED balance
         \/ \E r \in Requests :
              /\ status[r] = "PROCESSING" /\ status' = [status EXCEPT ![r] = "FAILED"]
              /\ balance' = balance + Amount[r]
<1> DEFINE Kept == UNCHANGED <<balance, status>>
           Takes(r) == /\ status[r] = "NEW" /\ status' = [status EXCEPT ![r] = "PROCESSING"]
                       /\ balance' = balance - Amount[r]
           Pays(r) == /\ status[r] = "PROCESSING" /\ status' = [status EXCEPT ![r] = "SUCCESS"]
                      /\ UNCHANGED balance
           Returns(r) == /\ status[r] = "PROCESSING" /\ status' = [status EXCEPT ![r] = "FAILED"]
                         /\ balance' = balance + Amount[r]
<1>1. ASSUME NEW c \in Callers, NEW r \in Requests, Create(c, r) PROVE Takes(r)
  BY <1>1 DEF Create, RequestWithdraw
<1>2. ASSUME NEW r \in Requests, NEW verdict \in {"SUCCESS", "FAILED"},
             StillProcessing(r), Finalize(r, verdict)
      PROVE  Pays(r) \/ Returns(r)
  BY <1>2 DEF StillProcessing, Finalize, BalanceAfter
<1>3. ASSUME NEW c \in Callers, Conclude(c)
      PROVE  Kept \/ \E r \in Requests : Pays(r) \/ Returns(r)
  <2>1. PICK r \in Requests : r = call[c].req
    BY <1>3, RequestOfCaller DEF Conclude, At, IInv
  <2>2. PICK verdict \in {"SUCCESS", "FAILED"} : verdict = call[c].answer
    BY <1>3 DEF Conclude, At, IInv, CallersKnow
  <2>3. CASE StillProcessing(r)
    BY <1>3, <1>2, <2>1, <2>2, <2>3 DEF Conclude
  <2>4. CASE ~StillProcessing(r)
    BY <1>3, <2>1, <2>4 DEF Conclude
  <2> QED
    BY <2>3, <2>4
<1>4. ASSUME NEW r \in Requests, Resolve(r) PROVE Pays(r) \/ Returns(r)
  <2>1. PICK verdict \in {"SUCCESS", "FAILED"} : Finalize(r, verdict)
    BY <1>4 DEF Resolve
  <2> QED
    BY <1>2, <1>4, <2>1 DEF Resolve
<1>5. ASSUME NEW c \in Callers, Own(c), ~Conclude(c) PROVE Kept
  BY <1>5 DEF Own, SkipClosed, StartSubmit, Undecrypted, Count, CallPayOS, Rejected, Unknown, Ask,
              StillPending, Apply, Flag, rowVars
<1>6. ASSUME NEW c \in Callers, PayOSStep(c) \/ Crash(c) PROVE Kept
  BY <1>6 DEF PayOSStep, Accept, Answer, Refuse, Lost, Crash, rowVars
<1>7. ASSUME NEW r \in Requests, RequestStep(r), ~Resolve(r), ~\E c \in Callers : Create(c, r)
      PROVE  Kept
  BY <1>7 DEF RequestStep, Refresh, Straggle, Vanish, BankDecides, Tick, rowVars
<1>8. ASSUME UNCHANGED vars PROVE Kept
  BY <1>8 DEF vars, rowVars
<1> HIDE DEF Kept, Takes, Pays, Returns
<1>9. Kept \/ \E r \in Requests : Takes(r) \/ Pays(r) \/ Returns(r)
  <2>1. CASE \E c \in Callers : Own(c)
    BY <1>3, <1>5, <2>1
  <2>2. CASE \E c \in Callers : PayOSStep(c) \/ Crash(c)
    BY <1>6, <2>2
  <2>3. CASE \E r \in Requests : RequestStep(r)
    <3>1. PICK r \in Requests : RequestStep(r)
      BY <2>3
    <3> QED
      BY <1>1, <1>4, <1>7, <3>1
  <2> QED
    BY <1>8, <2>1, <2>2, <2>3 DEF Next
<1> QED
  BY <1>9 DEF Kept, Takes, Pays, Returns

\* Each of the four keeps the sum.
LEMMA LedgerKept ==
  ASSUME IInv, LedgerInvariant, [Next]_vars
  PROVE  LedgerInvariant'
<1>1. /\ status \in [Requests -> {"NEW", "PROCESSING", "SUCCESS", "FAILED"}]
      /\ balance \in Nat /\ Funds \in Nat /\ \A r \in Requests : Amount[r] \in Nat
      /\ IsFiniteSet(Units(Taken)) /\ balance + Cardinality(Units(Taken)) = Funds
  BY AmountAssumption, FundsAssumption DEF IInv, TypeOK, LedgerInvariant, LedgerBalanced
<1>2. Cardinality(Units(Taken)) \in Nat
  BY <1>1, FS_CardinalityType
<1>3. PICK later : later = Taken'
  OBVIOUS
<1>4. Taken \subseteq Requests
  BY DEF Taken
<1>5. SUFFICES IsFiniteSet(Units(later)) /\ balance' + Cardinality(Units(later)) = Funds
  BY <1>3 DEF LedgerInvariant, LedgerBalanced, Units
<1>6. CASE UNCHANGED <<balance, status>>
  <2>1. later = Taken
    BY <1>3, <1>6 DEF Taken
  <2> QED
    BY <1>1, <1>6, <2>1
<1>7. ASSUME NEW r \in Requests, status[r] = "NEW", status' = [status EXCEPT ![r] = "PROCESSING"],
             balance' = balance - Amount[r]
      PROVE  IsFiniteSet(Units(later)) /\ balance' + Cardinality(Units(later)) = Funds
  <2>1. later = Taken \cup {r} /\ r \in Requests \ Taken
    BY <1>1, <1>3, <1>7 DEF Taken
  <2>2. /\ IsFiniteSet(Units(later))
        /\ Cardinality(Units(later)) = Cardinality(Units(Taken)) + Amount[r]
    BY <1>1, <1>4, <2>1, UnitsOfOneMore
  <2> QED
    BY <1>1, <1>2, <1>7, <2>2
<1>8. ASSUME NEW r \in Requests, status[r] = "PROCESSING", status' = [status EXCEPT ![r] = "SUCCESS"],
             UNCHANGED balance
      PROVE  IsFiniteSet(Units(later)) /\ balance' + Cardinality(Units(later)) = Funds
  <2>1. later = Taken
    BY <1>1, <1>3, <1>8 DEF Taken
  <2> QED
    BY <1>1, <1>8, <2>1
<1>9. ASSUME NEW r \in Requests, status[r] = "PROCESSING", status' = [status EXCEPT ![r] = "FAILED"],
             balance' = balance + Amount[r]
      PROVE  IsFiniteSet(Units(later)) /\ balance' + Cardinality(Units(later)) = Funds
  <2>1. Taken = later \cup {r} /\ r \in Requests \ later /\ later \in SUBSET Requests
    BY <1>1, <1>3, <1>9 DEF Taken
  <2>2. /\ IsFiniteSet(Units(later))
        /\ Cardinality(Units(Taken)) = Cardinality(Units(later)) + Amount[r]
    BY <1>1, <2>1, UnitsOfOneMore
  <2>3. Cardinality(Units(later)) \in Nat
    BY <2>2, FS_CardinalityType
  <2> QED
    BY <1>1, <1>2, <1>9, <2>2, <2>3
<1> QED
  BY <1>6, <1>7, <1>8, <1>9, LedgerStep

\* Whatever processes conclude, and how often, what is in the wallet and what was taken for
\* withdrawals that have not failed add up to the first balance.
THEOREM LedgerAlwaysBalances == Spec => []LedgerBalanced
<1>1. Init => LedgerInvariant
  <2> SUFFICES ASSUME Init PROVE LedgerInvariant
    OBVIOUS
  <2>1. Taken = {}
    BY DEF Init, Taken
  <2>2. Units(Taken) = {}
    BY <2>1 DEF Units
  <2> QED
    BY <2>2, FS_EmptySet, FundsAssumption DEF Init, LedgerInvariant, LedgerBalanced
<1>2. IInv /\ LedgerInvariant /\ [Next]_vars => LedgerInvariant'
  BY LedgerKept
<1>3. LedgerInvariant => LedgerBalanced
  BY DEF LedgerInvariant
<1> QED
  BY <1>1, <1>2, <1>3, Invariance, PTL DEF Spec

\* The conclusions of a withdrawal, whoever draws them and however often, agree with the bank
\* and with the wallet.
THEOREM PayoutStaysSafe == Spec => []PayoutSafe
<1> QED
  BY SuccessIsPaid, RefundIsSafe, LedgerAlwaysBalances, PTL DEF PayoutSafe
=============================================================================
