---------------------------- MODULE WorkerIncome ----------------------------
(***************************************************************************)
(* What a worker is told about his income: apps/wallets/worker_earnings.py *)
(* and the earnings of apps/chatbot/services/worker_tool.py.               *)
(*                                                                         *)
(* The summary is put together by queries that share no transaction, while *)
(* sessions end, held earnings are released, commission is settled and     *)
(* complaints take earnings back.                                          *)
(***************************************************************************)
EXTENDS Integers, Sequences, FiniteSets, Sums

CONSTANTS
    Earnings,       \* earnings of one worker
    PayOf,          \* what each pays the worker
    MethodOf,       \* "ONLINE" or "CASH"
    MonthLengths,   \* the calendar: the length of each month, in days from 0
    FirstWeekday    \* the weekday of day 0; Monday is 0

ASSUME IncomeAssumption ==
    /\ IsFiniteSet(Earnings)
    /\ \A e \in Earnings : PayOf[e] \in Nat /\ MethodOf[e] \in {"ONLINE", "CASH"}
    /\ MonthLengths \in Seq(1..31) /\ Len(MonthLengths) > 0 /\ FirstWeekday \in 0..6

VARIABLES
    clock,          \* the day
    earning,        \* each earning: the day it was completed, and where it is
    screen          \* the summary being put together

incomeVars == <<clock, earning, screen>>

\* The first day of a month, and the last one.
MonthStart(m) == SumOver(MonthLengths, 1..(m - 1))
MonthEnd(m) == MonthStart(m) + MonthLengths[m] - 1
Calendar == 0..MonthEnd(Len(MonthLengths))

MonthAt(d) == CHOOSE m \in 1..Len(MonthLengths) : d \in MonthStart(m)..MonthEnd(m)
DayOfMonth(d) == d - MonthStart(MonthAt(d)) + 1
Weekday(d) == (d + FirstWeekday) % 7

NotAsked == [step |-> "none", period |-> "", today |-> 0, earned |-> {}, owed |-> {}, pending |-> {},
             balance |-> {}, series |-> {}, before |-> {}]

-----------------------------------------------------------------------------
(* The earnings.                                                           *)

PayFor(es) == SumOver(PayOf, es)

Earned(stages) == {e \in Earnings : earning[e].stage \in stages}
PaidBy(method, es) == {e \in es : MethodOf[e] = method}

Turns(e, from, to) ==
    /\ earning[e].stage = from
    /\ earning' = [earning EXCEPT ![e].stage = to]
    /\ UNCHANGED <<clock, screen>>

\* At the check-out.
RecordEarning(e) ==
    /\ earning[e].stage = "none"
    /\ earning' = [earning EXCEPT ![e] = [stage |-> "open", day |-> clock]]
    /\ UNCHANGED <<clock, screen>>

\* The pay goes into the wallet after the hold; the commission of a job paid in cash goes out of it.
SettleEarning(e) == Turns(e, "open", "settled")

\* A complaint takes it back: before that, or out of the wallet.
VoidEarning(e) == Turns(e, "open", "voided") \/ Turns(e, "settled", "voided")

DayPasses ==
    /\ clock + 1 \in Calendar /\ clock' = clock + 1
    /\ UNCHANGED <<earning, screen>>

-----------------------------------------------------------------------------
(* The summary.                                                            *)

\* _resolve_period; the assistant knows today, too.
PeriodStart(period, today) ==
    CASE period = "today" -> today
      [] period = "week" -> today - Weekday(today)
      [] period = "month" -> MonthStart(MonthAt(today))
PeriodEnd(period, today) ==
    CASE period = "today" -> today
      [] period = "week" -> PeriodStart("week", today) + 6
      [] period = "month" -> MonthEnd(MonthAt(today))

InPeriod(period, today) ==
    {e \in Earned({"open", "settled"}) :
        earning[e].day \in PeriodStart(period, today)..PeriodEnd(period, today)}

\* What the worker has not had yet, and what he has not paid yet, of all periods.
PendingRelease == PaidBy("ONLINE", Earned({"open"}))
CommissionOwed == PaidBy("CASH", Earned({"open"}))

\* Plausible bug: the balance is read before what is still to come.
NextQuery_BalanceFirst ==
    [earned |-> "balance", balance |-> "owed", owed |-> "pending", pending |-> "series", series |-> "shown"]

\* The queries, in their order.
NextQuery ==
    [earned |-> "owed", owed |-> "pending", pending |-> "balance", balance |-> "series", series |-> "shown"]

\* `before` is what was the worker's when he asked.
AskSummary(period) ==
    /\ screen = NotAsked
    /\ screen' = [NotAsked EXCEPT !.step = "earned", !.period = period, !.today = clock,
                                  !.before = Earned({"open", "settled"})]
    /\ UNCHANGED <<clock, earning>>

Read(query, found) ==
    /\ screen.step = query
    /\ screen' = [screen EXCEPT ![query] = found, !.step = NextQuery[query]]
    /\ UNCHANGED <<clock, earning>>

\* The balance is what was settled, of online pay and of commission.
ReadNext ==
    \/ Read("earned", InPeriod(screen.period, screen.today))
    \/ Read("owed", CommissionOwed)
    \/ Read("pending", PendingRelease)
    \/ Read("balance", Earned({"settled"}))
    \/ Read("series", InPeriod(screen.period, screen.today))

CloseSummary ==
    /\ screen.step = "shown" /\ screen' = NotAsked
    /\ UNCHANGED <<clock, earning>>

\* _build_series: a bar per day of the week, or per seven days of the month.
Bars(period, today) ==
    1..IF period = "week" THEN 7 ELSE (DayOfMonth(PeriodEnd(period, today)) - 1) \div 7 + 1

BarOf(period, d) == IF period = "week" THEN Weekday(d) + 1 ELSE (DayOfMonth(d) - 1) \div 7 + 1

Chart(period, today, es) ==
    [b \in Bars(period, today) |-> PayFor({e \in es : BarOf(period, earning[e].day) = b})]

\* get_earning_history: what it says of an earning.
WalletStatus(e) ==
    CASE earning[e].stage = "settled" /\ MethodOf[e] = "ONLINE" -> "in the wallet"
      [] earning[e].stage = "settled" /\ MethodOf[e] = "CASH" -> "commission taken"
      [] OTHER -> "not settled"

-----------------------------------------------------------------------------
IncomeInit ==
    /\ clock = 0
    /\ earning = [e \in Earnings |-> [stage |-> "none", day |-> 0]]
    /\ screen = NotAsked

IncomeNext ==
    \/ \E e \in Earnings : RecordEarning(e) \/ SettleEarning(e) \/ VoidEarning(e)
    \/ DayPasses
    \/ \E period \in {"week", "month"} : AskSummary(period)
    \/ ReadNext \/ CloseSummary

-----------------------------------------------------------------------------
Kept(es) == es \ Earned({"voided"})

\* What was the worker's when he asked for the summary, and still is, is on it: as still
\* to come or in the balance, as owed or already taken; released or settled in between, it
\* may be there twice, never not at all.
NothingIsHidden ==
    screen.step = "shown" => Kept(screen.before) \subseteq screen.owed \cup screen.pending \cup screen.balance

\* The chart has a bar for each job it finds, over the end of a month or of a week as well,
\* the bars add up to their pay, and no job of the total is missing but what was voided.
ChartAddsUp ==
    screen.step = "shown" =>
        /\ \A e \in screen.series : BarOf(screen.period, earning[e].day) \in Bars(screen.period, screen.today)
        /\ SumOver(Chart(screen.period, screen.today, screen.series), Bars(screen.period, screen.today))
           = PayFor(screen.series)
        /\ Kept(screen.earned) \subseteq screen.series

\* A day is in its week and in its month, weeks do not overlap, and the history of the
\* assistant calls settled what the summary no longer counts as to come.
PeriodsAgree ==
    /\ \A period \in {"week", "month"} :
          /\ clock \in PeriodStart(period, clock)..PeriodEnd(period, clock)
          /\ InPeriod("today", clock) \subseteq InPeriod(period, clock)
          /\ clock + 1 \in Calendar /\ clock + 1 \notin PeriodStart(period, clock)..PeriodEnd(period, clock)
             => PeriodStart(period, clock + 1) = clock + 1
    /\ \A e \in Earned({"open", "settled"}) :
          WalletStatus(e) = "not settled" <=> e \in PendingRelease \cup CommissionOwed

\* A worker is told of all his income, in the period it belongs to.
IncomeSafe ==
    /\ NothingIsHidden
    /\ ChartAddsUp
    /\ PeriodsAgree
=============================================================================
