------------------------------ MODULE MCDesks ------------------------------
(***************************************************************************)
(* What customers and workers see and are told of their jobs and money,    *)
(* and beside it the withdrawals whose submissions do not overlap: they    *)
(* share no state, so `active` tells which of them moves, and their states *)
(* add up instead of multiplying.                                          *)
(***************************************************************************)
EXTENDS MCPayout, AgentTurn, StatusNotices, WorkerDesk, WorkerDirectory, WorkerIncome, VipRewards,
        PaymentHistory, TLC

CONSTANTS j1, j2, a1, a2, b1, w1, e1, e2, t1, t2

VARIABLE active

Desks == {"payout", "agent", "notices", "desk", "directory", "income", "vip", "statement"}

Guides == {<<1, 1>>, <<1, 2>>, <<2, 1>>}
JobDays == j1 :> 0 @@ j2 :> 1

\* Two wards of one province and one of another.
Provinces == a1 :> 1 @@ a2 :> 1 @@ b1 :> 2
TwoSaves == {w1} \X Asks

Pays == e1 :> 2 @@ e2 :> 3
Methods == e1 :> "ONLINE" @@ e2 :> "CASH"

\* A month that does not end with a week, and the days after it.
TwoMonths == <<8, 2>>

Limits == t1 :> 1 @@ t2 :> 2

-----------------------------------------------------------------------------
(* Bounds.                                                                 *)

\* A slow turn, or one that has lost a card, reads little; three tools are called in turns
\* that ask for cards and lose none.
FewCalls ==
    /\ late => calls.tools <= 1
    /\ there # EveryCard /\ step \notin {"answered", "shown"} => calls.tools <= 1
    /\ calls.tools = ToolLimit /\ calls.model > 1 =>
          read.selected # NoSelection /\ ~late /\ there = EveryCard

\* One crash between a change and what is told of it, and no request under way then; one
\* request of a worker at the door and one removal.
FewLosses ==
    /\ Cardinality(lost) <= 1 /\ (lost # {} => Cardinality(hooks) <= 1)
    /\ \E v \in Visits : \A u \in Visits \ {v} : visit[u].changes <= 2
    /\ Cardinality({v \in Visits : atDoor[v] # NoCleaner}) <= 1
    /\ Cardinality({v \in Visits : removing[v] # NotReading}) <= 1
    /\ (\E v \in Visits : atDoor[v] # NoCleaner \/ removing[v] # NotReading) =>
          lost = {} /\ Cardinality(hooks) <= 1
    /\ (\E v \in Visits : removing[v] # NotReading) => \A v \in Visits : visit[v].changes <= 2

\* Requests meet while the jobs are still on offer, and at one place at a time.
FewAsks ==
    LET busy == {r \in Asks : ask[r] # NotAsking}
        Pair(step1, step2) ==
            \E r, s \in Asks : r # s /\ ask[r].step = step1 /\ ask[s].step = step2
    IN  /\ Cardinality(unlinked) <= 1
        /\ job[j1].terms + job[j2].terms <= 2
        /\ unlinked # {} \/ (\E j \in Jobs : job[j].terms = 2) => Cardinality(busy) <= 1
        /\ today > 0 \/ (\E j \in Jobs : job[j].status # "PENDING") => Cardinality(busy) <= 1
        /\ ~Pair("dead", "dead") /\ ~Pair("linking", "linking") /\ ~Pair("linking", "dead")
        /\ \A r, s \in busy :
              r # s /\ ask[r].step = "inside" /\ ask[r].lock = {} => ask[s].lock # {}

\* Favourites stand still while a worker saves his areas, and areas while they change.
FewSaves ==
    /\ Cardinality(openWards) >= 2 /\ (Cardinality(Saving(w1)) > 1 => openWards = Wards)
    /\ Saving(w1) # {} \/ asked[w1] # {} =>
          served = {} /\ adding = [p \in Clients \X Crew |-> 0] /\ counted = {} /\ onDuty = Crew /\ month = 1

\* A summary is asked for where a week or a month ends or begins, and looked at before the
\* second midnight; jobs are done on the days around it.
FewDays ==
    /\ screen.step # "none" => screen.today \in {3, 7, 8} /\ clock <= screen.today + 1
    /\ \A e \in Earnings : earning[e].day \in {0, 3, 4, 7, 8}

\* One booking refunded, or one account closed; one batch while a report is looked at.  One
\* edit at a time, of the first voucher, while no report is and nobody's bookings changed.
FewLapses ==
    /\ Cardinality(rewrites) <= 1 /\ \A e \in rewrites : e.voucher = t1
    /\ rewrites # {} \/ stock[t1].limit # IssueLimit[t1] \/ outdated # {} =>
          vipReport = NoReport /\ Cardinality(loyal) + Cardinality(enabled) = 4
    /\ Cardinality(loyal) + Cardinality(enabled) >= 3
    /\ vipReport.step # "none" => Cardinality(OngoingBatches) <= 1

\* Payments are numbered as they are made; a third one is there for what is too old to be read.
FewBills ==
    /\ \A i \in 1..Len(bills) : bills[i] = i /\ bill[i].clawed <= 1
    /\ Len(bills) = 3 =>
          \E i \in 1..2 : bill[bills[i]].method = "WALLET" /\ bill[bills[i]].status = "SUCCESS"

\* The states this run is about: a guard of the next state, so that nothing outside is made.
Explored ==
    /\ active = "payout" => NoOverlap
    /\ active = "agent" => FewCalls
    /\ active = "notices" => FewLosses
    /\ active = "desk" => FewAsks
    /\ active = "directory" => FewSaves
    /\ active = "income" => FewDays
    /\ active = "vip" => FewLapses
    /\ active = "statement" => FewBills

\* The requests, visits, clients and batches are the same two.
Interchangeable == Permutations(Asks) \cup Permutations(Helpers) \cup Permutations({a1, a2})

-----------------------------------------------------------------------------
\* The others stay in one of their initial states.
DesksInit ==
    /\ active \in Desks
    /\ Init /\ AgentTurnInit /\ StatusNoticesInit /\ DeskInit /\ DirectoryInit /\ IncomeInit
    /\ VipInit /\ HistoryInit
    /\ active # "agent" => asker = "CUSTOMER"
    /\ active # "notices" => order.method = "WALLET" /\ \A v \in Visits : visit[v].status = "PENDING"

DesksNext ==
    /\ UNCHANGED active
    /\ \/ /\ active = "payout" /\ Next
          /\ UNCHANGED <<agentVars, statusVars, deskVars, directoryVars,
                         incomeVars, vipVars, historyVars>>
       \/ /\ active = "agent" /\ AgentTurnNext
          /\ UNCHANGED <<vars, statusVars, deskVars, directoryVars,
                         incomeVars, vipVars, historyVars>>
       \/ /\ active = "notices" /\ StatusNoticesNext
          /\ UNCHANGED <<vars, agentVars, deskVars, directoryVars,
                         incomeVars, vipVars, historyVars>>
       \/ /\ active = "desk" /\ DeskNext
          /\ UNCHANGED <<vars, agentVars, statusVars, directoryVars,
                         incomeVars, vipVars, historyVars>>
       \/ /\ active = "directory" /\ DirectoryNext
          /\ UNCHANGED <<vars, agentVars, statusVars, deskVars,
                         incomeVars, vipVars, historyVars>>
       \/ /\ active = "income" /\ IncomeNext
          /\ UNCHANGED <<vars, agentVars, statusVars, deskVars,
                         directoryVars, vipVars, historyVars>>
       \/ /\ active = "vip" /\ VipNext
          /\ UNCHANGED <<vars, agentVars, statusVars, deskVars,
                         directoryVars, incomeVars, historyVars>>
       \/ /\ active = "statement" /\ HistoryNext
          /\ UNCHANGED <<vars, agentVars, statusVars, deskVars,
                         directoryVars, incomeVars, vipVars>>
    /\ Explored'

desksVars == <<active, vars, agentVars, statusVars, deskVars, directoryVars, incomeVars, vipVars, historyVars>>

DesksSpec == DesksInit /\ [][DesksNext]_desksVars

-----------------------------------------------------------------------------
\* What a customer is told, by notices, by the assistant and of his payments, is true of
\* the booking and the money at that time.
ToldSafe ==
    /\ active = "notices" => StatusNoticesSafe
    /\ active = "agent" => AgentTurnSafe
    /\ active = "statement" => HistorySafe
=============================================================================
