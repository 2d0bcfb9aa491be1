SPECIFICATION DesksSpec
CONSTANTS
    j1 = j1
    j2 = j2
    a1 = a1
    a2 = a2
    b1 = b1
    w1 = w1
    e1 = e1
    e2 = e2
    t1 = t1
    t2 = t2
    Requests = {2}
    Amount <- Amounts
    Funds = 3
    Floor = 0
    Callers = {x1, x2}
    Unreadable = {2}
    NoRequest = NoRequest
    ActiveServices = {1, 2}
    OwnBookings = {1}
    OtherBookings = {2}
    GuideSections <- Guides
    ToolLimit = 3
    ModelLimit = 2
    CardLimit = 2
    Visits = {x1, x2}
    Cleaners = {h1, h2}
    NoCleaner = NoCleaner
    NoVisit = NoVisit
    Price = 5
    MaxChanges = 3
    Jobs = {j1, j2}
    JobDay <- JobDays
    Helpers = {h1, h2}
    NoHelper = NoHelper
    Asks = {x1, x2}
    NoAsk = NoAsk
    LastDay = 1
    MaxTerms = 2
    Crew = {w1}
    Clients = {x1, x2}
    Wards = {a1, a2, b1}
    ProvinceOf <- Provinces
    AreaSaves <- TwoSaves
    LastMonth = 2
    Earnings = {e1, e2}
    PayOf <- Pays
    MethodOf <- Methods
    MonthLengths <- TwoMonths
    FirstWeekday = 3
    Patrons = {1, 2}
    Thanks = {t1, t2}
    Quotas = {1, 2}
    IssueLimit <- Limits
    Batches = {x1, x2}
    RewardMonths = {1}
    Bills = {1, 2, 3}
    Cost = 2
    FetchCap = 2
    MaxLedger = 3
SYMMETRY Interchangeable
CHECK_DEADLOCK FALSE
INVARIANTS
    DeskSafe
    DirectorySafe
    IncomeSafe
    ToldSafe
    VipSafe
PROPERTIES
    MovesOnce
