SPECIFICATION MoneySpec
CONSTANTS
    Topups = {t1, t2, t3}
    t1 = t1
    PaymentLinks = {1, 2}
    Sums = {1, 2, 3}
    Asked = 2
    MaxPendingTopups = 1
    MaxCreating = 2
    Devices = {d1, d2}
    Requests = {2}
    Amount <- Amounts
    Funds = 3
    Floor = 1
    Callers = {c1, c2}
    Unreadable = {2}
    NoRequest = NoRequest
CHECK_DEADLOCK FALSE
INVARIANTS
    TransfersSafe
    SocketSafe
    PayoutSafe
PROPERTIES
    TopupIsCredited
    SocketsEnd
    EventuallyDecided
