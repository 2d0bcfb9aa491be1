SPECIFICATION Spec
CONSTANTS
    Requests = {2}
    Amount <- Amounts
    Funds = 5
    Floor = 0
    Callers = {c1, c2}
    Unreadable = {}
    NoRequest = NoRequest
CHECK_DEADLOCK FALSE
INVARIANTS
    RefundOnlyIfCertain
