SPECIFICATION Spec
CONSTANTS
    Accounts = {a1, a2, a3}
    Attempts = {v1, v2}
    NoAccount = NoAccount
    NoAttempt = NoAttempt
    MaxAccounts = 1
    MaxHandlers = 2
    Requests = {r1, r2}
    RequestKeys = {q1, q2}
    NoKey = NoKey
    MaxSends = 2
    MaxTries = 1
    Amount = 1
    Balance = 3
    MinRemaining = 1
    DailyMax = 2
    Parts = {p1, p2}
    p1 = p1
    p2 = p2
    Share = 2
    Gross = 3
    Commission = 1
    Voucherees = {c1, c2}
    Vouchers = {voucher}
    Holders = {h1, h2}
    IssuanceLimits = {1, 2}
    NoLimit = NoLimit
    Sessions = {s1, s2}
    Ratings = {2, 5}
    ReviewImages = {i1, i2}
    MaxImages = 1
    Chats = {k1, k2}
    k1 = k1
    k2 = k2
    ChatKeys = {m1}
    NoChatKey = NoChatKey
    WarningLimit = 1
    LockSteps = 1
    MaxMessages = 2
    MaxViolations = 3
SYMMETRY Interchangeable
CONSTRAINT Explored
CHECK_DEADLOCK FALSE
INVARIANTS
    AccountsSafe
    EntrySafe
    VouchersSafe
PROPERTIES
    ComplaintsSafe
    ReviewsSafe
    ChatSafe
