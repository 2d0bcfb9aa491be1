SPECIFICATION Spec
CONSTANTS
    Sessions = {s1, s2}
    Workers = {w1, w2}
    NoWorker = NoWorker
    Methods = {"BANK_TRANSFER", "WALLET"}
    Total = 5
    MaxReschedules = 1
SYMMETRY Symmetry
CHECK_DEADLOCK FALSE
INVARIANTS
    BookingSafe
    MoneyConserved
    EndedIsSettled
    VoucherFollowsWork
    OpenIsStaffed
PROPERTIES
    DoneIsFinal
