SPECIFICATION FairSpec
CONSTANTS
    Sessions = {s1}
    Workers = {w1, w2}
    NoWorker = NoWorker
    Methods = {"CASH", "BANK_TRANSFER", "WALLET"}
    Total = 5
    MaxReschedules = 1
CHECK_DEADLOCK FALSE
INVARIANTS
    CommissionLedger
PROPERTIES
    EventuallyClosed
