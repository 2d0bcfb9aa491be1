SPECIFICATION Spec
CONSTANTS
    s1 = s1
    s2 = s2
    s3 = s3
    NoWorker = NoWorker
    Sessions = {s1, s2, s3}
    Workers = {w1, w2}
    BookingOf <- MCBookingOf
    CashBookings <- MCCash
    StartTimes = {2, 3}
    Duration = 1
    Window = 2
    Buffer = 1
    CancelLead = 1
    Early = 0
    Responses = {1}
    Horizon = 3
    MaxMoves = 1
CONSTRAINT Bounds
SYMMETRY Symmetry
INVARIANT NoDoubleBooking
CHECK_DEADLOCK FALSE
