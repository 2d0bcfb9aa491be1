SPECIFICATION Spec
CONSTANTS
    SignIns = {x1, x2}
    MaxGuesses = 1
    MaxCodes = 3
    MaxTokens = 3
    MaxPasswords = 1
    Clerks = {x1, x2}
    Notices = {n1, n2}
    Tellers = {x1, x2}
    PushDevices = {d1}
    MaxRetries = 1
    ReminderRuns = {x1, x2}
    MaxMoves = 2
    Writers = {w1, w2, w3}
    CacheReaders = {x1, x2}
    MaxVersion = 4
    Edits = {x1, x2}
    FirstIcon = FirstIcon
    NoIcon = NoIcon
    MaxImageRows = 3
    Places = {x1, x2}
    AddressRequests = {w1, w2, w3}
    Made = Made
    Offers <- Offered
    Forms <- EntryForms
    Hours = 4
    Opens = 1
    LastStart = 2
    Lead = 1
    Starts <- Times
    Utterances = {x1, x2}
    MaxAttempts = 2
    MaxDrafts = 2
    ToolCalls = {x1, x2}
    Lengths = {1, 3}
    HistoryTurns = 2
    HistoryCharacters = 2
SYMMETRY Interchangeable
CONSTRAINT Explored
CHECK_DEADLOCK FALSE
INVARIANT BookedInLaterTurn
