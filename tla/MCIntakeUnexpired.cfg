SPECIFICATION FairSpec
CONSTANTS
    Workers = {w1}
    Nobody = Nobody
    Phrases <- Vague
    Patient = FALSE
    ModelUp <- ModelWorks
    Faithful = TRUE
    Expiring = FALSE
    DailyRequests = 1
    ModelCap = 1
    ContextLimit = 1
    MaxAttempts = 2
    MaxPending = 1
    MaxMessages = 1
    MaxFaults = 1
    MaxCrashes = 0
PROPERTIES
    UnconfirmedExpire
CHECK_DEADLOCK FALSE
