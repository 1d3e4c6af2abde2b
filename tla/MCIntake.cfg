SPECIFICATION Spec
CONSTANTS
    Workers = {w1, w2}
    Nobody = Nobody
    Phrases <- Direct
    Patient = FALSE
    ModelUp <- AnyModel
    Faithful = TRUE
    Expiring = TRUE
    DailyRequests = 2
    ModelCap = 2
    ContextLimit = 1
    MaxAttempts = 2
    MaxPending = 2
    MaxMessages = 3
    MaxFaults = 1
    MaxCrashes = 1
SYMMETRY Symmetry
INVARIANTS
    TypeOK
    OneOpenRequest
    DispatchedOnce
    CapOverrunBounded
PROPERTIES
    ModelOnlyDuringIntake
CHECK_DEADLOCK FALSE
