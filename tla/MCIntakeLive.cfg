SPECIFICATION PatientSpec
CONSTANTS
    Workers = {w1}
    Nobody = Nobody
    Phrases <- AllPhrases
    Patient = TRUE
    ModelUp <- ModelDown
    Faithful = TRUE
    Expiring = FALSE
    DailyRequests = 2
    ModelCap = 5
    ContextLimit = 2
    MaxAttempts = 2
    MaxPending = 1
    MaxMessages = 0
    MaxFaults = 1
    MaxCrashes = 0
PROPERTIES
    QuestionsLeadOn
    PromisedIsDispatched
    TransitionsValid
CHECK_DEADLOCK FALSE
