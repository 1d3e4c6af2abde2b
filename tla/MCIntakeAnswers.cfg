SPECIFICATION PatientSpec
CONSTANTS
    Workers = {w1}
    Nobody = Nobody
    Phrases <- Vague
    Patient = TRUE
    ModelUp <- ModelWorks
    Faithful = TRUE
    Expiring = FALSE
    DailyRequests = 2
    ModelCap = 3
    ContextLimit = 2
    MaxAttempts = 2
    MaxPending = 1
    MaxMessages = 4
    MaxFaults = 0
    MaxCrashes = 0
PROPERTIES
    QuestionsLeadOn
CHECK_DEADLOCK FALSE
