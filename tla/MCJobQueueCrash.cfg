SPECIFICATION FairSpec
CONSTANTS
    Workers = {w1}
    Jobs = {j1}
    Unhandled = {}
    NoJob = NoJob
    MaxAttempts = 2
    Base = 1
    Lag = 1
    MaxCrashes = 1
    MaxErrors = 0
    AckLoss = FALSE
PROPERTIES
    WorkResumes
CHECK_DEADLOCK FALSE
