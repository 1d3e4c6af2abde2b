SPECIFICATION FairSpec
CONSTANTS
    Workers = {w1, w2}
    Jobs = {j1, j2, j3}
    Unhandled = {j3}
    NoJob = NoJob
    MaxAttempts = 2
    Base = 1
    Lag = 1
    MaxCrashes = 1
    MaxErrors = 1
    AckLoss = TRUE
INVARIANTS
    TypeOK
    MutualExclusion
    WorkBounded
    EffectsMatch
    StrandedByFailures
PROPERTIES
    SettledForGood
    ImplementsJobLife
CHECK_DEADLOCK FALSE
