SPECIFICATION FairSpec
CONSTANTS
    Workers = {w1}
    Payments = {m1, m2}
    NoPayment = NoPayment
    Nobody = Nobody
    Polling = FALSE
    MaxAttempts = 2
    MaxTopUps = 1
    MaxCallbacks = 1
    MaxFaults = 1
PROPERTIES
    PendingSettles
CHECK_DEADLOCK FALSE
