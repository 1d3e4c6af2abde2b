SPECIFICATION Spec
CONSTANTS
    Workers = {w1, w2}
    Payments = {m1, m2}
    NoPayment = NoPayment
    Nobody = Nobody
    Polling = TRUE
    MaxAttempts = 2
    MaxTopUps = 1
    MaxCallbacks = 2
    MaxFaults = 1
SYMMETRY Symmetry
INVARIANTS
    TypeOK
    AgreesWithMtn
    CreditedOnce
    CallbackKept
PROPERTIES
    ConfirmSettlesOnce
CHECK_DEADLOCK FALSE
