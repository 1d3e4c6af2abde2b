SPECIFICATION Spec
CONSTANTS
    Workers = {w1}
    Requests = {r1}
    Providers = {p1, p2}
    NoRequest = NoRequest
    NoProvider = NoProvider
    Qualified <- AllQualified
    Distant = {}
    Credits <- OneCredit
    WaveSizes <- AllAtOnce
    ColdCap = 1
    AutoOffThreshold = 1
    LowBalance <- NeverLow
    FreeCap = 1
    MaxAttempts = 2
    MaxFaults = 1
    MaxCrashes = 0
    MaxTaps = 1
INVARIANTS
    NoOfferOutlives
CHECK_DEADLOCK FALSE
