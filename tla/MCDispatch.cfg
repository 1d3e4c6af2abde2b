SPECIFICATION FairSpec
CONSTANTS
    Workers = {w1}
    Requests = {r1}
    Providers = {p1, p2}
    NoRequest = NoRequest
    NoProvider = NoProvider
    Qualified <- AllQualified
    Distant = {p2}
    Credits <- OneCredit
    WaveSizes <- OneThenRest
    ColdCap = 1
    AutoOffThreshold = 1
    LowBalance = 0
    FreeCap = 1
    MaxAttempts = 2
    MaxFaults = 1
    MaxCrashes = 0
    MaxTaps = 2
INVARIANTS
    TypeOK
    OneMatchOneDebit
    ContactsOnlyToMatched
    TablesAgree
    BalanceNeverNegative
    AutoOffHolds
    OneDriver
    NobodySkipped
PROPERTIES
    TransitionsValid
    MatchedAreIntroduced
    ImplementsIntroduction
CHECK_DEADLOCK FALSE
