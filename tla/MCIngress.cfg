SPECIFICATION FairSpec
CONSTANTS
    a = a
    b = b
    provider = provider
    customer = customer
    Servers = {s1, s2}
    Workers = {w1}
    Nothing = Nothing
    Messages = {a, b}
    Batches <- Overlapping
    People <- TwoPeople
    Providers = {provider}
    Contents <- Cases
    Notices = {n1}
    To <- ToCustomer
    Statuses = {"delivered"}
    Width = 1
    MaxAttempts = 2
    MaxEvents = 2
INVARIANTS
    TypeOK
    AckedIsStored
    MediaTracked
PROPERTIES
    ButtonsWhileOpen
    ImplementsInbox
CHECK_DEADLOCK FALSE
