SPECIFICATION Spec
CONSTANTS
    Requests = {r1, r2}
    Accounts = {a, b}
    Offers <- CalmOffers
    NoOffer = NoOffer
    NoTxn = NoTxn
    NoOwner = NoOwner
    Workers = {w1}
    InitialBalance = 4
    SingleLimit = 2
    DailyLimit = 3
    MayReverse = FALSE
    MaxSends = 1
    MaxQueued = 1
    MaxFaults = 0
    MaxLost = 0
    a = a
    b = b
CHECK_DEADLOCK FALSE
INVARIANT DailyLimitKept
