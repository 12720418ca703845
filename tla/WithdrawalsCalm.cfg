SPECIFICATION CalmSpec
CONSTANTS
    Requests = {r1, r2}
    Accounts = {a, b}
    Offers <- CalmOffers
    NoOffer = NoOffer
    NoTxn = NoTxn
    NoOwner = NoOwner
    Workers = {w1}
    InitialBalance = 4
    SingleLimit = 2
    DailyLimit = 3
    MayReverse = TRUE
    MaxSends = 2
    MaxQueued = 1
    MaxFaults = 1
    MaxLost = 0
    a = a
    b = b
CHECK_DEADLOCK FALSE
INVARIANTS
    BooksBalance
    RulesKept
PROPERTIES
    SettledForGood
    EveryWithdrawalSettled
