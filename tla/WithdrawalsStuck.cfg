SPECIFICATION CalmSpec
CONSTANTS
    Requests = {r1}
    Accounts = {a, b}
    Offers <- OneOffer
    NoOffer = NoOffer
    NoTxn = NoTxn
    NoOwner = NoOwner
    Workers = {w1, w2}
    InitialBalance = 2
    SingleLimit = 3
    DailyLimit = 3
    MayReverse = FALSE
    MaxSends = 1
    MaxQueued = 1
    MaxFaults = 0
    MaxLost = 0
    a = a
    b = b
CHECK_DEADLOCK FALSE
PROPERTY EveryWithdrawalSettled
