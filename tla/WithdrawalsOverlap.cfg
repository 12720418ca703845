SPECIFICATION Spec
CONSTANTS
    Requests = {r1, r2, r3}
    Accounts = {a, b}
    Offers <- ClashingOffers
    NoOffer = NoOffer
    NoTxn = NoTxn
    NoOwner = NoOwner
    Workers = {w1, w2}
    InitialBalance = 1
    SingleLimit = 3
    DailyLimit = 3
    MayReverse = TRUE
    MaxSends = 2
    MaxQueued = 0
    MaxFaults = 0
    MaxLost = 0
    a = a
    b = b
CHECK_DEADLOCK FALSE
SYMMETRY MCSymmetry
CONSTRAINT TwoWithdrawals
INVARIANTS
    TypeOK
    OutcomeAgrees
