SPECIFICATION FairSpec
CONSTANTS
    Requests = {r1}
    Offers <- TwoOffers
    Wallets <- MCWallets
    Keys = {k1}
    NoKey = NoKey
    NoOffer = NoOffer
    NoTxn = NoTxn
    NoWorker = NoWorker
    Workers = {w1}
    Inactive = {b}
    MinimumFunding = 2
    Reported <- LessForTheLarger
    BatchLimit = 2
    MaxSends = 2
    MaxFaults = 1
    a = a
    b = b
    k1 = k1
CHECK_DEADLOCK FALSE
PROPERTY PaidIsCredited
