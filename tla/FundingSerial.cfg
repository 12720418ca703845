SPECIFICATION FairSpec
CONSTANTS
    Requests = {r1, r2}
    Offers <- AllOffers
    Wallets <- MCWallets
    Keys = {k1}
    NoKey = NoKey
    NoOffer = NoOffer
    NoTxn = NoTxn
    NoWorker = NoWorker
    Workers = {w1, w2}
    Inactive = {b}
    MinimumFunding = 2
    Reported <- LessForTheLarger
    BatchLimit = 2
    MaxSends = 1
    MaxFaults = 1
    a = a
    b = b
    k1 = k1
CHECK_DEADLOCK FALSE
INVARIANTS
    TypeOK
    BooksBalance
PROPERTIES
    SettledForGood
    EveryFundingResolved
    PromptPaymentIsCredited
