SPECIFICATION IsolatedSpec
CONSTANTS
    Wallets <- MCWallets
    Requests = {r1, r2, r3}
    Offers <- IsolatedOffers
    Keys <- MCKeys
    NoKey = NoKey
    NoOffer = NoOffer
    NoRequest = NoRequest
    InitialBalance <- MCInitialBalance
    Inactive <- MCInactive
    Closed = {}
    Webhooks <- MCWebhooks
    Tier <- MCTier
    SingleLimit <- MCSingleLimit
    DailyLimit <- MCDailyLimit
    DayLength = 2
    DuplicateWindow = 1
    RapidWindow = 2
    RapidCount = 1
    FlagThreshold = 1
    MaxClock = 2
    k1 = k1
SYMMETRY MCRequestSymmetry
INVARIANTS
    LedgerChains
    LimitsKept
PROPERTY AtomicTransfers
