SPECIFICATION Spec
CONSTANTS
    Wallets <- MCWallets
    Requests = {r1, r2}
    Offers <- OverlapOffers
    Keys <- MCKeys
    NoKey = NoKey
    NoOffer = NoOffer
    NoRequest = NoRequest
    InitialBalance <- MCInitialBalance
    Inactive <- MCInactive
    Closed = {}
    Webhooks <- MCWebhooks
    Tier <- MCTier
    SingleLimit <- MCSingleLimit
    DailyLimit <- MCDailyLimit
    DayLength = 2
    DuplicateWindow = 1
    RapidWindow = 2
    RapidCount = 1
    FlagThreshold = 1
    MaxClock = 0
    k1 = k1
INVARIANT LedgerChains
