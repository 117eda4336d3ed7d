\* Three intents on two symbols, two submissions of each.
CONSTANTS
    buyA = buyA
    sellA = sellA
    buyB = buyB
    a = a
    b = b
    Unlimited = Unlimited
    Intents <- MCIntents
    Symbols <- MCSymbols
    OrderOf <- MCOrderOf
    StrategyLimits <- MCStrategyLimits
    SessionLimits <- MCSessionLimits
    AccountLimits <- MCAccountLimits
    PlatformLimits <- MCPlatformLimits
    MaxEpoch = 2
    InitialCash = 10
    DefaultPrice = 3
    Prices = {1, 2}
SPECIFICATION Spec
INVARIANTS
    TypeOK
    BooksAgree
    StoreMatchesVenue
    EpochDiscipline
    FillsExplainPosition
    LimitsHold
PROPERTIES
    SubmissionDiscipline
