SPECIFICATION Spec
CONSTANTS
    Intents = {i1, i2}
    Notionals = {1, 2}
    MaxDailyOrders = 2
    MaxTurnover = 3
    MaxPosts = 4
    MaxRestarts = 2
SYMMETRY IntentSymmetry
INVARIANT TypeOK
INVARIANT RegisteredIsFinal
INVARIANT StoreIsTrue
INVARIANT GuardCounts
CHECK_DEADLOCK FALSE
