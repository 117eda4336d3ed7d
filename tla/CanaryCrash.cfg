\* Two restarts and late requests; one intent, sent three times.
CONSTANTS
    i1 = i1
    i2 = i2
    Intents = {i1}
    TagIn <- MCTagIn
    MaxSends = 3
    Quantity = 1
    LateRequests = TRUE
    Price = 1
    MaxOrders = 2
    MaxTurnover = 6
    MaxPosition = 4
    MaxRestarts = 2
SPECIFICATION Spec
INVARIANT StoreNamesAnOrder
PROPERTY StopNeedsDisarm
