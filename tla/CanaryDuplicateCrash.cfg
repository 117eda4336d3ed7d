\* A crash between the request and the registration.
CONSTANTS
    i1 = i1
    i2 = i2
    Intents <- MCIntents
    TagIn <- MCTagIn
    MaxSends = 2
    Quantity = 2
    LateRequests = FALSE
    Price = 1
    MaxOrders = 3
    MaxTurnover = 6
    MaxPosition = 4
    MaxRestarts = 1
SPECIFICATION Spec
INVARIANT OneOrderPerIntent
