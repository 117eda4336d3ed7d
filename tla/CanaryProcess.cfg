\* One process whose error answers are final.
CONSTANTS
    i1 = i1
    i2 = i2
    Intents <- MCIntents
    TagIn <- MCTagIn
    MaxSends = 2
    Quantity = 2
    LateRequests = FALSE
    Price = 1
    MaxOrders = 2
    MaxTurnover = 5
    MaxPosition = 4
    MaxRestarts = 0
SPECIFICATION Spec
INVARIANTS
    TypeOK
    NoOrphanOrder
    OneOrderPerIntent
    OrdersAccounted
PROPERTIES
    SubmissionDiscipline
