\* The events of one symbol, without gaps, as replay feeds them.
SPECIFICATION FairSpec
CONSTANTS
    Symbols = {a}
    MaxQuantity = 2
    MaxOrders = 2
    MaxSeq = 4
    Prices = {2}
    Cost = 1
    InitialCash = 8
    PartialFill <- FillsHalf
    Limit <- TightLimit
    Contiguous = TRUE
INVARIANT NoMissedOpen
PROPERTY OrdersAreDecided
