\* One symbol, every bar, whole fills: the drift check of phase 13.
SPECIFICATION ReplaySpec
CONSTANTS
    Symbols = {a}
    Symbol = a
    MaxQuantity = 2
    MaxOrders = 4
    MaxSeq = 3
    Prices = {2, 3}
    Cost = 1
    InitialCash = 8
    PartialFill <- FillsWhole
    Limit <- DefaultLimit
    Contiguous = TRUE
CHECK_DEADLOCK FALSE
PROPERTY BacktestSpec
