\* Two symbols, gaps in the stream, partial fills, two sells of one holding.
SPECIFICATION Spec
CONSTANTS
    Symbols = {a, b}
    MaxQuantity = 2
    MaxOrders = 4
    MaxSeq = 2
    Prices = {2, 3}
    Cost = 1
    InitialCash = 8
    PartialFill <- FillsHalf
    Limit <- TightLimit
    Contiguous = FALSE
INVARIANTS
    TypeOK
    PendingAreLive
    BooksAgree
    CountersMatchOrders
SYMMETRY SymbolSymmetry
