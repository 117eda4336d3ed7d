--------------------------- MODULE MCPaperSession ---------------------------
(* Small sessions for TLC: what an open fills of a remaining quantity, and  *)
(* the ceilings.                                                            *)
EXTENDS PaperSession, TLC

\* The half, rounded up, of the fixed-ratio policy.
FillsHalf == [q \in 1 .. MaxQuantity |-> (q + 1) \div 2]

\* Every ceiling can be reached within the bounds.
TightLimit ==
    [orderNotional |-> 6, positionQuantity |-> 3, positionNotional |-> 9,
     exposure |-> 10, turnover |-> 10, orderCount |-> 3, dailyLoss |-> 4]

\* No definition tells one symbol from another.
SymbolSymmetry == Permutations(Symbols)
=============================================================================
