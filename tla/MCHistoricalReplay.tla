------------------------- MODULE MCHistoricalReplay -------------------------
(* A short history for TLC, with the ceilings a PaperRiskConfig has unless  *)
(* it is given more, and whole fills.                                       *)
EXTENDS HistoricalReplay

ASSUME DriftAssumptions

FillsWhole == [q \in 1 .. MaxQuantity |-> q]

DefaultLimit ==
    [orderNotional |-> 6, positionQuantity |-> 12, positionNotional |-> 6,
     exposure |-> 6, turnover |-> Unlimited, orderCount |-> Unlimited,
     dailyLoss |-> Unlimited]
=============================================================================
