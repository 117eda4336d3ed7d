------------------------- MODULE MCExecutionGateway -------------------------
(* A small instance of the Phase 9 gateway for TLC.                         *)
EXTENDS ExecutionGateway

CONSTANTS buyA, sellA, buyB, a, b

MCIntents == {buyA, sellA, buyB}
MCSymbols == {a, b}

(* Half shares: one share of a bought or sold, two shares of b bought.      *)
MCOrderOf ==
    [i \in MCIntents |->
        CASE i = buyA  -> [symbol |-> a, side |-> "BUY", quantity |-> 2]
          [] i = sellA -> [symbol |-> a, side |-> "SELL", quantity |-> 2]
          [] i = buyB  -> [symbol |-> b, side |-> "BUY", quantity |-> 4]]

(* Each level is the tightest in one of the limits.                         *)
MCStrategyLimits ==
    [orderNotional |-> 8, positionNotional |-> 8, grossExposure |-> 12,
     dailyLoss |-> Unlimited, turnover |-> 16, orderCount |-> 4,
     capital |-> 14]
MCSessionLimits ==
    [MCStrategyLimits EXCEPT !["turnover"] = 14, !["capital"] = Unlimited]
MCAccountLimits ==
    [MCStrategyLimits EXCEPT !["orderCount"] = 3, !["dailyLoss"] = 4]
MCPlatformLimits ==
    [MCStrategyLimits EXCEPT !["capital"] = 12, !["orderCount"] = Unlimited]
=============================================================================
