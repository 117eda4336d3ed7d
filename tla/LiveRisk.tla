------------------------------ MODULE LiveRisk ------------------------------
(***************************************************************************)
(* execution/live_risk.py: the capital hierarchy strategy <= session <=    *)
(* account <= platform, and the pre-trade check of LiveRiskEngine.  An     *)
(* absent optional limit (None) is the value Unlimited.                    *)
(***************************************************************************)
EXTENDS LiveOrders

CONSTANTS
    StrategyLimits, SessionLimits, AccountLimits, PlatformLimits,
    Unlimited,
    InitialCash

LimitNames ==
    {"orderNotional", "positionNotional", "grossExposure", "dailyLoss",
     "turnover", "orderCount", "capital"}

Levels == {StrategyLimits, SessionLimits, AccountLimits, PlatformLimits}

ASSUME UnlimitedAssumption == Unlimited \notin Int
ASSUME LimitsAssumption ==
    \A level \in Levels : level \in [LimitNames -> Nat \cup {Unlimited}]
ASSUME CashAssumption == InitialCash \in Nat

LooserOf(a, b) ==
    IF a = Unlimited \/ b = Unlimited THEN Unlimited
    ELSE IF a >= b THEN a ELSE b

(* _min_optional: None never wins over a number.                            *)
TighterOf(a, b) ==
    IF a = Unlimited THEN b
    ELSE IF b = Unlimited THEN a
    ELSE IF a <= b THEN a ELSE b

(* merge_capital_limits, one limit at a time.                               *)
Effective(name) ==
    TighterOf(TighterOf(TighterOf(StrategyLimits[name], SessionLimits[name]),
                        AccountLimits[name]),
              PlatformLimits[name])

Within(amount, limit) == limit # Unlimited => amount <= limit

SignedQuantity(order, quantity) ==
    IF order.side = "BUY" THEN quantity ELSE -quantity

NotShort(order, position) ==
    order.side = "SELL" => order.quantity <= position

WithinTurnover(turnover, notional) ==
    Within(turnover + notional, Effective("turnover"))

WithinCapital(order, capitalUsed, notional) ==
    order.side = "BUY" => Within(capitalUsed + notional, Effective("capital"))

WithinOrderCount(count) ==
    Effective("orderCount") # Unlimited => count < Effective("orderCount")

(* LiveRiskEngine.check_order accepts.  exposure is the value of all        *)
(* positions at this order's reference price, equity adds the cash.         *)
CheckOrder(order, price, position, exposure, cash, capitalUsed, count, turnover) ==
    LET notional == order.quantity * price
        held == position + SignedQuantity(order, order.quantity)
        newPosition == (IF held > 0 THEN held ELSE 0) * price
        newExposure == exposure - position * price + newPosition
    IN  /\ NotShort(order, position)
        /\ Within(notional, Effective("orderNotional"))
        /\ Within(newPosition, Effective("positionNotional"))
        /\ Within(newExposure, Effective("grossExposure"))
        /\ WithinOrderCount(count)
        /\ WithinTurnover(turnover, notional)
        /\ Within(InitialCash - (cash + exposure), Effective("dailyLoss"))
        /\ WithinCapital(order, capitalUsed, notional)
=============================================================================
