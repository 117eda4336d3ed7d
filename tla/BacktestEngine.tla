--------------------------- MODULE BacktestEngine ---------------------------
(***************************************************************************)
(* backtest/engine.py with backtest/broker_sim.py, backtest/portfolio.py   *)
(* and risk/limits.py: the loop over the bars of one symbol.  The order    *)
(* scheduled at the close of a bar executes at the open of the next one;   *)
(* a second order of one close supersedes the first, and an order of the   *)
(* last bar is cancelled.  Slippage and costs are one amount per unit,     *)
(* against the order on either side.                                       *)
(***************************************************************************)
EXTENDS Integers, Sequences

CONSTANTS
    Prices,
    Cost,
    InitialCapital,
    MaxQuantity,    \* bound: quantity of an order
    LastBar,        \* number of the last bar, from 0
    RiskConfig      \* orderValue, positionValue and totalExposure

VARIABLES
    bar,            \* the current bar, numbered -1 before the first
    stage,          \* idle, open, close, orders; failed when run() raised
    orders,         \* what the strategy asked for, in order
    scheduled,      \* at most one order
    position,
    cash,
    mark,
    trades          \* the fill events, in order

portfolioVars == <<position, cash, mark, trades>>
vars == <<bar, stage, orders, scheduled, portfolioVars>>

Bars == [seq : -1 .. LastBar, open : Prices, close : Prices]

Init ==
    /\ bar \in {b \in Bars : b.seq = -1}
    /\ stage = "idle"
    /\ orders = <<>>
    /\ scheduled = {}
    /\ position = 0
    /\ cash = InitialCapital
    /\ mark = 0
    /\ trades = <<>>

TakeBar(b) ==
    /\ stage = "idle"
    /\ b.seq = bar.seq + 1
    /\ bar' = b
    /\ stage' = "open"
    /\ UNCHANGED <<orders, scheduled, portfolioVars>>

-----------------------------------------------------------------------------
(* The open: the order of the last close *)

FillPrice(o) == IF o.side = "BUY" THEN bar.open + Cost ELSE bar.open - Cost

Signed(o) == IF o.side = "BUY" THEN o.quantity ELSE -o.quantity

Affordable(o) == o.side = "BUY" => o.quantity * FillPrice(o) <= cash

Trade(o) ==
    [seq |-> bar.seq, side |-> o.side, quantity |-> o.quantity,
     price |-> FillPrice(o)]

ExecuteAtOpen(o) ==
    /\ stage = "open"
    /\ o.signal < bar.seq
    /\ Affordable(o)
    /\ o.side = "SELL" => o.quantity <= position
    /\ position' = position + Signed(o)
    /\ cash' = cash - Signed(o) * FillPrice(o)
    /\ mark' = FillPrice(o)
    /\ trades' = Append(trades, Trade(o))
    /\ scheduled' = {}
    /\ UNCHANGED <<bar, stage, orders>>

(* insufficient_cash_at_fill                                                *)
CancelAtOpen(o) ==
    /\ stage = "open"
    /\ o.signal < bar.seq
    /\ ~Affordable(o)
    /\ scheduled' = {}
    /\ UNCHANGED <<bar, stage, orders, portfolioVars>>

(* LookAheadError, or the portfolio refuses a short sale.                   *)
RaiseAtOpen(o) ==
    /\ stage = "open"
    /\ o.signal >= bar.seq \/ (o.side = "SELL" /\ o.quantity > position)
    /\ stage' = "failed"
    /\ UNCHANGED <<bar, orders, scheduled, portfolioVars>>

MarkAtClose ==
    /\ stage = "open"
    /\ scheduled = {}
    /\ mark' = bar.close
    /\ stage' = "close"
    /\ UNCHANGED <<bar, orders, scheduled, position, cash, trades>>

-----------------------------------------------------------------------------
(* The close: the orders of the strategy *)

RiskAccepts(side, q) ==
    LET held == position * bar.close
        after == (position + (IF side = "BUY" THEN q ELSE -q)) * bar.close
    IN  /\ q * bar.close <= RiskConfig.orderValue
        /\ side = "SELL" => q <= position
        /\ after <= RiskConfig.positionValue
        /\ position * mark - held + after <= RiskConfig.totalExposure

Decide(side, q) ==
    /\ stage \in {"close", "orders"}
    /\ stage' = "orders"
    /\ orders' = Append(orders, [side |-> side, quantity |-> q])
    /\ UNCHANGED <<bar, portfolioVars>>

RejectOrder(side, q) ==
    /\ Decide(side, q)
    /\ ~RiskAccepts(side, q)
    /\ UNCHANGED scheduled

(* no_next_bar_for_execution                                                *)
CancelLastOrder(side, q) ==
    /\ Decide(side, q)
    /\ RiskAccepts(side, q)
    /\ bar.seq = LastBar
    /\ UNCHANGED scheduled

ScheduleOrder(side, q) ==
    /\ Decide(side, q)
    /\ RiskAccepts(side, q)
    /\ bar.seq < LastBar
    /\ scheduled' = {[side |-> side, quantity |-> q, signal |-> bar.seq]}

(* generate_signal or generate_orders raises out of run().                  *)
StrategyRaises ==
    /\ stage = "close"
    /\ stage' = "failed"
    /\ UNCHANGED <<bar, orders, scheduled, portfolioVars>>

EndBar ==
    /\ stage \in {"close", "orders"}
    /\ stage' = "idle"
    /\ UNCHANGED <<bar, orders, scheduled, portfolioVars>>

Next ==
    \/ \E b \in Bars : TakeBar(b)
    \/ \E o \in scheduled : ExecuteAtOpen(o) \/ CancelAtOpen(o) \/ RaiseAtOpen(o)
    \/ MarkAtClose
    \/ \E side \in {"BUY", "SELL"}, q \in 1 .. MaxQuantity :
          \/ RejectOrder(side, q)
          \/ CancelLastOrder(side, q)
          \/ ScheduleOrder(side, q)
    \/ StrategyRaises
    \/ EndBar

Spec == Init /\ [][Next]_vars
=============================================================================
