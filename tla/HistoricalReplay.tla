-------------------------- MODULE HistoricalReplay --------------------------
(***************************************************************************)
(* paper/replay.py, phase13/session_runner.py and phase13/drift.py: the    *)
(* recorded bars of one symbol, fed to a paper session one after another,  *)
(* with a strategy that orders at most once at a close, as                 *)
(* Strategy.generate_orders does.  Phase 13 compares the fills, the cash   *)
(* and the equity of the session with those of a backtest of the same bars *)
(* and calls any difference critical.  Here the comparison is step by      *)
(* step: the replay implements BacktestEngine.                             *)
(***************************************************************************)
EXTENDS PaperSession, Sequences

CONSTANT Symbol     \* the bars have numbers 0 to MaxSeq

(* PartialFillPolicy.ALL_OR_NOTHING, the default.                           *)
WholeFills == \A q \in 1 .. MaxQuantity : PartialFill[q] = q

(* As in a default PaperRiskConfig, whose ceilings on notionals are those   *)
(* of the RiskConfig the backtest of the drift check has: a million units   *)
(* and a notional of a hundred thousand.                                    *)
DefaultCeilings ==
    /\ \A c \in {"orderCount", "turnover", "dailyLoss"} : Limit[c] = Unlimited
    /\ Limit["positionNotional"] <= Limit["positionQuantity"]

(* What the drift check compares: every bar of one symbol, at real prices.  *)
DriftAssumptions ==
    /\ Symbols = {Symbol}
    /\ Contiguous
    /\ 0 \notin Prices
    /\ WholeFills
    /\ DefaultCeilings

VARIABLE trades     \* the fills of the session, in order

replayVars == <<vars, trades>>

ReplayInit == Init /\ trades = <<>>

Trade(o) ==
    [seq |-> event.seq, side |-> o.side, quantity |-> FillQuantity(o),
     price |-> FillPrice(o)]

ReplayStart == Start /\ UNCHANGED trades

ReplayEvent(e) == TakeEvent(e) /\ UNCHANGED trades

ReplayFill(i) == Fill(i) /\ trades' = Append(trades, Trade(intents[i]))

ReplayRejectAtOpen(i) == RejectAtOpen(i) /\ UNCHANGED trades

ReplayClose == Close /\ UNCHANGED trades

(* One decision of the strategy at the close.                               *)
ReplayAccept(side, q) ==
    /\ stage = "close"
    /\ AcceptOrder(side, q)
    /\ UNCHANGED trades

ReplayReject(side, q) ==
    /\ stage = "close"
    /\ RejectOrder(side, q)
    /\ UNCHANGED trades

ReplayRaise == StrategyRaises /\ UNCHANGED trades

ReplayEnd == EndEvent /\ UNCHANGED trades

(* After the last bar, or the halt that broke the loop.                     *)
ReplayStop ==
    /\ phase = "started"
    /\ halted \/ event.seq = MaxSeq
    /\ Stop
    /\ UNCHANGED trades

ReplayNext ==
    \/ ReplayStart
    \/ \E e \in Events : ReplayEvent(e)
    \/ \E i \in due : ReplayFill(i)
    \/ \E i \in due : ReplayRejectAtOpen(i)
    \/ ReplayClose
    \/ \E side \in {"BUY", "SELL"}, q \in 1 .. MaxQuantity : ReplayAccept(side, q)
    \/ \E side \in {"BUY", "SELL"}, q \in 1 .. MaxQuantity : ReplayReject(side, q)
    \/ ReplayRaise
    \/ ReplayEnd
    \/ ReplayStop

ReplaySpec == ReplayInit /\ [][ReplayNext]_replayVars

-----------------------------------------------------------------------------
(* The backtest of the same bars and orders *)

(* Orders not executed yet: during an open, those it has still to execute.  *)
WaitingOrders == IF stage = "open" THEN due ELSE pending

BacktestOrder(i) ==
    [side |-> intents[i].side, quantity |-> Remaining(intents[i]),
     signal |-> intents[i].scheduled - 1]

BacktestScheduled ==
    {BacktestOrder(i) : i \in {j \in WaitingOrders : intents[j].scheduled <= MaxSeq}}

BacktestBar == [seq |-> event.seq, open |-> event.open, close |-> event.close]

BacktestStage == IF halted THEN "failed" ELSE stage

BacktestOrders ==
    [i \in 1 .. placed |->
       [side |-> intents[i].side, quantity |-> intents[i].quantity]]

BT == INSTANCE BacktestEngine WITH
    InitialCapital <- InitialCash,
    LastBar <- MaxSeq,
    RiskConfig <- [orderValue |-> Limit["orderNotional"],
                   positionValue |-> Limit["positionNotional"],
                   totalExposure |-> Limit["exposure"]],
    bar <- BacktestBar,
    stage <- BacktestStage,
    orders <- BacktestOrders,
    scheduled <- BacktestScheduled,
    position <- position[Symbol],
    mark <- mark[Symbol]

(* What Phase 13 expects of the same bars, strategy, costs and capital when *)
(* an open fills whole orders and only the ceilings of the backtest bind:   *)
(* no drift.  The session fills the same quantities at the same prices and  *)
(* bars, refuses the same orders and holds the same cash and position.      *)
BacktestSpec == BT!Spec
=============================================================================
