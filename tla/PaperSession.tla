---------------------------- MODULE PaperSession ----------------------------
(***************************************************************************)
(* paper/session.py with paper/execution.py, paper/risk.py, risk/limits.py,*)
(* backtest/portfolio.py and paper/reconciliation.py: a session that takes *)
(* market events one by one.  An event first executes, at its open, the    *)
(* orders scheduled for it, in the order of their creation; then, at its   *)
(* close, the strategy may create orders, which risk accepts for the next  *)
(* sequence number or rejects.  Slippage and costs are one amount per unit,*)
(* against the order on either side.                                       *)
(***************************************************************************)
EXTENDS PaperOrders, FiniteSetsExt

CONSTANTS
    Prices,
    Cost,           \* slippage and costs of a unit
    InitialCash,
    PartialFill,    \* remaining quantity -> what one open fills of it
    Limit,          \* the ceilings of PaperRiskConfig, three of which may be
                    \* Unlimited
    Contiguous      \* the stream has every sequence number

(* None, for the ceilings on orders, turnover and loss.                     *)
Unlimited == -1

ASSUME PriceAssumption ==
    /\ Prices \subseteq Nat
    /\ Cost \in Nat
    /\ \A p \in Prices : Cost <= p
ASSUME CashAssumption == InitialCash \in Nat \ {0}
ASSUME FillAssumption ==
    /\ PartialFill \in [1 .. MaxQuantity -> Nat]
    /\ \A q \in 1 .. MaxQuantity : PartialFill[q] \in 1 .. q
ASSUME LimitAssumption ==
    /\ Limit \in [{"orderNotional", "positionQuantity", "positionNotional",
                   "exposure", "turnover", "orderCount", "dailyLoss"}
                      -> Nat \cup {Unlimited}]
    /\ \A c \in {"orderNotional", "positionQuantity", "positionNotional",
                  "exposure"} : Limit[c] \in Nat
ASSUME ContiguousAssumption == Contiguous \in BOOLEAN

VARIABLES
    phase,          \* created, started or stopped
    halted,
    killed,
    stage,          \* of the event in progress: idle, open, close (the
                    \* strategy decides) or orders (it has decided)
    event,          \* the last event taken
    due,            \* orders its open has still to execute
    placed,         \* number of intents
    intents,
    pending,
    position,
    cash,
    mark,
    fills,          \* per symbol, the net quantity of the fills
    fillCash,       \* net cash of the fills
    orderCount,
    turnover

bookVars == <<position, cash, fills, fillCash>>
riskVars == <<killed, orderCount, turnover>>
orderVars == <<placed, intents, pending>>
vars == <<phase, halted, stage, event, due, mark,
          bookVars, riskVars, orderVars>>

(* Before the first event the watermark of the validator is None, here -1.  *)
Events == [seq : -1 .. MaxSeq, symbol : Symbols, open : Prices, close : Prices]

TypeOK ==
    /\ phase \in {"created", "started", "stopped"}
    /\ halted \in BOOLEAN
    /\ killed \in BOOLEAN
    /\ stage \in {"idle", "open", "close", "orders"}
    /\ event \in Events
    /\ placed \in 0 .. MaxOrders
    /\ intents \in [1 .. placed -> Intents]
    /\ pending \in SUBSET (1 .. placed)
    /\ due \in SUBSET (1 .. placed)
    /\ position \in [Symbols -> Int]
    /\ cash \in Int
    /\ mark \in [Symbols -> Nat]
    /\ fills \in [Symbols -> Int]
    /\ fillCash \in Int
    /\ orderCount \in Nat
    /\ turnover \in Nat

Init ==
    /\ phase = "created"
    /\ halted = FALSE
    /\ killed = FALSE
    /\ stage = "idle"
    /\ event \in {e \in Events : e.seq = -1}
    /\ due = {}
    /\ placed = 0
    /\ intents = [i \in 1 .. 0 |-> 0]
    /\ pending = {}
    /\ position = [s \in Symbols |-> 0]
    /\ cash = InitialCash
    /\ mark = [s \in Symbols |-> 0]
    /\ fills = [s \in Symbols |-> 0]
    /\ fillCash = 0
    /\ orderCount = 0
    /\ turnover = 0

Ready == phase = "started" /\ ~halted /\ stage = "idle"

Halt ==
    /\ halted' = TRUE
    /\ stage' = "idle"

-----------------------------------------------------------------------------
(* Start, kill switch and events *)

Start ==
    /\ phase = "created"
    /\ phase' = "started"
    /\ UNCHANGED <<halted, stage, event, due, mark, bookVars,
                   riskVars, orderVars>>

ActivateKillSwitch ==
    /\ stage = "idle"
    /\ killed' = TRUE
    /\ UNCHANGED <<phase, halted, stage, event, due, mark, bookVars,
                   orderCount, turnover, orderVars>>

ResetKillSwitch ==
    /\ stage = "idle"
    /\ killed' = FALSE
    /\ UNCHANGED <<phase, halted, stage, event, due, mark, bookVars,
                   orderCount, turnover, orderVars>>

DueAfter(o, e) == o.scheduled = e.seq + 1 /\ o.symbol = e.symbol

Due(o, e) == o.scheduled = e.seq /\ o.symbol = e.symbol

(* A valid event: its number follows the watermark.                         *)
TakeEvent(e) ==
    /\ Ready
    /\ e.seq > event.seq
    /\ Contiguous => e.seq = event.seq + 1
    /\ event' = e
    /\ stage' = "open"
    /\ due' = {i \in pending : Due(intents[i], e)}
    /\ UNCHANGED <<phase, halted, mark, bookVars, riskVars, orderVars>>

(* Bad prices, a duplicate, an old number or time, an unknown instrument or *)
(* a closed session.                                                        *)
RefuseEvent ==
    /\ Ready
    /\ Halt
    /\ UNCHANGED <<phase, event, due, mark, bookVars, riskVars, orderVars>>

-----------------------------------------------------------------------------
(* The open of the event: execute_at_open for each due order *)

(* What one open fills of an order: all that remains or a ratio of it, at   *)
(* least one unit, as a residual below 1e-9 counts as filled.               *)
FillQuantity(o) == PartialFill[Remaining(o)]

FillPriceAtClose(o) ==
    IF o.side = "BUY" THEN event.close + Cost ELSE event.close - Cost

FillPrice(o) == IF o.side = "BUY" THEN event.open + Cost ELSE event.open - Cost

Executable(o) ==
    IF o.side = "BUY" THEN FillQuantity(o) * FillPrice(o) <= cash
    ELSE FillQuantity(o) <= position[o.symbol]

SignedQuantity(o, q) == IF o.side = "BUY" THEN q ELSE -q

NextOpenIsThis == event.seq

NextOpenSkipsOne == event.seq + 2

NextOpen == event.seq + 1

Filled(o, q) ==
    [o EXCEPT !.filled = @ + q,
              !.status = IF q = Remaining(o) THEN "FILLED" ELSE "PARTIALLY_FILLED",
              !.scheduled = IF q = Remaining(o) THEN @ ELSE NextOpen]

CashAfterWithoutCosts(o, q) == cash - SignedQuantity(o, q) * event.open

CashAfter(o, q) == cash - SignedQuantity(o, q) * FillPrice(o)

First(i) == i \in due /\ \A j \in due : i <= j

Fill(i) ==
    LET o == intents[i]
        q == FillQuantity(o)
    IN  /\ First(i)
        /\ Executable(o)
        /\ intents' = [intents EXCEPT ![i] = Filled(o, q)]
        /\ position' = [position EXCEPT ![o.symbol] = @ + SignedQuantity(o, q)]
        /\ cash' = CashAfter(o, q)
        /\ fills' = [fills EXCEPT ![o.symbol] = @ + SignedQuantity(o, q)]
        /\ fillCash' = fillCash - SignedQuantity(o, q) * FillPrice(o)
        /\ mark' = [mark EXCEPT ![o.symbol] = FillPrice(o)]
        /\ due' = due \ {i}
        /\ UNCHANGED <<phase, halted, stage, event, riskVars,
                       placed, pending>>

(* Not enough cash or position.                                             *)
RejectAtOpen(i) ==
    /\ First(i)
    /\ ~Executable(intents[i])
    /\ "REJECTED" \in Allowed[intents[i].status]
    /\ intents' = [intents EXCEPT ![i].status = "REJECTED"]
    /\ due' = due \ {i}
    /\ UNCHANGED <<phase, halted, stage, event, mark, bookVars,
                   riskVars, placed, pending>>

(* The rejection is an illegal transition: an exception halts the session   *)
(* and leaves the list of pending orders as it was before the event.        *)
RaiseAtOpen(i) ==
    /\ First(i)
    /\ ~Executable(intents[i])
    /\ "REJECTED" \notin Allowed[intents[i].status]
    /\ Halt
    /\ due' = {}
    /\ UNCHANGED <<phase, event, mark, bookVars, riskVars, orderVars>>

StillPendingUnlessPartial == {i \in pending : intents[i].status = "ACCEPTED"}

StillPending == {i \in pending : IsLive(intents[i])}

Close ==
    /\ stage = "open"
    /\ due = {}
    /\ stage' = "close"
    /\ pending' = StillPending
    /\ mark' = [mark EXCEPT ![event.symbol] = event.close]
    /\ UNCHANGED <<phase, halted, event, due, bookVars, riskVars,
                   placed, intents>>

-----------------------------------------------------------------------------
(* The close of the event: the strategy's orders and risk *)

Exposure ==
    SumFunctionOnSet([s \in Symbols |-> position[s] * mark[s]], Symbols)

PositionAfter(side, q) ==
    position[event.symbol] + (IF side = "BUY" THEN q ELSE -q)

Within(ceiling, x) == Limit[ceiling] = Unlimited \/ x <= Limit[ceiling]

WithinCeilings(side, q) ==
    /\ Within("orderCount", orderCount + 1)
    /\ q * event.close <= Limit["orderNotional"]
    /\ PositionAfter(side, q) <= Limit["positionQuantity"]
    /\ Within("turnover", turnover + q * event.close)
    /\ Within("dailyLoss", InitialCash - (cash + Exposure))

(* RiskEngine.check_order: no short sale, notional ceilings.                *)
CoreAccepts(side, q) ==
    LET after == PositionAfter(side, q) * event.close
    IN  /\ side = "SELL" => q <= position[event.symbol]
        /\ after <= Limit["positionNotional"]
        /\ Exposure - position[event.symbol] * event.close + after
             <= Limit["exposure"]

Accepts(side, q) == ~killed /\ WithinCeilings(side, q) /\ CoreAccepts(side, q)

NewIntent(side, q, status, seq) ==
    [symbol |-> event.symbol, side |-> side, quantity |-> q, filled |-> 0,
     status |-> status, scheduled |-> seq]

AddIntent(o) ==
    /\ placed' = placed + 1
    /\ intents' = [i \in 1 .. placed + 1 |->
                      IF i = placed + 1 THEN o ELSE intents[i]]

CountBuysOnly(side) == IF side = "BUY" THEN orderCount + 1 ELSE orderCount

Count(side) == orderCount + 1

AcceptOrder(side, q) ==
    /\ stage \in {"close", "orders"}
    /\ stage' = "orders"
    /\ placed < MaxOrders
    /\ Accepts(side, q)
    /\ AddIntent(NewIntent(side, q, "ACCEPTED", NextOpen))
    /\ pending' = pending \cup {placed + 1}
    /\ orderCount' = Count(side)
    /\ turnover' = turnover + q * event.close
    /\ UNCHANGED <<phase, halted, killed, event, due, mark,
                   bookVars>>

RejectOrder(side, q) ==
    /\ stage \in {"close", "orders"}
    /\ stage' = "orders"
    /\ placed < MaxOrders
    /\ ~Accepts(side, q)
    /\ AddIntent(NewIntent(side, q, "REJECTED", 0))
    /\ UNCHANGED <<phase, halted, event, due, mark, bookVars,
                   riskVars, pending>>

StrategyRaises ==
    /\ stage = "close"
    /\ Halt
    /\ UNCHANGED <<phase, event, due, mark, bookVars, riskVars, orderVars>>

EndEvent ==
    /\ stage \in {"close", "orders"}
    /\ stage' = "idle"
    /\ UNCHANGED <<phase, halted, event, due, mark, bookVars,
                   riskVars, orderVars>>

-----------------------------------------------------------------------------
(* Stop *)

(* reconcile_paper_state, with negative cash prohibited.                    *)
BooksReconcile ==
    /\ \A s \in Symbols : position[s] = fills[s] /\ position[s] >= 0
    /\ cash = InitialCash + fillCash
    /\ cash >= 0

Stop ==
    /\ phase # "created"
    /\ stage = "idle"
    /\ phase' = "stopped"
    /\ halted' = (halted \/ ~BooksReconcile)
    /\ UNCHANGED <<stage, event, due, mark, bookVars, riskVars, orderVars>>

OpenStep == \E i \in due : Fill(i) \/ RejectAtOpen(i) \/ RaiseAtOpen(i)

Next ==
    \/ Start
    \/ ActivateKillSwitch
    \/ ResetKillSwitch
    \/ \E e \in Events : TakeEvent(e)
    \/ RefuseEvent
    \/ \E i \in due : Fill(i)
    \/ \E i \in due : RejectAtOpen(i)
    \/ \E i \in due : RaiseAtOpen(i)
    \/ Close
    \/ \E side \in {"BUY", "SELL"}, q \in 1 .. MaxQuantity : AcceptOrder(side, q)
    \/ \E side \in {"BUY", "SELL"}, q \in 1 .. MaxQuantity : RejectOrder(side, q)
    \/ StrategyRaises
    \/ EndEvent
    \/ Stop

Spec == Init /\ [][Next]_vars

(* run_paper_session feeds every event and finishes the one it is in.       *)
FairSpec ==
    /\ Spec
    /\ WF_vars(\E e \in Events : TakeEvent(e))
    /\ WF_vars(OpenStep)
    /\ WF_vars(Close)
    /\ WF_vars(EndEvent)

-----------------------------------------------------------------------------
(* Properties *)

Live(i) == IsLive(intents[i])

(* The list of pending orders is exactly the accepted orders that are not   *)
(* decided yet: none is lost or executed twice over an event.               *)
PendingAreLive ==
    ~halted /\ stage # "open" => pending = {i \in 1 .. placed : Live(i)}

(* The status of an intent tells what was filled of it; in particular what  *)
(* a rejection follows was never filled in part.                            *)
StatusTellsFill ==
    \A i \in 1 .. placed :
        LET o == intents[i]
        IN  /\ o.status = "FILLED" <=> o.filled = o.quantity
            /\ o.status = "PARTIALLY_FILLED" <=> o.filled \in 1 .. o.quantity - 1

SignedFilled ==
    [i \in 1 .. placed |-> SignedQuantity(intents[i], intents[i].filled)]

OrdersIn(s) == {i \in 1 .. placed : intents[i].symbol = s}

FilledNet(s) == SumFunctionOnSet(SignedFilled, OrdersIn(s))

(* Portfolio, fills and intents tell the same story at every step, so that  *)
(* the reconciliation of stop() never fails.                                *)
BooksAgree ==
    BooksReconcile /\ \A s \in Symbols : position[s] = FilledNet(s)

(* No step overdraws the cash or sells what is not held, whatever was       *)
(* accepted against the same cash or position.                              *)
NoOverdraft == cash >= 0 /\ \A s \in Symbols : position[s] >= 0

(* The life of an order: legal transitions only, no fill is taken back, a   *)
(* decided order stays as it is, and an order is filled at the open of the  *)
(* event it was scheduled for, never in the event it was decided in.        *)
OrderStep(o, p) ==
    /\ <<p.symbol, p.side, p.quantity>> = <<o.symbol, o.side, o.quantity>>
    /\ p.status # o.status => p.status \in Allowed[o.status]
    /\ p.filled \in o.filled .. o.quantity
    /\ p # o => IsLive(o)
    /\ p.filled # o.filled =>
           stage = "open" /\ o.scheduled = event.seq /\ o.symbol = event.symbol

NewOrder(p) ==
    /\ p.filled = 0
    /\ IsLive(p) => p.scheduled = event.seq + 1

OrderLifecycle ==
    [][/\ \A i \in 1 .. placed : OrderStep(intents[i], intents'[i])
       /\ \A i \in (1 .. placed') \ (1 .. placed) : NewOrder(intents'[i])]_vars

LiveBuys(s) ==
    {i \in 1 .. placed : Live(i) /\ intents[i].side = "BUY" /\ intents[i].symbol = s}

(* No buy is accepted while another of its symbol is undecided.  Nothing in *)
(* the code sees to that; a strategy may.                                   *)
BuyAlone ==
    \A i \in (1 .. placed') \ (1 .. placed) :
        LET o == intents'[i]
        IN  IsLive(o) /\ o.side = "BUY" => LiveBuys(o.symbol) = {}

OneBuyAtATime == [][BuyAlone]_vars

(* The ceiling on the quantity of a position, which risk compares with what *)
(* is held and the new order only, holds for what is held later.            *)
PositionCeiling == \A s \in Symbols : position[s] <= Limit["positionQuantity"]

Accepted == {i \in 1 .. placed : intents[i].scheduled # 0}

(* Risk counts each accepted order once, and the session never exceeds the  *)
(* order and turnover ceilings.                                             *)
CountersMatchOrders ==
    /\ orderCount = Cardinality(Accepted)
    /\ Within("orderCount", orderCount)
    /\ Within("turnover", turnover)

(* Between events every pending order is scheduled for an event to come.    *)
NoMissedOpen ==
    ~halted /\ stage = "idle" =>
        \A i \in pending : intents[i].scheduled > event.seq

Decided(i) == IF i <= placed THEN ~Live(i) ELSE FALSE

DecidableInTime(i) ==
    IF i <= placed
    THEN Live(i) /\ intents[i].scheduled + Remaining(intents[i]) <= MaxSeq + 1
    ELSE FALSE

(* An accepted order is filled or rejected before the stream ends, whenever *)
(* there are events enough for its partial fills and nothing ends the       *)
(* session.                                                                 *)
OrdersAreDecided ==
    \A i \in 1 .. MaxOrders :
        DecidableInTime(i)
            ~> Decided(i) \/ halted \/ phase = "stopped"
=============================================================================
