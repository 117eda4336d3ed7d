-------------------------- MODULE ExecutionGateway --------------------------
(***************************************************************************)
(* execution/gateway.py and execution/recovery.py: the Phase 9 facade that *)
(* takes an order intent through authorization, risk and the idempotency   *)
(* store to the venue, keeps its own position and cash books, and          *)
(* reconciles them.  Calls are synchronous in one thread, so one action is *)
(* one call; a call that only refuses changes nothing but the audit log    *)
(* and is not an action.                                                   *)
(***************************************************************************)
EXTENDS MockBroker, FiniteSetsExt

CONSTANT Prices     \* reference prices a caller may quote

ASSUME PricesAssumption == Prices \subseteq Nat

VARIABLES
    evidence,       \* research and paper evidence in GatewayConfig is complete
    started,        \* _started
    eligible,       \* eligibility.live_eligible, decided by start
    approved,       \* the operator approved this session
    killed,         \* kill_switch.is_triggered
    blocked,        \* _blocked
    verdict,        \* what recover_gateway last answered
    store,          \* IdempotencyStore: client id -> record
    epoch,          \* _intent_epochs
    position,       \* internal_positions
    cash,           \* internal_cash
    capitalUsed,    \* session_capital_used
    orderCount,     \* risk.order_count
    turnover        \* risk.turnover

controlVars == <<evidence, started, eligible, approved, killed, blocked, verdict>>
bookVars == <<store, epoch, position, cash, capitalUsed, orderCount, turnover>>
vars == <<controlVars, bookVars, venueVars>>

Verdicts == {"none", "recovered", "unresolved", "failed"}

TypeOK ==
    /\ VenueTypeOK
    /\ evidence \in BOOLEAN
    /\ started \in BOOLEAN
    /\ eligible \in BOOLEAN
    /\ approved \in BOOLEAN
    /\ killed \in BOOLEAN
    /\ blocked \in BOOLEAN
    /\ verdict \in Verdicts
    /\ store \in [ClientIds -> Record]
    /\ epoch \in [Intents -> 0 .. MaxEpoch]
    /\ position \in [Symbols -> Int]
    /\ cash \in Int
    /\ capitalUsed \in Int
    /\ orderCount \in Nat
    /\ turnover \in Int

Init ==
    /\ VenueInit
    /\ evidence \in BOOLEAN
    /\ started = FALSE
    /\ eligible = FALSE
    /\ approved = FALSE
    /\ killed = FALSE
    /\ blocked = FALSE
    /\ verdict = "none"
    /\ store = [c \in ClientIds |-> NoRecord]
    /\ epoch = [i \in Intents |-> 0]
    /\ position = [s \in Symbols |-> 0]
    /\ cash = InitialCash
    /\ capitalUsed = 0
    /\ orderCount = 0
    /\ turnover = 0

-----------------------------------------------------------------------------
(* Session control *)

Start ==
    /\ eligible' = (evidence /\ ~killed)
    /\ Connect
    /\ started' = TRUE
    /\ UNCHANGED <<evidence, approved, killed, blocked, verdict, bookVars,
                   behavior, venue, venuePos, venueCash>>

ApproveOperator ==
    /\ approved' = TRUE
    /\ UNCHANGED <<evidence, started, eligible, killed, blocked, verdict,
                   bookVars, venueVars>>

ActivateKillSwitch ==
    /\ killed' = TRUE
    /\ UNCHANGED <<evidence, started, eligible, approved, blocked, verdict,
                   bookVars, venueVars>>

(* KillSwitch.reset, an explicit operator call on the gateway's switch.     *)
ResetKillSwitch ==
    /\ killed
    /\ killed' = FALSE
    /\ UNCHANGED <<evidence, started, eligible, approved, blocked, verdict,
                   bookVars, venueVars>>

(* stop disconnects the venue and leaves the gateway started.               *)
Stop ==
    /\ Disconnect
    /\ UNCHANGED <<controlVars, bookVars, behavior, venue, venuePos, venueCash>>

-----------------------------------------------------------------------------
(* Submission *)

Exposure(price) ==
    SumFunctionOnSet([s \in Symbols |-> position[s] * price], Symbols)

(* The refusals that come before any look at the order.                     *)
SessionOpen(requireLive, requireOperator) ==
    /\ started
    /\ ~blocked
    /\ ~killed
    /\ requireLive => eligible
    /\ requireOperator => approved

(* validate_order_capabilities: whole shares only (an even number of        *)
(* halves).  Every modelled order is a MARKET order.                        *)
Capable(order) == order.quantity % 2 = 0

MaySubmit(i, price, requireLive, requireOperator) ==
    LET order == OrderOf[i]
    IN  /\ SessionOpen(requireLive, requireOperator)
        /\ Capable(order)
        /\ CheckOrder(order, price, position[order.symbol], Exposure(price),
                      cash, capitalUsed, orderCount, turnover)
        /\ CanRetry(store, i)
        /\ epoch[i] < MaxEpoch

PutUnknownAsFilled(c, state, filled) ==
    store' = [store EXCEPT ![c] =
                 [state |-> IF state = "UNKNOWN" THEN "FILLED" ELSE state,
                  filled |-> filled]]

PutRecord(c, state, filled) ==
    store' = [store EXCEPT ![c] = [state |-> state, filled |-> filled]]

(* _apply_internal_fill: the books after a fill ...                          *)
PositionOfWholeOrder(order, filled) ==
    [position EXCEPT ![order.symbol] = @ + SignedQuantity(order, order.quantity)]

PositionAfter(order, filled) ==
    [position EXCEPT ![order.symbol] = @ + SignedQuantity(order, filled)]

CashPaidOnBothSides(order, filled, price) == cash - filled * VenuePrice(price)

CashAfter(order, filled, price) ==
    cash - SignedQuantity(order, filled) * VenuePrice(price)

(* ... together with risk.record_accepted.                                  *)
BookFill(order, filled, price) ==
    /\ position' = PositionAfter(order, filled)
    /\ cash' = CashAfter(order, filled, price)
    /\ capitalUsed' = IF order.side = "BUY"
                      THEN capitalUsed + filled * VenuePrice(price)
                      ELSE capitalUsed
    /\ orderCount' = orderCount + 1
    /\ turnover' = turnover + filled * price

SubmitUnknown(i, c) ==
    /\ VenueUnknown(c)
    /\ PutRecord(c, "UNKNOWN", 0)
    /\ UNCHANGED <<epoch, position, cash, capitalUsed, orderCount, turnover>>

SubmitRejectedSameEpoch(i, c, price) ==
    /\ VenueReject(c, OrderOf[i], price)
    /\ PutRecord(c, "REJECTED", 0)
    /\ UNCHANGED <<epoch, position, cash, capitalUsed, orderCount, turnover>>

SubmitRejected(i, c, price) ==
    /\ VenueReject(c, OrderOf[i], price)
    /\ PutRecord(c, "REJECTED", 0)
    /\ epoch' = [epoch EXCEPT ![i] = @ + 1]
    /\ UNCHANGED <<position, cash, capitalUsed, orderCount, turnover>>

SubmitFilled(i, c, price) ==
    /\ VenueFill(c, OrderOf[i], price)
    /\ PutRecord(c, FillState, FillQuantity(OrderOf[i]))
    /\ epoch' = [epoch EXCEPT ![i] = @ + 1]
    /\ BookFill(OrderOf[i], FillQuantity(OrderOf[i]), price)

SubmitIntent(i, price, requireLive, requireOperator) ==
    LET c == <<i, epoch[i]>>
    IN  /\ MaySubmit(i, price, requireLive, requireOperator)
        /\ \/ SubmitUnknown(i, c)
           \/ SubmitRejected(i, c, price)
           \/ SubmitFilled(i, c, price)
        /\ UNCHANGED controlVars

Cancel(c) ==
    /\ VenueCancel(c)
    /\ UNCHANGED <<controlVars, bookVars>>

-----------------------------------------------------------------------------
(* Reconciliation and recovery *)

(* The per-order issues of reconcile_live_state; UNKNOWN on both sides is   *)
(* not one.                                                                 *)
OrderIssue(c) ==
    /\ store[c].state # "NONE"
    /\ \/ store[c].state = "FILLED" /\ View(c).state = "UNKNOWN"
       \/ store[c].state = "UNKNOWN" /\ View(c).state = "FILLED"
       \/ /\ store[c].state \in {"ACKNOWLEDGED", "SUBMITTED", "PARTIALLY_FILLED"}
          /\ View(c).state = "CANCELLED"
       \/ View(c).state = "UNKNOWN" /\ store[c].filled > 0

ReconcileOk ==
    /\ \A c \in ClientIds : ~OrderIssue(c)
    /\ position = venuePos
    /\ cash = venueCash

ReconcileEffects ==
    /\ blocked' = (blocked \/ ~ReconcileOk)
    /\ killed' = (killed \/ ~ReconcileOk)
    /\ UNCHANGED <<evidence, started, eligible, approved, bookVars, venueVars>>

Reconcile ==
    /\ ReconcileEffects
    /\ UNCHANGED verdict

(* An UNKNOWN record the venue reports FILLED, or still UNKNOWN.            *)
Unresolved(c) ==
    /\ store[c].state = "UNKNOWN"
    /\ View(c).state \in {"FILLED", "UNKNOWN"}

(* recover_gateway gives up before it reconciles.                           *)
RecoverUnresolved ==
    /\ started
    /\ \E c \in ClientIds : Unresolved(c)
    /\ verdict' = "unresolved"
    /\ UNCHANGED <<evidence, started, eligible, approved, killed, blocked,
                   bookVars, venueVars>>

RecoverReconcile ==
    /\ started
    /\ \A c \in ClientIds : ~Unresolved(c)
    /\ ReconcileEffects
    /\ verdict' = IF ReconcileOk /\ ~killed THEN "recovered" ELSE "failed"

-----------------------------------------------------------------------------
Next ==
    \/ Start
    \/ ApproveOperator
    \/ ActivateKillSwitch
    \/ ResetKillSwitch
    \/ Stop
    \/ \E i \in Intents, price \in Prices, live, operator \in BOOLEAN :
           SubmitIntent(i, price, live, operator)
    \/ \E c \in ClientIds : Cancel(c)
    \/ Reconcile
    \/ RecoverUnresolved
    \/ RecoverReconcile

Spec == Init /\ [][Next]_vars

-----------------------------------------------------------------------------
(* Properties *)

(* The gateway's books are the venue's: positions and cash are kept twice,  *)
(* from the response on one side and from the fill on the other, and agree  *)
(* after every call, whatever the venue's behaviour.                        *)
BooksAgree == position = venuePos /\ cash = venueCash

(* The idempotency store knows the venue's outcome of every submission:     *)
(* equal fills, and a record is UNKNOWN only if the venue holds no fill for *)
(* it.  Only a cancel, which bypasses the store, makes the states differ.   *)
StoreMatchesVenue ==
    \A c \in ClientIds :
        /\ store[c].filled = venue[c].filled
        /\ store[c].state = "UNKNOWN" =>
               venue[c].state \in {"NONE", "UNKNOWN", "CANCELLED"}
        /\ store[c].state \notin {"UNKNOWN", "PARTIALLY_FILLED"} =>
               venue[c].state = store[c].state

(* _intent_epochs and the store move together: every epoch below the        *)
(* counter was answered, the one at the counter is unused or still          *)
(* ambiguous, and none above it exists.  So a client order id is never      *)
(* reused for an attempt that was answered.                                 *)
UnknownRecord == [state |-> "UNKNOWN", filled |-> 0]

EpochDiscipline ==
    \A i \in Intents, e \in Epochs :
        /\ e < epoch[i] =>
               store[<<i, e>>].state \in {"REJECTED", "FILLED", "PARTIALLY_FILLED"}
        /\ e = epoch[i] => store[<<i, e>>] \in {NoRecord, UnknownRecord}
        /\ e > epoch[i] => store[<<i, e>>] = NoRecord

(* The internal position is exactly what the recorded submissions filled:   *)
(* no fill is booked twice, none is booked for an UNKNOWN or a rejection.   *)
SignedFill == [c \in ClientIds |-> SignedQuantity(OrderOf[c[1]], store[c].filled)]

IdsOf(s) == {c \in ClientIds : OrderOf[c[1]].symbol = s}

FillsOf(s) == SumFunctionOnSet(SignedFill, IdsOf(s))

FillsExplainPosition == \A s \in Symbols : position[s] = FillsOf(s)

(* No sequence of intents overdraws the venue account or sells short.       *)
NoOverdraft == venueCash >= 0 /\ \A s \in Symbols : venuePos[s] >= 0

(* Whatever was filled, no level of the capital hierarchy is exceeded:      *)
(* neither capital in use, nor turnover, nor the number of filled orders.   *)
LimitsHold ==
    \A level \in Levels :
        /\ Within(capitalUsed, level["capital"])
        /\ Within(turnover, level["turnover"])
        /\ Within(orderCount, level["orderCount"])

(* While the kill switch stays triggered, or once the gateway is blocked,   *)
(* no order reaches the venue and no fill is booked (freeze only).          *)
Frozen == (killed /\ killed') \/ blocked

NothingSubmitted ==
    /\ \A c \in ClientIds :
           venue[c].state = "NONE" => venue'[c].state = "NONE"
    /\ UNCHANGED <<store, position, venuePos, cash>>

FreezeStopsSubmission == [][Frozen => NothingSubmitted]_vars

(* A venue order may still be working or ambiguous.                         *)
Live(c) ==
    /\ store[c].state \notin TerminalBrokerStates
    /\ venue[c].state \notin TerminalBrokerStates

AttemptStatus(c) ==
    IF store[c].state = "NONE" THEN "absent"
    ELSE IF Live(c) THEN "outstanding" ELSE "closed"

(* The gateway implements the submission discipline of IntentSubmission,    *)
(* the attempts of an intent being its epochs.                              *)
Submission ==
    INSTANCE IntentSubmission
        WITH Attempts <- Epochs,
             attempts <- [i \in Intents |->
                             [e \in Epochs |-> AttemptStatus(<<i, e>>)]]

SubmissionDiscipline == Submission!Spec

=============================================================================
