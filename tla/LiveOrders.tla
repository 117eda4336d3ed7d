----------------------------- MODULE LiveOrders -----------------------------
(***************************************************************************)
(* The vocabulary of execution/live_orders.py: broker order states, client *)
(* order ids and the pre-submit idempotency records.  Quantities are in    *)
(* half shares, so that the mock venue's 0.5 partial fill of a whole-share *)
(* order is an integer; money is in half rupees for the same reason.       *)
(***************************************************************************)
EXTENDS Integers, FiniteSets

CONSTANTS
    Intents,    \* intent ids a strategy may hand to the gateway
    Symbols,    \* instruments
    OrderOf,    \* OrderOf[i]: the order wrapped by intent i
    MaxEpoch    \* bound: submissions of one intent the model follows

Sides == {"BUY", "SELL"}

Order == [symbol : Symbols, side : Sides, quantity : Nat \ {0}]

ASSUME OrdersAssumption == OrderOf \in [Intents -> Order]
ASSUME EpochAssumption == MaxEpoch \in Nat \ {0}
ASSUME IntentsAssumption == IsFiniteSet(Intents)

BrokerOrderState ==
    {"UNKNOWN", "CREATED", "SUBMITTED", "ACKNOWLEDGED", "OPEN",
     "PARTIALLY_FILLED", "FILLED", "CANCEL_PENDING", "CANCELLED",
     "REJECTED", "EXPIRED"}

TerminalBrokerStates == {"FILLED", "CANCELLED", "REJECTED", "EXPIRED"}

(* make_client_order_id hashes (session, intent, epoch): within a session   *)
(* the pair itself.                                                        *)
Epochs == 0 .. (MaxEpoch - 1)
ClientIds == Intents \X Epochs

(* An IdempotencyRecord, or a venue order; "NONE" where there is none.      *)
Record == [state : BrokerOrderState \cup {"NONE"}, filled : Nat]
NoRecord == [state |-> "NONE", filled |-> 0]

(* The states that make IdempotencyStore.can_retry refuse an intent.        *)
NoRetryWithoutPartialFills ==
    {"UNKNOWN", "SUBMITTED", "ACKNOWLEDGED", "OPEN", "CANCEL_PENDING"}

NoRetryStates ==
    {"UNKNOWN", "SUBMITTED", "ACKNOWLEDGED", "OPEN", "PARTIALLY_FILLED",
     "CANCEL_PENDING"}

CanRetry(store, i) ==
    \A e \in Epochs : store[<<i, e>>].state \notin NoRetryStates
=============================================================================
