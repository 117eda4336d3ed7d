----------------------------- MODULE MockBroker -----------------------------
(***************************************************************************)
(* execution/mock_broker.py behind execution/dry_run.py: the in-process    *)
(* venue of the Phase 9 gateway.  Its behaviour is fixed when the gateway  *)
(* is configured; connect and disconnect follow start and stop.            *)
(***************************************************************************)
EXTENDS LiveRisk

CONSTANT DefaultPrice    \* what the venue charges when no price is quoted

ASSUME PriceAssumption == DefaultPrice \in Nat \ {0}

VARIABLES
    behavior,     \* MockBehavior
    connected,
    venue,        \* _orders: client id -> record
    venuePos,     \* _positions
    venueCash     \* _cash

venueVars == <<behavior, connected, venue, venuePos, venueCash>>

MockBehavior == {"FILL", "PARTIAL", "REJECT", "TIMEOUT_UNKNOWN", "DISCONNECT"}

VenueTypeOK ==
    /\ behavior \in MockBehavior
    /\ connected \in BOOLEAN
    /\ venue \in [ClientIds -> Record]
    /\ venuePos \in [Symbols -> Int]
    /\ venueCash \in Int

VenueInit ==
    /\ behavior \in MockBehavior
    /\ connected = FALSE
    /\ venue = [c \in ClientIds |-> NoRecord]
    /\ venuePos = [s \in Symbols |-> 0]
    /\ venueCash = InitialCash

Connect == connected' = (behavior # "DISCONNECT")

Disconnect == connected' = FALSE

(* get_order: an order the venue never saw is reported UNKNOWN.             *)
View(c) ==
    IF venue[c].state = "NONE"
    THEN [state |-> "UNKNOWN", filled |-> 0]
    ELSE venue[c]

Unreachable == ~connected \/ behavior = "DISCONNECT"

VenuePrice(price) == IF price > 0 THEN price ELSE DefaultPrice

SignedFillQuantity(order) == SignedQuantity(order, order.quantity)

FillQuantity(order) ==
    IF behavior = "PARTIAL" THEN order.quantity \div 2 ELSE order.quantity

FillState == IF behavior = "PARTIAL" THEN "PARTIALLY_FILLED" ELSE "FILLED"

Affordable(order, price) ==
    IF order.side = "BUY"
    THEN FillQuantity(order) * VenuePrice(price) <= venueCash
    ELSE FillQuantity(order) <= venuePos[order.symbol]

(* submit_order, one operator per outcome.                                  *)
VenueUnknown(c) ==
    \/ /\ Unreachable
       /\ UNCHANGED venueVars
    \/ /\ ~Unreachable
       /\ behavior = "TIMEOUT_UNKNOWN"
       /\ venue' = [venue EXCEPT ![c] = [state |-> "UNKNOWN", filled |-> 0]]
       /\ UNCHANGED <<behavior, connected, venuePos, venueCash>>

VenueReject(c, order, price) ==
    /\ ~Unreachable
    /\ \/ behavior = "REJECT"
       \/ behavior \in {"FILL", "PARTIAL"} /\ ~Affordable(order, price)
    /\ venue' = [venue EXCEPT ![c] = [state |-> "REJECTED", filled |-> 0]]
    /\ UNCHANGED <<behavior, connected, venuePos, venueCash>>

VenueFill(c, order, price) ==
    LET filled == FillQuantity(order)
        signed == SignedQuantity(order, filled)
    IN  /\ ~Unreachable
        /\ behavior \in {"FILL", "PARTIAL"}
        /\ Affordable(order, price)
        /\ venue' = [venue EXCEPT ![c] = [state |-> FillState, filled |-> filled]]
        /\ venuePos' = [venuePos EXCEPT ![order.symbol] = @ + signed]
        /\ venueCash' = venueCash - signed * VenuePrice(price)
        /\ UNCHANGED <<behavior, connected>>

(* DryRunTransport.cancel -> cancel_order of an order the venue still has   *)
(* open; unknown and terminal orders are answered without a change.         *)
VenueCancel(c) ==
    /\ venue[c].state \notin {"NONE", "FILLED", "REJECTED", "CANCELLED"}
    /\ venue' = [venue EXCEPT ![c].state = "CANCELLED"]
    /\ UNCHANGED <<behavior, connected, venuePos, venueCash>>
=============================================================================
