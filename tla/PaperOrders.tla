---------------------------- MODULE PaperOrders ----------------------------
(***************************************************************************)
(* paper/orders.py: the order intents of a paper session and the legal     *)
(* transitions of their status.  Prices and quantities are whole units.    *)
(***************************************************************************)
EXTENDS Integers

CONSTANTS
    Symbols,
    MaxQuantity,    \* bound: quantity of an order
    MaxOrders,      \* bound: orders a session creates
    MaxSeq          \* bound: sequence numbers of the events

ASSUME QuantityAssumption == MaxQuantity \in Nat \ {0}
ASSUME OrdersAssumption == MaxOrders \in Nat
ASSUME SeqAssumption == MaxSeq \in Nat

PaperOrderStatus ==
    {"CREATED", "VALIDATED", "ACCEPTED", "PARTIALLY_FILLED", "FILLED",
     "REJECTED", "CANCELLED", "EXPIRED"}

(* _ALLOWED *)
Allowed ==
    [s \in PaperOrderStatus |->
        CASE s = "CREATED" -> {"VALIDATED", "REJECTED"}
          [] s = "VALIDATED" -> {"ACCEPTED", "REJECTED"}
          [] s = "ACCEPTED" ->
                {"PARTIALLY_FILLED", "FILLED", "CANCELLED", "EXPIRED", "REJECTED"}
          [] s = "PARTIALLY_FILLED" -> {"FILLED", "CANCELLED", "EXPIRED"}
          [] OTHER -> {}]

Intents ==
    [symbol : Symbols, side : {"BUY", "SELL"}, quantity : 1 .. MaxQuantity,
     filled : 0 .. MaxQuantity, status : PaperOrderStatus,
     scheduled : 0 .. MaxSeq + 1]

Remaining(o) == o.quantity - o.filled

IsLive(o) == o.status \in {"ACCEPTED", "PARTIALLY_FILLED"}
=============================================================================
