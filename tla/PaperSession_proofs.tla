------------------------ MODULE PaperSession_proofs ------------------------
(***************************************************************************)
(* Theorems about PaperSession, for every set of symbols and prices, every *)
(* cost, cash, ceiling and partial-fill function, and every bound.         *)
(***************************************************************************)
EXTENDS HistoricalReplay, FiniteSums

-----------------------------------------------------------------------------
(* The inductive invariant of the order lists *)

(* Orders are due only while an event's open is being executed, a halted    *)
(* session is in no event, and an event in progress has a number.           *)
StageInv ==
    /\ stage # "open" => due = {}
    /\ halted => stage = "idle"
    /\ stage # "idle" => event.seq \in 0 .. MaxSeq

(* What is due is pending and undecided; what is undecided is pending until *)
(* a halt; and outside an open nothing else is pending.                     *)
PendingInv ==
    /\ \A i \in due : i \in pending /\ Live(i)
    /\ ~halted => \A i \in 1 .. placed : Live(i) => i \in pending
    /\ ~halted /\ stage # "open" => \A i \in pending : Live(i)

(* No order is filled beyond its quantity, and its status tells how far.    *)
FillInv ==
    /\ \A i \in 1 .. placed : intents[i].filled <= intents[i].quantity
    /\ StatusTellsFill

IInv == TypeOK /\ StageInv /\ PendingInv /\ FillInv

-----------------------------------------------------------------------------
(* Lemmas *)

(* The product of two naturals is a natural.                                *)
LEMMA ProductNat == ASSUME NEW a \in Nat, NEW b \in Nat PROVE a * b \in Nat
    OBVIOUS

(* An order that is due has something left, the open fills a part of it     *)
(* that is positive and no more than that, and at a natural price.          *)
LEMMA FillFacts ==
    ASSUME IInv, NEW i \in due
    PROVE  /\ i \in 1 .. placed
           /\ intents[i] \in Intents
           /\ IsLive(intents[i])
           /\ FillQuantity(intents[i]) \in 1 .. Remaining(intents[i])
           /\ Remaining(intents[i]) \in 1 .. MaxQuantity
           /\ FillPrice(intents[i]) \in Nat
           /\ FillQuantity(intents[i]) * FillPrice(intents[i]) \in Nat
    <1> DEFINE o == intents[i]
    <1>1. i \in 1 .. placed /\ o \in Intents /\ IsLive(o)
        BY DEF IInv, TypeOK, PendingInv, Live
    <1>2. o.filled <= o.quantity /\ (o.status = "FILLED" <=> o.filled = o.quantity)
        BY <1>1 DEF IInv, FillInv, StatusTellsFill
    <1>3. Remaining(o) \in 1 .. MaxQuantity
        BY <1>1, <1>2, QuantityAssumption DEF IsLive, Remaining, Intents
    <1>4. FillQuantity(o) \in 1 .. Remaining(o)
        BY <1>3, FillAssumption DEF FillQuantity
    <1>5. event.open \in Prices
        BY DEF IInv, TypeOK, Events
    <1>6. FillPrice(o) \in Nat
        <2>1. event.open \in Nat /\ Cost \in Nat /\ Cost <= event.open
            BY <1>5, PriceAssumption
        <2>2. event.open + Cost \in Nat /\ event.open - Cost \in Nat
            BY <2>1
        <2> QED
            BY <2>2 DEF FillPrice
    <1>7. FillQuantity(o) \in Nat
        BY <1>3, <1>4
    <1> HIDE DEF o
    <1>8. FillQuantity(o) * FillPrice(o) \in Nat
        BY <1>6, <1>7, ProductNat
    <1> QED
        BY <1>1, <1>3, <1>4, <1>6, <1>8 DEF o

(* The updates of a fill, each from the intent as it was.                    *)
LEMMA FilledUpdates ==
    ASSUME NEW o \in Intents, NEW q \in Nat
    PROVE  Filled(o, q) =
             [o EXCEPT
                !.filled = o.filled + q,
                !.status = IF q = Remaining(o) THEN "FILLED" ELSE "PARTIALLY_FILLED",
                !.scheduled = IF q = Remaining(o) THEN o.scheduled ELSE NextOpen]
    BY DEF Filled

(* The intent after a fill is well formed, not overfilled, and its status   *)
(* tells how far it was filled.                                             *)
LEMMA FilledFacts ==
    ASSUME NEW o \in Intents, NEW q \in 1 .. Remaining(o),
           Remaining(o) \in 1 .. MaxQuantity,
           event.seq \in -1 .. MaxSeq,
           NEW f, f = Filled(o, q)
    PROVE  /\ f \in Intents
           /\ f.filled <= f.quantity
           /\ f.status = "FILLED" <=> f.filled = f.quantity
           /\ f.status = "PARTIALLY_FILLED" <=> f.filled \in 1 .. f.quantity - 1
           /\ f.status \in {"FILLED", "PARTIALLY_FILLED"}
           /\ f.scheduled \in {o.scheduled, event.seq + 1}
           /\ f.status = "PARTIALLY_FILLED" => f.scheduled = event.seq + 1
    <1> DEFINE x == o.filled + q
               y == IF q = Remaining(o) THEN "FILLED" ELSE "PARTIALLY_FILLED"
               z == IF q = Remaining(o) THEN o.scheduled ELSE NextOpen
    <1>1. q = Remaining(o) <=> x = o.quantity
        BY DEF Remaining, Intents
    <1>2. x \in 1 .. o.quantity
        BY DEF Remaining, Intents
    <1>3. f = [o EXCEPT !.filled = x, !.status = y, !.scheduled = z]
        <2>1. q \in Nat
            BY QuantityAssumption
        <2> QED
            BY <2>1, FilledUpdates
    <1>4. x \in 0 .. MaxQuantity /\ y \in PaperOrderStatus
        BY <1>2, QuantityAssumption DEF Intents, PaperOrderStatus
    <1>5. z \in 0 .. MaxSeq + 1 /\ z \in {o.scheduled, event.seq + 1}
        BY SeqAssumption DEF Intents, NextOpen
    <1>6. /\ f \in Intents
          /\ f.filled = x
          /\ f.status = y
          /\ f.scheduled = z
          /\ f.symbol = o.symbol
          /\ f.quantity = o.quantity
        <2> HIDE DEF x, y, z
        <2> QED
            BY <1>3, <1>4, <1>5 DEF Intents
    <1> QED
        BY <1>1, <1>2, <1>5, <1>6 DEF Intents, NextOpen

-----------------------------------------------------------------------------
(* Type correctness *)

LEMMA InitIInv == Init => IInv
    <1> SUFFICES ASSUME Init PROVE IInv
        OBVIOUS
    <1>1. TypeOK
        <2>1. 1 .. 0 = {} /\ placed = 0 /\ intents = [i \in 1 .. 0 |-> 0]
            BY DEF Init
        <2>2. intents \in [1 .. placed -> Intents]
            BY <2>1
        <2>3. event \in Events
            BY DEF Init
        <2>4. /\ position \in [Symbols -> Int]
              /\ mark \in [Symbols -> Nat]
              /\ fills \in [Symbols -> Int]
            BY DEF Init
        <2>5. cash \in Int /\ fillCash \in Int /\ orderCount \in Nat /\ turnover \in Nat
            BY CashAssumption DEF Init
        <2>6. placed \in 0 .. MaxOrders
            BY OrdersAssumption DEF Init
        <2>7. pending \in SUBSET (1 .. placed) /\ due \in SUBSET (1 .. placed)
            BY DEF Init
        <2>8. /\ phase \in {"created", "started", "stopped"}
              /\ halted \in BOOLEAN
              /\ killed \in BOOLEAN
              /\ stage \in {"idle", "open", "close", "orders"}
            BY DEF Init
        <2> QED
            BY <2>2, <2>3, <2>4, <2>5, <2>6, <2>7, <2>8 DEF TypeOK
    <1>2. StageInv
        BY DEF Init, StageInv
    <1>3. PendingInv
        BY OrdersAssumption DEF Init, PendingInv
    <1>4. FillInv
        BY OrdersAssumption DEF Init, FillInv, StatusTellsFill
    <1> QED
        BY <1>1, <1>2, <1>3, <1>4 DEF IInv

(* A new intent extends the function of intents.                            *)
LEMMA AddedIntent ==
    ASSUME TypeOK, NEW o \in Intents, placed < MaxOrders, AddIntent(o)
    PROVE  /\ placed' = placed + 1
           /\ placed' \in 0 .. MaxOrders
           /\ intents' \in [1 .. placed' -> Intents]
           /\ intents'[placed + 1] = o
           /\ \A i \in 1 .. placed : intents'[i] = intents[i]
           /\ 1 .. placed' = (1 .. placed) \cup {placed + 1}
    <1>1. placed \in Nat /\ placed' = placed + 1 /\ placed' \in 0 .. MaxOrders
        BY OrdersAssumption DEF TypeOK, AddIntent
    <1>2. 1 .. placed' = (1 .. placed) \cup {placed + 1}
        BY <1>1
    <1>3. intents' = [i \in 1 .. placed + 1 |->
                         IF i = placed + 1 THEN o ELSE intents[i]]
        BY DEF AddIntent
    <1>4. intents' \in [1 .. placed' -> Intents]
        BY <1>1, <1>2, <1>3 DEF TypeOK
    <1> QED
        BY <1>1, <1>2, <1>3, <1>4

(* What risk and the strategy make of an order is a well formed intent.     *)
LEMMA NewIntentType ==
    ASSUME TypeOK, NEW side \in {"BUY", "SELL"}, NEW q \in 1 .. MaxQuantity,
           NEW status \in PaperOrderStatus, NEW seq \in 0 .. MaxSeq + 1
    PROVE  NewIntent(side, q, status, seq) \in Intents
    <1>1. event.symbol \in Symbols
        BY DEF TypeOK, Events
    <1> QED
        BY <1>1, QuantityAssumption DEF NewIntent, Intents

LEMMA TypeStep == IInv /\ [Next]_vars => TypeOK'
    <1> SUFFICES ASSUME IInv, [Next]_vars PROVE TypeOK'
        OBVIOUS
    <1> USE DEF IInv
    <1>1. CASE UNCHANGED vars
        BY <1>1 DEF TypeOK, vars, bookVars, riskVars, orderVars
    <1>2. CASE Start
        BY <1>2 DEF Start, TypeOK, bookVars, riskVars, orderVars
    <1>3. CASE ActivateKillSwitch \/ ResetKillSwitch
        BY <1>3 DEF ActivateKillSwitch, ResetKillSwitch, TypeOK, bookVars, orderVars
    <1>4. CASE \E e \in Events : TakeEvent(e)
        BY <1>4 DEF TakeEvent, TypeOK, bookVars, riskVars, orderVars
    <1>5. CASE RefuseEvent
        BY <1>5 DEF RefuseEvent, Halt, TypeOK, bookVars, riskVars, orderVars
    <1>6. ASSUME NEW i \in due, Fill(i) PROVE TypeOK'
        <2> DEFINE o == intents[i]
                   q == FillQuantity(o)
        <2>1. /\ i \in 1 .. placed
              /\ o \in Intents
              /\ q \in 1 .. Remaining(o)
              /\ Remaining(o) \in 1 .. MaxQuantity
              /\ FillPrice(o) \in Nat
              /\ q * FillPrice(o) \in Nat
            BY FillFacts
        <2>2. event.seq \in -1 .. MaxSeq
            BY DEF TypeOK, Events
        <2>3. Filled(o, q) \in Intents
            BY <2>1, <2>2, FilledFacts
        <2>4. intents' \in [1 .. placed' -> Intents] /\ placed' = placed
            BY <1>6, <2>1, <2>3 DEF Fill, TypeOK
        <2>5. o.symbol \in Symbols
            BY <2>1 DEF Intents
        <2>6. q \in Int /\ SignedQuantity(o, q) \in Int
            BY <2>1, QuantityAssumption DEF SignedQuantity
        <2>7. SignedQuantity(o, q) * FillPrice(o) \in Int
            BY <2>1, <2>6 DEF SignedQuantity
        <2>8. position' \in [Symbols -> Int] /\ fills' \in [Symbols -> Int]
            BY <1>6, <2>5, <2>6 DEF Fill, TypeOK
        <2>9. cash' \in Int /\ fillCash' \in Int
            BY <1>6, <2>7 DEF Fill, CashAfter, TypeOK
        <2>10. mark' \in [Symbols -> Nat] /\ due' \in SUBSET (1 .. placed)
            BY <1>6, <2>1, <2>5 DEF Fill, TypeOK
        <2> QED
            BY <1>6, <2>4, <2>8, <2>9, <2>10 DEF Fill, TypeOK, riskVars
    <1>7. ASSUME NEW i \in due, RejectAtOpen(i) PROVE TypeOK'
        <2>1. [intents[i] EXCEPT !.status = "REJECTED"] \in Intents
            BY FillFacts DEF Intents, PaperOrderStatus
        <2>2. intents' \in [1 .. placed' -> Intents] /\ placed' = placed
            BY <1>7, <2>1 DEF RejectAtOpen, TypeOK
        <2> QED
            BY <1>7, <2>2 DEF RejectAtOpen, TypeOK, bookVars, riskVars
    <1>8. CASE \E i \in due : RaiseAtOpen(i)
        BY <1>8 DEF RaiseAtOpen, Halt, TypeOK, bookVars, riskVars, orderVars
    <1>9. CASE Close
        <2>1. event.symbol \in Symbols /\ event.close \in Nat
            BY PriceAssumption DEF TypeOK, Events
        <2> QED
            BY <1>9, <2>1 DEF Close, StillPending, TypeOK, bookVars, riskVars
    <1>10. ASSUME NEW side \in {"BUY", "SELL"}, NEW q \in 1 .. MaxQuantity,
                  AcceptOrder(side, q)
           PROVE  TypeOK'
        <2>1. NextOpen \in 0 .. MaxSeq + 1
            BY SeqAssumption DEF NextOpen, TypeOK, Events
        <2>2. NewIntent(side, q, "ACCEPTED", NextOpen) \in Intents
            BY <2>1, NewIntentType DEF PaperOrderStatus
        <2>3. /\ placed' = placed + 1
              /\ placed' \in 0 .. MaxOrders
              /\ intents' \in [1 .. placed' -> Intents]
              /\ 1 .. placed' = (1 .. placed) \cup {placed + 1}
            BY <1>10, <2>2, AddedIntent DEF AcceptOrder
        <2>4. q \in Nat /\ event.close \in Nat
            <3>1. q \in Nat
                BY QuantityAssumption
            <3>2. event.close \in Prices
                BY DEF TypeOK, Events
            <3> QED
                BY <3>1, <3>2, PriceAssumption
        <2>5. q * event.close \in Nat
            BY <2>4, ProductNat
        <2>6. turnover' \in Nat /\ orderCount' \in Nat
            BY <1>10, <2>5 DEF AcceptOrder, Count, TypeOK
        <2>7. pending' \in SUBSET (1 .. placed') /\ due' \in SUBSET (1 .. placed')
            BY <1>10, <2>3 DEF AcceptOrder, TypeOK
        <2> QED
            BY <1>10, <2>3, <2>6, <2>7 DEF AcceptOrder, TypeOK, bookVars
    <1>11. ASSUME NEW side \in {"BUY", "SELL"}, NEW q \in 1 .. MaxQuantity,
                  RejectOrder(side, q)
           PROVE  TypeOK'
        <2>1. NewIntent(side, q, "REJECTED", 0) \in Intents
            BY SeqAssumption, NewIntentType DEF PaperOrderStatus
        <2>2. /\ placed' \in 0 .. MaxOrders
              /\ intents' \in [1 .. placed' -> Intents]
              /\ 1 .. placed' = (1 .. placed) \cup {placed + 1}
            BY <1>11, <2>1, AddedIntent DEF RejectOrder
        <2>3. pending' \in SUBSET (1 .. placed') /\ due' \in SUBSET (1 .. placed')
            BY <1>11, <2>2 DEF RejectOrder, TypeOK
        <2> QED
            BY <1>11, <2>2, <2>3 DEF RejectOrder, TypeOK, bookVars, riskVars
    <1>12. CASE StrategyRaises
        BY <1>12 DEF StrategyRaises, Halt, TypeOK, bookVars, riskVars, orderVars
    <1>13. CASE EndEvent
        BY <1>13 DEF EndEvent, TypeOK, bookVars, riskVars, orderVars
    <1>14. CASE Stop
        BY <1>14 DEF Stop, TypeOK, bookVars, riskVars, orderVars
    <1> QED
        BY <1>1, <1>2, <1>3, <1>4, <1>5, <1>6, <1>7, <1>8, <1>9, <1>10, <1>11,
           <1>12, <1>13, <1>14 DEF Next

-----------------------------------------------------------------------------
(* The order lists *)

LEMMA StageStep == IInv /\ [Next]_vars => StageInv'
    <1> SUFFICES ASSUME IInv, [Next]_vars PROVE StageInv'
        OBVIOUS
    <1> USE DEF IInv
    <1>1. CASE UNCHANGED vars
        BY <1>1 DEF StageInv, vars
    <1>2. CASE Start \/ ActivateKillSwitch \/ ResetKillSwitch
        BY <1>2 DEF Start, ActivateKillSwitch, ResetKillSwitch, StageInv
    <1>3. ASSUME NEW e \in Events, TakeEvent(e) PROVE StageInv'
        <2>1. e.seq \in 0 .. MaxSeq
            BY <1>3, SeqAssumption DEF TakeEvent, TypeOK, Events
        <2> QED
            BY <1>3, <2>1 DEF TakeEvent, Ready, StageInv
    <1>4. CASE RefuseEvent
        BY <1>4 DEF RefuseEvent, Ready, Halt, StageInv
    <1>5. ASSUME NEW i \in due, Fill(i) \/ RejectAtOpen(i) PROVE StageInv'
        BY <1>5 DEF Fill, RejectAtOpen, StageInv
    <1>6. ASSUME NEW i \in due, RaiseAtOpen(i) PROVE StageInv'
        BY <1>6 DEF RaiseAtOpen, Halt, StageInv
    <1>7. CASE Close
        BY <1>7 DEF Close, StageInv
    <1>8. ASSUME NEW side, NEW q, AcceptOrder(side, q) \/ RejectOrder(side, q)
          PROVE  StageInv'
        BY <1>8 DEF AcceptOrder, RejectOrder, StageInv
    <1>9. CASE StrategyRaises
        BY <1>9 DEF StrategyRaises, Halt, StageInv
    <1>10. CASE EndEvent \/ Stop
        BY <1>10 DEF EndEvent, Stop, StageInv
    <1> QED
        BY <1>1, <1>2, <1>3, <1>4, <1>5, <1>6, <1>7, <1>8, <1>9, <1>10 DEF Next

LEMMA PendingStep == IInv /\ [Next]_vars => PendingInv'
    <1> SUFFICES ASSUME IInv, [Next]_vars PROVE PendingInv'
        OBVIOUS
    <1> USE DEF IInv
    <1>1. CASE UNCHANGED vars
        BY <1>1 DEF PendingInv, Live, vars, orderVars
    <1>2. CASE Start \/ ActivateKillSwitch \/ ResetKillSwitch
        BY <1>2 DEF Start, ActivateKillSwitch, ResetKillSwitch, PendingInv, Live,
                    orderVars
    <1>3. CASE \E e \in Events : TakeEvent(e)
        BY <1>3 DEF TakeEvent, Ready, PendingInv, Live, orderVars
    <1>4. CASE RefuseEvent \/ StrategyRaises
        BY <1>4 DEF RefuseEvent, StrategyRaises, Halt, PendingInv, Live, orderVars
    <1>5. ASSUME NEW i \in due, Fill(i) PROVE PendingInv'
        <2>1. stage = "open" /\ ~halted /\ stage' = stage /\ halted' = halted
            BY <1>5 DEF Fill, StageInv
        <2>2. intents' = [intents EXCEPT
                            ![i] = Filled(intents[i], FillQuantity(intents[i]))]
            BY <1>5 DEF Fill
        <2>3. pending' = pending /\ placed' = placed /\ due' = due \ {i}
            BY <1>5 DEF Fill
        <2>4. i \in pending /\ i \in 1 .. placed
            BY DEF PendingInv, TypeOK
        <2>5. \A j \in 1 .. placed : j # i => intents'[j] = intents[j]
            BY <2>2 DEF TypeOK
        <2>6. \A j \in due' : j \in pending' /\ Live(j)'
            BY <2>3, <2>5 DEF PendingInv, Live, TypeOK
        <2>7. \A j \in 1 .. placed' : Live(j)' => j \in pending'
            BY <2>1, <2>3, <2>4, <2>5 DEF PendingInv, Live
        <2> QED
            BY <2>1, <2>6, <2>7 DEF PendingInv
    <1>6. ASSUME NEW i \in due, RejectAtOpen(i) PROVE PendingInv'
        <2>1. stage = "open" /\ ~halted /\ stage' = stage /\ halted' = halted
            BY <1>6 DEF RejectAtOpen, StageInv
        <2>2. pending' = pending /\ placed' = placed /\ due' = due \ {i}
            BY <1>6 DEF RejectAtOpen
        <2>3. i \in pending /\ i \in 1 .. placed
            BY DEF PendingInv, TypeOK
        <2>4. \A j \in 1 .. placed : j # i => intents'[j] = intents[j]
            BY <1>6 DEF RejectAtOpen, TypeOK
        <2>5. \A j \in due' : j \in pending' /\ Live(j)'
            BY <2>2, <2>4 DEF PendingInv, Live, TypeOK
        <2>6. \A j \in 1 .. placed' : Live(j)' => j \in pending'
            BY <2>1, <2>2, <2>3, <2>4 DEF PendingInv, Live
        <2> QED
            BY <2>1, <2>5, <2>6 DEF PendingInv
    <1>7. ASSUME NEW i \in due, RaiseAtOpen(i) PROVE PendingInv'
        BY <1>7 DEF RaiseAtOpen, Halt, PendingInv, Live, orderVars
    <1>8. CASE Close
        BY <1>8 DEF Close, StillPending, PendingInv, Live
    <1>9. ASSUME NEW side \in {"BUY", "SELL"}, NEW q \in 1 .. MaxQuantity,
                 AcceptOrder(side, q)
          PROVE  PendingInv'
        <2> DEFINE o == NewIntent(side, q, "ACCEPTED", NextOpen)
        <2>1. NextOpen \in 0 .. MaxSeq + 1
            BY SeqAssumption DEF NextOpen, TypeOK, Events
        <2>2. o \in Intents
            BY <2>1, NewIntentType DEF PaperOrderStatus
        <2>3. /\ placed' = placed + 1
              /\ intents'[placed + 1] = o
              /\ \A i \in 1 .. placed : intents'[i] = intents[i]
              /\ 1 .. placed' = (1 .. placed) \cup {placed + 1}
            BY <1>9, <2>2, AddedIntent DEF AcceptOrder
        <2>4. pending' = pending \cup {placed + 1} /\ due' = {} /\ due = {}
            BY <1>9 DEF AcceptOrder, StageInv
        <2>5. IsLive(intents'[placed + 1])
            BY <2>3 DEF IsLive, NewIntent
        <2>6. \A i \in 1 .. placed : Live(i)' <=> Live(i)
            BY <2>3 DEF Live
        <2>7. ~halted /\ ~halted' /\ stage # "open" /\ stage' # "open"
            BY <1>9 DEF AcceptOrder, StageInv
        <2>8. pending \subseteq 1 .. placed
            BY DEF TypeOK
        <2> QED
            BY <2>3, <2>4, <2>5, <2>6, <2>7, <2>8 DEF PendingInv, Live
    <1>10. ASSUME NEW side \in {"BUY", "SELL"}, NEW q \in 1 .. MaxQuantity,
                  RejectOrder(side, q)
           PROVE  PendingInv'
        <2> DEFINE o == NewIntent(side, q, "REJECTED", 0)
        <2>1. o \in Intents
            BY SeqAssumption, NewIntentType DEF PaperOrderStatus
        <2>2. /\ placed' = placed + 1
              /\ intents'[placed + 1] = o
              /\ \A i \in 1 .. placed : intents'[i] = intents[i]
              /\ 1 .. placed' = (1 .. placed) \cup {placed + 1}
            BY <1>10, <2>1, AddedIntent DEF RejectOrder
        <2>3. pending' = pending /\ due' = {} /\ due = {}
            BY <1>10 DEF RejectOrder, StageInv
        <2>4. ~IsLive(intents'[placed + 1])
            BY <2>2 DEF IsLive, NewIntent
        <2>5. \A i \in 1 .. placed : Live(i)' <=> Live(i)
            BY <2>2 DEF Live
        <2>6. ~halted /\ ~halted' /\ stage # "open" /\ stage' # "open"
            BY <1>10 DEF RejectOrder, StageInv
        <2>7. pending \subseteq 1 .. placed
            BY DEF TypeOK
        <2> QED
            BY <2>2, <2>3, <2>4, <2>5, <2>6, <2>7 DEF PendingInv, Live
    <1>11. CASE EndEvent \/ Stop
        BY <1>11 DEF EndEvent, Stop, StageInv, PendingInv, Live, orderVars
    <1> QED
        BY <1>1, <1>2, <1>3, <1>4, <1>5, <1>6, <1>7, <1>8, <1>9, <1>10, <1>11
        DEF Next

LEMMA FillInvStep == IInv /\ [Next]_vars => FillInv'
    <1> SUFFICES ASSUME IInv, [Next]_vars PROVE FillInv'
        OBVIOUS
    <1> USE DEF IInv
    <1>1. CASE UNCHANGED <<intents, placed>>
        BY <1>1 DEF FillInv, StatusTellsFill
    <1>2. ASSUME NEW i \in due, Fill(i) PROVE FillInv'
        <2> DEFINE f == Filled(intents[i], FillQuantity(intents[i]))
        <2>1. event.seq \in -1 .. MaxSeq
            BY DEF TypeOK, Events
        <2>2. /\ f.filled <= f.quantity
              /\ f.status = "FILLED" <=> f.filled = f.quantity
              /\ f.status = "PARTIALLY_FILLED" <=> f.filled \in 1 .. f.quantity - 1
            BY <2>1, FillFacts, FilledFacts
        <2>3. intents' = [intents EXCEPT ![i] = f] /\ placed' = placed
            BY <1>2 DEF Fill
        <2>4. /\ intents'[i] = f
              /\ \A j \in 1 .. placed : j # i => intents'[j] = intents[j]
            BY <2>3, FillFacts DEF TypeOK
        <2> HIDE DEF f
        <2> QED
            BY <2>2, <2>3, <2>4 DEF FillInv, StatusTellsFill
    <1>3. ASSUME NEW i \in due, RejectAtOpen(i) PROVE FillInv'
        <2> DEFINE o == intents[i]
                   r == [o EXCEPT !.status = "REJECTED"]
        <2>1. i \in 1 .. placed /\ o \in Intents /\ IsLive(o)
            BY FillFacts
        <2>2. o.status = "ACCEPTED"
            BY <1>3, <2>1 DEF RejectAtOpen, IsLive, Allowed, PaperOrderStatus
        <2>3. o.filled = 0
            BY <2>1, <2>2 DEF FillInv, StatusTellsFill, Intents
        <2>4. r.status = "REJECTED" /\ r.filled = 0 /\ r.quantity = o.quantity
            BY <2>1, <2>3 DEF Intents
        <2>5. o.quantity \in 1 .. MaxQuantity
            BY <2>1 DEF Intents
        <2>6. /\ intents'[i] = r
              /\ placed' = placed
              /\ \A j \in 1 .. placed : j # i => intents'[j] = intents[j]
            BY <1>3, <2>1 DEF RejectAtOpen, TypeOK
        <2> HIDE DEF r
        <2> QED
            BY <2>4, <2>5, <2>6, QuantityAssumption DEF FillInv, StatusTellsFill
    <1>4. ASSUME NEW side \in {"BUY", "SELL"}, NEW q \in 1 .. MaxQuantity,
                 AcceptOrder(side, q) \/ RejectOrder(side, q)
          PROVE  FillInv'
        <2>1. PICK status \in {"ACCEPTED", "REJECTED"}, seq \in 0 .. MaxSeq + 1 :
                  AddIntent(NewIntent(side, q, status, seq)) /\ placed < MaxOrders
            <3>1. NextOpen \in 0 .. MaxSeq + 1 /\ 0 \in 0 .. MaxSeq + 1
                BY SeqAssumption DEF NextOpen, TypeOK, Events
            <3> QED
                BY <1>4, <3>1 DEF AcceptOrder, RejectOrder
        <2> DEFINE o == NewIntent(side, q, status, seq)
        <2>2. o \in Intents
            BY NewIntentType DEF PaperOrderStatus
        <2>3. /\ placed' = placed + 1
              /\ intents'[placed + 1] = o
              /\ \A i \in 1 .. placed : intents'[i] = intents[i]
              /\ 1 .. placed' = (1 .. placed) \cup {placed + 1}
            BY <2>1, <2>2, AddedIntent
        <2>4. /\ o.filled = 0
              /\ o.quantity = q
              /\ o.status \in {"ACCEPTED", "REJECTED"}
            BY DEF NewIntent
        <2> HIDE DEF o
        <2> QED
            BY <2>3, <2>4, QuantityAssumption DEF FillInv, StatusTellsFill
    <1> QED
        BY <1>1, <1>2, <1>3, <1>4
        DEF Next, vars, orderVars, Start, ActivateKillSwitch, ResetKillSwitch,
            TakeEvent, RefuseEvent, RaiseAtOpen, Close, StrategyRaises, EndEvent, Stop

-----------------------------------------------------------------------------
(* The theorems *)

LEMMA PaperInvariance == Spec => []IInv
    <1>1. Init => IInv
        BY InitIInv
    <1>2. IInv /\ [Next]_vars => IInv'
        BY TypeStep, StageStep, PendingStep, FillInvStep DEF IInv
    <1> QED
        BY <1>1, <1>2, PTL DEF Spec

(* The variables of a paper session stay in their types: in particular an   *)
(* order is never scheduled beyond the event after the one in progress.     *)
THEOREM PaperTypeOK == Spec => []TypeOK
    BY PaperInvariance, PTL DEF IInv

(* PaperSession keeps in self.pending exactly the undecided orders.         *)
THEOREM PaperPendingAreLive == Spec => []PendingAreLive
    <1>1. IInv => PendingAreLive
        BY DEF IInv, TypeOK, PendingInv, PendingAreLive
    <1> QED
        BY <1>1, PaperInvariance, PTL

(* An intent's status tells how much of it was filled: _ALLOWED makes it    *)
(* impossible to reject what was filled in part.                            *)
THEOREM PaperStatusTellsFill == Spec => []StatusTellsFill
    BY PaperInvariance, PTL DEF IInv, FillInv

-----------------------------------------------------------------------------
(* The life of an order *)

(* What is still due was scheduled for the event in progress, in its        *)
(* symbol.                                                                  *)
DueNow == \A i \in due : Due(intents[i], event)

LEMMA DueNowStep == IInv /\ DueNow /\ [Next]_vars => DueNow'
    <1> SUFFICES ASSUME IInv, DueNow, [Next]_vars PROVE DueNow'
        OBVIOUS
    <1> USE DEF IInv
    <1>1. CASE UNCHANGED <<event, due, intents>>
        BY <1>1 DEF DueNow, Due
    <1>2. CASE due' = {}
        BY <1>2 DEF DueNow
    <1>3. ASSUME NEW e \in Events, TakeEvent(e) PROVE DueNow'
        BY <1>3 DEF TakeEvent, DueNow, Due, orderVars
    <1>4. ASSUME NEW i \in due, Fill(i) \/ RejectAtOpen(i) PROVE DueNow'
        <2>1. due' = due \ {i} /\ event' = event
            BY <1>4 DEF Fill, RejectAtOpen
        <2>2. \A j \in due' : intents'[j] = intents[j]
            BY <1>4, <2>1 DEF Fill, RejectAtOpen, TypeOK
        <2> QED
            BY <2>1, <2>2 DEF DueNow, Due
    <1>5. ASSUME NEW side, NEW q, AcceptOrder(side, q) \/ RejectOrder(side, q)
          PROVE  due' = {}
        BY <1>5 DEF AcceptOrder, RejectOrder, StageInv
    <1> QED
        BY <1>1, <1>2, <1>3, <1>4, <1>5
        DEF Next, vars, orderVars, Start, ActivateKillSwitch, ResetKillSwitch,
            RefuseEvent, RaiseAtOpen, Close, StrategyRaises, EndEvent, Stop

(* A fill is a legal transition of an order whose open this is.             *)
LEMMA FillIsOrderStep ==
    ASSUME IInv, DueNow, NEW i \in due, Fill(i)
    PROVE  OrderStep(intents[i], intents'[i])
    <1> DEFINE o == intents[i]
               q == FillQuantity(o)
               f == Filled(o, q)
    <1>1. event.seq \in -1 .. MaxSeq
        BY DEF IInv, TypeOK, Events
    <1>2. /\ i \in 1 .. placed
          /\ o \in Intents
          /\ IsLive(o)
          /\ q \in 1 .. Remaining(o)
          /\ Remaining(o) \in 1 .. MaxQuantity
        BY FillFacts
    <1>3. /\ f \in Intents
          /\ f.filled <= f.quantity
          /\ f.status \in {"FILLED", "PARTIALLY_FILLED"}
        BY <1>1, <1>2, FilledFacts
    <1>4. q \in Nat
        BY <1>2, QuantityAssumption
    <1>5. /\ f.filled = o.filled + q
          /\ <<f.symbol, f.side, f.quantity>> = <<o.symbol, o.side, o.quantity>>
        <2> DEFINE x == o.filled + q
                   y == IF q = Remaining(o) THEN "FILLED" ELSE "PARTIALLY_FILLED"
                   z == IF q = Remaining(o) THEN o.scheduled ELSE NextOpen
        <2>1. f = [o EXCEPT !.filled = x, !.status = y, !.scheduled = z]
            BY <1>2, <1>4, FilledUpdates
        <2> HIDE DEF x, y, z, o, f
        <2>2. /\ f.filled = x
              /\ <<f.symbol, f.side, f.quantity>> = <<o.symbol, o.side, o.quantity>>
            BY <1>2, <2>1 DEF Intents
        <2> QED
            BY <2>2 DEF x
    <1>6. intents'[i] = f
        BY <1>2 DEF Fill, IInv, TypeOK
    <1>7. f.status # o.status => f.status \in Allowed[o.status]
        <2>1. o.status = "ACCEPTED" \/ o.status = "PARTIALLY_FILLED"
            BY <1>2 DEF IsLive
        <2> HIDE DEF f, o
        <2> QED
            BY <1>3, <2>1 DEF Allowed, PaperOrderStatus
    <1>8. f.filled \in o.filled .. o.quantity
        <2>1. o.filled \in Nat /\ o.quantity \in Nat
            BY <1>2, QuantityAssumption DEF Intents
        <2> HIDE DEF f, o, q
        <2> QED
            BY <1>3, <1>4, <1>5, <2>1
    <1>9. stage = "open" /\ o.scheduled = event.seq /\ o.symbol = event.symbol
        BY DEF IInv, StageInv, DueNow, Due
    <1> HIDE DEF f, o, q
    <1>10. OrderStep(o, f)
        BY <1>2, <1>5, <1>7, <1>8, <1>9 DEF OrderStep
    <1> QED
        BY <1>6, <1>10 DEF o

(* So is a rejection at the open.                                           *)
LEMMA RejectionIsOrderStep ==
    ASSUME IInv, NEW i \in due, RejectAtOpen(i)
    PROVE  OrderStep(intents[i], intents'[i])
    <1> DEFINE o == intents[i]
               r == [o EXCEPT !.status = "REJECTED"]
    <1>1. i \in 1 .. placed /\ o \in Intents /\ IsLive(o)
        BY FillFacts
    <1>2. o.filled <= o.quantity
        BY <1>1 DEF IInv, FillInv
    <1>3. /\ r.status = "REJECTED"
          /\ r.filled = o.filled
          /\ <<r.symbol, r.side, r.quantity>> = <<o.symbol, o.side, o.quantity>>
        BY <1>1 DEF Intents
    <1>4. intents'[i] = r /\ "REJECTED" \in Allowed[o.status]
        BY <1>1 DEF RejectAtOpen, IInv, TypeOK
    <1>5. o.filled \in o.filled .. o.quantity
        BY <1>1, <1>2, QuantityAssumption DEF Intents
    <1> HIDE DEF o, r
    <1>6. OrderStep(o, r)
        BY <1>1, <1>3, <1>4, <1>5 DEF OrderStep
    <1> QED
        BY <1>4, <1>6 DEF o

(* An order that stays as it is.                                            *)
LEMMA SameOrderStep ==
    ASSUME IInv, NEW i \in 1 .. placed
    PROVE  OrderStep(intents[i], intents[i])
    <1>1. intents[i] \in Intents /\ intents[i].filled <= intents[i].quantity
        BY DEF IInv, TypeOK, FillInv
    <1>2. intents[i].filled \in intents[i].filled .. intents[i].quantity
        BY <1>1, QuantityAssumption DEF Intents
    <1> QED
        BY <1>2 DEF OrderStep

LifecycleStep ==
    /\ \A i \in 1 .. placed : OrderStep(intents[i], intents'[i])
    /\ \A i \in (1 .. placed') \ (1 .. placed) : NewOrder(intents'[i])

LEMMA LifecycleOfStep == IInv /\ DueNow /\ [Next]_vars => LifecycleStep
    <1> SUFFICES ASSUME IInv, DueNow, [Next]_vars PROVE LifecycleStep
        OBVIOUS
    <1>1. CASE UNCHANGED <<intents, placed>>
        BY <1>1, SameOrderStep DEF LifecycleStep
    <1>2. ASSUME NEW i \in due, Fill(i) \/ RejectAtOpen(i) PROVE LifecycleStep
        <2>1. placed' = placed /\ i \in 1 .. placed
            BY <1>2, FillFacts DEF Fill, RejectAtOpen
        <2>2. \A j \in 1 .. placed : j # i => intents'[j] = intents[j]
            BY <1>2 DEF Fill, RejectAtOpen, IInv, TypeOK
        <2>3. OrderStep(intents[i], intents'[i])
            BY <1>2, FillIsOrderStep, RejectionIsOrderStep
        <2> QED
            BY <2>1, <2>2, <2>3, SameOrderStep DEF LifecycleStep
    <1>3. ASSUME NEW side \in {"BUY", "SELL"}, NEW q \in 1 .. MaxQuantity,
                 AcceptOrder(side, q) \/ RejectOrder(side, q)
          PROVE  LifecycleStep
        <2>1. PICK status \in {"ACCEPTED", "REJECTED"}, seq \in 0 .. MaxSeq + 1 :
                  /\ AddIntent(NewIntent(side, q, status, seq))
                  /\ placed < MaxOrders
                  /\ status = "ACCEPTED" => seq = event.seq + 1
            <3>1. NextOpen \in 0 .. MaxSeq + 1 /\ 0 \in 0 .. MaxSeq + 1
                BY SeqAssumption DEF NextOpen, IInv, TypeOK, Events
            <3> QED
                BY <1>3, <3>1 DEF AcceptOrder, RejectOrder, NextOpen
        <2> DEFINE o == NewIntent(side, q, status, seq)
        <2>2. o \in Intents
            BY NewIntentType DEF PaperOrderStatus, IInv
        <2>3. /\ intents'[placed + 1] = o
              /\ \A i \in 1 .. placed : intents'[i] = intents[i]
              /\ 1 .. placed' = (1 .. placed) \cup {placed + 1}
            BY <2>1, <2>2, AddedIntent DEF IInv
        <2>4. NewOrder(o)
            BY <2>1 DEF NewOrder, NewIntent, IsLive
        <2> HIDE DEF o
        <2> QED
            BY <2>3, <2>4, SameOrderStep DEF LifecycleStep
    <1> QED
        BY <1>1, <1>2, <1>3
        DEF Next, vars, orderVars, Start, ActivateKillSwitch, ResetKillSwitch,
            TakeEvent, RefuseEvent, RaiseAtOpen, Close, StrategyRaises, EndEvent, Stop

(* PaperSession moves an order along _ALLOWED only, takes no fill back,     *)
(* leaves a decided order alone, and fills an order in no event but the one *)
(* it was scheduled for, after the one whose close created it: a paper      *)
(* session has no look-ahead.                                               *)
THEOREM PaperOrderLifecycle == Spec => OrderLifecycle
    <1>1. Init => DueNow
        BY DEF Init, DueNow
    <1>2. IInv /\ DueNow /\ [Next]_vars => DueNow'
        BY DueNowStep
    <1>3. Spec => [](IInv /\ DueNow)
        BY <1>1, <1>2, PaperInvariance, PTL DEF Spec
    <1>4. IInv /\ DueNow /\ [Next]_vars => [LifecycleStep]_vars
        BY LifecycleOfStep
    <1>5. Spec => [][LifecycleStep]_vars
        BY <1>3, <1>4, PTL DEF Spec
    <1> QED
        BY <1>5 DEF OrderLifecycle, LifecycleStep

-----------------------------------------------------------------------------
(* The ceiling on positions *)

(* A position keeps room for what the one buy of its symbol may still fill. *)
BuyInv ==
    \A s \in Symbols :
        /\ position[s] <= Limit["positionQuantity"]
        /\ \A i \in LiveBuys(s) :
               position[s] + Remaining(intents[i]) <= Limit["positionQuantity"]
        /\ \A i, j \in LiveBuys(s) : i = j

LEMMA BuyInit == Init => BuyInv
    <1> SUFFICES ASSUME Init PROVE BuyInv
        OBVIOUS
    <1>1. 1 .. placed = {}
        BY DEF Init
    <1>2. \A s \in Symbols : position[s] = 0 /\ LiveBuys(s) = {}
        BY <1>1 DEF Init, LiveBuys
    <1>3. 0 <= Limit["positionQuantity"]
        <2>1. Limit["positionQuantity"] \in Nat
            BY LimitAssumption
        <2> QED
            BY <2>1
    <1>4. \A s \in Symbols : position[s] <= Limit["positionQuantity"]
        BY <1>2, <1>3
    <1>5. \A s \in Symbols : \A i \in LiveBuys(s) : FALSE
        BY <1>2
    <1> QED
        BY <1>4, <1>5 DEF BuyInv

(* A fill moves from the order to the position.                             *)
LEMMA BuyFill ==
    ASSUME IInv, BuyInv, NEW i \in due, Fill(i)
    PROVE  BuyInv'
    <1> DEFINE o == intents[i]
               q == FillQuantity(o)
               f == intents'[i]
               ceiling == Limit["positionQuantity"]
    <1>1. /\ i \in 1 .. placed /\ o \in Intents /\ IsLive(o)
          /\ q \in 1 .. Remaining(o) /\ Remaining(o) \in 1 .. MaxQuantity
        BY FillFacts
    <1>2. q \in Nat /\ Remaining(o) \in Nat /\ q <= Remaining(o) /\ ceiling \in Nat
        BY <1>1, QuantityAssumption, LimitAssumption
    <1>3. /\ f.filled = o.filled + q
          /\ f.symbol = o.symbol /\ f.side = o.side /\ f.quantity = o.quantity
        <2>1. f = Filled(o, q)
            BY <1>1 DEF Fill, IInv, TypeOK
        <2> DEFINE x == o.filled + q
                   y == IF q = Remaining(o) THEN "FILLED" ELSE "PARTIALLY_FILLED"
                   z == IF q = Remaining(o) THEN o.scheduled ELSE NextOpen
        <2>2. f = [o EXCEPT !.filled = x, !.status = y, !.scheduled = z]
            BY <1>1, <1>2, <2>1, FilledUpdates
        <2> HIDE DEF x, y, z, o, f
        <2>3. /\ f.filled = x
              /\ f.symbol = o.symbol /\ f.side = o.side /\ f.quantity = o.quantity
            BY <1>1, <2>2 DEF Intents
        <2> QED
            BY <2>3 DEF x
    <1>4. Remaining(f) = Remaining(o) - q
        <2>1. o.filled \in Nat /\ o.quantity \in Nat
            BY <1>1, QuantityAssumption DEF Intents
        <2> HIDE DEF f, o, q
        <2> QED
            BY <1>2, <1>3, <2>1 DEF Remaining
    <1>5. \A j \in 1 .. placed : j # i => intents'[j] = intents[j]
        BY DEF Fill, IInv, TypeOK
    <1>6. o.symbol \in Symbols /\ placed' = placed
        BY <1>1 DEF Fill, Intents
    <1>7. position' = [position EXCEPT
                         ![o.symbol] = position[o.symbol] + SignedQuantity(o, q)]
        BY <1>6 DEF Fill, IInv, TypeOK
    <1> SUFFICES ASSUME NEW s \in Symbols
                 PROVE  /\ position'[s] <= ceiling
                        /\ \A j \in LiveBuys(s)' :
                               position'[s] + Remaining(intents'[j]) <= ceiling
                        /\ \A j, k \in LiveBuys(s)' : j = k
        BY DEF BuyInv
    <1>8. position[s] \in Int /\ position[s] <= ceiling
        BY DEF IInv, TypeOK, BuyInv
    <1>9. LiveBuys(s)' \subseteq LiveBuys(s)
        <2> HIDE DEF o, f
        <2>1. \A j \in 1 .. placed : Live(j)' => Live(j)
            BY <1>1, <1>5 DEF Live, o
        <2>2. \A j \in 1 .. placed :
                  intents'[j].side = intents[j].side /\ intents'[j].symbol = intents[j].symbol
            BY <1>3, <1>5 DEF o, f
        <2> QED
            BY <1>6, <2>1, <2>2 DEF LiveBuys
    <1>10. \A j \in LiveBuys(s)' : j \in 1 .. placed
        BY <1>6 DEF LiveBuys
    <1>11. \A j \in LiveBuys(s) : position[s] + Remaining(intents[j]) <= ceiling
        BY DEF BuyInv
    <1>12. \A j, k \in LiveBuys(s) : j = k
        BY DEF BuyInv
    <1>13. \A j \in 1 .. placed : Remaining(intents[j]) \in Int
        <2> SUFFICES ASSUME NEW j \in 1 .. placed
                     PROVE  Remaining(intents[j]) \in Int
            OBVIOUS
        <2>1. intents[j] \in Intents
            BY DEF IInv, TypeOK
        <2>2. /\ intents[j].quantity \in 1 .. MaxQuantity
              /\ intents[j].filled \in 0 .. MaxQuantity
            BY <2>1 DEF Intents
        <2> QED
            BY <2>2, QuantityAssumption DEF Remaining
    <1> HIDE DEF q, f, ceiling
    <1>14. CASE o.symbol # s
        <2>1. position'[s] = position[s]
            BY <1>7, <1>14 DEF IInv, TypeOK
        <2>2. i \notin LiveBuys(s)
            BY <1>14 DEF LiveBuys
        <2> HIDE DEF o
        <2> QED
            BY <1>5, <1>8, <1>9, <1>10, <1>11, <1>12, <2>1, <2>2
    <1>15. CASE o.symbol = s /\ o.side = "BUY"
        <2>1. position'[s] = position[s] + q
            BY <1>7, <1>15 DEF IInv, TypeOK, SignedQuantity
        <2>2. i \in LiveBuys(s)
            BY <1>1, <1>15 DEF LiveBuys, Live
        <2>3. position[s] + Remaining(o) <= ceiling
            BY <1>11, <2>2
        <2>4. \A j \in LiveBuys(s)' : j = i
            BY <1>9, <1>12, <2>2
        <2> HIDE DEF o
        <2>5. position'[s] <= ceiling
            BY <1>2, <1>8, <2>1, <2>3
        <2>6. position'[s] + Remaining(f) <= ceiling
            BY <1>2, <1>4, <1>8, <2>1, <2>3
        <2> QED
            BY <2>4, <2>5, <2>6 DEF f
    <1>16. CASE o.symbol = s /\ o.side # "BUY"
        <2>1. position'[s] = position[s] - q
            BY <1>2, <1>7, <1>8, <1>16 DEF IInv, TypeOK, SignedQuantity
        <2>2. i \notin LiveBuys(s)
            BY <1>16 DEF LiveBuys
        <2> HIDE DEF o
        <2>3. position'[s] <= ceiling /\ position'[s] <= position[s] /\ position'[s] \in Int
            BY <1>2, <1>8, <2>1
        <2>4. \A j \in LiveBuys(s)' :
                  /\ j \in LiveBuys(s) /\ intents'[j] = intents[j]
                  /\ Remaining(intents[j]) \in Int
            BY <1>5, <1>9, <1>10, <1>13, <2>2
        <2>5. \A j \in LiveBuys(s)' : position'[s] + Remaining(intents'[j]) <= ceiling
            <3> TAKE j \in LiveBuys(s)'
            <3>1. /\ position[s] + Remaining(intents[j]) <= ceiling
                  /\ Remaining(intents[j]) \in Int /\ intents'[j] = intents[j]
                BY <1>11, <2>4
            <3> QED
                BY <1>2, <1>8, <2>3, <3>1
        <2> QED
            BY <1>9, <1>12, <2>3, <2>5
    <1> QED
        BY <1>14, <1>15, <1>16

(* A rejection at the open, and what risk makes of a new order.             *)
LEMMA BuyStep == IInv /\ BuyInv /\ [Next]_vars /\ [BuyAlone]_vars => BuyInv'
    <1> SUFFICES ASSUME IInv, BuyInv, [Next]_vars, [BuyAlone]_vars PROVE BuyInv'
        OBVIOUS
    <1>1. CASE UNCHANGED <<intents, placed, position>>
        BY <1>1 DEF BuyInv, LiveBuys, Live
    <1>2. ASSUME NEW i \in due, Fill(i) PROVE BuyInv'
        BY <1>2, BuyFill
    <1>3. ASSUME NEW i \in due, RejectAtOpen(i) PROVE BuyInv'
        <2>1. i \in 1 .. placed /\ intents[i] \in Intents
            BY FillFacts
        <2>2. position' = position /\ placed' = placed
            BY <1>3 DEF RejectAtOpen, bookVars
        <2>3. ~Live(i)' /\ \A j \in 1 .. placed : j # i => intents'[j] = intents[j]
            BY <1>3, <2>1 DEF RejectAtOpen, IInv, TypeOK, Live, IsLive, Intents
        <2>4. \A s \in Symbols : \A j \in LiveBuys(s)' :
                  j \in LiveBuys(s) /\ intents'[j] = intents[j]
            BY <2>2, <2>3 DEF LiveBuys, Live
        <2> QED
            BY <2>2, <2>4 DEF BuyInv
    <1>4. ASSUME NEW side \in {"BUY", "SELL"}, NEW q \in 1 .. MaxQuantity,
                 AcceptOrder(side, q) \/ RejectOrder(side, q)
          PROVE  BuyInv'
        <2>1. PICK status \in {"ACCEPTED", "REJECTED"}, seq \in 0 .. MaxSeq + 1 :
                  /\ AddIntent(NewIntent(side, q, status, seq))
                  /\ placed < MaxOrders
                  /\ status = "ACCEPTED" => Accepts(side, q)
            <3>1. NextOpen \in 0 .. MaxSeq + 1 /\ 0 \in 0 .. MaxSeq + 1
                BY SeqAssumption DEF NextOpen, IInv, TypeOK, Events
            <3> QED
                BY <1>4, <3>1 DEF AcceptOrder, RejectOrder
        <2> DEFINE o == NewIntent(side, q, status, seq)
                   n == placed + 1
        <2>2. o \in Intents
            BY NewIntentType DEF PaperOrderStatus, IInv
        <2>3. /\ placed' = n
              /\ intents'[n] = o
              /\ \A i \in 1 .. placed : intents'[i] = intents[i]
              /\ 1 .. placed' = (1 .. placed) \cup {n}
              /\ n \notin 1 .. placed
            BY <2>1, <2>2, AddedIntent DEF IInv, TypeOK
        <2>4. /\ o.side = side /\ o.symbol = event.symbol
              /\ o.status = status /\ Remaining(o) = q
            BY QuantityAssumption DEF NewIntent, Remaining
        <2>5. position' = position
            BY <1>4 DEF AcceptOrder, RejectOrder, bookVars
        <2> HIDE DEF o
        <2>6. \A s \in Symbols : \A i \in LiveBuys(s)' :
                  i # n => i \in LiveBuys(s) /\ intents'[i] = intents[i]
            BY <2>3 DEF LiveBuys, Live
        <2>7. CASE status = "ACCEPTED" /\ side = "BUY"
            <3>1. LiveBuys(event.symbol) = {}
                <4>1. BuyAlone
                    BY <2>3 DEF vars, orderVars, IInv, TypeOK
                <4> QED
                    BY <2>3, <2>4, <2>7, <4>1 DEF BuyAlone, IsLive
            <3>2. position[event.symbol] + q <= Limit["positionQuantity"]
                BY <2>1, <2>7, LimitAssumption
                DEF Accepts, WithinCeilings, PositionAfter
            <3>3. \A s \in Symbols : n \in LiveBuys(s)' => s = event.symbol
                BY <2>3, <2>4 DEF LiveBuys
            <3> SUFFICES ASSUME NEW s \in Symbols
                         PROVE  /\ position[s] <= Limit["positionQuantity"]
                                /\ \A i \in LiveBuys(s)' :
                                      position[s] + Remaining(intents'[i])
                                          <= Limit["positionQuantity"]
                                /\ \A i, j \in LiveBuys(s)' : i = j
                BY <2>5 DEF BuyInv
            <3>4. CASE s = event.symbol
                <4>1. \A i \in LiveBuys(s)' : i = n
                    BY <2>6, <3>1, <3>4
                <4> QED
                    BY <2>3, <2>4, <3>2, <3>4, <4>1 DEF BuyInv
            <3>5. CASE s # event.symbol
                <4>1. \A i \in LiveBuys(s)' :
                          i \in LiveBuys(s) /\ intents'[i] = intents[i]
                    BY <2>6, <3>3, <3>5
                <4> QED
                    BY <4>1 DEF BuyInv
            <3> QED
                BY <3>4, <3>5
        <2>8. CASE ~(status = "ACCEPTED" /\ side = "BUY")
            <3>1. \A s \in Symbols : n \notin LiveBuys(s)'
                BY <2>3, <2>4, <2>8 DEF LiveBuys, Live, IsLive
            <3>2. \A s \in Symbols : \A i \in LiveBuys(s)' :
                      i \in LiveBuys(s) /\ intents'[i] = intents[i]
                BY <2>6, <3>1
            <3> QED
                BY <2>5, <3>2 DEF BuyInv
        <2> QED
            BY <2>7, <2>8
    <1> QED
        BY <1>1, <1>2, <1>3, <1>4
        DEF Next, vars, orderVars, bookVars, Start, ActivateKillSwitch,
            ResetKillSwitch, TakeEvent, RefuseEvent, RaiseAtOpen, Close,
            StrategyRaises, EndEvent, Stop

(* PaperRisk compares the ceiling with the filled position and the new      *)
(* order.  That is enough when no buy is accepted while another of its      *)
(* symbol is undecided, whatever the partial fills, gaps and symbols.       *)
THEOREM PaperPositionCeiling == Spec /\ OneBuyAtATime => []PositionCeiling
    <1>1. BuyInv => PositionCeiling
        BY DEF BuyInv, PositionCeiling
    <1>2. Spec /\ OneBuyAtATime => []BuyInv
        BY BuyInit, BuyStep, PaperInvariance, PTL DEF Spec, OneBuyAtATime
    <1> QED
        BY <1>1, <1>2, PTL

-----------------------------------------------------------------------------
(* The books *)

BooksInv == NoOverdraft /\ BooksReconcile

LEMMA BooksInit == Init => BooksInv
    <1> SUFFICES ASSUME Init PROVE BooksInv
        OBVIOUS
    <1> QED
        BY CashAssumption DEF Init, BooksInv, NoOverdraft, BooksReconcile

LEMMA BooksStep == IInv /\ BooksInv /\ [Next]_vars => BooksInv'
    <1> SUFFICES ASSUME IInv, BooksInv, [Next]_vars PROVE BooksInv'
        OBVIOUS
    <1>1. CASE UNCHANGED bookVars
        BY <1>1 DEF BooksInv, NoOverdraft, BooksReconcile, bookVars
    <1>2. ASSUME NEW i \in due, Fill(i) PROVE BooksInv'
        <2> DEFINE o == intents[i]
                   q == FillQuantity(o)
                   d == SignedQuantity(o, q)
                   m == q * FillPrice(o)
        <2>1. /\ q \in Nat
              /\ FillPrice(o) \in Nat
              /\ m \in Nat
              /\ o.symbol \in Symbols
              /\ o.side \in {"BUY", "SELL"}
            BY FillFacts, QuantityAssumption DEF Intents
        <2>2. /\ position' = [position EXCEPT ![o.symbol] = position[o.symbol] + d]
              /\ fills' = [fills EXCEPT ![o.symbol] = fills[o.symbol] + d]
              /\ cash' = cash - d * FillPrice(o)
              /\ fillCash' = fillCash - d * FillPrice(o)
              /\ Executable(o)
            BY <1>2 DEF Fill, CashAfter
        <2>3. /\ position \in [Symbols -> Int]
              /\ fills \in [Symbols -> Int]
              /\ cash \in Int
              /\ fillCash \in Int
            BY DEF IInv, TypeOK
        <2>4. CASE o.side = "BUY"
            <3>1. d = q /\ d * FillPrice(o) = m /\ m <= cash
                BY <2>2, <2>4 DEF SignedQuantity, Executable
            <3> HIDE DEF d, m, q, o
            <3>2. cash' >= 0 /\ cash' = InitialCash + fillCash'
                BY <2>1, <2>2, <2>3, <3>1, CashAssumption DEF BooksInv, BooksReconcile
            <3>3. \A s \in Symbols : position'[s] = fills'[s] /\ position'[s] >= 0
                BY <2>1, <2>2, <2>3, <3>1 DEF BooksInv, BooksReconcile
            <3> QED
                BY <3>2, <3>3 DEF BooksInv, NoOverdraft, BooksReconcile
        <2>5. CASE o.side = "SELL"
            <3>1. d = -q /\ d * FillPrice(o) = -m
                BY <2>1, <2>5 DEF SignedQuantity
            <3>2. q <= position[o.symbol]
                BY <2>2, <2>5 DEF Executable
            <3> HIDE DEF d, m, q, o
            <3>3. cash' >= 0 /\ cash' = InitialCash + fillCash'
                BY <2>1, <2>2, <2>3, <3>1, CashAssumption DEF BooksInv, BooksReconcile
            <3>4. \A s \in Symbols : position'[s] = fills'[s] /\ position'[s] >= 0
                BY <2>1, <2>2, <2>3, <3>1, <3>2 DEF BooksInv, BooksReconcile
            <3> QED
                BY <3>3, <3>4 DEF BooksInv, NoOverdraft, BooksReconcile
        <2> QED
            BY <2>1, <2>4, <2>5
    <1> QED
        BY <1>1, <1>2
        DEF Next, vars, Start, ActivateKillSwitch, ResetKillSwitch, TakeEvent,
            RefuseEvent, RejectAtOpen, RaiseAtOpen, Close, AcceptOrder, RejectOrder,
            StrategyRaises, EndEvent, Stop

LEMMA PaperBooks == Spec => []BooksInv
    <1>1. Init => BooksInv
        BY BooksInit
    <1>2. IInv /\ BooksInv /\ [Next]_vars => BooksInv'
        BY BooksStep
    <1> QED
        BY <1>1, <1>2, PaperInvariance, PTL DEF Spec

(* The checks of execute_at_open are enough for a session never to owe cash *)
(* or stock, however many orders were accepted against the same cash or     *)
(* holding.                                                                 *)
THEOREM PaperNoOverdraft == Spec => []NoOverdraft
    BY PaperBooks, PTL DEF BooksInv

(* reconcile_paper_state finds the books in order whenever stop() calls it. *)
THEOREM PaperBooksReconcile == Spec => []BooksReconcile
    BY PaperBooks, PTL DEF BooksInv

-----------------------------------------------------------------------------
(* Positions and intents *)

(* The position of a symbol is the net quantity filled of its intents.      *)
NetInv == \A s \in Symbols : position[s] = FilledNet(s)

LEMMA NetTypes ==
    ASSUME TypeOK, NEW s \in Symbols
    PROVE  /\ IsFiniteSet(OrdersIn(s))
           /\ \A i \in OrdersIn(s) : SignedFilled[i] \in Int
           /\ FilledNet(s) \in Int
    <1>1. IsFiniteSet(OrdersIn(s))
        <2>1. placed \in Int
            BY OrdersAssumption DEF TypeOK
        <2>2. IsFiniteSet(1 .. placed)
            BY <2>1, FS_Interval
        <2> QED
            BY <2>2, FS_Subset DEF OrdersIn
    <1>2. ASSUME NEW i \in OrdersIn(s) PROVE SignedFilled[i] \in Int
        <2>1. i \in 1 .. placed /\ intents[i] \in Intents
            BY DEF OrdersIn, TypeOK
        <2>2. intents[i].filled \in Int
            BY <2>1, QuantityAssumption DEF Intents
        <2> QED
            BY <2>1, <2>2 DEF SignedFilled, SignedQuantity
    <1> QED
        BY <1>1, <1>2, SumIsInt DEF FilledNet

LEMMA NetInit == Init => NetInv
    <1> SUFFICES ASSUME Init, NEW s \in Symbols
                 PROVE  position[s] = FilledNet(s)
        BY DEF NetInv
    <1>1. OrdersIn(s) = {}
        BY DEF Init, OrdersIn
    <1>2. SumFunctionOnSet(SignedFilled, OrdersIn(s)) = 0
        BY <1>1, SumOfEmpty, Zenon
    <1> QED
        BY <1>2 DEF Init, FilledNet

(* A change of the intents that fills nothing leaves the nets as they were. *)
LEMMA NetUnchanged ==
    ASSUME TypeOK, placed' = placed, NEW s \in Symbols,
           \A i \in 1 .. placed :
               /\ intents'[i].symbol = intents[i].symbol
               /\ intents'[i].symbol = s =>
                      /\ intents'[i].side = intents[i].side
                      /\ intents'[i].filled = intents[i].filled
    PROVE  FilledNet(s)' = FilledNet(s)
    <1>1. OrdersIn(s)' = OrdersIn(s)
        BY DEF OrdersIn
    <1>2. \A i \in OrdersIn(s) : SignedFilled'[i] = SignedFilled[i]
        BY DEF OrdersIn, SignedFilled, SignedQuantity
    <1>3. SumFunctionOnSet(SignedFilled, OrdersIn(s)) =
              SumFunctionOnSet(SignedFilled', OrdersIn(s))
        BY <1>2, NetTypes, SumOfSame
    <1> QED
        BY <1>1, <1>3 DEF FilledNet

(* A new intent has nothing filled.                                         *)
LEMMA NetOfNewIntent ==
    ASSUME TypeOK, NEW o \in Intents, o.filled = 0, placed < MaxOrders,
           AddIntent(o), NEW s \in Symbols
    PROVE  FilledNet(s)' = FilledNet(s)
    <1> DEFINE n == placed + 1
    <1>1. /\ placed \in Nat /\ placed' = n /\ n \notin 1 .. placed
          /\ n \in 1 .. n /\ \A i \in 1 .. n : i \in 1 .. placed \/ i = n
          /\ 1 .. placed \subseteq 1 .. n
          /\ intents'[n] = o
          /\ \A i \in 1 .. placed : intents'[i] = intents[i]
        BY OrdersAssumption, AddedIntent DEF TypeOK
    <1> HIDE DEF n
    <1>2. \A i \in 1 .. placed : SignedFilled'[i] = SignedFilled[i]
        BY <1>1 DEF SignedFilled
    <1>3. SignedFilled'[n] = 0
        BY <1>1 DEF SignedFilled, SignedQuantity
    <1>4. OrdersIn(s) \subseteq 1 .. placed /\ n \notin OrdersIn(s)
        BY <1>1 DEF OrdersIn
    <1>5. SumFunctionOnSet(SignedFilled', OrdersIn(s)) = FilledNet(s)
        BY <1>2, <1>4, NetTypes, SumOfSame DEF FilledNet
    <1>6. CASE o.symbol = s
        <2>1. OrdersIn(s)' = OrdersIn(s) \cup {n}
            BY <1>1, <1>6 DEF OrdersIn
        <2>2. \A i \in OrdersIn(s) \cup {n} : SignedFilled'[i] \in Int
            BY <1>2, <1>3, <1>4, NetTypes
        <2>3. SumFunctionOnSet(SignedFilled', OrdersIn(s) \cup {n}) =
                  SumFunctionOnSet(SignedFilled', OrdersIn(s)) + SignedFilled'[n]
            BY <1>4, <2>2, NetTypes, SumWithOne
        <2>4. FilledNet(s)' = SumFunctionOnSet(SignedFilled', OrdersIn(s) \cup {n})
            BY <2>1 DEF FilledNet
        <2> QED
            BY <1>3, <1>5, <2>3, <2>4, NetTypes
    <1>7. CASE o.symbol # s
        <2>1. OrdersIn(s)' = OrdersIn(s)
            BY <1>1, <1>7 DEF OrdersIn
        <2> QED
            BY <1>5, <2>1 DEF FilledNet
    <1> QED
        BY <1>6, <1>7

(* A fill moves the net of its symbol as it moves the position.             *)
LEMMA NetOfFill ==
    ASSUME IInv, NEW i \in due, Fill(i), NEW s \in Symbols
    PROVE  FilledNet(s)' = FilledNet(s) + (position'[s] - position[s])
    <1> DEFINE o == intents[i]
               q == FillQuantity(o)
               d == SignedQuantity(o, q)
    <1>1. /\ i \in 1 .. placed /\ o \in Intents
          /\ q \in Nat /\ o.filled \in Nat /\ d \in Int
          /\ o.symbol \in Symbols /\ o.side \in {"BUY", "SELL"}
        BY FillFacts, QuantityAssumption DEF Intents, SignedQuantity
    <1>2. /\ placed' = placed
          /\ intents' = [intents EXCEPT ![i] = Filled(o, q)]
          /\ position' = [position EXCEPT ![o.symbol] = @ + d]
        BY DEF Fill
    <1>3. /\ Filled(o, q).symbol = o.symbol /\ Filled(o, q).side = o.side
          /\ Filled(o, q).filled = o.filled + q
        BY <1>1 DEF Filled, Intents
    <1>4. /\ intents \in [1 .. placed -> Intents] /\ position \in [Symbols -> Int]
          /\ TypeOK
        BY DEF IInv, TypeOK
    <1>5. /\ intents'[i].symbol = o.symbol /\ intents'[i].side = o.side
          /\ intents'[i].filled = o.filled + q
          /\ \A j \in 1 .. placed : j # i => intents'[j] = intents[j]
        BY <1>1, <1>2, <1>3, <1>4
    <1>6. CASE s # o.symbol
        <2>1. FilledNet(s)' = FilledNet(s)
            BY <1>2, <1>4, <1>5, <1>6, NetUnchanged
        <2>2. position'[s] = position[s] /\ position[s] \in Int
            BY <1>2, <1>4, <1>6
        <2> QED
            BY <1>4, <2>1, <2>2, NetTypes
    <1>7. CASE s = o.symbol
        <2>1. OrdersIn(s)' = OrdersIn(s) /\ i \in OrdersIn(s)
            BY <1>1, <1>2, <1>5, <1>7 DEF OrdersIn
        <2>2. SignedFilled'[i] = SignedFilled[i] + d
            BY <1>1, <1>2, <1>5 DEF SignedFilled, SignedQuantity
        <2>3. \A j \in OrdersIn(s) : j # i => SignedFilled'[j] = SignedFilled[j]
            BY <1>2, <1>5 DEF OrdersIn, SignedFilled
        <2>4. \A j \in OrdersIn(s) : SignedFilled[j] \in Int
            BY <1>4, NetTypes
        <2> HIDE DEF d, q, o
        <2>5. \A j \in OrdersIn(s) : SignedFilled'[j] \in Int
            BY <1>1, <2>1, <2>2, <2>3, <2>4
        <2>6. SumFunctionOnSet(SignedFilled', OrdersIn(s)) =
                  SumFunctionOnSet(SignedFilled, OrdersIn(s))
                      + SignedFilled'[i] - SignedFilled[i]
            BY <1>4, <2>1, <2>3, <2>4, <2>5, NetTypes, SumChangesByOne
        <2>7. FilledNet(s)' = FilledNet(s) + d
            BY <1>1, <1>4, <2>1, <2>2, <2>4, <2>6, NetTypes DEF FilledNet
        <2>8. position'[s] = position[s] + d /\ position[s] \in Int
            BY <1>1, <1>2, <1>4, <1>7
        <2> QED
            BY <1>1, <1>4, <2>7, <2>8, NetTypes
    <1> QED
        BY <1>6, <1>7

LEMMA NetStep == IInv /\ NetInv /\ [Next]_vars => NetInv'
    <1> SUFFICES ASSUME IInv, NetInv, [Next]_vars, NEW s \in Symbols
                 PROVE  position'[s] = FilledNet(s)'
        BY DEF NetInv
    <1>1. position[s] = FilledNet(s) /\ TypeOK /\ FilledNet(s) \in Int
        BY NetTypes DEF NetInv, IInv
    <1>2. CASE UNCHANGED <<position, placed, intents>>
        BY <1>1, <1>2, NetUnchanged
    <1>3. ASSUME NEW i \in due, Fill(i) PROVE position'[s] = FilledNet(s)'
        <2>1. position[s] \in Int /\ position'[s] \in Int
            BY <1>1, TypeStep DEF TypeOK
        <2>2. FilledNet(s)' = FilledNet(s) + (position'[s] - position[s])
            BY <1>3, NetOfFill
        <2> QED
            BY <1>1, <2>1, <2>2
    <1>4. ASSUME NEW i \in due, RejectAtOpen(i) PROVE position'[s] = FilledNet(s)'
        <2>1. /\ position' = position /\ placed' = placed
              /\ intents' = [intents EXCEPT ![i].status = "REJECTED"]
              /\ intents \in [1 .. placed -> Intents]
            BY <1>1, <1>4 DEF RejectAtOpen, bookVars, TypeOK
        <2>2. \A j \in 1 .. placed :
                  /\ intents'[j].symbol = intents[j].symbol
                  /\ intents'[j].side = intents[j].side
                  /\ intents'[j].filled = intents[j].filled
            BY <2>1 DEF Intents
        <2> QED
            BY <1>1, <2>1, <2>2, NetUnchanged
    <1>5. ASSUME NEW side \in {"BUY", "SELL"}, NEW q \in 1 .. MaxQuantity,
                 AcceptOrder(side, q) \/ RejectOrder(side, q)
          PROVE  position'[s] = FilledNet(s)'
        <2>1. PICK status \in PaperOrderStatus, n \in 0 .. MaxSeq + 1 :
                  AddIntent(NewIntent(side, q, status, n))
            <3>1. NextOpen \in 0 .. MaxSeq + 1 /\ 0 \in 0 .. MaxSeq + 1
                BY SeqAssumption DEF NextOpen, TypeOK, IInv, Events
            <3> QED
                BY <1>5, <3>1 DEF AcceptOrder, RejectOrder, PaperOrderStatus
        <2>2. /\ NewIntent(side, q, status, n) \in Intents
              /\ NewIntent(side, q, status, n).filled = 0
            BY NewIntentType DEF NewIntent, IInv
        <2>3. position' = position /\ placed < MaxOrders
            BY <1>5 DEF AcceptOrder, RejectOrder, bookVars
        <2> HIDE DEF NewIntent
        <2> QED
            BY <1>1, <2>1, <2>2, <2>3, NetOfNewIntent
    <1> QED
        BY <1>2, <1>3, <1>4, <1>5
        DEF Next, vars, bookVars, orderVars, Start, ActivateKillSwitch,
            ResetKillSwitch, TakeEvent, RefuseEvent, RaiseAtOpen, Close,
            StrategyRaises, EndEvent, Stop

(* Portfolio, fills and intents tell the same story after every step.       *)
THEOREM PaperBooksAgree == Spec => []BooksAgree
    <1>1. BooksReconcile /\ NetInv => BooksAgree
        BY DEF NetInv, BooksAgree
    <1> QED
        BY <1>1, NetInit, NetStep, PaperInvariance, PaperBooksReconcile, PTL
        DEF Spec

-----------------------------------------------------------------------------
(* The counters of risk *)

(* What is undecided was accepted, and has the number of an event.          *)
CountersInv ==
    /\ CountersMatchOrders
    /\ \A i \in 1 .. placed : Live(i) => intents[i].scheduled # 0

LEMMA CountersInit == Init => CountersInv
    <1> SUFFICES ASSUME Init PROVE CountersInv
        OBVIOUS
    <1>1. Accepted = {} /\ 1 .. placed = {}
        BY DEF Init, Accepted
    <1>2. Cardinality({}) = 0
        BY FS_EmptySet
    <1> QED
        BY <1>1, <1>2, LimitAssumption
        DEF Init, CountersInv, CountersMatchOrders, Within, Unlimited

(* One more accepted order.                                                 *)
LEMMA AcceptedGrows ==
    ASSUME IInv,
           1 .. placed' = (1 .. placed) \cup {placed + 1},
           \A i \in 1 .. placed : intents'[i] = intents[i]
    PROVE  /\ intents'[placed + 1].scheduled = 0 => Accepted' = Accepted
           /\ intents'[placed + 1].scheduled # 0 =>
                 Cardinality(Accepted') = Cardinality(Accepted) + 1
    <1>1. placed \in Nat
        BY OrdersAssumption DEF IInv, TypeOK
    <1>2. intents'[placed + 1].scheduled = 0 => Accepted' = Accepted
        BY <1>1 DEF Accepted
    <1>3. ASSUME intents'[placed + 1].scheduled # 0
          PROVE  Cardinality(Accepted') = Cardinality(Accepted) + 1
        <2>1. Accepted' = Accepted \cup {placed + 1}
            BY <1>1, <1>3 DEF Accepted
        <2>2. IsFiniteSet(1 .. placed)
            BY <1>1, FS_Interval
        <2>3. IsFiniteSet(Accepted)
            BY <2>2, FS_Subset DEF Accepted
        <2>4. placed + 1 \notin Accepted
            BY <1>1 DEF Accepted
        <2> QED
            BY <2>1, <2>3, <2>4, FS_AddElement
    <1> QED
        BY <1>2, <1>3

LEMMA CountersStep == IInv /\ CountersInv /\ [Next]_vars => CountersInv'
    <1> SUFFICES ASSUME IInv, CountersInv, [Next]_vars PROVE CountersInv'
        OBVIOUS
    <1>1. CASE UNCHANGED <<intents, placed, orderCount, turnover>>
        BY <1>1 DEF CountersInv, CountersMatchOrders, Accepted, Live, Within
    <1>2. ASSUME NEW i \in due, Fill(i) PROVE CountersInv'
        <2> DEFINE f == Filled(intents[i], FillQuantity(intents[i]))
        <2>1. event.seq \in 0 .. MaxSeq
            BY <1>2 DEF IInv, StageInv
        <2>2. /\ i \in 1 .. placed
              /\ intents[i] \in Intents
              /\ intents[i].scheduled # 0
            BY FillFacts DEF CountersInv, Live
        <2>3. event.seq \in -1 .. MaxSeq /\ event.seq + 1 # 0
            BY <2>1, SeqAssumption
        <2>4. f.scheduled \in {intents[i].scheduled, event.seq + 1}
            BY <2>3, FillFacts, FilledFacts
        <2>5. intents' = [intents EXCEPT ![i] = f]
            BY <1>2 DEF Fill
        <2>6. placed' = placed /\ orderCount' = orderCount /\ turnover' = turnover
            BY <1>2 DEF Fill, riskVars
        <2> HIDE DEF f
        <2>7. intents'[i].scheduled # 0
            BY <2>2, <2>3, <2>4, <2>5 DEF IInv, TypeOK
        <2>8. \A j \in 1 .. placed : j # i => intents'[j] = intents[j]
            BY <2>5 DEF IInv, TypeOK
        <2>9. Accepted' = Accepted
            BY <2>2, <2>6, <2>7, <2>8 DEF Accepted
        <2> QED
            BY <2>6, <2>7, <2>8, <2>9
            DEF CountersInv, CountersMatchOrders, Live, Within
    <1>3. ASSUME NEW i \in due, RejectAtOpen(i) PROVE CountersInv'
        <2>1. intents' = [intents EXCEPT ![i] = [intents[i] EXCEPT !.status = "REJECTED"]]
            BY <1>3 DEF RejectAtOpen
        <2>2. i \in 1 .. placed /\ intents[i] \in Intents
            BY FillFacts
        <2>3. placed' = placed /\ orderCount' = orderCount /\ turnover' = turnover
            BY <1>3 DEF RejectAtOpen, riskVars
        <2>4. \A j \in 1 .. placed : j # i => intents'[j] = intents[j]
            BY <2>1 DEF IInv, TypeOK
        <2>5. /\ intents'[i].scheduled = intents[i].scheduled
              /\ intents'[i].status = "REJECTED"
            BY <2>1, <2>2 DEF IInv, TypeOK, Intents
        <2>6. Accepted' = Accepted
            BY <2>3, <2>4, <2>5 DEF Accepted
        <2> QED
            BY <2>3, <2>4, <2>5, <2>6
            DEF CountersInv, CountersMatchOrders, Live, IsLive, Within
    <1>4. ASSUME NEW side \in {"BUY", "SELL"}, NEW q \in 1 .. MaxQuantity,
                 AcceptOrder(side, q)
          PROVE  CountersInv'
        <2> DEFINE o == NewIntent(side, q, "ACCEPTED", NextOpen)
        <2>1. event.seq \in 0 .. MaxSeq
            BY <1>4 DEF AcceptOrder, IInv, StageInv
        <2>2. NextOpen \in 0 .. MaxSeq + 1 /\ NextOpen # 0
            BY <2>1, SeqAssumption DEF NextOpen
        <2>3. o \in Intents
            BY <2>2, NewIntentType DEF IInv, PaperOrderStatus
        <2>4. /\ intents'[placed + 1] = o
              /\ \A i \in 1 .. placed : intents'[i] = intents[i]
              /\ 1 .. placed' = (1 .. placed) \cup {placed + 1}
            BY <1>4, <2>3, AddedIntent DEF AcceptOrder, IInv
        <2>5. intents'[placed + 1].scheduled # 0
            BY <2>2, <2>4 DEF NewIntent
        <2>6. Cardinality(Accepted') = Cardinality(Accepted) + 1
            BY <2>4, <2>5, AcceptedGrows
        <2>7. /\ orderCount' = orderCount + 1
              /\ turnover' = turnover + q * event.close
              /\ Within("orderCount", orderCount + 1)
              /\ Within("turnover", turnover + q * event.close)
            BY <1>4 DEF AcceptOrder, Accepts, WithinCeilings, Count
        <2>8. CountersMatchOrders'
            BY <2>6, <2>7 DEF CountersInv, CountersMatchOrders, Within
        <2> QED
            BY <2>4, <2>5, <2>8 DEF CountersInv, Live
    <1>5. ASSUME NEW side \in {"BUY", "SELL"}, NEW q \in 1 .. MaxQuantity,
                 RejectOrder(side, q)
          PROVE  CountersInv'
        <2> DEFINE o == NewIntent(side, q, "REJECTED", 0)
        <2>1. o \in Intents
            BY SeqAssumption, NewIntentType DEF IInv, PaperOrderStatus
        <2>2. /\ intents'[placed + 1] = o
              /\ \A i \in 1 .. placed : intents'[i] = intents[i]
              /\ 1 .. placed' = (1 .. placed) \cup {placed + 1}
            BY <1>5, <2>1, AddedIntent DEF RejectOrder, IInv
        <2>3. /\ intents'[placed + 1].scheduled = 0
              /\ intents'[placed + 1].status = "REJECTED"
            BY <2>2 DEF NewIntent
        <2>4. Accepted' = Accepted
            BY <2>2, <2>3, AcceptedGrows
        <2>5. orderCount' = orderCount /\ turnover' = turnover
            BY <1>5 DEF RejectOrder, riskVars
        <2> QED
            BY <2>2, <2>3, <2>4, <2>5
            DEF CountersInv, CountersMatchOrders, Live, IsLive, Within
    <1> QED
        BY <1>1, <1>2, <1>3, <1>4, <1>5
        DEF Next, vars, orderVars, riskVars, Start, ActivateKillSwitch,
            ResetKillSwitch, TakeEvent, RefuseEvent, RaiseAtOpen, Close,
            StrategyRaises, EndEvent, Stop

(* Risk counts every accepted order once, whatever becomes of it, and the   *)
(* session never exceeds the ceilings on orders and turnover.               *)
THEOREM PaperCountersMatchOrders == Spec => []CountersMatchOrders
    <1>1. Init => CountersInv
        BY CountersInit
    <1>2. IInv /\ CountersInv /\ [Next]_vars => CountersInv'
        BY CountersStep
    <1>3. CountersInv => CountersMatchOrders
        BY DEF CountersInv
    <1> QED
        BY <1>1, <1>2, <1>3, PaperInvariance, PTL DEF Spec

-----------------------------------------------------------------------------
(* The opens of a stream of one symbol without gaps *)

(* Every pending order waits for the next event, except during an open,     *)
(* when it may still be due.                                                *)
ScheduleInv ==
    /\ ~halted /\ stage # "open" =>
          \A i \in pending : intents[i].scheduled = event.seq + 1
    /\ ~halted /\ stage = "open" =>
          \A i \in pending :
              Live(i) => i \in due \/ intents[i].scheduled = event.seq + 1

LEMMA ScheduleStep ==
    ASSUME NEW s, Symbols = {s}, Contiguous,
           IInv, ScheduleInv, [Next]_vars
    PROVE  ScheduleInv'
    <1>1. CASE UNCHANGED <<halted, stage, event, due, intents, pending>>
        BY <1>1 DEF ScheduleInv, Live
    <1>2. ASSUME NEW e \in Events, TakeEvent(e) PROVE ScheduleInv'
        <2>1. /\ event' = e
              /\ e.seq = event.seq + 1
              /\ stage = "idle" /\ ~halted
              /\ stage' = "open"
              /\ due' = {i \in pending : Due(intents[i], e)}
              /\ pending' = pending /\ intents' = intents
            BY <1>2 DEF TakeEvent, Ready, orderVars
        <2>2. \A i \in pending : intents[i].symbol = s /\ e.symbol = s
            BY DEF IInv, TypeOK, Intents, Events
        <2>3. \A i \in pending : i \in due'
            BY <2>1, <2>2 DEF ScheduleInv, Due
        <2> QED
            BY <2>1, <2>3 DEF ScheduleInv
    <1>3. CASE RefuseEvent \/ StrategyRaises \/ \E i \in due : RaiseAtOpen(i)
        BY <1>3 DEF RefuseEvent, StrategyRaises, RaiseAtOpen, Halt, ScheduleInv
    <1>4. ASSUME NEW i \in due, Fill(i) PROVE ScheduleInv'
        <2> DEFINE f == Filled(intents[i], FillQuantity(intents[i]))
        <2>1. /\ stage = "open" /\ ~halted
              /\ stage' = stage /\ halted' = halted /\ event' = event
              /\ pending' = pending /\ due' = due \ {i}
              /\ intents' = [intents EXCEPT ![i] = f]
            BY <1>4 DEF Fill, IInv, StageInv
        <2>2. event.seq \in -1 .. MaxSeq
            BY DEF IInv, TypeOK, Events
        <2>3. /\ f.status \in {"FILLED", "PARTIALLY_FILLED"}
              /\ f.status = "PARTIALLY_FILLED" => f.scheduled = event.seq + 1
            BY <2>2, FillFacts, FilledFacts
        <2> HIDE DEF f
        <2>4. /\ intents'[i] = f
              /\ \A j \in pending : j # i => intents'[j] = intents[j]
            BY <2>1, FillFacts DEF IInv, TypeOK
        <2>5. IsLive(f) => f.scheduled = event.seq + 1
            BY <2>3 DEF IsLive
        <2> QED
            BY <2>1, <2>4, <2>5 DEF ScheduleInv, Live
    <1>5. ASSUME NEW i \in due, RejectAtOpen(i) PROVE ScheduleInv'
        <2>1. /\ stage = "open" /\ ~halted
              /\ stage' = stage /\ halted' = halted /\ event' = event
              /\ pending' = pending /\ due' = due \ {i}
              /\ intents' = [intents EXCEPT ![i] = [intents[i] EXCEPT !.status = "REJECTED"]]
            BY <1>5 DEF RejectAtOpen, IInv, StageInv
        <2>2. i \in 1 .. placed /\ intents[i] \in Intents
            BY FillFacts
        <2>3. /\ ~IsLive(intents'[i])
              /\ \A j \in pending : j # i => intents'[j] = intents[j]
            BY <2>1, <2>2 DEF IsLive, Intents, IInv, TypeOK
        <2> QED
            BY <2>1, <2>3 DEF ScheduleInv, Live
    <1>6. CASE Close
        <2>1. /\ stage = "open" /\ due = {} /\ stage' = "close"
              /\ pending' = {i \in pending : Live(i)}
              /\ halted' = halted /\ event' = event /\ intents' = intents
            BY <1>6 DEF Close, StillPending, Live
        <2> QED
            BY <2>1 DEF ScheduleInv
    <1>7. ASSUME NEW side \in {"BUY", "SELL"}, NEW q \in 1 .. MaxQuantity,
                 AcceptOrder(side, q)
          PROVE  ScheduleInv'
        <2> DEFINE o == NewIntent(side, q, "ACCEPTED", NextOpen)
        <2>1. NextOpen \in 0 .. MaxSeq + 1
            BY SeqAssumption DEF NextOpen, IInv, TypeOK, Events
        <2>2. o \in Intents
            BY <2>1, NewIntentType DEF IInv, PaperOrderStatus
        <2>3. /\ intents'[placed + 1] = o
              /\ \A i \in 1 .. placed : intents'[i] = intents[i]
            BY <1>7, <2>2, AddedIntent DEF AcceptOrder, IInv
        <2>4. /\ stage # "open" /\ stage' # "open"
              /\ halted' = halted /\ event' = event
              /\ pending' = pending \cup {placed + 1}
            BY <1>7 DEF AcceptOrder
        <2>5. o.scheduled = event.seq + 1
            BY DEF NewIntent, NextOpen
        <2>6. pending \subseteq 1 .. placed
            BY DEF IInv, TypeOK
        <2> HIDE DEF o
        <2> QED
            BY <2>3, <2>4, <2>5, <2>6 DEF ScheduleInv
    <1>8. ASSUME NEW side \in {"BUY", "SELL"}, NEW q \in 1 .. MaxQuantity,
                 RejectOrder(side, q)
          PROVE  ScheduleInv'
        <2> DEFINE o == NewIntent(side, q, "REJECTED", 0)
        <2>1. o \in Intents
            BY SeqAssumption, NewIntentType DEF IInv, PaperOrderStatus
        <2>2. \A i \in 1 .. placed : intents'[i] = intents[i]
            BY <1>8, <2>1, AddedIntent DEF RejectOrder, IInv
        <2>3. /\ stage # "open" /\ stage' # "open"
              /\ halted' = halted /\ event' = event /\ pending' = pending
            BY <1>8 DEF RejectOrder
        <2>4. pending \subseteq 1 .. placed
            BY DEF IInv, TypeOK
        <2> QED
            BY <2>2, <2>3, <2>4 DEF ScheduleInv
    <1>9. CASE EndEvent \/ Stop
        BY <1>9 DEF EndEvent, Stop, ScheduleInv, orderVars
    <1> QED
        BY <1>1, <1>2, <1>3, <1>4, <1>5, <1>6, <1>7, <1>8, <1>9
        DEF Next, vars, orderVars, Start, ActivateKillSwitch, ResetKillSwitch

(* With one symbol and no gaps, no order is left waiting for an event that  *)
(* has passed: the two conditions under which scheduling for event.seq + 1  *)
(* is scheduling for the symbol's next open.                                *)
THEOREM PaperNoMissedOpen ==
    ASSUME NEW s, Symbols = {s}, Contiguous
    PROVE  Spec => []NoMissedOpen
    <1>1. Init => ScheduleInv
        BY DEF Init, ScheduleInv
    <1>2. IInv /\ ScheduleInv /\ [Next]_vars => ScheduleInv'
        BY ScheduleStep
    <1>3. IInv /\ ScheduleInv => NoMissedOpen
        BY DEF IInv, TypeOK, Events, ScheduleInv, NoMissedOpen
    <1> QED
        BY <1>1, <1>2, <1>3, PaperInvariance, PTL DEF Spec


-----------------------------------------------------------------------------
(* HistoricalReplay: a replay of recorded bars through a paper session      *)
(* implements the backtest engine, for all prices, costs, ceilings on       *)
(* notionals, lengths of the history and choices of the strategy, under the *)
(* assumptions of the drift check.                                          *)

(* A replay is a paper session: its invariants hold.                        *)

LEMMA ReplayStepIsPaper == [ReplayNext]_replayVars => [Next]_vars
    BY DEF ReplayNext, replayVars, Next, ReplayStart, ReplayEvent, ReplayFill,
           ReplayRejectAtOpen, ReplayClose, ReplayAccept, ReplayReject,
           ReplayRaise, ReplayEnd, ReplayStop

LEMMA ReplayIsPaper == ReplaySpec => Spec
    <1>1. ReplayInit => Init
        BY DEF ReplayInit
    <1> QED
        BY <1>1, ReplayStepIsPaper, PTL DEF ReplaySpec, Spec

LEMMA ReplayPaperInvariants == ReplaySpec => [](IInv /\ BooksReconcile)
    BY ReplayIsPaper, PaperInvariance, PaperBooksReconcile, PTL

-----------------------------------------------------------------------------
(* The invariant of a replay *)

(* One order at most waits for the next open, whole, and a sell is covered  *)
(* by what is held.                                                         *)
ReplayInv ==
    /\ ~killed
    /\ \A i, j \in pending : i = j
    /\ \A i \in pending : intents[i].filled = 0 \/ ~Live(i)
    /\ stage = "open" => \A i \in pending : Live(i) => i \in due
    /\ stage = "open" => \A i \in due : intents[i].scheduled = event.seq
    /\ stage # "open" => \A i \in pending : intents[i].scheduled = event.seq + 1
    /\ stage = "close" \/ halted => pending = {}
    /\ \A i \in WaitingOrders :
          intents[i].side = "SELL" => intents[i].quantity <= position[Symbol]

LEMMA ReplayInitInv == ReplayInit => ReplayInv
    BY DEF ReplayInit, Init, ReplayInv, WaitingOrders

LEMMA ReplayStepInv ==
    ASSUME DriftAssumptions
    PROVE  IInv /\ BooksReconcile /\ ReplayInv /\ [ReplayNext]_replayVars
               => ReplayInv'
    <1> SUFFICES ASSUME IInv, BooksReconcile, ReplayInv, [ReplayNext]_replayVars
                 PROVE  ReplayInv'
        OBVIOUS
    <1>1. CASE UNCHANGED replayVars
        BY <1>1 DEF ReplayInv, WaitingOrders, replayVars, vars, orderVars,
                    riskVars, bookVars, Live
    <1>2. CASE ReplayStart
        BY <1>2 DEF ReplayStart, Start, ReplayInv, WaitingOrders, orderVars,
                    riskVars, bookVars, Live
    <1>3. ASSUME NEW e \in Events, ReplayEvent(e) PROVE ReplayInv'
        <2>1. /\ stage = "idle" /\ stage' = "open" /\ ~halted /\ ~halted'
              /\ event' = e /\ e.seq = event.seq + 1
              /\ due' = {i \in pending : Due(intents[i], e)}
              /\ pending' = pending /\ intents' = intents
              /\ position' = position /\ killed' = killed
            BY <1>3
            DEF DriftAssumptions, ReplayEvent, TakeEvent, Ready,
                orderVars, bookVars, riskVars
        <2>2. \A i \in pending : intents[i].symbol = e.symbol
            BY DEF DriftAssumptions, IInv, TypeOK, Intents, Events
        <2>3. due' = pending
            BY <2>1, <2>2 DEF ReplayInv, Due
        <2> QED
            BY <2>1, <2>3 DEF ReplayInv, WaitingOrders, Live
    <1>4. ASSUME NEW i \in due, ReplayFill(i) \/ ReplayRejectAtOpen(i)
          PROVE  ReplayInv'
        <2>1. /\ stage = "open" /\ stage' = "open" /\ halted' = halted
              /\ event' = event /\ due' = due \ {i} /\ pending' = pending
              /\ killed' = killed
            BY <1>4 DEF ReplayFill, ReplayRejectAtOpen, Fill, RejectAtOpen,
                        IInv, StageInv, riskVars
        <2>2. due' = {}
            BY <2>1 DEF ReplayInv, IInv, PendingInv
        <2>3. ~Live(i)'
            <3>1. i \in 1 .. placed /\ intents[i] \in Intents
                BY FillFacts
            <3>2. CASE ReplayFill(i)
                <4> DEFINE f == Filled(intents[i], FillQuantity(intents[i]))
                <4>1. intents'[i] = f
                    BY <3>1, <3>2 DEF ReplayFill, Fill, IInv, TypeOK
                <4>2. FillQuantity(intents[i]) = Remaining(intents[i])
                    BY FillFacts DEF DriftAssumptions, WholeFills, FillQuantity
                <4>3. f.status = "FILLED"
                    <5>1. FillQuantity(intents[i]) \in Nat
                        BY <4>2, FillFacts, QuantityAssumption
                    <5>2. f = [intents[i] EXCEPT
                                 !.filled = intents[i].filled + Remaining(intents[i]),
                                 !.status = "FILLED",
                                 !.scheduled = intents[i].scheduled]
                        BY <3>1, <4>2, <5>1, FilledUpdates
                    <5> HIDE DEF f
                    <5> QED
                        BY <3>1, <5>2 DEF Intents
                <4> HIDE DEF f
                <4> QED
                    BY <4>1, <4>3 DEF Live, IsLive
            <3>3. CASE ReplayRejectAtOpen(i)
                BY <3>1, <3>3
                DEF ReplayRejectAtOpen, RejectAtOpen, Live, IsLive, Intents,
                    IInv, TypeOK
            <3> QED
                BY <1>4, <3>2, <3>3
        <2>4. \A j \in pending : j = i
            BY DEF ReplayInv, IInv, PendingInv
        <2> QED
            BY <2>1, <2>2, <2>3, <2>4 DEF ReplayInv, WaitingOrders
    <1>5. CASE ReplayClose
        <2>1. /\ stage = "open" /\ due = {} /\ stage' = "close" /\ halted' = halted
              /\ event' = event /\ pending' = {j \in pending : Live(j)}
              /\ killed' = killed
            BY <1>5 DEF ReplayClose, Close, StillPending, Live, riskVars
        <2>2. pending' = {}
            BY <2>1 DEF ReplayInv
        <2> QED
            BY <2>1, <2>2 DEF ReplayInv, WaitingOrders
    <1>6. ASSUME NEW side \in {"BUY", "SELL"}, NEW q \in 1 .. MaxQuantity,
                 ReplayAccept(side, q)
          PROVE  ReplayInv'
        <2> DEFINE o == NewIntent(side, q, "ACCEPTED", NextOpen)
        <2>1. /\ stage = "close" /\ stage' = "orders" /\ halted' = halted
              /\ ~halted /\ pending = {} /\ pending' = {placed + 1}
              /\ event' = event /\ position' = position /\ killed' = killed
            BY <1>6 DEF ReplayAccept, AcceptOrder, ReplayInv, IInv, StageInv, bookVars
        <2>2. NextOpen \in 0 .. MaxSeq + 1
            BY SeqAssumption DEF NextOpen, IInv, TypeOK, Events
        <2>3. o \in Intents
            BY <2>2, NewIntentType DEF IInv, PaperOrderStatus
        <2>4. intents'[placed + 1] = o
            BY <1>6, <2>3, AddedIntent DEF ReplayAccept, AcceptOrder, IInv
        <2>5. /\ o.filled = 0 /\ o.scheduled = event.seq + 1
              /\ o.side = side /\ o.quantity = q
            BY DEF NewIntent, NextOpen
        <2>6. side = "SELL" => q <= position[Symbol]
            <3>1. event.symbol = Symbol
                BY DEF DriftAssumptions, IInv, TypeOK, Events
            <3> QED
                BY <1>6, <3>1 DEF ReplayAccept, AcceptOrder, Accepts, CoreAccepts
        <2> HIDE DEF o
        <2> QED
            BY <2>1, <2>4, <2>5, <2>6 DEF ReplayInv, WaitingOrders
    <1>7. ASSUME NEW side \in {"BUY", "SELL"}, NEW q \in 1 .. MaxQuantity,
                 ReplayReject(side, q)
          PROVE  ReplayInv'
        BY <1>7 DEF ReplayReject, RejectOrder, ReplayInv, WaitingOrders, riskVars,
                    IInv, StageInv
    <1>8. CASE ReplayRaise
        BY <1>8 DEF ReplayRaise, StrategyRaises, Halt, ReplayInv, WaitingOrders,
                    orderVars, riskVars, bookVars
    <1>9. CASE ReplayEnd
        BY <1>9 DEF ReplayEnd, EndEvent, ReplayInv, WaitingOrders, IInv, StageInv,
                    orderVars, riskVars, bookVars, Live
    <1>10. CASE ReplayStop
        BY <1>10 DEF ReplayStop, Stop, ReplayInv, WaitingOrders, IInv, StageInv,
                     orderVars, riskVars, bookVars, Live
    <1> QED
        BY <1>1, <1>2, <1>3, <1>4, <1>5, <1>6, <1>7, <1>8, <1>9, <1>10
        DEF ReplayNext

LEMMA ReplayInvariance ==
    ASSUME DriftAssumptions
    PROVE  ReplaySpec => [](IInv /\ BooksReconcile /\ ReplayInv)
    BY ReplayPaperInvariants, ReplayInitInv, ReplayStepInv, PTL DEF ReplaySpec

-----------------------------------------------------------------------------
(* Lemmas about the mapping *)

(* With one symbol the sum of the exposures is that of the symbol.          *)
LEMMA ExposureOfSymbol ==
    ASSUME DriftAssumptions, TypeOK
    PROVE  Exposure = position[Symbol] * mark[Symbol]
    <1> DEFINE f == [s \in Symbols |-> position[s] * mark[s]]
    <1>1. /\ Exposure = SumFunctionOnSet(f, Symbols)
          /\ Symbols = {Symbol} /\ Symbol \in Symbols
          /\ f[Symbol] = position[Symbol] * mark[Symbol]
          /\ \A s \in Symbols : f[s] \in Int
        BY DEF DriftAssumptions, Exposure, TypeOK
    <1>2. IsFiniteSet(Symbols)
        BY <1>1, FS_Singleton
    <1>3. Symbols \ {Symbol} = {}
        BY <1>1
    <1>4. SumFunctionOnSet(f, Symbols) =
              f[Symbol] + SumFunctionOnSet(f, Symbols \ {Symbol})
        <2> HIDE DEF f
        <2> QED
            BY <1>1, <1>2, SumTakesAny
    <1>5. SumFunctionOnSet(f, Symbols \ {Symbol}) = 0
        BY <1>3, SumOfEmpty, Zenon
    <1> HIDE DEF f
    <1> QED
        BY <1>1, <1>4, <1>5

(* A product with a positive factor is no smaller than the other factor.    *)
LEMMA FactorOfProduct ==
    ASSUME NEW a \in Nat, NEW p \in Nat \ {0} PROVE a <= a * p
    OBVIOUS

(* The ceilings of the session that the backtest has not never decide: both *)
(* accept the same orders.                                                  *)
LEMMA SameRisk ==
    ASSUME DriftAssumptions, TypeOK, ~killed,
           NEW side \in {"BUY", "SELL"}, NEW q \in 1 .. MaxQuantity
    PROVE  Accepts(side, q) <=> BT!RiskAccepts(side, q)
    <1> DEFINE x == position[Symbol]
               after == PositionAfter(side, q)
    <1>1. event.symbol = Symbol /\ x \in Int /\ q \in Nat
        BY QuantityAssumption DEF DriftAssumptions, TypeOK, Events
    <1>2. event.close \in Nat \ {0}
        BY PriceAssumption DEF DriftAssumptions, TypeOK, Events
    <1>3. after = x + (IF side = "BUY" THEN q ELSE -q) /\ after \in Int
        BY <1>1 DEF PositionAfter
    <1>4. WithinCeilings(side, q) <=>
             /\ q * event.close <= Limit["orderNotional"]
             /\ after <= Limit["positionQuantity"]
        BY DEF DriftAssumptions, DefaultCeilings, WithinCeilings, Within
    <1>5. CoreAccepts(side, q) <=>
             /\ side = "SELL" => q <= x
             /\ after * event.close <= Limit["positionNotional"]
             /\ x * mark[Symbol] - x * event.close + after * event.close
                  <= Limit["exposure"]
        BY <1>1, ExposureOfSymbol DEF CoreAccepts
    <1>6. BT!RiskAccepts(side, q) <=>
             /\ q * event.close <= Limit["orderNotional"]
             /\ side = "SELL" => q <= x
             /\ after * event.close <= Limit["positionNotional"]
             /\ x * mark[Symbol] - x * event.close + after * event.close
                  <= Limit["exposure"]
        BY <1>3 DEF BT!RiskAccepts, BacktestBar
    <1>7. after * event.close <= Limit["positionNotional"]
             => after <= Limit["positionQuantity"]
        <2>1. /\ Limit["positionNotional"] \in Nat
              /\ Limit["positionQuantity"] \in Nat
              /\ Limit["positionNotional"] <= Limit["positionQuantity"]
            BY LimitAssumption DEF DriftAssumptions, DefaultCeilings
        <2>2. CASE after \in Nat
            <3>1. after <= after * event.close /\ after * event.close \in Nat
                BY <1>2, <2>2, FactorOfProduct, ProductNat
            <3> HIDE DEF after
            <3> QED
                BY <2>1, <2>2, <3>1
        <2>3. CASE after \notin Nat
            BY <1>3, <2>1, <2>3
        <2> QED
            BY <2>2, <2>3
    <1> HIDE DEF after, x
    <1> QED
        BY <1>4, <1>5, <1>6, <1>7 DEF Accepts

(* A new intent appends an order.                                           *)
LEMMA OrderAppended ==
    ASSUME TypeOK, NEW side \in {"BUY", "SELL"}, NEW q \in 1 .. MaxQuantity,
           NEW o \in Intents, o.side = side, o.quantity = q,
           placed < MaxOrders, AddIntent(o)
    PROVE  BacktestOrders' = Append(BacktestOrders, [side |-> side, quantity |-> q])
    <1> DEFINE R == [side : {"BUY", "SELL"}, quantity : 1 .. MaxQuantity]
               r == [side |-> side, quantity |-> q]
    <1>1. /\ placed \in Nat /\ placed' = placed + 1
          /\ intents'[placed + 1] = o
          /\ \A i \in 1 .. placed : intents'[i] = intents[i]
          /\ intents \in [1 .. placed -> Intents]
        BY OrdersAssumption, AddedIntent DEF TypeOK
    <1>2. BacktestOrders \in Seq(R) /\ Len(BacktestOrders) = placed /\ r \in R
        <2>1. /\ BacktestOrders = [i \in 1 .. placed |->
                    [side |-> intents[i].side, quantity |-> intents[i].quantity]]
              /\ \A i \in 1 .. placed :
                    [side |-> intents[i].side, quantity |-> intents[i].quantity] \in R
            BY <1>1 DEF BacktestOrders, Intents
        <2>2. BacktestOrders \in [1 .. placed -> R]
            BY <2>1
        <2> HIDE DEF R
        <2>3. BacktestOrders \in Seq(R) /\ Len(BacktestOrders) = placed
            BY <1>1, <2>2
        <2> QED
            BY <2>3 DEF R
    <1>3. /\ Append(BacktestOrders, r) \in Seq(R)
          /\ Len(Append(BacktestOrders, r)) = placed + 1
          /\ Append(BacktestOrders, r)[placed + 1] = r
          /\ \A i \in 1 .. placed : Append(BacktestOrders, r)[i] = BacktestOrders[i]
        BY <1>1, <1>2
    <1>4. BacktestOrders' =
             [i \in 1 .. placed + 1 |->
                [side |-> intents'[i].side, quantity |-> intents'[i].quantity]]
        BY <1>1 DEF BacktestOrders
    <1>5. \A i \in 1 .. placed + 1 : BacktestOrders'[i] = Append(BacktestOrders, r)[i]
        <2> TAKE i \in 1 .. placed + 1
        <2>1. CASE i = placed + 1
            BY <1>1, <1>3, <1>4, <2>1
        <2>2. CASE i \in 1 .. placed
            <3>1. BacktestOrders[i] =
                     [side |-> intents[i].side, quantity |-> intents[i].quantity]
                BY <2>2 DEF BacktestOrders
            <3>2. BacktestOrders'[i] =
                     [side |-> intents'[i].side, quantity |-> intents'[i].quantity]
                BY <1>4
            <3> QED
                BY <1>1, <1>3, <2>2, <3>1, <3>2
        <2>3. i = placed + 1 \/ i \in 1 .. placed
            BY <1>1
        <2> QED
            BY <2>1, <2>2, <2>3
    <1>6. Append(BacktestOrders, r) =
             [i \in 1 .. placed + 1 |-> Append(BacktestOrders, r)[i]]
        BY <1>1, <1>3
    <1> QED
        BY <1>4, <1>5, <1>6

-----------------------------------------------------------------------------
(* The refinement *)

LEMMA ReplayInitMaps ==
    ASSUME DriftAssumptions
    PROVE  ReplayInit => BT!Init
    <1> SUFFICES ASSUME ReplayInit PROVE BT!Init
        OBVIOUS
    <1>1. event \in Events /\ event.seq = -1 /\ BacktestBar.seq = -1
        BY DEF ReplayInit, Init, BacktestBar
    <1>2. BacktestBar \in BT!Bars
        BY <1>1, SeqAssumption DEF BT!Bars, Events, BacktestBar
    <1>3. BacktestStage = "idle"
        BY DEF ReplayInit, Init, BacktestStage
    <1>4. BacktestOrders = <<>>
        BY DEF ReplayInit, Init, BacktestOrders
    <1>5. BacktestScheduled = {}
        BY DEF ReplayInit, Init, BacktestScheduled, WaitingOrders
    <1>6. /\ position[Symbol] = 0 /\ mark[Symbol] = 0 /\ cash = InitialCash
          /\ trades = <<>>
        BY DEF DriftAssumptions, ReplayInit, Init
    <1> QED
        BY <1>1, <1>2, <1>3, <1>4, <1>5, <1>6 DEF BT!Init

(* Unchanged session variables leave the mapped ones unchanged.             *)
LEMMA StutterMaps ==
    ASSUME UNCHANGED <<halted, stage, event, due, placed, intents, pending,
                       position, cash, mark, trades>>
    PROVE  UNCHANGED BT!vars
    BY DEF BT!vars, BT!portfolioVars, BacktestBar, BacktestStage, BacktestOrders,
           BacktestScheduled, WaitingOrders, BacktestOrder, Remaining

(* The session takes the next bar with the same order waiting.              *)
LEMMA EventMaps ==
    ASSUME DriftAssumptions, IInv, ReplayInv, NEW e \in Events, ReplayEvent(e)
    PROVE  BT!Next
    <1> DEFINE b == [seq |-> e.seq, open |-> e.open, close |-> e.close]
    <1>1. /\ stage = "idle" /\ stage' = "open" /\ ~halted /\ halted' = halted
          /\ event' = e /\ e.seq = event.seq + 1
          /\ due' = {i \in pending : Due(intents[i], e)}
          /\ pending' = pending /\ intents' = intents /\ placed' = placed
          /\ position' = position /\ cash' = cash /\ mark' = mark /\ trades' = trades
        BY DEF DriftAssumptions, ReplayEvent, TakeEvent, Ready, orderVars, bookVars
    <1>2. due' = pending
        <2>1. \A i \in pending : intents[i].symbol = e.symbol
            BY DEF DriftAssumptions, IInv, TypeOK, Intents, Events
        <2> QED
            BY <1>1, <2>1 DEF ReplayInv, Due
    <1>3. BacktestScheduled' = BacktestScheduled
        BY <1>1, <1>2 DEF BacktestScheduled, WaitingOrders, BacktestOrder, Remaining
    <1>4. BacktestBar' = b /\ b.seq = BacktestBar.seq + 1 /\ b \in BT!Bars
        BY <1>1 DEF BacktestBar, BT!Bars, Events
    <1>5. /\ BacktestStage = "idle" /\ BacktestStage' = "open"
          /\ BacktestOrders' = BacktestOrders
        BY <1>1 DEF BacktestStage, BacktestOrders
    <1>6. BT!TakeBar(b)
        BY <1>1, <1>3, <1>4, <1>5 DEF BT!TakeBar, BT!portfolioVars
    <1> QED
        BY <1>4, <1>6 DEF BT!Next

(* At an open the one order that waits is the one that is due.              *)
LEMMA DueIsScheduled ==
    ASSUME DriftAssumptions, IInv, ReplayInv, stage = "open", NEW i \in due
    PROVE  /\ BacktestScheduled = {BacktestOrder(i)}
           /\ BacktestOrder(i).side = intents[i].side
           /\ BacktestOrder(i).quantity = intents[i].quantity
           /\ BacktestOrder(i).signal < event.seq
           /\ FillQuantity(intents[i]) = intents[i].quantity
           /\ due \ {i} = {}
    <1>1. /\ i \in 1 .. placed /\ intents[i] \in Intents
          /\ Remaining(intents[i]) \in 1 .. MaxQuantity
        BY FillFacts
    <1>2. due = {i}
        BY DEF ReplayInv, IInv, PendingInv
    <1>3. intents[i].filled = 0
        BY DEF ReplayInv, IInv, PendingInv
    <1>4. intents[i].scheduled = event.seq /\ event.seq \in 0 .. MaxSeq
        BY DEF ReplayInv, IInv, StageInv
    <1>5. Remaining(intents[i]) = intents[i].quantity
        BY <1>1, <1>3 DEF Remaining, Intents
    <1>6. FillQuantity(intents[i]) = intents[i].quantity
        BY <1>1, <1>5 DEF DriftAssumptions, WholeFills, FillQuantity
    <1>7. BacktestScheduled = {BacktestOrder(i)}
        BY <1>2, <1>4, SeqAssumption DEF BacktestScheduled, WaitingOrders
    <1> QED
        BY <1>2, <1>4, <1>5, <1>6, <1>7 DEF BacktestOrder

LEMMA FillMaps ==
    ASSUME DriftAssumptions, IInv, ReplayInv, NEW i \in due, ReplayFill(i)
    PROVE  BT!Next
    <1> DEFINE o == BacktestOrder(i)
               q == intents[i].quantity
    <1>1. stage = "open" /\ ~halted
        BY DEF IInv, StageInv
    <1>2. /\ BacktestScheduled = {o}
          /\ o.side = intents[i].side /\ o.quantity = q
          /\ o.signal < event.seq
          /\ FillQuantity(intents[i]) = q
          /\ due \ {i} = {}
        BY <1>1, DueIsScheduled
    <1>3. /\ i \in 1 .. placed /\ intents[i] \in Intents
          /\ FillPrice(intents[i]) \in Nat
          /\ intents[i].symbol = Symbol
        BY FillFacts DEF DriftAssumptions, Intents
    <1>4. /\ position' = [position EXCEPT ![Symbol] = position[Symbol] + SignedQuantity(intents[i], q)]
          /\ cash' = cash - SignedQuantity(intents[i], q) * FillPrice(intents[i])
          /\ mark' = [mark EXCEPT ![Symbol] = FillPrice(intents[i])]
          /\ trades' = Append(trades, Trade(intents[i]))
          /\ due' = {} /\ stage' = stage /\ halted' = halted /\ event' = event
          /\ placed' = placed
          /\ intents' = [intents EXCEPT ![i] = Filled(intents[i], q)]
          /\ Executable(intents[i])
        BY <1>2, <1>3 DEF ReplayFill, Fill, CashAfter
    <1>5. BT!FillPrice(o) = FillPrice(intents[i]) /\ BT!Signed(o) = SignedQuantity(intents[i], q)
        BY <1>2 DEF BT!FillPrice, FillPrice, BT!Signed, SignedQuantity, BacktestBar
    <1>6. /\ BT!Affordable(o)
          /\ o.side = "SELL" => o.quantity <= position[Symbol]
        BY <1>2, <1>3, <1>4, <1>5 DEF BT!Affordable, Executable, Intents
    <1>7. BT!Trade(o) = Trade(intents[i])
        BY <1>2, <1>5 DEF BT!Trade, Trade, BacktestBar
    <1>8. /\ position'[Symbol] = position[Symbol] + BT!Signed(o)
          /\ mark'[Symbol] = BT!FillPrice(o)
        BY <1>4, <1>5 DEF DriftAssumptions, IInv, TypeOK
    <1>9. BacktestScheduled' = {}
        BY <1>1, <1>4 DEF BacktestScheduled, WaitingOrders
    <1>10. BacktestOrders' = BacktestOrders
        <2>1. \A j \in 1 .. placed :
                 /\ intents'[j].side = intents[j].side
                 /\ intents'[j].quantity = intents[j].quantity
            <3>1. /\ Filled(intents[i], q).side = intents[i].side
                  /\ Filled(intents[i], q).quantity = intents[i].quantity
                BY <1>3 DEF Filled, Intents
            <3> QED
                BY <1>4, <3>1 DEF IInv, TypeOK
        <2> QED
            BY <1>4, <2>1 DEF BacktestOrders
    <1>11. /\ BacktestStage = "open" /\ BacktestStage' = "open"
           /\ BacktestBar' = BacktestBar /\ BacktestBar.seq = event.seq
        BY <1>1, <1>4 DEF BacktestStage, BacktestBar
    <1> HIDE DEF o
    <1>12. BT!ExecuteAtOpen(o)
        BY <1>2, <1>4, <1>5, <1>6, <1>7, <1>8, <1>9, <1>10, <1>11
        DEF BT!ExecuteAtOpen
    <1> QED
        BY <1>2, <1>12 DEF BT!Next

LEMMA RejectAtOpenMaps ==
    ASSUME DriftAssumptions, IInv, ReplayInv, NEW i \in due, ReplayRejectAtOpen(i)
    PROVE  BT!Next
    <1> DEFINE o == BacktestOrder(i)
    <1>1. stage = "open" /\ ~halted
        BY DEF IInv, StageInv
    <1>2. /\ BacktestScheduled = {o}
          /\ o.side = intents[i].side /\ o.quantity = intents[i].quantity
          /\ o.signal < event.seq
          /\ FillQuantity(intents[i]) = intents[i].quantity
          /\ due \ {i} = {}
        BY <1>1, DueIsScheduled
    <1>3. /\ i \in 1 .. placed /\ intents[i] \in Intents
          /\ intents[i].symbol = Symbol
        BY FillFacts DEF DriftAssumptions, Intents
    <1>4. /\ ~Executable(intents[i])
          /\ position' = position /\ cash' = cash /\ mark' = mark /\ trades' = trades
          /\ due' = {} /\ stage' = stage /\ halted' = halted /\ event' = event
          /\ placed' = placed
          /\ intents' = [intents EXCEPT ![i] = [intents[i] EXCEPT !.status = "REJECTED"]]
        BY <1>2 DEF ReplayRejectAtOpen, RejectAtOpen, bookVars
    <1>5. BT!FillPrice(o) = FillPrice(intents[i])
        BY <1>2 DEF BT!FillPrice, FillPrice, BacktestBar
    <1>6. intents[i].side = "BUY"
        BY <1>1, <1>2, <1>3, <1>4 DEF Executable, ReplayInv, WaitingOrders, Intents
    <1>7. ~BT!Affordable(o)
        BY <1>2, <1>4, <1>5, <1>6 DEF BT!Affordable, Executable
    <1>8. BacktestScheduled' = {}
        BY <1>1, <1>4 DEF BacktestScheduled, WaitingOrders
    <1>9. BacktestOrders' = BacktestOrders
        BY <1>3, <1>4 DEF BacktestOrders, IInv, TypeOK, Intents
    <1>10. /\ BacktestStage = "open" /\ BacktestStage' = "open"
           /\ BacktestBar' = BacktestBar /\ BacktestBar.seq = event.seq
        BY <1>1, <1>4 DEF BacktestStage, BacktestBar
    <1> HIDE DEF o
    <1>11. BT!CancelAtOpen(o)
        BY <1>2, <1>4, <1>7, <1>8, <1>9, <1>10
        DEF BT!CancelAtOpen, BT!portfolioVars
    <1> QED
        BY <1>2, <1>11 DEF BT!Next

LEMMA CloseMaps ==
    ASSUME DriftAssumptions, IInv, ReplayInv, ReplayClose
    PROVE  BT!Next
    <1>1. /\ stage = "open" /\ ~halted /\ due = {} /\ stage' = "close"
          /\ halted' = halted /\ event' = event
          /\ pending' = {j \in pending : Live(j)}
          /\ intents' = intents /\ placed' = placed
          /\ mark' = [mark EXCEPT ![event.symbol] = event.close]
          /\ position' = position /\ cash' = cash /\ trades' = trades
        BY DEF ReplayClose, Close, StillPending, Live, IInv, StageInv, bookVars
    <1>2. pending' = {}
        BY <1>1 DEF ReplayInv
    <1>3. BacktestScheduled = {} /\ BacktestScheduled' = {}
        BY <1>1, <1>2 DEF BacktestScheduled, WaitingOrders
    <1>4. event.symbol = Symbol /\ mark'[Symbol] = event.close
        BY <1>1 DEF DriftAssumptions, IInv, TypeOK, Events
    <1>5. /\ BacktestStage = "open" /\ BacktestStage' = "close"
          /\ BacktestBar' = BacktestBar /\ BacktestBar.close = event.close
          /\ BacktestOrders' = BacktestOrders
        BY <1>1 DEF BacktestStage, BacktestBar, BacktestOrders
    <1>6. BT!MarkAtClose
        BY <1>1, <1>3, <1>4, <1>5 DEF BT!MarkAtClose
    <1> QED
        BY <1>6 DEF BT!Next

(* What the session accepts the backtest schedules, or cancels on the last  *)
(* bar.                                                                     *)
LEMMA AcceptMaps ==
    ASSUME DriftAssumptions, IInv, ReplayInv,
           NEW side \in {"BUY", "SELL"}, NEW q \in 1 .. MaxQuantity,
           ReplayAccept(side, q)
    PROVE  BT!Next
    <1> DEFINE o == NewIntent(side, q, "ACCEPTED", NextOpen)
    <1>1. /\ stage = "close" /\ stage' = "orders" /\ halted' = halted
          /\ ~halted /\ pending = {} /\ pending' = {placed + 1}
          /\ event' = event /\ position' = position /\ cash' = cash
          /\ mark' = mark /\ trades' = trades
          /\ Accepts(side, q) /\ placed < MaxOrders /\ AddIntent(o)
        BY DEF ReplayAccept, AcceptOrder, ReplayInv, IInv, StageInv, bookVars
    <1>2. event.seq \in 0 .. MaxSeq /\ NextOpen \in 0 .. MaxSeq + 1
        BY <1>1, SeqAssumption DEF NextOpen, IInv, StageInv
    <1>3. o \in Intents
        BY <1>2, NewIntentType DEF IInv, PaperOrderStatus
    <1>4. intents'[placed + 1] = o
        BY <1>1, <1>3, AddedIntent DEF IInv
    <1>5. /\ o.filled = 0 /\ o.scheduled = event.seq + 1
          /\ o.side = side /\ o.quantity = q
        BY DEF NewIntent, NextOpen
    <1>6. BacktestOrders' = Append(BacktestOrders, [side |-> side, quantity |-> q])
        BY <1>1, <1>3, <1>5, OrderAppended DEF IInv
    <1>7. BT!RiskAccepts(side, q)
        BY <1>1, SameRisk DEF IInv, ReplayInv
    <1>8. BacktestScheduled = {}
        BY <1>1 DEF BacktestScheduled, WaitingOrders
    <1>9. /\ BacktestStage = "close" /\ BacktestStage' = "orders"
          /\ BacktestBar' = BacktestBar /\ BacktestBar.seq = event.seq
        BY <1>1 DEF BacktestStage, BacktestBar
    <1>10. BT!Decide(side, q)
        BY <1>1, <1>6, <1>9 DEF BT!Decide, BT!portfolioVars
    <1> HIDE DEF o
    <1>11. BacktestScheduled' =
             {[side |-> intents'[j].side,
               quantity |-> intents'[j].quantity - intents'[j].filled,
               signal |-> intents'[j].scheduled - 1] :
                j \in {k \in {placed + 1} : intents'[k].scheduled <= MaxSeq}}
        BY <1>1 DEF BacktestScheduled, WaitingOrders, BacktestOrder, Remaining
    <1>12. CASE event.seq = MaxSeq
        <2>1. BacktestScheduled' = {}
            BY <1>4, <1>5, <1>11, <1>12, SeqAssumption
        <2>2. BT!CancelLastOrder(side, q)
            BY <1>7, <1>8, <1>9, <1>10, <1>12, <2>1 DEF BT!CancelLastOrder
        <2> QED
            BY <2>2 DEF BT!Next
    <1>13. CASE event.seq < MaxSeq
        <2>1. BacktestScheduled' = {[side |-> side, quantity |-> q, signal |-> event.seq]}
            <3>1. {k \in {placed + 1} : intents'[k].scheduled <= MaxSeq} = {placed + 1}
                BY <1>2, <1>4, <1>5, <1>13, SeqAssumption
            <3>2. q - 0 = q /\ event.seq + 1 - 1 = event.seq
                BY <1>2, QuantityAssumption
            <3>3. /\ intents'[placed + 1].side = side
                  /\ intents'[placed + 1].quantity - intents'[placed + 1].filled = q
                  /\ intents'[placed + 1].scheduled - 1 = event.seq
                <4>1. intents'[placed + 1].quantity = q /\ intents'[placed + 1].filled = 0
                    BY <1>4, <1>5
                <4>2. intents'[placed + 1].scheduled = event.seq + 1
                    BY <1>4, <1>5
                <4>3. intents'[placed + 1].side = side
                    BY <1>4, <1>5
                <4> QED
                    BY <1>2, <4>1, <4>2, <4>3, QuantityAssumption
            <3> QED
                BY <1>11, <3>1, <3>3
        <2>2. BT!ScheduleOrder(side, q)
            BY <1>7, <1>9, <1>10, <1>13, <2>1 DEF BT!ScheduleOrder
        <2> QED
            BY <2>2 DEF BT!Next
    <1> QED
        BY <1>2, <1>12, <1>13, SeqAssumption

LEMMA RejectMaps ==
    ASSUME DriftAssumptions, IInv, ReplayInv,
           NEW side \in {"BUY", "SELL"}, NEW q \in 1 .. MaxQuantity,
           ReplayReject(side, q)
    PROVE  BT!Next
    <1> DEFINE o == NewIntent(side, q, "REJECTED", 0)
    <1>1. /\ stage = "close" /\ stage' = "orders" /\ halted' = halted
          /\ ~halted /\ pending = {} /\ pending' = pending
          /\ event' = event /\ position' = position /\ cash' = cash
          /\ mark' = mark /\ trades' = trades
          /\ ~Accepts(side, q) /\ placed < MaxOrders /\ AddIntent(o)
        BY DEF ReplayReject, RejectOrder, ReplayInv, IInv, StageInv, bookVars
    <1>2. o \in Intents
        BY SeqAssumption, NewIntentType DEF IInv, PaperOrderStatus
    <1>3. o.side = side /\ o.quantity = q
        BY DEF NewIntent
    <1>4. BacktestOrders' = Append(BacktestOrders, [side |-> side, quantity |-> q])
        BY <1>1, <1>2, <1>3, OrderAppended DEF IInv
    <1>5. ~BT!RiskAccepts(side, q)
        BY <1>1, SameRisk DEF IInv, ReplayInv
    <1>6. BacktestScheduled = {} /\ BacktestScheduled' = {}
        BY <1>1 DEF BacktestScheduled, WaitingOrders
    <1>7. /\ BacktestStage = "close" /\ BacktestStage' = "orders"
          /\ BacktestBar' = BacktestBar
        BY <1>1 DEF BacktestStage, BacktestBar
    <1>8. BT!RejectOrder(side, q)
        BY <1>1, <1>4, <1>5, <1>6, <1>7
        DEF BT!RejectOrder, BT!Decide, BT!portfolioVars
    <1> QED
        BY <1>8 DEF BT!Next

LEMMA ReplayStepMaps ==
    ASSUME DriftAssumptions
    PROVE  IInv /\ BooksReconcile /\ ReplayInv /\ [ReplayNext]_replayVars
               => [BT!Next]_(BT!vars)
    <1> SUFFICES ASSUME IInv, BooksReconcile, ReplayInv, [ReplayNext]_replayVars
                 PROVE  BT!Next \/ UNCHANGED BT!vars
        OBVIOUS
    <1>1. CASE UNCHANGED replayVars \/ ReplayStart
        BY <1>1, StutterMaps
        DEF replayVars, vars, ReplayStart, Start, orderVars, bookVars
    <1>2. CASE ReplayRaise
        <2>1. /\ stage = "close" /\ ~halted /\ halted' /\ stage' = "idle"
              /\ pending = {} /\ pending' = {}
              /\ UNCHANGED <<event, intents, placed, position, cash, mark, trades>>
            BY <1>2 DEF ReplayRaise, StrategyRaises, Halt, IInv, StageInv, ReplayInv,
                        orderVars, bookVars
        <2>2. /\ BacktestStage = "close" /\ BacktestStage' = "failed"
              /\ UNCHANGED <<BacktestBar, BacktestOrders>>
              /\ BacktestScheduled = {} /\ BacktestScheduled' = {}
            BY <2>1 DEF BacktestStage, BacktestBar, BacktestOrders,
                        BacktestScheduled, WaitingOrders
        <2>3. BT!StrategyRaises
            BY <2>1, <2>2 DEF BT!StrategyRaises, BT!portfolioVars
        <2> QED
            BY <2>3 DEF BT!Next
    <1>3. CASE ReplayEnd
        <2>1. /\ stage \in {"close", "orders"} /\ stage' = "idle"
              /\ ~halted /\ ~halted'
              /\ UNCHANGED <<event, intents, placed, pending, position, cash, mark,
                             trades>>
            BY <1>3 DEF ReplayEnd, EndEvent, IInv, StageInv, orderVars, bookVars
        <2>2. /\ BacktestStage = stage /\ BacktestStage' = "idle"
              /\ UNCHANGED <<BacktestBar, BacktestOrders, BacktestScheduled>>
            BY <2>1 DEF BacktestStage, BacktestBar, BacktestOrders,
                        BacktestScheduled, WaitingOrders, BacktestOrder, Remaining
        <2>3. BT!EndBar
            BY <2>1, <2>2 DEF BT!EndBar, BT!portfolioVars
        <2> QED
            BY <2>3 DEF BT!Next
    <1>4. CASE ReplayStop
        <2>1. halted' = halted
            BY <1>4 DEF ReplayStop, Stop, IInv, TypeOK
        <2> QED
            BY <1>4, <2>1, StutterMaps DEF ReplayStop, Stop, orderVars, bookVars
    <1>5. ASSUME NEW e \in Events, ReplayEvent(e) PROVE BT!Next
        BY <1>5, EventMaps
    <1>6. ASSUME NEW i \in due, ReplayFill(i) PROVE BT!Next
        BY <1>6, FillMaps
    <1>7. ASSUME NEW i \in due, ReplayRejectAtOpen(i) PROVE BT!Next
        BY <1>7, RejectAtOpenMaps
    <1>8. CASE ReplayClose
        BY <1>8, CloseMaps
    <1>9. ASSUME NEW side \in {"BUY", "SELL"}, NEW q \in 1 .. MaxQuantity,
                 ReplayAccept(side, q)
          PROVE  BT!Next
        BY <1>9, AcceptMaps
    <1>10. ASSUME NEW side \in {"BUY", "SELL"}, NEW q \in 1 .. MaxQuantity,
                  ReplayReject(side, q)
           PROVE  BT!Next
        BY <1>10, RejectMaps
    <1> QED
        BY <1>1, <1>2, <1>3, <1>4, <1>5, <1>6, <1>7, <1>8, <1>9, <1>10
        DEF ReplayNext

(* The drift check of phase 13 finds no drift: with whole fills and no      *)
(* ceiling but those of the backtest, every replay is a backtest of the     *)
(* same bars and orders, trade by trade and book by book.                   *)
THEOREM ReplayIsBacktest ==
    ASSUME DriftAssumptions
    PROVE  ReplaySpec => BacktestSpec
    BY ReplayInitMaps, ReplayInvariance, ReplayStepMaps, PTL
    DEF ReplaySpec, BacktestSpec, BT!Spec
=============================================================================
