----------------------- MODULE ExecutionGateway_proofs -----------------------
(***************************************************************************)
(* Proofs about the Phase 9 gateway, for every finite set of intents, every*)
(* set of symbols and prices, all orders and limits, and any bound on the  *)
(* submissions of one intent.                                              *)
(***************************************************************************)
EXTENDS ExecutionGateway, FiniteSums

(* What a venue fill is: an order's fill quantity and signed quantity are   *)
(* integers of the right sign, and the venue's price is positive.           *)
LEMMA FillTypes ==
    ASSUME TypeOK, NEW i \in Intents, NEW price \in Prices
    PROVE  /\ OrderOf[i] \in Order
           /\ OrderOf[i].symbol \in Symbols
           /\ FillQuantity(OrderOf[i]) \in Nat
           /\ FillQuantity(OrderOf[i]) <= OrderOf[i].quantity
           /\ SignedQuantity(OrderOf[i], FillQuantity(OrderOf[i])) \in Int
           /\ VenuePrice(price) \in Nat
           /\ price \in Nat
           /\ FillState \in {"FILLED", "PARTIALLY_FILLED"}
  <1>1. OrderOf[i] \in Order
    BY OrdersAssumption
  <1>2. /\ OrderOf[i].symbol \in Symbols
        /\ OrderOf[i].quantity \in Nat \ {0}
        /\ OrderOf[i].side \in Sides
    BY <1>1 DEF Order
  <1>3. price \in Nat /\ VenuePrice(price) \in Nat
    BY PricesAssumption, PriceAssumption DEF VenuePrice
  <1>4. /\ FillQuantity(OrderOf[i]) \in Nat
        /\ FillQuantity(OrderOf[i]) <= OrderOf[i].quantity
    BY <1>2 DEF FillQuantity
  <1>5. SignedQuantity(OrderOf[i], FillQuantity(OrderOf[i])) \in Int
    BY <1>4 DEF SignedQuantity
  <1>6. QED
    BY <1>1, <1>2, <1>3, <1>4, <1>5 DEF FillState

LEMMA ClientIdTypes ==
    ASSUME TypeOK, NEW i \in Intents, epoch[i] < MaxEpoch
    PROVE  <<i, epoch[i]>> \in ClientIds
  BY EpochAssumption DEF TypeOK, ClientIds, Epochs

LEMMA InitTypeOK == Init => TypeOK
  <1> SUFFICES ASSUME Init
               PROVE  TypeOK
    OBVIOUS
  <1>1. NoRecord \in Record
    BY DEF Record, NoRecord
  <1>2. cash \in Int /\ venueCash \in Int /\ capitalUsed \in Int
    BY CashAssumption DEF Init, VenueInit
  <1>3. orderCount \in Nat /\ turnover \in Int
    BY DEF Init
  <1>4. epoch \in [Intents -> 0 .. MaxEpoch]
    BY EpochAssumption DEF Init
  <1>5. position \in [Symbols -> Int] /\ venuePos \in [Symbols -> Int]
    BY DEF Init, VenueInit
  <1>6. store \in [ClientIds -> Record] /\ venue \in [ClientIds -> Record]
    BY <1>1 DEF Init, VenueInit
  <1>7. VenueTypeOK
    BY <1>2, <1>5, <1>6 DEF Init, VenueInit, VenueTypeOK
  <1>8. QED
    BY <1>2, <1>3, <1>4, <1>5, <1>6, <1>7 DEF Init, TypeOK, Verdicts

(* The outcomes of a submission keep every variable they write in its type. *)
LEMMA SubmitTypeOK ==
    ASSUME TypeOK, NEW i \in Intents, NEW price \in Prices,
           NEW live \in BOOLEAN, NEW operator \in BOOLEAN,
           SubmitIntent(i, price, live, operator)
    PROVE  TypeOK'
  <1> DEFINE c == <<i, epoch[i]>>
  <1>1. c \in ClientIds /\ epoch[i] < MaxEpoch
    BY ClientIdTypes DEF SubmitIntent, MaySubmit
  <1>2. epoch \in [Intents -> 0 .. MaxEpoch] /\ epoch[i] + 1 \in 0 .. MaxEpoch
    BY <1>1, EpochAssumption DEF TypeOK
  <1>3. \A s \in BrokerOrderState, q \in Nat :
            [state |-> s, filled |-> q] \in Record
    BY DEF Record
  <1>4. CASE SubmitUnknown(i, c)
    <2>1. store' \in [ClientIds -> Record]
      BY <1>1, <1>3, <1>4
         DEF TypeOK, SubmitUnknown, PutRecord, BrokerOrderState
    <2>2. VenueTypeOK'
      BY <1>1, <1>3, <1>4
         DEF TypeOK, VenueTypeOK, SubmitUnknown, VenueUnknown, venueVars,
             BrokerOrderState
    <2>3. QED
      BY <1>4, <2>1, <2>2
         DEF TypeOK, SubmitUnknown, SubmitIntent, controlVars
  <1>5. CASE SubmitRejected(i, c, price)
    <2>1. store' \in [ClientIds -> Record]
      BY <1>1, <1>3, <1>5
         DEF TypeOK, SubmitRejected, PutRecord, BrokerOrderState
    <2>2. VenueTypeOK'
      BY <1>1, <1>3, <1>5
         DEF TypeOK, VenueTypeOK, SubmitRejected, VenueReject, venueVars,
             BrokerOrderState
    <2>3. epoch' \in [Intents -> 0 .. MaxEpoch]
      BY <1>2, <1>5 DEF SubmitRejected
    <2>4. QED
      BY <1>5, <2>1, <2>2, <2>3
         DEF TypeOK, SubmitRejected, SubmitIntent, controlVars
  <1>6. CASE SubmitFilled(i, c, price)
    <2>0. /\ OrderOf[i].symbol \in Symbols
          /\ FillQuantity(OrderOf[i]) \in Nat
          /\ SignedQuantity(OrderOf[i], FillQuantity(OrderOf[i])) \in Int
          /\ VenuePrice(price) \in Nat
          /\ price \in Nat
          /\ FillState \in BrokerOrderState
      BY FillTypes DEF BrokerOrderState
    <2>1. store' \in [ClientIds -> Record]
      BY <1>1, <1>3, <1>6, <2>0 DEF TypeOK, SubmitFilled, PutRecord
    <2>2. VenueTypeOK'
      BY <1>1, <1>3, <1>6, <2>0
         DEF TypeOK, VenueTypeOK, SubmitFilled, VenueFill
    <2>3. epoch' \in [Intents -> 0 .. MaxEpoch]
      BY <1>2, <1>6 DEF SubmitFilled
    <2>4. /\ position' \in [Symbols -> Int]
          /\ cash' \in Int
          /\ capitalUsed' \in Int
          /\ orderCount' \in Nat
          /\ turnover' \in Int
      BY <1>6, <2>0
         DEF TypeOK, SubmitFilled, BookFill, PositionAfter, CashAfter
    <2>5. QED
      BY <1>6, <2>1, <2>2, <2>3, <2>4
         DEF TypeOK, SubmitIntent, controlVars
  <1>7. QED
    BY <1>4, <1>5, <1>6 DEF SubmitIntent

LEMMA NextTypeOK == TypeOK /\ [Next]_vars => TypeOK'
  <1> SUFFICES ASSUME TypeOK, [Next]_vars
               PROVE  TypeOK'
    OBVIOUS
  <1> USE DEF TypeOK, VenueTypeOK
  <1>1. CASE Start
    BY <1>1 DEF Start, Connect, bookVars
  <1>2. CASE ApproveOperator
    BY <1>2 DEF ApproveOperator, bookVars, venueVars
  <1>3. CASE ActivateKillSwitch
    BY <1>3 DEF ActivateKillSwitch, bookVars, venueVars
  <1>4. CASE ResetKillSwitch
    BY <1>4 DEF ResetKillSwitch, bookVars, venueVars
  <1>5. CASE Stop
    BY <1>5 DEF Stop, Disconnect, controlVars, bookVars
  <1>6. ASSUME NEW i \in Intents, NEW price \in Prices,
               NEW live \in BOOLEAN, NEW operator \in BOOLEAN,
               SubmitIntent(i, price, live, operator)
        PROVE  TypeOK'
    BY <1>6, SubmitTypeOK
  <1>7. ASSUME NEW c \in ClientIds, Cancel(c)
        PROVE  TypeOK'
    <2>1. venue' \in [ClientIds -> Record]
      BY <1>7 DEF Cancel, VenueCancel, Record, BrokerOrderState
    <2>2. QED
      BY <1>7, <2>1 DEF Cancel, VenueCancel, controlVars, bookVars
  <1>8. CASE Reconcile
    BY <1>8 DEF Reconcile, ReconcileEffects, bookVars, venueVars
  <1>9. CASE RecoverUnresolved
    BY <1>9 DEF RecoverUnresolved, Verdicts, bookVars, venueVars
  <1>10. CASE RecoverReconcile
    BY <1>10 DEF RecoverReconcile, ReconcileEffects, Verdicts, bookVars, venueVars
  <1>11. CASE UNCHANGED vars
    BY <1>11 DEF vars, controlVars, bookVars, venueVars
  <1>12. QED
    BY <1>1, <1>2, <1>3, <1>4, <1>5, <1>6, <1>7, <1>8, <1>9, <1>10, <1>11 DEF Next

(* Every variable of the gateway and its venue keeps its type.              *)
THEOREM GatewayTypeOK == Spec => []TypeOK
  BY InitTypeOK, NextTypeOK, PTL DEF Spec

-----------------------------------------------------------------------------
(* The store, the epochs and the venue *)

IInv == TypeOK /\ EpochDiscipline /\ StoreMatchesVenue

(* What the store may hold, whatever the epoch.                             *)
LEMMA StoreStates ==
    ASSUME IInv, NEW c \in ClientIds
    PROVE  /\ store[c] = NoRecord
              \/ store[c] = UnknownRecord
              \/ store[c].state \in {"REJECTED", "FILLED", "PARTIALLY_FILLED"}
           /\ store[c] \in Record /\ venue[c] \in Record
  <1>1. PICK i \in Intents, e \in Epochs : c = <<i, e>>
    BY DEF ClientIds
  <1>2. epoch[i] \in Int /\ e \in Int
    BY EpochAssumption DEF IInv, TypeOK, Epochs
  <1>3. e < epoch[i] \/ e = epoch[i] \/ e > epoch[i]
    BY <1>2
  <1>4. store[c] \in Record /\ venue[c] \in Record
    BY DEF IInv, TypeOK, VenueTypeOK
  <1>5. QED
    BY <1>1, <1>3, <1>4 DEF IInv, EpochDiscipline

(* A submission starts from an unused client id, unknown to the venue.      *)
LEMMA FreshId ==
    ASSUME IInv, NEW i \in Intents, CanRetry(store, i), epoch[i] < MaxEpoch
    PROVE  /\ epoch[i] \in Epochs
           /\ store[<<i, epoch[i]>>] = NoRecord
           /\ venue[<<i, epoch[i]>>].state = "NONE"
           /\ venue[<<i, epoch[i]>>].filled = 0
  <1> DEFINE c == <<i, epoch[i]>>
  <1>1. epoch[i] \in Epochs /\ c \in ClientIds
    BY EpochAssumption DEF IInv, TypeOK, Epochs, ClientIds
  <1>2. store[c] \in {NoRecord, UnknownRecord}
    BY <1>1 DEF IInv, EpochDiscipline
  <1>3. store[c].state # "UNKNOWN"
    BY <1>1 DEF CanRetry, NoRetryStates
  <1>4. store[c] = NoRecord
    BY <1>2, <1>3 DEF UnknownRecord
  <1>5. QED
    BY <1>1, <1>4 DEF IInv, StoreMatchesVenue, NoRecord

LEMMA InitIInv == Init => IInv
  <1> SUFFICES ASSUME Init
               PROVE  IInv
    OBVIOUS
  <1>1. EpochDiscipline
    <2> SUFFICES ASSUME NEW i \in Intents, NEW e \in Epochs
                 PROVE  store[<<i, e>>] = NoRecord /\ ~(e < epoch[i])
      BY DEF EpochDiscipline
    <2>1. <<i, e>> \in ClientIds /\ epoch[i] = 0
      BY DEF Init, ClientIds
    <2>2. e \in Int /\ e >= 0
      BY EpochAssumption DEF Epochs
    <2>3. QED
      BY <2>1, <2>2 DEF Init
  <1>2. StoreMatchesVenue
    BY DEF Init, VenueInit, StoreMatchesVenue, NoRecord
  <1>3. QED
    BY <1>1, <1>2, InitTypeOK DEF IInv

(* Writing one answered record at the counter and advancing it.             *)
LEMMA AdvanceEpoch ==
    ASSUME IInv, NEW i \in Intents, CanRetry(store, i), epoch[i] < MaxEpoch,
           NEW r \in Record,
           r.state \in {"REJECTED", "FILLED", "PARTIALLY_FILLED"},
           store' = [store EXCEPT ![<<i, epoch[i]>>] = r],
           epoch' = [epoch EXCEPT ![i] = @ + 1]
    PROVE  EpochDiscipline'
  <1> SUFFICES ASSUME NEW j \in Intents, NEW e \in Epochs
               PROVE  /\ e < epoch'[j] => store'[<<j, e>>].state \in
                               {"REJECTED", "FILLED", "PARTIALLY_FILLED"}
                      /\ e = epoch'[j] =>
                               store'[<<j, e>>] \in {NoRecord, UnknownRecord}
                      /\ e > epoch'[j] => store'[<<j, e>>] = NoRecord
    BY DEF EpochDiscipline
  <1>1. /\ <<j, e>> \in ClientIds
        /\ <<i, epoch[i]>> \in ClientIds
        /\ epoch[i] \in Int /\ epoch[j] \in Int /\ e \in Int
    BY FreshId, EpochAssumption DEF IInv, TypeOK, Epochs, ClientIds
  <1>2. store \in [ClientIds -> Record] /\ epoch \in [Intents -> 0 .. MaxEpoch]
    BY DEF IInv, TypeOK
  <1>3. CASE j # i
    <2>1. store'[<<j, e>>] = store[<<j, e>>] /\ epoch'[j] = epoch[j]
      BY <1>1, <1>2, <1>3
    <2>2. QED
      BY <2>1 DEF IInv, EpochDiscipline
  <1>4. CASE j = i /\ e = epoch[i]
    <2>1. store'[<<j, e>>] = r /\ epoch'[j] = e + 1
      BY <1>1, <1>2, <1>4
    <2>2. e < e + 1 /\ e # e + 1 /\ ~(e > e + 1)
      BY <1>1
    <2>3. QED
      BY <2>1, <2>2
  <1>5. CASE j = i /\ e # epoch[i]
    <2>1. store'[<<j, e>>] = store[<<j, e>>] /\ epoch'[j] = epoch[i] + 1
      BY <1>1, <1>2, <1>5
    <2>2. /\ e < epoch[i] + 1 => e < epoch[i]
          /\ e = epoch[i] + 1 => e > epoch[i]
          /\ e > epoch[i] + 1 => e > epoch[i]
      BY <1>1, <1>5
    <2>3. /\ e < epoch[i] => store[<<i, e>>].state \in
                               {"REJECTED", "FILLED", "PARTIALLY_FILLED"}
          /\ e > epoch[i] => store[<<i, e>>] = NoRecord
      BY DEF IInv, EpochDiscipline
    <2>4. QED
      BY <1>5, <2>1, <2>2, <2>3
  <1>6. QED
    BY <1>3, <1>4, <1>5

(* A submission answered UNKNOWN writes the ambiguous record at the counter. *)
LEMMA UnknownEpoch ==
    ASSUME IInv, NEW i \in Intents, CanRetry(store, i), epoch[i] < MaxEpoch,
           store' = [store EXCEPT ![<<i, epoch[i]>>] = UnknownRecord],
           epoch' = epoch
    PROVE  EpochDiscipline'
  <1> SUFFICES ASSUME NEW j \in Intents, NEW e \in Epochs
               PROVE  /\ e < epoch[j] => store'[<<j, e>>].state \in
                               {"REJECTED", "FILLED", "PARTIALLY_FILLED"}
                      /\ e = epoch[j] =>
                               store'[<<j, e>>] \in {NoRecord, UnknownRecord}
                      /\ e > epoch[j] => store'[<<j, e>>] = NoRecord
    BY DEF EpochDiscipline
  <1>1. /\ <<j, e>> \in ClientIds
        /\ store \in [ClientIds -> Record]
        /\ epoch[j] \in Int /\ e \in Int
    BY EpochAssumption DEF IInv, TypeOK, Epochs, ClientIds
  <1>2. CASE <<j, e>> = <<i, epoch[i]>>
    <2>1. store'[<<j, e>>] = UnknownRecord /\ e = epoch[j]
      BY <1>1, <1>2
    <2>2. ~(e < epoch[j]) /\ ~(e > epoch[j])
      BY <1>1, <2>1
    <2>3. QED
      BY <2>1, <2>2
  <1>3. CASE <<j, e>> # <<i, epoch[i]>>
    <2>1. store'[<<j, e>>] = store[<<j, e>>]
      BY <1>1, <1>3
    <2>2. QED
      BY <2>1 DEF IInv, EpochDiscipline
  <1>4. QED
    BY <1>2, <1>3

(* The store and the venue get the same record, or the venue none.          *)
LEMMA SubmitMatches ==
    ASSUME IInv, NEW i \in Intents, CanRetry(store, i), epoch[i] < MaxEpoch,
           NEW r \in Record, NEW v \in Record,
           r.filled = v.filled,
           r.state = "UNKNOWN" => v.state \in {"NONE", "UNKNOWN"},
           r.state # "UNKNOWN" => v = r,
           store' = [store EXCEPT ![<<i, epoch[i]>>] = r],
           venue' = [venue EXCEPT ![<<i, epoch[i]>>] = v]
    PROVE  StoreMatchesVenue'
  <1>1. store \in [ClientIds -> Record] /\ venue \in [ClientIds -> Record]
    BY DEF IInv, TypeOK, VenueTypeOK
  <1>2. \A c \in ClientIds :
            \/ store'[c] = store[c] /\ venue'[c] = venue[c]
            \/ store'[c] = r /\ venue'[c] = v
    BY <1>1
  <1>3. QED
    BY <1>2 DEF IInv, StoreMatchesVenue

LEMMA SubmitIInv ==
    ASSUME IInv, NEW i \in Intents, NEW price \in Prices,
           NEW live \in BOOLEAN, NEW operator \in BOOLEAN,
           SubmitIntent(i, price, live, operator)
    PROVE  IInv'
  <1> DEFINE c == <<i, epoch[i]>>
  <1>1. TypeOK'
    BY SubmitTypeOK DEF IInv
  <1>2. CanRetry(store, i) /\ epoch[i] < MaxEpoch
    BY DEF SubmitIntent, MaySubmit
  <1>3. /\ c \in ClientIds
        /\ venue[c].state = "NONE" /\ venue[c].filled = 0
        /\ venue \in [ClientIds -> Record]
    BY <1>2, FreshId DEF IInv, TypeOK, VenueTypeOK, ClientIds
  <1>4. CASE SubmitUnknown(i, c)
    <2>1. UnknownRecord \in Record /\ UnknownRecord.state = "UNKNOWN"
          /\ UnknownRecord.filled = 0
      BY DEF UnknownRecord, Record, BrokerOrderState
    <2>2. store' = [store EXCEPT ![c] = UnknownRecord] /\ epoch' = epoch
      BY <1>4 DEF SubmitUnknown, PutRecord, UnknownRecord
    <2>3. CASE venue' = venue
      <3>1. venue' = [venue EXCEPT ![c] = venue[c]]
        BY <1>3, <2>3
      <3>2. venue[c] \in Record
        BY <1>3
      <3>3. QED
        BY <1>1, <1>2, <1>3, <2>1, <2>2, <3>1, <3>2, SubmitMatches, UnknownEpoch
           DEF IInv
    <2>4. CASE venue' = [venue EXCEPT ![c] = UnknownRecord]
      BY <1>1, <1>2, <2>1, <2>2, <2>4, SubmitMatches, UnknownEpoch DEF IInv
    <2>5. QED
      BY <1>4, <2>3, <2>4
         DEF SubmitUnknown, VenueUnknown, venueVars, UnknownRecord
  <1>5. CASE SubmitRejected(i, c, price)
    <2> DEFINE r == [state |-> "REJECTED", filled |-> 0]
    <2>1. r \in Record
      BY DEF Record, BrokerOrderState
    <2>2. /\ store' = [store EXCEPT ![c] = r]
          /\ venue' = [venue EXCEPT ![c] = r]
          /\ epoch' = [epoch EXCEPT ![i] = @ + 1]
      BY <1>5 DEF SubmitRejected, PutRecord, VenueReject
    <2>3. QED
      BY <1>1, <1>2, <2>1, <2>2, SubmitMatches, AdvanceEpoch DEF IInv
  <1>6. CASE SubmitFilled(i, c, price)
    <2> DEFINE r == [state |-> FillState, filled |-> FillQuantity(OrderOf[i])]
    <2>1. r \in Record /\ r.state \in {"FILLED", "PARTIALLY_FILLED"}
      BY FillTypes DEF Record, BrokerOrderState, IInv
    <2>2. /\ store' = [store EXCEPT ![c] = r]
          /\ venue' = [venue EXCEPT ![c] = r]
          /\ epoch' = [epoch EXCEPT ![i] = @ + 1]
      BY <1>6 DEF SubmitFilled, PutRecord, VenueFill
    <2>3. QED
      BY <1>1, <1>2, <2>1, <2>2, SubmitMatches, AdvanceEpoch DEF IInv
  <1>7. QED
    BY <1>4, <1>5, <1>6 DEF SubmitIntent

(* A cancel reaches only an order the store still holds as ambiguous or     *)
(* partially filled.                                                       *)
LEMMA CancelOpen ==
    ASSUME IInv, NEW c \in ClientIds, Cancel(c)
    PROVE  store[c].state \in {"UNKNOWN", "PARTIALLY_FILLED"}
  <1>1. /\ venue[c].state \notin {"NONE", "FILLED", "REJECTED", "CANCELLED"}
        /\ store[c].state \notin {"UNKNOWN", "PARTIALLY_FILLED"} =>
               venue[c].state = store[c].state
    BY DEF Cancel, VenueCancel, IInv, StoreMatchesVenue
  <1>2. QED
    BY <1>1, StoreStates DEF NoRecord, UnknownRecord

LEMMA NextIInv == IInv /\ [Next]_vars => IInv'
  <1> SUFFICES ASSUME IInv, [Next]_vars
               PROVE  IInv'
    OBVIOUS
  <1>1. TypeOK'
    BY NextTypeOK DEF IInv
  <1>2. ASSUME NEW i \in Intents, NEW price \in Prices,
               NEW live \in BOOLEAN, NEW operator \in BOOLEAN,
               SubmitIntent(i, price, live, operator)
        PROVE  IInv'
    BY <1>2, SubmitIInv
  <1>3. ASSUME NEW c \in ClientIds, Cancel(c)
        PROVE  IInv'
    <2>1. EpochDiscipline'
      BY <1>3 DEF Cancel, bookVars, IInv, EpochDiscipline
    <2>2. ASSUME NEW d \in ClientIds
          PROVE  /\ store'[d] = store[d]
                 /\ venue'[d].filled = venue[d].filled
                 /\ venue'[d].state = IF d = c THEN "CANCELLED" ELSE venue[d].state
      BY <1>3 DEF Cancel, VenueCancel, bookVars, IInv, TypeOK, VenueTypeOK, Record
    <2>3. store[c].state \in {"UNKNOWN", "PARTIALLY_FILLED"}
      BY <1>3, CancelOpen
    <2>4. StoreMatchesVenue'
      BY <2>2, <2>3 DEF IInv, StoreMatchesVenue
    <2>5. QED
      BY <1>1, <2>1, <2>4 DEF IInv
  <1>4. CASE UNCHANGED <<store, epoch, venue>>
    BY <1>1, <1>4 DEF IInv, EpochDiscipline, StoreMatchesVenue
  <1>5. Next \/ UNCHANGED vars
    OBVIOUS
  <1>6. QED
    BY <1>2, <1>3, <1>4, <1>5
       DEF Next, Start, ApproveOperator, ActivateKillSwitch, ResetKillSwitch,
           Stop, Reconcile, ReconcileEffects, RecoverUnresolved,
           RecoverReconcile, vars, bookVars, venueVars

LEMMA InvariantIInv == Spec => []IInv
  BY InitIInv, NextIInv, PTL DEF Spec

(* The idempotency store knows the venue's outcome of every submission.     *)
THEOREM GatewayStoreMatchesVenue == Spec => []StoreMatchesVenue
  <1>1. IInv => StoreMatchesVenue
    BY DEF IInv
  <1>2. QED
    BY <1>1, InvariantIInv, PTL

(* A client order id is never reused for an attempt that was answered.      *)
THEOREM GatewayEpochDiscipline == Spec => []EpochDiscipline
  <1>1. IInv => EpochDiscipline
    BY DEF IInv
  <1>2. QED
    BY <1>1, InvariantIInv, PTL

-----------------------------------------------------------------------------
(* Books *)

LEMMA SubmitBooks ==
    ASSUME TypeOK, BooksAgree, NEW i \in Intents, NEW price \in Prices,
           NEW live \in BOOLEAN, NEW operator \in BOOLEAN,
           SubmitIntent(i, price, live, operator)
    PROVE  BooksAgree'
  <1> DEFINE c == <<i, epoch[i]>>
  <1>1. CASE SubmitUnknown(i, c)
    BY <1>1 DEF SubmitUnknown, VenueUnknown, venueVars, BooksAgree
  <1>2. CASE SubmitRejected(i, c, price)
    BY <1>2 DEF SubmitRejected, VenueReject, BooksAgree
  <1>3. CASE SubmitFilled(i, c, price)
    BY <1>3 DEF SubmitFilled, VenueFill, BookFill, PositionAfter, CashAfter,
                BooksAgree
  <1>4. QED
    BY <1>1, <1>2, <1>3 DEF SubmitIntent

(* The gateway's books are the venue's after every call.                    *)
THEOREM GatewayBooksAgree == Spec => []BooksAgree
  <1>1. Init => BooksAgree
    BY DEF Init, VenueInit, BooksAgree
  <1>2. TypeOK /\ BooksAgree /\ [Next]_vars => BooksAgree'
    <2> SUFFICES ASSUME TypeOK, BooksAgree, [Next]_vars
                 PROVE  BooksAgree'
      OBVIOUS
    <2>1. ASSUME NEW i \in Intents, NEW price \in Prices,
                 NEW live \in BOOLEAN, NEW operator \in BOOLEAN,
                 SubmitIntent(i, price, live, operator)
          PROVE  BooksAgree'
      BY <2>1, SubmitBooks
    <2>2. CASE UNCHANGED <<position, cash, venuePos, venueCash>>
      BY <2>2 DEF BooksAgree
    <2>3. QED
      BY <2>1, <2>2
         DEF Next, Start, ApproveOperator, ActivateKillSwitch, ResetKillSwitch,
             Stop, Cancel, VenueCancel, Reconcile, ReconcileEffects,
             RecoverUnresolved, RecoverReconcile, vars, bookVars, venueVars
  <1>3. QED
    BY <1>1, <1>2, GatewayTypeOK, PTL DEF Spec

LEMMA FillIsAffordable ==
    ASSUME TypeOK, NoOverdraft, NEW i \in Intents, NEW price \in Prices,
           NEW c \in ClientIds, VenueFill(c, OrderOf[i], price)
    PROVE  NoOverdraft'
  <1> DEFINE order == OrderOf[i]
             filled == FillQuantity(order)
             paid == filled * VenuePrice(price)
  <1>1. /\ order.symbol \in Symbols /\ order.side \in Sides
        /\ filled \in Nat /\ VenuePrice(price) \in Nat
    BY FillTypes DEF Order
  <1>2. paid \in Nat /\ (-filled) * VenuePrice(price) = -paid
    BY <1>1
  <1>3. /\ venuePos \in [Symbols -> Int] /\ venueCash \in Int
        /\ venueCash >= 0 /\ \A s \in Symbols : venuePos[s] >= 0
    BY DEF TypeOK, VenueTypeOK, NoOverdraft
  <1>4. CASE order.side = "BUY"
    <2>1. /\ paid <= venueCash
          /\ venueCash' = venueCash - paid
          /\ venuePos' = [venuePos EXCEPT ![order.symbol] = @ + filled]
      BY <1>4 DEF VenueFill, Affordable, SignedQuantity
    <2>2. venueCash' >= 0
      BY <1>2, <1>3, <2>1
    <2>3. \A s \in Symbols : venuePos'[s] >= 0
      BY <1>1, <1>3, <2>1
    <2>4. QED
      BY <2>2, <2>3 DEF NoOverdraft
  <1>5. CASE order.side = "SELL"
    <2>1. /\ filled <= venuePos[order.symbol]
          /\ venueCash' = venueCash - (-filled) * VenuePrice(price)
          /\ venuePos' = [venuePos EXCEPT ![order.symbol] = @ + (-filled)]
      BY <1>5 DEF VenueFill, Affordable, SignedQuantity
    <2>2. venueCash' >= 0
      BY <1>2, <1>3, <2>1
    <2>3. \A s \in Symbols : venuePos'[s] >= 0
      BY <1>1, <1>3, <2>1
    <2>4. QED
      BY <2>2, <2>3 DEF NoOverdraft
  <1>6. QED
    BY <1>1, <1>4, <1>5 DEF Sides

(* No sequence of intents overdraws the venue account or sells short.       *)
THEOREM GatewayNoOverdraft == Spec => []NoOverdraft
  <1>1. Init => NoOverdraft
    BY CashAssumption DEF Init, VenueInit, NoOverdraft
  <1>2. TypeOK /\ NoOverdraft /\ [Next]_vars => NoOverdraft'
    <2> SUFFICES ASSUME TypeOK, NoOverdraft, [Next]_vars
                 PROVE  NoOverdraft'
      OBVIOUS
    <2>1. ASSUME NEW i \in Intents, NEW price \in Prices,
                 NEW live \in BOOLEAN, NEW operator \in BOOLEAN,
                 SubmitIntent(i, price, live, operator)
          PROVE  NoOverdraft'
      <3>1. CASE UNCHANGED <<venuePos, venueCash>>
        BY <3>1 DEF NoOverdraft
      <3>2. CASE VenueFill(<<i, epoch[i]>>, OrderOf[i], price)
        <4>1. <<i, epoch[i]>> \in ClientIds
          BY <2>1, ClientIdTypes DEF SubmitIntent, MaySubmit
        <4>2. QED
          BY <3>2, <4>1, FillIsAffordable
      <3>3. QED
        BY <2>1, <3>1, <3>2
           DEF SubmitIntent, SubmitUnknown, VenueUnknown, venueVars,
               SubmitRejected, VenueReject, SubmitFilled
    <2>2. CASE UNCHANGED <<venuePos, venueCash>>
      BY <2>2 DEF NoOverdraft
    <2>3. QED
      BY <2>1, <2>2
         DEF Next, Start, ApproveOperator, ActivateKillSwitch, ResetKillSwitch,
             Stop, Cancel, VenueCancel, Reconcile, ReconcileEffects,
             RecoverUnresolved, RecoverReconcile, vars, bookVars, venueVars
  <1>3. QED
    BY <1>1, <1>2, GatewayTypeOK, PTL DEF Spec

-----------------------------------------------------------------------------
(* Fills and positions *)

LEMMA FillSumTypes ==
    ASSUME TypeOK, NEW s \in Symbols
    PROVE  /\ IsFiniteSet(IdsOf(s)) /\ IdsOf(s) \subseteq ClientIds
           /\ \A c \in ClientIds : SignedFill[c] \in Int
           /\ FillsOf(s) \in Int
  <1>1. IsFiniteSet(IdsOf(s)) /\ IdsOf(s) \subseteq ClientIds
    <2>1. MaxEpoch - 1 \in Int
      BY EpochAssumption
    <2>2. IsFiniteSet(Epochs)
      BY <2>1, FS_Interval DEF Epochs
    <2>3. IsFiniteSet(ClientIds)
      BY <2>2, IntentsAssumption, FS_Product DEF ClientIds
    <2>4. QED
      BY <2>3, FS_Subset DEF IdsOf
  <1>2. ASSUME NEW c \in ClientIds PROVE SignedFill[c] \in Int
    <2>1. store[c] \in Record
      BY DEF TypeOK
    <2>2. store[c].filled \in Nat
      BY <2>1 DEF Record
    <2>3. QED
      BY <2>2 DEF SignedFill, SignedQuantity
  <1>3. QED
    BY <1>1, <1>2, SumIsInt DEF FillsOf

(* Records that keep what they filled.                                      *)
LEMMA FillsUnchanged ==
    ASSUME TypeOK, \A c \in ClientIds : store'[c].filled = store[c].filled,
           NEW s \in Symbols
    PROVE  FillsOf(s)' = FillsOf(s)
  <1>1. IdsOf(s)' = IdsOf(s)
    BY DEF IdsOf
  <1>2. \A c \in ClientIds : SignedFill'[c] = SignedFill[c]
    BY DEF SignedFill
  <1>3. SumFunctionOnSet(SignedFill', IdsOf(s)) = SumFunctionOnSet(SignedFill, IdsOf(s))
    BY <1>2, FillSumTypes, SumOfSame
  <1>4. QED
    BY <1>1, <1>3 DEF FillsOf

(* An answered submission adds its fill to the sum of its symbol.           *)
LEMMA FillsOfSubmission ==
    ASSUME TypeOK, NEW i \in Intents, NEW e \in Epochs, NEW q \in Nat,
           store[<<i, e>>].filled = 0, store'[<<i, e>>].filled = q,
           \A c \in ClientIds : c # <<i, e>> => store'[c] = store[c],
           NEW s \in Symbols
    PROVE  FillsOf(s)' = FillsOf(s) +
             IF OrderOf[i].symbol = s THEN SignedQuantity(OrderOf[i], q) ELSE 0
  <1> DEFINE c == <<i, e>>
             d == SignedQuantity(OrderOf[i], q)
  <1>1. c \in ClientIds /\ c[1] = i /\ d \in Int
    BY DEF ClientIds, SignedQuantity
  <1>2. IdsOf(s)' = IdsOf(s)
    BY DEF IdsOf
  <1>3. /\ SignedFill[c] = 0 /\ SignedFill'[c] = d
        /\ \A b \in ClientIds : b # c => SignedFill'[b] = SignedFill[b]
    BY <1>1 DEF SignedFill, SignedQuantity
  <1>4. FillsOf(s)' = SumFunctionOnSet(SignedFill', IdsOf(s))
    BY <1>2 DEF FillsOf
  <1> HIDE DEF c, d
  <1>5. CASE OrderOf[i].symbol = s
    <2>1. c \in IdsOf(s)
      BY <1>1, <1>5 DEF IdsOf
    <2>2. \A b \in IdsOf(s) : SignedFill[b] \in Int /\ SignedFill'[b] \in Int
      BY <1>1, <1>3, FillSumTypes
    <2>3. \A b \in IdsOf(s) : b # c => SignedFill'[b] = SignedFill[b]
      BY <1>3, FillSumTypes
    <2>4. SumFunctionOnSet(SignedFill', IdsOf(s)) =
              SumFunctionOnSet(SignedFill, IdsOf(s)) + SignedFill'[c] - SignedFill[c]
      BY <2>1, <2>2, <2>3, FillSumTypes, SumChangesByOne
    <2>5. FillsOf(s)' = FillsOf(s) + d
      BY <1>1, <1>3, <1>4, <2>4, FillSumTypes DEF FillsOf
    <2>6. QED
      BY <1>5, <2>5 DEF d
  <1>6. CASE OrderOf[i].symbol # s
    <2>1. c \notin IdsOf(s)
      BY <1>1, <1>6 DEF IdsOf
    <2>2. SumFunctionOnSet(SignedFill', IdsOf(s)) =
              SumFunctionOnSet(SignedFill, IdsOf(s))
      BY <1>3, <2>1, FillSumTypes, SumOfSame
    <2>3. QED
      BY <1>4, <1>6, <2>2, FillSumTypes DEF FillsOf
  <1>7. QED
    BY <1>5, <1>6

LEMMA SubmitExplained ==
    ASSUME IInv, FillsExplainPosition, NEW i \in Intents, NEW price \in Prices,
           NEW live \in BOOLEAN, NEW operator \in BOOLEAN,
           SubmitIntent(i, price, live, operator)
    PROVE  FillsExplainPosition'
  <1> SUFFICES ASSUME NEW s \in Symbols
               PROVE  position'[s] = FillsOf(s)'
    BY DEF FillsExplainPosition
  <1> DEFINE c == <<i, epoch[i]>>
  <1>1. CanRetry(store, i) /\ epoch[i] < MaxEpoch
    BY DEF SubmitIntent, MaySubmit
  <1>2. /\ epoch[i] \in Epochs /\ c \in ClientIds
        /\ store[c].filled = 0
        /\ store \in [ClientIds -> Record] /\ position \in [Symbols -> Int]
        /\ TypeOK /\ position[s] = FillsOf(s)
    BY <1>1, FreshId DEF NoRecord, ClientIds, IInv, TypeOK, FillsExplainPosition
  <1>3. ASSUME NEW state, NEW q \in Nat, PutRecord(c, state, q)
        PROVE  /\ store'[c].filled = q
               /\ \A b \in ClientIds : b # c => store'[b] = store[b]
    BY <1>2, <1>3 DEF PutRecord
  <1>4. CASE SubmitUnknown(i, c) \/ SubmitRejected(i, c, price)
    <2>1. position' = position /\ \E state : PutRecord(c, state, 0)
      BY <1>4 DEF SubmitUnknown, SubmitRejected
    <2>2. \A b \in ClientIds : store'[b].filled = store[b].filled
      BY <1>2, <1>3, <2>1
    <2>3. QED
      BY <1>2, <2>1, <2>2, FillsUnchanged
  <1>5. CASE SubmitFilled(i, c, price)
    <2> DEFINE q == FillQuantity(OrderOf[i])
               d == SignedQuantity(OrderOf[i], q)
    <2>1. /\ OrderOf[i].symbol \in Symbols /\ q \in Nat /\ d \in Int
      BY <1>2, FillTypes
    <2>2. /\ position' = [position EXCEPT ![OrderOf[i].symbol] = @ + d]
          /\ PutRecord(c, FillState, q)
      BY <1>5 DEF SubmitFilled, BookFill, PositionAfter
    <2>3. /\ store'[c].filled = q
          /\ \A b \in ClientIds : b # c => store'[b] = store[b]
      BY <1>3, <2>1, <2>2
    <2> HIDE DEF q
    <2>4. FillsOf(s)' = FillsOf(s) + IF OrderOf[i].symbol = s THEN d ELSE 0
      BY <1>2, <2>1, <2>3, FillsOfSubmission
    <2> HIDE DEF d
    <2>5. position'[s] = position[s] + IF OrderOf[i].symbol = s THEN d ELSE 0
      BY <1>2, <2>1, <2>2
    <2>6. QED
      BY <1>2, <2>4, <2>5
  <1>6. QED
    BY <1>4, <1>5 DEF SubmitIntent

(* The internal position is what the recorded submissions filled.           *)
THEOREM GatewayFillsExplainPosition == Spec => []FillsExplainPosition
  <1>1. Init => FillsExplainPosition
    <2> SUFFICES ASSUME Init, NEW s \in Symbols
                 PROVE  position[s] = FillsOf(s)
      BY DEF FillsExplainPosition
    <2>1. TypeOK
      BY InitTypeOK
    <2>2. \A c \in IdsOf(s) : SignedFill[c] = 0
      <3>1. \A c \in ClientIds : store[c].filled = 0
        BY DEF Init, NoRecord
      <3>2. QED
        BY <3>1 DEF IdsOf, SignedFill, SignedQuantity
    <2>3. SumFunctionOnSet(SignedFill, IdsOf(s)) = 0
      BY <2>1, <2>2, FillSumTypes, SumOfZeros
    <2>4. QED
      BY <2>3 DEF Init, FillsOf
  <1>2. IInv /\ FillsExplainPosition /\ [Next]_vars => FillsExplainPosition'
    <2> SUFFICES ASSUME IInv, FillsExplainPosition, [Next]_vars
                 PROVE  FillsExplainPosition'
      OBVIOUS
    <2>1. ASSUME NEW i \in Intents, NEW price \in Prices,
                 NEW live \in BOOLEAN, NEW operator \in BOOLEAN,
                 SubmitIntent(i, price, live, operator)
          PROVE  FillsExplainPosition'
      BY <2>1, SubmitExplained
    <2>2. CASE UNCHANGED <<position, store>>
      BY <2>2, FillsUnchanged DEF FillsExplainPosition, IInv
    <2>3. QED
      BY <2>1, <2>2
         DEF Next, Start, ApproveOperator, ActivateKillSwitch, ResetKillSwitch,
             Stop, Cancel, Reconcile, ReconcileEffects, RecoverUnresolved,
             RecoverReconcile, vars, bookVars
  <1>3. QED
    BY <1>1, <1>2, InvariantIInv, PTL DEF Spec

-----------------------------------------------------------------------------
(* The kill switch and the block *)

(* While frozen or blocked, no call reaches the venue with an order and no  *)
(* fill is booked.                                                          *)
THEOREM GatewayFreeze == Spec => FreezeStopsSubmission
  <1>1. [Next]_vars => [Frozen => NothingSubmitted]_vars
    <2> SUFFICES ASSUME Next, Frozen
                 PROVE  NothingSubmitted
      BY DEF vars
    <2>1. ASSUME NEW i \in Intents, NEW price \in Prices,
                 NEW live \in BOOLEAN, NEW operator \in BOOLEAN,
                 SubmitIntent(i, price, live, operator)
          PROVE  FALSE
      BY <2>1 DEF SubmitIntent, MaySubmit, SessionOpen, Frozen
    <2>2. ASSUME NEW c \in ClientIds, Cancel(c)
          PROVE  NothingSubmitted
      <3>1. venue[c].state # "NONE" /\ \A d \in ClientIds \ {c} : venue'[d] = venue[d]
        BY <2>2 DEF Cancel, VenueCancel
      <3>2. UNCHANGED <<store, position, venuePos, cash>>
        BY <2>2 DEF Cancel, VenueCancel, bookVars
      <3>3. QED
        BY <3>1, <3>2 DEF NothingSubmitted
    <2>3. CASE UNCHANGED <<store, position, venuePos, cash, venue>>
      BY <2>3 DEF NothingSubmitted
    <2>4. QED
      BY <2>1, <2>2, <2>3
         DEF Next, Start, ApproveOperator, ActivateKillSwitch, ResetKillSwitch,
             Stop, Reconcile, ReconcileEffects, RecoverUnresolved,
             RecoverReconcile, bookVars, venueVars
  <1>2. QED
    BY <1>1, PTL DEF Spec, FreezeStopsSubmission

-----------------------------------------------------------------------------
(* The capital hierarchy *)

LEMMA TightestBinds ==
    ASSUME NEW amount \in Int, NEW level \in Levels, NEW name \in LimitNames,
           Within(amount, Effective(name))
    PROVE  Within(amount, level[name])
  <1>1. \A l \in Levels : l[name] \in Nat \cup {Unlimited}
    BY LimitsAssumption
  <1>2. \A x, y \in Nat \cup {Unlimited} :
            /\ TighterOf(x, y) \in Nat \cup {Unlimited}
            /\ Within(amount, TighterOf(x, y)) =>
                   Within(amount, x) /\ Within(amount, y)
    BY UnlimitedAssumption DEF TighterOf, Within
  <1> DEFINE two == TighterOf(StrategyLimits[name], SessionLimits[name])
             three == TighterOf(two, AccountLimits[name])
  <1>3. two \in Nat \cup {Unlimited} /\ three \in Nat \cup {Unlimited}
    BY <1>1, <1>2 DEF Levels
  <1>4. Within(amount, three) /\ Within(amount, PlatformLimits[name])
    BY <1>1, <1>2, <1>3 DEF Effective, Levels
  <1>5. Within(amount, two) /\ Within(amount, AccountLimits[name])
    BY <1>1, <1>2, <1>3, <1>4 DEF Levels
  <1>6. Within(amount, StrategyLimits[name]) /\ Within(amount, SessionLimits[name])
    BY <1>1, <1>2, <1>5 DEF Levels
  <1>7. QED
    BY <1>4, <1>5, <1>6 DEF Levels

LEMMA SmallerWithin ==
    ASSUME NEW limit \in Nat \cup {Unlimited}, NEW a \in Int, NEW b \in Int,
           a <= b, Within(b, limit)
    PROVE  Within(a, limit)
  BY UnlimitedAssumption DEF Within

(* The three effective limits, the ones check_order enforces.               *)
EffectiveHold ==
    /\ Within(capitalUsed, Effective("capital"))
    /\ Within(turnover, Effective("turnover"))
    /\ Within(orderCount, Effective("orderCount"))

LEMMA EffectiveType ==
    ASSUME NEW name \in LimitNames
    PROVE  Effective(name) \in Nat \cup {Unlimited}
  <1>1. \A l \in Levels : l[name] \in Nat \cup {Unlimited}
    BY LimitsAssumption
  <1>2. QED
    BY <1>1, UnlimitedAssumption DEF Effective, TighterOf, Levels

LEMMA SubmitLimits ==
    ASSUME 0 \notin Prices, TypeOK, EffectiveHold,
           NEW i \in Intents, NEW price \in Prices,
           NEW live \in BOOLEAN, NEW operator \in BOOLEAN,
           SubmitIntent(i, price, live, operator),
           SubmitFilled(i, <<i, epoch[i]>>, price)
    PROVE  EffectiveHold'
  <1> DEFINE order == OrderOf[i]
             filled == FillQuantity(order)
             notional == order.quantity * price
  <1>1. /\ price \in Nat /\ VenuePrice(price) = price
        /\ filled \in Nat /\ order.quantity \in Nat /\ filled <= order.quantity
    BY FillTypes, PricesAssumption DEF VenuePrice, Order
  <1>2. /\ filled * price \in Nat /\ notional \in Nat
        /\ filled * price <= notional
    <2>1. PICK rest \in Nat : order.quantity = filled + rest
      <3>1. order.quantity - filled \in Nat
        BY <1>1
      <3>2. order.quantity = filled + (order.quantity - filled)
        BY <1>1
      <3>3. QED
        BY <3>1, <3>2
    <2>2. notional = filled * price + rest * price
      BY <1>1, <2>1
    <2>3. filled * price \in Nat /\ rest * price \in Nat
      BY <1>1, <2>1
    <2>4. QED
      BY <2>2, <2>3
  <1>3. capitalUsed \in Int /\ turnover \in Int /\ orderCount \in Nat
    BY DEF TypeOK
  <1>4. /\ WithinCapital(order, capitalUsed, notional)
        /\ WithinTurnover(turnover, notional)
        /\ WithinOrderCount(orderCount)
    BY DEF SubmitIntent, MaySubmit, CheckOrder
  <1>5. /\ capitalUsed' = IF order.side = "BUY"
                          THEN capitalUsed + filled * price ELSE capitalUsed
        /\ turnover' = turnover + filled * price
        /\ orderCount' = orderCount + 1
    BY <1>1 DEF SubmitFilled, BookFill
  <1>6. Within(capitalUsed', Effective("capital"))
    <2>1. CASE order.side = "BUY"
      <3>1. Within(capitalUsed + notional, Effective("capital"))
        BY <1>4, <2>1 DEF WithinCapital
      <3>2. capitalUsed + filled * price <= capitalUsed + notional
        BY <1>2, <1>3
      <3>3. capitalUsed + filled * price \in Int /\ capitalUsed + notional \in Int
        BY <1>2, <1>3
      <3>4. Effective("capital") \in Nat \cup {Unlimited}
        BY EffectiveType DEF LimitNames
      <3>5. Within(capitalUsed + filled * price, Effective("capital"))
        BY <3>1, <3>2, <3>3, <3>4, SmallerWithin
      <3>6. QED
        BY <1>5, <2>1, <3>5
    <2>2. CASE order.side # "BUY"
      BY <1>5, <2>2 DEF EffectiveHold
    <2>3. QED
      BY <2>1, <2>2
  <1>7. Within(turnover', Effective("turnover"))
    <2>1. Within(turnover + notional, Effective("turnover"))
      BY <1>4 DEF WithinTurnover
    <2>2. turnover + filled * price <= turnover + notional
      BY <1>2, <1>3
    <2>3. turnover + filled * price \in Int /\ turnover + notional \in Int
      BY <1>2, <1>3
    <2>4. Effective("turnover") \in Nat \cup {Unlimited}
      BY EffectiveType DEF LimitNames
    <2>5. Within(turnover + filled * price, Effective("turnover"))
      BY <2>1, <2>2, <2>3, <2>4, SmallerWithin
    <2>6. QED
      BY <1>5, <2>5
  <1>8. Within(orderCount', Effective("orderCount"))
    <2>1. Effective("orderCount") \in Nat \cup {Unlimited}
      BY EffectiveType DEF LimitNames
    <2>2. QED
      BY <1>3, <1>4, <1>5, <2>1 DEF WithinOrderCount, Within
  <1>9. QED
    BY <1>6, <1>7, <1>8 DEF EffectiveHold

(* No level of the capital hierarchy is exceeded, provided no caller quotes *)
(* a price of zero: the venue would charge its default price for an order   *)
(* the risk check valued at nothing.                                        *)
THEOREM GatewayLimitsHold ==
    ASSUME 0 \notin Prices
    PROVE  Spec => []LimitsHold
  <1>1. Init => EffectiveHold
    BY EffectiveType, UnlimitedAssumption
       DEF Init, EffectiveHold, Within, LimitNames
  <1>2. TypeOK /\ EffectiveHold /\ [Next]_vars => EffectiveHold'
    <2> SUFFICES ASSUME TypeOK, EffectiveHold, [Next]_vars
                 PROVE  EffectiveHold'
      OBVIOUS
    <2>1. ASSUME NEW i \in Intents, NEW price \in Prices,
                 NEW live \in BOOLEAN, NEW operator \in BOOLEAN,
                 SubmitIntent(i, price, live, operator)
          PROVE  EffectiveHold'
      <3>1. CASE SubmitFilled(i, <<i, epoch[i]>>, price)
        BY <2>1, <3>1, SubmitLimits
      <3>2. CASE UNCHANGED <<capitalUsed, turnover, orderCount>>
        BY <3>2 DEF EffectiveHold
      <3>3. QED
        BY <2>1, <3>1, <3>2 DEF SubmitIntent, SubmitUnknown, SubmitRejected
    <2>2. CASE UNCHANGED <<capitalUsed, turnover, orderCount>>
      BY <2>2 DEF EffectiveHold
    <2>3. QED
      BY <2>1, <2>2
         DEF Next, Start, ApproveOperator, ActivateKillSwitch, ResetKillSwitch,
             Stop, Cancel, Reconcile, ReconcileEffects,
             RecoverUnresolved, RecoverReconcile, vars, bookVars
  <1>3. TypeOK /\ EffectiveHold => LimitsHold
    BY TightestBinds DEF TypeOK, EffectiveHold, LimitsHold, LimitNames
  <1>4. QED
    BY <1>1, <1>2, <1>3, GatewayTypeOK, PTL DEF Spec

-----------------------------------------------------------------------------
(* Refinement of the submission discipline *)

AttemptsOf == [i \in Intents |-> [e \in Epochs |-> AttemptStatus(<<i, e>>)]]

(* One attempt changes its status and all others keep theirs.               *)
LEMMA OneStatusChanges ==
    ASSUME NEW i \in Intents, NEW e \in Epochs,
           \A d \in ClientIds \ {<<i, e>>} :
               store'[d] = store[d] /\ venue'[d] = venue[d]
    PROVE  AttemptsOf' = [AttemptsOf EXCEPT ![i] =
                             [@ EXCEPT ![e] = AttemptStatus(<<i, e>>)']]
  <1> DEFINE new == AttemptStatus(<<i, e>>)'
             changed == [AttemptsOf EXCEPT ![i] = [@ EXCEPT ![e] = new]]
  <1>1. \A j \in Intents, f \in Epochs :
            <<j, f>> # <<i, e>> =>
                AttemptStatus(<<j, f>>)' = AttemptStatus(<<j, f>>)
    BY DEF AttemptStatus, Live, ClientIds
  <1>2. ASSUME NEW j \in Intents
        PROVE  AttemptsOf'[j] = changed[j]
    <2>1. CASE j = i
      BY <1>1, <2>1 DEF AttemptsOf
    <2>2. CASE j # i
      BY <1>1, <2>2 DEF AttemptsOf
    <2>3. QED
      BY <2>1, <2>2
  <1>3. QED
    BY <1>2 DEF AttemptsOf

LEMMA SubmitOpens ==
    ASSUME IInv, NEW i \in Intents, NEW price \in Prices,
           NEW live \in BOOLEAN, NEW operator \in BOOLEAN,
           SubmitIntent(i, price, live, operator),
           NEW e \in Epochs, e = epoch[i]
    PROVE  Submission!Open(i, e)
  <1> DEFINE c == <<i, e>>
             new == AttemptStatus(c)'
  <1>1. CanRetry(store, i) /\ epoch[i] < MaxEpoch
    BY DEF SubmitIntent, MaySubmit
  <1>2. c \in ClientIds /\ store[c] = NoRecord
    BY <1>1, FreshId DEF ClientIds
  <1>3. AttemptsOf[i][e] = "absent"
    BY <1>2 DEF AttemptsOf, AttemptStatus, NoRecord
  <1>4. ASSUME NEW f \in Epochs
        PROVE  AttemptsOf[i][f] # "outstanding"
    <2>1. <<i, f>> \in ClientIds /\ store[<<i, f>>].state \notin NoRetryStates
      BY <1>1 DEF CanRetry, ClientIds
    <2>2. store[<<i, f>>].state \in {"NONE", "REJECTED", "FILLED"}
      BY <2>1, StoreStates DEF NoRetryStates, NoRecord, UnknownRecord
    <2>3. QED
      BY <2>2 DEF AttemptsOf, AttemptStatus, Live, TerminalBrokerStates
  <1>5. /\ \A d \in ClientIds \ {c} : store'[d] = store[d] /\ venue'[d] = venue[d]
        /\ store'[c].state # "NONE"
    <2>1. store \in [ClientIds -> Record] /\ venue \in [ClientIds -> Record]
      BY DEF IInv, TypeOK, VenueTypeOK
    <2>2. CASE SubmitUnknown(i, c)
      BY <1>2, <2>1, <2>2 DEF SubmitUnknown, VenueUnknown, PutRecord, venueVars
    <2>3. CASE SubmitRejected(i, c, price)
      BY <1>2, <2>1, <2>3 DEF SubmitRejected, VenueReject, PutRecord
    <2>4. CASE SubmitFilled(i, c, price)
      BY <1>2, <2>1, <2>4 DEF SubmitFilled, VenueFill, PutRecord, FillState
    <2>5. QED
      BY <2>2, <2>3, <2>4 DEF SubmitIntent
  <1>6. new \in {"outstanding", "closed"}
    BY <1>5 DEF AttemptStatus
  <1>7. AttemptsOf' = [AttemptsOf EXCEPT ![i] = [@ EXCEPT ![e] = new]]
    BY <1>2, <1>5, OneStatusChanges
  <1>8. QED
    BY <1>3, <1>4, <1>6, <1>7 DEF Submission!Open, AttemptsOf

LEMMA CancelCloses ==
    ASSUME IInv, NEW i \in Intents, NEW e \in Epochs, Cancel(<<i, e>>)
    PROVE  Submission!Close(i, e) \/ UNCHANGED AttemptsOf
  <1> DEFINE c == <<i, e>>
  <1>1. c \in ClientIds
    BY DEF ClientIds
  <1>2. /\ \A d \in ClientIds \ {c} : store'[d] = store[d] /\ venue'[d] = venue[d]
        /\ store'[c] = store[c]
        /\ venue'[c].state = "CANCELLED"
    BY <1>1 DEF Cancel, VenueCancel, bookVars, IInv, TypeOK, VenueTypeOK, Record
  <1>3. store[c].state \in {"UNKNOWN", "PARTIALLY_FILLED"}
    BY <1>1, CancelOpen
  <1>4. AttemptStatus(c)' = "closed" /\ AttemptStatus(c) \in {"outstanding", "closed"}
    BY <1>2, <1>3 DEF AttemptStatus, Live, TerminalBrokerStates
  <1>5. AttemptsOf' = [AttemptsOf EXCEPT ![i] = [@ EXCEPT ![e] = "closed"]]
    BY <1>2, <1>4, OneStatusChanges
  <1>6. AttemptsOf[i][e] = AttemptStatus(c)
    BY DEF AttemptsOf
  <1>7. CASE AttemptStatus(c) = "outstanding"
    BY <1>5, <1>6, <1>7 DEF Submission!Close, AttemptsOf
  <1>8. CASE AttemptStatus(c) = "closed"
    <2>1. \A j \in Intents, f \in Epochs :
              AttemptStatus(<<j, f>>)' = AttemptStatus(<<j, f>>)
      <3>1. SUFFICES ASSUME NEW j \in Intents, NEW f \in Epochs, <<j, f>> # c
                     PROVE  AttemptStatus(<<j, f>>)' = AttemptStatus(<<j, f>>)
        BY <1>4, <1>8
      <3>2. <<j, f>> \in ClientIds \ {c}
        BY <3>1 DEF ClientIds
      <3>3. store'[<<j, f>>] = store[<<j, f>>] /\ venue'[<<j, f>>] = venue[<<j, f>>]
        BY <1>2, <3>2
      <3>4. QED
        BY <3>3 DEF AttemptStatus, Live
    <2>2. QED
      BY <2>1 DEF AttemptsOf
  <1>9. QED
    BY <1>4, <1>7, <1>8

(* The gateway implements the submission discipline: no attempt of an       *)
(* intent is opened while another may be working or ambiguous.              *)
THEOREM GatewaySubmissionDiscipline == Spec => SubmissionDiscipline
  <1>1. Init => Submission!Init
    BY DEF Init, Submission!Init, AttemptStatus, NoRecord, ClientIds
  <1>2. IInv /\ [Next]_vars => [Submission!Next]_AttemptsOf
    <2> SUFFICES ASSUME IInv, [Next]_vars
                 PROVE  Submission!Next \/ UNCHANGED AttemptsOf
      OBVIOUS
    <2>1. ASSUME NEW i \in Intents, NEW price \in Prices,
                 NEW live \in BOOLEAN, NEW operator \in BOOLEAN,
                 SubmitIntent(i, price, live, operator)
          PROVE  Submission!Next
      <3>1. PICK e \in Epochs : e = epoch[i]
        BY <2>1, FreshId DEF SubmitIntent, MaySubmit
      <3>2. Submission!Open(i, e)
        BY <2>1, <3>1, SubmitOpens
      <3>3. QED
        BY <3>2 DEF Submission!Next
    <2>2. ASSUME NEW c \in ClientIds, Cancel(c)
          PROVE  Submission!Next \/ UNCHANGED AttemptsOf
      <3>1. PICK i \in Intents, e \in Epochs : c = <<i, e>>
        BY DEF ClientIds
      <3>2. QED
        BY <2>2, <3>1, CancelCloses DEF Submission!Next
    <2>3. CASE UNCHANGED <<store, venue>>
      BY <2>3 DEF AttemptsOf, AttemptStatus, Live
    <2>4. QED
      BY <2>1, <2>2, <2>3
         DEF Next, Start, ApproveOperator, ActivateKillSwitch, ResetKillSwitch,
             Stop, Reconcile, ReconcileEffects, RecoverUnresolved,
             RecoverReconcile, vars, bookVars, venueVars
  <1>3. QED
    BY <1>1, <1>2, InvariantIInv, PTL
       DEF Spec, SubmissionDiscipline, Submission!Spec, AttemptsOf
=============================================================================
