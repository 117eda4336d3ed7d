---------------------------- MODULE CanaryBroker ----------------------------
(***************************************************************************)
(* phase16b/broker.py, phase16b/recovery.py and brokers/intent_store.py:   *)
(* the broker side of a live canary, and the venue behind it.  A request   *)
(* to place an order may be accepted, be lost, be accepted while its reply *)
(* is lost, or (LateRequests) be accepted after the caller gave up.        *)
(***************************************************************************)
EXTENDS Integers, FiniteSets, FiniteSetsExt

CONSTANTS
    Intents,        \* intent ids of one strategy
    TagIn,          \* <<j, i>>: the order tag of j occurs in the id of i
    MaxSends,       \* bound: requests followed per intent
    Quantity,       \* quantity of every order
    LateRequests    \* may a request arrive after its caller saw an error?

ASSUME IntentsAssumption == IsFiniteSet(Intents)
ASSUME TagAssumption == \A i \in Intents : <<i, i>> \in TagIn
ASSUME SendsAssumption == MaxSends \in Nat \ {0}
ASSUME QuantityAssumption == Quantity \in Nat \ {0}
ASSUME LateAssumption == LateRequests \in BOOLEAN

VARIABLES
    durable,    \* the intent store has a path
    store,      \* intent -> the registered request (broker order id), or 0
    file,       \* the file of the intent store; torn when it is not whole
    pending,    \* _pending_intents
    net,        \* what became of each request
    filled      \* filled quantity of each order at the venue

brokerVars == <<durable, store, file, pending, net, filled>>

Sends == 1 .. MaxSends
Requests == Intents \X Sends
NetStatus == {"unsent", "inflight", "lost", "order"}

BrokerTypeOK ==
    /\ durable \in BOOLEAN
    /\ store \in [Intents -> 0 .. MaxSends]
    /\ file \in [whole : BOOLEAN, known : [Intents -> 0 .. MaxSends]]
    /\ pending \in SUBSET Intents
    /\ net \in [Requests -> NetStatus]
    /\ filled \in [Requests -> 0 .. Quantity]

BrokerInit ==
    /\ durable \in BOOLEAN
    /\ store = [i \in Intents |-> 0]
    /\ file = [whole |-> TRUE, known |-> store]
    /\ pending = {}
    /\ net = [r \in Requests |-> "unsent"]
    /\ filled = [r \in Requests |-> 0]

-----------------------------------------------------------------------------
(* The venue *)

Deliver(r) ==
    /\ net[r] = "inflight"
    /\ net' = [net EXCEPT ![r] = "order"]
    /\ UNCHANGED <<durable, store, file, pending, filled>>

Lose(r) ==
    /\ net[r] = "inflight"
    /\ net' = [net EXCEPT ![r] = "lost"]
    /\ UNCHANGED <<durable, store, file, pending, filled>>

Fill(r) ==
    /\ net[r] = "order"
    /\ \E q \in (filled[r] + 1) .. Quantity : filled' = [filled EXCEPT ![r] = q]
    /\ UNCHANGED <<durable, store, file, pending, net>>

OrdersAtVenue == {r \in Requests : net[r] = "order"}

VenuePosition == SumFunctionOnSet(filled, Requests)

-----------------------------------------------------------------------------
(* ZerodhaCanaryBroker._submit and the intent store *)

RegisteredByAnyRecord(i) == store[i] >= 0

Registered(i) == store[i] # 0

NotYetSent(i, k) ==
    /\ net[<<i, k>>] = "unsent"
    /\ \A l \in Sends : l < k => net[<<i, l>>] # "unsent"

MaySendIgnoringStore(i) == i \notin pending

(* Neither an idempotent replay nor a submit that awaits recovery.          *)
MaySend(i) == ~Registered(i) /\ i \notin pending

Send(i, k) ==
    /\ NotYetSent(i, k)
    /\ pending' = pending \cup {i}
    /\ net' = [net EXCEPT ![<<i, k>>] = "inflight"]
    /\ UNCHANGED <<durable, store, file, filled>>

RegisterWithoutPersist(i, k) ==
    /\ pending' = pending \ {i}
    /\ UNCHANGED <<store, file>>

(* register_submit writes the whole store anew.                             *)
Register(i, k) ==
    /\ pending' = pending \ {i}
    /\ store' = [store EXCEPT ![i] = k]
    /\ file' = IF durable THEN [whole |-> TRUE, known |-> store'] ELSE file

(* The write raises, before or while it replaces the file: only the memory  *)
(* has the registration.                                                    *)
RegisterUnsaved(i, k) ==
    /\ durable
    /\ pending' = pending \ {i}
    /\ store' = [store EXCEPT ![i] = k]
    /\ file' \in {file, [file EXCEPT !.whole = FALSE]}

(* The reply to an accepted request reaches the caller.                     *)
Acknowledge(i, k) ==
    /\ net[<<i, k>>] = "order"
    /\ Register(i, k)
    /\ UNCHANGED <<durable, net, filled>>

AcknowledgeUnsaved(i, k) ==
    /\ net[<<i, k>>] = "order"
    /\ RegisterUnsaved(i, k)
    /\ UNCHANGED <<durable, net, filled>>

(* Without late requests, an error means that the request is decided.       *)
MayFail(i, k) == LateRequests \/ net[<<i, k>>] # "inflight"

(* A new process: the pending submits are memory, and the store is what its *)
(* file has, if it has one.  Over a torn file no process gets up.           *)
Forget ==
    /\ file.whole
    /\ pending' = {}
    /\ store' = file.known
    /\ UNCHANGED <<durable, file, net, filled>>

-----------------------------------------------------------------------------
(* recover_uncertain_submit *)

FoundOnBroker(i) == \E r \in OrdersAtVenue : <<r[1], i>> \in TagIn

RecoverBlindly(i) ==
    /\ ~Registered(i)
    /\ pending' = pending \ {i}
    /\ UNCHANGED <<durable, store, file, net, filled>>

(* Only an answer that shows no order of this tag has an effect.            *)
Recover(i) ==
    /\ ~Registered(i)
    /\ ~FoundOnBroker(i)
    /\ pending' = pending \ {i}
    /\ UNCHANGED <<durable, store, file, net, filled>>
=============================================================================
