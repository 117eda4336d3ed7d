---------------------------- MODULE BrokerRouter ----------------------------
(***************************************************************************)
(* Phase 9B: the way of an order intent to Zerodha (execution/             *)
(* order_router.py), past the guard (live_guard.py), through the adapter   *)
(* (brokers/zerodha/adapter.py) and into the store that says which intents *)
(* have a broker order (brokers/intent_store.py).  Router, guard and       *)
(* adapter share one store with a file, as production/e2e_replay.py wires  *)
(* them but for the file.                                                  *)
(*                                                                         *)
(* One call is made at a time.  The network may lose the request, lose the *)
(* reply or deliver late, and the process may die while it waits.  What    *)
(* the guard asks of the request alone (instrument, quantity, price, the   *)
(* notional of one order) and the shape the adapter supports are left out: *)
(* a request that fails there changes nothing.                             *)
(***************************************************************************)
EXTENDS Integers, Sequences, FiniteSetsExt

CONSTANTS
    Intents,
    Notionals,      \* of single orders the guard lets pass
    MaxDailyOrders, \* limits of the guard
    MaxTurnover,
    MaxPosts,       \* bound: orders sent in all
    MaxRestarts     \* bound: processes after the first

ASSUME LimitAssumption ==
    /\ Notionals \subseteq Nat \ {0}
    /\ MaxDailyOrders \in Nat
    /\ MaxTurnover \in Nat
    /\ MaxPosts \in Nat
    /\ MaxRestarts \in Nat

NoOrder == 0

VARIABLES
    up,             \* the process runs
    connected,      \* the adapter is connected
    kill,           \* the kill switch is triggered
    known,          \* the store: the broker order of each intent
    file,           \* its file
    orderCount,     \* counters of the guard
    turnover,
    waiting,        \* the POST that the process waits for, or NoOrder
    posts,          \* all requests posted; their places are their numbers
    wire,           \* POSTs that have not reached the broker
    orders,         \* POSTs of which the broker made an order
    registered,     \* history: POSTs whose answer reached the file
    begun,          \* history: number of POSTs before this process began
    raised,         \* history: POSTs of this process whose call raised
    restarts

guardVars == <<orderCount, turnover>>
storeVars == <<known, file, registered>>
brokerVars == <<posts, wire, orders>>
processVars == <<begun, raised, restarts>>
vars == <<up, connected, kill, storeVars, guardVars, waiting, brokerVars,
          processVars>>

Requests == [intent : Intents, notional : Notionals]
Numbers == 1 .. MaxPosts

TypeOK ==
    /\ up \in BOOLEAN /\ connected \in BOOLEAN /\ kill \in BOOLEAN
    /\ known \in [Intents -> 0 .. MaxPosts]
    /\ file \in [whole : BOOLEAN, known : [Intents -> 0 .. MaxPosts]]
    /\ orderCount \in 0 .. MaxDailyOrders
    /\ turnover \in 0 .. MaxTurnover
    /\ waiting \in 0 .. MaxPosts
    /\ posts \in Seq(Requests) /\ Len(posts) <= MaxPosts
    /\ wire \in SUBSET Numbers
    /\ orders \in SUBSET Numbers
    /\ registered \in SUBSET Numbers
    /\ raised \in SUBSET Numbers
    /\ begun \in 0 .. MaxPosts
    /\ restarts \in 0 .. MaxRestarts

NothingKnown == [i \in Intents |-> NoOrder]

Init ==
    /\ up = TRUE
    /\ connected = FALSE
    /\ kill = FALSE
    /\ known = NothingKnown
    /\ file = [whole |-> TRUE, known |-> NothingKnown]
    /\ orderCount = 0
    /\ turnover = 0
    /\ waiting = NoOrder
    /\ posts = << >>
    /\ wire = {}
    /\ orders = {}
    /\ registered = {}
    /\ begun = 0
    /\ raised = {}
    /\ restarts = 0

(***************************************************************************)
(* The adapter's connection and the operator.                              *)
(***************************************************************************)

Connect ==
    /\ up
    /\ connected' = TRUE
    /\ UNCHANGED <<up, kill, storeVars, guardVars, waiting, brokerVars,
                   processVars>>

Disconnect ==
    /\ up
    /\ connected' = FALSE
    /\ UNCHANGED <<up, kill, storeVars, guardVars, waiting, brokerVars,
                   processVars>>

ActivateKillSwitch ==
    /\ up
    /\ kill' = TRUE
    /\ UNCHANGED <<up, connected, storeVars, guardVars, waiting, brokerVars,
                   processVars>>

ResetKillSwitch ==
    /\ up
    /\ kill' = FALSE
    /\ UNCHANGED <<up, connected, storeVars, guardVars, waiting, brokerVars,
                   processVars>>

(***************************************************************************)
(* route_broker_request.  An intent with a known order is answered with    *)
(* the state of that order and posts nothing.                              *)
(***************************************************************************)

(* Variant: the turnover is compared without the order that is asked for.   *)
AllowsOneMore(request) ==
    /\ connected
    /\ ~ kill
    /\ known[request.intent] = NoOrder
    /\ orderCount < MaxDailyOrders
    /\ turnover < MaxTurnover

(* Variant: the store is not asked.                                         *)
AllowsAgain(request) ==
    /\ connected
    /\ ~ kill
    /\ orderCount < MaxDailyOrders
    /\ turnover + request.notional <= MaxTurnover

(* LiveExecutionGuard.check: the positions it would add the order to are    *)
(* written by nothing, and so is the equity of the day.                     *)
Allows(request) ==
    /\ connected
    /\ ~ kill
    /\ known[request.intent] = NoOrder
    /\ orderCount < MaxDailyOrders
    /\ turnover + request.notional <= MaxTurnover

(* The request leaves the process, which waits for the answer.              *)
Post(request) ==
    /\ up
    /\ waiting = NoOrder
    /\ Allows(request)
    /\ Len(posts) < MaxPosts
    /\ posts' = Append(posts, request)
    /\ wire' = wire \union {Len(posts) + 1}
    /\ waiting' = Len(posts) + 1
    /\ UNCHANGED <<up, connected, kill, storeVars, guardVars, orders,
                   processVars>>

(* The broker's answer names an order.                                      *)
NamesOrder(number) == number \in orders

Known == {known[i] : i \in Intents} \ {NoOrder}

(* register_submit, which rewrites the whole file, and record_accepted.     *)
Answered(request) ==
    /\ up
    /\ waiting # NoOrder
    /\ request = posts[waiting]
    /\ NamesOrder(waiting)
    /\ known' = [known EXCEPT ![request.intent] = waiting]
    /\ file' = [whole |-> TRUE, known |-> known']
    /\ registered' = registered \union Known'
    /\ orderCount' = orderCount + 1
    /\ turnover' = turnover + request.notional
    /\ waiting' = NoOrder
    /\ UNCHANGED <<up, connected, kill, brokerVars, processVars>>

(* The file cannot be written, or not to its end: register_submit raises,   *)
(* which nothing catches, and the guard is not told of the order that the   *)
(* memory of the store has.                                                 *)
AnsweredUnsaved(request) ==
    /\ up
    /\ waiting # NoOrder
    /\ request = posts[waiting]
    /\ NamesOrder(waiting)
    /\ known' = [known EXCEPT ![request.intent] = waiting]
    /\ file' \in {file, [file EXCEPT !.whole = FALSE]}
    /\ raised' = raised \union {waiting}
    /\ waiting' = NoOrder
    /\ UNCHANGED <<up, connected, kill, registered, guardVars, brokerVars,
                   begun, restarts>>

(* Variant: the guard records the order whether the call raises or not.     *)
RaisesRecorded ==
    /\ up
    /\ waiting # NoOrder
    /\ waiting' = NoOrder
    /\ raised' = raised \union {waiting}
    /\ orderCount' = orderCount + 1
    /\ turnover' = turnover + posts[waiting].notional
    /\ UNCHANGED <<up, connected, kill, storeVars, brokerVars, begun, restarts>>

(* The call raises: refused, timed out, or the answer was lost or names no  *)
(* order.  The request may still be on its way, and nothing remembers it.   *)
Raises ==
    /\ up
    /\ waiting # NoOrder
    /\ waiting' = NoOrder
    /\ raised' = raised \union {waiting}
    /\ UNCHANGED <<up, connected, kill, storeVars, guardVars, brokerVars,
                   begun, restarts>>

(***************************************************************************)
(* The network and the broker.                                             *)
(***************************************************************************)

BrokerTakes(number) ==
    /\ number \in wire
    /\ wire' = wire \ {number}
    /\ orders' = orders \union {number}
    /\ UNCHANGED <<up, connected, kill, storeVars, guardVars, waiting, posts,
                   processVars>>

(* The request is lost, or refused.                                         *)
Dropped(number) ==
    /\ number \in wire
    /\ wire' = wire \ {number}
    /\ UNCHANGED <<up, connected, kill, storeVars, guardVars, waiting, posts,
                   orders, processVars>>

(***************************************************************************)
(* The process.                                                            *)
(***************************************************************************)

(* The file is rewritten in place: a process that dies while it registers   *)
(* an order leaves a part of it.                                            *)
Crash ==
    /\ up
    /\ up' = FALSE
    /\ \/ UNCHANGED file
       \/ /\ waiting \in orders
          /\ file' = [file EXCEPT !.whole = FALSE]
    /\ waiting' = NoOrder
    /\ UNCHANGED <<connected, kill, known, registered, guardVars, brokerVars,
                   processVars>>

(* Variant: the new process has a store without the file.                   *)
LoadsNothing == NothingKnown

Loaded == file.known

(* A store that cannot be read keeps the process from starting.  Counters   *)
(* and kill switch begin anew.                                              *)
Restart ==
    /\ ~ up
    /\ restarts < MaxRestarts
    /\ file.whole
    /\ up' = TRUE
    /\ connected' = FALSE
    /\ kill' = FALSE
    /\ known' = Loaded
    /\ orderCount' = 0
    /\ turnover' = 0
    /\ begun' = Len(posts)
    /\ raised' = {}
    /\ restarts' = restarts + 1
    /\ UNCHANGED <<file, registered, waiting, brokerVars>>

Next ==
    \/ Connect
    \/ Disconnect
    \/ ActivateKillSwitch
    \/ ResetKillSwitch
    \/ \E request \in Requests : Post(request)
    \/ \E request \in Requests : Answered(request)
    \/ \E request \in Requests : AnsweredUnsaved(request)
    \/ Raises
    \/ \E number \in wire : BrokerTakes(number)
    \/ \E number \in wire : Dropped(number)
    \/ Crash
    \/ Restart

Spec == Init /\ [][Next]_vars

(***************************************************************************)
(* Properties.                                                             *)
(***************************************************************************)

(* docs/PHASE9B_ZERODHA.md, Idempotency: an intent whose order is stored is *)
(* never submitted again, by this process or a later one.  What remains is  *)
(* that an intent is posted twice only after every earlier POST of it       *)
(* raised or died with its process.                                         *)
RegisteredIsFinal ==
    \A n \in registered : \A m \in 1 .. Len(posts) :
        m > n => posts[m].intent # posts[n].intent

(* What the store knows is an order the broker has, and of that intent; no  *)
(* answer that was registered is forgotten by a process that runs.          *)
StoreIsTrue ==
    /\ \A i \in Intents :
           known[i] # NoOrder =>
               known[i] \in orders /\ posts[known[i]].intent = i
    /\ up => \A n \in registered : known[posts[n].intent] = n

(* The orders of this process that its store knows, but for those whose     *)
(* registration raised.                                                     *)
OrdersOfProcess ==
    {n \in (begun + 1) .. Len(posts) :
        known[posts[n].intent] = n /\ n \notin raised}

NotionalOf == [n \in OrdersOfProcess |-> posts[n].notional]

OrdersTaken == {n \in orders : n > begun}

(* The guard's counters are those of the orders this process registered,    *)
(* and within the limits.  What they miss of the orders the broker has are  *)
(* those of calls that raised and of the call that is waiting: each of them *)
(* goes past the limits.                                                    *)
GuardCounts ==
    up =>
        /\ orderCount = Cardinality(OrdersOfProcess)
        /\ turnover = SumFunctionOnSet(NotionalOf, OrdersOfProcess)
        /\ turnover <= MaxTurnover
        /\ OrdersTaken \subseteq OrdersOfProcess \union raised \union {waiting}

(* A call that ends stored its order in the file, or its request is decided *)
(* and made none.  Nothing in the code sees to that; what depends on it is  *)
(* below.                                                                   *)
DecidedWhenEnded ==
    waiting # NoOrder /\ waiting' = NoOrder =>
        waiting \in registered' \/ waiting \notin wire \union orders

AnswersFinal == [][DecidedWhenEnded]_vars

NotionalTaken == [n \in OrdersTaken |-> posts[n].notional]

(* The limits hold for what the broker has of this process, not only for    *)
(* what the guard has been told of.                                         *)
LimitsBind ==
    up =>
        /\ Cardinality(OrdersTaken) <= MaxDailyOrders
        /\ SumFunctionOnSet(NotionalTaken, OrdersTaken) <= MaxTurnover

(* A request is an attempt of its intent, until it is dropped.              *)
PostStatus(i, n) ==
    IF n > Len(posts) THEN "absent"
    ELSE IF posts[n].intent # i THEN "absent"
    ELSE IF n \in wire \union orders THEN "outstanding"
    ELSE "closed"

Submission ==
    INSTANCE IntentSubmission
        WITH Attempts <- Numbers,
             attempts <- [i \in Intents |-> [n \in Numbers |-> PostStatus(i, n)]]

(* Where answers are final, the router implements IntentSubmission.         *)
SubmissionDiscipline == AnswersFinal => Submission!Spec
=============================================================================
