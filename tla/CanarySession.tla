---------------------------- MODULE CanarySession ----------------------------
(***************************************************************************)
(* phase16b/session.py and phase16b/gates.py: the live canary session that *)
(* decides, from its activation, kill switch, reconciliation and counters, *)
(* whether an order intent may reach the broker.  The session is           *)
(* single-threaded: while a submit waits for the broker only the venue     *)
(* moves, or the process dies.  The instrument, side, type and size of an  *)
(* order are ones the activation allows, the strategy hash is the frozen   *)
(* one, and the live flag is on: what their gates refuse never gets        *)
(* further.  All orders are buys of one instrument at one price.           *)
(***************************************************************************)
EXTENDS CanaryBroker

CONSTANTS
    Price,
    MaxOrders,      \* max_orders_per_day
    MaxTurnover,    \* max_turnover_per_day
    MaxPosition,    \* max_position_value
    MaxRestarts     \* bound: crashes of the process

ASSUME PolicyAssumption ==
    Price \in Nat \ {0} /\ {MaxOrders, MaxTurnover, MaxPosition} \subseteq Nat
ASSUME RestartsAssumption == MaxRestarts \in Nat

VARIABLES
    state,          \* CanarySessionState
    activation,     \* the activation record held
    disarmed,       \* _kill_disarmed
    killed,         \* kill_switch.is_triggered
    recon,          \* _reconciliation
    ordersToday,    \* counters.orders_today
    booked,         \* counters.positions of the instrument
    uncounted,      \* history: the registered intents orders_today missed
    call,           \* the submit in progress
    stopped,        \* the journal has no disarm since start, halt or kill
    restarts

controlVars == <<state, activation, disarmed, killed, recon, stopped>>
counterVars == <<ordersToday, booked, uncounted>>
vars == <<controlVars, counterVars, call, restarts, brokerVars>>

States ==
    {"CREATED", "ACTIVATION_REQUIRED", "ACTIVATED", "RUNNING", "HALTED",
     "RECONCILING", "CLOSED"}

Idle == [stage |-> "idle"]
Calls ==
    {Idle} \cup [stage : {"sent", "placed"}, intent : Intents, send : Sends]

TypeOK ==
    /\ BrokerTypeOK
    /\ state \in States
    /\ activation \in {"missing", "valid", "invalid"}
    /\ disarmed \in BOOLEAN
    /\ killed \in BOOLEAN
    /\ recon \in {"UNKNOWN", "CLEAN", "MISMATCH"}
    /\ ordersToday \in Nat
    /\ booked \in Nat
    /\ call \in Calls
    /\ stopped \in BOOLEAN
    /\ uncounted \in SUBSET Intents
    /\ restarts \in 0 .. MaxRestarts

Init ==
    /\ BrokerInit
    /\ state = "CREATED"
    /\ activation = "missing"
    /\ disarmed = FALSE
    /\ killed = FALSE
    /\ recon = "UNKNOWN"
    /\ ordersToday = 0
    /\ booked = 0
    /\ call = Idle
    /\ stopped = TRUE
    /\ uncounted = {}
    /\ restarts = 0

-----------------------------------------------------------------------------
(* Control of the session *)

Halt ==
    /\ state' = "HALTED"
    /\ disarmed' = FALSE
    /\ killed' = TRUE
    /\ stopped' = TRUE

RequireActivation ==
    /\ call = Idle
    /\ state' = "ACTIVATION_REQUIRED"
    /\ UNCHANGED <<activation, disarmed, killed, recon, stopped,
                   counterVars, call, restarts, brokerVars>>

Activate ==
    /\ call = Idle
    /\ activation' = "valid"
    /\ state' = "ACTIVATED"
    /\ UNCHANGED <<disarmed, killed, recon, stopped, counterVars,
                   call, restarts, brokerVars>>

ActivateInvalid ==
    /\ call = Idle
    /\ activation' = "invalid"
    /\ Halt
    /\ UNCHANGED <<recon, counterVars, call, restarts, brokerVars>>

(* Time passes the expiry of the activation.                                *)
Expire ==
    /\ activation = "valid"
    /\ activation' = "invalid"
    /\ UNCHANGED <<state, disarmed, killed, recon, stopped,
                   counterVars, call, restarts, brokerVars>>

BeginRunning ==
    /\ call = Idle
    /\ state = "ACTIVATED"
    /\ state' = "RUNNING"
    /\ UNCHANGED <<activation, disarmed, killed, recon, stopped,
                   counterVars, call, restarts, brokerVars>>

Disarm ==
    /\ call = Idle
    /\ disarmed' = TRUE
    /\ killed' = FALSE
    /\ stopped' = FALSE
    /\ UNCHANGED <<state, activation, recon, counterVars, call,
                   restarts, brokerVars>>

(* Another holder of the same KillSwitch object triggers it.                *)
TripKillSwitch ==
    /\ call = Idle
    /\ killed' = TRUE
    /\ UNCHANGED <<state, activation, disarmed, recon, stopped,
                   counterVars, call, restarts, brokerVars>>

-----------------------------------------------------------------------------
(* Reconciliation *)

Verdict(book) == IF VenuePosition = book THEN "CLEAN" ELSE "MISMATCH"

(* The operator's scripts pass an empty book, others the session's own.     *)
Reconcile(book) ==
    /\ call = Idle
    /\ recon' = Verdict(book)
    /\ \/ /\ Verdict(book) = "MISMATCH"
          /\ Halt
       \/ /\ Verdict(book) = "CLEAN"
          /\ state' = IF state = "HALTED" THEN state ELSE "RUNNING"
          /\ UNCHANGED <<disarmed, killed, stopped>>
    /\ UNCHANGED <<activation, counterVars, call, restarts,
                   brokerVars>>

(* get_positions raises after the state was assigned.                       *)
ReconcileFails ==
    /\ call = Idle
    /\ state' = IF state = "HALTED" THEN state ELSE "RECONCILING"
    /\ UNCHANGED <<activation, disarmed, killed, recon, stopped,
                   counterVars, call, restarts, brokerVars>>

EmergencyKill ==
    /\ call = Idle
    /\ Halt
    /\ recon' \in {recon, Verdict(booked)}
    /\ UNCHANGED <<activation, counterVars, call, restarts,
                   brokerVars>>

CloseEffects ==
    \/ UNCHANGED <<disarmed, killed, recon, stopped>>
    \/ /\ state \notin {"CLOSED", "HALTED"}
       /\ recon' = Verdict(booked)
       /\ \/ /\ Verdict(booked) = "CLEAN"
             /\ UNCHANGED <<disarmed, killed, stopped>>
          \/ /\ Verdict(booked) = "MISMATCH"
             /\ disarmed' = FALSE
             /\ killed' = TRUE
             /\ stopped' = TRUE

(* The reconciliation of close may fail, which close ignores.               *)
Close ==
    /\ call = Idle
    /\ state' = "CLOSED"
    /\ CloseEffects
    /\ UNCHANGED <<activation, counterVars, call, restarts,
                   brokerVars>>

-----------------------------------------------------------------------------
(* Gates and submission *)

WithinLimits ==
    /\ (booked + Quantity) * Price <= MaxPosition
    /\ ordersToday < MaxOrders
    /\ (ordersToday + 1) * Quantity * Price <= MaxTurnover

(* evaluate_pretrade_gates on a fresh quote.  counters.daily_loss is never  *)
(* fed, not even from the tracker, so the loss gate always passes.          *)
GatesPass ==
    /\ activation = "valid"
    /\ ~killed
    /\ disarmed
    /\ recon = "CLEAN"
    /\ WithinLimits

EvaluateWithoutRearming(fresh) ==
    /\ call = Idle
    /\ ~fresh \/ recon # "CLEAN"
    /\ stopped' = TRUE
    /\ UNCHANGED <<state, activation, disarmed, killed, recon,
                   counterVars, call, restarts, brokerVars>>

(* evaluate, on a stale quote or an unclean reconciliation, re-arms; its    *)
(* other refusals change nothing.                                           *)
EvaluateCritical(fresh) ==
    /\ call = Idle
    /\ ~fresh \/ recon # "CLEAN"
    /\ disarmed' = FALSE
    /\ killed' = TRUE
    /\ stopped' = TRUE
    /\ UNCHANGED <<state, activation, recon, counterVars, call,
                   restarts, brokerVars>>

MaySubmit ==
    /\ call = Idle
    /\ state \in {"RUNNING", "ACTIVATED"}
    /\ GatesPass

SubmitSend(i, k) ==
    /\ MaySubmit
    /\ MaySend(i)
    /\ Send(i, k)
    /\ call' = [stage |-> "sent", intent |-> i, send |-> k]
    /\ UNCHANGED <<controlVars, counterVars, restarts>>

(* The intent is registered: its order id is returned and counted again.    *)
SubmitReplay(i) ==
    /\ MaySubmit
    /\ Registered(i)
    /\ ordersToday' = ordersToday + 1
    /\ uncounted' = uncounted \ {i}
    /\ call' = [stage |-> "placed", intent |-> i, send |-> store[i]]
    /\ UNCHANGED <<controlVars, booked, restarts, brokerVars>>

SubmitPending(i) ==
    /\ MaySubmit
    /\ ~Registered(i)
    /\ i \in pending
    /\ Halt
    /\ UNCHANGED <<activation, recon, counterVars, call, restarts, brokerVars>>

SubmitReply ==
    /\ call.stage = "sent"
    /\ Acknowledge(call.intent, call.send)
    /\ ordersToday' = ordersToday + 1
    /\ call' = [call EXCEPT !.stage = "placed"]
    /\ UNCHANGED <<controlVars, booked, uncounted, restarts>>

(* The intent store cannot be written after the order was placed: the       *)
(* session halts as for any broker error, before it counts the order.       *)
SubmitUnsaved ==
    /\ call.stage = "sent"
    /\ AcknowledgeUnsaved(call.intent, call.send)
    /\ Halt
    /\ uncounted' = uncounted \cup {call.intent}
    /\ call' = Idle
    /\ UNCHANGED <<activation, recon, ordersToday, booked, restarts>>

(* The journal entry of the placed order raises, which nothing catches: the *)
(* counters are not reached and the session goes on as it was.              *)
SubmitUnjournalled ==
    /\ call.stage = "sent"
    /\ Acknowledge(call.intent, call.send)
    /\ uncounted' = uncounted \cup {call.intent}
    /\ call' = Idle
    /\ UNCHANGED <<controlVars, ordersToday, booked, restarts>>

SubmitError ==
    /\ call.stage = "sent"
    /\ MayFail(call.intent, call.send)
    /\ Halt
    /\ call' = Idle
    /\ UNCHANGED <<activation, recon, counterVars, restarts,
                   brokerVars>>

(* The one status poll books what is filled by now.                         *)
StatusRead ==
    /\ call.stage = "placed"
    /\ booked' = booked + filled[<<call.intent, call.send>>]
    /\ call' = Idle
    /\ UNCHANGED <<controlVars, ordersToday, uncounted, restarts, brokerVars>>

StatusError ==
    /\ call.stage = "placed"
    /\ call' = Idle
    /\ UNCHANGED <<controlVars, counterVars, restarts, brokerVars>>

RecoverUncertain(i) ==
    /\ call = Idle
    /\ Recover(i)
    /\ UNCHANGED <<controlVars, counterVars, call, restarts>>

-----------------------------------------------------------------------------
(* Environment *)

(* The process dies, at any point of a call, and a new session is built.    *)
Restart ==
    /\ restarts < MaxRestarts
    /\ restarts' = restarts + 1
    /\ state' = "CREATED"
    /\ activation' = "missing"
    /\ disarmed' = FALSE
    /\ killed' = FALSE
    /\ recon' = "UNKNOWN"
    /\ stopped' = TRUE
    /\ ordersToday' = 0
    /\ booked' = 0
    /\ uncounted' = {}
    /\ call' = Idle
    /\ Forget

Venue ==
    /\ \E r \in Requests : Deliver(r) \/ Lose(r) \/ Fill(r)
    /\ UNCHANGED <<controlVars, counterVars, call, restarts>>

Next ==
    \/ RequireActivation
    \/ Activate
    \/ ActivateInvalid
    \/ Expire
    \/ BeginRunning
    \/ Disarm
    \/ TripKillSwitch
    \/ \E book \in {booked, 0} : Reconcile(book)
    \/ ReconcileFails
    \/ EmergencyKill
    \/ Close
    \/ \E fresh \in BOOLEAN : EvaluateCritical(fresh)
    \/ \E i \in Intents, k \in Sends : SubmitSend(i, k)
    \/ \E i \in Intents : SubmitReplay(i)
    \/ \E i \in Intents : SubmitPending(i)
    \/ SubmitReply
    \/ SubmitUnsaved
    \/ SubmitUnjournalled
    \/ SubmitError
    \/ StatusRead
    \/ StatusError
    \/ \E i \in Intents : RecoverUncertain(i)
    \/ Restart
    \/ Venue

Spec == Init /\ [][Next]_vars

-----------------------------------------------------------------------------
(* Properties *)

(* Every request whose fate matters is accounted for in the process: an     *)
(* order at the venue or a request on its way is the registered one of its  *)
(* intent, or the intent still awaits recovery.                             *)
NoOrphanOrder ==
    \A r \in Requests :
        net[r] \in {"inflight", "order"} =>
            store[r[1]] = r[2] \/ r[1] \in pending

(* Crash recovery never leads to a second order for an intent.              *)
OneOrderPerIntent ==
    \A r, s \in OrdersAtVenue : r[1] = s[1] => r = s

(* A registered broker order id is one of an order of that intent: it was   *)
(* acknowledged, and no later request of the intent follows it.             *)
StoreNamesAnOrder ==
    \A i \in Intents :
        Registered(i) =>
            /\ net[<<i, store[i]>>] = "order"
            /\ \A k \in Sends : k > store[i] => net[<<i, k>>] = "unsent"

OrdersOf(i) == {k \in Sends : net[<<i, k>>] = "order"}

(* What crashes may cost at most, when error answers are final: one order   *)
(* of an intent for each process there was.                                 *)
DuplicatesBounded == \A i \in Intents : Cardinality(OrdersOf(i)) <= restarts + 1

(* An order the daily counter does not have is one of a submit to be        *)
(* recovered, or of a registered intent whose recording failed half way.    *)
OrdersAccounted ==
    Cardinality(OrdersAtVenue) <=
        ordersToday + Cardinality(pending) + Cardinality(uncounted)

(* What the venue may come to hold is what the policy allows for the day,   *)
(* and one order for each submit to be recovered and each order whose       *)
(* recording failed.                                                        *)
ExposureBounded ==
    LET beyond == Cardinality(pending) + Cardinality(uncounted)
    IN  /\ Cardinality(OrdersAtVenue) <= MaxOrders + beyond
        /\ VenuePosition * Price <= MaxTurnover + beyond * Quantity * Price

NewRequest == \E r \in Requests : net[r] = "unsent" /\ net'[r] # "unsent"

(* After a start, a restart, a halt, a kill or a critical gate failure, no  *)
(* request goes out before the journal has an explicit disarm.              *)
StopNeedsDisarm == [][stopped => ~NewRequest]_vars

(* A session that is halted with an open kill switch was disarmed by the    *)
(* operator after the halt; otherwise the switch is triggered.              *)
HaltedIsKilled == state = "HALTED" => killed \/ ~stopped

(* A request may still become, or is, an order with quantity to fill.       *)
RequestStatus(r) ==
    IF net[r] = "unsent" THEN "absent"
    ELSE IF net[r] = "lost" \/ filled[r] = Quantity THEN "closed"
    ELSE "outstanding"

(* Within one process, and if an error answer is final, the canary is an    *)
(* implementation of IntentSubmission.                                      *)
Submission ==
    INSTANCE IntentSubmission
        WITH Attempts <- Sends,
             attempts <- [i \in Intents |->
                             [k \in Sends |-> RequestStatus(<<i, k>>)]]

SubmissionDiscipline == Submission!Spec
=============================================================================
