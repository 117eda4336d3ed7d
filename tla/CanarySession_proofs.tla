------------------------ MODULE CanarySession_proofs ------------------------
(***************************************************************************)
(* Proofs about the live canary, for any finite set of intents, any tags,  *)
(* order size, policy and number of requests and restarts; where it is     *)
(* said, for one process whose error answers are final.                    *)
(***************************************************************************)
EXTENDS CanarySession, FiniteSums

(* The memory has the order: counted, unsaved or unjournalled.              *)
Recorded == SubmitReply \/ SubmitUnsaved \/ SubmitUnjournalled

LEMMA InitTypeOK == Init => TypeOK
  <1> SUFFICES ASSUME Init
               PROVE  TypeOK
    OBVIOUS
  <1>1. 0 \in 0 .. MaxSends /\ 0 \in 0 .. Quantity /\ 0 \in 0 .. MaxRestarts
    BY SendsAssumption, QuantityAssumption, RestartsAssumption
  <1>2. BrokerTypeOK
    BY <1>1 DEF Init, BrokerInit, BrokerTypeOK, NetStatus
  <1>3. QED
    BY <1>1, <1>2 DEF Init, TypeOK, States, Calls

LEMMA HaltTypes ==
    ASSUME Halt
    PROVE  /\ state' \in States
           /\ disarmed' \in BOOLEAN /\ killed' \in BOOLEAN
           /\ stopped' \in BOOLEAN
  BY DEF Halt, States

LEMMA VenueTypeOK ==
    ASSUME TypeOK, Venue
    PROVE  TypeOK'
  <1>1. PICK r \in Requests : Deliver(r) \/ Lose(r) \/ Fill(r)
    BY DEF Venue
  <1>2. BrokerTypeOK'
    <2>1. CASE Deliver(r) \/ Lose(r)
      BY <2>1 DEF Deliver, Lose, TypeOK, BrokerTypeOK, NetStatus
    <2>2. CASE Fill(r)
      <3>1. filled[r] \in Nat
        BY QuantityAssumption DEF TypeOK, BrokerTypeOK
      <3>2. PICK q \in (filled[r] + 1) .. Quantity : filled' = [filled EXCEPT ![r] = q]
        BY <2>2 DEF Fill
      <3>3. q \in 0 .. Quantity
        BY <3>1, QuantityAssumption
      <3>4. QED
        BY <2>2, <3>2, <3>3 DEF Fill, TypeOK, BrokerTypeOK
    <2>3. QED
      BY <1>1, <2>1, <2>2
  <1>3. QED
    BY <1>2 DEF Venue, TypeOK, controlVars, counterVars

LEMMA SubmitTypeOK ==
    ASSUME TypeOK
    PROVE  /\ \A i \in Intents, k \in Sends : SubmitSend(i, k) => TypeOK'
           /\ \A i \in Intents : SubmitReplay(i) => TypeOK'
           /\ Recorded => TypeOK'
           /\ SubmitError => TypeOK'
           /\ StatusRead => TypeOK'
           /\ StatusError => TypeOK'
  <1>1. ASSUME NEW i \in Intents, NEW k \in Sends, SubmitSend(i, k)
        PROVE  TypeOK'
    <2>1. BrokerTypeOK'
      BY <1>1 DEF SubmitSend, Send, TypeOK, BrokerTypeOK, NetStatus
    <2>2. call' \in Calls
      BY <1>1 DEF SubmitSend, Calls
    <2>3. QED
      BY <1>1, <2>1, <2>2 DEF SubmitSend, TypeOK, controlVars, counterVars
  <1>2. ASSUME NEW i \in Intents, SubmitReplay(i)
        PROVE  TypeOK'
    <2>1. store[i] \in Sends
      BY <1>2, SendsAssumption
         DEF SubmitReplay, Registered, TypeOK, BrokerTypeOK, Sends
    <2>2. /\ call' \in Calls /\ ordersToday' \in Nat
          /\ uncounted' \in SUBSET Intents
      BY <1>2, <2>1 DEF SubmitReplay, Calls, TypeOK
    <2>3. QED
      BY <1>2, <2>2
         DEF SubmitReplay, TypeOK, BrokerTypeOK, controlVars, brokerVars
  <1> DEFINE i == call.intent
             k == call.send
  <1>3. call.stage \in {"sent", "placed"} =>
            /\ call \in [stage : {"sent", "placed"}, intent : Intents, send : Sends]
            /\ i \in Intents /\ k \in Sends /\ <<i, k>> \in Requests
    BY DEF TypeOK, Calls, Idle, Requests
  <1>4. ASSUME Recorded
        PROVE  TypeOK'
    <2>1. i \in Intents /\ k \in 0 .. MaxSends
      BY <1>3, <1>4, SendsAssumption
         DEF Recorded, SubmitReply, SubmitUnsaved, SubmitUnjournalled, Sends
    <2>2. Acknowledge(i, k) \/ AcknowledgeUnsaved(i, k)
      BY <1>4 DEF Recorded, SubmitReply, SubmitUnsaved, SubmitUnjournalled
    <2>3. BrokerTypeOK'
      <3>1. /\ store' \in [Intents -> 0 .. MaxSends]
            /\ pending' \in SUBSET Intents /\ UNCHANGED <<durable, net, filled>>
        BY <2>1, <2>2
           DEF Acknowledge, Register, AcknowledgeUnsaved, RegisterUnsaved,
               TypeOK, BrokerTypeOK
      <3>2. file' \in [whole : BOOLEAN, known : [Intents -> 0 .. MaxSends]]
        <4>1. \/ file' \in {file, [file EXCEPT !.whole = FALSE]}
              \/ file' = [whole |-> TRUE, known |-> store']
          BY <2>2
             DEF Acknowledge, Register, AcknowledgeUnsaved, RegisterUnsaved
        <4>2. file \in [whole : BOOLEAN, known : [Intents -> 0 .. MaxSends]]
          BY DEF TypeOK, BrokerTypeOK
        <4>3. [file EXCEPT !.whole = FALSE]
                  \in [whole : BOOLEAN, known : [Intents -> 0 .. MaxSends]]
          BY <4>2
        <4>4. [whole |-> TRUE, known |-> store']
                  \in [whole : BOOLEAN, known : [Intents -> 0 .. MaxSends]]
          BY <3>1
        <4>5. file' \in {file, [file EXCEPT !.whole = FALSE],
                         [whole |-> TRUE, known |-> store']}
          BY <4>1
        <4>6. QED
          BY <4>2, <4>3, <4>4, <4>5, Zenon
      <3>3. QED
        BY <3>1, <3>2 DEF TypeOK, BrokerTypeOK
    <2>4. /\ call' \in Calls /\ ordersToday' \in Nat /\ booked' \in Nat
          /\ uncounted' \in SUBSET Intents /\ UNCHANGED <<activation, recon, restarts>>
      BY <1>3, <1>4, <2>1
         DEF Recorded, SubmitReply, SubmitUnsaved, SubmitUnjournalled, Calls,
             TypeOK, controlVars
    <2>5. CASE SubmitUnsaved
      BY <2>3, <2>4, <2>5, HaltTypes DEF SubmitUnsaved, TypeOK
    <2>6. CASE SubmitReply \/ SubmitUnjournalled
      BY <2>3, <2>4, <2>6
         DEF SubmitReply, SubmitUnjournalled, TypeOK, controlVars
    <2>7. QED
      BY <1>4, <2>5, <2>6 DEF Recorded
  <1>5. ASSUME SubmitError
        PROVE  TypeOK'
    BY <1>5, HaltTypes
       DEF SubmitError, TypeOK, BrokerTypeOK, Calls, counterVars, brokerVars
  <1>6. ASSUME StatusRead
        PROVE  TypeOK'
    <2>1. filled[<<i, k>>] \in Nat
      BY <1>3, <1>6, QuantityAssumption DEF StatusRead, TypeOK, BrokerTypeOK
    <2>2. booked' \in Nat
      BY <1>6, <2>1 DEF StatusRead, TypeOK
    <2>3. QED
      BY <1>6, <2>2
         DEF StatusRead, TypeOK, BrokerTypeOK, Calls, controlVars, brokerVars
  <1>7. ASSUME StatusError
        PROVE  TypeOK'
    BY <1>7 DEF StatusError, TypeOK, BrokerTypeOK, Calls, controlVars,
                counterVars, brokerVars
  <1>8. QED
    BY <1>1, <1>2, <1>4, <1>5, <1>6, <1>7

LEMMA ControlTypeOK ==
    ASSUME TypeOK,
           \/ RequireActivation \/ Activate \/ ActivateInvalid \/ Expire
           \/ BeginRunning \/ Disarm \/ TripKillSwitch
           \/ \E book \in {booked, 0} : Reconcile(book)
           \/ ReconcileFails \/ EmergencyKill \/ Close
           \/ \E fresh \in BOOLEAN : EvaluateCritical(fresh)
           \/ \E i \in Intents : SubmitPending(i)
    PROVE  TypeOK'
  <1>1. BrokerTypeOK' /\ UNCHANGED <<counterVars, call, restarts>>
    BY DEF RequireActivation, Activate, ActivateInvalid, Expire, BeginRunning,
           Disarm, TripKillSwitch, Reconcile, ReconcileFails, EmergencyKill,
           Close, EvaluateCritical, SubmitPending, TypeOK, BrokerTypeOK,
           brokerVars
  <1>2. state' \in States
    BY HaltTypes
       DEF RequireActivation, Activate, ActivateInvalid, Expire, BeginRunning,
           Disarm, TripKillSwitch, Reconcile, ReconcileFails, EmergencyKill,
           Close, EvaluateCritical, SubmitPending, TypeOK, States
  <1>3. activation' \in {"missing", "valid", "invalid"}
    BY DEF RequireActivation, Activate, ActivateInvalid, Expire, BeginRunning,
           Disarm, TripKillSwitch, Reconcile, ReconcileFails, EmergencyKill,
           Close, EvaluateCritical, SubmitPending, TypeOK
  <1>4. recon' \in {"UNKNOWN", "CLEAN", "MISMATCH"}
    BY DEF RequireActivation, Activate, ActivateInvalid, Expire, BeginRunning,
           Disarm, TripKillSwitch, Reconcile, ReconcileFails, EmergencyKill,
           Close, CloseEffects, EvaluateCritical, SubmitPending, TypeOK, Verdict
  <1>5. /\ disarmed' \in BOOLEAN /\ killed' \in BOOLEAN
        /\ stopped' \in BOOLEAN
    BY HaltTypes
       DEF RequireActivation, Activate, ActivateInvalid, Expire, BeginRunning,
           Disarm, TripKillSwitch, Reconcile, ReconcileFails, EmergencyKill,
           Close, CloseEffects, EvaluateCritical, SubmitPending, TypeOK
  <1>6. QED
    BY <1>1, <1>2, <1>3, <1>4, <1>5 DEF TypeOK, counterVars

LEMMA RestartTypeOK ==
    ASSUME TypeOK, Restart
    PROVE  TypeOK'
  <1>1. restarts' \in 0 .. MaxRestarts
    BY RestartsAssumption DEF Restart, TypeOK
  <1>2. BrokerTypeOK'
    <2>1. 0 \in 0 .. MaxSends
      BY SendsAssumption
    <2>2. QED
      BY <2>1 DEF Restart, Forget, TypeOK, BrokerTypeOK
  <1>3. QED
    BY <1>1, <1>2 DEF Restart, TypeOK, States, Calls

LEMMA NextTypeOK == TypeOK /\ [Next]_vars => TypeOK'
  <1> SUFFICES ASSUME TypeOK, [Next]_vars
               PROVE  TypeOK'
    OBVIOUS
  <1>1. ASSUME NEW i \in Intents, RecoverUncertain(i)
        PROVE  TypeOK'
    BY <1>1 DEF RecoverUncertain, Recover, TypeOK, BrokerTypeOK, controlVars,
                counterVars
  <1>2. CASE UNCHANGED vars
    BY <1>2 DEF TypeOK, BrokerTypeOK, vars, controlVars, counterVars, brokerVars
  <1>3. QED
    BY <1>1, <1>2, VenueTypeOK, SubmitTypeOK, ControlTypeOK, RestartTypeOK
       DEF Next, Recorded

(* Every variable of the canary keeps its type.                             *)
THEOREM CanaryTypeOK == Spec => []TypeOK
  BY InitTypeOK, NextTypeOK, PTL DEF Spec

-----------------------------------------------------------------------------
(* Stops and disarms *)

(* A stop leaves the session not disarmed, whichever action recorded it.    *)
StopsAreArmed == stopped => ~disarmed

LEMMA NextStopsAreArmed ==
    TypeOK /\ StopsAreArmed /\ [Next]_vars => StopsAreArmed'
  BY DEF StopsAreArmed, Next, vars, controlVars, RequireActivation, Activate,
         ActivateInvalid, Expire, BeginRunning, Disarm, TripKillSwitch,
         Reconcile, ReconcileFails, EmergencyKill, Close, CloseEffects,
         EvaluateCritical, SubmitSend, SubmitReplay, SubmitPending,
         SubmitReply, SubmitUnsaved, SubmitUnjournalled, SubmitError,
         StatusRead, StatusError, RecoverUncertain, Restart, Venue, Halt

(* Only a submit that passed the gates puts a request on its way.           *)
LEMMA OnlySubmitSends ==
    ASSUME TypeOK, [Next]_vars, NewRequest
    PROVE  MaySubmit
  <1>1. ASSUME NEW i \in Intents, NEW k \in Sends, SubmitSend(i, k)
        PROVE  MaySubmit
    BY <1>1 DEF SubmitSend
  <1>2. ASSUME Venue
        PROVE  ~NewRequest
    <2>1. PICK r \in Requests : Deliver(r) \/ Lose(r) \/ Fill(r)
      BY <1>2 DEF Venue
    <2>2. net \in [Requests -> NetStatus]
      BY DEF TypeOK, BrokerTypeOK
    <2>3. \A s \in Requests : net[s] = "unsent" => net'[s] = net[s]
      BY <2>1, <2>2 DEF Deliver, Lose, Fill
    <2>4. QED
      BY <2>3 DEF NewRequest
  <1>3. CASE UNCHANGED net
    BY <1>3 DEF NewRequest
  <1>4. QED
    BY <1>1, <1>2, <1>3
       DEF Next, vars, brokerVars, RequireActivation, Activate,
           ActivateInvalid, Expire, BeginRunning, Disarm, TripKillSwitch,
           Reconcile, ReconcileFails, EmergencyKill, Close, EvaluateCritical,
           SubmitReplay, SubmitPending, SubmitReply, SubmitUnsaved,
           SubmitUnjournalled, Acknowledge, AcknowledgeUnsaved, SubmitError,
           StatusRead, StatusError, RecoverUncertain, Recover, Restart, Forget

(* After a start, restart, halt, kill or critical gate failure, no request  *)
(* goes out before an explicit disarm; crashes and late requests included.  *)
THEOREM CanaryStopNeedsDisarm == Spec => StopNeedsDisarm
  <1>1. Init => StopsAreArmed
    BY DEF Init, StopsAreArmed
  <1>2. TypeOK /\ StopsAreArmed /\ [Next]_vars => [stopped => ~NewRequest]_vars
    BY OnlySubmitSends DEF MaySubmit, GatesPass, StopsAreArmed
  <1>3. QED
    BY <1>1, <1>2, NextStopsAreArmed, CanaryTypeOK, PTL DEF Spec, StopNeedsDisarm

(* A halted session has its kill switch triggered unless the operator       *)
(* disarmed it after the halt.                                              *)
THEOREM CanaryHaltedIsKilled == Spec => []HaltedIsKilled
  <1>1. Init => HaltedIsKilled
    BY DEF Init, HaltedIsKilled
  <1>2. TypeOK /\ HaltedIsKilled /\ [Next]_vars => HaltedIsKilled'
    BY DEF HaltedIsKilled, Next, vars, controlVars, RequireActivation,
           Activate, ActivateInvalid, Expire, BeginRunning, Disarm,
           TripKillSwitch, Reconcile, ReconcileFails, EmergencyKill, Close,
           EvaluateCritical, SubmitSend, SubmitReplay, SubmitPending,
           SubmitReply, SubmitUnsaved, SubmitUnjournalled, SubmitError,
           StatusRead, StatusError, RecoverUncertain, Restart, Venue, Halt
  <1>3. QED
    BY <1>1, <1>2, CanaryTypeOK, PTL DEF Spec

-----------------------------------------------------------------------------
(* One process whose error answers are final *)

Live(r) == net[r] \in {"inflight", "order"}

(* A request is on its way only during the call that sent it.               *)
InflightIsCalled ==
    \A r \in Requests :
        net[r] = "inflight" =>
            call.stage = "sent" /\ call.intent = r[1] /\ call.send = r[2]

OneLiveRequest ==
    \A r, s \in Requests : Live(r) /\ Live(s) /\ r[1] = s[1] => r = s

OnlyOrdersFill ==
    \A r \in Requests : net[r] # "order" => filled[r] = 0

ProcessInv ==
    /\ TypeOK
    /\ InflightIsCalled
    /\ NoOrphanOrder
    /\ OneLiveRequest
    /\ OnlyOrdersFill

LEMMA InitProcessInv == Init => ProcessInv
  BY InitTypeOK
     DEF Init, BrokerInit, ProcessInv, InflightIsCalled, NoOrphanOrder,
         OneLiveRequest, OnlyOrdersFill, Live

(* A new request is sent only when its intent has no live one.              *)
LEMMA SendIsFirst ==
    ASSUME ProcessInv, NEW i \in Intents, MaySend(i)
    PROVE  \A k \in Sends : ~Live(<<i, k>>)
  <1>1. \A k \in Sends : <<i, k>> \in Requests
    BY DEF Requests
  <1>2. \A k \in Sends : store[i] # k /\ i \notin pending
    BY SendsAssumption DEF MaySend, Registered, Sends
  <1>3. QED
    BY <1>1, <1>2 DEF ProcessInv, NoOrphanOrder, Live

LEMMA SendProcessInv ==
    ASSUME ProcessInv, NEW i \in Intents, NEW k \in Sends, SubmitSend(i, k)
    PROVE  ProcessInv'
  <1> DEFINE new == <<i, k>>
  <1>1. TypeOK'
    BY SubmitTypeOK DEF ProcessInv
  <1>2. /\ new \in Requests /\ net[new] = "unsent"
        /\ net \in [Requests -> NetStatus]
        /\ net' = [net EXCEPT ![new] = "inflight"]
        /\ pending' = pending \cup {i} /\ store' = store /\ filled' = filled
        /\ call = Idle
        /\ call' = [stage |-> "sent", intent |-> i, send |-> k]
    BY DEF SubmitSend, MaySubmit, Send, NotYetSent, ProcessInv, TypeOK,
           BrokerTypeOK, Requests
  <1>3. \A r \in Requests : net'[r] = IF r = new THEN "inflight" ELSE net[r]
    BY <1>2
  <1>4. InflightIsCalled'
    <2>1. \A r \in Requests : net[r] # "inflight"
      BY <1>2 DEF ProcessInv, InflightIsCalled, Idle
    <2>2. QED
      BY <1>2, <1>3, <2>1 DEF InflightIsCalled
  <1>5. NoOrphanOrder'
    BY <1>2, <1>3 DEF ProcessInv, NoOrphanOrder
  <1>6. OneLiveRequest'
    <2>1. \A r \in Requests : Live(r) => r[1] # i
      BY SendIsFirst DEF Requests, SubmitSend
    <2>2. \A r \in Requests : Live(r)' => r = new \/ Live(r)
      BY <1>3 DEF Live
    <2>3. QED
      BY <2>1, <2>2 DEF ProcessInv, OneLiveRequest
  <1>7. OnlyOrdersFill'
    BY <1>2, <1>3 DEF ProcessInv, OnlyOrdersFill
  <1>8. QED
    BY <1>1, <1>4, <1>5, <1>6, <1>7 DEF ProcessInv

LEMMA ReplyProcessInv ==
    ASSUME ProcessInv, Recorded
    PROVE  ProcessInv'
  <1> DEFINE i == call.intent
             k == call.send
  <1>1. TypeOK'
    BY SubmitTypeOK DEF ProcessInv
  <1>2. i \in Intents /\ k \in Sends /\ <<i, k>> \in Requests
    BY DEF ProcessInv, TypeOK, Calls, Idle, Recorded, SubmitReply,
           SubmitUnsaved, SubmitUnjournalled, Requests
  <1>3. /\ net[<<i, k>>] = "order" /\ net' = net /\ filled' = filled
        /\ pending' = pending \ {i}
        /\ store' = [store EXCEPT ![i] = k]
        /\ store \in [Intents -> 0 .. MaxSends]
    BY DEF Recorded, SubmitReply, SubmitUnsaved, SubmitUnjournalled,
           Acknowledge, Register, AcknowledgeUnsaved, RegisterUnsaved,
           ProcessInv, TypeOK, BrokerTypeOK
  <1>4. \A r \in Requests : Live(r) /\ r[1] = i => r[2] = k
    BY <1>2, <1>3 DEF ProcessInv, OneLiveRequest, Live, Requests
  <1>5. InflightIsCalled'
    <2>1. \A r \in Requests : net[r] # "inflight"
      <3>1. SUFFICES ASSUME NEW r \in Requests, net[r] = "inflight"
                     PROVE  FALSE
        OBVIOUS
      <3>2. r[1] = i /\ r[2] = k
        BY <3>1 DEF ProcessInv, InflightIsCalled
      <3>3. r = <<i, k>>
        BY <3>2 DEF Requests
      <3>4. QED
        BY <1>3, <3>1, <3>3
    <2>2. QED
      BY <1>3, <2>1 DEF InflightIsCalled
  <1>6. NoOrphanOrder'
    <2>1. ASSUME NEW r \in Requests, Live(r)
          PROVE  store'[r[1]] = r[2] \/ r[1] \in pending'
      <3>1. r[1] \in Intents
        BY DEF Requests
      <3>2. CASE r[1] = i
        BY <1>2, <1>3, <1>4, <2>1, <3>2
      <3>3. CASE r[1] # i
        BY <1>2, <1>3, <2>1, <3>1, <3>3 DEF ProcessInv, NoOrphanOrder, Live
      <3>4. QED
        BY <3>2, <3>3
    <2>2. QED
      BY <1>3, <2>1 DEF NoOrphanOrder, Live
  <1>7. OneLiveRequest' /\ OnlyOrdersFill'
    BY <1>3 DEF ProcessInv, OneLiveRequest, Live, OnlyOrdersFill
  <1>8. QED
    BY <1>1, <1>5, <1>6, <1>7 DEF ProcessInv

LEMMA RecoverProcessInv ==
    ASSUME ProcessInv, NEW i \in Intents, RecoverUncertain(i)
    PROVE  ProcessInv'
  <1>1. TypeOK'
    BY NextTypeOK DEF ProcessInv, Next
  <1>2. /\ UNCHANGED <<net, filled, store, call>>
        /\ pending' = pending \ {i} /\ call = Idle
        /\ ~FoundOnBroker(i)
    BY DEF RecoverUncertain, Recover
  <1>3. ASSUME NEW r \in Requests, Live(r)
        PROVE  r[1] # i
    <2>1. net[r] = "order"
      BY <1>2, <1>3 DEF ProcessInv, InflightIsCalled, Idle, Live
    <2>2. QED
      BY <1>2, <2>1, TagAssumption DEF FoundOnBroker, OrdersAtVenue
  <1>4. NoOrphanOrder'
    BY <1>2, <1>3 DEF ProcessInv, NoOrphanOrder, Live
  <1>5. InflightIsCalled' /\ OneLiveRequest' /\ OnlyOrdersFill'
    BY <1>2 DEF ProcessInv, InflightIsCalled, OneLiveRequest, Live, OnlyOrdersFill
  <1>6. QED
    BY <1>1, <1>4, <1>5 DEF ProcessInv

LEMMA VenueProcessInv ==
    ASSUME ProcessInv, Venue
    PROVE  ProcessInv'
  <1>1. TypeOK'
    BY VenueTypeOK DEF ProcessInv
  <1>2. PICK r \in Requests : Deliver(r) \/ Lose(r) \/ Fill(r)
    BY DEF Venue
  <1>3. /\ UNCHANGED <<store, pending, call>>
        /\ net \in [Requests -> NetStatus] /\ filled \in [Requests -> 0 .. Quantity]
    BY <1>2 DEF Venue, Deliver, Lose, Fill, ProcessInv, TypeOK, BrokerTypeOK
  <1>4. \A s \in Requests :
            /\ net'[s] = "inflight" => net[s] = "inflight"
            /\ Live(s)' => Live(s)
            /\ net'[s] # "order" => net[s] # "order" /\ filled'[s] = filled[s]
    BY <1>2, <1>3 DEF Deliver, Lose, Fill, Live
  <1>5. InflightIsCalled' /\ OneLiveRequest' /\ OnlyOrdersFill'
    BY <1>3, <1>4 DEF ProcessInv, InflightIsCalled, OneLiveRequest, OnlyOrdersFill
  <1>6. NoOrphanOrder'
    BY <1>3, <1>4 DEF ProcessInv, NoOrphanOrder, Live
  <1>7. QED
    BY <1>1, <1>5, <1>6 DEF ProcessInv

(* An error answer is final: the request it answers is decided.             *)
LEMMA ErrorProcessInv ==
    ASSUME ~LateRequests, ProcessInv, SubmitError
    PROVE  ProcessInv'
  <1>1. TypeOK'
    BY SubmitTypeOK DEF ProcessInv
  <1>2. /\ UNCHANGED brokerVars
        /\ net[<<call.intent, call.send>>] # "inflight"
    BY DEF SubmitError, MayFail
  <1>3. \A r \in Requests : net[r] # "inflight"
    <2>1. SUFFICES ASSUME NEW r \in Requests, net[r] = "inflight"
                   PROVE  FALSE
      OBVIOUS
    <2>2. r = <<call.intent, call.send>>
      BY <2>1 DEF ProcessInv, InflightIsCalled, Requests
    <2>3. QED
      BY <1>2, <2>1, <2>2
  <1>4. QED
    BY <1>1, <1>2, <1>3
       DEF brokerVars, ProcessInv, InflightIsCalled, NoOrphanOrder,
           OneLiveRequest, Live, OnlyOrdersFill

LEMMA NextProcessInv ==
    ASSUME MaxRestarts = 0, ~LateRequests, ProcessInv, [Next]_vars
    PROVE  ProcessInv'
  <1>1. TypeOK'
    BY NextTypeOK DEF ProcessInv
  <1>2. ASSUME UNCHANGED brokerVars, call' = call \/ call.stage # "sent"
        PROVE  ProcessInv'
    <2>1. InflightIsCalled'
      BY <1>2 DEF brokerVars, ProcessInv, InflightIsCalled
    <2>2. QED
      BY <1>1, <1>2, <2>1
         DEF brokerVars, ProcessInv, NoOrphanOrder, OneLiveRequest, Live,
             OnlyOrdersFill
  <1>3. ~Restart
    BY DEF Restart, ProcessInv, TypeOK
  <1>4. QED
    BY <1>2, <1>3, SendProcessInv, ReplyProcessInv, RecoverProcessInv,
       VenueProcessInv, ErrorProcessInv
       DEF Next, vars, RequireActivation, Activate, ActivateInvalid, Expire,
           BeginRunning, Disarm, TripKillSwitch, Reconcile, ReconcileFails,
           EmergencyKill, Close, EvaluateCritical, SubmitReplay, MaySubmit,
           SubmitPending, Recorded, StatusRead, StatusError, Idle

LEMMA InvariantProcessInv ==
    ASSUME MaxRestarts = 0, ~LateRequests
    PROVE  Spec => []ProcessInv
  <1>1. ProcessInv /\ [Next]_vars => ProcessInv'
    BY NextProcessInv
  <1>2. QED
    BY <1>1, InitProcessInv, PTL DEF Spec

(* Every request that is on its way or an order is registered or awaits     *)
(* recovery.                                                                *)
THEOREM CanaryNoOrphanOrder ==
    ASSUME MaxRestarts = 0, ~LateRequests
    PROVE  Spec => []NoOrphanOrder
  <1>1. ProcessInv => NoOrphanOrder
    BY DEF ProcessInv
  <1>2. QED
    BY <1>1, InvariantProcessInv, PTL

(* Recovery never leads to a second order for an intent.                    *)
THEOREM CanaryOneOrderPerIntent ==
    ASSUME MaxRestarts = 0, ~LateRequests
    PROVE  Spec => []OneOrderPerIntent
  <1>1. ProcessInv => OneOrderPerIntent
    BY DEF ProcessInv, OneLiveRequest, Live, OneOrderPerIntent, OrdersAtVenue
  <1>2. QED
    BY <1>1, InvariantProcessInv, PTL

-----------------------------------------------------------------------------
(* The daily counter *)

RegisteredIntents == {i \in Intents : Registered(i)}

(* Each registration was counted, or its recording failed.                  *)
RegisteredCounted == Cardinality(RegisteredIntents \ uncounted) <= ordersToday

LEMMA OneMore ==
    ASSUME NEW S, IsFiniteSet(S), NEW x, NEW T \in SUBSET (S \cup {x})
    PROVE  Cardinality(T) \in Nat /\ Cardinality(T) <= Cardinality(S) + 1
  <1>1. /\ IsFiniteSet(S \cup {x})
        /\ Cardinality(S \cup {x}) \in {Cardinality(S), Cardinality(S) + 1}
    BY FS_AddElement
  <1>2. /\ IsFiniteSet(T) /\ Cardinality(T) <= Cardinality(S \cup {x})
    BY <1>1, FS_Subset
  <1>3. {Cardinality(S), Cardinality(T), Cardinality(S \cup {x})} \subseteq Nat
    BY <1>1, <1>2, FS_CardinalityType
  <1>4. QED
    BY <1>1, <1>2, <1>3

LEMMA NextRegisteredCounted ==
    ASSUME MaxRestarts = 0, ProcessInv, RegisteredCounted, [Next]_vars
    PROVE  RegisteredCounted'
  <1> DEFINE S == RegisteredIntents \ uncounted
             n == Cardinality(S)
  <1>1. /\ IsFiniteSet(S)
        /\ n \in Nat /\ ordersToday \in Nat /\ n <= ordersToday
    BY IntentsAssumption, FS_Subset, FS_CardinalityType
       DEF RegisteredIntents, ProcessInv, TypeOK, RegisteredCounted
  <1>2. ASSUME NEW i, S' \subseteq S \cup {i}, ordersToday' = ordersToday + 1
        PROVE  RegisteredCounted'
    <2>1. n' \in Nat /\ n' <= n + 1
      BY <1>1, <1>2, OneMore
    <2>2. n' <= ordersToday'
      <3> HIDE DEF n
      <3>1. QED
        BY <1>1, <1>2, <2>1
    <2>3. QED
      BY <2>2 DEF RegisteredCounted
  <1>3. ASSUME Recorded
        PROVE  RegisteredCounted'
    <2> DEFINE i == call.intent
    <2>1. /\ i \in Intents /\ call.send # 0
          /\ store' = [store EXCEPT ![i] = call.send]
          /\ store \in [Intents -> 0 .. MaxSends]
      BY <1>3, SendsAssumption
         DEF Recorded, SubmitReply, SubmitUnsaved, SubmitUnjournalled,
             Acknowledge, Register, AcknowledgeUnsaved, RegisterUnsaved,
             ProcessInv, TypeOK, BrokerTypeOK, Calls, Idle, Sends
    <2>2. RegisteredIntents' = RegisteredIntents \cup {i}
      BY <2>1 DEF RegisteredIntents, Registered
    <2>3. CASE SubmitReply
      <3>1. S' \subseteq S \cup {i} /\ ordersToday' = ordersToday + 1
        BY <2>2, <2>3 DEF SubmitReply
      <3>2. QED
        BY <1>2, <3>1
    <2>4. CASE SubmitUnsaved \/ SubmitUnjournalled
      <3>1. S' \subseteq S /\ ordersToday' = ordersToday
        BY <2>2, <2>4 DEF SubmitUnsaved, SubmitUnjournalled
      <3>2. n' \in Nat /\ n' <= n
        BY <1>1, <3>1, FS_Subset, FS_CardinalityType
      <3>3. n' <= ordersToday'
        <4> HIDE DEF n
        <4>1. QED
          BY <1>1, <3>1, <3>2
      <3>4. QED
        BY <3>3 DEF RegisteredCounted
    <2>5. QED
      BY <1>3, <2>3, <2>4 DEF Recorded
  <1>4. ASSUME NEW i \in Intents, SubmitReplay(i)
        PROVE  RegisteredCounted'
    <2>1. /\ S' \subseteq S \cup {i} /\ ordersToday' = ordersToday + 1
      BY <1>4 DEF SubmitReplay, RegisteredIntents, Registered, brokerVars
    <2>2. QED
      BY <1>2, <2>1
  <1>5. ASSUME UNCHANGED <<store, ordersToday, uncounted>>
        PROVE  RegisteredCounted'
    BY <1>5 DEF RegisteredCounted, RegisteredIntents, Registered
  <1>6. ~Restart
    BY DEF Restart, ProcessInv, TypeOK
  <1>7. QED
    BY <1>3, <1>4, <1>5, <1>6
       DEF Next, vars, Recorded, brokerVars, counterVars, RequireActivation,
           Activate, ActivateInvalid, Expire, BeginRunning, Disarm,
           TripKillSwitch, Reconcile, ReconcileFails, EmergencyKill, Close,
           EvaluateCritical, SubmitSend, Send, SubmitPending, SubmitError,
           StatusRead, StatusError, RecoverUncertain, Recover, Venue, Deliver,
           Lose, Fill

(* Every order is that of an intent registered or to be recovered, and no   *)
(* two orders are of the same.                                              *)
LEMMA CountedAreEnough ==
    ASSUME ProcessInv, RegisteredCounted
    PROVE  OrdersAccounted
  <1> DEFINE A == RegisteredIntents \ uncounted
             B == uncounted \cup pending
             f == [r \in OrdersAtVenue |-> r[1]]
  <1>1. /\ A \in SUBSET Intents /\ uncounted \in SUBSET Intents
        /\ pending \in SUBSET Intents /\ B \in SUBSET Intents
        /\ ordersToday \in Nat
    BY DEF RegisteredIntents, ProcessInv, TypeOK, BrokerTypeOK
  <1>2. \A S \in SUBSET Intents : IsFiniteSet(S) /\ Cardinality(S) \in Nat
    BY IntentsAssumption, FS_Subset, FS_CardinalityType
  <1>3. ASSUME NEW S \in SUBSET Intents, NEW T \in SUBSET Intents
        PROVE  Cardinality(S \cup T) <= Cardinality(S) + Cardinality(T)
    <2>1. Cardinality(S \cup T) =
              Cardinality(S) + Cardinality(T) - Cardinality(S \cap T)
      BY <1>2, FS_Union
    <2>2. S \cap T \in SUBSET Intents
      OBVIOUS
    <2>3. QED
      BY <1>2, <2>1, <2>2
  <1>4. ASSUME NEW r \in OrdersAtVenue
        PROVE  r[1] \in A \cup B
    <2>1. /\ r[1] \in Intents /\ r[2] \in Sends
          /\ store[r[1]] = r[2] \/ r[1] \in pending
      BY DEF OrdersAtVenue, Requests, ProcessInv, NoOrphanOrder
    <2>2. r[2] # 0
      BY <2>1, SendsAssumption DEF Sends
    <2>3. QED
      BY <2>1, <2>2 DEF RegisteredIntents, Registered
  <1>5. \A r, s \in OrdersAtVenue : r[1] = s[1] => r = s
    BY DEF OrdersAtVenue, ProcessInv, OneLiveRequest, Live
  <1>6. f \in Injection(OrdersAtVenue, A \cup B)
    BY <1>4, <1>5 DEF Injection, IsInjective
  <1>7. A \cup B \in SUBSET Intents
    BY <1>1
  <1>8. /\ Cardinality(OrdersAtVenue) <= Cardinality(A \cup B)
        /\ Cardinality(OrdersAtVenue) \in Nat
    BY <1>2, <1>6, <1>7, FS_Injection, FS_CardinalityType
  <1>9. /\ Cardinality(A \cup B) <= Cardinality(A) + Cardinality(B)
        /\ Cardinality(B) <= Cardinality(uncounted) + Cardinality(pending)
    BY <1>1, <1>3
  <1>10. /\ Cardinality(A) \in Nat /\ Cardinality(B) \in Nat
         /\ Cardinality(A \cup B) \in Nat
         /\ Cardinality(uncounted) \in Nat /\ Cardinality(pending) \in Nat
    BY <1>1, <1>2, <1>7
  <1> HIDE DEF B, f
  <1>11. QED
    BY <1>1, <1>8, <1>9, <1>10 DEF RegisteredCounted, OrdersAccounted

(* In one process whose error answers are final, an order the daily counter *)
(* does not have is one of a submit to be recovered, or one whose           *)
(* registration or journal entry could not be written.                      *)
THEOREM CanaryOrdersAccounted ==
    ASSUME MaxRestarts = 0, ~LateRequests
    PROVE  Spec => []OrdersAccounted
  <1>1. Init => RegisteredCounted
    <2> SUFFICES ASSUME Init
                 PROVE  RegisteredCounted
      OBVIOUS
    <2>1. RegisteredIntents = {}
      BY DEF Init, BrokerInit, RegisteredIntents, Registered
    <2>2. Cardinality(RegisteredIntents \ uncounted) = 0
      BY <2>1, FS_EmptySet
    <2>3. QED
      BY <2>2 DEF Init, RegisteredCounted
  <1>2. ProcessInv /\ RegisteredCounted /\ [Next]_vars => RegisteredCounted'
    BY NextRegisteredCounted
  <1>3. ProcessInv /\ RegisteredCounted => OrdersAccounted
    BY CountedAreEnough
  <1>4. QED
    BY <1>1, <1>2, <1>3, InvariantProcessInv, PTL DEF Spec

-----------------------------------------------------------------------------
(* The money at the venue *)

(* The counter, and the order it is about to count, within the policy.      *)
WithinPolicy ==
    /\ ordersToday <= MaxOrders
    /\ ordersToday * Quantity * Price <= MaxTurnover
    /\ call.stage = "sent" =>
           /\ ordersToday + 1 <= MaxOrders
           /\ (ordersToday + 1) * Quantity * Price <= MaxTurnover

LEMMA InitWithinPolicy == Init => WithinPolicy
  <1> SUFFICES ASSUME Init
               PROVE  WithinPolicy
    OBVIOUS
  <1>1. ordersToday = 0 /\ call.stage = "idle"
    BY DEF Init, Idle
  <1>2. ordersToday * Quantity * Price = 0
    BY <1>1, QuantityAssumption, PolicyAssumption
  <1>3. QED
    BY <1>1, <1>2, PolicyAssumption DEF WithinPolicy

LEMMA NextWithinPolicy ==
    ASSUME TypeOK, WithinPolicy, [Next]_vars
    PROVE  WithinPolicy'
  <1>1. ASSUME UNCHANGED ordersToday, call' = call \/ call'.stage # "sent"
        PROVE  WithinPolicy'
    BY <1>1 DEF WithinPolicy
  <1>2. ASSUME NEW i \in Intents, NEW k \in Sends, SubmitSend(i, k)
        PROVE  WithinPolicy'
    <2>1. ordersToday < MaxOrders /\ ordersToday \in Nat
      BY <1>2 DEF SubmitSend, MaySubmit, GatesPass, WithinLimits, TypeOK
    <2>2. QED
      BY <1>2, <2>1, PolicyAssumption
         DEF SubmitSend, MaySubmit, GatesPass, WithinLimits, counterVars,
             WithinPolicy
  <1>3. ASSUME NEW i \in Intents, SubmitReplay(i)
        PROVE  WithinPolicy'
    <2>1. ordersToday < MaxOrders /\ ordersToday \in Nat
      BY <1>3 DEF SubmitReplay, MaySubmit, GatesPass, WithinLimits, TypeOK
    <2>2. QED
      BY <1>3, <2>1, PolicyAssumption
         DEF SubmitReplay, MaySubmit, GatesPass, WithinLimits, WithinPolicy
  <1>4. ASSUME Recorded
        PROVE  WithinPolicy'
    BY <1>4 DEF Recorded, SubmitReply, SubmitUnsaved, SubmitUnjournalled,
                WithinPolicy, TypeOK, Calls, Idle
  <1>5. ASSUME Restart
        PROVE  WithinPolicy'
    <2>1. ordersToday' = 0 /\ call'.stage = "idle"
      BY <1>5 DEF Restart, Idle
    <2>2. ordersToday' * Quantity * Price = 0
      BY <2>1, QuantityAssumption, PolicyAssumption
    <2>3. QED
      BY <2>1, <2>2, PolicyAssumption DEF WithinPolicy
  <1>6. QED
    BY <1>1, <1>2, <1>3, <1>4, <1>5
       DEF Next, vars, counterVars, RequireActivation, Activate,
           ActivateInvalid, Expire, BeginRunning, Disarm, TripKillSwitch,
           Reconcile, ReconcileFails, EmergencyKill, Close, EvaluateCritical,
           SubmitPending, Recorded, SubmitError, StatusRead, StatusError,
           RecoverUncertain, Venue, Idle

LEMMA FiniteRequests == IsFiniteSet(Requests)
  <1>1. IsFiniteSet(Sends)
    BY SendsAssumption, FS_Interval DEF Sends
  <1>2. QED
    BY <1>1, IntentsAssumption, FS_Product DEF Requests

(* The venue holds at most the quantity of its orders.                      *)
LEMMA PositionOfOrders ==
    ASSUME ProcessInv
    PROVE  /\ VenuePosition \in Int
           /\ VenuePosition <= Quantity * Cardinality(OrdersAtVenue)
  <1>1. IsFiniteSet(Requests)
    BY FiniteRequests
  <1>2. /\ filled \in [Requests -> 0 .. Quantity]
        /\ \A r \in Requests \ OrdersAtVenue : filled[r] = 0
    BY DEF ProcessInv, TypeOK, BrokerTypeOK, OnlyOrdersFill, OrdersAtVenue
  <1>3. /\ \A r \in Requests : filled[r] \in Int
        /\ \A r \in OrdersAtVenue : filled[r] <= Quantity
        /\ OrdersAtVenue \in SUBSET Requests /\ Quantity \in Nat
    BY <1>2, QuantityAssumption DEF OrdersAtVenue
  <1>4. QED
    BY <1>1, <1>2, <1>3, SumAtMost, SumIsInt DEF VenuePosition

LEMMA ExposureFromCounter ==
    ASSUME ProcessInv, OrdersAccounted, WithinPolicy
    PROVE  ExposureBounded
  <1> DEFINE orders == Cardinality(OrdersAtVenue)
             waiting == Cardinality(pending) + Cardinality(uncounted)
             p == VenuePosition
  <1>1. waiting \in Nat /\ orders \in Nat
    <2>1. IsFiniteSet(Requests)
      BY FiniteRequests
    <2>2. IsFiniteSet(OrdersAtVenue) /\ IsFiniteSet(pending) /\ IsFiniteSet(uncounted)
      BY <2>1, IntentsAssumption, FS_Subset
         DEF OrdersAtVenue, ProcessInv, TypeOK, BrokerTypeOK
    <2>3. QED
      BY <2>2, FS_CardinalityType
  <1>2. p \in Int /\ p <= Quantity * orders
    BY PositionOfOrders
  <1>3. ordersToday \in Nat /\ orders <= ordersToday + waiting
    <2>1. Cardinality(pending) \in Nat /\ Cardinality(uncounted) \in Nat
      BY IntentsAssumption, FS_Subset, FS_CardinalityType
         DEF ProcessInv, TypeOK, BrokerTypeOK
    <2>2. QED
      BY <2>1 DEF ProcessInv, TypeOK, OrdersAccounted
  <1>4. ordersToday <= MaxOrders /\ ordersToday * Quantity * Price <= MaxTurnover
    BY DEF WithinPolicy
  <1>5. /\ Quantity \in Nat /\ Price \in Nat
        /\ MaxOrders \in Nat /\ MaxTurnover \in Nat
    BY QuantityAssumption, PolicyAssumption
  <1> HIDE DEF orders, waiting, p
  <1>6. orders <= MaxOrders + waiting
    BY <1>1, <1>3, <1>4, <1>5
  <1>7. p * Price <= MaxTurnover + waiting * Quantity * Price
    <2>1. \A a, b \in Int, c \in Nat : a <= b => a * c <= b * c
      OBVIOUS
    <2>2. p * Price <= (Quantity * orders) * Price
      BY <1>1, <1>2, <1>5, <2>1
    <2>3. Quantity * orders <= Quantity * (ordersToday + waiting)
      <3>1. orders * Quantity <= (ordersToday + waiting) * Quantity
        BY <1>1, <1>3, <1>5, <2>1
      <3>2. QED
        BY <1>1, <1>3, <1>5, <3>1
    <2>4. (Quantity * orders) * Price <= (Quantity * (ordersToday + waiting)) * Price
      BY <1>1, <1>3, <1>5, <2>1, <2>3
    <2>5. (Quantity * (ordersToday + waiting)) * Price =
              ordersToday * Quantity * Price + waiting * Quantity * Price
      BY <1>1, <1>3, <1>5
    <2>6. QED
      BY <1>1, <1>2, <1>3, <1>4, <1>5, <2>2, <2>4, <2>5
  <1>8. QED
    BY <1>6, <1>7 DEF ExposureBounded, orders, waiting, p

(* In one process whose error answers are final, what the orders at the     *)
(* venue may fill is what the policy allows for a day, and one order for    *)
(* each submit to be recovered and each order whose registration or journal *)
(* entry could not be written, whenever the venue fills them.               *)
THEOREM CanaryExposureBounded ==
    ASSUME MaxRestarts = 0, ~LateRequests
    PROVE  Spec => []ExposureBounded
  <1>1. TypeOK /\ WithinPolicy /\ [Next]_vars => WithinPolicy'
    BY NextWithinPolicy
  <1>2. ProcessInv => TypeOK
    BY DEF ProcessInv
  <1>3. ProcessInv /\ OrdersAccounted /\ WithinPolicy => ExposureBounded
    BY ExposureFromCounter
  <1>4. QED
    BY <1>1, <1>2, <1>3, InitWithinPolicy, InvariantProcessInv,
       CanaryOrdersAccounted, PTL DEF Spec

-----------------------------------------------------------------------------
(* The submission discipline *)

StatusOf == [i \in Intents |-> [k \in Sends |-> RequestStatus(<<i, k>>)]]

(* If only one request changes its status, so does only one attempt.        *)
LEMMA OneStatusChanges ==
    ASSUME NEW i \in Intents, NEW k \in Sends,
           \A r \in Requests \ {<<i, k>>} : net'[r] = net[r] /\ filled'[r] = filled[r]
    PROVE  StatusOf' = [StatusOf EXCEPT ![i] =
                           [@ EXCEPT ![k] = RequestStatus(<<i, k>>)']]
  <1> DEFINE new == RequestStatus(<<i, k>>)'
             changed == [StatusOf EXCEPT ![i] = [@ EXCEPT ![k] = new]]
  <1>1. \A j \in Intents, l \in Sends :
            <<j, l>> # <<i, k>> =>
                RequestStatus(<<j, l>>)' = RequestStatus(<<j, l>>)
    BY DEF RequestStatus, Requests
  <1>2. ASSUME NEW j \in Intents
        PROVE  StatusOf'[j] = changed[j]
    <2>1. CASE j = i
      BY <1>1, <2>1 DEF StatusOf
    <2>2. CASE j # i
      BY <1>1, <2>2 DEF StatusOf
    <2>3. QED
      BY <2>1, <2>2
  <1>3. QED
    BY <1>2 DEF StatusOf

LEMMA SendOpens ==
    ASSUME ProcessInv, NEW i \in Intents, NEW k \in Sends, SubmitSend(i, k)
    PROVE  Submission!Open(i, k)
  <1> DEFINE r == <<i, k>>
  <1>1. /\ r \in Requests /\ net[r] = "unsent"
        /\ net \in [Requests -> NetStatus]
        /\ net' = [net EXCEPT ![r] = "inflight"] /\ filled' = filled
    BY DEF SubmitSend, Send, NotYetSent, ProcessInv, TypeOK, BrokerTypeOK, Requests
  <1>2. StatusOf[i][k] = "absent"
    BY <1>1 DEF StatusOf, RequestStatus
  <1>3. ASSUME NEW l \in Sends
        PROVE  StatusOf[i][l] # "outstanding"
    <2>1. ~Live(<<i, l>>)
      BY SendIsFirst DEF SubmitSend
    <2>2. <<i, l>> \in Requests /\ net[<<i, l>>] \in {"unsent", "lost"}
      BY <1>1, <2>1 DEF Live, NetStatus, Requests
    <2>3. QED
      BY <2>2 DEF StatusOf, RequestStatus
  <1>4. RequestStatus(r)' \in {"outstanding", "closed"}
    BY <1>1 DEF RequestStatus
  <1>5. StatusOf' = [StatusOf EXCEPT ![i] = [@ EXCEPT ![k] = RequestStatus(r)']]
    BY <1>1, OneStatusChanges
  <1>6. QED
    BY <1>2, <1>3, <1>4, <1>5 DEF Submission!Open, StatusOf

(* The venue closes a request it loses or fills whole, and otherwise leaves *)
(* it outstanding.                                                          *)
LEMMA VenueCloses ==
    ASSUME ProcessInv, NEW i \in Intents, NEW k \in Sends,
           Deliver(<<i, k>>) \/ Lose(<<i, k>>) \/ Fill(<<i, k>>)
    PROVE  Submission!Close(i, k) \/ UNCHANGED StatusOf
  <1> DEFINE r == <<i, k>>
             new == RequestStatus(r)'
  <1>1. /\ r \in Requests /\ net \in [Requests -> NetStatus]
        /\ filled \in [Requests -> 0 .. Quantity]
    BY DEF ProcessInv, TypeOK, BrokerTypeOK, Requests
  <1>2. \A s \in Requests \ {r} : net'[s] = net[s] /\ filled'[s] = filled[s]
    BY <1>1 DEF Deliver, Lose, Fill
  <1>3. RequestStatus(r) = "outstanding"
    <2>1. net[r] \in {"inflight", "order"} /\ filled[r] # Quantity
      <3>1. CASE net[r] = "inflight"
        BY <1>1, <3>1, QuantityAssumption DEF ProcessInv, OnlyOrdersFill
      <3>2. CASE Fill(r)
        <4>1. PICK q \in (filled[r] + 1) .. Quantity : TRUE
          BY <3>2 DEF Fill
        <4>2. QED
          BY <1>1, <3>2, <4>1, QuantityAssumption DEF Fill
      <3>3. QED
        BY <3>1, <3>2 DEF Deliver, Lose
    <2>2. QED
      BY <2>1 DEF RequestStatus
  <1>4. new \in {"outstanding", "closed"}
    BY <1>1 DEF Deliver, Lose, Fill, RequestStatus
  <1>5. StatusOf' = [StatusOf EXCEPT ![i] = [@ EXCEPT ![k] = new]]
    BY <1>2, OneStatusChanges
  <1>6. StatusOf[i][k] = RequestStatus(r)
    BY DEF StatusOf
  <1>7. CASE new = "closed"
    BY <1>3, <1>5, <1>6, <1>7 DEF Submission!Close, StatusOf
  <1>8. CASE new = "outstanding"
    <2>1. [StatusOf[i] EXCEPT ![k] = "outstanding"] = StatusOf[i]
      BY <1>3, <1>6 DEF StatusOf
    <2>2. [StatusOf EXCEPT ![i] = StatusOf[i]] = StatusOf
      BY DEF StatusOf
    <2>3. QED
      BY <1>5, <1>8, <2>1, <2>2
  <1>9. QED
    BY <1>4, <1>7, <1>8

(* In one process whose error answers are final, the canary implements the  *)
(* submission discipline: no request of an intent is sent while another may *)
(* still become an order or be filled.                                      *)
THEOREM CanarySubmissionDiscipline ==
    ASSUME MaxRestarts = 0, ~LateRequests
    PROVE  Spec => SubmissionDiscipline
  <1>1. Init => Submission!Init
    BY DEF Init, BrokerInit, Submission!Init, RequestStatus, Requests
  <1>2. ProcessInv /\ [Next]_vars => [Submission!Next]_StatusOf
    <2> SUFFICES ASSUME ProcessInv, [Next]_vars
                 PROVE  Submission!Next \/ UNCHANGED StatusOf
      OBVIOUS
    <2>1. ASSUME NEW i \in Intents, NEW k \in Sends, SubmitSend(i, k)
          PROVE  Submission!Next
      BY <2>1, SendOpens DEF Submission!Next
    <2>2. ASSUME Venue
          PROVE  Submission!Next \/ UNCHANGED StatusOf
      <3>1. PICK i \in Intents, k \in Sends :
                Deliver(<<i, k>>) \/ Lose(<<i, k>>) \/ Fill(<<i, k>>)
        BY <2>2 DEF Venue, Requests
      <3>2. QED
        BY <3>1, VenueCloses DEF Submission!Next
    <2>3. CASE UNCHANGED <<net, filled>>
      BY <2>3 DEF StatusOf, RequestStatus
    <2>4. ~Restart
      BY DEF Restart, ProcessInv, TypeOK
    <2>5. QED
      BY <2>1, <2>2, <2>3, <2>4
         DEF Next, vars, brokerVars, RequireActivation, Activate,
             ActivateInvalid, Expire, BeginRunning, Disarm, TripKillSwitch,
             Reconcile, ReconcileFails, EmergencyKill, Close,
             EvaluateCritical, SubmitReplay, SubmitPending, SubmitReply,
             SubmitUnsaved, SubmitUnjournalled, Acknowledge,
             AcknowledgeUnsaved, SubmitError, StatusRead, StatusError,
             RecoverUncertain, Recover
  <1>3. QED
    BY <1>1, <1>2, InvariantProcessInv, PTL
       DEF Spec, SubmissionDiscipline, Submission!Spec, StatusOf

-----------------------------------------------------------------------------
(* The intent store, with any number of crashes and late requests *)

SentInOrder ==
    \A i \in Intents, k, l \in Sends :
        k < l /\ net[<<i, k>>] = "unsent" => net[<<i, l>>] = "unsent"

(* The request a submit waits for is the last of its intent, which is not   *)
(* registered.                                                              *)
CallIsLatest ==
    call.stage = "sent" =>
        /\ store[call.intent] = 0
        /\ \A k \in Sends : k > call.send => net[<<call.intent, k>>] = "unsent"

(* The file may lack a registration, but has no other.                      *)
FileFollows == \A i \in Intents : file.known[i] \in {0, store[i]}

StoreInv ==
    TypeOK /\ SentInOrder /\ CallIsLatest /\ FileFollows /\ StoreNamesAnOrder

LEMMA SendStoreInv ==
    ASSUME StoreInv, NEW i \in Intents, NEW k \in Sends, SubmitSend(i, k)
    PROVE  StoreInv'
  <1>1. TypeOK'
    BY SubmitTypeOK DEF StoreInv
  <1>2. /\ \A l \in Sends : l < k => net[<<i, l>>] # "unsent"
        /\ net[<<i, k>>] = "unsent"
        /\ net \in [Requests -> NetStatus]
        /\ net' = [net EXCEPT ![<<i, k>>] = "inflight"]
        /\ store' = store /\ file' = file /\ store[i] = 0
        /\ call' = [stage |-> "sent", intent |-> i, send |-> k]
    BY DEF SubmitSend, MaySend, Registered, Send, NotYetSent, StoreInv, TypeOK,
           BrokerTypeOK
  <1>3. \A j \in Intents, l \in Sends :
            net'[<<j, l>>] = IF j = i /\ l = k THEN "inflight" ELSE net[<<j, l>>]
    BY <1>2 DEF Requests
  <1>4. SentInOrder'
    BY <1>2, <1>3 DEF StoreInv, SentInOrder
  <1>5. CallIsLatest'
    <2>1. ASSUME NEW l \in Sends, l > k
          PROVE  net'[<<i, l>>] = "unsent"
      BY <1>2, <1>3, <2>1 DEF StoreInv, SentInOrder, Sends
    <2>2. QED
      BY <1>2, <2>1 DEF CallIsLatest
  <1>6. StoreNamesAnOrder'
    <2>1. ASSUME NEW j \in Intents, Registered(j)'
          PROVE  j # i /\ Registered(j) /\ store[j] \in Sends
      BY <1>2, <2>1, SendsAssumption
         DEF Registered, StoreInv, TypeOK, BrokerTypeOK, Sends
    <2>2. QED
      BY <1>2, <1>3, <2>1 DEF StoreInv, StoreNamesAnOrder
  <1>7. FileFollows'
    BY <1>2 DEF StoreInv, FileFollows
  <1>8. QED
    BY <1>1, <1>4, <1>5, <1>6, <1>7 DEF StoreInv

LEMMA ReplyStoreInv ==
    ASSUME StoreInv, Recorded
    PROVE  StoreInv'
  <1> DEFINE i == call.intent
             k == call.send
  <1>1. TypeOK'
    BY SubmitTypeOK DEF StoreInv
  <1>2. /\ i \in Intents /\ k \in Sends
        /\ call.stage = "sent" /\ call'.stage # "sent"
        /\ Acknowledge(i, k) \/ AcknowledgeUnsaved(i, k)
    BY DEF Recorded, SubmitReply, SubmitUnsaved, SubmitUnjournalled, StoreInv,
           TypeOK, Calls, Idle
  <1>3. /\ net[<<i, k>>] = "order" /\ net' = net
        /\ store \in [Intents -> 0 .. MaxSends]
        /\ store' = [store EXCEPT ![i] = k]
        /\ store[i] = 0
        /\ \A l \in Sends : l > k => net[<<i, l>>] = "unsent"
    BY <1>2
       DEF Acknowledge, Register, AcknowledgeUnsaved, RegisterUnsaved, StoreInv,
           TypeOK, BrokerTypeOK, CallIsLatest
  <1>4. SentInOrder' /\ CallIsLatest'
    BY <1>2, <1>3 DEF StoreInv, SentInOrder, CallIsLatest
  <1>5. FileFollows'
    <2>1. \A j \in Intents : file.known[j] \in {0, store'[j]}
      BY <1>3 DEF StoreInv, FileFollows
    <2>2. file'.known \in {file.known, store'}
      BY <1>2
         DEF Acknowledge, Register, AcknowledgeUnsaved, RegisterUnsaved, StoreInv,
             TypeOK, BrokerTypeOK
    <2>3. QED
      BY <2>1, <2>2 DEF FileFollows
  <1>6. StoreNamesAnOrder'
    BY <1>2, <1>3 DEF StoreInv, StoreNamesAnOrder, Registered
  <1>7. QED
    BY <1>1, <1>4, <1>5, <1>6 DEF StoreInv

LEMMA VenueStoreInv ==
    ASSUME StoreInv, Venue
    PROVE  StoreInv'
  <1>1. TypeOK'
    BY VenueTypeOK DEF StoreInv
  <1>2. PICK r \in Requests : Deliver(r) \/ Lose(r) \/ Fill(r)
    BY DEF Venue
  <1>3. UNCHANGED <<store, file, call>> /\ net \in [Requests -> NetStatus]
    BY <1>2 DEF Venue, Deliver, Lose, Fill, StoreInv, TypeOK, BrokerTypeOK
  <1>4. \A s \in Requests : /\ net[s] = "unsent" <=> net'[s] = "unsent"
                            /\ net[s] = "order" => net'[s] = "order"
    BY <1>2, <1>3 DEF Deliver, Lose, Fill
  <1>5. \A j \in Intents, l \in Sends : <<j, l>> \in Requests
    BY DEF Requests
  <1>6. SentInOrder'
    BY <1>4, <1>5 DEF StoreInv, SentInOrder
  <1>7. CallIsLatest'
    <2>1. call.stage = "sent" => call.intent \in Intents
      BY DEF StoreInv, TypeOK, Calls, Idle
    <2>2. QED
      BY <1>3, <1>4, <1>5, <2>1 DEF StoreInv, CallIsLatest
  <1>8. StoreNamesAnOrder'
    <2>1. \A j \in Intents : Registered(j) => store[j] \in Sends
      BY SendsAssumption DEF Registered, StoreInv, TypeOK, BrokerTypeOK, Sends
    <2>2. QED
      BY <1>3, <1>4, <1>5, <2>1 DEF StoreInv, StoreNamesAnOrder, Registered
  <1>9. FileFollows'
    BY <1>3 DEF StoreInv, FileFollows
  <1>10. QED
    BY <1>1, <1>6, <1>7, <1>8, <1>9 DEF StoreInv

LEMMA RestartStoreInv ==
    ASSUME StoreInv, Restart
    PROVE  StoreInv'
  <1>1. TypeOK'
    BY RestartTypeOK DEF StoreInv
  <1>2. /\ net' = net /\ call' = Idle
        /\ store' = file.known /\ file' = file
        /\ \A i \in Intents : store'[i] \in {store[i], 0}
    BY DEF Restart, Forget, StoreInv, FileFollows
  <1>3. SentInOrder' /\ CallIsLatest' /\ FileFollows'
    BY <1>2 DEF StoreInv, SentInOrder, CallIsLatest, FileFollows, Idle
  <1>4. StoreNamesAnOrder'
    BY <1>2 DEF StoreInv, StoreNamesAnOrder, Registered
  <1>5. QED
    BY <1>1, <1>3, <1>4 DEF StoreInv

LEMMA NextStoreInv == StoreInv /\ [Next]_vars => StoreInv'
  <1> SUFFICES ASSUME StoreInv, [Next]_vars
               PROVE  StoreInv'
    OBVIOUS
  <1>1. TypeOK'
    BY NextTypeOK DEF StoreInv
  <1>2. ASSUME UNCHANGED <<net, store, file>>, call' = call \/ call'.stage # "sent"
        PROVE  StoreInv'
    BY <1>1, <1>2
       DEF StoreInv, SentInOrder, CallIsLatest, FileFollows, StoreNamesAnOrder,
           Registered
  <1>3. ASSUME NEW i \in Intents, SubmitReplay(i)
        PROVE  call'.stage = "placed" /\ UNCHANGED <<net, store, file>>
    BY <1>3 DEF SubmitReplay, brokerVars
  <1>4. QED
    BY <1>2, <1>3, SendStoreInv, ReplyStoreInv, VenueStoreInv, RestartStoreInv
       DEF Next, vars, brokerVars, RequireActivation, Activate,
           ActivateInvalid, Expire, BeginRunning, Disarm, TripKillSwitch,
           Reconcile, ReconcileFails, EmergencyKill, Close, EvaluateCritical,
           SubmitPending, Recorded, SubmitError, StatusRead, StatusError,
           RecoverUncertain, Recover, Idle

(* A registered order id is that of an acknowledged order, the last request *)
(* of its intent, over any crashes and late requests.                       *)
THEOREM CanaryStoreNamesAnOrder == Spec => []StoreNamesAnOrder
  <1>1. Init => StoreInv
    BY InitTypeOK
       DEF Init, BrokerInit, StoreInv, SentInOrder, CallIsLatest, FileFollows,
           StoreNamesAnOrder, Registered, Requests, Idle
  <1>2. StoreInv => StoreNamesAnOrder
    BY DEF StoreInv
  <1>3. QED
    BY <1>1, <1>2, NextStoreInv, PTL DEF Spec

-----------------------------------------------------------------------------
(* What crashes may cost *)

LiveOf(i) == {k \in Sends : Live(<<i, k>>)}

(* A process that knows an intent as pending sent the request k of it, and  *)
(* knows whether k is decided: the others are of earlier processes.         *)
SentByThisProcess(i, k) ==
    /\ Cardinality(LiveOf(i) \ {k}) <= restarts
    /\ net[<<i, k>>] = "inflight" =>
           call = [stage |-> "sent", intent |-> i, send |-> k]

(* A process adds a live request to an intent only while it knows none, and *)
(* forgets one only by dying or when its request is decided.                *)
DuplicatesInv ==
    /\ TypeOK
    /\ \A i \in Intents : Cardinality(LiveOf(i)) <= restarts + 1
    /\ \A i \in Intents : MaySend(i) => Cardinality(LiveOf(i)) <= restarts
    /\ \A i \in pending : ~Registered(i) => \E k \in Sends : SentByThisProcess(i, k)

LEMMA LiveOfFinite ==
    \A S \in SUBSET Sends :
        IsFiniteSet(S) /\ Cardinality(S) \in Nat /\
        \A T \in SUBSET S : Cardinality(T) <= Cardinality(S)
  <1>1. IsFiniteSet(Sends)
    BY SendsAssumption, FS_Interval DEF Sends
  <1>2. QED
    BY <1>1, FS_Subset, FS_CardinalityType

LEMMA SendDuplicates ==
    ASSUME DuplicatesInv, NEW i \in Intents, NEW k \in Sends, SubmitSend(i, k)
    PROVE  DuplicatesInv'
  <1>1. TypeOK'
    BY SubmitTypeOK DEF DuplicatesInv
  <1>2. /\ MaySend(i) /\ call = Idle
        /\ call' = [stage |-> "sent", intent |-> i, send |-> k]
        /\ pending' = pending \cup {i} /\ store' = store /\ restarts' = restarts
        /\ restarts \in Nat
        /\ \A j \in Intents, l \in Sends :
               net'[<<j, l>>] = IF <<j, l>> = <<i, k>> THEN "inflight"
                                ELSE net[<<j, l>>]
    BY RestartsAssumption
       DEF SubmitSend, MaySubmit, Send, DuplicatesInv, TypeOK, BrokerTypeOK,
           Requests
  <1>3. \A j \in Intents \ {i} : LiveOf(j)' = LiveOf(j)
    BY <1>2 DEF LiveOf, Live
  <1>4. LiveOf(i)' \ {k} \subseteq LiveOf(i) /\ LiveOf(i)' \subseteq LiveOf(i) \cup {k}
    BY <1>2 DEF LiveOf, Live
  <1>5. Cardinality(LiveOf(i)) <= restarts
    BY <1>2 DEF DuplicatesInv
  <1>6. /\ Cardinality(LiveOf(i)' \ {k}) <= restarts
        /\ Cardinality(LiveOf(i)') <= restarts + 1
    <2>1. /\ LiveOf(i) \in SUBSET Sends /\ LiveOf(i) \cup {k} \in SUBSET Sends
          /\ IsFiniteSet(LiveOf(i)) /\ Cardinality(LiveOf(i)) \in Nat
      BY LiveOfFinite DEF LiveOf
    <2>2. Cardinality(LiveOf(i) \cup {k}) <= restarts + 1
      <3>1. Cardinality(LiveOf(i) \cup {k}) \in
                {Cardinality(LiveOf(i)), Cardinality(LiveOf(i)) + 1}
        BY <2>1, FS_AddElement, Zenon
      <3> HIDE DEF LiveOf
      <3>2. QED
        BY <1>2, <1>5, <2>1, <3>1
    <2> DEFINE A == LiveOf(i)
               N == LiveOf(i)'
    <2> HIDE DEF A, N
    <2>3. /\ Cardinality(N \ {k}) <= Cardinality(A)
          /\ Cardinality(N) <= Cardinality(A \cup {k})
          /\ {Cardinality(N \ {k}), Cardinality(N), Cardinality(A \cup {k})}
                 \subseteq Nat
      BY <1>4, <2>1, LiveOfFinite DEF A, N
    <2>4. QED
      BY <1>2, <1>5, <2>1, <2>2, <2>3 DEF A, N
  <1>7. \A j \in Intents : Cardinality(LiveOf(j)') <= restarts + 1
    BY <1>3, <1>6 DEF DuplicatesInv
  <1>8. \A j \in Intents : MaySend(j)' => Cardinality(LiveOf(j)') <= restarts
    BY <1>2, <1>3 DEF DuplicatesInv, MaySend, Registered
  <1>9. ASSUME NEW j \in pending', ~Registered(j)'
        PROVE  \E l \in Sends : SentByThisProcess(j, l)'
    <2>1. CASE j = i
      BY <1>2, <1>6, <2>1 DEF SentByThisProcess
    <2>2. CASE j # i
      <3>1. j \in pending /\ ~Registered(j) /\ j \in Intents
        BY <1>2, <1>9, <2>2 DEF Registered, DuplicatesInv, TypeOK, BrokerTypeOK
      <3>2. PICK l \in Sends : SentByThisProcess(j, l)
        BY <3>1 DEF DuplicatesInv
      <3>3. net[<<j, l>>] # "inflight"
        BY <1>2, <3>2 DEF SentByThisProcess, Idle
      <3>4. QED
        BY <1>2, <1>3, <2>2, <3>1, <3>2, <3>3 DEF SentByThisProcess
    <2>3. QED
      BY <2>1, <2>2
  <1>10. QED
    BY <1>1, <1>2, <1>7, <1>8, <1>9 DEF DuplicatesInv

LEMMA ReplyDuplicates ==
    ASSUME DuplicatesInv, Recorded
    PROVE  DuplicatesInv'
  <1> DEFINE i == call.intent
  <1>1. TypeOK'
    BY SubmitTypeOK DEF DuplicatesInv
  <1>2. /\ i \in Intents /\ call.send \in Sends /\ call.send # 0
        /\ pending' = pending \ {i}
        /\ store' = [store EXCEPT ![i] = call.send]
        /\ store \in [Intents -> 0 .. MaxSends] /\ pending \subseteq Intents
        /\ UNCHANGED <<net, restarts>>
    BY SendsAssumption
       DEF Recorded, SubmitReply, SubmitUnsaved, SubmitUnjournalled,
           Acknowledge, Register, AcknowledgeUnsaved, RegisterUnsaved,
           DuplicatesInv, TypeOK, BrokerTypeOK, Calls, Idle, Sends
  <1>3. net[<<i, call.send>>] = "order"
    BY DEF Recorded, SubmitReply, SubmitUnsaved, SubmitUnjournalled,
           Acknowledge, AcknowledgeUnsaved
  <1>4. \A j \in Intents : LiveOf(j)' = LiveOf(j)
    BY <1>2 DEF LiveOf, Live
  <1>5. \A j \in Intents : MaySend(j)' => MaySend(j)
    BY <1>2 DEF MaySend, Registered
  <1>6. ASSUME NEW j \in pending', ~Registered(j)'
        PROVE  \E l \in Sends : SentByThisProcess(j, l)'
    <2>1. j \in pending /\ j # i /\ j \in Intents /\ ~Registered(j)
      BY <1>2, <1>6 DEF Registered
    <2>2. PICK l \in Sends : SentByThisProcess(j, l)
      BY <2>1 DEF DuplicatesInv
    <2>3. net[<<j, l>>] # "inflight"
      BY <2>1, <2>2 DEF SentByThisProcess
    <2>4. QED
      BY <1>2, <1>4, <2>1, <2>2, <2>3 DEF SentByThisProcess
  <1>7. QED
    BY <1>1, <1>2, <1>4, <1>5, <1>6 DEF DuplicatesInv

(* A recovery that finds no order of an intent ends the request it is about,*)
(* which is decided: what is live is of earlier processes.                  *)
LEMMA RecoverDuplicates ==
    ASSUME DuplicatesInv, NEW i \in Intents, RecoverUncertain(i)
    PROVE  DuplicatesInv'
  <1>1. TypeOK'
    BY NextTypeOK DEF DuplicatesInv, Next
  <1>2. /\ UNCHANGED <<net, store, call, restarts>>
        /\ pending' = pending \ {i} /\ call = Idle
        /\ ~Registered(i) /\ ~FoundOnBroker(i)
        /\ pending \subseteq Intents
    BY DEF RecoverUncertain, Recover, DuplicatesInv, TypeOK, BrokerTypeOK
  <1>3. \A j \in Intents : LiveOf(j)' = LiveOf(j)
    BY <1>2 DEF LiveOf, Live
  <1>4. Cardinality(LiveOf(i)) <= restarts
    <2>1. CASE i \in pending
      <3>1. PICK k \in Sends : SentByThisProcess(i, k)
        BY <1>2, <2>1 DEF DuplicatesInv
      <3>2. net[<<i, k>>] # "inflight"
        BY <1>2, <3>1 DEF SentByThisProcess, Idle
      <3>3. net[<<i, k>>] # "order"
        BY <1>2, TagAssumption DEF FoundOnBroker, OrdersAtVenue, Requests
      <3>4. LiveOf(i) \ {k} = LiveOf(i)
        BY <3>2, <3>3 DEF LiveOf, Live
      <3>5. QED
        BY <3>1, <3>4 DEF SentByThisProcess
    <2>2. CASE i \notin pending
      BY <1>2, <2>2 DEF DuplicatesInv, MaySend
    <2>3. QED
      BY <2>1, <2>2
  <1>5. \A j \in Intents : MaySend(j)' => Cardinality(LiveOf(j)) <= restarts
    BY <1>2, <1>4 DEF DuplicatesInv, MaySend, Registered
  <1>6. ASSUME NEW j \in pending', ~Registered(j)'
        PROVE  \E l \in Sends : SentByThisProcess(j, l)'
    <2>1. j \in pending /\ j \in Intents /\ ~Registered(j)
      BY <1>2, <1>6 DEF Registered
    <2>2. PICK l \in Sends : SentByThisProcess(j, l)
      BY <2>1 DEF DuplicatesInv
    <2>3. QED
      BY <1>2, <1>3, <2>1, <2>2 DEF SentByThisProcess
  <1>7. QED
    BY <1>1, <1>2, <1>3, <1>5, <1>6 DEF DuplicatesInv

LEMMA VenueDuplicates ==
    ASSUME DuplicatesInv, Venue
    PROVE  DuplicatesInv'
  <1>1. TypeOK'
    BY VenueTypeOK DEF DuplicatesInv
  <1>2. PICK r \in Requests : Deliver(r) \/ Lose(r) \/ Fill(r)
    BY DEF Venue
  <1>3. /\ UNCHANGED <<store, pending, call, restarts>>
        /\ net \in [Requests -> NetStatus]
        /\ pending \subseteq Intents /\ restarts \in Nat
    BY <1>2, RestartsAssumption
       DEF Venue, Deliver, Lose, Fill, DuplicatesInv, TypeOK, BrokerTypeOK
  <1>4. \A j \in Intents, l \in Sends :
            /\ net'[<<j, l>>] = "inflight" => net[<<j, l>>] = "inflight"
            /\ Live(<<j, l>>)' => Live(<<j, l>>)
    BY <1>2, <1>3 DEF Deliver, Lose, Fill, Live, Requests
  <1>5. \A j \in Intents :
            /\ LiveOf(j) \in SUBSET Sends
            /\ LiveOf(j)' \subseteq LiveOf(j)
            /\ \A l \in Sends : LiveOf(j)' \ {l} \subseteq LiveOf(j) \ {l}
    BY <1>4 DEF LiveOf
  <1>6. ASSUME NEW A \in SUBSET Sends, NEW B \in SUBSET A, NEW n \in Nat,
               Cardinality(A) <= n
        PROVE  Cardinality(B) <= n
    <2>1. /\ Cardinality(A) \in Nat /\ Cardinality(B) \in Nat
          /\ Cardinality(B) <= Cardinality(A)
      BY LiveOfFinite
    <2>2. QED
      BY <1>6, <2>1
  <1>7. \A j \in Intents : Cardinality(LiveOf(j)') <= restarts + 1
    <2>1. restarts + 1 \in Nat
      BY <1>3
    <2>2. QED
      BY <1>5, <1>6, <2>1 DEF DuplicatesInv
  <1>8. \A j \in Intents : MaySend(j)' => Cardinality(LiveOf(j)') <= restarts
    BY <1>3, <1>5, <1>6 DEF DuplicatesInv, MaySend, Registered
  <1>9. ASSUME NEW j \in pending', ~Registered(j)'
        PROVE  \E l \in Sends : SentByThisProcess(j, l)'
    <2>1. j \in pending /\ j \in Intents /\ ~Registered(j)
      BY <1>3, <1>9 DEF Registered
    <2>2. PICK l \in Sends : SentByThisProcess(j, l)
      BY <2>1 DEF DuplicatesInv
    <2>3. Cardinality(LiveOf(j)' \ {l}) <= restarts
      <3>1. /\ LiveOf(j) \ {l} \in SUBSET Sends
            /\ LiveOf(j)' \ {l} \in SUBSET (LiveOf(j) \ {l})
            /\ Cardinality(LiveOf(j) \ {l}) <= restarts
        BY <1>5, <2>1, <2>2 DEF SentByThisProcess
      <3>2. QED
        BY <1>3, <1>6, <3>1
    <2>4. QED
      BY <1>3, <1>4, <2>1, <2>2, <2>3 DEF SentByThisProcess
  <1>10. QED
    BY <1>1, <1>3, <1>7, <1>8, <1>9 DEF DuplicatesInv

LEMMA RestartDuplicates ==
    ASSUME DuplicatesInv, Restart
    PROVE  DuplicatesInv'
  <1>1. TypeOK'
    BY NextTypeOK DEF DuplicatesInv, Next
  <1>2. /\ net' = net /\ pending' = {} /\ restarts' = restarts + 1
        /\ restarts \in Nat
    BY RestartsAssumption DEF Restart, Forget, DuplicatesInv, TypeOK
  <1>3. \A j \in Intents :
            LiveOf(j)' = LiveOf(j) /\ Cardinality(LiveOf(j)) \in Nat
    BY <1>2, LiveOfFinite DEF LiveOf, Live
  <1>4. QED
    BY <1>1, <1>2, <1>3 DEF DuplicatesInv

LEMMA NextDuplicates ==
    ASSUME ~LateRequests, DuplicatesInv, [Next]_vars
    PROVE  DuplicatesInv'
  <1>1. TypeOK'
    BY NextTypeOK DEF DuplicatesInv
  <1>2. ASSUME UNCHANGED <<brokerVars, restarts>>,
               \/ call' = call
               \/ call.stage # "sent"
               \/ net[<<call.intent, call.send>>] # "inflight"
        PROVE  DuplicatesInv'
    <2>1. UNCHANGED <<store, pending, net, restarts>>
      BY <1>2 DEF brokerVars
    <2>2. \A j \in Intents : LiveOf(j)' = LiveOf(j)
      BY <2>1 DEF LiveOf, Live
    <2>3. ASSUME NEW j \in Intents, NEW l \in Sends, SentByThisProcess(j, l)
          PROVE  SentByThisProcess(j, l)'
      BY <1>2, <2>1, <2>2, <2>3 DEF SentByThisProcess
    <2>4. pending \subseteq Intents
      BY DEF DuplicatesInv, TypeOK, BrokerTypeOK
    <2>5. \A j \in Intents : Registered(j)' = Registered(j) /\ MaySend(j)' = MaySend(j)
      BY <2>1 DEF Registered, MaySend
    <2>6. QED
      BY <1>1, <2>1, <2>2, <2>3, <2>4, <2>5 DEF DuplicatesInv
  <1>3. SubmitError => DuplicatesInv'
    BY <1>2 DEF SubmitError, MayFail
  <1>4. QED
    BY <1>2, <1>3, SendDuplicates, ReplyDuplicates, RecoverDuplicates,
       VenueDuplicates, RestartDuplicates
       DEF Next, vars, RequireActivation, Activate, ActivateInvalid, Expire,
           BeginRunning, Disarm, TripKillSwitch, Reconcile, ReconcileFails,
           EmergencyKill, Close, EvaluateCritical, SubmitReplay, MaySubmit,
           SubmitPending, Recorded, StatusRead, StatusError, Idle

(* If error answers are final, an intent has at the venue at most one order *)
(* for each process there was: a crash may cost one duplicate of an intent, *)
(* and nothing else does.                                                   *)
THEOREM CanaryDuplicatesBounded ==
    ASSUME ~LateRequests
    PROVE  Spec => []DuplicatesBounded
  <1>1. Init => DuplicatesInv
    <2> SUFFICES ASSUME Init
                 PROVE  DuplicatesInv
      OBVIOUS
    <2>1. \A i \in Intents : LiveOf(i) = {}
      BY DEF Init, BrokerInit, LiveOf, Live, Requests
    <2>2. Cardinality({}) = 0
      BY FS_EmptySet
    <2>3. restarts = 0 /\ pending = {}
      BY DEF Init, BrokerInit
    <2>4. \A i \in Intents :
              Cardinality(LiveOf(i)) <= restarts + 1 /\ Cardinality(LiveOf(i)) <= restarts
      <3> SUFFICES ASSUME NEW i \in Intents
                   PROVE  Cardinality(LiveOf(i)) <= restarts + 1 /\
                          Cardinality(LiveOf(i)) <= restarts
        OBVIOUS
      <3>1. Cardinality(LiveOf(i)) = 0
        BY <2>1, <2>2, Zenon
      <3>2. QED
        BY <2>3, <3>1
    <2>5. QED
      BY <2>3, <2>4, InitTypeOK DEF DuplicatesInv
  <1>2. DuplicatesInv /\ [Next]_vars => DuplicatesInv'
    BY NextDuplicates
  <1>3. DuplicatesInv => DuplicatesBounded
    <2> SUFFICES ASSUME DuplicatesInv, NEW i \in Intents
                 PROVE  Cardinality(OrdersOf(i)) <= restarts + 1
      BY DEF DuplicatesBounded
    <2>1. OrdersOf(i) \in SUBSET LiveOf(i) /\ LiveOf(i) \in SUBSET Sends
      BY DEF OrdersOf, LiveOf, Live
    <2>2. /\ Cardinality(OrdersOf(i)) <= Cardinality(LiveOf(i))
          /\ Cardinality(OrdersOf(i)) \in Nat /\ Cardinality(LiveOf(i)) \in Nat
      BY <2>1, LiveOfFinite
    <2>3. QED
      BY <2>2, RestartsAssumption DEF DuplicatesInv, TypeOK
  <1>4. QED
    BY <1>1, <1>2, <1>3, PTL DEF Spec
=============================================================================
