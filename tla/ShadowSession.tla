---------------------------- MODULE ShadowSession ----------------------------
(***************************************************************************)
(* phase15: the session that watches the market and only records what it   *)
(* would have ordered (shadow_session.py over phase14/shadow.py and        *)
(* phase14/realtime.py), its state machine, its health flags, the          *)
(* reconciliation with a read-only broker account, the journal it appends  *)
(* to, and the checkpoint from which a later process recovers it.          *)
(*                                                                         *)
(* Every public operation runs to its end before the next.  One symbol is  *)
(* watched; of a bar only its sequence number and what the validator       *)
(* blames it for matter.  Orders are for one share.                        *)
(***************************************************************************)
EXTENDS Integers, FiniteSets

CONSTANTS
    MaxSeq,         \* sequence numbers of the bars
    MaxRestarts,    \* processes after the first
    Configs,        \* strategy and configuration a session freezes
    Held            \* positions the broker account may show

ASSUME BoundAssumption ==
    /\ MaxSeq \in Nat
    /\ MaxRestarts \in Nat
    /\ Configs # {}
    /\ Held \subseteq Int

Seqs == 1 .. MaxSeq

States == {"CREATED", "CONNECTED", "WARMING_UP", "RUNNING_SHADOW", "PAUSED",
           "SESSION_INVALIDATED", "COMPLETED", "FAILED_SAFE", "DOWN"}

VARIABLES
    machine,        \* state of the session; "DOWN" without a process
    provider,       \* of market data: off, on, or cut until it is restored
    paused,         \* paused
    kill,           \* the kill switch is triggered
    reconciles,     \* enable_broker_reconcile
    reco,           \* status of the last reconciliation
    frozen,         \* the configuration frozen at the start of the session
    current,        \* the one it is compared with at every bar
    lastSeq,        \* of the last bar the validator let pass
    would,          \* the WOULD_ORDERs of the session, by their bar
    pending,        \* bars at whose open an order is still to be filled
    filled,         \* bars at whose open an order was filled
    position,       \* the shadow position
    journal,        \* the journal file
    checkpoint,     \* the checkpoint file
    verdict,        \* what recovery said before this session began
    restarts

orderVars == <<lastSeq, would, pending, filled, position>>
controlVars == <<machine, paused, kill, reco>>
configVars == <<reconciles, frozen, current>>
fileVars == <<journal, checkpoint>>
vars == <<controlVars, provider, configVars, orderVars, fileVars,
          verdict, restarts>>

Decisions == [exec : 2 .. MaxSeq + 1, config : Configs]

TypeOK ==
    /\ machine \in States
    /\ provider \in {"off", "on", "cut"}
    /\ paused \in BOOLEAN
    /\ kill \in BOOLEAN
    /\ reconciles \in BOOLEAN
    /\ reco \in {"SKIPPED", "CLEAN", "MISMATCH"}
    /\ frozen \in Configs /\ current \in Configs
    /\ lastSeq \in 0 .. MaxSeq
    /\ would \in SUBSET [exec : 2 .. MaxSeq + 1, side : {"BUY", "SELL"}]
    /\ pending \in SUBSET (2 .. MaxSeq + 1)
    /\ filled \in SUBSET Seqs
    /\ position \in Int
    /\ journal \in [bars : SUBSET Seqs, decisions : SUBSET Decisions,
                    repeats : BOOLEAN, torn : BOOLEAN]
    /\ checkpoint \in [file : {"missing", "torn", "whole"}, config : Configs,
                       decisions : SUBSET Decisions, killed : BOOLEAN]
    /\ verdict \in [trusted : BOOLEAN, allows : BOOLEAN,
                    decisions : SUBSET Decisions]
    /\ restarts \in 0 .. MaxRestarts

NothingRecovered == [trusted |-> FALSE, allows |-> FALSE, decisions |-> {}]

FreshOrders ==
    /\ lastSeq = 0
    /\ would = {}
    /\ pending = {}
    /\ filled = {}
    /\ position = 0

Init ==
    /\ machine = "CREATED"
    /\ provider = "off"
    /\ paused = FALSE
    /\ kill = FALSE
    /\ reconciles \in BOOLEAN
    /\ reco = "SKIPPED"
    /\ frozen \in Configs
    /\ current = frozen
    /\ FreshOrders
    /\ journal = [bars |-> {}, decisions |-> {}, repeats |-> FALSE,
                  torn |-> FALSE]
    /\ checkpoint = [file |-> "missing", config |-> frozen, decisions |-> {},
                     killed |-> FALSE]
    /\ verdict = NothingRecovered
    /\ restarts = 0

(***************************************************************************)
(* Session machine and health.                                             *)
(***************************************************************************)

Ended == {"COMPLETED", "FAILED_SAFE"}

(* pause() moves the machine only where a decision could follow.            *)
Paused(m) == IF m \in {"RUNNING_SHADOW", "WARMING_UP"} THEN "PAUSED" ELSE m

(* _reconcile, from the machine state m: an account that cannot be read     *)
(* pauses the session and counts as an empty one.                           *)
StatusOf(fails, held) ==
    IF ~ reconciles THEN "SKIPPED"
    ELSE IF (IF fails THEN 0 ELSE held) = position THEN "CLEAN"
    ELSE "MISMATCH"

ReconcileFrom(m, fails, held) ==
    LET pauses == reconciles /\ (fails \/ StatusOf(fails, held) = "MISMATCH")
    IN  /\ reco' = StatusOf(fails, held)
        /\ paused' = (paused \/ pauses)
        /\ machine' = IF pauses THEN Paused(m) ELSE m

(***************************************************************************)
(* Operations of the operator.                                             *)
(***************************************************************************)

(* connect(): a provider that cannot be reached leaves the session          *)
(* CONNECTED, for another try.  Called later it connects the provider and   *)
(* only then raises.                                                        *)
Preflighted(m) == IF m = "CREATED" THEN "CONNECTED" ELSE m

ConnectFails ==
    /\ machine \notin {"FAILED_SAFE", "DOWN"}
    /\ provider = "cut"
    /\ machine' = Preflighted(machine)
    /\ UNCHANGED <<paused, kill, reco, provider, configVars, orderVars,
                   fileVars, verdict, restarts>>

Connect ==
    /\ machine \notin {"FAILED_SAFE", "DOWN"}
    /\ provider # "cut"
    /\ provider' = "on"
    /\ machine' = IF Preflighted(machine) = "CONNECTED" THEN "WARMING_UP"
                  ELSE machine
    /\ UNCHANGED <<paused, kill, reco, configVars, orderVars, fileVars, verdict,
                   restarts>>

BeginShadow(fails, held) ==
    /\ machine # "DOWN"
    /\ ReconcileFrom(IF machine = "WARMING_UP" THEN "RUNNING_SHADOW"
                     ELSE machine, fails, held)
    /\ UNCHANGED <<kill, provider, configVars, orderVars, fileVars,
                   verdict, restarts>>

Pause ==
    /\ machine # "DOWN"
    /\ machine' = Paused(machine)
    /\ paused' = TRUE
    /\ UNCHANGED <<kill, reco, provider, configVars, orderVars, fileVars,
                   verdict, restarts>>

(* Variant: the reconciliation is not asked.                                *)
ResumeAnyway ==
    /\ machine = "PAUSED"
    /\ machine' = "RUNNING_SHADOW"
    /\ paused' = FALSE
    /\ UNCHANGED <<kill, reco, provider, configVars, orderVars, fileVars,
                   verdict, restarts>>

(* Variant: a session that was invalidated is resumed like a paused one.    *)
ResumeInvalidated ==
    /\ machine \in {"PAUSED", "SESSION_INVALIDATED"}
    /\ reco # "MISMATCH"
    /\ machine' = "RUNNING_SHADOW"
    /\ paused' = FALSE
    /\ UNCHANGED <<kill, reco, provider, configVars, orderVars, fileVars,
                   verdict, restarts>>

Resume ==
    /\ machine = "PAUSED"
    /\ reco # "MISMATCH"
    /\ machine' = "RUNNING_SHADOW"
    /\ paused' = FALSE
    /\ UNCHANGED <<kill, reco, provider, configVars, orderVars, fileVars,
                   verdict, restarts>>

ActivateKillSwitch ==
    /\ machine # "DOWN"
    /\ kill' = TRUE
    /\ machine' = Paused(machine)
    /\ paused' = TRUE
    /\ UNCHANGED <<reco, provider, configVars, orderVars, fileVars, verdict,
                   restarts>>

MayBeInvalidated == {"WARMING_UP", "RUNNING_SHADOW", "PAUSED"}

(* invalidate_if_config_changed: elsewhere the machine refuses and the call *)
(* raises, with the new configuration already noted.                        *)
ChangeConfig(config) ==
    /\ machine # "DOWN"
    /\ current' = config
    /\ IF config # frozen /\ machine \in MayBeInvalidated
       THEN /\ machine' = "SESSION_INVALIDATED"
            /\ paused' = TRUE
       ELSE UNCHANGED <<machine, paused>>
    /\ UNCHANGED <<kill, reco, provider, reconciles, frozen, orderVars,
                   fileVars, verdict, restarts>>

(* stop(): STOPPING is passed through within the call.                      *)
Stop ==
    /\ machine # "DOWN"
    /\ machine' = IF machine \in {"RUNNING_SHADOW", "PAUSED",
                                  "SESSION_INVALIDATED", "COMPLETED"}
                  THEN "COMPLETED"
                  ELSE "FAILED_SAFE"
    /\ provider' = IF provider = "cut" THEN "cut" ELSE "off"
    /\ UNCHANGED <<paused, kill, reco, configVars, orderVars, fileVars, verdict,
                   restarts>>

(***************************************************************************)
(* The provider.                                                           *)
(***************************************************************************)

Cut ==
    /\ provider = "on"
    /\ provider' = "cut"
    /\ UNCHANGED <<controlVars, configVars, orderVars, fileVars, verdict,
                   restarts>>

Reconnect ==
    /\ provider = "cut"
    /\ provider' = "on"
    /\ UNCHANGED <<controlVars, configVars, orderVars, fileVars, verdict,
                   restarts>>

(* drain() with no bar to take from a provider that is gone.                *)
DrainDisconnected ==
    /\ machine # "DOWN"
    /\ provider # "on"
    /\ machine' = Paused(machine)
    /\ paused' = TRUE
    /\ UNCHANGED <<kill, reco, provider, configVars, orderVars, fileVars,
                   verdict, restarts>>

(***************************************************************************)
(* process_bar.  The provider may have gone since the bar was taken from   *)
(* it.  A changed configuration that cannot invalidate the session any     *)
(* more raises; a session that does not watch turns the bar away; neither  *)
(* changes anything.  should_pause_shadow is asked, but whatever it says,  *)
(* it is the state of the machine that decides: of the health flags only   *)
(* paused is kept here.                                                    *)
(***************************************************************************)

BarInvalidates ==
    /\ current # frozen
    /\ machine \in MayBeInvalidated
    /\ machine' = "SESSION_INVALIDATED"
    /\ paused' = TRUE
    /\ UNCHANGED <<kill, reco, provider, configVars, orderVars, fileVars,
                   verdict, restarts>>

Watching ==
    /\ current = frozen
    /\ ~ kill
    /\ machine \in {"RUNNING_SHADOW", "WARMING_UP"}

(* What the validator asks of a well-formed, fresh bar of an open market.   *)
Passes(seq) == seq > lastSeq

(* A bar that is blocked changes nothing, but one from the future pauses -  *)
(* unless the validator blames it for being out of order first.             *)
BarOfFuture(seq) ==
    /\ Watching
    /\ Passes(seq)
    /\ machine' = Paused(machine)
    /\ paused' = TRUE
    /\ UNCHANGED <<kill, reco, provider, configVars, orderVars, fileVars,
                   verdict, restarts>>

(* The first good bar of a session that warms up begins the shadow.         *)
WarmUp(fails, held) ==
    IF machine = "WARMING_UP"
    THEN ReconcileFrom("RUNNING_SHADOW", fails, held)
    ELSE UNCHANGED <<machine, paused, reco>>

BarMismatched(seq, fails, held) ==
    /\ Watching
    /\ Passes(seq)
    /\ lastSeq' = seq
    /\ WarmUp(fails, held)
    /\ reco' = "MISMATCH"
    /\ UNCHANGED <<kill, provider, configVars, would, pending, filled, position,
                   fileVars, verdict, restarts>>

Accepted(order) == order \in {"BUY", "SELL"}

(* Variant: the order is for the bar that was decided on.                   *)
SameBar(seq) == seq

ExecSeq(seq) == seq + 1

(* An entry gets its identifier from its place in its process, its type and *)
(* its time.  The entries of a bar are stamped with the time of the bar: a  *)
(* process that sees a bar of an earlier one at the same place repeats      *)
(* identifiers of the earlier one.                                          *)
JournalBar(seq, order) ==
    \E same \in BOOLEAN :
        journal' = [bars |-> journal.bars \union {seq},
                    decisions |-> journal.decisions \union
                        (IF Accepted(order)
                         THEN {[exec |-> ExecSeq(seq), config |-> frozen]}
                         ELSE {}),
                    repeats |-> journal.repeats \/
                                (same /\ seq \in journal.bars),
                    torn |-> journal.torn]

(* Variant: an order that was filled stays pending.                         *)
FillKeepsPending(seq, order) ==
    /\ pending' = pending \union
                      (IF Accepted(order) THEN {ExecSeq(seq)} ELSE {})
    /\ filled' = filled \union (pending \cap {seq})

(* An order fills at the bar with the next sequence number, or never.       *)
FillPending(seq, order) ==
    /\ pending' = (pending \ {seq}) \union
                      (IF Accepted(order) THEN {ExecSeq(seq)} ELSE {})
    /\ filled' = filled \union (pending \cap {seq})

(* The engine: the strategy holds, or risk rejects or accepts its order.    *)
(* Whether the machine is still running after WarmUp is not asked.          *)
BarDecided(seq, order, fails, held) ==
    /\ Watching
    /\ Passes(seq)
    /\ lastSeq' = seq
    /\ WarmUp(fails, held)
    /\ reco' # "MISMATCH"
    /\ FillPending(seq, order)
    /\ would' = would \union
                    (IF Accepted(order)
                     THEN {[exec |-> ExecSeq(seq), side |-> order]} ELSE {})
    /\ position' = position + (CASE order = "BUY" -> 1
                                 [] order = "SELL" -> -1
                                 [] OTHER -> 0)
    /\ JournalBar(seq, order)
    /\ UNCHANGED <<kill, provider, configVars, checkpoint, verdict, restarts>>

(***************************************************************************)
(* Checkpoint, the end of a process, and recovery.                         *)
(***************************************************************************)

DecisionsOf(orders) == [exec : {o.exec : o \in orders}, config : {frozen}]

WriteCheckpoint ==
    /\ machine # "DOWN"
    /\ checkpoint' = [file |-> "whole", config |-> frozen,
                      decisions |-> DecisionsOf(would), killed |-> kill]
    /\ UNCHANGED <<controlVars, provider, configVars, orderVars, journal,
                   verdict, restarts>>

(* The process ends, perhaps in the middle of an entry or of a checkpoint.  *)
End ==
    /\ machine # "DOWN"
    /\ machine' = "DOWN"
    /\ \/ UNCHANGED fileVars
       \/ /\ journal' = [journal EXCEPT !.torn = TRUE]
          /\ UNCHANGED checkpoint
       \/ /\ checkpoint' = [checkpoint EXCEPT !.file = "torn"]
          /\ UNCHANGED journal
    /\ UNCHANGED <<paused, kill, reco, provider, configVars, orderVars,
                   verdict, restarts>>

(* Variant: the freeze token is not compared.                               *)
TrustsAnyConfig(config) ==
    ~ journal.torn /\ ~ journal.repeats /\ checkpoint.file = "whole"

Trusts(config) ==
    /\ ~ journal.torn
    /\ ~ journal.repeats
    /\ checkpoint.file = "whole"
    /\ checkpoint.config = config

Recovered(config) ==
    [trusted |-> Trusts(config),
     allows |-> Trusts(config) /\ ~ checkpoint.killed,
     decisions |-> IF Trusts(config) THEN checkpoint.decisions ELSE {}]

(* recover_phase15, then a session of the new process.  The constructor     *)
(* takes nothing of what was recovered, and is not refused.                 *)
Restart(config) ==
    /\ machine = "DOWN"
    /\ restarts < MaxRestarts
    /\ restarts' = restarts + 1
    /\ verdict' = Recovered(config)
    /\ machine' = "CREATED"
    /\ provider' = "off"
    /\ paused' = FALSE
    /\ kill' = FALSE
    /\ reco' = "SKIPPED"
    /\ frozen' = config /\ current' = config
    /\ lastSeq' = 0
    /\ would' = {} /\ pending' = {} /\ filled' = {}
    /\ position' = 0
    /\ UNCHANGED <<reconciles, fileVars>>

Orders == {"HOLD", "REJECT", "BUY", "SELL"}

Next ==
    \/ ConnectFails
    \/ Connect
    \/ \E fails \in BOOLEAN, held \in Held : BeginShadow(fails, held)
    \/ Pause
    \/ Resume
    \/ ActivateKillSwitch
    \/ \E config \in Configs : ChangeConfig(config)
    \/ Stop
    \/ Cut
    \/ Reconnect
    \/ DrainDisconnected
    \/ BarInvalidates
    \/ \E seq \in Seqs : BarOfFuture(seq)
    \/ \E seq \in Seqs, fails \in BOOLEAN, held \in Held :
           BarMismatched(seq, fails, held)
    \/ \E seq \in Seqs, order \in Orders, fails \in BOOLEAN, held \in Held :
           BarDecided(seq, order, fails, held)
    \/ WriteCheckpoint
    \/ End
    \/ \E config \in Configs : Restart(config)

Spec == Init /\ [][Next]_vars

(***************************************************************************)
(* Properties.                                                             *)
(***************************************************************************)

(* Every WOULD_ORDER is filled at its bar or pending, none is both, and the *)
(* shadow position is what the WOULD_ORDERs add up to - filled or not.      *)
Count(side) == Cardinality({o \in would : o.side = side})

DecisionsAccounted ==
    /\ {o.exec : o \in would} = pending \union filled
    /\ pending \cap filled = {}
    /\ \A o, p \in would : o.exec = p.exec => o = p
    /\ position = Count("BUY") - Count("SELL")

(* docs/PHASE15_SAFETY.md: a reconciliation mismatch allows no new shadow   *)
(* orders: wherever it was found, no way back to RUNNING_SHADOW leads past  *)
(* another reconciliation.                                                  *)
MismatchHalts ==
    reco = "MISMATCH" => machine # "RUNNING_SHADOW" /\ paused

(* A recovery that is trusted hands over decisions of the very strategy     *)
(* that goes on, and the journal has each of them.                          *)
TrustedRecovery ==
    verdict.trusted =>
        /\ verdict.decisions \subseteq journal.decisions
        /\ \A d \in verdict.decisions : d.config = frozen

(* No WOULD_ORDER with the kill switch triggered, with a configuration that *)
(* is not the frozen one, or against a known mismatch - whichever operation *)
(* put the session back into a state that decides.                          *)
DecisionsAreCovered ==
    [][(would' # would /\ machine' # "CREATED") =>
            ~ kill' /\ current' = frozen' /\ reco' # "MISMATCH"]_vars

(* The session implements DecisionWindow: it is closed by the kill switch,  *)
(* by a configuration that changed, by stop and by the end of its process.  *)
Closed == kill \/ machine \in Ended \union {"SESSION_INVALIDATED", "DOWN"}

Window == INSTANCE DecisionWindow
    WITH Bars <- Seqs,
         decided <- {o.exec - 1 : o \in would},
         closed <- Closed

WindowSpec == Window!Spec
=============================================================================
