---------------------------- MODULE PaperDaemon ----------------------------
(***************************************************************************)
(* phase21/daemon.py, phase21/control.py and phase21/pipeline.py around    *)
(* phase14/paper.py and phase14/realtime.py: the service that takes market *)
(* bars one by one, trades on paper, journals each fill, checkpoints every *)
(* few bars and recovers its own files at the end; an operator who stops   *)
(* it; a process that may die between any two steps, and is started again. *)
(*                                                                         *)
(* The paper session is PaperSession; here a bar executes at its open the  *)
(* order that waits for it, if there is one, and after its close an order  *)
(* may wait for the next: a new one, or what a partial fill left.  The     *)
(* service trades one symbol, so that a bar makes at most one fill.  Polls *)
(* that bring nothing (an outage, none followed by a sleep) leave          *)
(* everything as it is.                                                    *)
(***************************************************************************)
EXTENDS SessionFiles

CONSTANTS
    MaxSessions,    \* starts of the service
    MaxBars,        \* max_bars of the loop
    MaxErrors,      \* bars of one session in which processing raises
    Every           \* bars from one checkpoint to the next

ASSUME BoundAssumption ==
    /\ MaxSessions \in Nat
    /\ MaxBars \in Nat \ {0}
    /\ MaxErrors \in Nat
    /\ MaxFills \in Nat
    /\ Every \in Nat \ {0}

Sessions == 1 .. MaxSessions

VARIABLES
    session,        \* of the process that runs, or ran last
    pc,             \* where that process is
    stop,           \* the STOP file exists
    bars,           \* bars the loop has counted
    halted,         \* the paper session stopped itself; the engine goes on
    waiting,        \* an accepted order is due at the next bar
    unsaved,        \* the fill of this bar is not journalled yet
    filled,         \* per session, the number of fills in its books
    errors,         \* per session, the bars whose processing raised
    killed,         \* per session, the kill switch was triggered
    journal,
    checkpoint,
    verdict,        \* per session, what the report says of its recovery
    interrupted     \* history: the sessions whose process ended with the kill
                    \* switch triggered and its entry not yet in the journal

memoryVars == <<bars, halted, waiting, unsaved, filled, errors, killed>>
fileVars == <<journal, checkpoint>>
vars == <<session, pc, stop, memoryVars, fileVars, verdict, interrupted>>

Stages == {"down", "boot", "top", "ingest", "journal", "after", "killing",
           "checkpoint", "final", "closing", "closed"}

Looping == pc \in {"top", "ingest", "journal", "after", "killing", "checkpoint"}

TypeOK ==
    /\ session \in 0 .. MaxSessions
    /\ pc \in Stages
    /\ stop \in BOOLEAN
    /\ bars \in 0 .. MaxBars
    /\ halted \in BOOLEAN
    /\ waiting \in BOOLEAN
    /\ unsaved \in BOOLEAN
    /\ filled \in [Sessions -> 0 .. MaxFills]
    /\ errors \in [Sessions -> 0 .. MaxErrors]
    /\ killed \in [Sessions -> BOOLEAN]
    /\ journal \in [Sessions -> Journals]
    /\ checkpoint \in [Sessions -> Checkpoints]
    /\ verdict \in [Sessions -> {"none", "recovered", "untrusted", "mismatch"}]
    /\ interrupted \subseteq Sessions
    /\ pc # "down" => session \in Sessions

Init ==
    /\ session = 0
    /\ pc = "down"
    /\ stop = FALSE
    /\ bars = 0
    /\ halted = FALSE
    /\ waiting = FALSE
    /\ unsaved = FALSE
    /\ filled = [s \in Sessions |-> 0]
    /\ errors = [s \in Sessions |-> 0]
    /\ killed = [s \in Sessions |-> FALSE]
    /\ journal = [s \in Sessions |-> NewJournal]
    /\ checkpoint = [s \in Sessions |-> NoCheckpoint]
    /\ verdict = [s \in Sessions |-> "none"]
    /\ interrupted = {}

(***************************************************************************)
(* Start.  Each start is a session of its own: a new identifier, new files *)
(* and books that begin with the initial cash.                             *)
(***************************************************************************)

(* The fills the books of a session begin with.                             *)
OpeningFills(s) == 0

Boot ==
    /\ pc = "down"
    /\ session < MaxSessions
    /\ session' = session + 1
    /\ pc' = "boot"
    /\ bars' = 0
    /\ halted' = FALSE
    /\ waiting' = FALSE
    /\ unsaved' = FALSE
    /\ filled' = [filled EXCEPT ![session'] = OpeningFills(session')]
    /\ UNCHANGED <<stop, errors, killed, fileVars, verdict, interrupted>>

(* A STOP left by an earlier run, or asked for meanwhile, is removed.       *)
EnterLoop ==
    /\ pc = "boot"
    /\ stop' = FALSE
    /\ pc' = "top"
    /\ UNCHANGED <<session, memoryVars, fileVars, verdict, interrupted>>

(***************************************************************************)
(* One turn of the loop.                                                   *)
(***************************************************************************)

(* Variant: the STOP file is looked at only after a bar.                    *)
LeaveOnStopAfterBar ==
    /\ pc = "top"
    /\ stop
    /\ bars > 0
    /\ pc' = "final"
    /\ UNCHANGED <<session, stop, memoryVars, fileVars, verdict, interrupted>>

LeaveOnStop ==
    /\ pc = "top"
    /\ stop
    /\ pc' = "final"
    /\ UNCHANGED <<session, stop, memoryVars, fileVars, verdict, interrupted>>

LeaveWhenDrained ==
    /\ pc = "top"
    /\ ~ stop
    /\ pc' = "final"
    /\ UNCHANGED <<session, stop, memoryVars, fileVars, verdict, interrupted>>

NextBar ==
    /\ pc = "top"
    /\ ~ stop
    /\ pc' = "ingest"
    /\ UNCHANGED <<session, stop, memoryVars, fileVars, verdict, interrupted>>

(* A bar that is out of order or stale does not reach the paper session,    *)
(* and the sequence number its waiting order was scheduled for is past.     *)
SkipBar ==
    /\ pc = "ingest"
    /\ pc' = "after"
    /\ bars' = bars + 1
    /\ waiting' = FALSE
    /\ UNCHANGED <<session, stop, halted, unsaved, filled, errors, killed,
                   fileVars, verdict, interrupted>>

(* The open may fill the waiting order; the close may leave an order for    *)
(* the next bar.  A session whose strategy raises halts itself with the     *)
(* fill made, and takes no event from then on.                              *)
TradeBar(fills, orders, halts) ==
    /\ pc = "ingest"
    /\ fills => waiting /\ ~ halted /\ filled[session] < MaxFills
    /\ orders => ~ halted /\ ~ halts /\ ~ killed[session]
    /\ filled' = [filled EXCEPT ![session] = IF fills THEN @ + 1 ELSE @]
    /\ unsaved' = fills
    /\ waiting' = orders
    /\ halted' = (halted \/ halts)
    /\ pc' = "journal"
    /\ UNCHANGED <<session, stop, bars, errors, killed, fileVars, verdict,
                   interrupted>>

(* The loop drops a bar whose processing raises and goes on with the next.  *)
CountError ==
    /\ errors[session] < MaxErrors
    /\ errors' = [errors EXCEPT ![session] = @ + 1]
    /\ pc' = "top"

(* The strategy of the engine raises before the session sees the bar.       *)
StrategyRaises ==
    /\ pc = "ingest"
    /\ CountError
    /\ waiting' = FALSE
    /\ UNCHANGED <<session, stop, bars, halted, unsaved, filled, killed, fileVars,
                   verdict, interrupted>>

(* An entry of the journal cannot be written, whole or in part.  Before the *)
(* session saw the bar, this is as if the strategy had raised; after that,  *)
(* the fill of the bar is in the books and no later bar journals it.        *)
JournalFails(partly) ==
    /\ pc \in {"ingest", "journal"}
    /\ CountError
    /\ waiting' = (waiting /\ pc = "journal")
    /\ unsaved' = FALSE
    /\ journal' = [journal EXCEPT ![session].torn = @ \/ partly]
    /\ UNCHANGED <<session, stop, bars, halted, filled, killed, checkpoint,
                   verdict, interrupted>>

JournalBar ==
    /\ pc = "journal"
    /\ journal' = IF unsaved
                  THEN [journal EXCEPT ![session].fills = @ \union {filled[session]}]
                  ELSE journal
    /\ unsaved' = FALSE
    /\ bars' = bars + 1
    /\ pc' = "after"
    /\ UNCHANGED <<session, stop, halted, waiting, filled, errors, killed,
                   checkpoint, verdict, interrupted>>

(* assert_strategy_immutable raises: activate_kill_switch triggers the      *)
(* switch in memory.                                                        *)
DetectMutation ==
    /\ pc = "after"
    /\ killed' = [killed EXCEPT ![session] = TRUE]
    /\ pc' = "killing"
    /\ UNCHANGED <<session, stop, bars, halted, waiting, unsaved, filled, errors,
                   fileVars, verdict, interrupted>>

(* Variant: the loop is left without the journal entry.                     *)
LeaveLoopKilled ==
    /\ pc = "killing"
    /\ pc' = "final"
    /\ UNCHANGED <<session, stop, memoryVars, fileVars, verdict, interrupted>>

(* Its entry in the journal, after which the loop is left.  Nothing catches *)
(* an append that raises here, so that it ends the process like a crash.    *)
JournalKill ==
    /\ pc = "killing"
    /\ journal' = [journal EXCEPT ![session].killed = TRUE]
    /\ pc' = "final"
    /\ UNCHANGED <<session, stop, memoryVars, checkpoint, verdict, interrupted>>

(* Variant: one bar too many.                                               *)
NextTurnOffByOne == IF bars > MaxBars THEN "final" ELSE "top"

NextTurn == IF bars >= MaxBars THEN "final" ELSE "top"

EndTurn ==
    /\ pc = "after"
    /\ pc' = IF bars % Every = 0 THEN "checkpoint" ELSE NextTurn
    /\ UNCHANGED <<session, stop, memoryVars, fileVars, verdict, interrupted>>

(* Variant: the bars counted for the fills made.                            *)
SnapshotOfBars == [file |-> "whole", fills |-> bars, killed |-> killed[session]]

Snapshot == [file |-> "whole", fills |-> filled[session], killed |-> killed[session]]

WriteCheckpoint ==
    /\ pc = "checkpoint"
    /\ checkpoint' = [checkpoint EXCEPT ![session] = Snapshot]
    /\ pc' = NextTurn
    /\ UNCHANGED <<session, stop, memoryVars, journal, verdict, interrupted>>

(***************************************************************************)
(* The end of the loop and of the session.                                 *)
(***************************************************************************)

(* Variant: at the end of the loop only the due checkpoint is written.      *)
FinalCheckpointWhenDue ==
    /\ pc = "final"
    /\ checkpoint' = IF bars % Every = 0
                     THEN [checkpoint EXCEPT ![session] = Snapshot]
                     ELSE checkpoint
    /\ pc' = "closing"
    /\ UNCHANGED <<session, stop, memoryVars, journal, verdict, interrupted>>

FinalCheckpoint ==
    /\ pc = "final"
    /\ checkpoint' = [checkpoint EXCEPT ![session] = Snapshot]
    /\ pc' = "closing"
    /\ UNCHANGED <<session, stop, memoryVars, journal, verdict, interrupted>>

(* engine.stop() and finalize(): entries of the journal that are no fills.  *)
CloseSession ==
    /\ pc = "closing"
    /\ pc' = "closed"
    /\ UNCHANGED <<session, stop, memoryVars, fileVars, verdict, interrupted>>

Judgement(s) ==
    IF ~ Trusted(journal[s], checkpoint[s]) THEN "untrusted"
    ELSE IF checkpoint[s].fills = filled[s] THEN "recovered"
    ELSE "mismatch"

Report ==
    /\ pc = "closed"
    /\ verdict' = [verdict EXCEPT ![session] = Judgement(session)]
    /\ pc' = "down"
    /\ UNCHANGED <<session, stop, memoryVars, fileVars, interrupted>>

(***************************************************************************)
(* The end of the process, at any point.                                   *)
(***************************************************************************)

Appending == pc \in {"boot", "ingest", "journal", "killing", "closing"}
Rewriting == pc \in {"checkpoint", "final"}

Die ==
    /\ pc' = "down"
    /\ \/ UNCHANGED fileVars
       \/ /\ Appending
          /\ journal' = [journal EXCEPT ![session].torn = TRUE]
          /\ UNCHANGED checkpoint
       \/ /\ Rewriting
          /\ checkpoint' = [checkpoint EXCEPT ![session] = TornCheckpoint]
          /\ UNCHANGED journal
    /\ interrupted' = IF pc = "killing" THEN interrupted \union {session}
                      ELSE interrupted
    /\ UNCHANGED <<session, memoryVars, verdict>>

Crash ==
    /\ pc # "down"
    /\ Die
    /\ UNCHANGED stop

(* touch STOP.                                                              *)
TouchStop ==
    /\ ~ stop
    /\ stop' = TRUE
    /\ UNCHANGED <<session, pc, memoryVars, fileVars, verdict, interrupted>>

(* make phase21-stop: besides the STOP file, SIGTERM for the process that   *)
(* the pid file names, which has no handler for it.                         *)
RequestStop ==
    /\ stop' = TRUE
    /\ pc \notin {"down", "boot"}
    /\ Die

Next ==
    \/ Boot
    \/ EnterLoop
    \/ LeaveOnStop
    \/ LeaveWhenDrained
    \/ NextBar
    \/ SkipBar
    \/ \E fills, orders, halts \in BOOLEAN : TradeBar(fills, orders, halts)
    \/ StrategyRaises
    \/ \E partly \in BOOLEAN : JournalFails(partly)
    \/ JournalBar
    \/ DetectMutation
    \/ JournalKill
    \/ EndTurn
    \/ WriteCheckpoint
    \/ FinalCheckpoint
    \/ CloseSession
    \/ Report
    \/ Crash
    \/ TouchStop
    \/ RequestStop

Spec == Init /\ [][Next]_vars

(***************************************************************************)
(* Fairness: the interpreter goes on with the bar it has and looks at the  *)
(* STOP file when it comes to it.  That another bar comes, or that the     *)
(* stream ends, is not assumed.                                            *)
(***************************************************************************)

BarStep ==
    \/ SkipBar
    \/ \E fills, orders, halts \in BOOLEAN : TradeBar(fills, orders, halts)
    \/ StrategyRaises
    \/ \E partly \in BOOLEAN : JournalFails(partly)
    \/ JournalBar
    \/ DetectMutation
    \/ JournalKill
    \/ EndTurn
    \/ WriteCheckpoint

FairSpec == Spec /\ WF_vars(BarStep) /\ WF_vars(LeaveOnStop)

(***************************************************************************)
(* Properties.                                                             *)
(***************************************************************************)

(* A recovery that is trusted never restores a fill that was not made, and  *)
(* misses at most the fill of the bar in progress and those whose entries   *)
(* could not be written - except that a checkpoint without fills is not     *)
(* compared with the journal at all.                                        *)
TrustedMissesLittle ==
    \A s \in Sessions :
        /\ Trusted(journal[s], checkpoint[s])
        /\ checkpoint[s].fills > 0 \/ journal[s].fills = {}
        => /\ checkpoint[s].fills <= filled[s]
           /\ filled[s] <= checkpoint[s].fills + errors[s] + 1

(* A session that ends by itself, on a STOP file, when bars end or when its *)
(* strategy changed, without an error on the way, recovers its own books.   *)
GracefulEndRecovers ==
    \A s \in Sessions :
        verdict[s] # "none" /\ errors[s] = 0 => verdict[s] = "recovered"

(* Once activate_kill_switch has returned, no recovery of the session       *)
(* allows orders, whatever was checkpointed before and wherever the process *)
(* died after that: only a process that ended between the switch and its    *)
(* entry in the journal leaves files from which a recovery allows orders.   *)
KillOutlivesProcess ==
    \A s \in Sessions :
        killed[s] /\ AllowsNewOrders(journal[s], checkpoint[s]) =>
            s \in interrupted \/ (s = session /\ pc = "killing")

(* A STOP the loop has not removed ends it, even when no bar ever comes.    *)
StopEndsLoop == Looping /\ stop ~> ~ Looping

(* What the files promise: PaperLedger.                                     *)
Ledger == INSTANCE PaperLedger WITH
    booked <- filled,
    restorable <- [s \in Sessions |->
                      IF Trusted(journal[s], checkpoint[s])
                      THEN checkpoint[s].fills ELSE -1]

LedgerSpec == Ledger!Spec
=============================================================================
