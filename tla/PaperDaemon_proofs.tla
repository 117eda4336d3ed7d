------------------------- MODULE PaperDaemon_proofs -------------------------
(***************************************************************************)
(* PaperDaemon, for every number of starts, bars, errors and fills: what   *)
(* the journal and the checkpoint of a session say, wherever the process   *)
(* died, and that they implement PaperLedger.                              *)
(***************************************************************************)
EXTENDS PaperDaemon, TLAPS

(***************************************************************************)
(* The inductive invariant.                                                *)
(***************************************************************************)

BarsLeft == pc \in {"boot", "top", "ingest", "journal"} => bars < MaxBars

(* A session that has not begun has neither books nor files.                *)
FutureIsEmpty ==
    \A s \in Sessions : s > session =>
        /\ filled[s] = 0
        /\ errors[s] = 0
        /\ ~ killed[s]
        /\ journal[s] = NewJournal
        /\ checkpoint[s] = NoCheckpoint

UnsavedInJournal ==
    unsaved => pc \in {"journal", "down"} /\ (pc = "journal" => filled[session] > 0)

(* A kill switch that was triggered has its entry, unless the process has   *)
(* still to write it or ended before.                                       *)
KillIsJournalled ==
    \A s \in Sessions : killed[s] =>
        \/ journal[s].killed
        \/ s \in interrupted
        \/ s = session /\ pc = "killing"

(* Of the fills beyond any bound on those that are journalled, all but k    *)
(* belong to a bar that raised.                                             *)
FewLost(s, k) ==
    \A n \in Nat :
        journal[s].fills \subseteq 1 .. n => filled[s] <= n + errors[s] + k

JournalKeepsUp ==
    /\ \A s \in Sessions : FewLost(s, 1)
    /\ pc # "down" /\ ~ unsaved => FewLost(session, 0)

CheckpointBehind == \A s \in Sessions : checkpoint[s].fills <= filled[s]

(* While no bar has raised, the journal has every fill, and at the end so   *)
(* has the checkpoint.                                                      *)
NothingLost ==
    pc # "down" /\ errors[session] = 0 =>
        /\ ~ journal[session].torn
        /\ journal[session].fills =
               1 .. (IF unsaved THEN filled[session] - 1 ELSE filled[session])
        /\ pc \in {"closing", "closed"} =>
               /\ checkpoint[session].file = "whole"
               /\ checkpoint[session].fills = filled[session]

Inv ==
    /\ TypeOK
    /\ BarsLeft
    /\ FutureIsEmpty
    /\ UnsavedInJournal
    /\ KillIsJournalled
    /\ JournalKeepsUp
    /\ CheckpointBehind
    /\ NothingLost
    /\ GracefulEndRecovers

(***************************************************************************)
(* The initial state and every step.                                       *)
(***************************************************************************)

LEMMA Bounds ==
    /\ MaxSessions \in Nat
    /\ MaxBars \in Nat
    /\ MaxBars > 0
    /\ MaxErrors \in Nat
    /\ MaxFills \in Nat
    /\ Every \in Nat
    /\ Every > 0
  BY BoundAssumption DEF BoundAssumption

LEMMA EmptyFiles == NewJournal \in Journals /\ NoCheckpoint \in Checkpoints
                    /\ TornCheckpoint \in Checkpoints
<1>1. NewJournal \in Journals
  BY DEF NewJournal, Journals
<1>2. NoCheckpoint \in Checkpoints
  BY BoundAssumption DEF NoCheckpoint, Checkpoints
<1>3. TornCheckpoint \in Checkpoints
  <2>1. "torn" \in {"missing", "torn", "whole"}
    OBVIOUS
  <2> QED BY <1>2, <2>1 DEF TornCheckpoint, Checkpoints
<1> QED BY <1>1, <1>2, <1>3

LEMMA InvInit == Init => Inv
<1> SUFFICES ASSUME Init PROVE Inv
  OBVIOUS
<1> USE Bounds DEF Init, Sessions
<1>1. TypeOK
  <2>1. /\ journal \in [Sessions -> Journals]
        /\ checkpoint \in [Sessions -> Checkpoints]
    BY EmptyFiles
  <2>2. /\ filled \in [Sessions -> 0 .. MaxFills]
        /\ errors \in [Sessions -> 0 .. MaxErrors]
    OBVIOUS
  <2>3. verdict \in [Sessions -> {"none", "recovered", "untrusted", "mismatch"}]
    OBVIOUS
  <2>4. session \in 0 .. MaxSessions /\ bars \in 0 .. MaxBars /\ pc \in Stages
    BY DEF Stages
  <2> QED BY <2>1, <2>2, <2>3, <2>4, Zenon DEF TypeOK
<1>2. BarsLeft /\ FutureIsEmpty /\ UnsavedInJournal /\ KillIsJournalled
  BY DEF BarsLeft, FutureIsEmpty, UnsavedInJournal, KillIsJournalled
<1>3. JournalKeepsUp /\ CheckpointBehind
  BY DEF JournalKeepsUp, FewLost, CheckpointBehind, NoCheckpoint
<1>4. NothingLost /\ GracefulEndRecovers
  BY DEF NothingLost, GracefulEndRecovers
<1> QED BY <1>1, <1>2, <1>3, <1>4 DEF Inv

(* What the end of the process leaves of the two files.                     *)
LEMMA DieEffect ==
    ASSUME TypeOK, pc # "down", Die
    PROVE  /\ journal' \in [Sessions -> Journals]
           /\ checkpoint' \in [Sessions -> Checkpoints]
           /\ \A s \in Sessions :
                 /\ journal'[s].fills = journal[s].fills
                 /\ journal'[s].killed = journal[s].killed
                 /\ journal'[s] = journal[s] \/ journal'[s].torn
                 /\ checkpoint'[s] \in {checkpoint[s], TornCheckpoint}
                 /\ s # session => /\ journal'[s] = journal[s]
                                   /\ checkpoint'[s] = checkpoint[s]
<1>1. CASE UNCHANGED fileVars
  BY <1>1 DEF TypeOK, fileVars
<1>2. CASE /\ journal' = [journal EXCEPT ![session].torn = TRUE]
           /\ UNCHANGED checkpoint
  BY <1>2 DEF TypeOK, Journals
<1>3. CASE /\ checkpoint' = [checkpoint EXCEPT ![session] = TornCheckpoint]
           /\ UNCHANGED journal
  BY <1>3, EmptyFiles DEF TypeOK
<1> QED BY <1>1, <1>2, <1>3 DEF Die

(* Types and the bars left of the loop.                                     *)
LEMMA TypeNext == Inv /\ Next => (TypeOK /\ BarsLeft)'
<1> SUFFICES ASSUME Inv, Next PROVE (TypeOK /\ BarsLeft)'
  OBVIOUS
<1> USE Bounds DEF Inv, TypeOK, BarsLeft, Sessions, vars, memoryVars, fileVars, Stages
<1>1. CASE Boot
  <2>1. session' \in Sessions /\ filled' \in [Sessions -> 0 .. MaxFills]
    BY <1>1 DEF Boot, OpeningFills
  <2>2. session' \in 0 .. MaxSessions /\ bars' \in 0 .. MaxBars /\ bars' < MaxBars
    BY <1>1 DEF Boot
  <2> QED BY <2>1, <2>2, <1>1, Zenon DEF Boot
<1>2. CASE EnterLoop
  BY <1>2 DEF EnterLoop
<1>3. CASE LeaveOnStop
  BY <1>3 DEF LeaveOnStop
<1>4. CASE LeaveWhenDrained
  BY <1>4 DEF LeaveWhenDrained
<1>5. CASE NextBar
  BY <1>5 DEF NextBar
<1>6. CASE SkipBar
  <2>1. bars' \in 0 .. MaxBars
    BY <1>6 DEF SkipBar
  <2> QED BY <2>1, <1>6, Zenon DEF SkipBar
<1>7. CASE \E fills, orders, halts \in BOOLEAN : TradeBar(fills, orders, halts)
  <2> PICK fills, orders, halts \in BOOLEAN : TradeBar(fills, orders, halts)
    BY <1>7
  <2>1. filled' \in [Sessions -> 0 .. MaxFills]
    BY DEF TradeBar
  <2> QED BY <2>1 DEF TradeBar
<1>8. CASE StrategyRaises
  <2>1. errors' \in [Sessions -> 0 .. MaxErrors]
    BY <1>8 DEF StrategyRaises, CountError
  <2> QED BY <2>1, <1>8 DEF StrategyRaises, CountError
<1>9. CASE \E partly \in BOOLEAN : JournalFails(partly)
  <2> PICK partly \in BOOLEAN : JournalFails(partly)
    BY <1>9
  <2>1. journal' \in [Sessions -> Journals]
    BY DEF JournalFails, Journals
  <2>2. errors' \in [Sessions -> 0 .. MaxErrors]
    BY DEF JournalFails, CountError
  <2> QED BY <2>1, <2>2 DEF JournalFails, CountError
<1>10. CASE JournalBar
  <2>1. journal' \in [Sessions -> Journals]
    <3>1. CASE unsaved
      <4>1. filled[session] \in 1 .. MaxFills /\ session \in Sessions
        BY <1>10, <3>1 DEF JournalBar, UnsavedInJournal
      <4>2. [journal[session] EXCEPT !.fills = @ \union {filled[session]}] \in Journals
        BY <4>1 DEF Journals
      <4> QED BY <4>1, <4>2, <3>1, <1>10 DEF JournalBar
    <3>2. CASE ~ unsaved
      BY <3>2, <1>10 DEF JournalBar
    <3> QED BY <3>1, <3>2
  <2>2. bars' \in 0 .. MaxBars
    BY <1>10 DEF JournalBar
  <2> QED BY <2>1, <2>2, <1>10, Zenon DEF JournalBar
<1>11. CASE DetectMutation
  BY <1>11 DEF DetectMutation
<1>11a. CASE JournalKill
  <2>1. journal' \in [Sessions -> Journals]
    BY <1>11a DEF JournalKill, Journals
  <2> QED BY <2>1, <1>11a DEF JournalKill
<1>12. CASE EndTurn
  BY <1>12 DEF EndTurn, NextTurn
<1>13. CASE WriteCheckpoint
  <2>1. checkpoint' \in [Sessions -> Checkpoints]
    BY <1>13 DEF WriteCheckpoint, Snapshot, Checkpoints
  <2> QED BY <2>1, <1>13 DEF WriteCheckpoint, NextTurn
<1>14. CASE FinalCheckpoint
  <2>1. checkpoint' \in [Sessions -> Checkpoints]
    BY <1>14 DEF FinalCheckpoint, Snapshot, Checkpoints
  <2> QED BY <2>1, <1>14 DEF FinalCheckpoint, NextTurn
<1>15. CASE CloseSession
  BY <1>15 DEF CloseSession
<1>16. CASE Report
  BY <1>16 DEF Report, Judgement
<1>17. CASE Crash
  <2>1. Die /\ pc # "down" /\ stop' \in BOOLEAN
    BY <1>17 DEF Crash
  <2>2. /\ journal' \in [Sessions -> Journals]
        /\ checkpoint' \in [Sessions -> Checkpoints]
    BY <2>1, DieEffect
  <2> QED BY <2>1, <2>2 DEF Die
<1>18. CASE TouchStop
  BY <1>18 DEF TouchStop
<1>19. CASE RequestStop
  <2>1. Die /\ pc # "down" /\ stop' \in BOOLEAN
    BY <1>19 DEF RequestStop
  <2>2. /\ journal' \in [Sessions -> Journals]
        /\ checkpoint' \in [Sessions -> Checkpoints]
    BY <2>1, DieEffect
  <2> QED BY <2>1, <2>2 DEF Die
<1> QED BY <1>1, <1>2, <1>3, <1>4, <1>5, <1>6, <1>7, <1>8, <1>9, <1>10, <1>11, <1>11a, <1>12, <1>13, <1>14, <1>15, <1>16, <1>17, <1>18, <1>19 DEF Next

(* Sessions that have not begun.                                            *)
LEMMA FutureNext == Inv /\ Next => FutureIsEmpty'
<1> SUFFICES ASSUME Inv, Next, NEW s \in Sessions, s > session'
             PROVE  (/\ filled[s] = 0
                        /\ errors[s] = 0
                        /\ ~ killed[s]
                        /\ journal[s] = NewJournal
                        /\ checkpoint[s] = NoCheckpoint)'
  BY DEF FutureIsEmpty
<1> session \in 0 .. MaxSessions /\ session' \in {session, session + 1}
  BY DEF Inv, TypeOK, Next, Boot, EnterLoop, LeaveOnStop, LeaveWhenDrained, NextBar,
         SkipBar, TradeBar, StrategyRaises, JournalFails, JournalBar, DetectMutation,
         JournalKill, EndTurn, WriteCheckpoint, FinalCheckpoint, CloseSession, Report, Crash,
         TouchStop, RequestStop, Die
<1> /\ filled[s] = 0
    /\ errors[s] = 0
    /\ ~ killed[s]
    /\ journal[s] = NewJournal
    /\ checkpoint[s] = NoCheckpoint
  BY DEF Inv, FutureIsEmpty, Sessions
<1> USE Bounds DEF Inv, TypeOK, Sessions, fileVars
<1>1. CASE Boot
  BY <1>1 DEF Boot, OpeningFills
<1>2. CASE \E fills, orders, halts \in BOOLEAN : TradeBar(fills, orders, halts)
  BY <1>2 DEF TradeBar
<1>3. CASE StrategyRaises
  BY <1>3 DEF StrategyRaises, CountError
<1>4. CASE \E partly \in BOOLEAN : JournalFails(partly)
  BY <1>4 DEF JournalFails, CountError
<1>5. CASE JournalBar
  BY <1>5 DEF JournalBar
<1>6. CASE DetectMutation
  BY <1>6 DEF DetectMutation
<1>6a. CASE JournalKill
  BY <1>6a DEF JournalKill, memoryVars
<1>7. CASE WriteCheckpoint
  BY <1>7 DEF WriteCheckpoint, memoryVars
<1>8. CASE FinalCheckpoint
  BY <1>8 DEF FinalCheckpoint, memoryVars
<1>9. CASE Crash \/ RequestStop
  <2>1. Die /\ pc # "down"
    BY <1>9 DEF Crash, RequestStop
  <2>2. /\ checkpoint'[s] \in {checkpoint[s], TornCheckpoint}
        /\ UNCHANGED <<session, filled, errors, killed>>
        /\ s # session => journal'[s] = journal[s] /\ checkpoint'[s] = checkpoint[s]
    BY <2>1, DieEffect DEF Die, memoryVars
  <2> QED BY <2>2
<1>10. CASE UNCHANGED <<session, filled, errors, killed, journal, checkpoint>>
  BY <1>10
<1> QED BY <1>1, <1>2, <1>3, <1>4, <1>5, <1>6, <1>6a, <1>7, <1>8, <1>9, <1>10
          DEF Next, EnterLoop, LeaveOnStop, LeaveWhenDrained, NextBar, SkipBar, TradeBar, JournalFails, EndTurn, CloseSession, Report, TouchStop, CountError, vars, memoryVars, fileVars

(* The fill that is not journalled yet.                                     *)
LEMMA UnsavedNext == Inv /\ Next => UnsavedInJournal'
<1> SUFFICES ASSUME Inv, Next PROVE UnsavedInJournal'
  OBVIOUS
<1> USE Bounds DEF Inv, TypeOK, UnsavedInJournal, Sessions
<1>1. CASE Boot
  BY <1>1 DEF Boot
<1>2. CASE \E fills, orders, halts \in BOOLEAN : TradeBar(fills, orders, halts)
  BY <1>2 DEF TradeBar
<1>3. CASE \E partly \in BOOLEAN : JournalFails(partly)
  BY <1>3 DEF JournalFails
<1>4. CASE JournalBar
  BY <1>4 DEF JournalBar
<1>5. CASE Crash \/ RequestStop
  <2>1. Die /\ pc # "down"
    BY <1>5 DEF Crash, RequestStop
  <2> QED BY <2>1, DieEffect DEF Die, memoryVars
<1>6. CASE ~ unsaved /\ UNCHANGED unsaved
  BY <1>6
<1>7. CASE UNCHANGED <<unsaved, filled, pc, session>>
  BY <1>7
<1> QED BY <1>1, <1>2, <1>3, <1>4, <1>5, <1>6, <1>7
          DEF Next, EnterLoop, LeaveOnStop, LeaveWhenDrained, NextBar, SkipBar, TradeBar, StrategyRaises, JournalFails, DetectMutation, JournalKill, EndTurn, WriteCheckpoint, FinalCheckpoint, CloseSession, Report, TouchStop, CountError, vars, memoryVars, fileVars

(* The kill switch and its entry.                                           *)
LEMMA KillNext == Inv /\ Next => KillIsJournalled'
<1> SUFFICES ASSUME Inv, Next PROVE KillIsJournalled'
  OBVIOUS
<1> USE Bounds DEF Inv, TypeOK, KillIsJournalled, FutureIsEmpty, Sessions, Journals
<1>1. CASE \E partly \in BOOLEAN : JournalFails(partly)
  BY <1>1 DEF JournalFails, CountError
<1>2. CASE JournalBar
  BY <1>2 DEF JournalBar
<1>3. CASE DetectMutation
  BY <1>3 DEF DetectMutation, fileVars
<1>4. CASE JournalKill
  BY <1>4 DEF JournalKill, memoryVars
<1>5. CASE Crash \/ RequestStop
  <2>1. Die /\ pc # "down"
    BY <1>5 DEF Crash, RequestStop
  <2>2. /\ UNCHANGED <<session, killed>>
        /\ interrupted' = IF pc = "killing" THEN interrupted \union {session}
                          ELSE interrupted
        /\ \A s \in Sessions : journal'[s].killed = journal[s].killed
    BY <2>1, DieEffect DEF Die, memoryVars
  <2> QED BY <2>2
<1>6. CASE Boot
  BY <1>6 DEF Boot, fileVars
<1>7. CASE UNCHANGED <<session, killed, journal, interrupted>> /\ (pc = "killing" => pc' = "killing")
  BY <1>7
<1> QED BY <1>1, <1>2, <1>3, <1>4, <1>5, <1>6, <1>7
          DEF Next, EnterLoop, LeaveOnStop, LeaveWhenDrained, NextBar, SkipBar, TradeBar, StrategyRaises, EndTurn, WriteCheckpoint, FinalCheckpoint, CloseSession, Report, TouchStop, CountError, vars, memoryVars, fileVars

(* The checkpoint and the books.                                            *)
LEMMA BehindNext == Inv /\ Next => CheckpointBehind'
<1> SUFFICES ASSUME Inv, Next, NEW s \in Sessions
             PROVE  checkpoint'[s].fills <= filled'[s]
  BY DEF CheckpointBehind
<1> /\ filled[s] \in Nat
    /\ checkpoint[s].fills \in Nat
    /\ checkpoint[s].fills <= filled[s]
  BY Bounds DEF Inv, TypeOK, CheckpointBehind, Checkpoints
<1> USE Bounds DEF Inv, TypeOK
<1>1. CASE Boot
  BY <1>1 DEF Boot, OpeningFills, FutureIsEmpty, Sessions, NoCheckpoint, fileVars
<1>2. CASE \E fills, orders, halts \in BOOLEAN : TradeBar(fills, orders, halts)
  BY <1>2 DEF TradeBar, fileVars
<1>3. CASE WriteCheckpoint
  BY <1>3 DEF WriteCheckpoint, Snapshot, memoryVars
<1>4. CASE FinalCheckpoint
  BY <1>4 DEF FinalCheckpoint, Snapshot, memoryVars
<1>5. CASE Crash \/ RequestStop
  <2>1. Die /\ pc # "down"
    BY <1>5 DEF Crash, RequestStop
  <2>2. /\ checkpoint'[s] \in {checkpoint[s], TornCheckpoint}
        /\ UNCHANGED <<session, filled, errors, killed>>
        /\ s # session => journal'[s] = journal[s] /\ checkpoint'[s] = checkpoint[s]
    BY <2>1, DieEffect DEF Die, memoryVars
  <2> QED BY <2>2 DEF TornCheckpoint, NoCheckpoint
<1>6. CASE UNCHANGED <<filled, checkpoint>>
  BY <1>6
<1> QED BY <1>1, <1>2, <1>3, <1>4, <1>5, <1>6
          DEF Next, EnterLoop, LeaveOnStop, LeaveWhenDrained, NextBar, SkipBar, TradeBar, StrategyRaises, JournalFails, JournalBar, DetectMutation, JournalKill, EndTurn, CloseSession, Report, TouchStop, CountError, vars, memoryVars, fileVars

(* The journal and the books.                                               *)
LEMMA KeepsUpNext == Inv /\ Next => JournalKeepsUp'
<1> SUFFICES ASSUME Inv, Next PROVE JournalKeepsUp'
  OBVIOUS
<1> /\ session' \in 0 .. MaxSessions
    /\ pc' # "down" => session' \in Sessions
    /\ errors' \in [Sessions -> 0 .. MaxErrors]
  BY TypeNext DEF TypeOK
<1> SUFFICES ASSUME NEW s \in Sessions, NEW n \in Nat, journal'[s].fills \subseteq 1 .. n
             PROVE  /\ filled'[s] <= n + errors'[s] + 1
                    /\ s = session' /\ pc' # "down" /\ ~ unsaved' =>
                           filled'[s] <= n + errors'[s]
  BY Bounds DEF JournalKeepsUp, FewLost
<1> /\ filled[s] \in Nat
    /\ errors[s] \in Nat
    /\ journal[s].fills \subseteq 1 .. n => filled[s] <= n + errors[s] + 1
    /\ s = session /\ pc # "down" /\ ~ unsaved /\ journal[s].fills \subseteq 1 .. n =>
           filled[s] <= n + errors[s]
  BY Bounds DEF Inv, TypeOK, JournalKeepsUp, FewLost
<1> unsaved => pc \in {"journal", "down"}
  BY DEF Inv, UnsavedInJournal
<1> USE Bounds DEF Inv, TypeOK
<1>1. CASE Boot
  BY <1>1 DEF Boot, OpeningFills, FutureIsEmpty, fileVars
<1>2. CASE \E fills, orders, halts \in BOOLEAN : TradeBar(fills, orders, halts)
  <2> PICK fills, orders, halts \in BOOLEAN : TradeBar(fills, orders, halts)
    BY <1>2
  <2>1. CASE s = session
    <3>1. filled[s] <= n + errors[s] /\ UNCHANGED <<session, errors, journal>>
      BY <2>1 DEF TradeBar, fileVars
    <3>2. CASE fills
      BY <3>1, <3>2, <2>1 DEF TradeBar
    <3>3. CASE ~ fills
      BY <3>1, <3>3, <2>1 DEF TradeBar
    <3> QED BY <3>2, <3>3
  <2>2. CASE s # session
    BY <2>2 DEF TradeBar, fileVars
  <2> QED BY <2>1, <2>2
<1>3. CASE StrategyRaises
  BY <1>3 DEF StrategyRaises, CountError, fileVars
<1>4. CASE \E partly \in BOOLEAN : JournalFails(partly)
  <2> PICK partly \in BOOLEAN : JournalFails(partly)
    BY <1>4
  <2>1. journal'[s].fills = journal[s].fills
    BY DEF JournalFails, Journals
  <2> QED BY <2>1 DEF JournalFails, CountError
<1>5. CASE JournalBar
  BY <1>5 DEF JournalBar
<1>6. CASE JournalKill
  <2>1. journal'[s].fills = journal[s].fills
    BY <1>6 DEF JournalKill, Journals
  <2> QED BY <2>1, <1>6 DEF JournalKill, memoryVars
<1>7. CASE Crash \/ RequestStop
  <2>1. Die /\ pc # "down"
    BY <1>7 DEF Crash, RequestStop
  <2>2. journal'[s].fills = journal[s].fills
    BY <2>1, DieEffect
  <2> QED BY <2>1, <2>2 DEF Die, memoryVars
<1>8. CASE UNCHANGED <<session, filled, errors, journal, unsaved, fileVars>> /\ (pc' # "down" => pc # "down")
  BY <1>8 DEF fileVars
<1> QED BY <1>1, <1>2, <1>3, <1>4, <1>5, <1>6, <1>7, <1>8
          DEF Next, EnterLoop, LeaveOnStop, LeaveWhenDrained, NextBar, SkipBar, TradeBar, JournalFails, DetectMutation, EndTurn, WriteCheckpoint, FinalCheckpoint, CloseSession, Report, TouchStop, CountError, vars, memoryVars, fileVars

(* A session without an error.                                              *)
LEMMA NothingLostNext == Inv /\ Next => NothingLost'
<1> SUFFICES ASSUME Inv, Next PROVE NothingLost'
  OBVIOUS
<1> SUFFICES ASSUME pc' # "down", errors'[session'] = 0
             PROVE  /\ ~ journal'[session'].torn
                    /\ journal'[session'].fills =
                           1 .. (IF unsaved' THEN filled'[session'] - 1
                                 ELSE filled'[session'])
                    /\ pc' \in {"closing", "closed"} =>
                           /\ checkpoint'[session'].file = "whole"
                           /\ checkpoint'[session'].fills = filled'[session']
  BY DEF NothingLost
<1> USE Bounds DEF Inv, TypeOK, Sessions
<1>1. CASE Boot
  <2>1. /\ session' \in Sessions
        /\ session' > session
        /\ pc' = "boot"
        /\ ~ unsaved'
        /\ filled'[session'] = 0
        /\ UNCHANGED journal
    BY <1>1 DEF Boot, OpeningFills, fileVars
  <2>2. journal[session'].fills = {} /\ ~ journal[session'].torn
    BY <2>1 DEF FutureIsEmpty, NewJournal
  <2> QED BY <2>1, <2>2
<1>2. CASE \E fills, orders, halts \in BOOLEAN : TradeBar(fills, orders, halts)
  <2> PICK fills, orders, halts \in BOOLEAN : TradeBar(fills, orders, halts)
    BY <1>2
  <2>1. /\ UNCHANGED <<session, errors, journal>>
        /\ ~ unsaved
        /\ pc = "ingest"
        /\ pc' = "journal"
        /\ filled[session] \in Nat
        /\ filled'[session] = IF fills THEN filled[session] + 1 ELSE filled[session]
        /\ fills => unsaved'
        /\ ~ fills => ~ unsaved'
    BY DEF TradeBar, fileVars, UnsavedInJournal
  <2>2. CASE fills
    BY <2>1, <2>2 DEF NothingLost
  <2>3. CASE ~ fills
    BY <2>1, <2>3 DEF NothingLost
  <2> QED BY <2>2, <2>3
<1>3. CASE StrategyRaises \/ \E partly \in BOOLEAN : JournalFails(partly)
  <2> FALSE
    BY <1>3 DEF StrategyRaises, JournalFails, CountError
  <2> QED OBVIOUS
<1>4. CASE JournalBar
  <2>1. /\ UNCHANGED <<session, errors, filled>>
        /\ pc = "journal"
        /\ pc' = "after"
        /\ ~ unsaved'
        /\ filled[session] \in Nat
        /\ unsaved => filled[session] > 0
        /\ journal'[session].torn = journal[session].torn
        /\ journal'[session].fills = IF unsaved
                                     THEN journal[session].fills \union {filled[session]}
                                     ELSE journal[session].fills
    BY <1>4 DEF JournalBar, Journals, UnsavedInJournal
  <2>2. CASE unsaved
    BY <2>1, <2>2 DEF NothingLost
  <2>3. CASE ~ unsaved
    BY <2>1, <2>3 DEF NothingLost
  <2> QED BY <2>2, <2>3
<1>5. CASE JournalKill
  <2>1. /\ journal'[session].fills = journal[session].fills
        /\ journal'[session].torn = journal[session].torn
        /\ ~ unsaved
    BY <1>5 DEF JournalKill, Journals, UnsavedInJournal
  <2> QED BY <2>1, <1>5 DEF JournalKill, NothingLost, memoryVars
<1>6. CASE EndTurn
  BY <1>6 DEF EndTurn, NextTurn, NothingLost, memoryVars, fileVars
<1>7. CASE WriteCheckpoint
  BY <1>7 DEF WriteCheckpoint, NextTurn, NothingLost, memoryVars
<1>8. CASE FinalCheckpoint
  BY <1>8 DEF FinalCheckpoint, Snapshot, NothingLost, memoryVars
<1>9. CASE Crash \/ RequestStop \/ Report
  <2> FALSE
    BY <1>9 DEF Crash, RequestStop, Report, Die
  <2> QED OBVIOUS
<1>10. CASE UNCHANGED <<session, filled, errors, journal, checkpoint, unsaved>> /\ pc # "down" /\ (pc' \in {"closing", "closed"} => pc \in {"closing", "closed"})
  BY <1>10 DEF NothingLost
<1> QED BY <1>1, <1>2, <1>3, <1>4, <1>5, <1>6, <1>7, <1>8, <1>9, <1>10
          DEF Next, EnterLoop, LeaveOnStop, LeaveWhenDrained, NextBar, SkipBar, TradeBar, JournalFails, DetectMutation, CloseSession, TouchStop, CountError, vars, memoryVars, fileVars

(* What the recovery of a session says.                                     *)
LEMMA GracefulNext == Inv /\ Next => GracefulEndRecovers'
<1> SUFFICES ASSUME Inv, Next PROVE GracefulEndRecovers'
  OBVIOUS
<1> SUFFICES ASSUME NEW s \in Sessions, verdict'[s] # "none", errors'[s] = 0
             PROVE  verdict'[s] = "recovered"
  BY DEF GracefulEndRecovers
<1> USE Bounds DEF Inv, TypeOK, GracefulEndRecovers
<1>1. CASE StrategyRaises
  BY <1>1 DEF StrategyRaises, CountError
<1>2. CASE \E partly \in BOOLEAN : JournalFails(partly)
  BY <1>2 DEF JournalFails, CountError
<1>3. CASE Report
  <2>1. CASE s = session
    <3>1. /\ ~ journal[s].torn
          /\ journal[s].fills = 1 .. filled[s]
          /\ checkpoint[s].file = "whole"
          /\ checkpoint[s].fills = filled[s]
      BY <2>1, <1>3 DEF Report, NothingLost, UnsavedInJournal, memoryVars
    <3>2. Judgement(s) = "recovered"
      BY <3>1 DEF Judgement, Trusted, FillsMatch
    <3> QED BY <3>2, <2>1, <1>3 DEF Report
  <2>2. CASE s # session
    BY <2>2, <1>3 DEF Report, memoryVars
  <2> QED BY <2>1, <2>2
<1>4. CASE UNCHANGED <<errors, verdict>>
  BY <1>4
<1> QED BY <1>1, <1>2, <1>3, <1>4
          DEF Next, Boot, EnterLoop, LeaveOnStop, LeaveWhenDrained, NextBar, SkipBar, TradeBar, JournalFails, JournalBar, DetectMutation, JournalKill, EndTurn, WriteCheckpoint, FinalCheckpoint, CloseSession, Crash, TouchStop, RequestStop, CountError, Die, vars, memoryVars, fileVars

LEMMA InvNext == Inv /\ [Next]_vars => Inv'
<1> SUFFICES ASSUME Inv, [Next]_vars PROVE Inv'
  OBVIOUS
<1>1. CASE Next
  BY <1>1, TypeNext, FutureNext, UnsavedNext, KillNext, BehindNext, KeepsUpNext,
     NothingLostNext, GracefulNext DEF Inv
<1>2. CASE UNCHANGED vars
  BY <1>2
  DEF vars, memoryVars, fileVars, Inv, TypeOK, BarsLeft, FutureIsEmpty, UnsavedInJournal,
      KillIsJournalled, JournalKeepsUp, FewLost, CheckpointBehind, NothingLost,
      GracefulEndRecovers
<1> QED BY <1>1, <1>2

(***************************************************************************)
(* The theorems.                                                           *)
(***************************************************************************)

(* The inductive invariant holds throughout.                                *)
THEOREM Invariance == Spec => []Inv
<1>1. QED BY InvInit, InvNext, PTL DEF Spec

(* Every value of every variable stays in its type.                         *)
THEOREM TypeCorrect == Spec => []TypeOK
<1>1. Inv => TypeOK
  BY DEF Inv
<1> QED BY <1>1, Invariance, PTL

(* A trusted recovery restores no fill that was not made and misses few,    *)
(* wherever the process died.                                               *)
THEOREM TrustedRecovery == Spec => []TrustedMissesLittle
<1>1. Inv => TrustedMissesLittle
  <2> SUFFICES ASSUME Inv, NEW s \in Sessions, Trusted(journal[s], checkpoint[s]),
                      checkpoint[s].fills > 0 \/ journal[s].fills = {}
               PROVE  /\ checkpoint[s].fills <= filled[s]
                      /\ filled[s] <= checkpoint[s].fills + errors[s] + 1
    BY DEF TrustedMissesLittle
  <2>1. checkpoint[s].fills \in Nat
    BY Bounds DEF Inv, TypeOK, Checkpoints
  <2>2. journal[s].fills \subseteq 1 .. checkpoint[s].fills
    BY DEF Trusted, FillsMatch
  <2> QED BY <2>1, <2>2 DEF Inv, CheckpointBehind, JournalKeepsUp, FewLost
<1> QED BY <1>1, Invariance, PTL

(* A session that ends by itself without an error recovers its own books.   *)
THEOREM GracefulRecovery == Spec => []GracefulEndRecovers
<1>1. Inv => GracefulEndRecovers
  BY DEF Inv
<1> QED BY <1>1, Invariance, PTL

(* A recovery allows orders after the kill switch was triggered only when   *)
(* the process had not written the entry of the kill.                       *)
THEOREM KillSurvives == Spec => []KillOutlivesProcess
<1>1. Inv => KillOutlivesProcess
  BY DEF Inv, KillIsJournalled, KillOutlivesProcess, AllowsNewOrders
<1> QED BY <1>1, Invariance, PTL

(***************************************************************************)
(* The files implement PaperLedger.                                        *)
(***************************************************************************)

Restorable(s) ==
    IF Trusted(journal[s], checkpoint[s]) THEN checkpoint[s].fills ELSE -1

(* What a step makes of the books and the files of one session.             *)
LEMMA StepOfSession == Inv /\ Next => \A s \in Sessions :
                 /\ filled'[s] \in {filled[s], filled[s] + 1}
                 /\ Restorable(s)' \in {-1, Restorable(s), filled'[s]}
                 /\ s # session' => /\ filled'[s] = filled[s]
                                    /\ Restorable(s)' = Restorable(s)
<1> SUFFICES ASSUME Inv, Next, NEW s \in Sessions
             PROVE  /\ filled'[s] \in {filled[s], filled[s] + 1}
                    /\ Restorable(s)' \in {-1, Restorable(s), filled'[s]}
                    /\ s # session' => /\ filled'[s] = filled[s]
                                       /\ Restorable(s)' = Restorable(s)
  OBVIOUS
<1> filled[s] \in Nat /\ filled'[s] \in Nat
  BY TypeNext, Bounds DEF Inv, TypeOK
<1> USE Bounds DEF Inv, TypeOK, Restorable
<1>1. CASE Boot
  <2>1. filled'[s] = filled[s]
    BY <1>1 DEF Boot, OpeningFills, FutureIsEmpty, Sessions
  <2> QED BY <2>1, <1>1 DEF Boot, fileVars
<1>2. CASE \E fills, orders, halts \in BOOLEAN : TradeBar(fills, orders, halts)
  BY <1>2 DEF TradeBar, fileVars
<1>3. CASE \E partly \in BOOLEAN : JournalFails(partly)
  <2> PICK partly \in BOOLEAN : JournalFails(partly)
    BY <1>3
  <2>1. CASE s = session
    <3>1. /\ journal'[s].fills = journal[s].fills
          /\ journal[s].torn => journal'[s].torn
          /\ UNCHANGED <<session, filled, checkpoint>>
      BY <2>1 DEF JournalFails, Journals
    <3> QED BY <3>1, <2>1 DEF Trusted, FillsMatch
  <2>2. CASE s # session
    BY <2>2 DEF JournalFails
  <2> QED BY <2>1, <2>2
<1>4. CASE JournalBar
  <2>1. CASE s = session /\ unsaved
    <3>1. /\ journal'[s].fills = journal[s].fills \union {filled[s]}
          /\ journal'[s].torn = journal[s].torn
          /\ UNCHANGED <<session, filled, checkpoint>>
      BY <2>1, <1>4 DEF JournalBar, Journals
    <3>2. checkpoint[s].fills \in Nat /\ checkpoint[s].fills <= filled[s]
      BY Bounds DEF CheckpointBehind, Checkpoints
    <3>3. CASE Trusted(journal'[s], checkpoint[s]) /\ ~ Trusted(journal[s], checkpoint[s])
      <4>1. filled[s] \in 1 .. checkpoint[s].fills
        BY <3>1, <3>2, <3>3 DEF Trusted, FillsMatch
      <4> QED BY <4>1, <3>1, <3>2, <3>3, <2>1
    <3> QED BY <3>1, <3>3, <2>1
  <2>2. CASE s # session \/ ~ unsaved
    BY <2>2, <1>4 DEF JournalBar
  <2> QED BY <2>1, <2>2
<1>5. CASE JournalKill
  <2>1. CASE s = session
    <3>1. /\ journal'[s].fills = journal[s].fills
          /\ journal'[s].torn = journal[s].torn
          /\ UNCHANGED <<session, filled, checkpoint>>
      BY <2>1, <1>5 DEF JournalKill, Journals, memoryVars
    <3> QED BY <3>1, <2>1 DEF Trusted, FillsMatch
  <2>2. CASE s # session
    BY <2>2, <1>5 DEF JournalKill, memoryVars
  <2> QED BY <2>1, <2>2
<1>6. CASE WriteCheckpoint
  BY <1>6 DEF WriteCheckpoint, Snapshot, memoryVars
<1>7. CASE FinalCheckpoint
  BY <1>7 DEF FinalCheckpoint, Snapshot, memoryVars
<1>8. CASE Crash \/ RequestStop
  <2>1. Die /\ pc # "down"
    BY <1>8 DEF Crash, RequestStop
  <2>2. /\ checkpoint'[s] \in {checkpoint[s], TornCheckpoint}
        /\ journal'[s] = journal[s] \/ journal'[s].torn
        /\ UNCHANGED <<session, filled>>
        /\ s # session => journal'[s] = journal[s] /\ checkpoint'[s] = checkpoint[s]
    BY <2>1, DieEffect DEF Die, memoryVars
  <2>3. TornCheckpoint.file = "torn"
    BY DEF TornCheckpoint, NoCheckpoint
  <2>4. CASE journal'[s].torn \/ checkpoint'[s] = TornCheckpoint
    BY <2>2, <2>3, <2>4 DEF Trusted
  <2>5. CASE journal'[s] = journal[s] /\ checkpoint'[s] = checkpoint[s]
    BY <2>2, <2>5
  <2> QED BY <2>2, <2>4, <2>5
<1>9. CASE UNCHANGED <<filled, journal, checkpoint>>
  BY <1>9
<1> QED BY <1>1, <1>2, <1>3, <1>4, <1>5, <1>6, <1>7, <1>8, <1>9
          DEF Next, EnterLoop, LeaveOnStop, LeaveWhenDrained, NextBar, SkipBar, TradeBar, StrategyRaises, JournalFails, DetectMutation, EndTurn, CloseSession, Report, TouchStop, CountError, vars, memoryVars, fileVars

(* Initial states are initial, and a step is a step or a stutter.           *)
THEOREM FilesImplementLedger == Spec => LedgerSpec
<1>1. Init => Ledger!Init
  BY DEF Init, Ledger!Init, Ledger!Untrusted, Trusted, NoCheckpoint
<1>2. Inv /\ [Next]_vars => [Ledger!Next]_(Ledger!ledgerVars)
  <2> SUFFICES ASSUME Inv, [Next]_vars
               PROVE  [Ledger!Next]_(Ledger!ledgerVars)
    OBVIOUS
  <2> DEFINE r == [s \in Sessions |-> Restorable(s)]
  <2>1. CASE UNCHANGED vars
    BY <2>1 DEF vars, memoryVars, fileVars, Ledger!ledgerVars
  <2>2. CASE Next /\ session' \in Sessions
    <3>1. \A s \in Sessions :
             /\ filled'[s] \in {filled[s], filled[s] + 1}
             /\ Restorable(s)' \in {-1, Restorable(s), filled'[s]}
             /\ s # session' => /\ filled'[s] = filled[s]
                                /\ Restorable(s)' = Restorable(s)
      BY <2>2, StepOfSession
    <3>2. filled \in [Sessions -> 0 .. MaxFills] /\ filled' \in [Sessions -> 0 .. MaxFills]
      BY <2>2, TypeNext DEF Inv, TypeOK
    <3>t. PICK t \in Sessions : t = session'
      BY <2>2
    <3>3. filled' = [filled EXCEPT ![t] = filled'[t]]
      BY <3>1, <3>2, <2>2, <3>t
    <3>4. r' = [r EXCEPT ![t] = r'[t]]
      BY <3>1, <2>2, <3>t
    <3>5. filled'[t] \in {filled[t], filled[t] + 1}
      BY <3>1, <2>2, <3>t
    <3>6. r'[t] \in {Ledger!Untrusted, r[t], filled'[t]}
      BY <3>1, <2>2, <3>t DEF Ledger!Untrusted
    <3>7. Ledger!Advance(t)
      BY <3>3, <3>4, <3>5, <3>6 DEF Ledger!Advance, Restorable
    <3> QED BY <3>7 DEF Ledger!Next
  <2>3. CASE Next /\ session' \notin Sessions
    <3>1. \A s \in Sessions : filled'[s] = filled[s] /\ Restorable(s)' = Restorable(s)
      BY <2>3, StepOfSession
    <3>2. filled \in [Sessions -> 0 .. MaxFills] /\ filled' \in [Sessions -> 0 .. MaxFills]
      BY <2>3, TypeNext DEF Inv, TypeOK
    <3>3. filled' = filled /\ r' = r
      BY <3>1, <3>2
    <3> QED BY <3>3 DEF Ledger!ledgerVars, Restorable
  <2> QED BY <2>1, <2>2, <2>3
<1> QED BY <1>1, <1>2, Invariance, PTL DEF Spec, LedgerSpec, Ledger!Spec
=============================================================================
