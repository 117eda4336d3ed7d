----------------------- MODULE ResearchCampaign_proofs -----------------------
(***************************************************************************)
(* ResearchCampaign, for every list of specs, every budget and every       *)
(* number of crashes: TEST is opened once per candidate, the trials are    *)
(* counted, a finished campaign stays finished, and the runner implements  *)
(* SealedTest.                                                             *)
(***************************************************************************)
EXTENDS ResearchCampaign, FiniteSetTheorems, TLAPS

(***************************************************************************)
(* The inductive invariant.                                                *)
(***************************************************************************)

BeforeTest == {"start", "admit", "screen", "validate", "validated", "seal"}

(* The row of the campaign is where the runner put it.                      *)
StageOfRow ==
    /\ stage = "start" => campaign = "READY"
    /\ stage \in {"admit", "screen", "validate", "validated"} =>
           campaign = "RUNNING"
    /\ stage \in {"seal", "sealed"} => campaign = "SEALING"
    /\ stage \in {"test", "tested", "decide"} => campaign = "TEST_PHASE"
    /\ stage = "report" => campaign = "FINALIZED"
    /\ stage = "ready" => campaign \notin {"none", "FINALIZED"}
    /\ campaign = "none" => stage = "idle"

(* Until the campaign is sealed TEST is closed and nothing is recorded.     *)
ClosedBeforeSeal ==
    campaign \in {"none", "DRAFT", "READY", "RUNNING"} \/ stage = "seal" =>
        /\ ~ sealed
        /\ records = {}
        /\ ~ report.written
        /\ \A c \in Candidates : opens[c] = 0

(* A runner that starts from DRAFT starts with nothing in memory.           *)
FreshBeforeTest ==
    stage \in BeforeTest \/ (stage = "ready" /\ campaign = "DRAFT") =>
        /\ log = {}
        /\ \A c \in Candidates :
               /\ decisions[c] = "none"
               /\ cand[c] \notin {"SEALED", "TEST_EVALUATED", "ACCEPTED"}

PoolIsPrefix ==
    stage \in {"start", "admit"} \/ (stage = "ready" /\ campaign = "DRAFT") =>
        \A c \in Candidates : c > generated => cand[c] = "none"

(* What the runner knows of the candidates that see TEST.                   *)
TestPhase ==
    stage \in {"sealed", "test", "tested", "decide", "report"} =>
        /\ sealed
        /\ ~ report.written
        /\ stage \in {"sealed", "test", "tested"} => records = {}
        /\ \A c \in Candidates :
            /\ cand[c] = "SEALED" =>
                   /\ c \in frozen
                   /\ stage \in {"sealed", "test", "tested"}
                   /\ opens[c] > 0 <=> stage = "tested" /\ FirstIn(c, "SEALED")
            /\ cand[c] = "TEST_EVALUATED" => opens[c] = 1
            /\ opens[c] > 0 =>
                   \/ cand[c] \in {"SEALED", "TEST_EVALUATED"}
                   \/ decisions[c] # "none"
            /\ stage = "report" /\ opens[c] > 0 => decisions[c] # "none"
            /\ c \in records => decisions[c] # "none"
            /\ stage \in {"sealed", "test", "tested"} => decisions[c] = "none"

Counters ==
    /\ trials.experiments <= ran /\ ran <= trials.experiments + 1
    /\ ran <= config.experiments
    /\ campaign \in {"none", "DRAFT", "READY"} => ran = 0
    /\ stage \notin {"idle", "ready"} => used.experiments = ran
    /\ stage = "ready" /\ campaign = "DRAFT" => used.experiments = 0
    /\ stage \in {"validated", "tested"} => ran = trials.experiments + 1
    /\ stage \notin {"idle", "ready", "validated", "tested"} =>
           ran = trials.experiments
    /\ records # {} \/ report.written => trials.experiments = ran

RejectedIsCounted ==
    rejectedCount = Count(cand, "REJECTED")

AcceptedIsCounted ==
    acceptedCount = Count(decisions, "accepted")

BarredAcceptsNothing ==
    config.eligibility = "barred" =>
        /\ records = {}
        /\ \A c \in Candidates : decisions[c] # "accepted"

(* Only windows that reach into the TEST period show it before the seal.    *)
PeeksAreWindows == peeked # {} => config.reaches

ReportIsLast == report.written => campaign = "FINALIZED" /\ stage = "idle"

IInv ==
    /\ TypeOK
    /\ StageOfRow
    /\ ClosedBeforeSeal
    /\ FreshBeforeTest
    /\ PoolIsPrefix
    /\ TestPhase
    /\ MeasuredOnce
    /\ PeeksAreWindows
    /\ Counters
    /\ RejectedIsCounted
    /\ AcceptedIsCounted
    /\ BarredAcceptsNothing
    /\ ReportIsLast
    /\ ReportExplains

(***************************************************************************)
(* Counting.                                                               *)
(***************************************************************************)

LEMMA Constants ==
    /\ N \in Nat
    /\ MaxCrashes \in Nat
    /\ Configs \subseteq
           [eligibility : Eligibilities, candidates : Nat, experiments : Nat,
            reaches : BOOLEAN]
  BY GeneratedAssumption, ConfigAssumption
     DEF GeneratedAssumption, ConfigAssumption

(* A function that changes at one place to or from a value has one more or  *)
(* as many places with that value.                                          *)
LEMMA CountOf ==
    ASSUME NEW f, NEW g, NEW v, NEW c \in Candidates, f[c] # v,
           \A d \in Candidates : d # c => g[d] = f[d]
    PROVE  /\ Count(f, v) \in Nat
           /\ g[c] = v => Count(g, v) = Count(f, v) + 1
           /\ g[c] # v => Count(g, v) = Count(f, v)
<1> DEFINE S == {d \in Candidates : f[d] = v}
           R == {d \in Candidates : g[d] = v}
<1>1. IsFiniteSet(Candidates)
  BY Constants, FS_Interval DEF Candidates
<1>2. IsFiniteSet(S) /\ c \notin S
  BY <1>1, FS_Subset
<1>3. Cardinality(S) \in Nat /\ Cardinality(S \union {c}) = Cardinality(S) + 1
  BY <1>2, FS_AddElement, FS_CardinalityType
<1>4. g[c] = v => R = S \union {c}
  OBVIOUS
<1>5. g[c] # v => R = S
  OBVIOUS
<1> QED BY <1>3, <1>4, <1>5 DEF Count

LEMMA CountOfNone ==
    ASSUME NEW f, NEW v, \A c \in Candidates : f[c] # v
    PROVE  Count(f, v) = 0
<1>1. {d \in Candidates : f[d] = v} = {}
  OBVIOUS
<1> QED BY <1>1, FS_EmptySet DEF Count

LEMMA CountOfSame ==
    ASSUME NEW f, NEW g, NEW v, \A c \in Candidates : f[c] = v <=> g[c] = v
    PROVE  Count(f, v) = Count(g, v)
<1>1. {d \in Candidates : f[d] = v} = {d \in Candidates : g[d] = v}
  OBVIOUS
<1> QED BY <1>1 DEF Count

LEMMA MoveType ==
    ASSUME TypeOK, NEW c \in Candidates, NEW state \in CandidateStates,
           Move(c, state)
    PROVE  cand' \in [Candidates -> CandidateStates] /\ rejectedCount' \in Nat
  BY DEF TypeOK, Move

(***************************************************************************)
(* The initial state and every step.                                       *)
(***************************************************************************)

LEMMA InitInv == Init => IInv
<1> SUFFICES ASSUME Init PROVE IInv
  OBVIOUS
<1> USE DEF Init, NoReport
<1>1. TypeOK
  <2>1. /\ cand \in [Candidates -> CandidateStates]
        /\ decisions \in [Candidates -> {"none", "accepted", "rejected"}]
        /\ opens \in [Candidates -> Nat]
    BY DEF CandidateStates
  <2>2. /\ trials \in [candidates : Nat, experiments : Nat, tests : Nat]
        /\ used \in [candidates : Nat, experiments : Nat]
        /\ report \in [written : BOOLEAN, accepted : Nat, rejected : Nat]
    OBVIOUS
  <2>3. generated \in 0 .. N /\ crashes \in 0 .. MaxCrashes
    BY Constants
  <2> QED BY <2>1, <2>2, <2>3 DEF TypeOK, CampaignStates, Stages
<1>2. RejectedIsCounted
  <2>1. \A c \in Candidates : cand[c] # "REJECTED"
    OBVIOUS
  <2> QED BY <2>1, CountOfNone DEF RejectedIsCounted
<1>3. AcceptedIsCounted
  <2>1. \A c \in Candidates : decisions[c] # "accepted"
    OBVIOUS
  <2> QED BY <2>1, CountOfNone DEF AcceptedIsCounted
<1>4. config.experiments \in Nat
  BY Constants
<1>5. Counters
  BY <1>4 DEF Counters
<1> QED BY <1>1, <1>2, <1>3, <1>5
        DEF IInv, StageOfRow, ClosedBeforeSeal, FreshBeforeTest, PoolIsPrefix,
            BeforeTest, TestPhase, MeasuredOnce, PeeksAreWindows,
            BarredAcceptsNothing, ReportIsLast, ReportExplains

(* Types.                                                                   *)
LEMMA TypeNext ==
    IInv /\ [Next]_vars => TypeOK'
<1> SUFFICES ASSUME IInv, [Next]_vars PROVE TypeOK'
  OBVIOUS
<1>1. CASE Create
  BY <1>1, Constants DEF IInv, TypeOK, CampaignStates, Stages,
     CandidateStates, Create, Goto, FreshMemory, rows, files, memory, history
<1>2. CASE Resume
  BY <1>2, Constants DEF IInv, TypeOK, CampaignStates, Stages,
     CandidateStates, Resume, Goto, FreshMemory, rows, files, memory, history
<1>3. CASE SetReady
  BY <1>3, Constants DEF IInv, TypeOK, CampaignStates, Stages,
     CandidateStates, SetReady, Goto, SetState, Transitions, rows, files,
     memory, history
<1>4. CASE Refuse
  BY <1>4, Constants DEF IInv, TypeOK, CampaignStates, Stages,
     CandidateStates, Refuse, Fail, Over, rows, files, memory, history
<1>5. CASE SetRunning
  BY <1>5, Constants DEF IInv, TypeOK, CampaignStates, Stages,
     CandidateStates, SetRunning, Goto, SetState, Transitions, rows, files,
     memory, history
<1>6. CASE AdmitOne
  <2>1. generated + 1 \in Candidates /\ generated + 1 \in 0 .. N
    <3>1. generated \in 0 .. N /\ generated < N
      BY <1>6 DEF IInv, TypeOK, AdmitOne
    <3> QED BY <3>1, Constants DEF Candidates
  <2>2. cand' \in [Candidates -> CandidateStates] /\ rejectedCount' \in Nat
    <3>1. \E state \in CandidateStates : Move(generated + 1, state)
      BY <1>6 DEF AdmitOne, CandidateStates
    <3> QED BY <2>1, <3>1, MoveType DEF IInv
  <2>3. used' \in [candidates : Nat, experiments : Nat]
    BY <1>6 DEF AdmitOne, IInv, TypeOK
  <2> QED BY <1>6, <2>1, <2>2, <2>3
          DEF AdmitOne, IInv, TypeOK, rows, files, history
<1>7. CASE EndAdmission
  BY <1>7, Constants DEF IInv, TypeOK, CampaignStates, Stages,
     CandidateStates, EndAdmission, Goto, rows, files, memory, history
<1>8. CASE BeginValidation
  BY <1>8, Constants DEF IInv, TypeOK, CampaignStates, Stages,
     CandidateStates, BeginValidation, Goto, NoneIn, rows, files, memory,
     history
<1>9. CASE EnterSealing
  BY <1>9, Constants DEF IInv, TypeOK, CampaignStates, Stages,
     CandidateStates, EnterSealing, Goto, SetState, Transitions, rows, files,
     memory, history
<1>10. CASE Seal
  BY <1>10, Constants DEF IInv, TypeOK, CampaignStates, Stages,
     CandidateStates, Seal, Goto, rows, files, memory, history
<1>11. CASE EnterTest
  BY <1>11, Constants DEF IInv, TypeOK, CampaignStates, Stages,
     CandidateStates, EnterTest, Goto, SetState, Transitions, rows, files,
     memory, history
<1>12. CASE BeginDecisions
  BY <1>12, Constants DEF IInv, TypeOK, CampaignStates, Stages,
     CandidateStates, BeginDecisions, Goto, NoneIn, rows, files, memory,
     history
<1>13. CASE Finalize
  BY <1>13, Constants DEF IInv, TypeOK, CampaignStates, Stages,
     CandidateStates, Finalize, Goto, SetState, Transitions, rows, files,
     memory, history
<1>14. CASE WriteReport
  BY <1>14, Constants DEF IInv, TypeOK, CampaignStates, Stages,
     CandidateStates, WriteReport, Goto, rows, files, memory, history
<1>15. CASE Raise
  BY <1>15, Constants DEF IInv, TypeOK, CampaignStates, Stages,
     CandidateStates, Raise, Fail, Over, rows, files, memory, history
<1>16. CASE Crash
  BY <1>16, Constants DEF IInv, TypeOK, CampaignStates, Stages,
     CandidateStates, Crash, rows, files, memory, history
<1>17. ASSUME NEW c \in Candidates, Screen(c) PROVE TypeOK'
  BY <1>17, Constants DEF IInv, TypeOK, CampaignStates, Stages,
     CandidateStates, Screen, Move, FirstIn, rows, files, memory, history
<1>18. ASSUME NEW c \in Candidates, RunValidation(c) PROVE TypeOK'
  BY <1>18, Constants DEF IInv, TypeOK, CampaignStates, Stages,
     CandidateStates, RunValidation, Goto, FirstIn, rows, files, memory,
     history
<1>19. ASSUME NEW c \in Candidates, CountValidation(c) PROVE TypeOK'
  BY <1>19, Constants DEF IInv, TypeOK, CampaignStates, Stages,
     CandidateStates, CountValidation, Goto, FirstIn, Move, rows, files,
     memory, history
<1>20. ASSUME NEW c \in Candidates, RunTest(c) PROVE TypeOK'
  BY <1>20, Constants DEF IInv, TypeOK, CampaignStates, Stages,
     CandidateStates, RunTest, Goto, FirstIn, Authorized, rows, files,
     memory, history
<1>21. ASSUME NEW c \in Candidates, RefuseTest(c) PROVE TypeOK'
  BY <1>21, Constants DEF IInv, TypeOK, CampaignStates, Stages,
     CandidateStates, RefuseTest, FirstIn, Move, rows, files, memory, history
<1>22. ASSUME NEW c \in Candidates, CountTest(c) PROVE TypeOK'
  <2>1. cand' \in [Candidates -> CandidateStates] /\ rejectedCount' \in Nat
    BY <1>22, MoveType DEF IInv, CountTest, CandidateStates
  <2>2. trials' \in [candidates : Nat, experiments : Nat, tests : Nat]
    BY <1>22 DEF CountTest, IInv, TypeOK
  <2> QED BY <1>22, <2>1, <2>2
          DEF CountTest, Goto, Stages, IInv, TypeOK, files, history
<1>23. ASSUME NEW c \in Candidates, RejectedEarlier(c) PROVE TypeOK'
  BY <1>23, Constants DEF IInv, TypeOK, CampaignStates, Stages,
     CandidateStates, RejectedEarlier, Due, Undecided, rows, files, memory,
     history
<1>24. ASSUME NEW c \in Candidates, Reject(c) PROVE TypeOK'
  BY <1>24, Constants DEF IInv, TypeOK, CampaignStates, Stages,
     CandidateStates, Reject, Due, Undecided, Move, rows, files, memory,
     history
<1>25. ASSUME NEW c \in Candidates, Accept(c) PROVE TypeOK'
  BY <1>25, Constants DEF IInv, TypeOK, CampaignStates, Stages,
     CandidateStates, Accept, Acceptable, Due, Undecided, Move, rows, files,
     memory, history
<1>26. ASSUME NEW c \in Candidates, AcceptUnwritten(c) PROVE TypeOK'
  BY <1>26, Constants DEF IInv, TypeOK, CampaignStates, Stages,
     CandidateStates, AcceptUnwritten, Acceptable, Due, Undecided, Move,
     rows, files, memory, history
<1>27. CASE UNCHANGED vars
  BY <1>27 DEF IInv, TypeOK, CampaignStates, Stages, CandidateStates, vars, rows, files, memory, history
<1> QED BY <1>1, <1>2, <1>3, <1>4, <1>5, <1>6, <1>7, <1>8, <1>9, <1>10,
           <1>11, <1>12, <1>13, <1>14, <1>15, <1>16, <1>17, <1>18, <1>19,
           <1>20, <1>21, <1>22, <1>23, <1>24, <1>25, <1>26,
           <1>27 DEF Next, Step

(* The row and the stage.                                                   *)
LEMMA StageNext ==
    IInv /\ [Next]_vars => StageOfRow'
<1> SUFFICES ASSUME IInv, [Next]_vars PROVE StageOfRow'
  OBVIOUS
<1>1. CASE Create
  BY <1>1 DEF IInv, StageOfRow, Create, Goto, FreshMemory, rows, files,
     memory, history
<1>2. CASE Resume
  BY <1>2 DEF IInv, StageOfRow, Resume, Goto, FreshMemory, rows, files,
     memory, history
<1>3. CASE SetReady
  BY <1>3 DEF IInv, StageOfRow, SetReady, Goto, SetState, Transitions, rows,
     files, memory, history
<1>4. CASE Refuse
  BY <1>4 DEF IInv, StageOfRow, Refuse, Fail, Over, rows, files, memory,
     history
<1>5. CASE SetRunning
  BY <1>5 DEF IInv, StageOfRow, SetRunning, Goto, SetState, Transitions,
     rows, files, memory, history
<1>6. CASE AdmitOne
  BY <1>6 DEF IInv, StageOfRow, AdmitOne, Move, rows, files, memory, history
<1>7. CASE EndAdmission
  BY <1>7 DEF IInv, StageOfRow, EndAdmission, Goto, rows, files, memory,
     history
<1>8. CASE BeginValidation
  BY <1>8 DEF IInv, StageOfRow, BeginValidation, Goto, NoneIn, rows, files,
     memory, history
<1>9. CASE EnterSealing
  BY <1>9 DEF IInv, StageOfRow, EnterSealing, Goto, SetState, Transitions,
     rows, files, memory, history
<1>10. CASE Seal
  BY <1>10 DEF IInv, StageOfRow, Seal, Goto, rows, files, memory, history
<1>11. CASE EnterTest
  BY <1>11 DEF IInv, StageOfRow, EnterTest, Goto, SetState, Transitions,
     rows, files, memory, history
<1>12. CASE BeginDecisions
  BY <1>12 DEF IInv, StageOfRow, BeginDecisions, Goto, NoneIn, rows, files,
     memory, history
<1>13. CASE Finalize
  BY <1>13 DEF IInv, StageOfRow, Finalize, Goto, SetState, Transitions, rows,
     files, memory, history
<1>14. CASE WriteReport
  BY <1>14 DEF IInv, StageOfRow, WriteReport, Goto, rows, files, memory,
     history
<1>15. CASE Raise
  BY <1>15 DEF IInv, StageOfRow, Raise, Fail, Over, rows, files, memory,
     history
<1>16. CASE Crash
  BY <1>16 DEF IInv, StageOfRow, Crash, rows, files, memory, history
<1>17. ASSUME NEW c \in Candidates, Screen(c) PROVE StageOfRow'
  BY <1>17 DEF IInv, StageOfRow, Screen, Move, FirstIn, rows, files, memory,
     history
<1>18. ASSUME NEW c \in Candidates, RunValidation(c) PROVE StageOfRow'
  BY <1>18 DEF IInv, StageOfRow, RunValidation, Goto, FirstIn, rows, files,
     memory, history
<1>19. ASSUME NEW c \in Candidates, CountValidation(c) PROVE StageOfRow'
  BY <1>19 DEF IInv, StageOfRow, CountValidation, Goto, FirstIn, Move, rows,
     files, memory, history
<1>20. ASSUME NEW c \in Candidates, RunTest(c) PROVE StageOfRow'
  BY <1>20 DEF IInv, StageOfRow, RunTest, Goto, FirstIn, Authorized, rows,
     files, memory, history
<1>21. ASSUME NEW c \in Candidates, RefuseTest(c) PROVE StageOfRow'
  BY <1>21 DEF IInv, StageOfRow, RefuseTest, FirstIn, Move, rows, files,
     memory, history
<1>22. ASSUME NEW c \in Candidates, CountTest(c) PROVE StageOfRow'
  BY <1>22 DEF IInv, StageOfRow, CountTest, Goto, FirstIn, Move, rows, files,
     memory, history
<1>23. ASSUME NEW c \in Candidates, RejectedEarlier(c) PROVE StageOfRow'
  BY <1>23 DEF IInv, StageOfRow, RejectedEarlier, Due, Undecided, rows,
     files, memory, history
<1>24. ASSUME NEW c \in Candidates, Reject(c) PROVE StageOfRow'
  BY <1>24 DEF IInv, StageOfRow, Reject, Due, Undecided, Move, rows, files,
     memory, history
<1>25. ASSUME NEW c \in Candidates, Accept(c) PROVE StageOfRow'
  BY <1>25 DEF IInv, StageOfRow, Accept, Acceptable, Due, Undecided, Move,
     rows, files, memory, history
<1>26. ASSUME NEW c \in Candidates, AcceptUnwritten(c) PROVE StageOfRow'
  BY <1>26 DEF IInv, StageOfRow, AcceptUnwritten, Acceptable, Due, Undecided,
     Move, rows, files, memory, history
<1>27. CASE UNCHANGED vars
  BY <1>27 DEF IInv, StageOfRow, vars, rows, files, memory, history
<1> QED BY <1>1, <1>2, <1>3, <1>4, <1>5, <1>6, <1>7, <1>8, <1>9, <1>10,
           <1>11, <1>12, <1>13, <1>14, <1>15, <1>16, <1>17, <1>18, <1>19,
           <1>20, <1>21, <1>22, <1>23, <1>24, <1>25, <1>26,
           <1>27 DEF Next, Step

(* Before the seal.                                                         *)
LEMMA ClosedNext ==
    IInv /\ [Next]_vars => ClosedBeforeSeal'
<1> SUFFICES ASSUME IInv, [Next]_vars PROVE ClosedBeforeSeal'
  OBVIOUS
<1>1. CASE Create
  BY <1>1 DEF IInv, ClosedBeforeSeal, StageOfRow, Create, Goto, FreshMemory,
     rows, files, memory, history
<1>2. CASE Resume
  BY <1>2 DEF IInv, ClosedBeforeSeal, StageOfRow, Resume, Goto, FreshMemory,
     rows, files, memory, history
<1>3. CASE SetReady
  BY <1>3 DEF IInv, ClosedBeforeSeal, StageOfRow, SetReady, Goto, SetState,
     Transitions, rows, files, memory, history
<1>4. CASE Refuse
  BY <1>4 DEF IInv, ClosedBeforeSeal, StageOfRow, Refuse, Fail, Over, rows,
     files, memory, history
<1>5. CASE SetRunning
  BY <1>5 DEF IInv, ClosedBeforeSeal, StageOfRow, SetRunning, Goto, SetState,
     Transitions, rows, files, memory, history
<1>6. CASE AdmitOne
  BY <1>6 DEF IInv, ClosedBeforeSeal, StageOfRow, AdmitOne, Move, rows,
     files, memory, history
<1>7. CASE EndAdmission
  BY <1>7 DEF IInv, ClosedBeforeSeal, StageOfRow, EndAdmission, Goto, rows,
     files, memory, history
<1>8. CASE BeginValidation
  BY <1>8 DEF IInv, ClosedBeforeSeal, StageOfRow, BeginValidation, Goto,
     NoneIn, rows, files, memory, history
<1>9. CASE EnterSealing
  BY <1>9 DEF IInv, ClosedBeforeSeal, StageOfRow, EnterSealing, Goto,
     SetState, Transitions, rows, files, memory, history
<1>10. CASE Seal
  BY <1>10 DEF IInv, ClosedBeforeSeal, StageOfRow, Seal, Goto, rows, files,
     memory, history
<1>11. CASE EnterTest
  BY <1>11 DEF IInv, ClosedBeforeSeal, StageOfRow, EnterTest, Goto, SetState,
     Transitions, rows, files, memory, history
<1>12. CASE BeginDecisions
  BY <1>12 DEF IInv, ClosedBeforeSeal, StageOfRow, BeginDecisions, Goto,
     NoneIn, rows, files, memory, history
<1>13. CASE Finalize
  BY <1>13 DEF IInv, ClosedBeforeSeal, StageOfRow, Finalize, Goto, SetState,
     Transitions, rows, files, memory, history
<1>14. CASE WriteReport
  BY <1>14 DEF IInv, ClosedBeforeSeal, StageOfRow, WriteReport, Goto, rows,
     files, memory, history
<1>15. CASE Raise
  BY <1>15 DEF IInv, ClosedBeforeSeal, StageOfRow, Raise, Fail, Over, rows,
     files, memory, history
<1>16. CASE Crash
  BY <1>16 DEF IInv, ClosedBeforeSeal, StageOfRow, Crash, rows, files,
     memory, history
<1>17. ASSUME NEW c \in Candidates, Screen(c) PROVE ClosedBeforeSeal'
  BY <1>17 DEF IInv, ClosedBeforeSeal, StageOfRow, Screen, Move, FirstIn,
     rows, files, memory, history
<1>18. ASSUME NEW c \in Candidates, RunValidation(c) PROVE ClosedBeforeSeal'
  BY <1>18 DEF IInv, ClosedBeforeSeal, StageOfRow, RunValidation, Goto,
     FirstIn, rows, files, memory, history
<1>19. ASSUME NEW c \in Candidates, CountValidation(c) PROVE ClosedBeforeSeal'
  BY <1>19 DEF IInv, ClosedBeforeSeal, StageOfRow, CountValidation, Goto,
     FirstIn, Move, rows, files, memory, history
<1>20. ASSUME NEW c \in Candidates, RunTest(c) PROVE ClosedBeforeSeal'
  BY <1>20 DEF IInv, ClosedBeforeSeal, StageOfRow, RunTest, Goto, FirstIn,
     Authorized, rows, files, memory, history
<1>21. ASSUME NEW c \in Candidates, RefuseTest(c) PROVE ClosedBeforeSeal'
  BY <1>21 DEF IInv, ClosedBeforeSeal, StageOfRow, RefuseTest, FirstIn, Move,
     rows, files, memory, history
<1>22. ASSUME NEW c \in Candidates, CountTest(c) PROVE ClosedBeforeSeal'
  BY <1>22 DEF IInv, ClosedBeforeSeal, StageOfRow, CountTest, Goto, FirstIn,
     Move, rows, files, memory, history
<1>23. ASSUME NEW c \in Candidates, RejectedEarlier(c) PROVE ClosedBeforeSeal'
  BY <1>23 DEF IInv, ClosedBeforeSeal, StageOfRow, RejectedEarlier, Due,
     Undecided, rows, files, memory, history
<1>24. ASSUME NEW c \in Candidates, Reject(c) PROVE ClosedBeforeSeal'
  BY <1>24 DEF IInv, ClosedBeforeSeal, StageOfRow, Reject, Due, Undecided,
     Move, rows, files, memory, history
<1>25. ASSUME NEW c \in Candidates, Accept(c) PROVE ClosedBeforeSeal'
  BY <1>25 DEF IInv, ClosedBeforeSeal, StageOfRow, Accept, Acceptable, Due,
     Undecided, Move, rows, files, memory, history
<1>26. ASSUME NEW c \in Candidates, AcceptUnwritten(c) PROVE ClosedBeforeSeal'
  BY <1>26 DEF IInv, ClosedBeforeSeal, StageOfRow, AcceptUnwritten,
     Acceptable, Due, Undecided, Move, rows, files, memory, history
<1>27. CASE UNCHANGED vars
  BY <1>27 DEF IInv, ClosedBeforeSeal, StageOfRow, vars, rows, files, memory, history
<1> QED BY <1>1, <1>2, <1>3, <1>4, <1>5, <1>6, <1>7, <1>8, <1>9, <1>10,
           <1>11, <1>12, <1>13, <1>14, <1>15, <1>16, <1>17, <1>18, <1>19,
           <1>20, <1>21, <1>22, <1>23, <1>24, <1>25, <1>26,
           <1>27 DEF Next, Step

(* A fresh runner.                                                          *)
LEMMA FreshNext ==
    IInv /\ [Next]_vars => FreshBeforeTest'
<1> SUFFICES ASSUME IInv, [Next]_vars PROVE FreshBeforeTest'
  OBVIOUS
<1>1. CASE Create
  BY <1>1 DEF IInv, FreshBeforeTest, StageOfRow, BeforeTest, TypeOK, Create,
     Goto, FreshMemory, rows, files, memory, history
<1>2. CASE Resume
  BY <1>2 DEF IInv, FreshBeforeTest, StageOfRow, BeforeTest, TypeOK, Resume,
     Goto, FreshMemory, rows, files, memory, history
<1>3. CASE SetReady
  BY <1>3 DEF IInv, FreshBeforeTest, StageOfRow, BeforeTest, TypeOK,
     SetReady, Goto, SetState, Transitions, rows, files, memory, history
<1>4. CASE Refuse
  BY <1>4 DEF IInv, FreshBeforeTest, StageOfRow, BeforeTest, TypeOK, Refuse,
     Fail, Over, rows, files, memory, history
<1>5. CASE SetRunning
  BY <1>5 DEF IInv, FreshBeforeTest, StageOfRow, BeforeTest, TypeOK,
     SetRunning, Goto, SetState, Transitions, rows, files, memory, history
<1>6. CASE AdmitOne
  BY <1>6 DEF IInv, FreshBeforeTest, StageOfRow, BeforeTest, TypeOK,
     AdmitOne, Move, rows, files, memory, history
<1>7. CASE EndAdmission
  BY <1>7 DEF IInv, FreshBeforeTest, StageOfRow, BeforeTest, TypeOK,
     EndAdmission, Goto, rows, files, memory, history
<1>8. CASE BeginValidation
  BY <1>8 DEF IInv, FreshBeforeTest, StageOfRow, BeforeTest, TypeOK,
     BeginValidation, Goto, NoneIn, rows, files, memory, history
<1>9. CASE EnterSealing
  BY <1>9 DEF IInv, FreshBeforeTest, StageOfRow, BeforeTest, TypeOK,
     EnterSealing, Goto, SetState, Transitions, rows, files, memory, history
<1>10. CASE Seal
  BY <1>10 DEF IInv, FreshBeforeTest, StageOfRow, BeforeTest, TypeOK, Seal,
     Goto, rows, files, memory, history
<1>11. CASE EnterTest
  BY <1>11 DEF IInv, FreshBeforeTest, StageOfRow, BeforeTest, TypeOK,
     EnterTest, Goto, SetState, Transitions, rows, files, memory, history
<1>12. CASE BeginDecisions
  BY <1>12 DEF IInv, FreshBeforeTest, StageOfRow, BeforeTest, TypeOK,
     BeginDecisions, Goto, NoneIn, rows, files, memory, history
<1>13. CASE Finalize
  BY <1>13 DEF IInv, FreshBeforeTest, StageOfRow, BeforeTest, TypeOK,
     Finalize, Goto, SetState, Transitions, rows, files, memory, history
<1>14. CASE WriteReport
  BY <1>14 DEF IInv, FreshBeforeTest, StageOfRow, BeforeTest, TypeOK,
     WriteReport, Goto, rows, files, memory, history
<1>15. CASE Raise
  BY <1>15 DEF IInv, FreshBeforeTest, StageOfRow, BeforeTest, TypeOK, Raise,
     Fail, Over, rows, files, memory, history
<1>16. CASE Crash
  BY <1>16 DEF IInv, FreshBeforeTest, StageOfRow, BeforeTest, TypeOK, Crash,
     rows, files, memory, history
<1>17. ASSUME NEW c \in Candidates, Screen(c) PROVE FreshBeforeTest'
  BY <1>17 DEF IInv, FreshBeforeTest, StageOfRow, BeforeTest, TypeOK, Screen,
     Move, FirstIn, rows, files, memory, history
<1>18. ASSUME NEW c \in Candidates, RunValidation(c) PROVE FreshBeforeTest'
  BY <1>18 DEF IInv, FreshBeforeTest, StageOfRow, BeforeTest, TypeOK,
     RunValidation, Goto, FirstIn, rows, files, memory, history
<1>19. ASSUME NEW c \in Candidates, CountValidation(c) PROVE FreshBeforeTest'
  BY <1>19 DEF IInv, FreshBeforeTest, StageOfRow, BeforeTest, TypeOK,
     CountValidation, Goto, FirstIn, Move, rows, files, memory, history
<1>20. ASSUME NEW c \in Candidates, RunTest(c) PROVE FreshBeforeTest'
  BY <1>20 DEF IInv, FreshBeforeTest, StageOfRow, BeforeTest, TypeOK,
     RunTest, Goto, FirstIn, Authorized, rows, files, memory, history
<1>21. ASSUME NEW c \in Candidates, RefuseTest(c) PROVE FreshBeforeTest'
  BY <1>21 DEF IInv, FreshBeforeTest, StageOfRow, BeforeTest, TypeOK,
     RefuseTest, FirstIn, Move, rows, files, memory, history
<1>22. ASSUME NEW c \in Candidates, CountTest(c) PROVE FreshBeforeTest'
  BY <1>22 DEF IInv, FreshBeforeTest, StageOfRow, BeforeTest, TypeOK,
     CountTest, Goto, FirstIn, Move, rows, files, memory, history
<1>23. ASSUME NEW c \in Candidates, RejectedEarlier(c) PROVE FreshBeforeTest'
  BY <1>23 DEF IInv, FreshBeforeTest, StageOfRow, BeforeTest, TypeOK,
     RejectedEarlier, Due, Undecided, rows, files, memory, history
<1>24. ASSUME NEW c \in Candidates, Reject(c) PROVE FreshBeforeTest'
  BY <1>24 DEF IInv, FreshBeforeTest, StageOfRow, BeforeTest, TypeOK, Reject,
     Due, Undecided, Move, rows, files, memory, history
<1>25. ASSUME NEW c \in Candidates, Accept(c) PROVE FreshBeforeTest'
  BY <1>25 DEF IInv, FreshBeforeTest, StageOfRow, BeforeTest, TypeOK, Accept,
     Acceptable, Due, Undecided, Move, rows, files, memory, history
<1>26. ASSUME NEW c \in Candidates, AcceptUnwritten(c) PROVE FreshBeforeTest'
  BY <1>26 DEF IInv, FreshBeforeTest, StageOfRow, BeforeTest, TypeOK,
     AcceptUnwritten, Acceptable, Due, Undecided, Move, rows, files, memory,
     history
<1>27. CASE UNCHANGED vars
  BY <1>27 DEF IInv, FreshBeforeTest, StageOfRow, BeforeTest, TypeOK, vars, rows, files, memory, history
<1> QED BY <1>1, <1>2, <1>3, <1>4, <1>5, <1>6, <1>7, <1>8, <1>9, <1>10,
           <1>11, <1>12, <1>13, <1>14, <1>15, <1>16, <1>17, <1>18, <1>19,
           <1>20, <1>21, <1>22, <1>23, <1>24, <1>25, <1>26,
           <1>27 DEF Next, Step

(* The pool in admission.                                                   *)
LEMMA PrefixNext ==
    IInv /\ [Next]_vars => PoolIsPrefix'
<1> SUFFICES ASSUME IInv, [Next]_vars PROVE PoolIsPrefix'
  OBVIOUS
<1>1. CASE Create
  BY <1>1 DEF IInv, PoolIsPrefix, StageOfRow, TypeOK, Create, Goto,
     FreshMemory, rows, files, memory, history
<1>2. CASE Resume
  BY <1>2 DEF IInv, PoolIsPrefix, StageOfRow, TypeOK, Resume, Goto,
     FreshMemory, rows, files, memory, history
<1>3. CASE SetReady
  BY <1>3 DEF IInv, PoolIsPrefix, StageOfRow, TypeOK, SetReady, Goto,
     SetState, Transitions, rows, files, memory, history
<1>4. CASE Refuse
  BY <1>4 DEF IInv, PoolIsPrefix, StageOfRow, TypeOK, Refuse, Fail, Over,
     rows, files, memory, history
<1>5. CASE SetRunning
  BY <1>5 DEF IInv, PoolIsPrefix, StageOfRow, TypeOK, SetRunning, Goto,
     SetState, Transitions, rows, files, memory, history
<1>6. CASE AdmitOne
  BY <1>6 DEF IInv, PoolIsPrefix, StageOfRow, TypeOK, AdmitOne, Move, rows,
     files, memory, history, Candidates
<1>7. CASE EndAdmission
  BY <1>7 DEF IInv, PoolIsPrefix, StageOfRow, TypeOK, EndAdmission, Goto,
     rows, files, memory, history
<1>8. CASE BeginValidation
  BY <1>8 DEF IInv, PoolIsPrefix, StageOfRow, TypeOK, BeginValidation, Goto,
     NoneIn, rows, files, memory, history
<1>9. CASE EnterSealing
  BY <1>9 DEF IInv, PoolIsPrefix, StageOfRow, TypeOK, EnterSealing, Goto,
     SetState, Transitions, rows, files, memory, history
<1>10. CASE Seal
  BY <1>10 DEF IInv, PoolIsPrefix, StageOfRow, TypeOK, Seal, Goto, rows,
     files, memory, history
<1>11. CASE EnterTest
  BY <1>11 DEF IInv, PoolIsPrefix, StageOfRow, TypeOK, EnterTest, Goto,
     SetState, Transitions, rows, files, memory, history
<1>12. CASE BeginDecisions
  BY <1>12 DEF IInv, PoolIsPrefix, StageOfRow, TypeOK, BeginDecisions, Goto,
     NoneIn, rows, files, memory, history
<1>13. CASE Finalize
  BY <1>13 DEF IInv, PoolIsPrefix, StageOfRow, TypeOK, Finalize, Goto,
     SetState, Transitions, rows, files, memory, history
<1>14. CASE WriteReport
  BY <1>14 DEF IInv, PoolIsPrefix, StageOfRow, TypeOK, WriteReport, Goto,
     rows, files, memory, history
<1>15. CASE Raise
  BY <1>15 DEF IInv, PoolIsPrefix, StageOfRow, TypeOK, Raise, Fail, Over,
     rows, files, memory, history
<1>16. CASE Crash
  BY <1>16 DEF IInv, PoolIsPrefix, StageOfRow, TypeOK, Crash, rows, files,
     memory, history
<1>17. ASSUME NEW c \in Candidates, Screen(c) PROVE PoolIsPrefix'
  BY <1>17 DEF IInv, PoolIsPrefix, StageOfRow, TypeOK, Screen, Move, FirstIn,
     rows, files, memory, history
<1>18. ASSUME NEW c \in Candidates, RunValidation(c) PROVE PoolIsPrefix'
  BY <1>18 DEF IInv, PoolIsPrefix, StageOfRow, TypeOK, RunValidation, Goto,
     FirstIn, rows, files, memory, history
<1>19. ASSUME NEW c \in Candidates, CountValidation(c) PROVE PoolIsPrefix'
  BY <1>19 DEF IInv, PoolIsPrefix, StageOfRow, TypeOK, CountValidation, Goto,
     FirstIn, Move, rows, files, memory, history
<1>20. ASSUME NEW c \in Candidates, RunTest(c) PROVE PoolIsPrefix'
  BY <1>20 DEF IInv, PoolIsPrefix, StageOfRow, TypeOK, RunTest, Goto,
     FirstIn, Authorized, rows, files, memory, history
<1>21. ASSUME NEW c \in Candidates, RefuseTest(c) PROVE PoolIsPrefix'
  BY <1>21 DEF IInv, PoolIsPrefix, StageOfRow, TypeOK, RefuseTest, FirstIn,
     Move, rows, files, memory, history
<1>22. ASSUME NEW c \in Candidates, CountTest(c) PROVE PoolIsPrefix'
  BY <1>22 DEF IInv, PoolIsPrefix, StageOfRow, TypeOK, CountTest, Goto,
     FirstIn, Move, rows, files, memory, history
<1>23. ASSUME NEW c \in Candidates, RejectedEarlier(c) PROVE PoolIsPrefix'
  BY <1>23 DEF IInv, PoolIsPrefix, StageOfRow, TypeOK, RejectedEarlier, Due,
     Undecided, rows, files, memory, history
<1>24. ASSUME NEW c \in Candidates, Reject(c) PROVE PoolIsPrefix'
  BY <1>24 DEF IInv, PoolIsPrefix, StageOfRow, TypeOK, Reject, Due,
     Undecided, Move, rows, files, memory, history
<1>25. ASSUME NEW c \in Candidates, Accept(c) PROVE PoolIsPrefix'
  BY <1>25 DEF IInv, PoolIsPrefix, StageOfRow, TypeOK, Accept, Acceptable,
     Due, Undecided, Move, rows, files, memory, history
<1>26. ASSUME NEW c \in Candidates, AcceptUnwritten(c) PROVE PoolIsPrefix'
  BY <1>26 DEF IInv, PoolIsPrefix, StageOfRow, TypeOK, AcceptUnwritten,
     Acceptable, Due, Undecided, Move, rows, files, memory, history
<1>27. CASE UNCHANGED vars
  BY <1>27 DEF IInv, PoolIsPrefix, StageOfRow, TypeOK, vars, rows, files, memory, history
<1> QED BY <1>1, <1>2, <1>3, <1>4, <1>5, <1>6, <1>7, <1>8, <1>9, <1>10,
           <1>11, <1>12, <1>13, <1>14, <1>15, <1>16, <1>17, <1>18, <1>19,
           <1>20, <1>21, <1>22, <1>23, <1>24, <1>25, <1>26,
           <1>27 DEF Next, Step

LEMMA MoveCounts ==
    ASSUME TypeOK, RejectedIsCounted, NEW c \in Candidates,
           NEW state, Move(c, state), cand[c] # "REJECTED"
    PROVE  RejectedIsCounted'
<1>1. /\ \A d \in Candidates : d # c => cand'[d] = cand[d]
      /\ cand'[c] = state
  BY DEF TypeOK, Move
<1>2. /\ Count(cand, "REJECTED") \in Nat
      /\ state = "REJECTED" => Count(cand', "REJECTED") = Count(cand, "REJECTED") + 1
      /\ state # "REJECTED" => Count(cand', "REJECTED") = Count(cand, "REJECTED")
  BY <1>1, CountOf
<1> QED BY <1>2 DEF RejectedIsCounted, Move

(* The count of the rejected.                                               *)
LEMMA RejectedNext ==
    IInv /\ [Next]_vars => RejectedIsCounted'
<1> SUFFICES ASSUME IInv, [Next]_vars PROVE RejectedIsCounted'
  OBVIOUS
<1>1. CASE Create
  <2>1. cand' = [c \in Candidates |-> "none"] /\ rejectedCount' = 0
    BY <1>1 DEF Create, FreshMemory
  <2>2. \A c \in Candidates : cand'[c] # "REJECTED"
    BY <2>1
  <2> QED BY <2>1, <2>2, CountOfNone DEF RejectedIsCounted
<1>2. CASE Resume
  <2>1. cand' = [c \in Candidates |-> "none"] /\ rejectedCount' = 0
    BY <1>2 DEF Resume, FreshMemory
  <2>2. \A c \in Candidates : cand'[c] # "REJECTED"
    BY <2>1
  <2> QED BY <2>1, <2>2, CountOfNone DEF RejectedIsCounted
<1>3. CASE AdmitOne
  <2>1. generated + 1 \in Candidates /\ cand[generated + 1] = "none"
    <3>1. generated \in 0 .. N /\ generated < N /\ stage = "admit"
      BY <1>3 DEF IInv, TypeOK, AdmitOne
    <3>2. generated + 1 \in Candidates /\ generated + 1 > generated
      BY <3>1, Constants DEF Candidates
    <3> QED BY <3>1, <3>2 DEF IInv, PoolIsPrefix
  <2>2. \E state : Move(generated + 1, state)
    BY <1>3 DEF AdmitOne
  <2> QED BY <2>1, <2>2, MoveCounts DEF IInv
<1>4. CASE Seal
  <2>1. /\ rejectedCount' = rejectedCount
        /\ \A c \in Candidates : cand'[c] = "REJECTED" <=> cand[c] = "REJECTED"
    BY <1>4 DEF Seal
  <2> QED BY <2>1, CountOfSame DEF IInv, RejectedIsCounted
<1>5. ASSUME NEW c \in Candidates, Screen(c) PROVE RejectedIsCounted'
  <2>1. cand[c] # "REJECTED" /\ \E state : Move(c, state)
    BY <1>5 DEF Screen, FirstIn
  <2> QED BY <2>1, MoveCounts DEF IInv
<1>6. ASSUME NEW c \in Candidates, CountValidation(c) PROVE RejectedIsCounted'
  <2>1. cand[c] # "REJECTED" /\ \E state : Move(c, state)
    BY <1>6 DEF CountValidation, FirstIn
  <2> QED BY <2>1, MoveCounts DEF IInv
<1>7. ASSUME NEW c \in Candidates, RefuseTest(c) PROVE RejectedIsCounted'
  <2>1. cand[c] # "REJECTED" /\ \E state : Move(c, state)
    BY <1>7 DEF RefuseTest, FirstIn
  <2> QED BY <2>1, MoveCounts DEF IInv
<1>8. ASSUME NEW c \in Candidates, CountTest(c) PROVE RejectedIsCounted'
  <2>1. cand[c] # "REJECTED" /\ \E state : Move(c, state)
    BY <1>8 DEF CountTest, FirstIn
  <2> QED BY <2>1, MoveCounts DEF IInv
<1>9. ASSUME NEW c \in Candidates, Reject(c) PROVE RejectedIsCounted'
  <2>1. cand[c] # "REJECTED" /\ \E state : Move(c, state)
    BY <1>9 DEF Reject, Due
  <2> QED BY <2>1, MoveCounts DEF IInv
<1>10. ASSUME NEW c \in Candidates, Accept(c) PROVE RejectedIsCounted'
  <2>1. cand[c] # "REJECTED" /\ \E state : Move(c, state)
    BY <1>10 DEF Accept, Acceptable, Due
  <2> QED BY <2>1, MoveCounts DEF IInv
<1>11. ASSUME NEW c \in Candidates, AcceptUnwritten(c) PROVE RejectedIsCounted'
  <2>1. cand[c] # "REJECTED" /\ \E state : Move(c, state)
    BY <1>11 DEF AcceptUnwritten, Acceptable, Due
  <2> QED BY <2>1, MoveCounts DEF IInv
<1>12. CASE UNCHANGED <<cand, rejectedCount>>
  BY <1>12 DEF IInv, RejectedIsCounted
<1>13. SetReady \/ Refuse \/ SetRunning \/ EndAdmission \/
        BeginValidation \/ EnterSealing \/ EnterTest \/ BeginDecisions \/
        Finalize \/ WriteReport \/ Raise \/ Crash
        => UNCHANGED <<cand, rejectedCount>>
  BY DEF SetReady, Goto, SetState, Transitions, Refuse, Fail, Over,
     SetRunning, EndAdmission, BeginValidation, NoneIn, EnterSealing,
     EnterTest, BeginDecisions, Finalize, WriteReport, Raise, Crash, rows,
     files, memory, history
<1>14. ASSUME NEW c \in Candidates,
            RunValidation(c) \/ RunTest(c) \/ RejectedEarlier(c)
     PROVE  UNCHANGED <<cand, rejectedCount>>
  BY <1>14 DEF RunValidation, Goto, FirstIn, RunTest, Authorized,
     RejectedEarlier, Due, Undecided, rows, files, memory, history
<1>15. UNCHANGED vars => UNCHANGED <<cand, rejectedCount>>
  BY DEF vars, rows, files, memory, history
<1> QED BY <1>1, <1>2, <1>3, <1>4, <1>5, <1>6, <1>7, <1>8, <1>9, <1>10,
           <1>11, <1>12, <1>13, <1>14, <1>15 DEF Next, Step

DecideAs(c, verdict) ==
    /\ decisions[c] = "none"
    /\ decisions' = [decisions EXCEPT ![c] = verdict]
    /\ acceptedCount' =
           IF verdict = "accepted" THEN acceptedCount + 1 ELSE acceptedCount

LEMMA DecisionCounts ==
    ASSUME TypeOK, AcceptedIsCounted, NEW c \in Candidates, NEW verdict,
           DecideAs(c, verdict)
    PROVE  AcceptedIsCounted'
<1>1. /\ \A d \in Candidates : d # c => decisions'[d] = decisions[d]
      /\ decisions'[c] = verdict
      /\ decisions[c] # "accepted"
  BY DEF TypeOK, DecideAs
<1>2. /\ Count(decisions, "accepted") \in Nat
      /\ verdict = "accepted" =>
             Count(decisions', "accepted") = Count(decisions, "accepted") + 1
      /\ verdict # "accepted" =>
             Count(decisions', "accepted") = Count(decisions, "accepted")
  BY <1>1, CountOf
<1> QED BY <1>2 DEF AcceptedIsCounted, DecideAs

(* The count of the accepted.                                               *)
LEMMA AcceptedNext ==
    IInv /\ [Next]_vars => AcceptedIsCounted'
<1> SUFFICES ASSUME IInv, [Next]_vars PROVE AcceptedIsCounted'
  OBVIOUS
<1>1. CASE Create
  <2>1. decisions' = [c \in Candidates |-> "none"] /\ acceptedCount' = 0
    BY <1>1 DEF Create, FreshMemory
  <2>2. \A c \in Candidates : decisions'[c] # "accepted"
    BY <2>1
  <2> QED BY <2>1, <2>2, CountOfNone DEF AcceptedIsCounted
<1>2. CASE Resume
  <2>1. decisions' = [c \in Candidates |-> "none"] /\ acceptedCount' = 0
    BY <1>2 DEF Resume, FreshMemory
  <2>2. \A c \in Candidates : decisions'[c] # "accepted"
    BY <2>1
  <2> QED BY <2>1, <2>2, CountOfNone DEF AcceptedIsCounted
<1>3. CASE Finalize
  <2>1. CASE config.eligibility = "barred"
    <3>1. decisions' = decisions /\ acceptedCount' = 0
      BY <1>3, <2>1 DEF Finalize
    <3>2. \A c \in Candidates : decisions'[c] # "accepted"
      BY <2>1, <3>1 DEF IInv, BarredAcceptsNothing
    <3> QED BY <3>1, <3>2, CountOfNone DEF AcceptedIsCounted
  <2>2. CASE config.eligibility # "barred"
    <3>1. UNCHANGED <<decisions, acceptedCount>>
      BY <1>3, <2>2 DEF Finalize
    <3> QED BY <3>1 DEF IInv, AcceptedIsCounted
  <2> QED BY <2>1, <2>2
<1>4. ASSUME NEW c \in Candidates, RejectedEarlier(c) PROVE AcceptedIsCounted'
  <2>1. DecideAs(c, "rejected")
    BY <1>4 DEF RejectedEarlier, Due, Undecided, DecideAs
  <2> QED BY <2>1, DecisionCounts DEF IInv
<1>5. ASSUME NEW c \in Candidates, Reject(c) PROVE AcceptedIsCounted'
  <2>1. DecideAs(c, "rejected")
    BY <1>5 DEF Reject, Due, Undecided, DecideAs
  <2> QED BY <2>1, DecisionCounts DEF IInv
<1>6. ASSUME NEW c \in Candidates, Accept(c) PROVE AcceptedIsCounted'
  <2>1. DecideAs(c, "accepted")
    BY <1>6 DEF Accept, Acceptable, Due, Undecided, DecideAs
  <2> QED BY <2>1, DecisionCounts DEF IInv
<1>7. ASSUME NEW c \in Candidates, AcceptUnwritten(c) PROVE AcceptedIsCounted'
  <2>1. DecideAs(c, "rejected")
    BY <1>7 DEF AcceptUnwritten, Acceptable, Due, Undecided, DecideAs
  <2> QED BY <2>1, DecisionCounts DEF IInv
<1>8. CASE UNCHANGED <<decisions, acceptedCount>>
  BY <1>8 DEF IInv, AcceptedIsCounted
<1>9. SetReady \/ Refuse \/ SetRunning \/ AdmitOne \/ EndAdmission \/
        BeginValidation \/ EnterSealing \/ Seal \/ EnterTest \/
        BeginDecisions \/ WriteReport \/ Raise \/ Crash
        => UNCHANGED <<decisions, acceptedCount>>
  BY DEF SetReady, Goto, SetState, Transitions, Refuse, Fail, Over,
     SetRunning, AdmitOne, Move, EndAdmission, BeginValidation, NoneIn,
     EnterSealing, Seal, EnterTest, BeginDecisions, WriteReport, Raise,
     Crash, rows, files, memory, history
<1>10. ASSUME NEW c \in Candidates,
            Screen(c) \/ RunValidation(c) \/ CountValidation(c) \/ RunTest(c) \/
            RefuseTest(c) \/ CountTest(c)
     PROVE  UNCHANGED <<decisions, acceptedCount>>
  BY <1>10 DEF Screen, Move, FirstIn, RunValidation, Goto, CountValidation,
     RunTest, Authorized, RefuseTest, CountTest, rows, files, memory, history
<1>11. UNCHANGED vars => UNCHANGED <<decisions, acceptedCount>>
  BY DEF vars, rows, files, memory, history
<1> QED BY <1>1, <1>2, <1>3, <1>4, <1>5, <1>6, <1>7, <1>8, <1>9, <1>10,
           <1>11 DEF Next, Step

(* A barred campaign.                                                       *)
LEMMA BarredNext ==
    IInv /\ [Next]_vars => BarredAcceptsNothing'
<1> SUFFICES ASSUME IInv, [Next]_vars PROVE BarredAcceptsNothing'
  OBVIOUS
<1>1. CASE Create
  BY <1>1 DEF IInv, BarredAcceptsNothing, TypeOK, Create, Goto, FreshMemory,
     rows, files, memory, history
<1>2. CASE Resume
  BY <1>2 DEF IInv, BarredAcceptsNothing, TypeOK, Resume, Goto, FreshMemory,
     rows, files, memory, history
<1>3. CASE SetReady
  BY <1>3 DEF IInv, BarredAcceptsNothing, TypeOK, SetReady, Goto, SetState,
     Transitions, rows, files, memory, history
<1>4. CASE Refuse
  BY <1>4 DEF IInv, BarredAcceptsNothing, TypeOK, Refuse, Fail, Over, rows,
     files, memory, history
<1>5. CASE SetRunning
  BY <1>5 DEF IInv, BarredAcceptsNothing, TypeOK, SetRunning, Goto, SetState,
     Transitions, rows, files, memory, history
<1>6. CASE AdmitOne
  BY <1>6 DEF IInv, BarredAcceptsNothing, TypeOK, AdmitOne, Move, rows,
     files, memory, history
<1>7. CASE EndAdmission
  BY <1>7 DEF IInv, BarredAcceptsNothing, TypeOK, EndAdmission, Goto, rows,
     files, memory, history
<1>8. CASE BeginValidation
  BY <1>8 DEF IInv, BarredAcceptsNothing, TypeOK, BeginValidation, Goto,
     NoneIn, rows, files, memory, history
<1>9. CASE EnterSealing
  BY <1>9 DEF IInv, BarredAcceptsNothing, TypeOK, EnterSealing, Goto,
     SetState, Transitions, rows, files, memory, history
<1>10. CASE Seal
  BY <1>10 DEF IInv, BarredAcceptsNothing, TypeOK, Seal, Goto, rows, files,
     memory, history
<1>11. CASE EnterTest
  BY <1>11 DEF IInv, BarredAcceptsNothing, TypeOK, EnterTest, Goto, SetState,
     Transitions, rows, files, memory, history
<1>12. CASE BeginDecisions
  BY <1>12 DEF IInv, BarredAcceptsNothing, TypeOK, BeginDecisions, Goto,
     NoneIn, rows, files, memory, history
<1>13. CASE Finalize
  BY <1>13 DEF IInv, BarredAcceptsNothing, TypeOK, Finalize, Goto, SetState,
     Transitions, rows, files, memory, history
<1>14. CASE WriteReport
  BY <1>14 DEF IInv, BarredAcceptsNothing, TypeOK, WriteReport, Goto, rows,
     files, memory, history
<1>15. CASE Raise
  BY <1>15 DEF IInv, BarredAcceptsNothing, TypeOK, Raise, Fail, Over, rows,
     files, memory, history
<1>16. CASE Crash
  BY <1>16 DEF IInv, BarredAcceptsNothing, TypeOK, Crash, rows, files,
     memory, history
<1>17. ASSUME NEW c \in Candidates, Screen(c) PROVE BarredAcceptsNothing'
  BY <1>17 DEF IInv, BarredAcceptsNothing, TypeOK, Screen, Move, FirstIn,
     rows, files, memory, history
<1>18. ASSUME NEW c \in Candidates, RunValidation(c) PROVE BarredAcceptsNothing'
  BY <1>18 DEF IInv, BarredAcceptsNothing, TypeOK, RunValidation, Goto,
     FirstIn, rows, files, memory, history
<1>19. ASSUME NEW c \in Candidates, CountValidation(c) PROVE BarredAcceptsNothing'
  BY <1>19 DEF IInv, BarredAcceptsNothing, TypeOK, CountValidation, Goto,
     FirstIn, Move, rows, files, memory, history
<1>20. ASSUME NEW c \in Candidates, RunTest(c) PROVE BarredAcceptsNothing'
  BY <1>20 DEF IInv, BarredAcceptsNothing, TypeOK, RunTest, Goto, FirstIn,
     Authorized, rows, files, memory, history
<1>21. ASSUME NEW c \in Candidates, RefuseTest(c) PROVE BarredAcceptsNothing'
  BY <1>21 DEF IInv, BarredAcceptsNothing, TypeOK, RefuseTest, FirstIn, Move,
     rows, files, memory, history
<1>22. ASSUME NEW c \in Candidates, CountTest(c) PROVE BarredAcceptsNothing'
  BY <1>22 DEF IInv, BarredAcceptsNothing, TypeOK, CountTest, Goto, FirstIn,
     Move, rows, files, memory, history
<1>23. ASSUME NEW c \in Candidates, RejectedEarlier(c) PROVE BarredAcceptsNothing'
  BY <1>23 DEF IInv, BarredAcceptsNothing, TypeOK, RejectedEarlier, Due,
     Undecided, rows, files, memory, history
<1>24. ASSUME NEW c \in Candidates, Reject(c) PROVE BarredAcceptsNothing'
  BY <1>24 DEF IInv, BarredAcceptsNothing, TypeOK, Reject, Due, Undecided,
     Move, rows, files, memory, history
<1>25. ASSUME NEW c \in Candidates, Accept(c) PROVE BarredAcceptsNothing'
  BY <1>25 DEF IInv, BarredAcceptsNothing, TypeOK, Accept, Acceptable, Due,
     Undecided, Move, rows, files, memory, history
<1>26. ASSUME NEW c \in Candidates, AcceptUnwritten(c) PROVE BarredAcceptsNothing'
  BY <1>26 DEF IInv, BarredAcceptsNothing, TypeOK, AcceptUnwritten,
     Acceptable, Due, Undecided, Move, rows, files, memory, history
<1>27. CASE UNCHANGED vars
  BY <1>27 DEF IInv, BarredAcceptsNothing, TypeOK, vars, rows, files, memory, history
<1> QED BY <1>1, <1>2, <1>3, <1>4, <1>5, <1>6, <1>7, <1>8, <1>9, <1>10,
           <1>11, <1>12, <1>13, <1>14, <1>15, <1>16, <1>17, <1>18, <1>19,
           <1>20, <1>21, <1>22, <1>23, <1>24, <1>25, <1>26,
           <1>27 DEF Next, Step

(* The report.                                                              *)
LEMMA LastNext ==
    IInv /\ [Next]_vars => ReportIsLast'
<1> SUFFICES ASSUME IInv, [Next]_vars PROVE ReportIsLast'
  OBVIOUS
<1>1. CASE Create
  BY <1>1 DEF IInv, ReportIsLast, StageOfRow, Create, Goto, FreshMemory,
     rows, files, memory, history
<1>2. CASE Resume
  BY <1>2 DEF IInv, ReportIsLast, StageOfRow, Resume, Goto, FreshMemory,
     rows, files, memory, history
<1>3. CASE SetReady
  BY <1>3 DEF IInv, ReportIsLast, StageOfRow, SetReady, Goto, SetState,
     Transitions, rows, files, memory, history
<1>4. CASE Refuse
  BY <1>4 DEF IInv, ReportIsLast, StageOfRow, Refuse, Fail, Over, rows,
     files, memory, history
<1>5. CASE SetRunning
  BY <1>5 DEF IInv, ReportIsLast, StageOfRow, SetRunning, Goto, SetState,
     Transitions, rows, files, memory, history
<1>6. CASE AdmitOne
  BY <1>6 DEF IInv, ReportIsLast, StageOfRow, AdmitOne, Move, rows, files,
     memory, history
<1>7. CASE EndAdmission
  BY <1>7 DEF IInv, ReportIsLast, StageOfRow, EndAdmission, Goto, rows,
     files, memory, history
<1>8. CASE BeginValidation
  BY <1>8 DEF IInv, ReportIsLast, StageOfRow, BeginValidation, Goto, NoneIn,
     rows, files, memory, history
<1>9. CASE EnterSealing
  BY <1>9 DEF IInv, ReportIsLast, StageOfRow, EnterSealing, Goto, SetState,
     Transitions, rows, files, memory, history
<1>10. CASE Seal
  BY <1>10 DEF IInv, ReportIsLast, StageOfRow, Seal, Goto, rows, files,
     memory, history
<1>11. CASE EnterTest
  BY <1>11 DEF IInv, ReportIsLast, StageOfRow, EnterTest, Goto, SetState,
     Transitions, rows, files, memory, history
<1>12. CASE BeginDecisions
  BY <1>12 DEF IInv, ReportIsLast, StageOfRow, BeginDecisions, Goto, NoneIn,
     rows, files, memory, history
<1>13. CASE Finalize
  BY <1>13 DEF IInv, ReportIsLast, StageOfRow, Finalize, Goto, SetState,
     Transitions, rows, files, memory, history
<1>14. CASE WriteReport
  BY <1>14 DEF IInv, ReportIsLast, StageOfRow, WriteReport, Goto, rows,
     files, memory, history
<1>15. CASE Raise
  BY <1>15 DEF IInv, ReportIsLast, StageOfRow, Raise, Fail, Over, rows,
     files, memory, history
<1>16. CASE Crash
  BY <1>16 DEF IInv, ReportIsLast, StageOfRow, Crash, rows, files, memory,
     history
<1>17. ASSUME NEW c \in Candidates, Screen(c) PROVE ReportIsLast'
  BY <1>17 DEF IInv, ReportIsLast, StageOfRow, Screen, Move, FirstIn, rows,
     files, memory, history
<1>18. ASSUME NEW c \in Candidates, RunValidation(c) PROVE ReportIsLast'
  BY <1>18 DEF IInv, ReportIsLast, StageOfRow, RunValidation, Goto, FirstIn,
     rows, files, memory, history
<1>19. ASSUME NEW c \in Candidates, CountValidation(c) PROVE ReportIsLast'
  BY <1>19 DEF IInv, ReportIsLast, StageOfRow, CountValidation, Goto,
     FirstIn, Move, rows, files, memory, history
<1>20. ASSUME NEW c \in Candidates, RunTest(c) PROVE ReportIsLast'
  BY <1>20 DEF IInv, ReportIsLast, StageOfRow, RunTest, Goto, FirstIn,
     Authorized, rows, files, memory, history
<1>21. ASSUME NEW c \in Candidates, RefuseTest(c) PROVE ReportIsLast'
  BY <1>21 DEF IInv, ReportIsLast, StageOfRow, RefuseTest, FirstIn, Move,
     rows, files, memory, history
<1>22. ASSUME NEW c \in Candidates, CountTest(c) PROVE ReportIsLast'
  BY <1>22 DEF IInv, ReportIsLast, StageOfRow, CountTest, Goto, FirstIn,
     Move, rows, files, memory, history
<1>23. ASSUME NEW c \in Candidates, RejectedEarlier(c) PROVE ReportIsLast'
  BY <1>23 DEF IInv, ReportIsLast, StageOfRow, RejectedEarlier, Due,
     Undecided, rows, files, memory, history
<1>24. ASSUME NEW c \in Candidates, Reject(c) PROVE ReportIsLast'
  BY <1>24 DEF IInv, ReportIsLast, StageOfRow, Reject, Due, Undecided, Move,
     rows, files, memory, history
<1>25. ASSUME NEW c \in Candidates, Accept(c) PROVE ReportIsLast'
  BY <1>25 DEF IInv, ReportIsLast, StageOfRow, Accept, Acceptable, Due,
     Undecided, Move, rows, files, memory, history
<1>26. ASSUME NEW c \in Candidates, AcceptUnwritten(c) PROVE ReportIsLast'
  BY <1>26 DEF IInv, ReportIsLast, StageOfRow, AcceptUnwritten, Acceptable,
     Due, Undecided, Move, rows, files, memory, history
<1>27. CASE UNCHANGED vars
  BY <1>27 DEF IInv, ReportIsLast, StageOfRow, vars, rows, files, memory, history
<1> QED BY <1>1, <1>2, <1>3, <1>4, <1>5, <1>6, <1>7, <1>8, <1>9, <1>10,
           <1>11, <1>12, <1>13, <1>14, <1>15, <1>16, <1>17, <1>18, <1>19,
           <1>20, <1>21, <1>22, <1>23, <1>24, <1>25, <1>26,
           <1>27 DEF Next, Step

(* TEST opens once.                                                         *)
LEMMA MeasuredNext ==
    IInv /\ [Next]_vars => MeasuredOnce'
<1> SUFFICES ASSUME IInv, [Next]_vars PROVE MeasuredOnce'
  OBVIOUS
<1>1. CASE Seal
  <2>1. UNCHANGED opens /\ \A c \in Candidates : opens[c] = 0
    BY <1>1 DEF IInv, Seal, Goto, ClosedBeforeSeal, history
  <2> QED BY <2>1 DEF MeasuredOnce
<1>2. ASSUME NEW c \in Candidates, RunTest(c) PROVE MeasuredOnce'
  <2>1. opens[c] = 0 /\ sealed /\ c \in frozen
    BY <1>2 DEF IInv, TypeOK, RunTest, Goto, Authorized, FirstIn, TestPhase,
            MeasuredOnce
  <2>2. /\ opens' = [opens EXCEPT ![c] = opens[c] + 1]
        /\ UNCHANGED <<sealed, frozen>>
        /\ opens \in [Candidates -> Nat]
    BY <1>2 DEF IInv, TypeOK, RunTest, rows
  <2> QED BY <2>1, <2>2 DEF IInv, MeasuredOnce
<1>3. CASE UNCHANGED <<opens, sealed, frozen>>
  BY <1>3 DEF IInv, MeasuredOnce
<1>4. Create \/ Resume \/ SetReady \/ Refuse \/ SetRunning \/
        AdmitOne \/ EndAdmission \/ BeginValidation \/ EnterSealing \/
        EnterTest \/ BeginDecisions \/ Finalize \/ WriteReport \/
        Raise \/ Crash
        => UNCHANGED <<opens, sealed, frozen>>
  BY DEF Create, Goto, FreshMemory, Resume, SetReady, SetState, Transitions,
     Refuse, Fail, Over, SetRunning, AdmitOne, Move, EndAdmission,
     BeginValidation, NoneIn, EnterSealing, EnterTest, BeginDecisions,
     Finalize, WriteReport, Raise, Crash, rows, files, memory, history
<1>5. ASSUME NEW c \in Candidates,
            Screen(c) \/ RunValidation(c) \/ CountValidation(c) \/ RefuseTest(c) \/
            CountTest(c) \/ RejectedEarlier(c) \/ Reject(c) \/
            Accept(c) \/ AcceptUnwritten(c)
     PROVE  UNCHANGED <<opens, sealed, frozen>>
  BY <1>5 DEF Screen, Move, FirstIn, RunValidation, Goto, CountValidation,
     RefuseTest, CountTest, RejectedEarlier, Due, Undecided, Reject, Accept,
     Acceptable, AcceptUnwritten, rows, files, memory, history
<1>6. UNCHANGED vars => UNCHANGED <<opens, sealed, frozen>>
  BY DEF vars, rows, files, memory, history
<1> QED BY <1>1, <1>2, <1>3, <1>4, <1>5, <1>6 DEF Next, Step

(* The configuration is pinned, and only a validation peeks.                *)
LEMMA PeeksNext ==
    IInv /\ [Next]_vars => PeeksAreWindows'
<1> SUFFICES ASSUME IInv, [Next]_vars PROVE PeeksAreWindows'
  OBVIOUS
<1>1. ASSUME NEW c \in Candidates, RunValidation(c) PROVE PeeksAreWindows'
  BY <1>1 DEF IInv, PeeksAreWindows, RunValidation, files
<1>2. CASE UNCHANGED <<peeked, config>>
  BY <1>2 DEF IInv, PeeksAreWindows
<1>3. Create \/ Resume \/ SetReady \/ Refuse \/ SetRunning \/
        AdmitOne \/ EndAdmission \/ BeginValidation \/ EnterSealing \/ Seal \/
        EnterTest \/ BeginDecisions \/ Finalize \/ WriteReport \/
        Raise \/ Crash
        => UNCHANGED <<peeked, config>>
  BY DEF Create, Resume, SetReady, Refuse, Fail, SetRunning, AdmitOne,
     EndAdmission, BeginValidation, EnterSealing, Seal, EnterTest,
     BeginDecisions, Finalize, WriteReport, Raise, Crash, files, history
<1>4. ASSUME NEW c \in Candidates,
            Screen(c) \/ CountValidation(c) \/ RunTest(c) \/ RefuseTest(c) \/
            CountTest(c) \/ RejectedEarlier(c) \/ Reject(c) \/
            Accept(c) \/ AcceptUnwritten(c)
     PROVE  UNCHANGED <<peeked, config>>
  BY <1>4 DEF Screen, CountValidation, RunTest, RefuseTest, CountTest,
     RejectedEarlier, Reject, Accept, AcceptUnwritten, files, history
<1>5. UNCHANGED vars => UNCHANGED <<peeked, config>>
  BY DEF vars, files, history
<1> QED BY <1>1, <1>2, <1>3, <1>4, <1>5 DEF Next, Step

(* One more evaluation, within the budget.                                  *)
LEMMA RunCounted ==
    ASSUME IInv, stage \in {"validate", "test"}, stage' \in {"validated", "tested"},
           records = {}, ~ report.written,
           campaign \in {"RUNNING", "TEST_PHASE"},
           used.experiments < config.experiments,
           used' = [used EXCEPT !.experiments = @ + 1], ran' = ran + 1,
           UNCHANGED <<campaign, trials, records, report, config>>
    PROVE  Counters'
<1>1. /\ ran \in Nat /\ config.experiments \in Nat
      /\ trials.experiments \in Nat
      /\ used \in [candidates : Nat, experiments : Nat]
  BY Constants DEF IInv, TypeOK
<1>2. used.experiments = ran /\ ran = trials.experiments
  BY DEF IInv, Counters
<1>3. used'.experiments = ran + 1
  BY <1>1, <1>2
<1>4. ran + 1 <= config.experiments
  BY <1>1, <1>2
<1> QED BY <1>1, <1>2, <1>3, <1>4 DEF Counters

(* The trials.                                                              *)
LEMMA CountersNext ==
    IInv /\ [Next]_vars => Counters'
<1> SUFFICES ASSUME IInv, [Next]_vars PROVE Counters'
  OBVIOUS
<1>1. CASE Create
  BY <1>1, Constants DEF IInv, Counters, StageOfRow, TypeOK, Create, Goto,
     FreshMemory, rows, files, memory, history
<1>2. CASE Resume
  BY <1>2, Constants DEF IInv, Counters, StageOfRow, TypeOK, Resume, Goto,
     FreshMemory, rows, files, memory, history
<1>3. CASE SetReady
  BY <1>3, Constants DEF IInv, Counters, StageOfRow, TypeOK, SetReady, Goto,
     SetState, Transitions, rows, files, memory, history
<1>4. CASE Refuse
  BY <1>4, Constants DEF IInv, Counters, StageOfRow, TypeOK, Refuse, Fail,
     Over, rows, files, memory, history
<1>5. CASE SetRunning
  BY <1>5, Constants DEF IInv, Counters, StageOfRow, TypeOK, SetRunning,
     Goto, SetState, Transitions, rows, files, memory, history
<1>6. CASE AdmitOne
  BY <1>6, Constants DEF IInv, Counters, StageOfRow, TypeOK, AdmitOne, Move,
     rows, files, memory, history
<1>7. CASE EndAdmission
  BY <1>7, Constants DEF IInv, Counters, StageOfRow, TypeOK, EndAdmission,
     Goto, rows, files, memory, history
<1>8. CASE BeginValidation
  BY <1>8, Constants DEF IInv, Counters, StageOfRow, TypeOK, BeginValidation,
     Goto, NoneIn, rows, files, memory, history
<1>9. CASE EnterSealing
  BY <1>9, Constants DEF IInv, Counters, StageOfRow, TypeOK, EnterSealing,
     Goto, SetState, Transitions, rows, files, memory, history
<1>10. CASE Seal
  BY <1>10, Constants DEF IInv, Counters, StageOfRow, TypeOK, Seal, Goto,
     rows, files, memory, history
<1>11. CASE EnterTest
  BY <1>11, Constants DEF IInv, Counters, StageOfRow, TypeOK, EnterTest,
     Goto, SetState, Transitions, rows, files, memory, history
<1>12. CASE BeginDecisions
  BY <1>12, Constants DEF IInv, Counters, StageOfRow, TypeOK, BeginDecisions,
     Goto, NoneIn, rows, files, memory, history
<1>13. CASE Finalize
  BY <1>13, Constants DEF IInv, Counters, StageOfRow, TypeOK, Finalize, Goto,
     SetState, Transitions, rows, files, memory, history
<1>14. CASE WriteReport
  BY <1>14, Constants DEF IInv, Counters, StageOfRow, TypeOK, WriteReport,
     Goto, rows, files, memory, history
<1>15. CASE Raise
  BY <1>15, Constants DEF IInv, Counters, StageOfRow, TypeOK, Raise, Fail,
     Over, rows, files, memory, history
<1>16. CASE Crash
  BY <1>16, Constants DEF IInv, Counters, StageOfRow, TypeOK, Crash, rows,
     files, memory, history
<1>17. ASSUME NEW c \in Candidates, Screen(c) PROVE Counters'
  BY <1>17, Constants DEF IInv, Counters, StageOfRow, TypeOK, Screen, Move,
     FirstIn, rows, files, memory, history
<1>18. ASSUME NEW c \in Candidates, RunValidation(c) PROVE Counters'
  <2>1. records = {} /\ ~ report.written /\ campaign = "RUNNING"
    BY <1>18 DEF IInv, StageOfRow, ClosedBeforeSeal, RunValidation, Goto
  <2> QED BY <1>18, <2>1, RunCounted DEF RunValidation, Goto, rows, files
<1>19. ASSUME NEW c \in Candidates, CountValidation(c) PROVE Counters'
  BY <1>19, Constants DEF IInv, Counters, StageOfRow, TypeOK,
     CountValidation, Goto, FirstIn, Move, rows, files, memory, history
<1>20. ASSUME NEW c \in Candidates, RunTest(c) PROVE Counters'
  <2>1. records = {} /\ ~ report.written /\ campaign = "TEST_PHASE"
    BY <1>20 DEF IInv, StageOfRow, TestPhase, RunTest, Goto
  <2> QED BY <1>20, <2>1, RunCounted DEF RunTest, Goto, rows, files
<1>21. ASSUME NEW c \in Candidates, RefuseTest(c) PROVE Counters'
  BY <1>21, Constants DEF IInv, Counters, StageOfRow, TypeOK, RefuseTest,
     FirstIn, Move, rows, files, memory, history
<1>22. ASSUME NEW c \in Candidates, CountTest(c) PROVE Counters'
  BY <1>22, Constants DEF IInv, Counters, StageOfRow, TypeOK, CountTest,
     Goto, FirstIn, Move, rows, files, memory, history
<1>23. ASSUME NEW c \in Candidates, RejectedEarlier(c) PROVE Counters'
  BY <1>23, Constants DEF IInv, Counters, StageOfRow, TypeOK,
     RejectedEarlier, Due, Undecided, rows, files, memory, history
<1>24. ASSUME NEW c \in Candidates, Reject(c) PROVE Counters'
  BY <1>24, Constants DEF IInv, Counters, StageOfRow, TypeOK, Reject, Due,
     Undecided, Move, rows, files, memory, history
<1>25. ASSUME NEW c \in Candidates, Accept(c) PROVE Counters'
  BY <1>25, Constants DEF IInv, Counters, StageOfRow, TypeOK, Accept,
     Acceptable, Due, Undecided, Move, rows, files, memory, history
<1>26. ASSUME NEW c \in Candidates, AcceptUnwritten(c) PROVE Counters'
  BY <1>26, Constants DEF IInv, Counters, StageOfRow, TypeOK,
     AcceptUnwritten, Acceptable, Due, Undecided, Move, rows, files, memory,
     history
<1>27. CASE UNCHANGED vars
  BY <1>27 DEF IInv, Counters, StageOfRow, TypeOK, vars, rows, files, memory, history
<1> QED BY <1>1, <1>2, <1>3, <1>4, <1>5, <1>6, <1>7, <1>8, <1>9, <1>10,
           <1>11, <1>12, <1>13, <1>14, <1>15, <1>16, <1>17, <1>18, <1>19,
           <1>20, <1>21, <1>22, <1>23, <1>24, <1>25, <1>26,
           <1>27 DEF Next, Step

(* Only a runner takes steps, and only WriteReport writes the report.       *)
LEMMA StepOfRunner == Step \/ Raise \/ Crash => stage # "idle"
  BY DEF Step, Goto, SetReady, SetState, Transitions, Refuse, Fail, Over,
     SetRunning, AdmitOne, Move, EndAdmission, BeginValidation, NoneIn,
     EnterSealing, Seal, EnterTest, BeginDecisions, Finalize, WriteReport,
     Raise, Crash, Screen, FirstIn, RunValidation, CountValidation, RunTest,
     Authorized, RefuseTest, CountTest, RejectedEarlier, Due, Undecided,
     Reject, Accept, Acceptable, AcceptUnwritten

LEMMA ReportWrittenOnce == [Next]_vars => WriteReport \/ UNCHANGED report
  BY DEF Next, Step, Create, Goto, FreshMemory, Resume, SetReady, SetState,
     Transitions, Refuse, Fail, Over, SetRunning, AdmitOne, Move,
     EndAdmission, BeginValidation, NoneIn, EnterSealing, Seal, EnterTest,
     BeginDecisions, Finalize, WriteReport, Raise, Crash, Screen, FirstIn,
     RunValidation, CountValidation, RunTest, Authorized, RefuseTest,
     CountTest, RejectedEarlier, Due, Undecided, Reject, Accept, Acceptable,
     AcceptUnwritten, vars, rows, files, memory, history

(* The report and what it explains.                                         *)
LEMMA ExplainsNext ==
    IInv /\ [Next]_vars => ReportExplains'
<1> SUFFICES ASSUME IInv, [Next]_vars, report.written' PROVE ReportExplains'
  BY DEF ReportExplains
<1>1. CASE report.written
  <2>1. campaign = "FINALIZED" /\ stage = "idle"
    BY <1>1 DEF IInv, ReportIsLast
  <2>2. UNCHANGED vars
    BY <2>1, StepOfRunner DEF Next, Create, Resume
  <2> QED BY <2>2 DEF IInv, ReportExplains, vars, rows, files, memory, history
<1>2. CASE ~ report.written
  <2>1. WriteReport
    BY <1>2, ReportWrittenOnce
  <2>2. /\ stage = "report"
        /\ report' = [written |-> TRUE, accepted |-> acceptedCount,
                      rejected |-> rejectedCount]
        /\ UNCHANGED <<records, config, cand, decisions, opens>>
    BY <2>1 DEF WriteReport, Goto, memory, history
  <2>3. \A c \in Candidates : opens[c] > 0 => decisions[c] # "none"
    BY <2>2 DEF IInv, TestPhase
  <2>4. config.eligibility = "barred" => acceptedCount = 0 /\ records = {}
    <3>1. SUFFICES ASSUME config.eligibility = "barred" PROVE acceptedCount = 0
      BY DEF IInv, BarredAcceptsNothing
    <3>2. \A c \in Candidates : decisions[c] # "accepted"
      BY <3>1 DEF IInv, BarredAcceptsNothing
    <3> QED BY <3>2, CountOfNone DEF IInv, AcceptedIsCounted
  <2> QED BY <2>2, <2>3, <2>4
          DEF IInv, ReportExplains, AcceptedIsCounted, RejectedIsCounted
<1> QED BY <1>1, <1>2

(* The candidate under test is the only sealed one that has seen TEST.      *)
LEMMA TestedOpens ==
    ASSUME IInv, stage = "tested", NEW c \in Candidates, FirstIn(c, "SEALED")
    PROVE  /\ opens[c] = 1
           /\ \A d \in Candidates : d # c /\ cand[d] = "SEALED" => opens[d] = 0
<1>1. opens \in [Candidates -> Nat] /\ \A d \in Candidates : opens[d] <= 1
  BY DEF IInv, TypeOK, MeasuredOnce
<1>2. \A d \in Candidates : cand[d] = "SEALED" =>
          (opens[d] > 0 <=> FirstIn(d, "SEALED"))
  BY DEF IInv, TestPhase
<1>3. \A d \in Candidates : FirstIn(d, "SEALED") => d = c
  BY Constants DEF FirstIn, Candidates
<1>4. opens[c] > 0
  BY <1>2 DEF FirstIn
<1> QED BY <1>1, <1>2, <1>3, <1>4

(* The candidates that see TEST.                                            *)
LEMMA TestPhaseNext ==
    IInv /\ [Next]_vars => TestPhase'
<1> SUFFICES ASSUME IInv, [Next]_vars PROVE TestPhase'
  OBVIOUS
<1>1. CASE Create
  BY <1>1 DEF IInv, TestPhase, StageOfRow, TypeOK, FirstIn, Create, Goto,
     FreshMemory, rows, files, memory, history
<1>2. CASE Resume
  BY <1>2 DEF IInv, TestPhase, StageOfRow, TypeOK, FirstIn, Resume, Goto,
     FreshMemory, rows, files, memory, history
<1>3. CASE SetReady
  BY <1>3 DEF IInv, TestPhase, StageOfRow, TypeOK, FirstIn, SetReady, Goto,
     SetState, Transitions, rows, files, memory, history
<1>4. CASE Refuse
  BY <1>4 DEF IInv, TestPhase, StageOfRow, TypeOK, FirstIn, Refuse, Fail,
     Over, rows, files, memory, history
<1>5. CASE SetRunning
  BY <1>5 DEF IInv, TestPhase, StageOfRow, TypeOK, FirstIn, SetRunning, Goto,
     SetState, Transitions, rows, files, memory, history
<1>6. CASE AdmitOne
  BY <1>6 DEF IInv, TestPhase, StageOfRow, TypeOK, FirstIn, AdmitOne, Move,
     rows, files, memory, history
<1>7. CASE EndAdmission
  BY <1>7 DEF IInv, TestPhase, StageOfRow, TypeOK, FirstIn, EndAdmission,
     Goto, rows, files, memory, history
<1>8. CASE BeginValidation
  BY <1>8 DEF IInv, TestPhase, StageOfRow, TypeOK, FirstIn, BeginValidation,
     Goto, NoneIn, rows, files, memory, history
<1>9. CASE EnterSealing
  BY <1>9 DEF IInv, TestPhase, StageOfRow, TypeOK, FirstIn, EnterSealing,
     Goto, SetState, Transitions, rows, files, memory, history
<1>10. CASE Seal
  BY <1>10 DEF IInv, TestPhase, StageOfRow, TypeOK, FirstIn, Seal, Goto,
     rows, files, memory, history, ClosedBeforeSeal, FreshBeforeTest,
     BeforeTest
<1>11. CASE EnterTest
  BY <1>11 DEF IInv, TestPhase, StageOfRow, TypeOK, FirstIn, EnterTest, Goto,
     SetState, Transitions, rows, files, memory, history
<1>12. CASE BeginDecisions
  BY <1>12 DEF IInv, TestPhase, StageOfRow, TypeOK, FirstIn, BeginDecisions,
     Goto, NoneIn, rows, files, memory, history
<1>13. CASE Finalize
  BY <1>13 DEF IInv, TestPhase, StageOfRow, TypeOK, FirstIn, Finalize, Goto,
     SetState, Transitions, rows, files, memory, history, Undecided
<1>14. CASE WriteReport
  BY <1>14 DEF IInv, TestPhase, StageOfRow, TypeOK, FirstIn, WriteReport,
     Goto, rows, files, memory, history
<1>15. CASE Raise
  BY <1>15 DEF IInv, TestPhase, StageOfRow, TypeOK, FirstIn, Raise, Fail,
     Over, rows, files, memory, history
<1>16. CASE Crash
  BY <1>16 DEF IInv, TestPhase, StageOfRow, TypeOK, FirstIn, Crash, rows,
     files, memory, history
<1>17. ASSUME NEW c \in Candidates, Screen(c) PROVE TestPhase'
  BY <1>17 DEF IInv, TestPhase, StageOfRow, TypeOK, FirstIn, Screen, Move,
     rows, files, memory, history
<1>18. ASSUME NEW c \in Candidates, RunValidation(c) PROVE TestPhase'
  BY <1>18 DEF IInv, TestPhase, StageOfRow, TypeOK, FirstIn, RunValidation,
     Goto, rows, files, memory, history
<1>19. ASSUME NEW c \in Candidates, CountValidation(c) PROVE TestPhase'
  BY <1>19 DEF IInv, TestPhase, StageOfRow, TypeOK, FirstIn, CountValidation,
     Goto, Move, rows, files, memory, history
<1>20. ASSUME NEW c \in Candidates, RunTest(c) PROVE TestPhase'
  <2>1. /\ stage = "test" /\ stage' = "tested" /\ FirstIn(c, "SEALED")
        /\ opens' = [opens EXCEPT ![c] = opens[c] + 1]
        /\ opens \in [Candidates -> Nat]
        /\ UNCHANGED <<sealed, report, records, frozen, decisions, cand>>
    BY <1>20 DEF IInv, TypeOK, RunTest, Goto, rows, files
  <2>2. \A d \in Candidates : cand[d] = "SEALED" => opens[d] = 0
    BY <2>1 DEF IInv, TestPhase
  <2>3. opens'[c] = 1 /\ \A d \in Candidates : d # c => opens'[d] = opens[d]
    BY <2>1, <2>2 DEF FirstIn
  <2>4. \A d \in Candidates : FirstIn(d, "SEALED")' <=> d = c
    BY <2>1, Constants DEF FirstIn, Candidates
  <2>5. cand[c] = "SEALED"
    BY <2>1 DEF FirstIn
  <2> QED BY <2>1, <2>2, <2>3, <2>4, <2>5 DEF IInv, TestPhase
<1>21. ASSUME NEW c \in Candidates, RefuseTest(c) PROVE TestPhase'
  BY <1>21 DEF IInv, TestPhase, StageOfRow, TypeOK, FirstIn, RefuseTest,
     Move, rows, files, memory, history
<1>22. ASSUME NEW c \in Candidates, CountTest(c) PROVE TestPhase'
  <2>1. /\ cand' = [cand EXCEPT ![c] = "TEST_EVALUATED"]
        /\ cand \in [Candidates -> CandidateStates]
        /\ stage = "tested" /\ stage' = "test" /\ FirstIn(c, "SEALED")
        /\ UNCHANGED <<sealed, report, records, frozen, decisions, opens>>
    BY <1>22 DEF IInv, TypeOK, CountTest, Goto, Move, files, history
  <2>2. opens[c] = 1
    BY <2>1, TestedOpens
  <2>3. \A d \in Candidates : d # c /\ cand[d] = "SEALED" => opens[d] = 0
    BY <2>1, TestedOpens
  <2> QED BY <2>1, <2>2, <2>3 DEF IInv, TestPhase
<1>23. ASSUME NEW c \in Candidates, RejectedEarlier(c) PROVE TestPhase'
  BY <1>23 DEF IInv, TestPhase, StageOfRow, TypeOK, FirstIn, RejectedEarlier,
     Due, Undecided, rows, files, memory, history
<1>24. ASSUME NEW c \in Candidates, Reject(c) PROVE TestPhase'
  BY <1>24 DEF IInv, TestPhase, StageOfRow, TypeOK, FirstIn, Reject, Due,
     Undecided, Move, rows, files, memory, history
<1>25. ASSUME NEW c \in Candidates, Accept(c) PROVE TestPhase'
  BY <1>25 DEF IInv, TestPhase, StageOfRow, TypeOK, FirstIn, Accept,
     Acceptable, Due, Undecided, Move, rows, files, memory, history
<1>26. ASSUME NEW c \in Candidates, AcceptUnwritten(c) PROVE TestPhase'
  BY <1>26 DEF IInv, TestPhase, StageOfRow, TypeOK, FirstIn, AcceptUnwritten,
     Acceptable, Due, Undecided, Move, rows, files, memory, history
<1>27. CASE UNCHANGED vars
  BY <1>27 DEF IInv, TestPhase, StageOfRow, TypeOK, FirstIn, vars, rows, files, memory, history
<1> QED BY <1>1, <1>2, <1>3, <1>4, <1>5, <1>6, <1>7, <1>8, <1>9, <1>10,
           <1>11, <1>12, <1>13, <1>14, <1>15, <1>16, <1>17, <1>18, <1>19,
           <1>20, <1>21, <1>22, <1>23, <1>24, <1>25, <1>26,
           <1>27 DEF Next, Step

(***************************************************************************)
(* What the runs check, for all instances.                                 *)
(***************************************************************************)

LEMMA StepInv == IInv /\ [Next]_vars => IInv'
  BY TypeNext, StageNext, ClosedNext, FreshNext, PrefixNext, TestPhaseNext,
     MeasuredNext, PeeksNext, CountersNext, RejectedNext, AcceptedNext, BarredNext,
     LastNext, ExplainsNext
     DEF IInv

THEOREM Invariance == Spec => []IInv
  BY InitInv, StepInv, PTL DEF Spec

(* The state of the campaign, its rows, its files and its runner are        *)
(* well-formed.                                                             *)
THEOREM TypeCorrect == Spec => []TypeOK
<1>1. IInv => TypeOK
  BY DEF IInv
<1> QED BY <1>1, Invariance, PTL

(* However often the runner dies and is resumed, the sealed evaluation is   *)
(* run at most once for a candidate and only for one the seal names; no     *)
(* other look at TEST without walk-forward windows that reach it.           *)
THEOREM TestIsOneShot == Spec => []OneShotTest
<1>1. IInv => OneShotTest
  BY DEF IInv, MeasuredOnce, PeeksAreWindows, OneShotTest, SawTest
<1> QED BY <1>1, Invariance, PTL

(* The trial counters never lag the evaluations by more than one, and not at *)
(* all once anything was accepted.                                           *)
THEOREM TrialsAreCounted == Spec => []TrialsCounted
<1>1. IInv => TrialsCounted
  BY DEF IInv, Counters, TrialsCounted
<1> QED BY <1>1, Invariance, PTL

(* A written report agrees with the decisions it reports.                    *)
THEOREM ReportIsTrue == Spec => []ReportExplains
<1>1. IInv => ReportExplains
  BY DEF IInv
<1> QED BY <1>1, Invariance, PTL

(* Neither an exception nor a resume moves a campaign that is over.          *)
THEOREM StaysOver == Spec => OverIsOver
<1>1. IInv /\ [Next]_vars => [(campaign \in Over) => (campaign' = campaign)]_vars
  <2> SUFFICES ASSUME IInv, Next, campaign \in Over PROVE campaign' = campaign
    BY DEF vars
  <2>1. campaign \in {"FINALIZED", "FAILED"} /\ stage \in {"idle", "ready", "report"}
    BY DEF IInv, StageOfRow, Over, TypeOK, Stages
  <2> QED BY <2>1 DEF Next, Step, Create, Goto, FreshMemory, Resume,
     SetReady, SetState, Transitions, Refuse, Fail, Over, SetRunning,
     AdmitOne, Move, EndAdmission, BeginValidation, NoneIn, EnterSealing,
     Seal, EnterTest, BeginDecisions, Finalize, WriteReport, Raise, Crash,
     Screen, FirstIn, RunValidation, CountValidation, RunTest, Authorized,
     RefuseTest, CountTest, RejectedEarlier, Due, Undecided, Reject, Accept,
     Acceptable, AcceptUnwritten, rows, files, memory, history
<1> QED BY <1>1, Invariance, PTL DEF Spec, OverIsOver

(***************************************************************************)
(* The runner implements SealedTest.                                       *)
(***************************************************************************)

LEMMA SealSelects ==
    IInv /\ Seal => Seals!Select(frozen') /\ frozen' \in SUBSET Candidates
<1> SUFFICES ASSUME IInv, Seal
             PROVE  Seals!Select(frozen') /\ frozen' \in SUBSET Candidates
  OBVIOUS
<1>1. ~ sealed
  BY DEF IInv, ClosedBeforeSeal, Seal, Goto
<1>2. /\ sealed' = TRUE
      /\ frozen' \in SUBSET Candidates
      /\ UNCHANGED <<config, peeked, opens, records>>
  BY DEF Seal, files, history
<1> QED BY <1>1, <1>2 DEF Seals!Select

LEMMA RunTestMeasures ==
    ASSUME IInv, NEW c \in Candidates, RunTest(c)
    PROVE  Seals!Measure(c)
<1>1. /\ sealed /\ c \in frozen /\ stage = "test" /\ cand[c] = "SEALED"
      /\ opens' = [opens EXCEPT ![c] = opens[c] + 1]
      /\ UNCHANGED <<config, peeked, sealed, frozen, records>>
  BY DEF RunTest, Goto, Authorized, FirstIn, rows, files
<1>2. opens \in [Candidates -> Nat]
  BY DEF IInv, TypeOK
<1>3. opens[c] = 0
  BY <1>1, <1>2 DEF IInv, TestPhase
<1>4. opens'[c] = 1 /\ \A d \in Candidates : d # c => opens'[d] = opens[d]
  BY <1>1, <1>2, <1>3
<1>5. {d \in Candidates : opens'[d] > 0} = {d \in Candidates : opens[d] > 0} \union {c}
  BY <1>4
<1> QED BY <1>1, <1>3, <1>5 DEF Seals!Measure

LEMMA AcceptAccepts ==
    ASSUME IInv, NEW c \in Candidates, Accept(c)
    PROVE  Seals!Accept(c) \/ UNCHANGED Seals!sealVars
<1>1. /\ stage = "decide" /\ cand[c] = "TEST_EVALUATED" /\ decisions[c] = "none"
      /\ UNCHANGED <<config, peeked, sealed, frozen, opens>>
      /\ records' = IF config.eligibility = "recorded"
                    THEN (records \ SameStrategy(c)) \union {c} ELSE records
  BY DEF Accept, Acceptable, Due, Undecided, rows, history
<1>2. opens[c] = 1 /\ c \notin records
  BY <1>1 DEF IInv, TestPhase
<1>3. CASE config.eligibility = "recorded"
  <2>1. records' = (records \ SameStrategy(c)) \union {c}
    BY <1>1, <1>3
  <2>2. records \ SameStrategy(c) \in SUBSET records
    OBVIOUS
  <2>3. \E kept \in SUBSET records : records' = kept \union {c}
    BY <2>1, <2>2
  <2> QED BY <1>1, <1>2, <2>3 DEF Seals!Accept
<1>4. CASE config.eligibility # "recorded"
  BY <1>1, <1>4 DEF Seals!sealVars
<1> QED BY <1>3, <1>4

(* A validation peeks, or shows the candidate nothing of TEST.              *)
LEMMA ValidationPeeks ==
    ASSUME IInv, NEW c \in Candidates, RunValidation(c)
    PROVE  Seals!Peek(c) \/ UNCHANGED Seals!sealVars
<1>1. /\ ~ sealed
      /\ peeked' = IF config.reaches THEN peeked \union {c} ELSE peeked
      /\ UNCHANGED <<config, sealed, frozen, opens, records>>
  BY DEF RunValidation, Goto, IInv, StageOfRow, ClosedBeforeSeal, rows, files
<1> QED BY <1>1 DEF Seals!Peek, Seals!sealVars

LEMMA OthersKeepSeal ==
    ASSUME IInv, [Next]_vars, ~ Seal,
           \A c \in Candidates : ~ RunValidation(c) /\ ~ RunTest(c) /\ ~ Accept(c)
    PROVE  UNCHANGED <<config, peeked, sealed, frozen, opens, records>>
  BY DEF Next, Step, Create, Goto, FreshMemory, Resume, SetReady, SetState,
     Transitions, Refuse, Fail, Over, SetRunning, AdmitOne, Move,
     EndAdmission, BeginValidation, NoneIn, EnterSealing, EnterTest,
     BeginDecisions, Finalize, WriteReport, Raise, Crash, Screen, FirstIn,
     CountValidation, Authorized, RefuseTest, CountTest,
     RejectedEarlier, Due, Undecided, Reject, Acceptable, AcceptUnwritten,
     vars, rows, files, memory, history

(* The candidates are selected once, before any of them sees TEST unless    *)
(* walk-forward windows reach it, and only what was measured on TEST is     *)
(* recorded as accepted.                                                    *)
THEOREM ImplementsSealedTest == Spec => SealedTestSpec
<1>1. Init => Seals!Init
  <2>1. Init => config.reaches \in BOOLEAN
    BY Constants DEF Init
  <2> QED BY <2>1 DEF Init, Seals!Init
<1>2. IInv /\ [Next]_vars => [Seals!Next]_(Seals!sealVars)
  <2> SUFFICES ASSUME IInv, [Next]_vars
               PROVE  Seals!Next \/ UNCHANGED Seals!sealVars
    OBVIOUS
  <2>1. CASE Seal
    BY <2>1, SealSelects DEF Seals!Next
  <2>2. ASSUME NEW c \in Candidates, RunTest(c) PROVE Seals!Next
    BY <2>2, RunTestMeasures DEF Seals!Next
  <2>3. ASSUME NEW c \in Candidates, Accept(c)
        PROVE  Seals!Next \/ UNCHANGED Seals!sealVars
    BY <2>3, AcceptAccepts DEF Seals!Next
  <2>4. ASSUME NEW c \in Candidates, RunValidation(c)
        PROVE  Seals!Next \/ UNCHANGED Seals!sealVars
    BY <2>4, ValidationPeeks DEF Seals!Next
  <2>5. CASE ~ Seal /\ \A c \in Candidates :
                ~ RunValidation(c) /\ ~ RunTest(c) /\ ~ Accept(c)
    BY <2>5, OthersKeepSeal DEF Seals!sealVars
  <2> QED BY <2>1, <2>2, <2>3, <2>4, <2>5
<1> QED BY <1>1, <1>2, Invariance, PTL DEF Spec, SealedTestSpec, Seals!Spec
=============================================================================
