-------------------------- MODULE ResearchCampaign --------------------------
(***************************************************************************)
(* research/campaign_runner.py with candidate_pool.py, campaign_state.py,  *)
(* test_seal.py, acceptance.py and the campaign tables of                  *)
(* storage/registry.py: one research campaign, the processes that run and  *)
(* resume it, one at a time, and what each leaves behind when it raises or *)
(* dies.                                                                   *)
(*                                                                         *)
(* A candidate is named by its place in the list the generator returns,    *)
(* which the seed of the configuration fixes.  What a backtest measures is *)
(* abstracted to the verdict the code draws from it.  The database commits *)
(* the state of the campaign and its trial counters one by one; what the   *)
(* runner holds in memory is rebuilt when a process starts.                *)
(***************************************************************************)
EXTENDS Naturals, Sequences, FiniteSets

CONSTANTS
    Generated,        \* the specs the generator returns, in order
    Malformed,        \* those of them the validator refuses
    Configs,          \* configurations: eligibility, the two budgets and
                      \* whether walk-forward windows reach the TEST period
    MaxCrashes        \* bound on the processes that die

N == Len(Generated)

Candidates == 1 .. N

ASSUME GeneratedAssumption == N \in Nat

CampaignStates ==
    {"none", "DRAFT", "READY", "RUNNING", "SEALING", "TEST_PHASE",
     "FINALIZED", "FAILED"}

(* EVALUATED stands for VALIDATION_, ROBUSTNESS_ and WF_EVALUATED, which    *)
(* one call passes through.                                                 *)
CandidateStates ==
    {"none", "DEDUPLICATED", "SCREENED", "EVALUATED", "SEALED",
     "TEST_EVALUATED", "ACCEPTED", "REJECTED"}

Stages ==
    {"idle", "ready", "start", "admit", "screen", "validate", "validated",
     "seal", "sealed", "test", "tested", "decide", "report"}

(* What purpose and certification allow: no acceptance at all, acceptance   *)
(* without a record, or acceptance with a durable record.                   *)
Eligibilities == {"barred", "unrecorded", "recorded"}

ASSUME ConfigAssumption ==
    /\ Configs \subseteq
           [eligibility : Eligibilities, candidates : Nat, experiments : Nat,
            reaches : BOOLEAN]
    /\ MaxCrashes \in Nat

VARIABLES
    campaign, sealed, frozen, trials,           \* the campaign's rows
    records, report,                            \* the campaign's files
    config,                                     \* pinned by its hash
    stage, generated, cand, used, log,          \* memory of the runner
    decisions, acceptedCount, rejectedCount,
    ran, opens, peeked, crashes                 \* history, see below

(* History: the evaluations run; per candidate, those that opened TEST; and *)
(* the candidates backtested on bars of the TEST period by a validation, by *)
(* any process.                                                             *)
history == <<ran, opens, peeked, crashes>>

rows == <<campaign, sealed, frozen, trials>>

files == <<records, report, config>>

memory == <<generated, cand, used, log, decisions, acceptedCount, rejectedCount>>

vars == <<rows, files, stage, memory, history>>

Transitions ==
    {<<"DRAFT", "READY">>, <<"READY", "RUNNING">>, <<"RUNNING", "SEALING">>,
     <<"RUNNING", "FINALIZED">>, <<"SEALING", "TEST_PHASE">>,
     <<"TEST_PHASE", "FINALIZED">>}

Over == {"FINALIZED", "FAILED"}

NoReport == [written |-> FALSE, accepted |-> 0, rejected |-> 0]

Init ==
    /\ campaign = "none" /\ sealed = FALSE /\ frozen = {}
    /\ trials = [candidates |-> 0, experiments |-> 0, tests |-> 0]
    /\ records = {} /\ report = NoReport
    /\ config \in Configs
    /\ stage = "idle" /\ generated = 0
    /\ cand = [c \in Candidates |-> "none"]
    /\ used = [candidates |-> 0, experiments |-> 0]
    /\ log = {}
    /\ decisions = [c \in Candidates |-> "none"]
    /\ acceptedCount = 0 /\ rejectedCount = 0
    /\ ran = 0 /\ opens = [c \in Candidates |-> 0]
    /\ peeked = {} /\ crashes = 0
-----------------------------------------------------------------------------
SetState(state) ==
    /\ <<campaign, state>> \in Transitions
    /\ campaign' = state

(* The loops over the pool take its candidates in order, and what is done   *)
(* to a candidate moves it to another state.                                *)
FirstIn(c, state) ==
    /\ cand[c] = state
    /\ \A d \in Candidates : cand[d] = state => c <= d

NoneIn(state) == \A c \in Candidates : cand[c] # state

(* Move a candidate, counting it when it is rejected.                       *)
Move(c, state) ==
    /\ cand' = [cand EXCEPT ![c] = state]
    /\ rejectedCount' = IF state = "REJECTED" THEN rejectedCount + 1
                                              ELSE rejectedCount

Goto(from, to) == stage = from /\ stage' = to

FreshMemory(candidates, experiments) ==
    /\ generated' = 0
    /\ cand' = [c \in Candidates |-> "none"]
    /\ used' = [candidates |-> candidates, experiments |-> experiments]
    /\ log' = {}
    /\ decisions' = [c \in Candidates |-> "none"]
    /\ acceptedCount' = 0
    /\ rejectedCount' = 0
-----------------------------------------------------------------------------
Create ==
    /\ Goto("idle", "ready")
    /\ campaign = "none"
    /\ campaign' = "DRAFT"
    /\ FreshMemory(0, 0)
    /\ UNCHANGED <<sealed, frozen, trials, files, history>>

(* A finalized campaign is answered with its report; counters above a       *)
(* budget make budgets.restore raise before anything is written.            *)
Resume ==
    /\ Goto("idle", "ready")
    /\ campaign \notin {"none", "FINALIZED"}
    /\ trials.candidates <= config.candidates
    /\ trials.experiments <= config.experiments
    /\ FreshMemory(trials.candidates, trials.experiments)
    /\ UNCHANGED <<rows, files, history>>

(* Any exception inside run: the campaign has failed unless it was over.    *)
Fail ==
    /\ campaign' = IF campaign \in Over THEN campaign ELSE "FAILED"
    /\ stage' = "idle"
    /\ UNCHANGED <<sealed, frozen, trials, files, memory, history>>

SetReady ==
    /\ Goto("ready", "start")
    /\ SetState("READY")
    /\ UNCHANGED <<sealed, frozen, trials, files, memory, history>>

(* Variant: a refused resume leaves the campaign as it found it.            *)
RefuseQuietly ==
    /\ Goto("ready", "idle")
    /\ <<campaign, "READY">> \notin Transitions
    /\ UNCHANGED <<rows, files, memory, history>>

Refuse ==
    /\ stage = "ready"
    /\ <<campaign, "READY">> \notin Transitions
    /\ Fail

SetRunning ==
    /\ Goto("start", "admit")
    /\ SetState("RUNNING")
    /\ UNCHANGED <<sealed, frozen, trials, files, memory, history>>

(* Every admitted candidate is given a fresh id before it is hashed, and    *)
(* the id is part of what is hashed: no two hashes agree, and the branch    *)
(* for duplicates is never taken.                                           *)
AdmitOne ==
    /\ stage = "admit"
    /\ generated < N /\ used.candidates < config.candidates
    /\ generated' = generated + 1
    /\ used' = [used EXCEPT !.candidates = @ + 1]
    /\ Move(generated + 1, IF Generated[generated + 1] \in Malformed
                           THEN "REJECTED" ELSE "DEDUPLICATED")
    /\ UNCHANGED <<rows, files, stage, log, decisions, acceptedCount, history>>

(* The spec that meets the exhausted budget is counted as generated.        *)
EndAdmission ==
    /\ Goto("admit", "screen")
    /\ generated = N \/ used.candidates >= config.candidates
    /\ generated' = IF generated < N THEN generated + 1 ELSE generated
    /\ trials' = [trials EXCEPT !.candidates = @ + generated']
    /\ UNCHANGED <<campaign, sealed, frozen, files, cand, used, log,
                   decisions, acceptedCount, rejectedCount, history>>

Screen(c) ==
    /\ stage = "screen"
    /\ FirstIn(c, "DEDUPLICATED")
    /\ \E verdict \in {"SCREENED", "REJECTED"} : Move(c, verdict)
    /\ UNCHANGED <<rows, files, stage, generated, used, log, decisions,
                   acceptedCount, history>>

BeginValidation ==
    /\ Goto("screen", "validate")
    /\ NoneIn("DEDUPLICATED")
    /\ UNCHANGED <<rows, files, memory, history>>

(* Variant: every validation reads all bars, TEST included.                 *)
ValidateOnAllBars(c) ==
    /\ Goto("validate", "validated")
    /\ FirstIn(c, "SCREENED")
    /\ used.experiments < config.experiments
    /\ used' = [used EXCEPT !.experiments = @ + 1]
    /\ ran' = ran + 1
    /\ peeked' = peeked \union {c}
    /\ UNCHANGED <<rows, files, generated, cand, log, decisions,
                   acceptedCount, rejectedCount, opens, crashes>>

(* The metrics of a validation read TRAIN and VALIDATION.  With walk-forward *)
(* enabled the candidate is also backtested on the test bars of windows cut  *)
(* from all bars: nothing keeps them out of the TEST period.                 *)
RunValidation(c) ==
    /\ Goto("validate", "validated")
    /\ FirstIn(c, "SCREENED")
    /\ used.experiments < config.experiments
    /\ used' = [used EXCEPT !.experiments = @ + 1]
    /\ ran' = ran + 1
    /\ peeked' = IF config.reaches THEN peeked \union {c} ELSE peeked
    /\ UNCHANGED <<rows, files, generated, cand, log, decisions,
                   acceptedCount, rejectedCount, opens, crashes>>

(* Variant: a candidate is rejected before its trial is counted.            *)
CountValidationOfPassing(c) ==
    /\ Goto("validated", "validate")
    /\ FirstIn(c, "SCREENED")
    /\ \E verdict \in {"EVALUATED", "REJECTED"} :
           /\ Move(c, verdict)
           /\ trials' = IF verdict = "REJECTED" THEN trials
                        ELSE [trials EXCEPT !.experiments = @ + 1]
    /\ UNCHANGED <<campaign, sealed, frozen, files, generated, used, log,
                   decisions, acceptedCount, history>>

CountValidation(c) ==
    /\ Goto("validated", "validate")
    /\ FirstIn(c, "SCREENED")
    /\ trials' = [trials EXCEPT !.experiments = @ + 1]
    /\ \E verdict \in {"EVALUATED", "REJECTED"} : Move(c, verdict)
    /\ UNCHANGED <<campaign, sealed, frozen, files, generated, used, log,
                   decisions, acceptedCount, history>>

(* An exhausted budget leaves the rest of the screened candidates behind.   *)
EnterSealing ==
    /\ Goto("validate", "seal")
    /\ NoneIn("SCREENED") \/ used.experiments >= config.experiments
    /\ SetState("SEALING")
    /\ UNCHANGED <<sealed, frozen, trials, files, memory, history>>

Seal ==
    /\ Goto("seal", "sealed")
    /\ frozen' = {c \in Candidates : cand[c] = "EVALUATED"}
    /\ sealed' = TRUE
    /\ cand' = [c \in Candidates |-> IF c \in frozen' THEN "SEALED" ELSE cand[c]]
    /\ UNCHANGED <<campaign, trials, files, generated, used, log, decisions,
                   acceptedCount, rejectedCount, history>>

EnterTest ==
    /\ Goto("sealed", "test")
    /\ SetState("TEST_PHASE")
    /\ UNCHANGED <<sealed, frozen, trials, files, memory, history>>

Authorized(c) == sealed /\ c \in frozen /\ c \notin log

(* The seal is asked first, and logs the candidate; the experiment is       *)
(* consumed next; the evaluation opens TEST.                                *)
RunTest(c) ==
    /\ Goto("test", "tested")
    /\ FirstIn(c, "SEALED")
    /\ Authorized(c)
    /\ used.experiments < config.experiments
    /\ log' = log \union {c}
    /\ used' = [used EXCEPT !.experiments = @ + 1]
    /\ ran' = ran + 1
    /\ opens' = [opens EXCEPT ![c] = @ + 1]
    /\ UNCHANGED <<rows, files, generated, cand, decisions, acceptedCount,
                   rejectedCount, peeked, crashes>>

RefuseTest(c) ==
    /\ stage = "test"
    /\ FirstIn(c, "SEALED")
    /\ Authorized(c) => used.experiments >= config.experiments
    /\ log' = IF Authorized(c) THEN log \union {c} ELSE log
    /\ Move(c, "REJECTED")
    /\ UNCHANGED <<rows, files, stage, generated, used, decisions,
                   acceptedCount, history>>

CountTest(c) ==
    /\ Goto("tested", "test")
    /\ FirstIn(c, "SEALED")
    /\ Move(c, "TEST_EVALUATED")
    /\ trials' = [candidates |-> trials.candidates,
                  experiments |-> trials.experiments + 1,
                  tests |-> trials.tests + 1]
    /\ UNCHANGED <<campaign, sealed, frozen, files, generated, used, log,
                   decisions, acceptedCount, history>>

BeginDecisions ==
    /\ Goto("test", "decide")
    /\ NoneIn("SEALED")
    /\ UNCHANGED <<rows, files, memory, history>>

(* Candidates a decision is due for, in the order of the pool; those an     *)
(* exhausted budget left SCREENED are passed over.                          *)
Undecided ==
    {c \in Candidates : /\ cand[c] \in {"TEST_EVALUATED", "REJECTED"}
                        /\ decisions[c] = "none"}

Due(c, state) ==
    /\ stage = "decide"
    /\ c \in Undecided
    /\ \A d \in Undecided : c <= d
    /\ cand[c] = state

RejectedEarlier(c) ==
    /\ Due(c, "REJECTED")
    /\ decisions' = [decisions EXCEPT ![c] = "rejected"]
    /\ UNCHANGED <<rows, files, stage, generated, cand, used, log,
                   acceptedCount, rejectedCount, history>>

Reject(c) ==
    /\ Due(c, "TEST_EVALUATED")
    /\ Move(c, "REJECTED")
    /\ decisions' = [decisions EXCEPT ![c] = "rejected"]
    /\ UNCHANGED <<rows, files, stage, generated, used, log, acceptedCount,
                   history>>

Acceptable(c) ==
    /\ Due(c, "TEST_EVALUATED")
    /\ config.eligibility # "barred"
    /\ sealed /\ c \in log

(* The record is named after the strategy, so a later candidate of the same *)
(* spec overwrites the record of an earlier one.                            *)
SameStrategy(c) == {d \in Candidates : Generated[d] = Generated[c]}

Accept(c) ==
    /\ Acceptable(c)
    /\ Move(c, "ACCEPTED")
    /\ decisions' = [decisions EXCEPT ![c] = "accepted"]
    /\ acceptedCount' = acceptedCount + 1
    /\ records' = IF config.eligibility = "recorded"
                  THEN (records \ SameStrategy(c)) \union {c} ELSE records
    /\ UNCHANGED <<rows, report, config, stage, generated, used, log,
                   history>>

(* Variant: the withdrawn decision stays counted.                           *)
AcceptUnwrittenCounted(c) ==
    /\ Acceptable(c)
    /\ config.eligibility = "recorded"
    /\ Move(c, "ACCEPTED")
    /\ decisions' = [decisions EXCEPT ![c] = "rejected"]
    /\ acceptedCount' = acceptedCount + 1
    /\ UNCHANGED <<rows, files, stage, generated, used, log, history>>

(* The record cannot be built or written: the decision is withdrawn and     *)
(* counted back, the state of the candidate is not.                         *)
AcceptUnwritten(c) ==
    /\ Acceptable(c)
    /\ config.eligibility = "recorded"
    /\ Move(c, "ACCEPTED")
    /\ decisions' = [decisions EXCEPT ![c] = "rejected"]
    /\ UNCHANGED <<rows, files, stage, generated, used, log, acceptedCount,
                   history>>

Finalize ==
    /\ Goto("decide", "report")
    /\ Undecided = {}
    /\ SetState("FINALIZED")
    /\ acceptedCount' = IF config.eligibility = "barred" THEN 0 ELSE acceptedCount
    /\ UNCHANGED <<sealed, frozen, trials, files, generated, cand, used, log,
                   decisions, rejectedCount, history>>

WriteReport ==
    /\ Goto("report", "idle")
    /\ report' = [written |-> TRUE, accepted |-> acceptedCount,
                  rejected |-> rejectedCount]
    /\ UNCHANGED <<rows, records, config, memory, history>>

Raise == stage # "idle" /\ Fail

Crash ==
    /\ stage # "idle"
    /\ crashes < MaxCrashes
    /\ crashes' = crashes + 1
    /\ stage' = "idle"
    /\ UNCHANGED <<rows, files, memory, ran, opens, peeked>>
-----------------------------------------------------------------------------
Step ==
    \/ SetReady \/ Refuse \/ SetRunning
    \/ AdmitOne \/ EndAdmission \/ BeginValidation
    \/ EnterSealing \/ Seal \/ EnterTest
    \/ BeginDecisions \/ Finalize \/ WriteReport
    \/ \E c \in Candidates :
          \/ Screen(c) \/ RunValidation(c) \/ CountValidation(c)
          \/ RunTest(c) \/ RefuseTest(c) \/ CountTest(c)
          \/ RejectedEarlier(c) \/ Reject(c) \/ Accept(c) \/ AcceptUnwritten(c)

Next == Create \/ Resume \/ Step \/ Raise \/ Crash

Spec == Init /\ [][Next]_vars

(* A process that is not killed and does not raise takes its next step, and *)
(* a campaign that was left unfinished is resumed.                          *)
FairSpec == Spec /\ WF_vars(Step) /\ WF_vars(Resume)
-----------------------------------------------------------------------------
TypeOK ==
    /\ campaign \in CampaignStates
    /\ sealed \in BOOLEAN
    /\ frozen \in SUBSET Candidates
    /\ trials \in [candidates : Nat, experiments : Nat, tests : Nat]
    /\ records \in SUBSET Candidates
    /\ report \in [written : BOOLEAN, accepted : Nat, rejected : Nat]
    /\ config \in Configs
    /\ stage \in Stages
    /\ generated \in 0 .. N
    /\ cand \in [Candidates -> CandidateStates]
    /\ used \in [candidates : Nat, experiments : Nat]
    /\ log \in SUBSET Candidates
    /\ decisions \in [Candidates -> {"none", "accepted", "rejected"}]
    /\ acceptedCount \in Nat
    /\ rejectedCount \in Nat
    /\ ran \in Nat
    /\ opens \in [Candidates -> Nat]
    /\ peeked \in SUBSET Candidates
    /\ crashes \in 0 .. MaxCrashes

MeasuredOnce ==
    \A c \in Candidates :
        /\ opens[c] <= 1
        /\ opens[c] > 0 => sealed /\ c \in frozen

SawTest(c) == opens[c] > 0 \/ c \in peeked

(* The sealed evaluation of a candidate is run at most once in the life of  *)
(* the campaign, however its processes raise, die and are resumed, and only *)
(* for one the seal on disk names; and as long as the windows of            *)
(* walk-forward stay out of the TEST period, it is all a candidate sees of  *)
(* TEST.                                                                    *)
OneShotTest ==
    /\ MeasuredOnce
    /\ ~ config.reaches =>
           \A c \in Candidates : SawTest(c) => sealed /\ c \in frozen

(* The trial counters of the campaign, which a resume restores the budgets  *)
(* from and the seal, the acceptance record and the report quote, are those *)
(* of every evaluation ever run, short by at most the one a process was     *)
(* counting when it ended; a record and a report are never short, and the   *)
(* evaluations of all processes together respect the budget.                *)
TrialsCounted ==
    /\ trials.experiments <= ran /\ ran <= trials.experiments + 1
    /\ ran <= config.experiments
    /\ records # {} \/ report.written => trials.experiments = ran

Count(f, v) == Cardinality({c \in Candidates : f[c] = v})

(* What the report says was accepted and rejected is what the decisions and *)
(* the candidates say; a barred campaign reports and records nothing; and   *)
(* every candidate that saw TEST has been decided.                          *)
ReportExplains ==
    report.written =>
        /\ report.accepted = Count(decisions, "accepted")
        /\ report.rejected = Count(cand, "REJECTED")
        /\ config.eligibility = "barred" => report.accepted = 0 /\ records = {}
        /\ \A c \in Candidates : opens[c] > 0 => decisions[c] # "none"

(* A campaign that was finalized or has failed stays so: no exception while *)
(* its report is written and no later resume moves it.                      *)
OverIsOver == [][(campaign \in Over) => (campaign' = campaign)]_vars

(* A campaign that is resumed whenever a process left it ends, finalized or *)
(* failed, unless the process that died had counted more candidates than    *)
(* the budget allows: such a campaign can be resumed no more.               *)
CampaignEnds ==
    campaign # "none" ~>
        \/ campaign \in Over
        \/ stage = "idle" /\ trials.candidates > config.candidates

(* The candidates are selected once, without a look at TEST unless the      *)
(* windows of walk-forward reach it, and measured on it once.               *)
Seals == INSTANCE SealedTest WITH
    leaky <- config.reaches, early <- peeked,
    fixed <- sealed, selected <- frozen,
    tested <- {c \in Candidates : opens[c] > 0}, accepted <- records

SealedTestSpec == Seals!Spec

(* docs/PHASE6_ARCHITECTURE.md:189 of the candidates of a campaign:         *)
(* equivalent specs share one trial slot.                                   *)
EquivalentSpecsShareOneTrial ==
    \A c, d \in Candidates :
        c # d /\ Generated[c] = Generated[d] => opens[c] + opens[d] <= 1
=============================================================================
