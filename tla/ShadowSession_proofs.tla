------------------------ MODULE ShadowSession_proofs ------------------------
(***************************************************************************)
(* ShadowSession, for every number of bars and restarts, every set of      *)
(* configurations and whatever the broker account shows: the decisions are *)
(* accounted for, a mismatch halts, a trusted recovery is one, and the     *)
(* session implements DecisionWindow.                                      *)
(***************************************************************************)
EXTENDS ShadowSession, FiniteSetTheorems, TLAPS

(***************************************************************************)
(* The inductive invariant.                                                *)
(***************************************************************************)

(* Decisions are for bars that came, or for the next.                       *)
DecisionsFollowBars ==
    /\ \A o \in would : o.exec <= lastSeq + 1
    /\ \A seq \in filled : seq <= lastSeq
    /\ IsFiniteSet(would)

(* What a checkpoint holds was journaled before, under one configuration.   *)
FilesAgree ==
    /\ \A o \in would : [exec |-> o.exec, config |-> frozen] \in journal.decisions
    /\ checkpoint.decisions \subseteq journal.decisions
    /\ \A d \in checkpoint.decisions : d.config = checkpoint.config

IInv ==
    /\ TypeOK
    /\ DecisionsAccounted
    /\ DecisionsFollowBars
    /\ MismatchHalts
    /\ FilesAgree
    /\ TrustedRecovery

LEMMA Bounds ==
    /\ MaxSeq \in Nat
    /\ MaxRestarts \in Nat
    /\ Held \subseteq Int
  BY BoundAssumption DEF BoundAssumption

(***************************************************************************)
(* Counting.                                                               *)
(***************************************************************************)

(* A finite set of orders with one more has one more of its side.           *)
LEMMA CountOneMore ==
    ASSUME NEW S, NEW o, IsFiniteSet(S), o \notin S, NEW side
    PROVE  LET A == {p \in S : p.side = side}
               B == {p \in S \union {o} : p.side = side}
           IN  /\ Cardinality(A) \in Nat
               /\ o.side = side => Cardinality(B) = Cardinality(A) + 1
               /\ o.side # side => Cardinality(B) = Cardinality(A)
<1> DEFINE A == {p \in S : p.side = side}
           B == {p \in S \union {o} : p.side = side}
<1>1. IsFiniteSet(A) /\ o \notin A
  BY FS_Subset
<1>2. Cardinality(A) \in Nat /\ Cardinality(A \union {o}) = Cardinality(A) + 1
  BY <1>1, FS_AddElement, FS_CardinalityType
<1>3. o.side = side => B = A \union {o}
  OBVIOUS
<1>4. o.side # side => B = A
  OBVIOUS
<1> QED BY <1>2, <1>3, <1>4

(***************************************************************************)
(* The initial state and every step.                                       *)
(***************************************************************************)

LEMMA InitIInv == Init => IInv
<1> SUFFICES ASSUME Init PROVE IInv
  OBVIOUS
<1>1. TypeOK
  <2>1. /\ machine \in States /\ provider \in {"off", "on", "cut"}
        /\ reco \in {"SKIPPED", "CLEAN", "MISMATCH"}
        /\ frozen \in Configs /\ current \in Configs
    BY DEF Init, States
  <2>2. paused \in BOOLEAN /\ kill \in BOOLEAN /\ reconciles \in BOOLEAN
    BY DEF Init
  <2>3. /\ lastSeq \in 0 .. MaxSeq /\ position \in Int /\ restarts \in 0 .. MaxRestarts
    BY Bounds DEF Init, FreshOrders
  <2>4. would = {} /\ pending = {} /\ filled = {}
    BY DEF Init, FreshOrders
  <2>5. /\ journal \in [bars : SUBSET Seqs, decisions : SUBSET Decisions,
                        repeats : BOOLEAN, torn : BOOLEAN]
        /\ checkpoint \in [file : {"missing", "torn", "whole"}, config : Configs,
                           decisions : SUBSET Decisions, killed : BOOLEAN]
        /\ verdict \in [trusted : BOOLEAN, allows : BOOLEAN,
                        decisions : SUBSET Decisions]
    BY DEF Init, NothingRecovered
  <2> QED BY <2>1, <2>2, <2>3, <2>4, <2>5 DEF TypeOK
<1>2. \A side : {o \in {} : o.side = side} = {}
  OBVIOUS
<1>3. DecisionsAccounted
  BY <1>2, FS_EmptySet DEF Init, FreshOrders, DecisionsAccounted, Count
<1> QED BY <1>1, <1>3, FS_EmptySet
        DEF Init, FreshOrders, IInv, DecisionsFollowBars, MismatchHalts, FilesAgree,
            TrustedRecovery, NothingRecovered

(* Types.                                                                   *)
LEMMA StepType ==
    IInv /\ [Next]_vars => TypeOK'
<1> SUFFICES ASSUME IInv, [Next]_vars PROVE TypeOK'
  OBVIOUS
<1>1. CASE ConnectFails
  BY <1>1 DEF IInv, TypeOK, States, ConnectFails, Preflighted, controlVars,
     configVars, orderVars, fileVars
<1>2. CASE Connect
  BY <1>2 DEF IInv, TypeOK, States, Connect, Preflighted, controlVars,
     configVars, orderVars, fileVars
<1>3. ASSUME NEW fails \in BOOLEAN, NEW held \in Held,
            BeginShadow(fails, held)
     PROVE  TypeOK'
  BY <1>3 DEF IInv, TypeOK, States, BeginShadow, ReconcileFrom, StatusOf,
     Paused, controlVars, configVars, orderVars, fileVars
<1>4. CASE Pause
  BY <1>4 DEF IInv, TypeOK, States, Pause, Paused, controlVars, configVars,
     orderVars, fileVars
<1>5. CASE Resume
  <2>1. machine' \in States /\ paused' \in BOOLEAN
    BY <1>5 DEF Resume, States
  <2> QED BY <1>5, <2>1 DEF IInv, TypeOK, Resume, configVars, orderVars, fileVars
<1>6. CASE ActivateKillSwitch
  BY <1>6 DEF IInv, TypeOK, States, ActivateKillSwitch, Paused, controlVars,
     configVars, orderVars, fileVars
<1>7. ASSUME NEW config \in Configs, ChangeConfig(config)
     PROVE  TypeOK'
  <2>1. machine' \in States /\ paused' \in BOOLEAN /\ current' \in Configs
    BY <1>7 DEF ChangeConfig, States, IInv, TypeOK
  <2> QED BY <1>7, <2>1 DEF IInv, TypeOK, ChangeConfig, configVars, orderVars, fileVars
<1>8. CASE Stop
  BY <1>8 DEF IInv, TypeOK, States, Stop, controlVars, configVars, orderVars,
     fileVars
<1>9. CASE Cut
  BY <1>9 DEF IInv, TypeOK, States, Cut, controlVars, configVars, orderVars,
     fileVars
<1>10. CASE Reconnect
  BY <1>10 DEF IInv, TypeOK, States, Reconnect, controlVars, configVars,
     orderVars, fileVars
<1>11. CASE DrainDisconnected
  BY <1>11 DEF IInv, TypeOK, States, DrainDisconnected, Paused, controlVars,
     configVars, orderVars, fileVars
<1>12. CASE BarInvalidates
  BY <1>12 DEF IInv, TypeOK, States, BarInvalidates, MayBeInvalidated,
     controlVars, configVars, orderVars, fileVars
<1>13. ASSUME NEW seq \in Seqs, BarOfFuture(seq)
     PROVE  TypeOK'
  BY <1>13 DEF IInv, TypeOK, States, BarOfFuture, Watching, Passes, Paused,
     controlVars, configVars, orderVars, fileVars
<1>14. ASSUME NEW seq \in Seqs, NEW fails \in BOOLEAN, NEW held \in Held,
            BarMismatched(seq, fails, held)
     PROVE  TypeOK'
  <2>1. /\ machine' \in States /\ paused' \in BOOLEAN
        /\ reco' \in {"SKIPPED", "CLEAN", "MISMATCH"}
    BY <1>14 DEF IInv, TypeOK, BarMismatched, WarmUp, ReconcileFrom, StatusOf, Paused, States
  <2>2. lastSeq' \in 0 .. MaxSeq
    BY <1>14, Bounds DEF BarMismatched, Seqs
  <2> QED BY <1>14, <2>1, <2>2 DEF IInv, TypeOK, BarMismatched, configVars, fileVars
<1>15. ASSUME NEW seq \in Seqs, NEW order \in Orders, NEW fails \in BOOLEAN,
            NEW held \in Held, BarDecided(seq, order, fails, held)
     PROVE  TypeOK'
  <2>1. /\ machine' \in States /\ provider' \in {"off", "on", "cut"}
        /\ paused' \in BOOLEAN /\ kill' \in BOOLEAN /\ reconciles' \in BOOLEAN
        /\ reco' \in {"SKIPPED", "CLEAN", "MISMATCH"}
    BY <1>15 DEF IInv, TypeOK, BarDecided, WarmUp, ReconcileFrom, StatusOf, Paused, Watching,
             States, configVars
  <2>2. /\ frozen' \in Configs /\ current' \in Configs /\ lastSeq' \in 0 .. MaxSeq
        /\ restarts' \in 0 .. MaxRestarts
    BY <1>15, Bounds DEF IInv, TypeOK, BarDecided, configVars, Seqs
  <2>3. ExecSeq(seq) \in 2 .. MaxSeq + 1 /\ seq \in 1 .. MaxSeq
    BY Bounds DEF ExecSeq, Seqs
  <2>4. would' \in SUBSET [exec : 2 .. MaxSeq + 1, side : {"BUY", "SELL"}]
    BY <1>15, <2>3 DEF IInv, TypeOK, BarDecided, Accepted
  <2>5. /\ pending' \in SUBSET (2 .. MaxSeq + 1)
        /\ filled' \in SUBSET Seqs
    BY <1>15, <2>3 DEF IInv, TypeOK, BarDecided, FillPending, Seqs
  <2>6. position' \in Int
    BY <1>15 DEF IInv, TypeOK, BarDecided
  <2>7. journal' \in [bars : SUBSET Seqs, decisions : SUBSET Decisions,
                      repeats : BOOLEAN, torn : BOOLEAN]
    <3>1. [exec |-> ExecSeq(seq), config |-> frozen] \in Decisions
      BY <2>3 DEF IInv, TypeOK, Decisions
    <3> QED BY <1>15, <3>1 DEF IInv, TypeOK, BarDecided, JournalBar
  <2>8. checkpoint' = checkpoint /\ verdict' = verdict
    BY <1>15 DEF BarDecided
  <2> QED BY <2>1, <2>2, <2>4, <2>5, <2>6, <2>7, <2>8 DEF IInv, TypeOK
<1>16. CASE WriteCheckpoint
  <2>1. DecisionsOf(would) \in SUBSET Decisions
    BY DEF IInv, TypeOK, DecisionsOf, Decisions
  <2>2. checkpoint' \in [file : {"missing", "torn", "whole"}, config : Configs,
                         decisions : SUBSET Decisions, killed : BOOLEAN]
    BY <1>16, <2>1 DEF IInv, TypeOK, WriteCheckpoint
  <2> QED BY <1>16, <2>2 DEF IInv, TypeOK, WriteCheckpoint, controlVars, configVars, orderVars
<1>17. CASE End
  <2>1. /\ journal' \in [bars : SUBSET Seqs, decisions : SUBSET Decisions,
                         repeats : BOOLEAN, torn : BOOLEAN]
        /\ checkpoint' \in [file : {"missing", "torn", "whole"}, config : Configs,
                            decisions : SUBSET Decisions, killed : BOOLEAN]
    BY <1>17 DEF IInv, TypeOK, End, fileVars
  <2> QED BY <1>17, <2>1 DEF IInv, TypeOK, End, States, configVars, orderVars
<1>18. ASSUME NEW config \in Configs, Restart(config)
     PROVE  TypeOK'
  <2>1. verdict' \in [trusted : BOOLEAN, allows : BOOLEAN,
                      decisions : SUBSET Decisions]
    BY <1>18 DEF IInv, TypeOK, Restart, Recovered, Trusts
  <2>2. restarts' \in 0 .. MaxRestarts
    BY <1>18, Bounds DEF IInv, TypeOK, Restart
  <2>3. /\ lastSeq' \in 0 .. MaxSeq /\ position' \in Int
    BY <1>18, Bounds DEF Restart
  <2>4. /\ machine' \in States /\ provider' \in {"off", "on", "cut"}
        /\ paused' \in BOOLEAN /\ kill' \in BOOLEAN
        /\ reco' \in {"SKIPPED", "CLEAN", "MISMATCH"}
        /\ frozen' \in Configs /\ current' \in Configs
    BY <1>18 DEF Restart, States
  <2> QED BY <1>18, <2>1, <2>2, <2>3, <2>4 DEF IInv, TypeOK, Restart, fileVars
<1>19. CASE UNCHANGED vars
  BY <1>19 DEF IInv, TypeOK, States, vars, controlVars, configVars,
     orderVars, fileVars
<1> QED BY <1>1, <1>2, <1>3, <1>4, <1>5, <1>6, <1>7, <1>8, <1>9, <1>10,
           <1>11, <1>12, <1>13, <1>14, <1>15, <1>16, <1>17, <1>18,
           <1>19 DEF Next

(* Only a bar that is decided adds to the books.                            *)
LEMMA StepAccounted ==
    IInv /\ [Next]_vars => DecisionsAccounted'
<1> SUFFICES ASSUME IInv, [Next]_vars PROVE DecisionsAccounted'
  OBVIOUS
<1>1. ASSUME NEW seq \in Seqs, NEW order \in Orders, NEW fails \in BOOLEAN,
            NEW held \in Held, BarDecided(seq, order, fails, held)
     PROVE  DecisionsAccounted'
  <2>1. seq > lastSeq /\ seq \in Nat /\ lastSeq \in Nat
    BY <1>1, Bounds DEF BarDecided, Passes, IInv, TypeOK, Seqs
  <2>2. \A o \in would : o.exec \in Nat /\ o.exec <= lastSeq + 1
    BY Bounds DEF IInv, TypeOK, DecisionsFollowBars
  <2>3. /\ \A o \in would : o.exec # ExecSeq(seq)
        /\ ExecSeq(seq) \notin filled /\ ExecSeq(seq) # seq
    BY <2>1, <2>2, Bounds DEF ExecSeq, IInv, DecisionsFollowBars, TypeOK, Seqs
  <2>4. ExecSeq(seq) \notin pending /\ seq \notin filled
    BY <2>1, <2>3, Bounds DEF IInv, DecisionsAccounted, DecisionsFollowBars, TypeOK, Seqs
  <2> DEFINE new == [exec |-> ExecSeq(seq), side |-> order]
  <2>5. new \notin would /\ IsFiniteSet(would)
    BY <2>3 DEF IInv, DecisionsFollowBars
  <2>6. CASE ~ Accepted(order)
    <3>1. would' = would /\ pending' = pending \ {seq}
          /\ filled' = filled \union (pending \cap {seq}) /\ position' = position
      BY <1>1, <2>6 DEF BarDecided, FillPending, Accepted, IInv, TypeOK
    <3> QED BY <3>1 DEF IInv, DecisionsAccounted, Count
  <2>7. CASE Accepted(order)
    <3>1. would' = would \union {new} /\ pending' = (pending \ {seq}) \union {ExecSeq(seq)}
          /\ filled' = filled \union (pending \cap {seq})
      BY <1>1, <2>7 DEF BarDecided, FillPending
    <3>2. /\ {o.exec : o \in would}' = pending' \union filled'
          /\ pending' \cap filled' = {}
          /\ \A o, p \in would' : o.exec = p.exec => o = p
      <4>1. {o.exec : o \in would}' = {o.exec : o \in would} \union {ExecSeq(seq)}
        <5>1. {o.exec : o \in would}' = {o.exec : o \in would \union {new}}
          BY <3>1
        <5>2. new.exec = ExecSeq(seq)
          OBVIOUS
        <5> HIDE DEF new
        <5>3. {o.exec : o \in would \union {new}} = {o.exec : o \in would} \union {new.exec}
          OBVIOUS
        <5> QED BY <5>1, <5>2, <5>3
      <4>2. pending' \union filled' = pending \union filled \union {ExecSeq(seq)}
        BY <3>1
      <4>3. pending' \cap filled' = {}
        BY <3>1, <2>3, <2>4 DEF IInv, DecisionsAccounted
      <4>4. \A o, p \in would' : o.exec = p.exec => o = p
        BY <3>1, <2>3 DEF IInv, DecisionsAccounted
      <4> QED BY <4>1, <4>2, <4>3, <4>4 DEF IInv, DecisionsAccounted
    <3>3. position = Count("BUY") - Count("SELL")
      BY DEF IInv, DecisionsAccounted
    <3>4. \A side \in {"BUY", "SELL"} :
              /\ Count(side) \in Nat
              /\ order = side => Count(side)' = Count(side) + 1
              /\ order # side => Count(side)' = Count(side)
      <4> TAKE side \in {"BUY", "SELL"}
      <4>1. new.side = order
        OBVIOUS
      <4> HIDE DEF new
      <4>2. Count(side)' = Cardinality({p \in would \union {new} : p.side = side})
        BY <3>1 DEF Count
      <4>3. /\ Cardinality({p \in would : p.side = side}) \in Nat
            /\ new.side = side => Cardinality({p \in would \union {new} : p.side = side})
                                  = Cardinality({p \in would : p.side = side}) + 1
            /\ new.side # side => Cardinality({p \in would \union {new} : p.side = side})
                                  = Cardinality({p \in would : p.side = side})
        BY <2>5, CountOneMore
      <4> QED BY <4>1, <4>2, <4>3 DEF Count
    <3>5. CASE order = "BUY"
      <4>1. Count("BUY")' = Count("BUY") + 1 /\ Count("BUY") \in Nat
        BY <3>4, <3>5
      <4>2. Count("SELL")' = Count("SELL") /\ Count("SELL") \in Nat
        BY <3>4, <3>5
      <4>3. position' = position + 1
        BY <1>1, <3>5 DEF BarDecided
      <4>4. position' = Count("BUY")' - Count("SELL")'
        BY <3>3, <4>1, <4>2, <4>3
      <4> QED BY <3>2, <4>4 DEF DecisionsAccounted
    <3>6. CASE order = "SELL"
      <4>1. Count("SELL")' = Count("SELL") + 1 /\ Count("SELL") \in Nat
        BY <3>4, <3>6
      <4>2. Count("BUY")' = Count("BUY") /\ Count("BUY") \in Nat
        BY <3>4, <3>6
      <4>3. position' = position - 1
        BY <1>1, <3>6 DEF BarDecided, IInv, TypeOK
      <4>4. position' = Count("BUY")' - Count("SELL")'
        BY <3>3, <4>1, <4>2, <4>3
      <4> QED BY <3>2, <4>4 DEF DecisionsAccounted
    <3> QED BY <2>7, <3>5, <3>6 DEF Accepted
  <2> QED BY <2>6, <2>7
<1>2. ASSUME NEW config \in Configs, Restart(config)
     PROVE  DecisionsAccounted'
  <2>1. /\ would' = {} /\ pending' = {} /\ filled' = {} /\ position' = 0
    BY <1>2 DEF Restart
  <2>2. \A side : {o \in {} : o.side = side} = {}
    OBVIOUS
  <2> QED BY <2>1, <2>2, FS_EmptySet DEF DecisionsAccounted, Count
<1>3. CASE UNCHANGED <<would, pending, filled, position>>
  BY <1>3 DEF IInv, DecisionsAccounted, Count
<1>4. ConnectFails \/ Connect \/ Pause \/ Resume \/
        ActivateKillSwitch \/ Stop \/ Cut \/ Reconnect \/
        DrainDisconnected \/ BarInvalidates \/ WriteCheckpoint \/ End
        => UNCHANGED <<would, pending, filled, position>>
  BY DEF ConnectFails, Preflighted, Connect, Pause, Paused, Resume,
     ActivateKillSwitch, Stop, Cut, Reconnect, DrainDisconnected,
     BarInvalidates, MayBeInvalidated, WriteCheckpoint, DecisionsOf, End,
     controlVars, configVars, orderVars, fileVars
<1>5. ASSUME NEW fails \in BOOLEAN, NEW held \in Held,
            BeginShadow(fails, held)
     PROVE  UNCHANGED <<would, pending, filled, position>>
  BY <1>5 DEF BeginShadow, ReconcileFrom, StatusOf, Paused, controlVars,
     configVars, orderVars, fileVars
<1>6. ASSUME NEW config \in Configs, ChangeConfig(config)
     PROVE  UNCHANGED <<would, pending, filled, position>>
  BY <1>6 DEF ChangeConfig, MayBeInvalidated, controlVars, configVars,
     orderVars, fileVars
<1>7. ASSUME NEW seq \in Seqs, BarOfFuture(seq)
     PROVE  UNCHANGED <<would, pending, filled, position>>
  BY <1>7 DEF BarOfFuture, Watching, Passes, Paused, controlVars, configVars,
     orderVars, fileVars
<1>8. ASSUME NEW seq \in Seqs, NEW fails \in BOOLEAN, NEW held \in Held,
            BarMismatched(seq, fails, held)
     PROVE  UNCHANGED <<would, pending, filled, position>>
  BY <1>8 DEF BarMismatched, Watching, Passes, WarmUp, ReconcileFrom,
     StatusOf, Paused, controlVars, configVars, orderVars, fileVars
<1>9. UNCHANGED vars => UNCHANGED <<would, pending, filled, position>>
  BY DEF vars, controlVars, configVars, orderVars, fileVars
<1> QED BY <1>1, <1>2, <1>3, <1>4, <1>5, <1>6, <1>7, <1>8, <1>9 DEF Next

(* The sequence numbers of the bars that pass only grow.                    *)
LEMMA StepFollows ==
    IInv /\ [Next]_vars => DecisionsFollowBars'
<1> SUFFICES ASSUME IInv, [Next]_vars PROVE DecisionsFollowBars'
  OBVIOUS
<1>1. ASSUME NEW seq \in Seqs, NEW fails \in BOOLEAN, NEW held \in Held,
            BarMismatched(seq, fails, held)
     PROVE  DecisionsFollowBars'
  <2>1. seq > lastSeq /\ seq \in Nat /\ lastSeq \in Nat /\ lastSeq' = seq
    BY <1>1, Bounds DEF BarMismatched, Passes, IInv, TypeOK, Seqs
  <2>2. \A o \in would : o.exec \in Nat
    BY Bounds DEF IInv, TypeOK
  <2>3. filled \subseteq Nat
    BY Bounds DEF IInv, TypeOK, Seqs
  <2> QED BY <1>1, <2>1, <2>2, <2>3 DEF BarMismatched, IInv, DecisionsFollowBars
<1>2. ASSUME NEW seq \in Seqs, NEW order \in Orders, NEW fails \in BOOLEAN,
            NEW held \in Held, BarDecided(seq, order, fails, held)
     PROVE  DecisionsFollowBars'
  <2>1. seq > lastSeq /\ seq \in Nat /\ lastSeq \in Nat /\ lastSeq' = seq
    BY <1>2, Bounds DEF BarDecided, Passes, IInv, TypeOK, Seqs
  <2>2. \A o \in would : o.exec \in Nat
    BY Bounds DEF IInv, TypeOK
  <2>3. filled \subseteq Nat
    BY Bounds DEF IInv, TypeOK, Seqs
  <2>4. \A o \in would' : o.exec <= lastSeq' + 1
    BY <1>2, <2>1, <2>2 DEF BarDecided, ExecSeq, IInv, DecisionsFollowBars
  <2>5. \A s \in filled' : s <= lastSeq'
    BY <1>2, <2>1, <2>3 DEF BarDecided, FillPending, IInv, DecisionsFollowBars
  <2>6. IsFiniteSet(would')
    BY <1>2, FS_AddElement DEF BarDecided, IInv, DecisionsFollowBars
  <2> QED BY <2>4, <2>5, <2>6 DEF DecisionsFollowBars
<1>3. ASSUME NEW config \in Configs, Restart(config)
     PROVE  DecisionsFollowBars'
  BY <1>3, FS_EmptySet DEF Restart, DecisionsFollowBars
<1>4. CASE UNCHANGED <<would, filled, lastSeq>>
  BY <1>4 DEF IInv, DecisionsFollowBars
<1>5. ConnectFails \/ Connect \/ Pause \/ Resume \/
        ActivateKillSwitch \/ Stop \/ Cut \/ Reconnect \/
        DrainDisconnected \/ BarInvalidates \/ WriteCheckpoint \/ End
        => UNCHANGED <<would, filled, lastSeq>>
  BY DEF ConnectFails, Preflighted, Connect, Pause, Paused, Resume,
     ActivateKillSwitch, Stop, Cut, Reconnect, DrainDisconnected,
     BarInvalidates, MayBeInvalidated, WriteCheckpoint, DecisionsOf, End,
     controlVars, configVars, orderVars, fileVars
<1>6. ASSUME NEW fails \in BOOLEAN, NEW held \in Held,
            BeginShadow(fails, held)
     PROVE  UNCHANGED <<would, filled, lastSeq>>
  BY <1>6 DEF BeginShadow, ReconcileFrom, StatusOf, Paused, controlVars,
     configVars, orderVars, fileVars
<1>7. ASSUME NEW config \in Configs, ChangeConfig(config)
     PROVE  UNCHANGED <<would, filled, lastSeq>>
  BY <1>7 DEF ChangeConfig, MayBeInvalidated, controlVars, configVars,
     orderVars, fileVars
<1>8. ASSUME NEW seq \in Seqs, BarOfFuture(seq)
     PROVE  UNCHANGED <<would, filled, lastSeq>>
  BY <1>8 DEF BarOfFuture, Watching, Passes, Paused, controlVars, configVars,
     orderVars, fileVars
<1>9. UNCHANGED vars => UNCHANGED <<would, filled, lastSeq>>
  BY DEF vars, controlVars, configVars, orderVars, fileVars
<1> QED BY <1>1, <1>2, <1>3, <1>4, <1>5, <1>6, <1>7, <1>8, <1>9 DEF Next

(* Every way back to RUNNING_SHADOW asks the reconciliation.                *)
LEMMA StepMismatch ==
    IInv /\ [Next]_vars => MismatchHalts'
<1> SUFFICES ASSUME IInv, [Next]_vars PROVE MismatchHalts'
  OBVIOUS
<1>1. CASE ConnectFails
  BY <1>1 DEF IInv, MismatchHalts, ConnectFails, Preflighted, controlVars,
     configVars, orderVars, fileVars
<1>2. CASE Connect
  BY <1>2 DEF IInv, MismatchHalts, Connect, Preflighted, controlVars,
     configVars, orderVars, fileVars
<1>3. ASSUME NEW fails \in BOOLEAN, NEW held \in Held,
            BeginShadow(fails, held)
     PROVE  MismatchHalts'
  BY <1>3 DEF IInv, MismatchHalts, BeginShadow, ReconcileFrom, StatusOf,
     Paused, controlVars, configVars, orderVars, fileVars
<1>4. CASE Pause
  BY <1>4 DEF IInv, MismatchHalts, Pause, Paused, controlVars, configVars,
     orderVars, fileVars
<1>5. CASE Resume
  BY <1>5 DEF IInv, MismatchHalts, Resume, controlVars, configVars,
     orderVars, fileVars
<1>6. CASE ActivateKillSwitch
  BY <1>6 DEF IInv, MismatchHalts, ActivateKillSwitch, Paused, controlVars,
     configVars, orderVars, fileVars
<1>7. ASSUME NEW config \in Configs, ChangeConfig(config)
     PROVE  MismatchHalts'
  BY <1>7 DEF IInv, MismatchHalts, ChangeConfig, MayBeInvalidated,
     controlVars, configVars, orderVars, fileVars
<1>8. CASE Stop
  BY <1>8 DEF IInv, MismatchHalts, Stop, controlVars, configVars, orderVars,
     fileVars
<1>9. CASE Cut
  BY <1>9 DEF IInv, MismatchHalts, Cut, controlVars, configVars, orderVars,
     fileVars
<1>10. CASE Reconnect
  BY <1>10 DEF IInv, MismatchHalts, Reconnect, controlVars, configVars,
     orderVars, fileVars
<1>11. CASE DrainDisconnected
  BY <1>11 DEF IInv, MismatchHalts, DrainDisconnected, Paused, controlVars,
     configVars, orderVars, fileVars
<1>12. CASE BarInvalidates
  BY <1>12 DEF IInv, MismatchHalts, BarInvalidates, MayBeInvalidated,
     controlVars, configVars, orderVars, fileVars
<1>13. ASSUME NEW seq \in Seqs, BarOfFuture(seq)
     PROVE  MismatchHalts'
  BY <1>13 DEF IInv, MismatchHalts, BarOfFuture, Watching, Passes, Paused,
     controlVars, configVars, orderVars, fileVars
<1>14. ASSUME NEW seq \in Seqs, NEW fails \in BOOLEAN, NEW held \in Held,
            BarMismatched(seq, fails, held)
     PROVE  MismatchHalts'
  BY <1>14 DEF IInv, MismatchHalts, BarMismatched, Watching, Passes, WarmUp,
     ReconcileFrom, StatusOf, Paused, controlVars, configVars, orderVars,
     fileVars
<1>15. ASSUME NEW seq \in Seqs, NEW order \in Orders, NEW fails \in BOOLEAN,
            NEW held \in Held, BarDecided(seq, order, fails, held)
     PROVE  MismatchHalts'
  BY <1>15 DEF IInv, MismatchHalts, BarDecided, Watching, Passes, WarmUp,
     ReconcileFrom, StatusOf, Paused, FillPending, JournalBar, Accepted,
     ExecSeq, controlVars, configVars, orderVars, fileVars
<1>16. CASE WriteCheckpoint
  BY <1>16 DEF IInv, MismatchHalts, WriteCheckpoint, DecisionsOf,
     controlVars, configVars, orderVars, fileVars
<1>17. CASE End
  BY <1>17 DEF IInv, MismatchHalts, End, controlVars, configVars, orderVars,
     fileVars
<1>18. ASSUME NEW config \in Configs, Restart(config)
     PROVE  MismatchHalts'
  BY <1>18 DEF IInv, MismatchHalts, Restart, Recovered, Trusts, controlVars,
     configVars, orderVars, fileVars
<1>19. CASE UNCHANGED vars
  BY <1>19 DEF IInv, MismatchHalts, vars, controlVars, configVars, orderVars,
     fileVars
<1> QED BY <1>1, <1>2, <1>3, <1>4, <1>5, <1>6, <1>7, <1>8, <1>9, <1>10,
           <1>11, <1>12, <1>13, <1>14, <1>15, <1>16, <1>17, <1>18,
           <1>19 DEF Next

(* The journal is written before the checkpoint.                            *)
LEMMA StepFiles ==
    IInv /\ [Next]_vars => FilesAgree'
<1> SUFFICES ASSUME IInv, [Next]_vars PROVE FilesAgree'
  OBVIOUS
<1>1. ASSUME NEW seq \in Seqs, NEW order \in Orders, NEW fails \in BOOLEAN,
            NEW held \in Held, BarDecided(seq, order, fails, held)
     PROVE  FilesAgree'
  <2>1. checkpoint' = checkpoint /\ frozen' = frozen
    BY <1>1 DEF BarDecided, configVars
  <2>2. journal.decisions \subseteq journal'.decisions
    BY <1>1 DEF BarDecided, JournalBar
  <2>3. Accepted(order) => [exec |-> ExecSeq(seq), config |-> frozen] \in journal'.decisions
    BY <1>1 DEF BarDecided, JournalBar
  <2>4. \A o \in would' : o \in would \/ (Accepted(order) /\ o.exec = ExecSeq(seq))
    BY <1>1 DEF BarDecided
  <2> QED BY <2>1, <2>2, <2>3, <2>4 DEF IInv, FilesAgree
<1>2. CASE WriteCheckpoint
  <2>1. \A d \in DecisionsOf(would) : d \in journal.decisions /\ d.config = frozen
    BY DEF DecisionsOf, IInv, FilesAgree
  <2> QED BY <1>2, <2>1 DEF WriteCheckpoint, IInv, FilesAgree, orderVars, configVars
<1>3. CASE End
  <2>1. /\ journal'.decisions = journal.decisions
        /\ checkpoint'.decisions = checkpoint.decisions
        /\ checkpoint'.config = checkpoint.config
    BY <1>3 DEF End, fileVars, IInv, TypeOK
  <2> QED BY <1>3, <2>1 DEF End, IInv, FilesAgree, orderVars, configVars
<1>4. ASSUME NEW config \in Configs, Restart(config)
     PROVE  FilesAgree'
  BY <1>4 DEF Restart, IInv, FilesAgree, fileVars
<1>5. CASE UNCHANGED <<would, frozen, journal, checkpoint>>
  BY <1>5 DEF IInv, FilesAgree
<1>6. ConnectFails \/ Connect \/ Pause \/ Resume \/
        ActivateKillSwitch \/ Stop \/ Cut \/ Reconnect \/
        DrainDisconnected \/ BarInvalidates
        => UNCHANGED <<would, frozen, journal, checkpoint>>
  BY DEF ConnectFails, Preflighted, Connect, Pause, Paused, Resume,
     ActivateKillSwitch, Stop, Cut, Reconnect, DrainDisconnected,
     BarInvalidates, MayBeInvalidated, controlVars, configVars, orderVars,
     fileVars
<1>7. ASSUME NEW fails \in BOOLEAN, NEW held \in Held,
            BeginShadow(fails, held)
     PROVE  UNCHANGED <<would, frozen, journal, checkpoint>>
  BY <1>7 DEF BeginShadow, ReconcileFrom, StatusOf, Paused, controlVars,
     configVars, orderVars, fileVars
<1>8. ASSUME NEW config \in Configs, ChangeConfig(config)
     PROVE  UNCHANGED <<would, frozen, journal, checkpoint>>
  BY <1>8 DEF ChangeConfig, MayBeInvalidated, controlVars, configVars,
     orderVars, fileVars
<1>9. ASSUME NEW seq \in Seqs, BarOfFuture(seq)
     PROVE  UNCHANGED <<would, frozen, journal, checkpoint>>
  BY <1>9 DEF BarOfFuture, Watching, Passes, Paused, controlVars, configVars,
     orderVars, fileVars
<1>10. ASSUME NEW seq \in Seqs, NEW fails \in BOOLEAN, NEW held \in Held,
            BarMismatched(seq, fails, held)
     PROVE  UNCHANGED <<would, frozen, journal, checkpoint>>
  BY <1>10 DEF BarMismatched, Watching, Passes, WarmUp, ReconcileFrom,
     StatusOf, Paused, controlVars, configVars, orderVars, fileVars
<1>11. UNCHANGED vars => UNCHANGED <<would, frozen, journal, checkpoint>>
  BY DEF vars, controlVars, configVars, orderVars, fileVars
<1> QED BY <1>1, <1>2, <1>3, <1>4, <1>5, <1>6, <1>7, <1>8, <1>9, <1>10,
           <1>11 DEF Next

(* Entries are never taken out of the journal.                              *)
LEMMA StepRecovery ==
    IInv /\ [Next]_vars => TrustedRecovery'
<1> SUFFICES ASSUME IInv, [Next]_vars PROVE TrustedRecovery'
  OBVIOUS
<1>1. ASSUME NEW seq \in Seqs, NEW order \in Orders, NEW fails \in BOOLEAN,
            NEW held \in Held, BarDecided(seq, order, fails, held)
     PROVE  TrustedRecovery'
  <2>1. verdict' = verdict /\ frozen' = frozen
    BY <1>1 DEF BarDecided, configVars
  <2>2. journal.decisions \subseteq journal'.decisions
    BY <1>1 DEF BarDecided, JournalBar
  <2> QED BY <2>1, <2>2 DEF IInv, TrustedRecovery
<1>2. CASE End
  <2>1. journal'.decisions = journal.decisions
    BY <1>2 DEF End, fileVars, IInv, TypeOK
  <2> QED BY <1>2, <2>1 DEF End, IInv, TrustedRecovery, configVars
<1>3. ASSUME NEW config \in Configs, Restart(config)
     PROVE  TrustedRecovery'
  BY <1>3 DEF Restart, Recovered, Trusts, IInv, FilesAgree, TrustedRecovery, fileVars
<1>4. CASE UNCHANGED <<verdict, frozen, journal>>
  BY <1>4 DEF IInv, TrustedRecovery
<1>5. ConnectFails \/ Connect \/ Pause \/ Resume \/
        ActivateKillSwitch \/ Stop \/ Cut \/ Reconnect \/
        DrainDisconnected \/ BarInvalidates \/ WriteCheckpoint
        => UNCHANGED <<verdict, frozen, journal>>
  BY DEF ConnectFails, Preflighted, Connect, Pause, Paused, Resume,
     ActivateKillSwitch, Stop, Cut, Reconnect, DrainDisconnected,
     BarInvalidates, MayBeInvalidated, WriteCheckpoint, DecisionsOf,
     controlVars, configVars, orderVars, fileVars
<1>6. ASSUME NEW fails \in BOOLEAN, NEW held \in Held,
            BeginShadow(fails, held)
     PROVE  UNCHANGED <<verdict, frozen, journal>>
  BY <1>6 DEF BeginShadow, ReconcileFrom, StatusOf, Paused, controlVars,
     configVars, orderVars, fileVars
<1>7. ASSUME NEW config \in Configs, ChangeConfig(config)
     PROVE  UNCHANGED <<verdict, frozen, journal>>
  BY <1>7 DEF ChangeConfig, MayBeInvalidated, controlVars, configVars,
     orderVars, fileVars
<1>8. ASSUME NEW seq \in Seqs, BarOfFuture(seq)
     PROVE  UNCHANGED <<verdict, frozen, journal>>
  BY <1>8 DEF BarOfFuture, Watching, Passes, Paused, controlVars, configVars,
     orderVars, fileVars
<1>9. ASSUME NEW seq \in Seqs, NEW fails \in BOOLEAN, NEW held \in Held,
            BarMismatched(seq, fails, held)
     PROVE  UNCHANGED <<verdict, frozen, journal>>
  BY <1>9 DEF BarMismatched, Watching, Passes, WarmUp, ReconcileFrom,
     StatusOf, Paused, controlVars, configVars, orderVars, fileVars
<1>10. UNCHANGED vars => UNCHANGED <<verdict, frozen, journal>>
  BY DEF vars, controlVars, configVars, orderVars, fileVars
<1> QED BY <1>1, <1>2, <1>3, <1>4, <1>5, <1>6, <1>7, <1>8, <1>9,
           <1>10 DEF Next

LEMMA Invariance == Spec => []IInv
<1>1. IInv /\ [Next]_vars => IInv'
  BY StepType, StepAccounted, StepFollows, StepMismatch, StepFiles, StepRecovery
     DEF IInv
<1> QED BY InitIInv, <1>1, PTL DEF Spec

(***************************************************************************)
(* Theorems.                                                               *)
(***************************************************************************)

(* The variables of the session keep their types.                           *)
THEOREM TypeCorrect == Spec => []TypeOK
<1>1. IInv => TypeOK
  BY DEF IInv
<1> QED BY <1>1, Invariance, PTL

(* Each WOULD_ORDER is pending or filled, once, and they add up to the      *)
(* shadow position.                                                         *)
THEOREM DecisionsAreAccounted == Spec => []DecisionsAccounted
<1>1. IInv => DecisionsAccounted
  BY DEF IInv
<1> QED BY <1>1, Invariance, PTL

(* A session that knows of a mismatch does not run.                         *)
THEOREM MismatchIsHalt == Spec => []MismatchHalts
<1>1. IInv => MismatchHalts
  BY DEF IInv
<1> QED BY <1>1, Invariance, PTL

(* A trusted recovery hands over journaled decisions of this configuration. *)
THEOREM RecoveryIsTrue == Spec => []TrustedRecovery
<1>1. IInv => TrustedRecovery
  BY DEF IInv
<1> QED BY <1>1, Invariance, PTL

LEMMA OthersDecideNothing ==
    ASSUME [Next]_vars,
           \A seq \in Seqs, order \in Orders, fails \in BOOLEAN, held \in Held :
               ~ BarDecided(seq, order, fails, held)
    PROVE  would' = would \/ \E config \in Configs : Restart(config)
  BY DEF Next, ConnectFails, Connect, BeginShadow, Pause, Resume, ActivateKillSwitch,
         ChangeConfig, Stop, Cut, Reconnect, DrainDisconnected, BarInvalidates,
         BarOfFuture, BarMismatched, WriteCheckpoint, End, vars, orderVars

(* The kill switch, a changed configuration and a mismatch each keep        *)
(* WOULD_ORDERs from being made.                                            *)
THEOREM Covered == Spec => DecisionsAreCovered
<1>1. [Next]_vars =>
        [(would' # would /\ machine' # "CREATED") =>
              ~ kill' /\ current' = frozen' /\ reco' # "MISMATCH"]_vars
  <2> SUFFICES ASSUME [Next]_vars, would' # would, machine' # "CREATED"
               PROVE  ~ kill' /\ current' = frozen' /\ reco' # "MISMATCH"
    OBVIOUS
  <2>1. \A config \in Configs : ~ Restart(config)
    BY DEF Restart
  <2>2. PICK seq \in Seqs, order \in Orders, fails \in BOOLEAN, held \in Held :
            BarDecided(seq, order, fails, held)
    BY <2>1, OthersDecideNothing
  <2> QED BY <2>2 DEF BarDecided, Watching, configVars
<1> QED BY <1>1, PTL DEF Spec, DecisionsAreCovered

(* The bars the session decided on.                                         *)
Decided == {o.exec - 1 : o \in would}

(* Every step is one of the window.                                         *)
LEMMA StepWindow ==
    IInv /\ [Next]_vars => (Window!Next \/ UNCHANGED Window!window)
<1> SUFFICES ASSUME IInv, [Next]_vars PROVE (Window!Next \/ UNCHANGED Window!window)
  OBVIOUS
<1>1. CASE ConnectFails
  BY <1>1 DEF ConnectFails, Preflighted, Closed, Ended, Window!Next,
     Window!Close, Window!window, controlVars, configVars, orderVars,
     fileVars
<1>2. CASE Connect
  BY <1>2 DEF Connect, Preflighted, Closed, Ended, Window!Next, Window!Close,
     Window!window, controlVars, configVars, orderVars, fileVars
<1>3. ASSUME NEW fails \in BOOLEAN, NEW held \in Held,
            BeginShadow(fails, held)
     PROVE  (Window!Next \/ UNCHANGED Window!window)
  BY <1>3 DEF BeginShadow, ReconcileFrom, StatusOf, Paused, Closed, Ended,
     Window!Next, Window!Close, Window!window, controlVars, configVars,
     orderVars, fileVars
<1>4. CASE Pause
  BY <1>4 DEF Pause, Paused, Closed, Ended, Window!Next, Window!Close,
     Window!window, controlVars, configVars, orderVars, fileVars
<1>5. CASE Resume
  BY <1>5 DEF Resume, Closed, Ended, Window!Next, Window!Close, Window!window,
     controlVars, configVars, orderVars, fileVars
<1>6. CASE ActivateKillSwitch
  BY <1>6 DEF ActivateKillSwitch, Paused, Closed, Ended, Window!Next,
     Window!Close, Window!window, controlVars, configVars, orderVars,
     fileVars
<1>7. ASSUME NEW config \in Configs, ChangeConfig(config)
     PROVE  (Window!Next \/ UNCHANGED Window!window)
  BY <1>7 DEF ChangeConfig, MayBeInvalidated, Closed, Ended, Window!Next,
     Window!Close, Window!window, controlVars, configVars, orderVars,
     fileVars
<1>8. CASE Stop
  BY <1>8 DEF Stop, Closed, Ended, Window!Next, Window!Close, Window!window,
     controlVars, configVars, orderVars, fileVars
<1>9. CASE Cut
  BY <1>9 DEF Cut, Closed, Ended, Window!Next, Window!Close, Window!window,
     controlVars, configVars, orderVars, fileVars
<1>10. CASE Reconnect
  BY <1>10 DEF Reconnect, Closed, Ended, Window!Next, Window!Close,
     Window!window, controlVars, configVars, orderVars, fileVars
<1>11. CASE DrainDisconnected
  BY <1>11 DEF DrainDisconnected, Paused, Closed, Ended, Window!Next,
     Window!Close, Window!window, controlVars, configVars, orderVars,
     fileVars
<1>12. CASE BarInvalidates
  BY <1>12 DEF BarInvalidates, MayBeInvalidated, Closed, Ended, Window!Next,
     Window!Close, Window!window, controlVars, configVars, orderVars,
     fileVars
<1>13. ASSUME NEW seq \in Seqs, BarOfFuture(seq)
     PROVE  (Window!Next \/ UNCHANGED Window!window)
  BY <1>13 DEF BarOfFuture, Watching, Passes, Paused, Closed, Ended,
     Window!Next, Window!Close, Window!window, controlVars, configVars,
     orderVars, fileVars
<1>14. ASSUME NEW seq \in Seqs, NEW fails \in BOOLEAN, NEW held \in Held,
            BarMismatched(seq, fails, held)
     PROVE  (Window!Next \/ UNCHANGED Window!window)
  BY <1>14 DEF BarMismatched, Watching, Passes, WarmUp, ReconcileFrom, StatusOf,
     Paused, Closed, Ended, Window!Next, Window!Close, Window!window,
     controlVars, configVars, orderVars, fileVars
<1>15. ASSUME NEW seq \in Seqs, NEW order \in Orders, NEW fails \in BOOLEAN,
            NEW held \in Held, BarDecided(seq, order, fails, held)
     PROVE  (Window!Next \/ UNCHANGED Window!window)
  <2>1. ~ Closed /\ ~ Closed'
    BY <1>15 DEF BarDecided, Watching, WarmUp, ReconcileFrom, StatusOf, Paused, Closed, Ended
  <2>2. \A o \in would : o.exec \in Nat /\ o.exec <= lastSeq + 1
    BY Bounds DEF IInv, TypeOK, DecisionsFollowBars
  <2>3. seq > lastSeq /\ seq \in Nat /\ lastSeq \in Nat /\ ExecSeq(seq) - 1 = seq
    BY <1>15, Bounds DEF BarDecided, Passes, IInv, TypeOK, Seqs, ExecSeq
  <2>4. \A earlier \in Decided : earlier < seq
    BY <2>2, <2>3 DEF Decided
  <2>5. CASE Accepted(order)
    <3> DEFINE new == [exec |-> ExecSeq(seq), side |-> order]
    <3>1. would' = would \union {new} /\ new.exec - 1 = seq
      BY <1>15, <2>3, <2>5 DEF BarDecided
    <3> HIDE DEF new
    <3>2. {o.exec - 1 : o \in would}' = {o.exec - 1 : o \in would \union {new}}
      BY <3>1
    <3>3. {o.exec - 1 : o \in would \union {new}} = {o.exec - 1 : o \in would} \union {new.exec - 1}
      OBVIOUS
    <3>4. Decided' = Decided \union {seq}
      BY <3>1, <3>2, <3>3 DEF Decided
    <3>5. Closed' = Closed
      BY <2>1 DEF Closed
    <3>6. Window!Decide(seq)
      BY <2>1, <2>4, <3>4, <3>5 DEF Window!Decide, Decided
    <3> QED BY <3>6 DEF Window!Next
  <2>6. CASE ~ Accepted(order)
    <3>1. would' = would
      BY <1>15, <2>6 DEF BarDecided
    <3>2. Closed' = Closed
      BY <2>1 DEF Closed
    <3> QED BY <3>1, <3>2 DEF Window!window
  <2> QED BY <2>5, <2>6
<1>16. CASE WriteCheckpoint
  BY <1>16 DEF WriteCheckpoint, DecisionsOf, Closed, Ended, Window!Next,
     Window!Close, Window!window, controlVars, configVars, orderVars,
     fileVars
<1>17. CASE End
  BY <1>17 DEF End, Closed, Ended, Window!Next, Window!Close, Window!window,
     controlVars, configVars, orderVars, fileVars
<1>18. ASSUME NEW config \in Configs, Restart(config)
     PROVE  (Window!Next \/ UNCHANGED Window!window)
  <2>1. Closed /\ ~ Closed' /\ would' = {}
    BY <1>18 DEF Restart, Closed, Ended
  <2>2. Decided' = {}
    BY <2>1 DEF Decided
  <2> QED BY <2>1, <2>2 DEF Window!Next, Window!Open, Decided
<1>19. CASE UNCHANGED vars
  BY <1>19 DEF vars, controlVars, configVars, orderVars, fileVars, Closed, Window!window
<1> QED BY <1>1, <1>2, <1>3, <1>4, <1>5, <1>6, <1>7, <1>8, <1>9, <1>10,
           <1>11, <1>12, <1>13, <1>14, <1>15, <1>16, <1>17, <1>18,
           <1>19 DEF Next

(* The session decides in the order of the bars and only while it is open.  *)
THEOREM ImplementsWindow == Spec => WindowSpec
<1>1. Init => Window!Init
  BY DEF Init, FreshOrders, Window!Init, Closed, Ended
<1>2. IInv /\ [Next]_vars => [Window!Next]_(Window!window)
  BY StepWindow
<1> QED BY <1>1, <1>2, Invariance, PTL DEF Spec, WindowSpec, Window!Spec
=============================================================================
