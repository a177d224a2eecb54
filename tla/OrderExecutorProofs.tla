------------------------- MODULE OrderExecutorProofs -------------------------
(***************************************************************************)
(* IInv is an inductive invariant of OrderExecutor, for every set of       *)
(* runners, of executors started by hand and of scripts, every lifetime of *)
(* a RiskGate record, and every bound.                                     *)
(***************************************************************************)
EXTENDS OrderExecutor, TLAPS

USE ExecutorAssumption

\* A runner is not an executor started by hand, and NoOne is neither.
LEMMA Disjoint == NoOne \notin Process /\ Runner \cap Manual = {}
  BY DEF Process, Lockless

USE Disjoint

\* The files of a first start satisfy IInv.
LEMMA InitIInv == Init => IInv
<1> SUFFICES ASSUME Init PROVE IInv
  OBVIOUS
<1> USE DEF Init, NoDecision
<1>1. TypeOK
  <2>1. decision \in Decision /\ built \in 0..MaxDecision
    BY DEF Decision
  <2>2. local \in [Process -> Decision] /\ mine \in [Process -> 0..MaxDecision]
    BY DEF Decision
  <2>3. gate \in [DecisionId -> Expiry] /\ sent \in [DecisionId -> Nat]
    BY DEF Expiry
  <2>4. result \in [by : Runner \cup Lockless \cup {NoOne}, id : 0..MaxDecision,
               performed : BOOLEAN]
    BY DEF NoResult
  <2> QED
    BY <2>1, <2>2, <2>3, <2>4 DEF TypeOK
<1>2. LockHeld /\ IdsBuilt /\ OffersOwn /\ PersistsNew
  BY DEF LockHeld, IdsBuilt, OffersOwn, PersistsNew, Process
<1>3. SingleUse /\ ReconcilesOwn
  BY DEF SingleUse, ReconcilesOwn, CreatesIntent, Process
<1> QED
  BY <1>1, <1>2, <1>3 DEF IInv

\* A process of a step in hand: the function updates of its locals.
LEMMA NoDecisionType == NoDecision \in Decision /\ ~CreatesIntent(NoDecision)
  BY DEF NoDecision, Decision, CreatesIntent

\* A runner starts only when the lock is free.
LEMMA StartRunStep == ASSUME IInv, NEW p \in Process, StartRun(p) PROVE IInv'
<1> USE DEF StartRun, Goto, try_lock
<1>1. TypeOK'
  BY DEF IInv, TypeOK, RunnerSteps
<1>2. LockHeld'
  BY DEF IInv, TypeOK, Process, LockHeld
<1>3. IdsBuilt'
  BY DEF IInv, IdsBuilt
<1>4. OffersOwn'
  BY DEF IInv, OffersOwn
<1>5. PersistsNew'
  BY DEF IInv, PersistsNew
<1>6. SingleUse'
  BY DEF IInv, SingleUse, Untouched, Holds
<1>7. ReconcilesOwn'
  BY DEF IInv, ReconcilesOwn
<1> QED
  BY <1>1, <1>2, <1>3, <1>4, <1>5, <1>6, <1>7 DEF IInv

\* The bridge leaves a decision that authorises nothing.
LEMMA RunResearchTradingBridgeStep ==
  ASSUME IInv, NEW p \in Process, run_research_trading_bridge(p) PROVE IInv'
<1> USE DEF run_research_trading_bridge, Goto
<1>1. TypeOK'
  BY NoDecisionType DEF IInv, TypeOK, RunnerSteps, ExecutorSteps
<1>2. LockHeld'
  BY DEF IInv, TypeOK, ExecutorSteps, Process, LockHeld
<1>3. IdsBuilt'
  BY DEF IInv, TypeOK, IdsBuilt, NoDecision
<1>4. OffersOwn'
  BY NoDecisionType DEF IInv, TypeOK, Process, OffersOwn
<1>5. PersistsNew'
  BY DEF IInv, TypeOK, Process, PersistsNew, NoDecision
<1>6. SingleUse'
  BY NoDecisionType DEF IInv, TypeOK, SingleUse, Untouched, Holds
<1>7. ReconcilesOwn'
  BY DEF IInv, TypeOK, Process, ReconcilesOwn
<1> QED
  BY <1>1, <1>2, <1>3, <1>4, <1>5, <1>6, <1>7 DEF IInv

\* The id of a new decision is one nobody has seen.
LEMMA PersistRiskGateRecordStep ==
  ASSUME IInv, NEW p \in Process, persist_risk_gate_record(p) PROVE IInv'
<1> USE DEF persist_risk_gate_record, Goto
<1> DEFINE n == built + 1
<1>0. n \in DecisionId /\ n > built /\ clock + TTL \in Nat
  BY DEF IInv, TypeOK, DecisionId
<1>1. TypeOK'
  <2>1. gate' \in [DecisionId -> Expiry]
    BY <1>0 DEF IInv, TypeOK, Expiry
  <2>2. built' \in 0..MaxDecision /\ mine' \in [Process -> 0..MaxDecision]
    BY <1>0 DEF IInv, TypeOK, DecisionId
  <2> QED
    BY <2>1, <2>2 DEF IInv, TypeOK, RunnerSteps
<1>2. LockHeld'
  BY DEF IInv, ExecutorSteps, LockHeld
<1>3. IdsBuilt'
  <2>1. /\ built \in Nat /\ decision.id \in Nat
        /\ \A q \in Process : mine[q] \in Nat /\ local[q].id \in Nat
    BY DEF IInv, TypeOK, Decision
  <2>2. \A q \in Process : mine'[q] \in {mine[q], n}
    BY DEF IInv, TypeOK
  <2>3. \A q \in Process : pc'[q] \in {pc[q], "persist"}
    BY DEF IInv, TypeOK
  <2> QED
    BY <2>1, <2>2, <2>3 DEF IInv, IdsBuilt, DecisionId
<1>4. OffersOwn'
  BY DEF IInv, OffersOwn
<1>5. PersistsNew'
  <2>1. \A q \in Runner : pc'[q] = "persist" => q = p
    BY DEF IInv, LockHeld, ExecutorSteps, Process
  <2>2. sent[n] = 0 /\ decision.id # n /\ \A q \in Process : local[q].id # n
    BY <1>0 DEF IInv, TypeOK, Decision, IdsBuilt
  <2>3. mine'[p] = n /\ n > 0
    BY <1>0 DEF IInv, TypeOK
  <2> QED
    BY <2>1, <2>2, <2>3 DEF PersistsNew
<1>6. SingleUse'
  BY DEF IInv, SingleUse, Untouched, Holds
<1>7. ReconcilesOwn'
  BY DEF IInv, ReconcilesOwn
<1> QED
  BY <1>1, <1>2, <1>3, <1>4, <1>5, <1>6, <1>7 DEF IInv

\* The new decision is offered for the first time.
LEMMA PersistDriveStep == ASSUME IInv, NEW p \in Process, PersistDrive(p) PROVE IInv'
<1> USE DEF PersistDrive, Goto
<1>1. TypeOK'
  BY DEF IInv, TypeOK, Decision, RunnerSteps, ExecutorSteps
<1>2. LockHeld'
  BY DEF IInv, ExecutorSteps, LockHeld
<1>3. IdsBuilt'
  <2>1. mine[p] > 0 /\ mine[p] <= built
    BY DEF IInv, LockHeld, ExecutorSteps, Process, IdsBuilt, PersistsNew
  <2> QED
    BY <2>1 DEF IInv, TypeOK, IdsBuilt, RunnerSteps
<1>4. OffersOwn'
  BY DEF IInv, TypeOK, ExecutorSteps, Process, LockHeld, OffersOwn
<1>5. PersistsNew'
  BY DEF IInv, TypeOK, ExecutorSteps, Process, LockHeld, PersistsNew
<1>6. SingleUse'
  BY DEF IInv, ExecutorSteps, Process, LockHeld, PersistsNew, SingleUse, Untouched, Holds
<1>7. ReconcilesOwn'
  BY DEF IInv, ReconcilesOwn
<1> QED
  BY <1>1, <1>2, <1>3, <1>4, <1>5, <1>6, <1>7 DEF IInv

\* An executor started by hand takes no lock.
LEMMA StartManualStep == ASSUME IInv, NEW p \in Process, StartManual(p) PROVE IInv'
<1> USE DEF StartManual, Goto
<1>1. TypeOK'
  BY DEF IInv, TypeOK, RunnerSteps, ExecutorSteps
<1>2. LockHeld'
  BY DEF IInv, ExecutorSteps, LockHeld
<1>3. IdsBuilt'
  BY DEF IInv, IdsBuilt
<1>4. OffersOwn'
  BY DEF IInv, OffersOwn
<1>5. PersistsNew'
  BY DEF IInv, PersistsNew
<1>6. SingleUse'
  BY DEF IInv, SingleUse, Untouched, Holds
<1>7. ReconcilesOwn'
  BY DEF IInv, ReconcilesOwn
<1> QED
  BY <1>1, <1>2, <1>3, <1>4, <1>5, <1>6, <1>7 DEF IInv

\* A runner reads its own decision or one that creates no intent.
LEMMA ReadDecisionStep == ASSUME IInv, NEW p \in Process, ReadDecision(p) PROVE IInv'
<1> USE DEF ReadDecision, Goto
<1>1. TypeOK'
  BY DEF IInv, TypeOK, RunnerSteps, ExecutorSteps
<1>2. LockHeld'
  BY DEF IInv, ExecutorSteps, LockHeld
<1>3. IdsBuilt'
  BY DEF IInv, TypeOK, IdsBuilt, CreatesIntent
<1>4. OffersOwn'
  BY DEF IInv, TypeOK, OffersOwn
<1>5. PersistsNew'
  BY DEF IInv, PersistsNew
<1>6. SingleUse'
  BY DEF IInv, TypeOK, SingleUse, Untouched, Holds
<1>7. ReconcilesOwn'
  BY DEF IInv, ReconcilesOwn
<1> QED
  BY <1>1, <1>2, <1>3, <1>4, <1>5, <1>6, <1>7 DEF IInv

\* The mark takes the decision off the table; a second reader is a race.
LEMMA ConsumeStep == ASSUME IInv, NEW p \in Process, Consume(p) PROVE IInv'
<1> USE DEF Consume, Goto, Racing
<1>1. TypeOK'
  BY DEF IInv, TypeOK, Decision, RunnerSteps, ExecutorSteps
<1>2. LockHeld'
  BY DEF IInv, ExecutorSteps, LockHeld
<1>3. IdsBuilt'
  BY DEF IInv, IdsBuilt
<1>4. OffersOwn'
  BY DEF IInv, OffersOwn, CreatesIntent
<1>5. PersistsNew'
  BY DEF IInv, PersistsNew
<1>6. SingleUse'
  BY DEF IInv, TypeOK, Decision, IdsBuilt, SingleUse, Untouched, Holds, CreatesIntent
<1>7. ReconcilesOwn'
  BY DEF IInv, ReconcilesOwn
<1> QED
  BY <1>1, <1>2, <1>3, <1>4, <1>5, <1>6, <1>7 DEF IInv

\* The guard passes the decision in hand on, or drops it.
LEMMA FinalGuardStep == ASSUME IInv, NEW p \in Process, FinalGuard(p) PROVE IInv'
<1> USE DEF FinalGuard, Goto
<1>1. TypeOK'
  BY DEF IInv, TypeOK, RunnerSteps, ExecutorSteps
<1>2. LockHeld'
  BY DEF IInv, TypeOK, ExecutorSteps, Process, LockHeld
<1>3. IdsBuilt'
  BY DEF IInv, TypeOK, IdsBuilt
<1>4. OffersOwn'
  BY DEF IInv, TypeOK, Process, OffersOwn
<1>5. PersistsNew'
  BY DEF IInv, TypeOK, Process, PersistsNew
<1>6. SingleUse'
  BY DEF IInv, TypeOK, SingleUse, Untouched, Holds
<1>7. ReconcilesOwn'
  BY DEF IInv, TypeOK, Process, ReconcilesOwn
<1> QED
  BY <1>1, <1>2, <1>3, <1>4, <1>5, <1>6, <1>7 DEF IInv

\* Up to a race the decision in hand was not sent before.
LEMMA SubmitStep == ASSUME IInv, NEW p \in Process, Submit(p) PROVE IInv'
<1> USE DEF Submit, Goto
<1>1. TypeOK'
  <2>1. local[p].id \in DecisionId
    BY DEF IInv, TypeOK, Decision, IdsBuilt, DecisionId
  <2>2. sent' \in [DecisionId -> Nat]
    BY <2>1 DEF IInv, TypeOK
  <2> QED
    BY <2>2 DEF IInv, TypeOK, RunnerSteps, ExecutorSteps
<1>2. LockHeld'
  BY DEF IInv, ExecutorSteps, LockHeld
<1>3. IdsBuilt'
  BY DEF IInv, TypeOK, Decision, IdsBuilt
<1>4. OffersOwn'
  BY DEF IInv, OffersOwn
<1>5. PersistsNew'
  BY DEF IInv, PersistsNew
<1>6. SingleUse'
  BY DEF IInv, TypeOK, SingleUse, Untouched, Holds
<1>7. ReconcilesOwn'
  BY DEF IInv, ReconcilesOwn
<1> QED
  BY <1>1, <1>2, <1>3, <1>4, <1>5, <1>6, <1>7 DEF IInv

\* The result is written under the name of its writer.
LEMMA WriteResultStep == ASSUME IInv, NEW p \in Process, WriteResult(p) PROVE IInv'
<1> USE DEF WriteResult, Goto, Forget
<1>1. TypeOK'
  <2>1. result' \in [by : Runner \cup Lockless \cup {NoOne}, id : 0..MaxDecision,
                performed : BOOLEAN]
    BY DEF IInv, TypeOK, Decision, Process, Lockless
  <2>2. mine' \in [Process -> 0..MaxDecision] /\ local' \in [Process -> Decision]
        /\ verified' \in [Process -> BOOLEAN]
    <3>1. /\ mine \in [Process -> 0..MaxDecision] /\ local \in [Process -> Decision]
          /\ verified \in [Process -> BOOLEAN] /\ 0 \in 0..MaxDecision
      BY DEF IInv, TypeOK
    <3>2. CASE UNCHANGED <<mine, local, verified>>
      BY <3>1, <3>2
    <3>3. CASE Forget(p)
      BY <3>1, <3>3, NoDecisionType
    <3> QED
      BY <3>2, <3>3
  <2>3. pc' \in [Process -> {"idle"} \cup RunnerSteps]
    BY DEF IInv, TypeOK, RunnerSteps
  <2> QED
    BY <2>1, <2>2, <2>3 DEF IInv, TypeOK
<1>2. LockHeld'
  BY DEF IInv, TypeOK, Process, LockHeld
<1>3. IdsBuilt'
  BY DEF IInv, TypeOK, IdsBuilt, NoDecision
<1>4. OffersOwn'
  BY DEF IInv, TypeOK, Process, OffersOwn
<1>5. PersistsNew'
  <2>1. \A q \in Runner : pc'[q] = "persist" =>
          q # p /\ pc[q] = "persist" /\ mine'[q] = mine[q] /\ mine[q] > 0
    BY DEF IInv, TypeOK, Process, PersistsNew
  <2>2. \A q \in Process : local'[q].id \in {local[q].id, 0}
    BY DEF IInv, TypeOK, NoDecision
  <2> QED
    BY <2>1, <2>2 DEF IInv, PersistsNew
<1>6. SingleUse'
  BY DEF IInv, TypeOK, SingleUse, Untouched, Holds
<1>7. ReconcilesOwn'
  <2>1. result' = [by |-> p, id |-> local[p].id, performed |-> verified[p]]
    OBVIOUS
  <2>2. CASE p \in Manual
    BY <2>1, <2>2 DEF ReconcilesOwn, Lockless
  <2>3. CASE p \in Runner
    <3>1. \A q \in Runner : pc'[q] = "reconcile" => q = p
      BY <2>3 DEF IInv, TypeOK, Process, LockHeld
    <3>2. local' = local /\ verified' = verified
      BY <2>3
    <3> QED
      BY <2>1, <3>1, <3>2 DEF ReconcilesOwn
  <2> QED
    BY <2>2, <2>3 DEF Process
<1> QED
  BY <1>1, <1>2, <1>3, <1>4, <1>5, <1>6, <1>7 DEF IInv

\* A script touches the result only, and signs it.
LEMMA ScriptResultStep == ASSUME IInv, NEW s \in Script, ScriptResult(s) PROVE IInv'
<1> USE DEF ScriptResult
<1>1. TypeOK'
  BY DEF IInv, TypeOK, Lockless
<1>2. LockHeld' /\ IdsBuilt' /\ OffersOwn' /\ PersistsNew' /\ SingleUse'
  BY DEF IInv, LockHeld, IdsBuilt, OffersOwn, PersistsNew, SingleUse, Untouched, Holds
<1>3. ReconcilesOwn'
  BY DEF ReconcilesOwn, Lockless
<1> QED
  BY <1>1, <1>2, <1>3 DEF IInv

\* The lock is let go with the cycle.
LEMMA ReconcileStep == ASSUME IInv, NEW p \in Process, Reconcile(p) PROVE IInv'
<1> USE DEF Reconcile, Goto, Forget, Unlock
<1>1. TypeOK'
  BY NoDecisionType DEF IInv, TypeOK
<1>2. LockHeld'
  BY DEF IInv, TypeOK, Process, LockHeld
<1>3. IdsBuilt'
  BY DEF IInv, TypeOK, IdsBuilt, NoDecision
<1>4. OffersOwn'
  BY DEF IInv, OffersOwn
<1>5. PersistsNew'
  BY DEF IInv, PersistsNew, NoDecision
<1>6. SingleUse'
  BY DEF IInv, SingleUse, Untouched, Holds
<1>7. ReconcilesOwn'
  <2>1. \A q \in Runner : pc'[q] = "reconcile" =>
          pc[q] = "reconcile" /\ local'[q] = local[q] /\ verified'[q] = verified[q]
    BY DEF IInv, TypeOK, Process
  <2> QED
    BY <2>1 DEF IInv, ReconcilesOwn
<1> QED
  BY <1>1, <1>2, <1>3, <1>4, <1>5, <1>6, <1>7 DEF IInv

\* A crash drops the locals and the lock, never the consumption mark.
LEMMA CrashStep == ASSUME IInv, NEW p \in Process, Crash(p) PROVE IInv'
<1> USE DEF Crash, Goto, Forget, Unlock
<1>1. TypeOK'
  BY NoDecisionType DEF IInv, TypeOK
<1>2. LockHeld'
  BY DEF IInv, TypeOK, Process, LockHeld
<1>3. IdsBuilt'
  BY DEF IInv, TypeOK, IdsBuilt, NoDecision
<1>4. OffersOwn'
  BY DEF IInv, TypeOK, OffersOwn
<1>5. PersistsNew'
  BY DEF IInv, TypeOK, PersistsNew, NoDecision
<1>6. SingleUse'
  BY DEF IInv, TypeOK, SingleUse, Untouched, Holds
<1>7. ReconcilesOwn'
  <2>1. \A q \in Runner : pc'[q] = "reconcile" =>
          pc[q] = "reconcile" /\ local'[q] = local[q] /\ verified'[q] = verified[q]
    BY DEF IInv, TypeOK, Process
  <2> QED
    BY <2>1 DEF IInv, ReconcilesOwn
<1> QED
  BY <1>1, <1>2, <1>3, <1>4, <1>5, <1>6, <1>7 DEF IInv

\* Time only lets records expire.
LEMMA TickStep == ASSUME IInv, Tick PROVE IInv'
<1> USE DEF Tick
<1>1. TypeOK'
  BY DEF IInv, TypeOK
<1>2. LockHeld' /\ IdsBuilt' /\ OffersOwn' /\ PersistsNew' /\ SingleUse' /\ ReconcilesOwn'
  BY DEF IInv, LockHeld, IdsBuilt, OffersOwn, PersistsNew, SingleUse, Untouched,
     Holds, ReconcilesOwn
<1> QED
  BY <1>1, <1>2 DEF IInv

\* A stuttering step keeps IInv.
LEMMA StutterStep == ASSUME IInv, UNCHANGED vars PROVE IInv'
  BY DEF vars, IInv, TypeOK, LockHeld, IdsBuilt, OffersOwn, PersistsNew, SingleUse,
     Untouched, Holds, ReconcilesOwn

\* One lemma per action: every step of the specification keeps IInv.
LEMMA NextIInv == IInv /\ [Next]_vars => IInv'
<1> SUFFICES ASSUME IInv, [Next]_vars PROVE IInv'
  OBVIOUS
<1>1. ASSUME NEW p \in Process,
             \/ StartRun(p) \/ run_research_trading_bridge(p) \/ persist_risk_gate_record(p)
             \/ PersistDrive(p) \/ StartManual(p) \/ ReadDecision(p)
      PROVE  IInv'
  BY <1>1, StartRunStep, RunResearchTradingBridgeStep, PersistRiskGateRecordStep,
     PersistDriveStep, StartManualStep, ReadDecisionStep
<1>2. ASSUME NEW p \in Process,
             \/ Consume(p) \/ FinalGuard(p) \/ Submit(p) \/ WriteResult(p)
             \/ Reconcile(p) \/ Crash(p)
      PROVE  IInv'
  BY <1>2, ConsumeStep, FinalGuardStep, SubmitStep, WriteResultStep, ReconcileStep,
     CrashStep
<1> QED
  BY <1>1, <1>2, ScriptResultStep, TickStep, StutterStep DEF Next

\* What the files and the executors know of each decision, IInv, holds in every
\* reachable state, whoever is started, killed or delayed.
THEOREM ExecutorInvariance == Spec => []IInv
  BY InitIInv, NextIInv, PTL DEF Spec

\* One persisted decision authorises at most one order (order_executor.py:266-268)
\* until two executors have both read it before either marked it consumed.
THEOREM OneOrderUnlessRaced == Spec => []DuplicateNeedsRace
<1>1. IInv => DuplicateNeedsRace
  <2> SUFFICES ASSUME IInv, NEW d \in DecisionId, sent[d] > 1, ~raced PROVE FALSE
    BY DEF IInv, TypeOK, DuplicateNeedsRace
  <2>1. sent[d] \in Nat /\ sent[d] <= 1
    BY DEF IInv, TypeOK, SingleUse
  <2> QED
    BY <2>1
<1> QED
  BY <1>1, ExecutorInvariance, PTL

\* A runner never sends a decision that an earlier, crashed or concurrent run
\* left in the file.
THEOREM RunnerSendsItsOwn == Spec => []OwnDecision
<1>1. IInv => OwnDecision
  BY DEF IInv, OffersOwn, OwnDecision
<1> QED
  BY <1>1, ExecutorInvariance, PTL

\* Under the single-runner lock a runner reconciles its own result or that of a
\* writer without the lock, however many of these write, and when they do.
THEOREM RunnerReconcilesItsOwn == Spec => []ReconcilesOwn
<1>1. IInv => ReconcilesOwn
  BY DEF IInv
<1> QED
  BY <1>1, ExecutorInvariance, PTL
=============================================================================
