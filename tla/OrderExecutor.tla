---------------------------- MODULE OrderExecutor ----------------------------
(***************************************************************************)
(* The hand-off of one decision from the pipeline to the order executor    *)
(* through files in storage/latest (bridge/research_trading_bridge.py,     *)
(* trading_steps/entry.py, order_executor.py, risk_gate_registry.py), by   *)
(* several processes: pipeline runners, which hold the single-runner lock  *)
(* (core/run_lock.py), the module's own main(), which takes none, and the  *)
(* testnet and canary scripts, which take none either and write only the   *)
(* result file (their orders are module Promotion's).                      *)
(*                                                                         *)
(* Live stage.  A step ends at every file access; what the venue makes of  *)
(* a POST is module LiveTrading.                                           *)
(***************************************************************************)
EXTENDS Integers, FiniteSets

CONSTANTS Runner,       \* run_pipeline.py and run_scheduler.py processes
          Manual,       \* python -m crypto_ai_system.execution.order_executor
          Script,       \* run_testnet_order, run_testnet_session, run_live_canary_order
          NoOne,
          TTL,          \* DEFAULT_RISK_GATE_TTL_SECONDS
          MaxDecision, MaxTime, MaxCrash   \* bounds of the model

Process == Runner \cup Manual

\* The writers of the result file that take no lock.
Lockless == Manual \cup Script

ASSUME ExecutorAssumption == /\ NoOne \notin Runner \cup Lockless
                             /\ Runner \cap Lockless = {}
                             /\ TTL \in Nat
                             /\ MaxDecision \in Nat /\ MaxTime \in Nat /\ MaxCrash \in Nat

VARIABLES
  lock,       \* the process whose handle holds pipeline.lock
  decision,   \* latest_trade_decision.json
  gate,       \* the RiskGate registry: expiry of each decision's record
  result,     \* latest_order_result.json
  sent,       \* the POSTs made for each decision
  pc,         \* next step of each process
  mine,       \* the decision a runner built in this cycle
  local,      \* the decision run_order_executor read
  verified,   \* did the final guard accept the record?
  clock, built, crashes,
  raced       \* history: two executors had read one unconsumed decision

vars == <<lock, decision, gate, result, sent, pc, mine, local, verified,
          clock, built, crashes, raced>>

DecisionId == 1..MaxDecision
\* No file, or a decision that authorises nothing.
NoDecision == [id |-> 0, allow |-> FALSE, consumed |-> FALSE]
Decision == [id : 0..MaxDecision, allow : BOOLEAN, consumed : BOOLEAN]
NoRecord == -1
NoResult == [by |-> NoOne, id |-> 0, performed |-> FALSE]

Init == /\ lock = NoOne /\ decision = NoDecision /\ result = NoResult
        /\ gate = [d \in DecisionId |-> NoRecord]
        /\ sent = [d \in DecisionId |-> 0]
        /\ pc = [p \in Process |-> "idle"]
        /\ mine = [p \in Process |-> 0]
        /\ local = [p \in Process |-> NoDecision]
        /\ verified = [p \in Process |-> FALSE]
        /\ clock = 0 /\ built = 0 /\ crashes = 0 /\ raced = FALSE

Goto(p, step) == pc' = [pc EXCEPT ![p] = step]

\* The locals of a process are gone when it ends.
Forget(p) == /\ mine' = [mine EXCEPT ![p] = 0]
             /\ local' = [local EXCEPT ![p] = NoDecision]
             /\ verified' = [verified EXCEPT ![p] = FALSE]

\* The lock is on the open handle: it is free when the handle is closed, and
\* when the process dies.
Unlock(p) == lock' = IF lock = p THEN NoOne ELSE lock

-----------------------------------------------------------------------------
(***************************************************************************)
(* One cycle of a runner up to the executor.  A runner that finds the lock *)
(* taken reports and exits: it changes nothing.                            *)
(***************************************************************************)
\* Mutant: the lock is taken over.
MutTryLock(p) == lock' = p

try_lock(p) == lock = NoOne /\ lock' = p

StartRun(p) ==
  /\ p \in Runner /\ pc[p] = "idle"
  /\ try_lock(p)
  /\ Goto(p, "bridge")
  /\ UNCHANGED <<decision, gate, result, sent, mine, local, verified, clock,
                 built, crashes, raced>>

\* The research decision has no approved live profile: it authorises nothing.
\* Bound: a strategy drive follows while decision ids are left.
run_research_trading_bridge(p) ==
  /\ pc[p] = "bridge"
  /\ decision' = NoDecision
  /\ \/ built < MaxDecision /\ Goto(p, "drive")
     \/ Goto(p, "read")
  /\ UNCHANGED <<lock, gate, result, sent, mine, local, verified, clock, built,
                 crashes, raced>>

\* The strategy drive: an approved gate is persisted with its expiry ...
persist_risk_gate_record(p) ==
  /\ pc[p] = "drive" /\ built < MaxDecision
  /\ built' = built + 1
  /\ mine' = [mine EXCEPT ![p] = built + 1]
  /\ gate' = [gate EXCEPT ![built + 1] = clock + TTL]
  /\ Goto(p, "persist")
  /\ UNCHANGED <<lock, decision, result, sent, local, verified, clock, crashes, raced>>

\* ... and then the decision it approved replaces the research decision.
PersistDrive(p) ==
  /\ pc[p] = "persist"
  /\ decision' = [id |-> mine[p], allow |-> TRUE, consumed |-> FALSE]
  /\ Goto(p, "read")
  /\ UNCHANGED <<lock, gate, result, sent, mine, local, verified, clock, built,
                 crashes, raced>>

-----------------------------------------------------------------------------
(***************************************************************************)
(* run_order_executor: read, mark consumed, guard, submit, write result.   *)
(***************************************************************************)
StartManual(p) ==
  /\ p \in Manual /\ pc[p] = "idle"
  /\ Goto(p, "read")
  /\ UNCHANGED <<lock, decision, gate, result, sent, mine, local, verified,
                 clock, built, crashes, raced>>

\* build_order_intent accepts only an approved decision nobody has consumed.
\* Mutant: the consumption marker is not looked at.
MutCreatesIntent(d) == d.allow

CreatesIntent(d) == d.allow /\ ~d.consumed

ReadDecision(p) ==
  /\ pc[p] = "read"
  /\ local' = [local EXCEPT ![p] = decision]
  /\ Goto(p, IF CreatesIntent(decision) THEN "consume" ELSE "result")
  /\ UNCHANGED <<lock, decision, gate, result, sent, mine, verified, clock,
                 built, crashes, raced>>

Racing(p) == \E q \in Process \ {p} : pc[q] = "consume" /\ local[q].id = local[p].id

\* The whole file is rewritten from the copy that was read.
Consume(p) ==
  /\ pc[p] = "consume"
  /\ decision' = [local[p] EXCEPT !.consumed = TRUE]
  /\ raced' = (raced \/ Racing(p))
  /\ Goto(p, "guard")
  /\ UNCHANGED <<lock, gate, result, sent, mine, local, verified, clock, built, crashes>>

\* The record exists and has not expired.
verify_strategy_risk_gate(id) == gate[id] # NoRecord /\ clock <= gate[id]

\* evaluate_live_order_final_guard; its other conditions may block too.
FinalGuard(p) ==
  /\ pc[p] = "guard"
  /\ \/ /\ verify_strategy_risk_gate(local[p].id)
        /\ verified' = [verified EXCEPT ![p] = TRUE]
        /\ Goto(p, "submit")
     \/ /\ UNCHANGED verified
        /\ Goto(p, "result")
  /\ UNCHANGED <<lock, decision, gate, result, sent, mine, local, clock, built,
                 crashes, raced>>

Submit(p) ==
  /\ pc[p] = "submit"
  /\ sent' = [sent EXCEPT ![local[p].id] = @ + 1]
  /\ Goto(p, "result")
  /\ UNCHANGED <<lock, decision, gate, result, mine, local, verified, clock,
                 built, crashes, raced>>

WriteResult(p) ==
  /\ pc[p] = "result"
  /\ result' = [by |-> p, id |-> local[p].id, performed |-> verified[p]]
  /\ \/ p \in Runner /\ Goto(p, "reconcile") /\ UNCHANGED <<mine, local, verified>>
     \/ p \in Manual /\ Goto(p, "idle") /\ Forget(p)
  /\ UNCHANGED <<lock, decision, gate, sent, clock, built, crashes, raced>>

\* A blocked, failed or submitted order of a testnet or canary script replaces
\* whatever result the file holds; its order comes from no decision.
ScriptResult(s) ==
  /\ \E performed \in BOOLEAN :
       result' = [by |-> s, id |-> 0, performed |-> performed]
  /\ UNCHANGED <<lock, decision, gate, sent, pc, mine, local, verified, clock,
                 built, crashes, raced>>

\* The reconciler reads the result file, the cycle ends, the lock is let go.
Reconcile(p) ==
  /\ pc[p] = "reconcile"
  /\ Unlock(p) /\ Forget(p) /\ Goto(p, "idle")
  /\ UNCHANGED <<decision, gate, result, sent, clock, built, crashes, raced>>

-----------------------------------------------------------------------------
Crash(p) ==
  /\ pc[p] # "idle" /\ crashes < MaxCrash
  /\ crashes' = crashes + 1
  /\ Unlock(p) /\ Forget(p) /\ Goto(p, "idle")
  /\ UNCHANGED <<decision, gate, result, sent, clock, built, raced>>

Tick ==
  /\ clock < MaxTime /\ clock' = clock + 1
  /\ UNCHANGED <<lock, decision, gate, result, sent, pc, mine, local, verified,
                 built, crashes, raced>>

Next == \/ \E p \in Process : \/ StartRun(p)
                              \/ run_research_trading_bridge(p)
                              \/ persist_risk_gate_record(p)
                              \/ PersistDrive(p)
                              \/ StartManual(p)
                              \/ ReadDecision(p)
                              \/ Consume(p)
                              \/ FinalGuard(p)
                              \/ Submit(p)
                              \/ WriteResult(p)
                              \/ Reconcile(p)
                              \/ Crash(p)
        \/ \E s \in Script : ScriptResult(s)
        \/ Tick

Spec == Init /\ [][Next]_vars

-----------------------------------------------------------------------------
(***************************************************************************)
(* Properties                                                              *)
(***************************************************************************)
\* order_executor.py:266-268, README.md:27-28: "one persisted decision
\* authorizes at most one order intent", whatever crashes and is started again,
\* except where two executors had both read the decision before either marked
\* it consumed: main() takes no lock.  Running main() again, later, sends nothing.
DuplicateNeedsRace == (\E d \in DecisionId : sent[d] > 1) => raced

\* A runner sends only the decision it built in this very cycle, never one an
\* earlier, crashed or concurrent run left in the file.
OwnDecision ==
  \A p \in Runner : pc[p] = "submit" => local[p].id = mine[p]

\* run_live_strategy_reconciliation reads the file again, after the executor has
\* returned (live_strategy_execution.py:187).  What it finds is never another
\* runner's result, nor an earlier one of this runner: it is this cycle's order,
\* with the executor's own word on whether it was performed, or the result of a
\* writer without the lock that came between the two.
ReconcilesOwn ==
  \A p \in Runner : pc[p] = "reconcile" =>
    \/ result = [by |-> p, id |-> local[p].id, performed |-> verified[p]]
    \/ result.by \in Lockless

-----------------------------------------------------------------------------
(***************************************************************************)
(* The inductive invariant behind them.                                    *)
(***************************************************************************)
\* The expiry a RiskGate record may have, or none.
Expiry == {NoRecord} \cup Nat

ExecutorSteps == {"read", "consume", "guard", "submit", "result"}
RunnerSteps == {"bridge", "drive", "persist", "reconcile"} \cup ExecutorSteps

\* Every file, local and counter has its type.
TypeOK ==
  /\ lock \in Runner \cup {NoOne} /\ decision \in Decision
  /\ gate \in [DecisionId -> Expiry]
  /\ result \in [by : Runner \cup Lockless \cup {NoOne}, id : 0..MaxDecision,
                 performed : BOOLEAN]
  /\ sent \in [DecisionId -> Nat]
  /\ pc \in [Process -> {"idle"} \cup RunnerSteps]
  /\ mine \in [Process -> 0..MaxDecision] /\ local \in [Process -> Decision]
  /\ verified \in [Process -> BOOLEAN]
  /\ clock \in Nat /\ built \in 0..MaxDecision /\ crashes \in Nat /\ raced \in BOOLEAN

\* A runner is in a cycle exactly while it holds the lock; an executor started
\* by hand never takes the other steps of a cycle.
LockHeld ==
  /\ \A p \in Runner : pc[p] # "idle" <=> lock = p
  /\ \A p \in Manual : pc[p] \in {"idle"} \cup ExecutorSteps

\* Only an allowed decision has an id, and none has an id not yet built.
IdsBuilt ==
  /\ decision.id <= built /\ (decision.allow => decision.id > 0)
  /\ \A p \in Process : /\ mine[p] <= built /\ local[p].id <= built
                        /\ local[p].allow => local[p].id > 0
                        /\ pc[p] \in {"consume", "guard", "submit"} => local[p].allow
  /\ \A d \in DecisionId : d > built => sent[d] = 0

\* From the bridge on, what the file offers a runner is its own decision.
OffersOwn ==
  \A p \in Runner :
    /\ pc[p] \in {"drive", "persist"} => ~CreatesIntent(decision)
    /\ pc[p] = "read" /\ CreatesIntent(decision) => decision.id = mine[p]
    /\ pc[p] \in {"consume", "guard", "submit"} => local[p].id = mine[p]

\* A decision about to be persisted is known to nobody.
PersistsNew ==
  \A p \in Runner : pc[p] = "persist" =>
    /\ mine[p] > 0 /\ sent[mine[p]] = 0 /\ decision.id # mine[p]
    /\ \A q \in Process : local[q].id # mine[p]

Holds(p, d) == pc[p] \in {"guard", "submit"} /\ local[p].id = d

\* Nobody is between the consumption of d and its POST, and d was not sent.
Untouched(d) == sent[d] = 0 /\ \A p \in Process : ~Holds(p, d)

\* Up to the first race, a decision is on offer, or read by executors that have
\* not marked it, or in the hands of one executor, or sent.
SingleUse ==
  ~raced =>
    /\ CreatesIntent(decision) => Untouched(decision.id)
    /\ \A p \in Process : pc[p] = "consume" => Untouched(local[p].id)
    /\ \A p \in Process : pc[p] \in {"guard", "submit"} =>
          /\ sent[local[p].id] = 0
          /\ \A q \in Process \ {p} : ~Holds(q, local[p].id)
    /\ \A d \in DecisionId : sent[d] <= 1

IInv == /\ TypeOK /\ LockHeld /\ IdsBuilt /\ OffersOwn /\ PersistsNew
        /\ SingleUse /\ ReconcilesOwn
=============================================================================
