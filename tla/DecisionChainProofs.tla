-------------------------- MODULE DecisionChainProofs --------------------------
(***************************************************************************)
(* Theorems of DecisionChain: what an intent rests on, for every set of    *)
(* inputs, settings and risk reports; the gate that ends the chain; and    *)
(* that the whole chain decides what one line says.                        *)
(***************************************************************************)
EXTENDS DecisionChain, SumTheorems

\* The stages of a cycle are sets of names.
USE DEF FromContext, FromResearch, FromSignal, FromQA, FromStamp, FromDecision,
        FromHealth, FromRisk, FromTrading, FromBridge

-----------------------------------------------------------------------------
(***************************************************************************)
(* The gate.                                                               *)
(***************************************************************************)

\* No line of the status table approves.
LEMMA NoLineApproves ==
  /\ DOMAIN StatusOrder = 1..24
  /\ \A i \in 1..24 : StatusOrder[i].status \notin PASS
BY DEF StatusOrder, PASS

\* Every reason the gate can collect is on some line.
LEMMA EveryReasonHasALine ==
  ASSUME NEW c \in Condition
  PROVE \E i \in DOMAIN StatusOrder : c \in StatusOrder[i].of
BY DEF StatusOrder, Condition, AlwaysChecked, CandidateChecked, Optional

\* The status passes exactly when no reason was collected.
LEMMA PassesWhenClean ==
  ASSUME NEW st, NEW bs, bs \subseteq Condition
  PROVE _status_for_blocks(bs, st) \in PASS <=> bs = {}
<1> DEFINE hit == {i \in DOMAIN StatusOrder : StatusOrder[i].of \cap bs # {}}
           least == CHOOSE i \in hit : \A j \in hit : i <= j
<1>1. _status_for_blocks(bs, st) = IF hit = {} THEN PassStatus(st) ELSE StatusOrder[least].status
  BY DEF _status_for_blocks
<1>2. hit = {} <=> bs = {}
  BY EveryReasonHasALine
<1>3. PassStatus(st) \in PASS
  BY DEF PassStatus, PASS
<1>4. ASSUME hit # {} PROVE StatusOrder[least].status \notin PASS
  <2>1. hit \subseteq 1..24 /\ hit \subseteq Nat
    BY NoLineApproves
  <2>2. \E x \in hit : \A y \in hit : x <= y
    <3> HIDE DEF hit
    <3> QED
      BY <1>4, <2>1, LeastExists
  <2>3. least \in hit
    <3> HIDE DEF hit
    <3> QED
      BY <2>2
  <2> HIDE DEF hit, least
  <2> QED
    BY <2>1, <2>3, NoLineApproves
<1> HIDE DEF hit, least
<1> QED
  BY <1>1, <1>2, <1>3, <1>4

\* What the gate answers, in terms of the reasons it collects.
LEMMA GateAnswers ==
  ASSUME NEW st, NEW arm, NEW conds, NEW sides, conds \subseteq Condition
  PROVE LET bs == blocks(st, arm, conds)
            gate == evaluate_pre_order_risk_gate(st, arm, conds, sides)
        IN  /\ gate.status \in PASS <=> bs = {}
            /\ gate.approved <=> bs = {} /\ sides # {}
            /\ gate.block_reasons = bs
<1> DEFINE bs == blocks(st, arm, conds)
           gate == evaluate_pre_order_risk_gate(st, arm, conds, sides)
<1>1. bs \subseteq Condition
  BY DEF blocks
<1>2. gate.status = _status_for_blocks(bs, st) /\ gate.block_reasons = bs
  BY DEF evaluate_pre_order_risk_gate
<1>3. gate.approved = (_status_for_blocks(bs, st) \in PASS /\ sides # {})
  BY DEF evaluate_pre_order_risk_gate
<1> HIDE DEF bs, gate
<1>4. /\ gate.status \in PASS <=> bs = {}
      /\ gate.approved <=> bs = {} /\ sides # {}
  BY <1>1, <1>2, <1>3, PassesWhenClean
<1> QED
  BY <1>2, <1>4 DEF bs, gate

\* Whatever takes a gate's answer for an approval, takes a clean gate's.
LEMMA ApprovedIsClean ==
  ASSUME NEW st, NEW arm, NEW conds, NEW sides, conds \subseteq Condition,
         risk_gate_approved(evaluate_pre_order_risk_gate(st, arm, conds, sides))
  PROVE blocks(st, arm, conds) = {}
<1> DEFINE gate == evaluate_pre_order_risk_gate(st, arm, conds, sides)
<1>1. gate.approved \/ gate.status \in PASS
  BY DEF risk_gate_approved, PASS
<1> QED
  BY <1>1, GateAnswers

\* GateOnlyCloses, of every stage.
LEMMA GateCloses ==
  ASSUME NEW st, NEW arm, NEW sides, NEW c \in Condition, NEW d \in Condition
  PROVE LET gate(s, conds) == evaluate_pre_order_risk_gate(s, arm, conds, sides)
        IN  /\ gate(st, {c, d}).status \in PASS => gate(st, {c, d}).block_reasons = {}
            /\ gate(st, {c, d}).approved => gate(st, {c}).approved
            /\ gate(st, {c}).approved => gate("paper", {c}).approved
<1>1. {c, d} \subseteq Condition /\ {c} \subseteq Condition
  OBVIOUS
<1>2. blocks(st, arm, {c}) \subseteq blocks(st, arm, {c, d})
  BY DEF blocks
<1>3. blocks("paper", arm, {c}) \subseteq blocks(st, arm, {c})
  BY DEF blocks, candidate_mode
<1>4. evaluate_pre_order_risk_gate(st, arm, {c, d}, sides).status \in PASS
        => evaluate_pre_order_risk_gate(st, arm, {c, d}, sides).block_reasons = {}
  BY <1>1, GateAnswers
<1>5. evaluate_pre_order_risk_gate(st, arm, {c, d}, sides).approved
        => evaluate_pre_order_risk_gate(st, arm, {c}, sides).approved
  BY <1>1, <1>2, GateAnswers
<1>6. evaluate_pre_order_risk_gate(st, arm, {c}, sides).approved
        => evaluate_pre_order_risk_gate("paper", arm, {c}, sides).approved
  BY <1>1, <1>3, GateAnswers
<1> QED
  BY <1>4, <1>5, <1>6

\* GateOnlyCloses: every reason the gate can collect is known to
\* _status_for_blocks, and one more thing wrong, or a candidate stage instead
\* of paper, never turns a refusal into an approval.
THEOREM GateNeverOpens == Spec => []GateOnlyCloses
<1>1. GateOnlyCloses
  BY GateCloses DEF GateOnlyCloses
<1> QED
  BY <1>1, PTL

-----------------------------------------------------------------------------
(***************************************************************************)
(* The handlers, run by the cycle or by the operator.                      *)
(***************************************************************************)

\* A step writes one file.
LEMMA WritesOne ==
  ASSUME NEW f \in File, NEW v, DOMAIN files = File, Write(f, v)
  PROVE /\ DOMAIN files' = File /\ files'[f] = v
        /\ \A g \in File \ {f} : files'[g] = files[g]
BY DEF Write

\* What every handler but the signal builder, its QA and the stamp leaves: the
\* signal and its report, and a result that is the old one or not yet stamped.
Handled ==
  /\ FilesOK'
  /\ files'["signal"] = files["signal"] /\ files'["qa"] = files["qa"]
  /\ \/ files'["result"] = files["result"]
     \/ files'["result"] # NoFile /\ files'["result"].id = NoId
  /\ IntentIsOnRealData' /\ AuthorityIsOnItsOwnReport'

\* A handler that writes a file nothing rests on.
LEMMA PlainWrite ==
  ASSUME IInv, NEW f \in File \ {"result", "signal", "qa", "decision", "trade"}, NEW v,
         Write(f, v)
  PROVE Handled
<1>1. /\ DOMAIN files' = File
      /\ \A g \in {"result", "signal", "qa", "decision", "trade"} : files'[g] = files[g]
  BY WritesOne DEF IInv, FilesOK, File
<1>2. FilesOK'
  BY <1>1 DEF IInv, FilesOK, Exists
<1>3. IntentIsOnRealData'
  BY <1>1 DEF IInv, IntentIsOnRealData, Intent, Trade, Exists
<1>4. AuthorityIsOnItsOwnReport'
  BY <1>1 DEF IInv, AuthorityIsOnItsOwnReport, Exists
<1> QED
  BY <1>1, <1>2, <1>3, <1>4 DEF Handled

\* A fresh result carries no stamp.
LEMMA ResearchHandled ==
  ASSUME IInv, run_research_cycle
  PROVE Handled
<1>1. PICK v : /\ Write("result", v) /\ v.id = NoId
               /\ DOMAIN v = {"scenario", "of", "id", "timing"}
  BY DEF run_research_cycle
<1>2. /\ DOMAIN files' = File /\ files'["result"] = v
      /\ \A g \in {"signal", "qa", "decision", "trade"} : files'[g] = files[g]
  BY <1>1, WritesOne DEF IInv, FilesOK, File
<1>3. v # NoFile
  BY <1>1 DEF NoFile
<1>4. FilesOK'
  BY <1>1, <1>2, <1>3 DEF IInv, FilesOK, Exists
<1>5. IntentIsOnRealData'
  BY <1>2 DEF IInv, IntentIsOnRealData, Intent, Trade, Exists
<1>6. AuthorityIsOnItsOwnReport'
  BY <1>2 DEF IInv, AuthorityIsOnItsOwnReport, Exists
<1> QED
  BY <1>1, <1>2, <1>3, <1>4, <1>5, <1>6 DEF Handled

\* An authoritative decision read a stamped result, so that the report was the
\* signal's own.
LEMMA DecisionHandled ==
  ASSUME IInv, run_research_decision
  PROVE Handled
<1>1. PICK v : /\ Write("decision", v)
               /\ v.authoritative = signal_permission_authoritative
               /\ v.signal_of = files["signal"].of /\ v.qa_of = files["qa"].of
  BY DEF run_research_decision
<1>2. /\ DOMAIN files' = File /\ files'["decision"] = v
      /\ \A g \in {"result", "signal", "qa", "trade"} : files'[g] = files[g]
  BY <1>1, WritesOne DEF IInv, FilesOK, File
<1>3. FilesOK'
  BY <1>2 DEF IInv, FilesOK, Exists
<1>4. IntentIsOnRealData'
  BY <1>2 DEF IInv, IntentIsOnRealData, Intent, Trade, Exists
<1>5. ASSUME signal_permission_authoritative
      PROVE files["signal"].of = files["qa"].of
  <2>1. Exists("signal") /\ Exists("result") /\ files["signal"].id # NoId
    BY <1>5 DEF signal_permission_authoritative, IInv, FilesOK
  <2>2. files["result"].id # NoId
    BY <1>5, <2>1 DEF signal_permission_authoritative
  <2> QED
    BY <2>1, <2>2 DEF IInv, StampOrder
<1>6. AuthorityIsOnItsOwnReport'
  BY <1>1, <1>2, <1>5 DEF AuthorityIsOnItsOwnReport, Exists
<1> QED
  BY <1>2, <1>3, <1>4, <1>6 DEF Handled

\* The conditions the bridge hands the gate are conditions the gate knows.
LEMMA DataConditionsKnown == data_conditions \subseteq Condition
BY DEF data_conditions, Condition, AlwaysChecked, CandidateChecked

\* A gate the bridge takes for approved saw a signal, fresh real data on both
\* views, and room for a position.
LEMMA BridgeGate ==
  ASSUME NEW st, NEW risk, NEW open \in BOOLEAN,
         risk_gate_approved(_evaluate_pre_order_gate(st, risk, open))
  PROVE /\ ~open /\ Exists("signal") /\ ~files["signal"].stale /\ files["signal"].real
        /\ Exists("snapshot") => ~files["snapshot"].stale /\ Real(files["snapshot"])
<1> DEFINE conds ==
        (IF Exists("decision") THEN {} ELSE {"decision_id"})
          \cup (IF Exists("signal") THEN {} ELSE {"research_signal_id"})
          \cup (IF st # "paper" /\ ~Exists("signal") THEN {"profile_id"} ELSE {})
          \cup profile_conditions(st) \cup data_conditions
          \cup (IF open THEN {"position_limit"} ELSE {})
          \cup (IF "daily" \in risk.problems THEN {"daily_loss"} ELSE {})
          \cup (IF "consecutive" \in risk.problems THEN {"consecutive_losses"} ELSE {})
          \cup (IF st = "live" THEN {"stage_disabled"} ELSE {})
        sides == IF Exists("signal") THEN files["signal"].allow
                 ELSE IF Exists("decision") /\ files["decision"].side # "NONE"
                      THEN {files["decision"].side} ELSE {}
<1>1. _evaluate_pre_order_gate(st, risk, open)
        = evaluate_pre_order_risk_gate(st, {"hash_missing"}, conds, sides)
  BY DEF _evaluate_pre_order_gate
<1>2. conds \subseteq Condition
  <2>1. profile_conditions(st) \subseteq Condition
    BY DEF profile_conditions, Condition, AlwaysChecked
  <2>2. /\ {"decision_id", "research_signal_id", "profile_id", "position_limit",
            "daily_loss", "consecutive_losses"} \subseteq Condition
        /\ "stage_disabled" \in Condition
    BY DEF Condition, AlwaysChecked, CandidateChecked
  <2> QED
    BY <2>1, <2>2, DataConditionsKnown
<1>3. blocks(st, {"hash_missing"}, conds) = {}
  <2> HIDE DEF conds, sides
  <2> QED
    BY <1>1, <1>2, ApprovedIsClean
<1>4. conds \cap AlwaysChecked = {}
  <2> HIDE DEF conds
  <2> QED
    BY <1>3 DEF blocks
<1>5. data_conditions \subseteq conds /\ (open => "position_limit" \in conds)
      /\ (~Exists("signal") => "research_signal_id" \in conds)
  OBVIOUS
<1> HIDE DEF conds, sides
<1>6. ~open /\ Exists("signal")
  BY <1>4, <1>5 DEF AlwaysChecked
<1>7. "stale" \notin data_conditions /\ "synthetic" \notin data_conditions
  BY <1>4, <1>5 DEF AlwaysChecked
<1>8. ~files["signal"].stale /\ (Exists("snapshot") => ~files["snapshot"].stale)
  BY <1>6, <1>7 DEF data_conditions
<1>9. files["signal"].real /\ (Exists("snapshot") => Real(files["snapshot"]))
  BY <1>6, <1>7 DEF data_conditions
<1> QED
  BY <1>6, <1>8, <1>9

\* A candidate of the decision builder had healthy, real data, no risk problem
\* and a snapshot to price it on.
LEMMA CandidateIsClear ==
  ASSUME NEW health, NEW risk, final_decision(health, risk) = "CANDIDATE"
  PROVE health.allow /\ health.real /\ risk.problems = {} /\ Exists("snapshot")
BY DEF final_decision

\* What the bridge writes: an intent only on both, with what it rests on.
LEMMA BridgeWrites ==
  ASSUME NEW st, NEW v, NEW by, run_research_trading_bridge(st, v, by)
  PROVE \E open \in BOOLEAN : \E t :
          /\ Write("trade", t) /\ count' = count /\ t.stage = st
          /\ t.clear <=> /\ Exists("snapshot") /\ v.health.allow
                         /\ Clear(files["snapshot"], v.risk, open)
          /\ t.intent <=> /\ final_decision(v.health, v.risk) = "CANDIDATE"
                          /\ risk_gate_approved(_evaluate_pre_order_gate(st, v.risk, open))
          /\ t.intent =>
               /\ t.on.snapshot = files["snapshot"] /\ t.on.signal = files["signal"]
               /\ t.on.verdict = v /\ t.on.open = open
               /\ t.of = {files[f].of : f \in {"snapshot", "result", "signal", "qa",
                                               "decision", "trading"}}
                           \cup {v.health.of, v.risk.of}
<1> DEFINE gate(open) == _evaluate_pre_order_gate(st, v.risk, open)
           intent(open) == /\ final_decision(v.health, v.risk) = "CANDIDATE"
                           /\ risk_gate_approved(gate(open))
           clear(open) == /\ Exists("snapshot") /\ v.health.allow
                          /\ Clear(files["snapshot"], v.risk, open)
           read == {"snapshot", "result", "signal", "qa", "decision", "trading"}
           on(open) == [snapshot |-> files["snapshot"], signal |-> files["signal"],
                        qa |-> files["qa"], verdict |-> v, open |-> open,
                        direction |-> files["trading"].signal]
           of == {files[f].of : f \in read} \cup {v.health.of, v.risk.of}
           t(open) == [intent |-> intent(open), stage |-> st, by |-> by, clear |-> clear(open),
                       on |-> IF intent(open) THEN on(open) ELSE NoFile,
                       of |-> IF intent(open) THEN of ELSE {}]
<1>1. PICK open \in BOOLEAN : Write("trade", t(open)) /\ count' = count
  BY DEF run_research_trading_bridge
<1>2. t(open).intent = intent(open) /\ t(open).clear = clear(open) /\ t(open).stage = st
  OBVIOUS
<1>3. ASSUME intent(open) PROVE t(open).on = on(open) /\ t(open).of = of
  <2> HIDE DEF intent, clear, on, of
  <2> QED
    BY <1>3
<1>4. /\ on(open).snapshot = files["snapshot"] /\ on(open).signal = files["signal"]
      /\ on(open).verdict = v /\ on(open).open = open
  OBVIOUS
<1> WITNESS open \in BOOLEAN
<1> WITNESS t(open)
<1> HIDE DEF t, on, of
<1>5. (t(open).intent <=> intent(open)) /\ (t(open).clear <=> clear(open)) /\ t(open).stage = st
  BY <1>2, Zenon
<1>6. t(open).intent =>
        /\ t(open).on.snapshot = files["snapshot"] /\ t(open).on.signal = files["signal"]
        /\ t(open).on.verdict = v /\ t(open).on.open = open /\ t(open).of = of
  <2> HIDE DEF intent
  <2> QED
    BY <1>3, <1>4, <1>5
<1> QED
  BY <1>1, <1>5, <1>6, Zenon DEF of

LEMMA BridgeHandled ==
  ASSUME IInv, NEW st, NEW v, NEW by, run_research_trading_bridge(st, v, by)
  PROVE Handled
<1>0. PICK open \in BOOLEAN : \E t :
        /\ Write("trade", t)
        /\ t.intent => /\ final_decision(v.health, v.risk) = "CANDIDATE"
                       /\ risk_gate_approved(_evaluate_pre_order_gate(st, v.risk, open))
                       /\ t.on.snapshot = files["snapshot"] /\ t.on.signal = files["signal"]
                       /\ t.on.verdict = v /\ t.on.open = open
  BY BridgeWrites
<1>1. PICK t :
        /\ Write("trade", t)
        /\ t.intent => /\ final_decision(v.health, v.risk) = "CANDIDATE"
                       /\ risk_gate_approved(_evaluate_pre_order_gate(st, v.risk, open))
                       /\ t.on.snapshot = files["snapshot"] /\ t.on.signal = files["signal"]
                       /\ t.on.verdict = v /\ t.on.open = open
  BY <1>0
<1>2. /\ DOMAIN files' = File /\ files'["trade"] = t
      /\ \A g \in {"result", "signal", "qa", "decision"} : files'[g] = files[g]
  BY <1>1, WritesOne DEF IInv, FilesOK, File
<1>3. FilesOK'
  BY <1>2 DEF IInv, FilesOK, Exists
<1>4. AuthorityIsOnItsOwnReport'
  BY <1>2 DEF IInv, AuthorityIsOnItsOwnReport, Exists
<1>5. ASSUME t.intent
      PROVE /\ Real(t.on.snapshot) /\ ~t.on.snapshot.stale
            /\ t.on.signal.real /\ ~t.on.signal.stale
            /\ t.on.verdict.health.allow /\ t.on.verdict.health.real
            /\ t.on.verdict.risk.problems = {} /\ ~t.on.open
  <2>1. /\ v.health.allow /\ v.health.real /\ v.risk.problems = {} /\ Exists("snapshot")
    BY <1>1, <1>5, CandidateIsClear
  <2>2. /\ ~open /\ ~files["signal"].stale /\ files["signal"].real
        /\ ~files["snapshot"].stale /\ Real(files["snapshot"])
    BY <1>1, <1>5, <2>1, BridgeGate
  <2> QED
    BY <1>1, <1>5, <2>1, <2>2
<1>6. IntentIsOnRealData'
  BY <1>2, <1>5 DEF IntentIsOnRealData, Intent, Trade
<1> QED
  BY <1>2, <1>3, <1>4, <1>6 DEF Handled

-----------------------------------------------------------------------------
(***************************************************************************)
(* The invariant.                                                          *)
(***************************************************************************)

\* The handlers that write data, snapshot, context, health, risk and trading.
LEMMA PlainHandled ==
  ASSUME IInv,
         \/ collect_market_data \/ build_market_snapshot \/ build_market_context
         \/ run_data_health_check \/ run_risk_guard \/ run_trading_cycle
  PROVE Handled
<1>1. \E f \in {"data", "snapshot", "context", "health", "risk", "trading"} : \E v : Write(f, v)
  BY DEF collect_market_data, build_market_snapshot, build_market_context,
         run_data_health_check, run_risk_guard, run_trading_cycle
<1>2. {"data", "snapshot", "context", "health", "risk", "trading"}
        \subseteq File \ {"result", "signal", "qa", "decision", "trade"}
  BY DEF File
<1> QED
  BY <1>1, <1>2, PlainWrite

\* A handled step before which nothing waits for the stamp keeps StampOrder.
LEMMA StampKept ==
  ASSUME IInv, Handled, pc' = pc \/ pc' \notin {"signal", "qa", "stamp"}
  PROVE StampOrder'
BY DEF IInv, Handled, StampOrder, Exists

\* A step of the cycle that is not the bridge leaves no intent to speak of.
LEMMA NotDone ==
  ASSUME pc' # "done" \/ manual' # 0
  PROVE IntentIsOfOneCycle'
BY DEF IntentIsOfOneCycle

LEMMA CollectKeeps == IInv /\ CollectStep => IInv'
<1> SUFFICES ASSUME IInv, CollectStep PROVE IInv'
  OBVIOUS
<1>1. /\ pc' = "snapshot" /\ collect_market_data /\ manual' = manual
      /\ count' = count + 1
  BY DEF CollectStep, Step, collect_market_data
<1>2. Handled
  BY <1>1, PlainHandled
<1>3. files'["data"].of = count'
  <2>1. PICK v : Write("data", v) /\ v.of = count + 1
    BY <1>1 DEF collect_market_data
  <2> QED
    BY <1>1, <2>1, WritesOne DEF IInv, FilesOK, File
<1>4. CycleFiles'
  BY <1>1, <1>3 DEF CycleFiles
<1>5. StampOrder' /\ CountersOK' /\ IntentIsOfOneCycle'
  BY <1>1, <1>2, StampKept, NotDone DEF IInv, CountersOK
<1> QED
  BY <1>2, <1>4, <1>5 DEF IInv, Handled

LEMMA SnapshotKeeps == IInv /\ SnapshotStep => IInv'
<1> SUFFICES ASSUME IInv, SnapshotStep PROVE IInv'
  OBVIOUS
<1>1. /\ pc = "snapshot" /\ pc' = "context" /\ build_market_snapshot /\ manual' = manual
      /\ verdict' = verdict /\ count' = count
  BY DEF SnapshotStep, Step, build_market_snapshot
<1>2. Handled
  BY <1>1, PlainHandled
<1>3. PICK v : Write("snapshot", v) /\ (manual = 0 => v.of = count)
  BY <1>1 DEF build_market_snapshot, IInv, CycleFiles
<1>4. files'["snapshot"] = v /\ \A g \in File \ {"snapshot"} : files'[g] = files[g]
  BY <1>3, WritesOne DEF IInv, FilesOK, File
<1>5. CycleFiles'
  BY <1>1, <1>3, <1>4 DEF IInv, CycleFiles, File
<1>6. StampOrder' /\ CountersOK' /\ IntentIsOfOneCycle'
  BY <1>1, <1>2, StampKept, NotDone DEF IInv, CountersOK
<1> QED
  BY <1>2, <1>5, <1>6 DEF IInv, Handled

LEMMA ContextKeeps == IInv /\ ContextStep => IInv'
<1> SUFFICES ASSUME IInv, ContextStep PROVE IInv'
  OBVIOUS
<1>1. /\ pc = "context" /\ pc' = "research" /\ build_market_context /\ manual' = manual
      /\ verdict' = verdict /\ count' = count
  BY DEF ContextStep, Step, build_market_context
<1>2. Handled
  BY <1>1, PlainHandled
<1>3. PICK v : Write("context", v) /\ (manual = 0 => v.of = count)
  BY <1>1 DEF build_market_context, IInv, CycleFiles
<1>4. files'["context"] = v /\ \A g \in File \ {"context"} : files'[g] = files[g]
  BY <1>3, WritesOne DEF IInv, FilesOK, File
<1>5. CycleFiles'
  BY <1>1, <1>3, <1>4 DEF IInv, CycleFiles, File
<1>6. StampOrder' /\ CountersOK' /\ IntentIsOfOneCycle'
  BY <1>1, <1>2, StampKept, NotDone DEF IInv, CountersOK
<1> QED
  BY <1>2, <1>5, <1>6 DEF IInv, Handled

LEMMA ResearchKeeps == IInv /\ ResearchStep => IInv'
<1> SUFFICES ASSUME IInv, ResearchStep PROVE IInv'
  OBVIOUS
<1>1. /\ pc = "research" /\ pc' = "signal" /\ run_research_cycle /\ manual' = manual
      /\ verdict' = verdict /\ count' = count
  BY DEF ResearchStep, Step, run_research_cycle
<1>2. Handled
  BY <1>1, ResearchHandled
<1>3. PICK v : Write("result", v) /\ (manual = 0 => v.of = count)
  BY <1>1 DEF run_research_cycle, IInv, CycleFiles
<1>4. files'["result"] = v /\ \A g \in File \ {"result"} : files'[g] = files[g]
  BY <1>3, WritesOne DEF IInv, FilesOK, File
<1>5. CycleFiles'
  BY <1>1, <1>3, <1>4 DEF IInv, CycleFiles, File
<1>6. StampOrder'
  <2>1. files'["result"] # NoFile /\ files'["result"].id = NoId
    <3>1. PICK w : /\ Write("result", w) /\ w.id = NoId
                   /\ DOMAIN w = {"scenario", "of", "id", "timing"}
      BY <1>1 DEF run_research_cycle
    <3>2. files'["result"] = w /\ w # NoFile
      BY <3>1, WritesOne DEF IInv, FilesOK, File, NoFile
    <3> QED
      BY <3>1, <3>2
  <2> QED
    BY <1>1, <2>1 DEF StampOrder, Exists
<1>7. CountersOK' /\ IntentIsOfOneCycle'
  BY <1>1, NotDone DEF IInv, CountersOK
<1> QED
  BY <1>2, <1>5, <1>6, <1>7 DEF IInv, Handled

LEMMA DecisionKeeps == IInv /\ DecisionStep => IInv'
<1> SUFFICES ASSUME IInv, DecisionStep PROVE IInv'
  OBVIOUS
<1>1. /\ pc = "decision" /\ pc' = "health" /\ run_research_decision /\ manual' = manual
      /\ verdict' = verdict /\ count' = count
  BY DEF DecisionStep, Step, run_research_decision
<1>2. Handled
  BY <1>1, DecisionHandled
<1>3. PICK v : Write("decision", v) /\ (manual = 0 => v.of = count)
  BY <1>1 DEF run_research_decision, IInv, CycleFiles, Exists
<1>4. files'["decision"] = v /\ \A g \in File \ {"decision"} : files'[g] = files[g]
  BY <1>3, WritesOne DEF IInv, FilesOK, File
<1>5. CycleFiles'
  BY <1>1, <1>3, <1>4 DEF IInv, CycleFiles, File
<1>6. StampOrder' /\ CountersOK' /\ IntentIsOfOneCycle'
  BY <1>1, <1>2, StampKept, NotDone DEF IInv, CountersOK
<1> QED
  BY <1>2, <1>5, <1>6 DEF IInv, Handled

LEMMA HealthKeeps == IInv /\ HealthStep => IInv'
<1> SUFFICES ASSUME IInv, HealthStep PROVE IInv'
  OBVIOUS
<1>1. /\ pc = "health" /\ pc' = "risk" /\ run_data_health_check /\ manual' = manual
      /\ verdict' = verdict /\ count' = count
  BY DEF HealthStep, Step, run_data_health_check
<1>2. Handled
  BY <1>1, PlainHandled
<1>3. PICK v : Write("health", v) /\ (manual = 0 => v.of = count)
  BY <1>1 DEF run_data_health_check, IInv, CycleFiles
<1>4. files'["health"] = v /\ \A g \in File \ {"health"} : files'[g] = files[g]
  BY <1>3, WritesOne DEF IInv, FilesOK, File
<1>5. CycleFiles'
  BY <1>1, <1>3, <1>4 DEF IInv, CycleFiles, File
<1>6. StampOrder' /\ CountersOK' /\ IntentIsOfOneCycle'
  BY <1>1, <1>2, StampKept, NotDone DEF IInv, CountersOK
<1> QED
  BY <1>2, <1>5, <1>6 DEF IInv, Handled

LEMMA TradingKeeps == IInv /\ TradingStep => IInv'
<1> SUFFICES ASSUME IInv, TradingStep PROVE IInv'
  OBVIOUS
<1>1. /\ pc = "trading" /\ pc' = "bridge" /\ run_trading_cycle /\ manual' = manual
      /\ verdict' = verdict /\ count' = count
  BY DEF TradingStep, Step, run_trading_cycle
<1>2. Handled
  BY <1>1, PlainHandled
<1>3. PICK v : Write("trading", v) /\ (manual = 0 => v.of = count)
  BY <1>1 DEF run_trading_cycle, IInv, CycleFiles
<1>4. files'["trading"] = v /\ \A g \in File \ {"trading"} : files'[g] = files[g]
  BY <1>3, WritesOne DEF IInv, FilesOK, File
<1>5. CycleFiles'
  BY <1>1, <1>3, <1>4 DEF IInv, CycleFiles, File
<1>6. StampOrder' /\ CountersOK' /\ IntentIsOfOneCycle'
  BY <1>1, <1>2, StampKept, NotDone DEF IInv, CountersOK
<1> QED
  BY <1>2, <1>5, <1>6 DEF IInv, Handled

LEMMA RiskKeeps == IInv /\ RiskStep => IInv'
<1> SUFFICES ASSUME IInv, RiskStep PROVE IInv'
  OBVIOUS
<1>1. /\ pc = "risk" /\ pc' = "trading" /\ run_risk_guard /\ manual' = manual /\ count' = count
      /\ verdict' = [health |-> files["health"], risk |-> files'["risk"]]
  BY DEF RiskStep, run_risk_guard
<1>2. Handled
  BY <1>1, PlainHandled
<1>3. PICK v : Write("risk", v) /\ (manual = 0 => v.of = count)
  BY <1>1 DEF run_risk_guard, IInv, CycleFiles
<1>4. files'["risk"] = v /\ \A g \in File \ {"risk"} : files'[g] = files[g]
  BY <1>3, WritesOne DEF IInv, FilesOK, File
<1>5. CycleFiles'
  BY <1>1, <1>3, <1>4 DEF IInv, CycleFiles, File
<1>6. StampOrder' /\ CountersOK' /\ IntentIsOfOneCycle'
  BY <1>1, <1>2, StampKept, NotDone DEF IInv, CountersOK
<1> QED
  BY <1>2, <1>5, <1>6 DEF IInv, Handled

\* The signal the builder writes.
LEMMA SignalWrites ==
  ASSUME build_active_research_signal
  PROVE \E v : /\ Write("signal", v) /\ "id" \in DOMAIN v /\ v.id # NoId
               /\ v.of = files["snapshot"].of /\ v.stale = files["snapshot"].stale
               /\ v.real = Real(files["snapshot"]) /\ v.profile = _resolve_signal_profile
               /\ v.allow = _trade_permission(files["snapshot"], files["result"])
<1> DEFINE snap == files["snapshot"]
           res == files["result"]
           allow == _trade_permission(snap, res)
           v == [id |-> signal_id(snap, allow), allow |-> allow,
                 profile |-> _resolve_signal_profile, stale |-> snap.stale,
                 real |-> Real(snap), missing |-> snap.optional = "missing",
                 scenario |-> res.scenario, timing |-> res.timing, of |-> snap.of]
<1>1. Write("signal", v)
  BY DEF build_active_research_signal
<1>2. signal_id(snap, allow) # NoId
  BY DEF signal_id, NoId
<1>3. /\ "id" \in DOMAIN v /\ v.id = signal_id(snap, allow) /\ v.of = snap.of
      /\ v.stale = snap.stale /\ v.real = Real(snap) /\ v.allow = allow
      /\ v.profile = _resolve_signal_profile
  OBVIOUS
<1> WITNESS v
<1> HIDE DEF v
<1> QED
  BY <1>1, <1>2, <1>3

\* The signal is rebuilt while the result carries no stamp.
LEMMA SignalKeeps == IInv /\ SignalStep => IInv'
<1> SUFFICES ASSUME IInv, SignalStep PROVE IInv'
  OBVIOUS
<1>1. /\ pc = "signal" /\ pc' = "qa" /\ build_active_research_signal /\ manual' = manual
      /\ verdict' = verdict /\ count' = count
  BY DEF SignalStep, Step, build_active_research_signal
<1>2. PICK v : /\ Write("signal", v) /\ v.of = files["snapshot"].of
               /\ v.id # NoId /\ "id" \in DOMAIN v
  BY <1>1, SignalWrites
<1>3. /\ DOMAIN files' = File /\ files'["signal"] = v
      /\ \A g \in File \ {"signal"} : files'[g] = files[g]
  BY <1>2, WritesOne DEF IInv, FilesOK, File
<1>4. v # NoFile
  BY <1>2 DEF NoFile
<1>5. files["result"] # NoFile /\ files["result"].id = NoId
  BY <1>1 DEF IInv, StampOrder, Exists
<1>6. FilesOK'
  BY <1>2, <1>3, <1>5 DEF IInv, FilesOK, Exists, File
<1>7. StampOrder'
  BY <1>1, <1>3, <1>4, <1>5 DEF StampOrder, Exists, File
<1>8. CycleFiles'
  BY <1>1, <1>2, <1>3 DEF IInv, CycleFiles, File
<1>9. CountersOK' /\ IntentIsOfOneCycle'
  BY <1>1, NotDone DEF IInv, CountersOK
<1>10. IntentIsOnRealData' /\ AuthorityIsOnItsOwnReport'
  BY <1>3 DEF IInv, IntentIsOnRealData, AuthorityIsOnItsOwnReport, Intent, Trade, Exists, File
<1> QED
  BY <1>6, <1>7, <1>8, <1>9, <1>10 DEF IInv

LEMMA QAKeeps == IInv /\ QAStep => IInv'
<1> SUFFICES ASSUME IInv, QAStep PROVE IInv'
  OBVIOUS
<1>1. /\ pc = "qa" /\ pc' = "stamp" /\ validate_research_signal_quality /\ manual' = manual
      /\ verdict' = verdict /\ count' = count
  BY DEF QAStep, Step, validate_research_signal_quality
<1>2. PICK v : Write("qa", v) /\ v.of = files["signal"].of
  BY <1>1 DEF validate_research_signal_quality
<1>3. /\ DOMAIN files' = File /\ files'["qa"] = v
      /\ \A g \in File \ {"qa"} : files'[g] = files[g]
  BY <1>2, WritesOne DEF IInv, FilesOK, File
<1>4. FilesOK'
  BY <1>3 DEF IInv, FilesOK, Exists, File
<1>5. StampOrder'
  BY <1>1, <1>2, <1>3 DEF IInv, StampOrder, Exists, File
<1>6. CycleFiles'
  BY <1>1, <1>2, <1>3 DEF IInv, CycleFiles, File
<1>7. CountersOK' /\ IntentIsOfOneCycle'
  BY <1>1, NotDone DEF IInv, CountersOK
<1>8. IntentIsOnRealData' /\ AuthorityIsOnItsOwnReport'
  BY <1>3 DEF IInv, IntentIsOnRealData, AuthorityIsOnItsOwnReport, Intent, Trade, Exists, File
<1> QED
  BY <1>4, <1>5, <1>6, <1>7, <1>8 DEF IInv

\* The stamp comes back when the report is the signal's own.
LEMMA StampKeeps == IInv /\ StampStep => IInv'
<1> SUFFICES ASSUME IInv, StampStep PROVE IInv'
  OBVIOUS
<1>1. /\ pc = "stamp" /\ pc' = "decision" /\ stamp_research_result /\ manual' = manual
      /\ verdict' = verdict /\ count' = count
  BY DEF StampStep, Step, stamp_research_result
<1>2. /\ Exists("result") /\ files["qa"].of = files["signal"].of
      /\ DOMAIN files["result"] = {"scenario", "of", "id", "timing"}
  BY <1>1 DEF IInv, StampOrder, FilesOK
<1>3. PICK v : /\ Write("result", v) /\ v.of = files["result"].of
               /\ DOMAIN v = {"scenario", "of", "id", "timing"}
  BY <1>1, <1>2 DEF stamp_research_result
<1>4. /\ DOMAIN files' = File /\ files'["result"] = v
      /\ \A g \in File \ {"result"} : files'[g] = files[g]
  BY <1>3, WritesOne DEF IInv, FilesOK, File
<1>5. v # NoFile
  BY <1>3 DEF NoFile
<1>6. FilesOK'
  BY <1>3, <1>4, <1>5 DEF IInv, FilesOK, Exists, File
<1>7. StampOrder'
  BY <1>1, <1>2, <1>4 DEF StampOrder, File
<1>8. CycleFiles'
  BY <1>1, <1>3, <1>4 DEF IInv, CycleFiles, File
<1>9. CountersOK' /\ IntentIsOfOneCycle'
  BY <1>1, NotDone DEF IInv, CountersOK
<1>10. IntentIsOnRealData' /\ AuthorityIsOnItsOwnReport'
  BY <1>4 DEF IInv, IntentIsOnRealData, AuthorityIsOnItsOwnReport, Intent, Trade, Exists, File
<1> QED
  BY <1>6, <1>7, <1>8, <1>9, <1>10 DEF IInv

\* At the bridge of a cycle nobody interfered with, all it reads is of one
\* collection.
LEMMA BridgeKeeps == IInv /\ BridgeStep => IInv'
<1> SUFFICES ASSUME IInv, BridgeStep PROVE IInv'
  OBVIOUS
<1>1. /\ pc = "bridge" /\ pc' = "done" /\ manual' = manual /\ verdict' = verdict
      /\ run_research_trading_bridge(config.stage, verdict, "pipeline")
  BY DEF BridgeStep, Step
<1>2. Handled
  BY <1>1, BridgeHandled
<1>3. PICK t :
        /\ Write("trade", t) /\ count' = count
        /\ t.intent => t.of = {files[f].of : f \in {"snapshot", "result", "signal", "qa",
                                                    "decision", "trading"}}
                                 \cup {verdict.health.of, verdict.risk.of}
  <2>1. PICK open \in BOOLEAN : \E t :
          /\ Write("trade", t) /\ count' = count
          /\ t.intent => t.of = {files[f].of : f \in {"snapshot", "result", "signal", "qa",
                                                      "decision", "trading"}}
                                   \cup {verdict.health.of, verdict.risk.of}
    BY <1>1, BridgeWrites
  <2> QED
    BY <2>1
<1>4. files'["trade"] = t /\ \A g \in File \ {"trade"} : files'[g] = files[g]
  BY <1>3, WritesOne DEF IInv, FilesOK, File
<1>5. CycleFiles'
  BY <1>1, <1>3, <1>4 DEF IInv, CycleFiles, File
<1>6. IntentIsOfOneCycle'
  <2>1. ASSUME manual = 0, t.intent PROVE t.of = {count}
    <3>1. /\ \A f \in {"snapshot", "result", "signal", "qa", "decision", "trading"} :
               files[f].of = count
          /\ verdict.health.of = count /\ verdict.risk.of = count
      BY <1>1, <2>1 DEF IInv, CycleFiles
    <3> QED
      BY <1>3, <2>1, <3>1
  <2> QED
    BY <1>1, <1>3, <1>4, <2>1 DEF IntentIsOfOneCycle, Intent, Trade
<1>7. StampOrder' /\ CountersOK'
  BY <1>1, <1>2, <1>3, StampKept DEF IInv, CountersOK
<1> QED
  BY <1>2, <1>5, <1>6, <1>7 DEF IInv, Handled

\* After a main run by hand nothing is said of one cycle any more.
LEMMA OperatorKeeps == IInv /\ Operator => IInv'
<1> SUFFICES ASSUME IInv, Operator PROVE IInv'
  OBVIOUS
<1>1. pc' = pc /\ manual' = manual + 1 /\ manual' # 0
  BY DEF Operator, IInv, CountersOK
<1>2. Handled
  <2>1. CASE run_research_cycle
    BY <2>1, ResearchHandled
  <2>2. CASE run_research_decision
    BY <2>2, DecisionHandled
  <2>3. CASE run_research_trading_bridge("paper", from_latest_files, "operator")
    BY <2>3, BridgeHandled
  <2> QED
    BY <2>1, <2>2, <2>3, PlainHandled DEF Operator
<1>3. count' \in Nat
  <2>1. count' = count \/ count' = count + 1
    <3>1. ASSUME run_research_trading_bridge("paper", from_latest_files, "operator")
          PROVE count' = count
      BY <3>1, BridgeWrites
    <3> QED
      BY <3>1 DEF Operator, collect_market_data, build_market_snapshot, build_market_context,
           run_research_cycle, run_research_decision, run_data_health_check, run_risk_guard,
           run_trading_cycle
  <2> QED
    BY <2>1 DEF IInv, CountersOK
<1>4. CycleFiles' /\ IntentIsOfOneCycle' /\ CountersOK'
  BY <1>1, <1>3, NotDone DEF IInv, CountersOK, CycleFiles
<1>5. StampOrder'
  BY <1>1, <1>2, StampKept
<1> QED
  BY <1>2, <1>4, <1>5 DEF IInv, Handled

\* The end of a cycle, a restart with other settings, and a stutter.
LEMMA QuietKeeps ==
  /\ IInv /\ files' = files /\ count' = count /\ manual' = manual
  /\ pc' = "idle" \/ (pc' = pc /\ verdict' = verdict)
  => IInv'
<1> SUFFICES ASSUME IInv, files' = files, count' = count, manual' = manual,
                    pc' = "idle" \/ (pc' = pc /\ verdict' = verdict)
             PROVE IInv'
  OBVIOUS
<1>1. FilesOK' /\ CountersOK' /\ IntentIsOnRealData' /\ AuthorityIsOnItsOwnReport'
  BY DEF IInv, FilesOK, CountersOK, IntentIsOnRealData, AuthorityIsOnItsOwnReport,
         Intent, Trade, Exists
<1>2. StampOrder' /\ CycleFiles'
  BY DEF IInv, StampOrder, CycleFiles, Exists
<1>3. IntentIsOfOneCycle'
  BY DEF IInv, IntentIsOfOneCycle, Intent, Trade, Exists
<1> QED
  BY <1>1, <1>2, <1>3 DEF IInv

LEMMA InitEstablishes == Init => IInv
<1> SUFFICES ASSUME Init PROVE IInv
  OBVIOUS
<1>1. DOMAIN files = File /\ \A f \in File : ~Exists(f)
  BY DEF Init, Exists
<1>2. FilesOK /\ CountersOK
  BY <1>1 DEF Init, FilesOK, CountersOK, File
<1>3. StampOrder /\ CycleFiles
  BY <1>1 DEF Init, StampOrder, CycleFiles, File
<1>4. ~Intent
  BY <1>1 DEF Intent, File
<1>5. ~Exists("decision")
  BY <1>1 DEF File
<1>6. IntentIsOnRealData /\ AuthorityIsOnItsOwnReport /\ IntentIsOfOneCycle
  BY <1>4, <1>5 DEF IntentIsOnRealData, AuthorityIsOnItsOwnReport, IntentIsOfOneCycle
<1> QED
  BY <1>2, <1>3, <1>6 DEF IInv

LEMMA NextKeeps == IInv /\ [Next]_vars => IInv'
<1> SUFFICES ASSUME IInv, [Next]_vars PROVE IInv'
  OBVIOUS
<1>1. CASE EndCycle
  <2>1. files' = files /\ count' = count /\ manual' = manual /\ pc' = "idle"
    BY <1>1 DEF EndCycle
  <2> QED
    BY <2>1, QuietKeeps
<1>2. CASE Reconfigure
  <2>1. files' = files /\ count' = count /\ manual' = manual /\ pc' = pc /\ verdict' = verdict
    BY <1>2 DEF Reconfigure
  <2> QED
    BY <2>1, QuietKeeps
<1>3. CASE UNCHANGED vars
  <2>1. files' = files /\ count' = count /\ manual' = manual /\ pc' = pc /\ verdict' = verdict
    BY <1>3 DEF vars
  <2> QED
    BY <2>1, QuietKeeps
<1> QED
  BY <1>1, <1>2, <1>3, CollectKeeps, SnapshotKeeps, ContextKeeps, ResearchKeeps, SignalKeeps,
     QAKeeps, StampKeeps, DecisionKeeps, HealthKeeps, RiskKeeps, TradingKeeps, BridgeKeeps,
     OperatorKeeps DEF Next

\* IInv is an invariant: when the stamp may stand on the result, and which
\* files are of the cycle's own collection.
THEOREM ChainInvariance == Spec => []IInv
<1>1. Init => IInv
  BY InitEstablishes
<1>2. IInv /\ [Next]_vars => IInv'
  BY NextKeeps
<1> QED
  BY <1>1, <1>2, PTL DEF Spec

\* IntentIsOnRealData: whatever layer the settings disarm and whatever the
\* operator runs by hand, an intent of the bridge rests on real, fresh data.
THEOREM IntentsAreReal == Spec => []IntentIsOnRealData
<1>1. IInv => IntentIsOnRealData
  BY DEF IInv
<1> QED
  BY <1>1, ChainInvariance, PTL

\* AuthorityIsOnItsOwnReport: run_research_cycle drops the stamp before the
\* signal is rebuilt, so an authoritative permission had its own QA report.
THEOREM AuthorityIsOwn == Spec => []AuthorityIsOnItsOwnReport
<1>1. IInv => AuthorityIsOnItsOwnReport
  BY DEF IInv
<1> QED
  BY <1>1, ChainInvariance, PTL

\* IntentIsOfOneCycle: what a dead cycle left behind is never mixed into the
\* intent of a later one.
THEOREM IntentsAreOfOneCycle == Spec => []IntentIsOfOneCycle
<1>1. IInv => IntentIsOfOneCycle
  BY DEF IInv
<1> QED
  BY <1>1, ChainInvariance, PTL

-----------------------------------------------------------------------------
(***************************************************************************)
(* The chain as one line.                                                  *)
(***************************************************************************)

\* The scores of real data.
RealScore == {x \in Int : 3000 <= x /\ x < 7500}

\* On real data the score never falls far enough for a short.
LEMMA ScoreOnRealData ==
  ASSUME NEW m \in Market
  PROVE final_score(m, TRUE) \in RealScore
<1>1. market_structure_score(m) \in {30, 50, 70}
  BY DEF market_structure_score, Market, Trend
<1>2. momentum_score(m) \in {35, 40, 50, 55, 65, 70}
  BY DEF momentum_score, Market, Change
<1>3. derivatives_score(m) \in {35, 40, 45, 50, 55}
  BY DEF derivatives_score, Market, Change
<1> DEFINE raw == 35 * market_structure_score(m) + 25 * momentum_score(m)
                    + 25 * derivatives_score(m) + 750
<1>4. raw \in RealScore
  <2>1. ASSUME NEW a \in {30, 50, 70}, NEW b \in {35, 40, 50, 55, 65, 70},
               NEW c \in {35, 40, 45, 50, 55}
        PROVE 35 * a + 25 * b + 25 * c + 750 \in RealScore
    BY DEF RealScore
  <2> QED
    BY <1>1, <1>2, <1>3, <2>1
<1>5. final_score(m, TRUE) = Clamp(raw)
  <2>1. /\ market_structure_score(m) \in Int /\ momentum_score(m) \in Int
        /\ derivatives_score(m) \in Int
    BY <1>1, <1>2, <1>3
  <2> QED
    BY <2>1, SMT DEF final_score
<1>6. ASSUME NEW r \in RealScore PROVE Clamp(r) = r
  BY DEF Clamp, RealScore
<1> HIDE DEF raw
<1> QED
  BY <1>4, <1>5, <1>6

\* The score of a long.
LongScore(score) == score >= 5500

\* What the classes say of such a score.
LEMMA ScoreClasses ==
  ASSUME NEW score \in RealScore
  PROVE LET scenario == classify_scenario(score)
        IN  /\ scenario \notin SHORT_SCENARIOS
            /\ scenario \in LONG_SCENARIOS <=> LongScore(score)
            /\ LongScore(score) => classify_timing(score, scenario, TRUE) = "Early"
<1> DEFINE long == LongScore(score)
           scenario == classify_scenario(score)
<1>1. long => scenario \in {"Bullish", "Constructive"}
  BY DEF classify_scenario, RealScore, LongScore
<1>2. ~long => scenario \in {"Neutral", "Cautious"}
  BY DEF classify_scenario, RealScore, LongScore
<1>3. scenario \in LONG_SCENARIOS => classify_timing(score, scenario, TRUE) = "Early"
  <2>1. score < 7500
    BY DEF RealScore
  <2> HIDE DEF scenario
  <2> QED
    BY <2>1 DEF classify_timing, LONG_SCENARIOS
<1> HIDE DEF long, scenario
<1>4. /\ scenario \notin SHORT_SCENARIOS
      /\ scenario \in LONG_SCENARIOS <=> long
      /\ long => classify_timing(score, scenario, TRUE) = "Early"
  BY <1>1, <1>2, <1>3 DEF LONG_SCENARIOS, SHORT_SCENARIOS
<1> QED
  BY <1>4 DEF long, scenario

\* The research permits a long exactly on a constructive score, and nothing
\* else; it is early then, never late or blocked.
LEMMA ResearchPermits ==
  ASSUME NEW d, d.market \in Market, Real(d)
  PROVE /\ PermittedOf(d) = IF LongScore(final_score(d.market, TRUE)) THEN {"LONG"} ELSE {}
        /\ LongScore(final_score(d.market, TRUE)) => TimingOf(d) = "Early"
<1> DEFINE score == final_score(d.market, TRUE)
<1>1. score \in RealScore
  BY ScoreOnRealData
<1>2. ScoreOf(d) = score
  <2>1. Real(d) = TRUE
    BY DEF Real
  <2> QED
    BY <2>1, Zenon DEF ScoreOf
<1> HIDE DEF score
<1>3. /\ ScenarioOf(d) \notin SHORT_SCENARIOS
      /\ ScenarioOf(d) \in LONG_SCENARIOS <=> LongScore(score)
      /\ LongScore(score) => TimingOf(d) = "Early"
  <2>1. Real(d) = TRUE
    BY DEF Real
  <2>2. ScenarioOf(d) = classify_scenario(score)
    BY <1>2 DEF ScenarioOf
  <2>3. TimingOf(d) = classify_timing(score, classify_scenario(score), TRUE)
    BY <1>2, <2>1, <2>2 DEF TimingOf
  <2> QED
    BY <1>1, <2>2, <2>3, ScoreClasses
<1>4. PermittedOf(d) = IF LongScore(score) THEN {"LONG"} ELSE {}
  BY <1>3 DEF PermittedOf, directional_permission, BLOCKING_TIMING
<1> QED
  BY <1>3, <1>4 DEF score

\* A candidate goes in a direction the research decision allows.
LEMMA CandidateIsAllowed ==
  ASSUME NEW health, NEW risk, final_decision(health, risk) = "CANDIDATE"
  PROVE files["trading"].signal \in files["decision"].allow
BY DEF final_decision

\* On sound data with a long permitted, a paper signal, no problem and room for
\* a position, the paper gate approves.
LEMMA GateApproves ==
  ASSUME NEW risk, Exists("decision"), Exists("signal"),
         files["signal"].profile = "paper", files["signal"].allow = {"LONG"},
         files["signal"].real, ~files["signal"].stale,
         Real(files["snapshot"]), ~files["snapshot"].stale, risk.problems = {}
  PROVE risk_gate_approved(_evaluate_pre_order_gate("paper", risk, FALSE))
<1> DEFINE gate == _evaluate_pre_order_gate("paper", risk, FALSE)
           soft == {"optional_missing", "not_eligible"}
           conds == profile_conditions("paper") \cup data_conditions
<1>1. profile_conditions("paper") = {}
  BY DEF profile_conditions
<1>2. data_conditions \subseteq soft
  BY DEF data_conditions
<1>3. gate = evaluate_pre_order_risk_gate("paper", {"hash_missing"}, conds, {"LONG"})
  BY DEF _evaluate_pre_order_gate
<1>4. conds \subseteq soft
  BY <1>1, <1>2
<1> HIDE DEF conds, gate
<1>5. blocks("paper", {"hash_missing"}, conds) = {}
  BY <1>4 DEF blocks, AlwaysChecked, candidate_mode
<1>6. conds \subseteq Condition
  BY <1>4 DEF Condition, CandidateChecked
<1>7. gate.approved
  BY <1>3, <1>5, <1>6, GateAnswers
<1> QED
  BY <1>7 DEF gate, risk_gate_approved

\* And the builder makes a candidate of a long signal all views allow.
LEMMA CandidateWhenAllowed ==
  ASSUME NEW health, NEW risk, health.allow, health.real, risk.problems = {},
         Exists("trading"), files["trading"].signal = "LONG",
         files["trading"].allow = {"LONG"},
         Exists("decision"), files["decision"].timing = "Early",
         files["decision"].allow = {"LONG"}, Exists("snapshot")
  PROVE final_decision(health, risk) = "CANDIDATE"
<1>1. Absent # {"LONG"}
  BY DEF Absent
<1>2. research_permission = {"LONG"}
  BY <1>1 DEF research_permission
<1> QED
  BY <1>2 DEF final_decision

\* A step of the cycle writes one file.
LEMMA CollectViews == IInv /\ CollectStep => CycleView'
<1> SUFFICES ASSUME IInv, CollectStep PROVE CycleView'
  OBVIOUS
<1>1. pc' = "snapshot" /\ collect_market_data
  BY DEF CollectStep, Step
<1>2. PICK v : Write("data", v) /\ v.market \in Market
  BY <1>1, ChainAssumption DEF collect_market_data, Input
<1>3. files'["data"] = v
  BY <1>2, WritesOne DEF IInv, FilesOK, File
<1> QED
  BY <1>1, <1>2, <1>3 DEF CycleView

\* The snapshot is the collection.
LEMMA SnapshotViews == IInv /\ CycleView /\ SnapshotStep => CycleView'
<1> SUFFICES ASSUME IInv, CycleView, SnapshotStep PROVE CycleView'
  OBVIOUS
<1>1. /\ pc = "snapshot" /\ pc' = "context" /\ build_market_snapshot
      /\ config' = config /\ verdict' = verdict /\ manual' = manual
  BY DEF SnapshotStep, Step
<1>2. files["data"] # NoFile /\ Write("snapshot", files["data"])
  BY <1>1 DEF build_market_snapshot, Exists
<1>3. files'["snapshot"] = files["data"] /\ files'["data"] = files["data"]
  BY <1>2, WritesOne DEF IInv, FilesOK, File
<1> QED
  BY <1>1, <1>2, <1>3 DEF CycleView

\* The context is the snapshot.
LEMMA ContextViews == IInv /\ CycleView /\ ContextStep => CycleView'
<1> SUFFICES ASSUME IInv, CycleView, ContextStep PROVE CycleView'
  OBVIOUS
<1>1. /\ pc = "context" /\ pc' = "research" /\ build_market_context
      /\ config' = config /\ verdict' = verdict /\ manual' = manual
  BY DEF ContextStep, Step
<1>2. Write("context", files["snapshot"])
  BY <1>1 DEF build_market_context
<1>3. /\ files'["context"] = files["snapshot"]
      /\ \A g \in {"data", "snapshot"} : files'[g] = files[g]
  BY <1>2, WritesOne DEF IInv, FilesOK, File
<1> QED
  BY <1>1, <1>3 DEF CycleView

\* The result classifies the collection.
LEMMA ResearchViews == IInv /\ CycleView /\ ResearchStep => CycleView'
<1> SUFFICES ASSUME IInv, CycleView, ResearchStep PROVE CycleView'
  OBVIOUS
<1>1. /\ pc = "research" /\ pc' = "signal" /\ run_research_cycle
      /\ config' = config /\ verdict' = verdict /\ manual' = manual
  BY DEF ResearchStep, Step
<1> DEFINE d == files["data"]
           v == [scenario |-> ScenarioOf(d), of |-> d.of, id |-> NoId, timing |-> TimingOf(d)]
<1>2. manual = 0 => Write("result", v)
  <2>1. manual = 0 => files["context"] = d
    BY <1>1 DEF CycleView
  <2> QED
    BY <1>1, <2>1 DEF run_research_cycle, ScoreOf, ScenarioOf, TimingOf
<1>3. ResultOf(v, d)
  BY DEF ResultOf, NoFile
<1> HIDE DEF v
<1>4. manual = 0 => /\ files'["result"] = v
                    /\ \A g \in {"data", "snapshot", "context"} : files'[g] = files[g]
  BY <1>2, WritesOne DEF IInv, FilesOK, File
<1> QED
  BY <1>1, <1>3, <1>4 DEF CycleView

\* The signal is what the result permits on the snapshot.
LEMMA SignalViews == IInv /\ CycleView /\ SignalStep => CycleView'
<1> SUFFICES ASSUME IInv, CycleView, SignalStep PROVE CycleView'
  OBVIOUS
<1>1. /\ pc = "signal" /\ pc' = "qa" /\ build_active_research_signal
      /\ config' = config /\ verdict' = verdict /\ manual' = manual
  BY DEF SignalStep, Step
<1> DEFINE d == files["data"]
<1>2. PICK v : /\ Write("signal", v) /\ "id" \in DOMAIN v
               /\ v.stale = files["snapshot"].stale /\ v.real = Real(files["snapshot"])
               /\ v.profile = _resolve_signal_profile
               /\ v.allow = _trade_permission(files["snapshot"], files["result"])
  BY <1>1, SignalWrites
<1>3. v # NoFile
  BY <1>2 DEF NoFile
<1>4. manual = 0 => SignalOf(v, d, _resolve_signal_profile)
  <2>1. manual = 0 => files["snapshot"] = d /\ ResultOf(files["result"], d)
    BY <1>1 DEF CycleView
  <2>2. manual = 0 => v.allow = PermittedOf(d)
    BY <1>2, <2>1 DEF _trade_permission, ResultOf, PermittedOf
  <2> QED
    BY <1>2, <1>3, <2>1, <2>2 DEF SignalOf
<1>5. /\ files'["signal"] = v
      /\ \A g \in {"data", "snapshot", "context", "result"} : files'[g] = files[g]
  BY <1>2, WritesOne DEF IInv, FilesOK, File
<1>6. _resolve_signal_profile' = _resolve_signal_profile
  BY <1>1 DEF _resolve_signal_profile
<1> QED
  BY <1>1, <1>4, <1>5, <1>6 DEF CycleView

\* The QA passes sound data, whatever the settings.
LEMMA QAViews == IInv /\ CycleView /\ QAStep => CycleView'
<1> SUFFICES ASSUME IInv, CycleView, QAStep PROVE CycleView'
  OBVIOUS
<1>1. /\ pc = "qa" /\ pc' = "stamp" /\ validate_research_signal_quality
      /\ config' = config /\ verdict' = verdict /\ manual' = manual
  BY DEF QAStep, Step
<1> DEFINE d == files["data"]
           s == files["signal"]
<1>2. PICK v : /\ Write("qa", v) /\ v # NoFile /\ v.id = s.id
               /\ ~s.stale /\ s.real => v.result \in QA_PASS
  <2> DEFINE poor == s.stale \/ ~s.real
             result == CASE poor /\ config.qa_gate -> "BLOCK"
                         [] poor /\ ~config.qa_gate -> "PASS_REVIEW_ONLY"
                         [] OTHER -> IF live_candidate_eligible(s) THEN "PASS_PAPER_ONLY"
                                                                   ELSE "PASS_REVIEW_ONLY"
             v == [id |-> s.id, result |-> result, of |-> s.of]
  <2>1. Write("qa", v)
    BY <1>1 DEF validate_research_signal_quality
  <2>2. ~poor => result \in QA_PASS
    BY DEF QA_PASS
  <2>3. v # NoFile /\ v.id = s.id /\ v.result = result
    BY DEF NoFile
  <2>4. ~s.stale /\ s.real => ~poor
    OBVIOUS
  <2> HIDE DEF poor, result, v
  <2> QED
    BY <2>1, <2>2, <2>3, <2>4
<1>3. manual = 0 => QAOf(v, s, d)
  <2>1. manual = 0 => SignalOf(s, d, _resolve_signal_profile)
    BY <1>1 DEF CycleView
  <2> QED
    BY <1>2, <2>1 DEF SignalOf, QAOf, Sound
<1>4. /\ files'["qa"] = v
      /\ \A g \in {"data", "snapshot", "context", "result", "signal"} : files'[g] = files[g]
  BY <1>2, WritesOne DEF IInv, FilesOK, File
<1>5. _resolve_signal_profile' = _resolve_signal_profile
  BY <1>1 DEF _resolve_signal_profile
<1> QED
  BY <1>1, <1>3, <1>4, <1>5 DEF CycleView

\* The stamp changes nothing but the id.
LEMMA StampViews == IInv /\ CycleView /\ StampStep => CycleView'
<1> SUFFICES ASSUME IInv, CycleView, StampStep PROVE CycleView'
  OBVIOUS
<1>1. /\ pc = "stamp" /\ pc' = "decision" /\ stamp_research_result
      /\ config' = config /\ verdict' = verdict /\ manual' = manual
  BY DEF StampStep, Step
<1> DEFINE d == files["data"]
           v == [files["result"] EXCEPT !.id = files["signal"].id]
<1>2. Write("result", v)
  BY <1>1 DEF stamp_research_result
<1>3. /\ v.id = files["signal"].id /\ v # NoFile
      /\ v.scenario = files["result"].scenario /\ v.timing = files["result"].timing
  <2>1. DOMAIN files["result"] = {"scenario", "of", "id", "timing"}
    BY <1>1 DEF IInv, StampOrder, FilesOK
  <2> QED
    BY <2>1 DEF NoFile
<1> HIDE DEF v
<1>4. manual = 0 => ResultOf(v, d)
  BY <1>1, <1>3 DEF CycleView, ResultOf
<1>5. /\ files'["result"] = v
      /\ \A g \in {"data", "snapshot", "context", "signal", "qa"} : files'[g] = files[g]
  BY <1>2, WritesOne DEF IInv, FilesOK, File
<1>6. _resolve_signal_profile' = _resolve_signal_profile
  BY <1>1 DEF _resolve_signal_profile
<1> QED
  BY <1>1, <1>3, <1>4, <1>5, <1>6 DEF CycleView

\* On sound data the decision takes over what the signal permits.
LEMMA DecisionViews == IInv /\ CycleView /\ DecisionStep => CycleView'
<1> SUFFICES ASSUME IInv, CycleView, DecisionStep PROVE CycleView'
  OBVIOUS
<1>1. /\ pc = "decision" /\ pc' = "health" /\ run_research_decision
      /\ config' = config /\ verdict' = verdict /\ manual' = manual
  BY DEF DecisionStep, Step
<1> DEFINE d == files["data"]
           s == files["signal"]
<1>2. PICK v : /\ Write("decision", v) /\ v # NoFile
               /\ v.allow = IF signal_permission_authoritative THEN s.allow ELSE {}
               /\ Exists("result") => v.timing = files["result"].timing
  <2> DEFINE res == IF Exists("result") THEN files["result"] ELSE s
             dirs == directional_permission(res.scenario, res.timing)
             allow == IF signal_permission_authoritative THEN s.allow ELSE {}
             side == IF "LONG" \in dirs THEN "LONG" ELSE IF "SHORT" \in dirs THEN "SHORT"
                     ELSE "NONE"
             v == [allow |-> allow, side |-> side,
                   authoritative |-> signal_permission_authoritative, timing |-> res.timing,
                   of |-> res.of, signal_of |-> s.of, qa_of |-> files["qa"].of]
  <2>1. Write("decision", v)
    BY <1>1 DEF run_research_decision
  <2>2. v # NoFile /\ v.allow = allow /\ v.timing = res.timing
    BY DEF NoFile
  <2> HIDE DEF v
  <2> QED
    BY <2>1, <2>2
<1>3. manual = 0 => DecisionOf(v, d)
  <2> SUFFICES ASSUME manual = 0 PROVE DecisionOf(v, d)
    OBVIOUS
  <2>1. /\ ResultOf(files["result"], d) /\ SignalOf(s, d, _resolve_signal_profile)
        /\ QAOf(files["qa"], s, d) /\ files["result"].id = s.id
    BY <1>1 DEF CycleView
  <2>2. v.timing = TimingOf(d) /\ v.allow \subseteq PermittedOf(d)
    BY <1>2, <2>1 DEF ResultOf, SignalOf, Exists
  <2>3. ASSUME Sound(d) PROVE signal_permission_authoritative
    <3>1. /\ Exists("signal") /\ Exists("qa") /\ files["qa"].id = s.id
          /\ files["qa"].result \in QA_PASS
      BY <2>1, <2>3 DEF SignalOf, QAOf, Exists
    <3>2. files["qa"].result # "BLOCK"
      BY <3>1 DEF QA_PASS
    <3> QED
      BY <2>1, <3>1, <3>2 DEF signal_permission_authoritative, signal_qa_blocks_decision, qa_passes
  <2>4. Sound(d) => v.allow = PermittedOf(d)
    BY <1>2, <2>1, <2>3 DEF SignalOf
  <2> QED
    BY <1>2, <2>2, <2>4 DEF DecisionOf
<1>4. /\ files'["decision"] = v
      /\ \A g \in {"data", "snapshot", "context", "result", "signal", "qa"} : files'[g] = files[g]
  BY <1>2, WritesOne DEF IInv, FilesOK, File
<1>5. _resolve_signal_profile' = _resolve_signal_profile
  BY <1>1 DEF _resolve_signal_profile
<1> QED
  BY <1>1, <1>3, <1>4, <1>5 DEF CycleView

\* The health report speaks of the same collection.
LEMMA HealthViews == IInv /\ CycleView /\ HealthStep => CycleView'
<1> SUFFICES ASSUME IInv, CycleView, HealthStep PROVE CycleView'
  OBVIOUS
<1>1. /\ pc = "health" /\ pc' = "risk" /\ run_data_health_check
      /\ config' = config /\ verdict' = verdict /\ manual' = manual
  BY DEF HealthStep, Step
<1> DEFINE d == files["data"]
<1>2. PICK v : Write("health", v) /\ v.real = (Exists("data") /\ Real(d))
  BY <1>1 DEF run_data_health_check
<1>3. manual = 0 => v.real = Real(d)
  <2>1. manual = 0 => Exists("data")
    BY <1>1 DEF CycleView, Exists
  <2>2. Exists("data") => (Exists("data") /\ Real(d)) = Real(d)
    BY DEF Real
  <2> QED
    BY <1>2, <2>1, <2>2
<1>4. /\ files'["health"] = v
      /\ \A g \in {"data", "snapshot", "context", "result", "signal", "qa", "decision"} :
           files'[g] = files[g]
  BY <1>2, WritesOne DEF IInv, FilesOK, File
<1>5. _resolve_signal_profile' = _resolve_signal_profile
  BY <1>1 DEF _resolve_signal_profile
<1> QED
  BY <1>1, <1>3, <1>4, <1>5 DEF CycleView

\* The verdict holds that report.
LEMMA RiskViews == IInv /\ CycleView /\ RiskStep => CycleView'
<1> SUFFICES ASSUME IInv, CycleView, RiskStep PROVE CycleView'
  OBVIOUS
<1>1. /\ pc = "risk" /\ pc' = "trading" /\ run_risk_guard
      /\ config' = config /\ verdict'.health = files["health"] /\ manual' = manual
  BY DEF RiskStep
<1>2. PICK v : Write("risk", v)
  BY <1>1 DEF run_risk_guard
<1>3. \A g \in {"data", "snapshot", "context", "result", "signal", "qa", "decision", "health"} :
        files'[g] = files[g]
  BY <1>2, WritesOne DEF IInv, FilesOK, File
<1>4. _resolve_signal_profile' = _resolve_signal_profile
  BY <1>1 DEF _resolve_signal_profile
<1>5. manual = 0 => verdict'.health.real = Real(files["data"])
  BY <1>1 DEF CycleView
<1> QED
  BY <1>1, <1>3, <1>4, <1>5 DEF CycleView

\* With the research gate on, the trading signal is the active one.
LEMMA TradingViews == IInv /\ CycleView /\ TradingStep => CycleView'
<1> SUFFICES ASSUME IInv, CycleView, TradingStep PROVE CycleView'
  OBVIOUS
<1>1. /\ pc = "trading" /\ pc' = "bridge" /\ run_trading_cycle
      /\ config' = config /\ verdict' = verdict /\ manual' = manual
  BY DEF TradingStep, Step
<1> DEFINE d == files["data"]
<1>2. PICK v : /\ Write("trading", v) /\ v # NoFile
               /\ v.signal = generate_trading_signal.signal
               /\ v.allow = generate_trading_signal.allow
  <2> DEFINE v == [signal |-> generate_trading_signal.signal,
                   allow |-> generate_trading_signal.allow, of |-> files["snapshot"].of]
  <2>1. Write("trading", v)
    BY <1>1 DEF run_trading_cycle
  <2>2. /\ v # NoFile /\ v.signal = generate_trading_signal.signal
        /\ v.allow = generate_trading_signal.allow
    BY DEF NoFile
  <2> HIDE DEF v
  <2> QED
    BY <2>1, <2>2
<1>3. ASSUME manual = 0, config.research_gate, Sound(d) PROVE TradingOf(v, d)
  <2>1. /\ SignalOf(files["signal"], d, _resolve_signal_profile)
        /\ QAOf(files["qa"], files["signal"], d)
    BY <1>1, <1>3 DEF CycleView
  <2>2. qa_passes /\ ~files["signal"].stale
    BY <1>3, <2>1 DEF SignalOf, QAOf, Exists, Sound, qa_passes
  <2>3. generate_trading_signal = signal_payload_from_research_signal(files["signal"])
    BY <1>3, <2>2 DEF generate_trading_signal
  <2>4. /\ generate_trading_signal.allow = files["signal"].allow
        /\ "LONG" \in files["signal"].allow => generate_trading_signal.signal = "LONG"
    BY <2>3 DEF signal_payload_from_research_signal
  <2> QED
    BY <1>2, <2>1, <2>4 DEF TradingOf, SignalOf
<1>4. /\ files'["trading"] = v
      /\ \A g \in {"data", "snapshot", "context", "result", "signal", "qa", "decision", "health"} :
           files'[g] = files[g]
  BY <1>2, WritesOne DEF IInv, FilesOK, File
<1>5. _resolve_signal_profile' = _resolve_signal_profile
  BY <1>1 DEF _resolve_signal_profile
<1> QED
  BY <1>1, <1>3, <1>4, <1>5 DEF CycleView

\* The bridge only adds the trade.
LEMMA BridgeViews == IInv /\ CycleView /\ BridgeStep => CycleView'
<1> SUFFICES ASSUME IInv, CycleView, BridgeStep PROVE CycleView'
  OBVIOUS
<1>1. /\ pc = "bridge" /\ pc' = "done"
      /\ run_research_trading_bridge(config.stage, verdict, "pipeline")
      /\ config' = config /\ verdict' = verdict /\ manual' = manual
  BY DEF BridgeStep, Step
<1>2. \E v : Write("trade", v)
  BY <1>1, BridgeWrites
<1>3. \A g \in {"data", "snapshot", "context", "result", "signal", "qa", "decision",
             "health", "trading"} :
        files'[g] = files[g]
  BY <1>2, WritesOne DEF IInv, FilesOK, File
<1>4. _resolve_signal_profile' = _resolve_signal_profile
  BY <1>1 DEF _resolve_signal_profile
<1> QED
  BY <1>1, <1>3, <1>4 DEF CycleView

\* What the bridge decides on such files.
LEMMA BridgeDecides == IInv /\ CycleView /\ BridgeStep => ChainDecides'
<1> SUFFICES ASSUME IInv, CycleView, BridgeStep PROVE ChainDecides'
  OBVIOUS
<1>1. /\ pc = "bridge" /\ config' = config /\ manual' = manual
      /\ run_research_trading_bridge(config.stage, verdict, "pipeline")
  BY DEF BridgeStep, Step
<1>2. PICK open \in BOOLEAN : \E t :
        /\ Write("trade", t) /\ t.stage = config.stage
        /\ t.clear <=> /\ Exists("snapshot") /\ verdict.health.allow
                       /\ Clear(files["snapshot"], verdict.risk, open)
        /\ t.intent <=> /\ final_decision(verdict.health, verdict.risk) = "CANDIDATE"
                        /\ risk_gate_approved(
                             _evaluate_pre_order_gate(config.stage, verdict.risk, open))
  BY <1>1, BridgeWrites
<1>3. PICK t :
        /\ Write("trade", t) /\ t.stage = config.stage
        /\ t.clear <=> /\ Exists("snapshot") /\ verdict.health.allow
                       /\ Clear(files["snapshot"], verdict.risk, open)
        /\ t.intent <=> /\ final_decision(verdict.health, verdict.risk) = "CANDIDATE"
                        /\ risk_gate_approved(
                             _evaluate_pre_order_gate(config.stage, verdict.risk, open))
  BY <1>2
<1>4. files'["trade"] = t
  BY <1>3, WritesOne DEF IInv, FilesOK, File
<1> DEFINE d == files["data"]
           long == LongScore(final_score(d.market, TRUE))
<1>5. ASSUME manual = 0
      PROVE /\ d.market \in Market /\ files["snapshot"] = d /\ d # NoFile
            /\ SignalOf(files["signal"], d, _resolve_signal_profile)
            /\ DecisionOf(files["decision"], d) /\ verdict.health.real = Real(d)
            /\ config.research_gate /\ Sound(d) => TradingOf(files["trading"], d)
  BY <1>1, <1>5 DEF CycleView
<1>6. ASSUME manual = 0
      PROVE t.clear <=> /\ verdict.health.allow /\ Sound(d) /\ verdict.risk.problems = {}
                        /\ ~open /\ long
  <2>1. Exists("snapshot")
    BY <1>5, <1>6 DEF Exists
  <2>2. Clear(d, verdict.risk, open)
          <=> Sound(d) /\ verdict.risk.problems = {} /\ ~open /\ long
    BY DEF Clear, Sound, LongScore
  <2> HIDE DEF long
  <2> QED
    BY <1>3, <1>5, <1>6, <2>1, <2>2
<1>7. ASSUME manual = 0, t.intent PROVE t.clear
  <2>1. /\ verdict.health.allow /\ verdict.risk.problems = {}
        /\ files["trading"].signal \in files["decision"].allow
    BY <1>3, <1>7, CandidateIsClear, CandidateIsAllowed
  <2>2. ~open /\ Sound(d)
    BY <1>3, <1>5, <1>7, BridgeGate DEF Exists, Sound
  <2>3. PermittedOf(d) # {}
    BY <1>5, <1>7, <2>1 DEF DecisionOf
  <2>4. long
    BY <1>5, <1>7, <2>2, <2>3, ResearchPermits DEF Sound
  <2> QED
    BY <1>6, <1>7, <2>1, <2>2, <2>4
<1>8. ASSUME manual = 0, t.clear, config.research_gate, config.stage = "paper" PROVE t.intent
  <2>1. /\ verdict.health.allow /\ Sound(d) /\ Real(d) /\ ~d.stale
        /\ verdict.risk.problems = {} /\ ~open /\ long
    BY <1>6, <1>8 DEF Sound
  <2>2. PermittedOf(d) = {"LONG"} /\ TimingOf(d) = "Early"
    BY <1>5, <1>8, <2>1, ResearchPermits
  <2>3. /\ Exists("signal") /\ files["signal"].allow = {"LONG"} /\ files["signal"].real
        /\ ~files["signal"].stale /\ files["signal"].profile = "paper"
    <3>1. _resolve_signal_profile = "paper"
      BY <1>8 DEF _resolve_signal_profile
    <3> QED
      BY <1>5, <1>8, <2>1, <2>2, <3>1 DEF SignalOf, Exists
  <2>4. /\ Exists("decision") /\ files["decision"].allow = {"LONG"}
        /\ files["decision"].timing = "Early"
    BY <1>5, <1>8, <2>1, <2>2 DEF DecisionOf, Exists
  <2>5. /\ Exists("trading") /\ files["trading"].allow = {"LONG"}
        /\ files["trading"].signal = "LONG"
    BY <1>5, <1>8, <2>1, <2>2 DEF TradingOf, Exists
  <2>6. final_decision(verdict.health, verdict.risk) = "CANDIDATE"
    BY <1>5, <1>8, <2>1, <2>4, <2>5, CandidateWhenAllowed DEF Exists
  <2>7. risk_gate_approved(_evaluate_pre_order_gate("paper", verdict.risk, FALSE))
    BY <1>5, <1>8, <2>1, <2>3, <2>4, GateApproves
  <2>8. open = FALSE
    BY <2>1
  <2> QED
    BY <1>3, <1>8, <2>6, <2>7, <2>8
<1> QED
  BY <1>1, <1>3, <1>4, <1>7, <1>8 DEF ChainDecides, Trade

\* DecidesInv, relative to IInv: what a cycle has written is a function of its
\* collection, and the bridge decides on that.
THEOREM DecidesInvariance == Spec => []DecidesInv
<1>1. Init => DecidesInv
  BY DEF Init, DecidesInv, CycleView, ChainDecides
<1>2. IInv /\ DecidesInv /\ [Next]_vars => DecidesInv'
  <2> SUFFICES ASSUME IInv, DecidesInv, [Next]_vars PROVE DecidesInv'
    OBVIOUS
  <2>1. CycleView
    BY DEF DecidesInv
  <2>2. ASSUME CycleView', pc' # "done" \/ manual' # 0 PROVE DecidesInv'
    BY <2>2 DEF DecidesInv, ChainDecides
  <2>3. CASE CollectStep
    BY <2>2, <2>3, CollectViews DEF CollectStep, Step
  <2>4. CASE SnapshotStep
    BY <2>1, <2>2, <2>4, SnapshotViews DEF SnapshotStep, Step
  <2>5. CASE ContextStep
    BY <2>1, <2>2, <2>5, ContextViews DEF ContextStep, Step
  <2>6. CASE ResearchStep
    BY <2>1, <2>2, <2>6, ResearchViews DEF ResearchStep, Step
  <2>7. CASE SignalStep
    BY <2>1, <2>2, <2>7, SignalViews DEF SignalStep, Step
  <2>8. CASE QAStep
    BY <2>1, <2>2, <2>8, QAViews DEF QAStep, Step
  <2>9. CASE StampStep
    BY <2>1, <2>2, <2>9, StampViews DEF StampStep, Step
  <2>10. CASE DecisionStep
    BY <2>1, <2>2, <2>10, DecisionViews DEF DecisionStep, Step
  <2>11. CASE HealthStep
    BY <2>1, <2>2, <2>11, HealthViews DEF HealthStep, Step
  <2>12. CASE TradingStep
    BY <2>1, <2>2, <2>12, TradingViews DEF TradingStep, Step
  <2>13. CASE RiskStep
    BY <2>1, <2>2, <2>13, RiskViews DEF RiskStep
  <2>14. CASE BridgeStep
    BY <2>1, <2>14, BridgeViews, BridgeDecides DEF DecidesInv
  <2>15. CASE Operator
    <3>1. manual' # 0
      BY <2>15 DEF Operator, IInv, CountersOK
    <3> QED
      BY <3>1 DEF DecidesInv, CycleView, ChainDecides
  <2>16. CASE EndCycle \/ Reconfigure
    <3>1. pc' = "idle"
      BY <2>16 DEF EndCycle, Reconfigure
    <3> QED
      BY <3>1 DEF DecidesInv, CycleView, ChainDecides
  <2>17. CASE UNCHANGED vars
    BY <2>17 DEF vars, DecidesInv, CycleView, ChainDecides, Trade, _resolve_signal_profile
  <2> QED
    BY <2>3, <2>4, <2>5, <2>6, <2>7, <2>8, <2>9, <2>10, <2>11,
       <2>12, <2>13, <2>14, <2>15, <2>16, <2>17 DEF Next
<1> QED
  BY <1>1, <1>2, ChainInvariance, PTL DEF Spec

\* ChainDecides: on paper, with the research gate on, a cycle nobody interferes
\* with ends in an intent exactly when its data is real and sound, its score is
\* constructive, no risk limit is breached and no position is open; with the
\* gate off it only ever refuses more.
THEOREM ChainIsOneLine == Spec => []ChainDecides
<1>1. DecidesInv => ChainDecides
  BY DEF DecidesInv
<1> QED
  BY <1>1, DecidesInvariance, PTL

=============================================================================
