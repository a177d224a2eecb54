---------------------------- MODULE DecisionChain ----------------------------
(***************************************************************************)
(* From market data to an order intent: the chain of latest_*.json files   *)
(* that the data, research, validation and trading stages hand on.         *)
(*                                                                         *)
(* Every step reads files and writes one.  A cycle runs the steps in       *)
(* order; it may raise, or the process may die, between any two of them,   *)
(* and the files stay as they are.  Each module also has a main of its     *)
(* own, which the operator may run at any time, outside the run lock, and  *)
(* which then interleaves with the cycle.                                  *)
(*                                                                         *)
(* "of" is the number of the collection a file goes back to.  It is        *)
(* history: no step of the code reads it.                                  *)
(***************************************************************************)
EXTENDS ResearchView, RiskGatePolicy

CONSTANTS
  Inputs,          \* what a collection may bring
  Configs,         \* the settings the process may run with
  Risks,           \* the sets of problems run_risk_guard may report
  MaxManual,       \* bound: how often the operator runs a module's main
  MaxCollections   \* bound: how often market data is collected

\* A collection: what its candles say, where they come from, whether optional
\* metrics are missing, whether the candles are malformed, and their age.
Input == [market : Market, source : {"real", "synthetic"},
          optional : {"available", "missing"}, broken : BOOLEAN, stale : BOOLEAN]

\* execution stage; USE_RESEARCH_SIGNAL_GATE; trading.use_research_signal_gate;
\* BLOCK_SYNTHETIC_DATA_FOR_TRADING together with its FALLBACK twin.
Config == [stage : {"paper", "signed_testnet", "live"}, research_gate : BOOLEAN,
           qa_gate : BOOLEAN, block_synthetic : BOOLEAN]

RiskProblem == {"daily", "weekly", "consecutive", "drawdown", "unreadable"}

ASSUME ChainAssumption ==
  /\ Inputs \subseteq Input /\ Configs \subseteq Config
  /\ Risks \subseteq SUBSET RiskProblem
  /\ MaxManual \in Nat /\ MaxCollections \in Nat \ {0}

VARIABLES
  config,   \* settings, read when the process starts
  files,    \* the latest file of each step
  pc,       \* the next step of the cycle
  verdict,  \* ctx.verdict, set by the validation stage
  count,    \* collections so far
  manual    \* mains the operator has run so far

vars == <<config, files, pc, verdict, count, manual>>

File == {"data", "snapshot", "context", "result", "signal", "qa", "decision",
         "health", "risk", "trading", "trade"}
NoFile == [of |-> 0]
Exists(f) == files[f] # NoFile
Write(f, v) == files' = [files EXCEPT ![f] = v]

Real(d) == d.source = "real"

Init ==
  /\ config \in Configs
  /\ files = [f \in File |-> NoFile]
  /\ pc = "idle" /\ verdict = NoFile /\ count = 0 /\ manual = 0

-----------------------------------------------------------------------------
(***************************************************************************)
(* Data stage.                                                             *)
(***************************************************************************)
\* The venue answers with the candle of the last collection or a later one;
\* closed candles do not change, and their age only grows.
Answers(d, candle) ==
  LET last == files["data"]
  IN  Exists("data") =>
        \/ candle > last.candle
        \/ /\ last.stale => d.stale
           /\ d.source = last.source =>
                \A k \in {"trend", "change", "volume"} : d.market[k] = last.market[k]

LastCandle == IF Exists("data") THEN files["data"].candle ELSE 0

collect_market_data ==
  \E d \in Inputs, candle \in {LastCandle, LastCandle + 1} \ {0} :
    /\ count < MaxCollections /\ Answers(d, candle)
    /\ count' = count + 1
    /\ Write("data", [market |-> d.market, source |-> d.source, optional |-> d.optional,
                      broken |-> d.broken, stale |-> d.stale, candle |-> candle,
                      of |-> count + 1])

build_market_snapshot ==
  /\ Exists("data")
  /\ Write("snapshot", files["data"]) /\ UNCHANGED count

build_market_context ==
  /\ Exists("snapshot")
  /\ Write("context", files["snapshot"]) /\ UNCHANGED count

-----------------------------------------------------------------------------
(***************************************************************************)
(* Research stage.  A fresh result carries no signal id: the stamp, the    *)
(* last write of run_active_research_signal, adds it.                      *)
(***************************************************************************)
NoId == <<>>

run_research_cycle ==
  LET c == files["context"]
      score == final_score(c.market, Real(c))
      scenario == classify_scenario(score)
  IN  /\ Exists("context")
      /\ Write("result", [scenario |-> scenario, of |-> c.of, id |-> NoId,
                          timing |-> classify_timing(score, scenario, Real(c))])
      /\ UNCHANGED count

\* The operator-approved live profile, or the paper profile.
_resolve_signal_profile == IF config.stage = "live" THEN "live" ELSE "paper"

_trade_permission(snap, res) ==
  IF Real(snap) THEN directional_permission(res.scenario, res.timing) ELSE {}

\* The id is made of the candle, the features, the side and the profile, and
\* not of the freshness or the optional data.
signal_id(snap, allow) ==
  <<snap.candle, snap.market, snap.source, allow, _resolve_signal_profile>>

build_active_research_signal ==
  LET snap == files["snapshot"]
      res == files["result"]
      allow == _trade_permission(snap, res)
  IN  /\ Exists("snapshot") /\ Exists("result")
      /\ Write("signal", [id |-> signal_id(snap, allow), allow |-> allow,
                          profile |-> _resolve_signal_profile, stale |-> snap.stale,
                          real |-> Real(snap), missing |-> snap.optional = "missing",
                          scenario |-> res.scenario, timing |-> res.timing, of |-> snap.of])
      /\ UNCHANGED count

\* A synthetic payload has no health map: nothing is missing, nothing eligible.
missing_neutral(s) == s.real /\ s.missing
live_candidate_eligible(s) == s.real /\ ~s.missing

QA_PASS == {"PASS_REVIEW_ONLY", "PASS_PAPER_ONLY"}

validate_research_signal_quality ==
  LET s == files["signal"]
      result == CASE (s.stale \/ ~s.real) /\ config.qa_gate -> "BLOCK"
                  [] (s.stale \/ ~s.real) /\ ~config.qa_gate -> "PASS_REVIEW_ONLY"
                  [] OTHER -> IF live_candidate_eligible(s) THEN "PASS_PAPER_ONLY"
                                                            ELSE "PASS_REVIEW_ONLY"
  IN  /\ Write("qa", [id |-> s.id, result |-> result, of |-> s.of]) /\ UNCHANGED count

stamp_research_result ==
  /\ Write("result", [files["result"] EXCEPT !.id = files["signal"].id]) /\ UNCHANGED count

\* Mutant: only the stronger pass counts.
qa_passes_PaperOnly ==
  /\ Exists("signal") /\ Exists("qa") /\ files["qa"].id = files["signal"].id
  /\ files["qa"].result = "PASS_PAPER_ONLY"

\* The QA report is the one of this signal, and passes.
qa_passes ==
  /\ Exists("signal") /\ Exists("qa") /\ files["qa"].id = files["signal"].id
  /\ files["qa"].result \in QA_PASS

signal_qa_blocks_decision ==
  /\ Exists("signal") /\ Exists("qa") /\ files["qa"].id = files["signal"].id
  /\ files["qa"].result = "BLOCK"

signal_permission_authoritative ==
  /\ Exists("signal")
  /\ ~signal_qa_blocks_decision
  /\ config.research_gate => qa_passes
  /\ Exists("result") => files["result"].id = files["signal"].id

run_research_decision ==
  LET res == IF Exists("result") THEN files["result"] ELSE files["signal"]
      dirs == directional_permission(res.scenario, res.timing)
      sig == files["signal"]
  IN  /\ Exists("result") \/ Exists("signal")
      /\ Write("decision",
               [allow |-> IF signal_permission_authoritative THEN sig.allow ELSE {},
                side |-> IF "LONG" \in dirs THEN "LONG" ELSE IF "SHORT" \in dirs THEN "SHORT"
                         ELSE "NONE",
                authoritative |-> signal_permission_authoritative,
                timing |-> res.timing, of |-> res.of,
                signal_of |-> sig.of, qa_of |-> files["qa"].of])
      /\ UNCHANGED count

-----------------------------------------------------------------------------
(***************************************************************************)
(* Validation stage.  The candles may have grown stale since the snapshot. *)
(***************************************************************************)
run_data_health_check ==
  \E late \in BOOLEAN :
    LET d == files["data"]
        blocked == \/ ~Exists("data") \/ ~Exists("snapshot")
                   \/ d.broken \/ d.stale \/ late
                   \/ ~Real(d) /\ config.block_synthetic
    IN  /\ Write("health", [allow |-> ~blocked, real |-> Exists("data") /\ Real(d), of |-> d.of])
        /\ UNCHANGED count

run_risk_guard ==
  \E problems \in Risks :
    /\ Write("risk", [problems |-> problems, of |-> files["data"].of])
    /\ UNCHANGED count

-----------------------------------------------------------------------------
(***************************************************************************)
(* Trading stage.                                                          *)
(***************************************************************************)
\* A payload without allow_long and allow_short of its own.
Absent == {"absent"}

_legacy_signal_from_research ==
  LET snap == files["snapshot"]
      res == files["result"]
      long == /\ snap.market.trend = "bullish" /\ res.scenario \in LONG_SCENARIOS
              /\ res.timing \in {"Early", "Confirmed"}
      short == snap.market.trend = "bearish" /\ res.scenario = "Bearish"
  IN  [signal |-> CASE ~Real(snap) \/ ~Exists("result") -> "NONE"
                    [] Real(snap) /\ Exists("result") /\ long -> "LONG"
                    [] Real(snap) /\ Exists("result") /\ ~long /\ short -> "SHORT"
                    [] OTHER -> "NONE",
       allow |-> Absent]

\* evaluate_trade_permission of an active signal: its side, if it has one.
signal_payload_from_research_signal(s) ==
  [signal |-> IF "LONG" \in s.allow THEN "LONG" ELSE IF "SHORT" \in s.allow THEN "SHORT"
              ELSE "NONE",
   allow |-> s.allow]

generate_trading_signal ==
  IF ~config.research_gate THEN _legacy_signal_from_research
  ELSE IF qa_passes /\ ~files["signal"].stale
       THEN signal_payload_from_research_signal(files["signal"])
       ELSE [signal |-> "NONE", allow |-> {}]

run_trading_cycle ==
  /\ Exists("snapshot")
  /\ Write("trading", [signal |-> generate_trading_signal.signal,
                       allow |-> generate_trading_signal.allow,
                       of |-> files["snapshot"].of])
  /\ UNCHANGED count

\* The paper profile is approved for the paper stage; others get none.
profile_conditions(st) ==
  IF st # "paper" THEN {"unapproved"}
  ELSE IF Exists("signal") /\ files["signal"].profile # "paper" THEN {"hash_mismatch"} ELSE {}

\* Mutant: the signal's flags are trusted, the snapshot's are not read.
data_conditions_SignalOnly ==
  IF ~Exists("signal") THEN {}
  ELSE (IF files["signal"].stale THEN {"stale"} ELSE {})
         \cup (IF files["signal"].real THEN {} ELSE {"synthetic", "fallback"})
         \cup (IF files["signal"].allow = {} THEN {"risk_blocked"} ELSE {})

\* Conditions on the two views of the data the gate is given.
data_conditions ==
  LET snap == files["snapshot"]
      sig == files["signal"]
  IN  {c \in {"stale", "synthetic", "fallback", "optional_missing", "not_eligible",
              "risk_blocked"} :
        \/ c = "stale" /\ ((Exists("snapshot") /\ snap.stale) \/ (Exists("signal") /\ sig.stale))
        \/ c \in {"synthetic", "fallback"}
             /\ ((Exists("snapshot") /\ ~Real(snap)) \/ (Exists("signal") /\ ~sig.real))
        \/ c = "optional_missing" /\ Exists("signal") /\ missing_neutral(sig)
        \/ c = "not_eligible" /\ Exists("signal") /\ ~live_candidate_eligible(sig)
        \/ c = "risk_blocked" /\ Exists("signal") /\ sig.allow = {}}

_evaluate_pre_order_gate(st, risk, open) ==
  LET conds ==
        (IF Exists("decision") THEN {} ELSE {"decision_id"})
          \cup (IF Exists("signal") THEN {} ELSE {"research_signal_id"})
          \cup (IF st # "paper" /\ ~Exists("signal") THEN {"profile_id"} ELSE {})
          \cup profile_conditions(st) \cup data_conditions
          \cup (IF open THEN {"position_limit"} ELSE {})
          \cup (IF "daily" \in risk.problems THEN {"daily_loss"} ELSE {})
          \cup (IF "consecutive" \in risk.problems THEN {"consecutive_losses"} ELSE {})
          \cup (IF st = "live" THEN {"stage_disabled"} ELSE {})
      sides == IF Exists("signal") THEN files["signal"].allow
               ELSE IF Exists("decision") /\ files["decision"].side # "NONE"
                    THEN {files["decision"].side} ELSE {}
  IN  evaluate_pre_order_risk_gate(st, {"hash_missing"}, conds, sides)

\* The sides build_research_permission_decision allows: the payload's, else
\* the signal's, else the decision's.
research_permission ==
  IF files["trading"].allow # Absent THEN files["trading"].allow
  ELSE IF Exists("signal") THEN files["signal"].allow ELSE files["decision"].allow

\* build_trading_decision: the first block that applies, or a candidate.
final_decision(health, risk) ==
  LET dir == files["trading"].signal
  IN  CASE ~health.allow -> "BLOCK_DATA_HEALTH"
        [] health.allow /\ ~health.real -> "BLOCK_SYNTHETIC_DATA"
        [] health.allow /\ health.real /\ risk.problems # {} -> "BLOCK_RISK"
        [] OTHER ->
             IF ~Exists("trading") \/ dir = "NONE" THEN "NO_SIGNAL"
             ELSE IF Exists("decision") /\ files["decision"].timing \in {"Late", "Data-Blocked"}
             THEN "BLOCK_LATE_OR_DATA_BLOCKED"
             ELSE IF ~Exists("decision") \/ dir \notin files["decision"].allow
                       \/ dir \notin research_permission
             THEN "BLOCK_CONFLICTING_SIGNAL"
             ELSE IF ~Exists("snapshot") THEN "BLOCK_PRICE_STRUCTURE_INCOMPLETE"
             ELSE "CANDIDATE"

\* When the research path should trade, in one line.
Clear(d, risk, open) ==
  /\ Real(d) /\ ~d.stale /\ risk.problems = {} /\ ~open
  /\ final_score(d.market, TRUE) >= 5500

\* open: the gate's position limit is reached.  "clear" and what an intent
\* rests on are history.
run_research_trading_bridge(st, v, by) ==
  \E open \in BOOLEAN :
    LET gate == _evaluate_pre_order_gate(st, v.risk, open)
        candidate == final_decision(v.health, v.risk) = "CANDIDATE"
        intent == candidate /\ risk_gate_approved(gate)
        read == {"snapshot", "result", "signal", "qa", "decision", "trading"}
    IN  /\ Write("trade",
                 [intent |-> intent, stage |-> st, by |-> by,
                  clear |-> /\ Exists("snapshot") /\ v.health.allow
                            /\ Clear(files["snapshot"], v.risk, open),
                  on |-> IF intent
                         THEN [snapshot |-> files["snapshot"], signal |-> files["signal"],
                               qa |-> files["qa"], verdict |-> v, open |-> open,
                               direction |-> files["trading"].signal]
                         ELSE NoFile,
                  of |-> IF intent THEN {files[f].of : f \in read} \cup {v.health.of, v.risk.of}
                         ELSE {}])
        /\ UNCHANGED count

-----------------------------------------------------------------------------
(***************************************************************************)
(* The cycle, in the order of the stages.                                  *)
(***************************************************************************)
Step(at, then, Do) ==
  /\ pc = at /\ pc' = then /\ Do /\ UNCHANGED <<config, verdict, manual>>

CollectStep == Step("idle", "snapshot", collect_market_data)

\* Mutant: a snapshot that cannot be built does not stop the cycle.
SnapshotStep_BestEffort ==
  \/ Step("snapshot", "context", build_market_snapshot)
  \/ Step("snapshot", "context", Exists("snapshot") /\ UNCHANGED <<files, count>>)

SnapshotStep == Step("snapshot", "context", build_market_snapshot)
ContextStep == Step("context", "research", build_market_context)
ResearchStep == Step("research", "signal", run_research_cycle)
SignalStep == Step("signal", "qa", build_active_research_signal)

\* Mutant: a QA report that cannot be written does not stop the cycle.
QAStep_BestEffort ==
  \/ Step("qa", "stamp", validate_research_signal_quality)
  \/ Step("qa", "stamp", UNCHANGED <<files, count>>)

QAStep == Step("qa", "stamp", validate_research_signal_quality)
StampStep == Step("stamp", "decision", stamp_research_result)
DecisionStep == Step("decision", "health", run_research_decision)
HealthStep == Step("health", "risk", run_data_health_check)

RiskStep ==
  /\ pc = "risk" /\ pc' = "trading" /\ run_risk_guard
  /\ verdict' = [health |-> files["health"], risk |-> files'["risk"]]
  /\ UNCHANGED <<config, manual>>

TradingStep == Step("trading", "bridge", run_trading_cycle)
BridgeStep == Step("bridge", "done", run_research_trading_bridge(config.stage, verdict, "pipeline"))

\* The cycle is over, or an agent raised, or the process died.
EndCycle ==
  /\ pc # "idle" /\ pc' = "idle"
  /\ verdict' = NoFile
  /\ UNCHANGED <<config, files, count, manual>>

\* The operator edits the settings and restarts the process.
Reconfigure ==
  /\ pc = "idle" /\ count < MaxCollections /\ config' \in Configs \ {config}
  /\ UNCHANGED <<files, pc, verdict, count, manual>>

\* ValidationVerdict.from_latest_files: an absent file allows nothing.
from_latest_files ==
  [health |-> IF Exists("health") THEN files["health"]
              ELSE [allow |-> FALSE, real |-> FALSE, of |-> 0],
   risk |-> IF Exists("risk") THEN files["risk"]
            ELSE [problems |-> {"unreadable"}, of |-> 0]]

\* The mains of the modules, run by hand.
Operator ==
  /\ manual < MaxManual /\ manual' = manual + 1
  /\ \/ collect_market_data \/ build_market_snapshot \/ build_market_context
     \/ run_research_cycle \/ run_research_decision
     \/ run_data_health_check \/ run_risk_guard \/ run_trading_cycle
     \/ run_research_trading_bridge("paper", from_latest_files, "operator")
  /\ UNCHANGED <<config, pc, verdict>>

Next ==
  \/ CollectStep \/ SnapshotStep \/ ContextStep \/ ResearchStep \/ SignalStep
  \/ QAStep \/ StampStep \/ DecisionStep \/ HealthStep \/ RiskStep
  \/ TradingStep \/ BridgeStep \/ EndCycle \/ Reconfigure \/ Operator

Spec == Init /\ [][Next]_vars

-----------------------------------------------------------------------------
Trade == files["trade"]
Intent == Exists("trade") /\ Trade.intent

(***************************************************************************)
(* An order intent of the research path rests on real, fresh candles and   *)
(* on a signal that passed QA, under every setting of the switches that    *)
(* disarm one layer of the defence (USE_RESEARCH_SIGNAL_GATE, the QA gate, *)
(* BLOCK_SYNTHETIC_DATA_FOR_TRADING), and even when the mains are run by   *)
(* hand over files of different cycles.                                    *)
(***************************************************************************)
IntentIsOnRealData ==
  Intent => /\ Real(Trade.on.snapshot) /\ ~Trade.on.snapshot.stale
            /\ Trade.on.signal.real /\ ~Trade.on.signal.stale
            /\ Trade.on.verdict.health.allow /\ Trade.on.verdict.health.real
            /\ Trade.on.verdict.risk.problems = {} /\ ~Trade.on.open

(***************************************************************************)
(* A permission is authoritative only on the QA report of the very signal  *)
(* it was read with.  The ids cannot tell: a signal rebuilt on the same    *)
(* candle keeps its id when the data has gone stale.  What saves it is     *)
(* that run_research_cycle drops the stamp before the signal is rebuilt    *)
(* and the stamp comes back only after the QA report.                      *)
(***************************************************************************)
AuthorityIsOnItsOwnReport ==
  Exists("decision") /\ files["decision"].authoritative =>
    files["decision"].signal_of = files["decision"].qa_of

(***************************************************************************)
(* The chain decides what one line says: with the research gate on, a      *)
(* paper cycle that nobody interferes with ends in an intent exactly when  *)
(* the data is real, fresh and well formed, the score is constructive, no  *)
(* risk limit is breached and no position is open.  With the gate off it   *)
(* only ever refuses more.                                                 *)
(***************************************************************************)
ChainDecides ==
  pc = "done" /\ Trade.stage = "paper" /\ manual = 0 =>
    /\ Trade.intent => Trade.clear
    /\ config.research_gate /\ Trade.clear => Trade.intent

(***************************************************************************)
(* Everything an intent was decided on goes back to one collection: a      *)
(* cycle that died half-way leaves files the next cycle never mixes in.    *)
(***************************************************************************)
IntentIsOfOneCycle ==
  pc = "done" /\ Intent /\ manual = 0 => Trade.of = {count}

(***************************************************************************)
(* The pre-order gate that ends the chain: every reason it can collect is  *)
(* known to _status_for_blocks, or it would be collected, reported and     *)
(* approved; and one more thing wrong, or a candidate stage instead of     *)
(* paper, never turns a refusal into an approval.  The gate is a function  *)
(* of the stage, so that the first state of each setting is enough.        *)
(***************************************************************************)
GateOnlyCloses ==
  count = 0 =>
    \A arm \in {{}, {"hash_missing"}, Optional}, sides \in SUBSET Side, c, d \in Condition :
      LET gate(st, conds) == evaluate_pre_order_risk_gate(st, arm, conds, sides)
          one == gate(config.stage, {c})
          two == gate(config.stage, {c, d})
      IN  /\ two.status \in PASS => two.block_reasons = {}
          /\ two.approved => one.approved
          /\ one.approved => gate("paper", {c}).approved

-----------------------------------------------------------------------------
(***************************************************************************)
(* The inductive invariant behind the safety properties.                   *)
(***************************************************************************)
FilesOK ==
  /\ DOMAIN files = File
  /\ Exists("result") => DOMAIN files["result"] = {"scenario", "of", "id", "timing"}
  /\ Exists("signal") => Exists("result") /\ files["signal"].id # NoId

\* While the signal and its report are rewritten, the result has no stamp; a
\* stamped result stands beside a signal and the report made of it.
StampOrder ==
  /\ pc \in {"signal", "qa", "stamp"} => Exists("result") /\ files["result"].id = NoId
  /\ pc \in {"qa", "stamp"} => Exists("signal")
  /\ pc = "stamp" => files["qa"].of = files["signal"].of
  /\ Exists("result") /\ files["result"].id # NoId => files["qa"].of = files["signal"].of

\* The cycle from a step on.
FromBridge == {"bridge", "done"}
FromTrading == {"trading"} \cup FromBridge
FromRisk == {"risk"} \cup FromTrading
FromHealth == {"health"} \cup FromRisk
FromDecision == {"decision"} \cup FromHealth
FromStamp == {"stamp"} \cup FromDecision
FromQA == {"qa"} \cup FromStamp
FromSignal == {"signal"} \cup FromQA
FromResearch == {"research"} \cup FromSignal
FromContext == {"context"} \cup FromResearch

\* What the cycle has written so far goes back to its own collection.
CycleFiles ==
  LET OfCycle(f) == files[f].of = count
  IN  manual = 0 =>
        /\ pc # "idle" => OfCycle("data")
        /\ pc \in FromContext => OfCycle("snapshot")
        /\ pc \in FromResearch => OfCycle("context")
        /\ pc \in FromSignal => OfCycle("result")
        /\ pc \in FromQA => OfCycle("signal")
        /\ pc \in FromStamp => OfCycle("qa")
        /\ pc \in FromHealth => OfCycle("decision")
        /\ pc \in FromRisk => OfCycle("health")
        /\ pc \in FromTrading => verdict.health.of = count /\ verdict.risk.of = count
        /\ pc \in FromBridge => OfCycle("trading")

CountersOK == count \in Nat /\ manual \in Nat

IInv == /\ FilesOK /\ StampOrder /\ CycleFiles /\ CountersOK
        /\ IntentIsOnRealData /\ AuthorityIsOnItsOwnReport /\ IntentIsOfOneCycle

-----------------------------------------------------------------------------
(***************************************************************************)
(* The inductive invariant behind ChainDecides, relative to IInv: what a   *)
(* cycle nobody interferes with has written so far, as a function of the   *)
(* collection it started from.                                             *)
(***************************************************************************)
ScoreOf(d) == final_score(d.market, Real(d))
ScenarioOf(d) == classify_scenario(ScoreOf(d))
TimingOf(d) == classify_timing(ScoreOf(d), ScenarioOf(d), Real(d))
PermittedOf(d) ==
  IF Real(d) THEN directional_permission(ScenarioOf(d), TimingOf(d)) ELSE {}
Sound(d) == Real(d) /\ ~d.stale

ResultOf(r, d) == r # NoFile /\ r.scenario = ScenarioOf(d) /\ r.timing = TimingOf(d)

SignalOf(s, d, profile) ==
  /\ s # NoFile /\ s.profile = profile
  /\ s.allow = PermittedOf(d) /\ s.real = Real(d) /\ s.stale = d.stale

QAOf(q, s, d) == q # NoFile /\ q.id = s.id /\ (Sound(d) => q.result \in QA_PASS)

\* The QA may only take the permission away, and not on sound data.
DecisionOf(r, d) ==
  /\ r # NoFile /\ r.timing = TimingOf(d) /\ r.allow \subseteq PermittedOf(d)
  /\ Sound(d) => r.allow = PermittedOf(d)

TradingOf(t, d) ==
  /\ t # NoFile /\ t.allow = PermittedOf(d)
  /\ "LONG" \in PermittedOf(d) => t.signal = "LONG"

CycleView ==
  LET d == files["data"]
  IN  manual = 0 =>
        /\ pc # "idle" => d.market \in Market
        /\ pc \in FromContext => files["snapshot"] = d /\ d # NoFile
        /\ pc \in FromResearch => files["context"] = d
        /\ pc \in FromSignal => ResultOf(files["result"], d)
        /\ pc \in FromQA => SignalOf(files["signal"], d, _resolve_signal_profile)
        /\ pc \in FromStamp => QAOf(files["qa"], files["signal"], d)
        /\ pc \in FromDecision => files["result"].id = files["signal"].id
        /\ pc \in FromHealth => DecisionOf(files["decision"], d)
        /\ pc \in FromRisk => files["health"].real = Real(d)
        /\ pc \in FromTrading => verdict.health.real = Real(d)
        /\ pc \in FromBridge /\ config.research_gate /\ Sound(d) => TradingOf(files["trading"], d)

DecidesInv == CycleView /\ ChainDecides
=============================================================================
