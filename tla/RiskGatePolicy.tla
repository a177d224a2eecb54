---------------------------- MODULE RiskGatePolicy ----------------------------
(***************************************************************************)
(* The policy of the pre-order risk gate (trading/pre_order_risk_gate.py), *)
(* a pure function of what is wrong and of the stage it is asked for.      *)
(*                                                                         *)
(* Each comparison the gate makes is a condition: it holds or it does not. *)
(* Some block at every stage; others only where the stage, or the caller's *)
(* gate_config, arms the check.                                            *)
(***************************************************************************)
EXTENDS Naturals, FiniteSets, Sequences

Stage == {"paper", "signed_testnet", "live", "other"}
Side == {"LONG", "SHORT"}

\* The stages that make the order a promotion candidate.
candidate_mode(st) == st \in {"signed_testnet", "live"}

\* Checks the gate makes whatever it is configured with.
AlwaysChecked ==
  {"decision_id", "research_signal_id", "profile_id", "unapproved", "hash_mismatch",
   "stale", "sample", "synthetic", "fallback", "optional_stale", "position_limit",
   "daily_loss", "consecutive_losses", "spread", "api_errors", "mismatch",
   "kill_switch", "risk_blocked"}

\* Checks of a promotion candidate only, and of a stage's own enable flags.
CandidateChecked == {"optional_missing", "not_eligible", "stage_disabled"}

\* Checks the caller's gate_config switches on.
Optional == {"hash_missing", "slippage_evidence", "min_size", "max_notional",
             "order_count", "fee_model", "margin", "leverage", "venue"}

Condition == AlwaysChecked \cup CandidateChecked \cup Optional

\* The reasons evaluate_pre_order_risk_gate collects.
blocks(st, arm, conds) ==
  (conds \cap AlwaysChecked)
    \cup (IF candidate_mode(st) THEN conds \cap CandidateChecked ELSE {})
    \cup (conds \cap arm)

\* Mutant: the staleness of optional data has no status of its own.
StatusOrder_NoOptionalStale ==
  << [status |-> "BLOCK_STALE_DATA", of |-> {"stale"}],
     [status |-> "BLOCK_INVALID_CANONICAL_ID_CHAIN", of |-> Condition \ {"stale", "optional_stale"}] >>

\* The status of each group of reasons, the first that applies is reported.
StatusOrder ==
  << [status |-> "BLOCK_INVALID_CANONICAL_ID_CHAIN",
      of |-> {"decision_id", "research_signal_id", "profile_id"}],
     [status |-> "BLOCK_PROFILE_UNAPPROVED", of |-> {"unapproved"}],
     [status |-> "BLOCK_PROFILE_HASH_MISMATCH", of |-> {"hash_mismatch"}],
     [status |-> "BLOCK_PROFILE_HASH_MISSING", of |-> {"hash_missing"}],
     [status |-> "BLOCK_STALE_DATA", of |-> {"stale", "optional_stale"}],
     [status |-> "BLOCK_FALLBACK_OR_SYNTHETIC", of |-> {"fallback", "synthetic"}],
     [status |-> "BLOCK_SAMPLE_DATA", of |-> {"sample"}],
     [status |-> "BLOCK_OPTIONAL_DATA_HEALTH", of |-> {"optional_missing", "not_eligible"}],
     [status |-> "BLOCK_POSITION_LIMIT", of |-> {"position_limit"}],
     [status |-> "BLOCK_DAILY_LOSS_LIMIT", of |-> {"daily_loss"}],
     [status |-> "BLOCK_CONSECUTIVE_LOSS", of |-> {"consecutive_losses"}],
     [status |-> "BLOCK_SPREAD_SLIPPAGE", of |-> {"spread", "slippage_evidence"}],
     [status |-> "BLOCK_API_ERROR_RATE", of |-> {"api_errors"}],
     [status |-> "BLOCK_RECONCILIATION_MISMATCH", of |-> {"mismatch"}],
     [status |-> "BLOCK_MANUAL_KILL_SWITCH", of |-> {"kill_switch"}],
     [status |-> "BLOCK_MIN_ORDER_SIZE", of |-> {"min_size"}],
     [status |-> "BLOCK_MAX_ORDER_NOTIONAL", of |-> {"max_notional"}],
     [status |-> "BLOCK_DAILY_ORDER_COUNT", of |-> {"order_count"}],
     [status |-> "BLOCK_FEE_MODEL", of |-> {"fee_model"}],
     [status |-> "BLOCK_BALANCE_MARGIN", of |-> {"margin"}],
     [status |-> "BLOCK_LEVERAGE_LIMIT", of |-> {"leverage"}],
     [status |-> "BLOCK_VENUE_READINESS", of |-> {"venue"}],
     [status |-> "BLOCK_STAGE_EXECUTION_DISABLED", of |-> {"stage_disabled"}],
     [status |-> "BLOCK_RESEARCH_PERMISSION", of |-> {"risk_blocked"}] >>

PassStatus(st) ==
  CASE st = "signed_testnet" -> "PASS_SIGNED_TESTNET"
    [] st = "paper" -> "PASS_PAPER"
    [] OTHER -> "PASS_REVIEW_ONLY"

PASS == {"PASS_REVIEW_ONLY", "PASS_PAPER", "PASS_SIGNED_TESTNET"}

_status_for_blocks(bs, st) ==
  LET hit == {i \in DOMAIN StatusOrder : StatusOrder[i].of \cap bs # {}}
  IN  IF hit = {} THEN PassStatus(st)
      ELSE StatusOrder[CHOOSE i \in hit : \A j \in hit : i <= j].status

\* evaluate_pre_order_risk_gate: a side is allowed only with the approval.
evaluate_pre_order_risk_gate(st, arm, conds, sides) ==
  LET bs == blocks(st, arm, conds)
      status == _status_for_blocks(bs, st)
      approved == status \in PASS /\ sides # {}
  IN  [status |-> status, approved |-> approved, block_reasons |-> bs,
       allow |-> IF approved THEN sides ELSE {}]

\* What a decision builder takes for an approval (trading_decision_agent.py,
\* strategy_trade_decision.py).
risk_gate_approved(gate) ==
  gate.approved \/ gate.status \in {"PASS_PAPER", "PASS_REVIEW_ONLY"}
=============================================================================
