------------------------------ MODULE PaperEngine ------------------------------
(***************************************************************************)
(* What the paper venue makes of an order intent, and what the reconciler  *)
(* and the outcome analytics make of that record                           *)
(* (paper_execution_engine_v2.py, paper_reconciliation_v2.py,              *)
(* outcome_analytics_v2.py): pure functions, one after the other, that     *)
(* PaperBooks uses.                                                        *)
(*                                                                         *)
(* An id is present or not; a quantity is a multiple of Full, so that a    *)
(* fill ratio n/Full of it is exact; prices and fees are left out.         *)
(***************************************************************************)
EXTENDS Integers, FiniteSets

Full == 2                      \* fill_ratio 1.0, in parts

ChainIds == {"order_intent_id", "decision_id", "risk_gate_id",
             "research_signal_id", "profile_id"}

SideOf(direction) == IF direction = "LONG" THEN "BUY" ELSE "SELL"

\* The default execution_config: what the execution port asks for.
DefaultConfig == [cancel_before_fill |-> FALSE, fill_ratio |-> Full]

-----------------------------------------------------------------------------
\* validate_paper_order_intent.  The gate report is the one the intent carries.
blockers(intent) ==
  (ChainIds \ intent.ids)
    \cup (IF intent.created THEN {} ELSE {"ORDER_INTENT_NOT_CREATED"})
    \cup (IF intent.gate \in {"none", "approved"} THEN {} ELSE {"PRE_ORDER_RISK_GATE_NOT_APPROVED"})
    \cup (IF intent.quantity > 0 THEN {} ELSE {"QUANTITY_MISSING_OR_NON_POSITIVE"})
    \cup (IF intent.priced THEN {} ELSE {"ENTRY_PRICE_MISSING_OR_NON_POSITIVE"})
    \cup (IF intent.live THEN {"LIVE_SIDE_EFFECT_FLAG_PRESENT"} ELSE {})

\* _position_delta: a sale is a negative quantity.
position_delta(intent, filled) ==
  [side |-> intent.side,
   quantity |-> IF intent.side = "BUY" THEN filled ELSE -filled]

\* simulate_paper_execution.
simulate_paper_execution(intent, config) ==
  LET status == IF blockers(intent) # {} THEN "PAPER_REJECTED"
                ELSE IF config.cancel_before_fill THEN "PAPER_CANCELLED"
                ELSE "PAPER_PENDING_RECONCILIATION"
      pending == status = "PAPER_PENDING_RECONCILIATION"
      ratio == IF pending THEN config.fill_ratio ELSE 0
      filled == (intent.quantity * ratio) \div Full
  IN  [status |-> status, intent |-> intent, fill_ratio |-> ratio, filled_quantity |-> filled,
       fill_status |-> IF ~pending THEN "NO_FILL"
                       ELSE IF ratio = Full THEN "FILLED" ELSE "PARTIALLY_FILLED",
       position_delta |-> position_delta(intent, filled),
       reconciliation_required |-> pending]

\* PaperExecutionAdapter.submit: a partial fill is a fill.
is_filled(record) == record.fill_status \in {"FILLED", "PARTIALLY_FILLED"}

-----------------------------------------------------------------------------
expected_side(intent) == intent.side

abs(n) == IF n < 0 THEN -n ELSE n

\* build_reconciliation_checks: the names of the checks that fail.
failed_checks(record) ==
  LET intent == record.intent
      delta == record.position_delta
      no_fill == record.fill_status = "NO_FILL"
  IN  ({"decision_id", "risk_gate_id"} \ intent.ids)
        \cup (IF record.filled_quantity <= intent.quantity THEN {} ELSE {"FILLED_QUANTITY_WITHIN_REQUESTED"})
        \cup (IF no_fill \/ record.fill_ratio * intent.quantity = Full * record.filled_quantity
              THEN {} ELSE {"FILL_RATIO_CONSISTENT"})
        \cup (IF abs(delta.quantity) = record.filled_quantity THEN {} ELSE {"POSITION_DELTA_MATCHES_FILL"})
        \cup (IF no_fill \/ delta.side = expected_side(intent) THEN {} ELSE {"POSITION_SIDE_MATCHES_INTENT"})
        \cup (IF intent.live THEN {"NO_LIVE_SIDE_EFFECTS"} ELSE {})

promotion_blocker(status) ==
  CASE status = "RECONCILED" -> "NO_PROMOTION_BLOCKER"
    [] status = "UNSAFE_LIVE_SIDE_EFFECT" -> "BLOCK_PROMOTION_UNSAFE_LIVE_SIDE_EFFECT"
    [] OTHER -> "BLOCK_PROMOTION_RECONCILIATION_MISMATCH"

\* _status_from_checks and reconcile_paper_execution_record.
reconcile_paper_execution_record(record) ==
  LET failed == failed_checks(record)
      status == CASE "NO_LIVE_SIDE_EFFECTS" \in failed -> "UNSAFE_LIVE_SIDE_EFFECT"
                  [] ~record.reconciliation_required -> "RECONCILIATION_NOT_REQUIRED"
                  [] failed = {} -> "RECONCILED"
                  [] OTHER -> "RECONCILIATION_MISMATCH"
  IN  [by |-> "paper_reconciliation_v2", status |-> status,
       reconciled |-> status = "RECONCILED", promotion_blocker |-> promotion_blocker(status)]

\* run_reconciler's fallback compares nothing and has no "reconciled" field.
legacy_reconciliation ==
  [by |-> "legacy", status |-> "RECONCILED", reconciled |-> FALSE,
   promotion_blocker |-> "none"]

\* TLC evaluates this: whatever the intent and the configuration, the record
\* the engine makes of it passes the reconciler's checks when it is a fill,
\* partial or not, and needs none when it is rejected or cancelled.
Intents ==
  [created : BOOLEAN, ids : {ChainIds} \cup {ChainIds \ {i} : i \in ChainIds},
   gate : {"none", "approved", "blocked"}, live : {FALSE},
   direction : {"LONG"}, side : {SideOf("LONG")}, quantity : {0, Full, 2 * Full}, priced : BOOLEAN]
  \cup
  [created : {TRUE}, ids : {ChainIds}, gate : {"approved"}, live : BOOLEAN,
   direction : {"SHORT"}, side : {SideOf("SHORT")}, quantity : {Full}, priced : {TRUE}]

ASSUME EngineReconciles ==
  \A intent \in Intents, cancel \in BOOLEAN, ratio \in 0..Full :
    LET record == simulate_paper_execution(intent, [cancel_before_fill |-> cancel, fill_ratio |-> ratio])
        status == reconcile_paper_execution_record(record).status
    IN  /\ is_filled(record) => status = "RECONCILED" /\ ~intent.live
        /\ status = "RECONCILED" => is_filled(record)

-----------------------------------------------------------------------------
\* outcome_analytics_v2._status of a close: only a reconciled entry counts.
outcome_status(reconciliation) ==
  CASE reconciliation.status = "UNSAFE_LIVE_SIDE_EFFECT" -> "OUTCOME_BLOCKED_UNSAFE_LIVE_SIDE_EFFECT"
    [] ~reconciliation.reconciled -> "OUTCOME_BLOCKED_RECONCILIATION_MISMATCH"
    [] OTHER -> "OUTCOME_RECORDED"

outcome_closed(reconciliation) == outcome_status(reconciliation) = "OUTCOME_RECORDED"
=============================================================================
