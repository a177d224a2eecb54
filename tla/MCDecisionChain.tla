--------------------------- MODULE MCDecisionChain ---------------------------
(* TLC instance of DecisionChain. *)
EXTENDS DecisionChain

\* Paper with any layer disarmed, and the other stages.
EveryConfig ==
  {c \in Config : c.stage = "paper" \/ (c.research_gate /\ c.qa_gate /\ c.block_synthetic)}

Constructive == [trend |-> "bullish", change |-> "up", volume |-> TRUE, funding |-> FALSE, oi |-> TRUE]
Weak == [trend |-> "bearish", change |-> "down", volume |-> FALSE, funding |-> TRUE, oi |-> TRUE]
Fresh == [market |-> Constructive, source |-> "real", optional |-> "available",
          broken |-> FALSE, stale |-> FALSE]

\* A tradable collection, the same gone stale, weak, synthetic, without the
\* optional metrics, and malformed.
FewInputs ==
  {Fresh, [Fresh EXCEPT !.stale = TRUE], [Fresh EXCEPT !.market = Weak],
   [Fresh EXCEPT !.source = "synthetic"], [Fresh EXCEPT !.optional = "missing"],
   [Fresh EXCEPT !.broken = TRUE]}

FewRisks == {{}, {"daily"}, {"weekly"}}
=============================================================================
