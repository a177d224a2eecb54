---------------------------- MODULE MCStrategyPool ----------------------------
(* TLC instances of StrategyPool. *)
EXTENDS StrategyPool

R(h, f, d) == [hash |-> h, family |-> f, symbol |-> "BTC", direction |-> d]

\* Two rule sets of one family, and one of another; a third family.
MCRule == {R(1, "trend", "LONG"), R(2, "trend", "SHORT"), R(3, "range", "LONG")}
FourRules == MCRule \cup {R(4, "break", "LONG")}

\* Everything one after the other, with wins and losses; the miner beside the
\* pipeline, with more survivors to adopt.
MCSettings ==
  {[scripts |-> {"factory", "miner"}, overlap |-> FALSE, rules |-> MCRule,
    scores |-> {1, 2}, results |-> {-2, 1}, batch |-> 1, seq |-> 2, outcomes |-> 3],
   [scripts |-> {"miner"}, overlap |-> TRUE, rules |-> FourRules,
    scores |-> {1}, results |-> {-1}, batch |-> 3, seq |-> 1, outcomes |-> 1]}
=============================================================================
