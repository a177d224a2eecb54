----------------------------- MODULE MCPaperBooks -----------------------------
(* TLC instance of PaperBooks: strategies are interchangeable. *)
EXTENDS PaperBooks, TLC

StrategySymmetry == Permutations(Strategy)
=============================================================================
