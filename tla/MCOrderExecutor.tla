--------------------------- MODULE MCOrderExecutor ---------------------------
(* TLC instance of OrderExecutor: runners are interchangeable. *)
EXTENDS OrderExecutor, TLC

RunnerSymmetry == Permutations(Runner)
=============================================================================
