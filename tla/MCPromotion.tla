----------------------------- MODULE MCPromotion -----------------------------
(* TLC instances of Promotion: canary processes are interchangeable. *)
EXTENDS Promotion, TLC

CanarySymmetry == Permutations(Canary)
=============================================================================
