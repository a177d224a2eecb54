---------------------------- MODULE MCLiveTrading ----------------------------
(* TLC instance of LiveTrading: client order ids are interchangeable. *)
EXTENDS LiveTrading, TLC

\* Per unit, a close wins or loses one.
WinOrLose == {-1, 1}
Lose == {-1}

IdSymmetry == Permutations(OrderId)
=============================================================================
