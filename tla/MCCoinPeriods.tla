---------------------------- MODULE MCCoinPeriods ----------------------------
(* CoinPeriods for TLC: two plans, sessions that cost one coin. *)
EXTENDS CoinPeriods, TLC

CONSTANTS small, large, x1, x2, v1
MCMaxCoins == small :> 1 @@ large :> 2
MCEstimate == [s \in Sessions |-> 1]
Symmetry == Permutations({x1, x2})
=============================================================================
