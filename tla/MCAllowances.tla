---------------------------- MODULE MCAllowances ----------------------------
(* Instances of Allowances for TLC. *)
EXTENDS Allowances, TLC

CONSTANTS w1, w2, trades, depth, universe, r1, r2

TwoWorkers == {w1, w2}
TwoStreams == {trades, depth}
Universe == {universe}
TwoRuns == {r1, r2}
Symmetry ==
    Permutations(TwoWorkers) \cup Permutations(TwoStreams)
=============================================================================
