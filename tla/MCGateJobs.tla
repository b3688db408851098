---------------------------- MODULE MCGateJobs ----------------------------
(***************************************************************************)
(* Small instances of GateJobs for TLC: orders and workers as model values.*)
(***************************************************************************)
EXTENDS GateJobs, TLC

CONSTANTS o1, o2, w1, w2

OneOrder   == {o1}
TwoOrders  == {o1, o2}
OneWorker  == {w1}
TwoWorkers == {w1, w2}

Symmetry == Permutations({o1, o2}) \cup Permutations({w1, w2})
=============================================================================
