---------------------------- MODULE MCSettlement ----------------------------
(***************************************************************************)
(* Small instances of Settlement for TLC: users and processors as model    *)
(* values.                                                                 *)
(***************************************************************************)
EXTENDS Settlement, TLC

CONSTANTS u1, u2, w1, w2

OneUser    == {u1}
TwoUsers   == {u1, u2}
OneWorker  == {w1}
TwoWorkers == {w1, w2}

Symmetry == Permutations({u1, u2}) \cup Permutations({w1, w2})
=============================================================================
