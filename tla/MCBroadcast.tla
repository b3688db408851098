---------------------------- MODULE MCBroadcast ----------------------------
(***************************************************************************)
(* Small instances of Broadcast for TLC.                                   *)
(***************************************************************************)
EXTENDS Broadcast, TLC

CONSTANTS c1, c2, i1, i2

TwoContents == {c1, c2}
TwoInstances == {i1, i2}

Symmetry == Permutations(TwoContents) \cup Permutations(TwoInstances)
=============================================================================
