------------------------------ MODULE Totals -------------------------------
(***************************************************************************)
(* The sum of the first n values of an integer function on 1..n, written   *)
(* as a recursive function so that it can be both evaluated and reasoned   *)
(* about.                                                                  *)
(***************************************************************************)
EXTENDS Integers

PartialSums(f, n) ==
  LET s[i \in 0 .. n] == IF i = 0 THEN 0 ELSE s[i - 1] + f[i] IN s

Total(f, n) == PartialSums(f, n)[n]
=============================================================================
