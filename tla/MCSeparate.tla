----------------------------- MODULE MCSeparate -----------------------------
(***************************************************************************)
(* Small instances of Separate for TLC.                                    *)
(***************************************************************************)
EXTENDS Separate, TLC

CONSTANTS a1, a2, c1, c2, c3

\* No part meets the names of another: the same two serve as workers, as
\* contracts and as fills.
Two == {a1, a2}
Three == {c1, c2, c3}
TwoTasks == 1..2

\* A single, a wicket at the far end, and a wide on which the batters cross.
MCHappenings ==
  {[kind |-> "bat", runs |-> 1, out |-> "none"], [kind |-> "bat", runs |-> 0, out |-> "off"],
   [kind |-> "wide", runs |-> 1, out |-> "none"]}

\* A single, a wicket, and a wide.
MCDeeds ==
  {[runs |-> 1, legal |-> TRUE, wicket |-> FALSE], [runs |-> 0, legal |-> TRUE, wicket |-> TRUE],
   [runs |-> 1, legal |-> FALSE, wicket |-> FALSE]}
MCLabels == <<<<"NED", "Netherlands">>, <<"NEP", "Nepal">>>>

\* Two matches at once, one after the other, and one of fifty overs.
MCProgrammes ==
  {<<[format |-> "T20", at |-> 4], [format |-> "T20", at |-> 10]>>,
   <<[format |-> "T20", at |-> 2], [format |-> "T20", at |-> 26]>>,
   <<[format |-> "ODI", at |-> 4]>>}

MCPrices == {0, 10, 31}
MCMarks == {40}
MCQuantities == {1, 2}

MCAmounts == {2}
MCRewards == {3}

Symmetry == Permutations(Two) \cup Permutations(Three)
=============================================================================
