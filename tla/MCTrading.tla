----------------------------- MODULE MCTrading -----------------------------
(***************************************************************************)
(* Small instances of Trading for TLC: users, replicas and client ids as   *)
(* model values, and a menu of requests for each question.                 *)
(***************************************************************************)
EXTENDS Trading, TLC

CONSTANTS u1, u2, k1, r1, r2

OneUser     == {u1}
TwoUsers    == {u1, u2}
OneClient   == {k1}
NoClients   == {}
OneReplica  == {r1}
TwoReplicas == {r1, r2}

ReplicaSymmetry == Permutations({r1, r2})

Ask(c, side, effect, qty, limit, client, r) ==
  [user |-> u1, contract |-> c, side |-> side, effect |-> effect, qty |-> qty,
   limit |-> limit, client |-> client, replica |-> r]

\* Longs, shorts, covers, flips and rests on one contract, and an order on a
\* second contract that draws on the same wallet.
LedgerMenu ==
  UNION {{ Ask(1, "buy",  "AUTO", 2, 0, NoClient, r),
           Ask(1, "buy",  "AUTO", 1, 1, NoClient, r),
           Ask(1, "sell", "AUTO", 1, 0, NoClient, r),
           Ask(1, "sell", "AUTO", 2, 1, NoClient, r),
           Ask(2, "sell", "AUTO", 1, 0, NoClient, r) } : r \in Replicas}

\* Few requests, for the runs in which the gate moves.
FenceMenu ==
  UNION {{ Ask(1, "buy",  "AUTO",  1, 0, NoClient, r),
           Ask(1, "buy",  "OPEN",  1, 2, NoClient, r),
           Ask(1, "sell", "AUTO",  2, 1, NoClient, r),
           Ask(1, "sell", "CLOSE", 1, 0, NoClient, r) } : r \in Replicas}

\* The same with a client order id that is sent again.
RaceMenu ==
  UNION {{ Ask(1, "buy",  "AUTO", 1, 2, k1, r),
           Ask(1, "sell", "AUTO", 1, 0, k1, r),
           Ask(1, "buy",  "AUTO", 1, 0, NoClient, r),
           Ask(1, "sell", "AUTO", 2, 1, NoClient, r) } : r \in Replicas}
=============================================================================
