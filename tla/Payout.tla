------------------------------- MODULE Payout -------------------------------
(***************************************************************************)
(* What an innings market promises its traders, whatever the processors    *)
(* that carry it out go through: while it trades, positions and money move *)
(* together; then either one payoff is fixed, every position is paid it    *)
(* once and the market is settled, or every trader gets back the money the *)
(* market took and the market is void.  Never both, never twice.           *)
(***************************************************************************)
EXTENDS Integers

CONSTANTS Users, Deposit, Prices, Payoffs

VARIABLES phase, payoff, lots, money

vars == <<phase, payoff, lots, money>>

Init ==
  /\ phase = "trading" /\ payoff = 0
  /\ lots = [u \in Users |-> 0]
  /\ money = [u \in Users |-> Deposit]

Flat == \A u \in Users : lots[u] = 0

Trade(u, step, price) ==
  /\ phase = "trading" /\ lots[u] + step \in -1..1
  /\ lots' = [lots EXCEPT ![u] = @ + step]
  /\ money' = [money EXCEPT ![u] = @ - step * price]
  /\ UNCHANGED <<phase, payoff>>

Fix ==
  /\ phase = "trading"
  /\ phase' = "fixed" /\ payoff' \in Payoffs
  /\ UNCHANGED <<lots, money>>

Pay(u) ==
  /\ phase = "fixed" /\ lots[u] # 0
  /\ money' = [money EXCEPT ![u] = @ + lots[u] * payoff]
  /\ lots' = [lots EXCEPT ![u] = 0]
  /\ UNCHANGED <<phase, payoff>>

Settle ==
  /\ phase = "fixed" /\ Flat
  /\ phase' = "settled" /\ UNCHANGED <<payoff, lots, money>>

Refund(u) ==
  /\ phase \in {"trading", "refunding"}
  /\ phase' = "refunding"
  /\ lots' = [lots EXCEPT ![u] = 0]
  /\ money' = [money EXCEPT ![u] = Deposit]
  /\ UNCHANGED payoff

Void ==
  /\ phase \in {"trading", "refunding"} /\ Flat
  /\ money = [u \in Users |-> Deposit]
  /\ phase' = "void" /\ UNCHANGED <<payoff, lots, money>>

Next ==
  \/ \E u \in Users : \/ \E step \in {-1, 1}, price \in Prices : Trade(u, step, price)
                      \/ Pay(u) \/ Refund(u)
  \/ Fix \/ Settle \/ Void

Spec == Init /\ [][Next]_vars
=============================================================================
