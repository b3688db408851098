---------------------------- MODULE CustodyProofs ----------------------------
(***************************************************************************)
(* What module Settlement holds for its users while a market is settled    *)
(* or voided, and that it implements Payout: for any number of users,      *)
(* workers, fills and mishaps, as long as no processor outlives its lease  *)
(* (~Stalls) and the provider takes no final status back (~Fickle).        *)
(*                                                                         *)
(* To the invariant of SettlementProofs it adds what is in custody of each *)
(* user (MarginHeld, RefundHeld) and what a processor has done for each    *)
(* user at the stage it is at (Cancelled, Collected, Weighed, Repaid): a   *)
(* market is closed for good only after every user was handled, although   *)
(* each step handles one and any step may be the last of its processor.    *)
(***************************************************************************)
EXTENDS SettlementProofs

\* Some execution of the user is being reversed, or is reversed.
Undone(u) == \E n \in DOMAIN undo : undo[n] # "none" /\ fills[n].user = u

\* The user's compensation is frozen, and paid out unless it is nothing.
Paid(u) ==
  frozen[u].set /\ (refunded[u].set \/ (frozen[u].cash = 0 /\ frozen[u].reserved = 0))

\* The blocked margin is the reserve of the resting order and the collateral of
\* the position, until the reversal gives the collateral back.
MarginHeld(u) ==
  /\ position[u].lots >= 0 => position[u].collateral = 0
  /\ ~Unwinding(u) => position[u].lots \in -1 .. 1
  /\ reserved[u] = resting[u] + (IF Unwinding(u) THEN 0 ELSE position[u].collateral)

\* The frozen compensation is what the user's fills took, the wallet was moved
\* by it, and no execution is reversed before that.
RefundHeld(u) ==
  /\ frozen[u].set =>
       /\ frozen[u].cash = CashDelta(fills, u)
       /\ ~Unwinding(u) => frozen[u].reserved = -position[u].collateral
  /\ refunded[u].set => frozen[u].set /\ refunded[u].cash = frozen[u].cash
  /\ Undone(u) => Paid(u)

Custody(u) ==
  /\ MarginHeld(u) /\ RefundHeld(u)
  /\ closing[u].stage = "open" => closing[u].lots \in {-1, 1}

\* What a processor has done for a user at the stage it is at.
Cancelled(w, u) ==
  /\ worker[w].at \in {"listing", "unlisting"} /\ u \notin worker[w].todo => resting[u] = 0
  /\ worker[w].at \in (Fixing \cup Reverting) \ {"listing", "unlisting"} => resting[u] = 0

Collected(w, u) ==
  /\ worker[w].at = "closing" /\ u \in worker[w].todo => worker[w].lots[u] \in {-1, 1}
  /\ worker[w].at \in {"closed", "unwound"} => position[u].lots = 0

Weighed(w, u) ==
  worker[w].at = "freezing" =>
    /\ worker[w].comp[u].set /\ worker[w].comp[u].cash = CashDelta(fills, u)
    /\ u \in worker[w].todo /\ ~frozen[u].set =>
         worker[w].comp[u].reserved = -position[u].collateral
    /\ FillsOf(fills, u) # {} /\ u \notin worker[w].todo =>
         frozen[u].set /\ worker[w].comp[u] = frozen[u]

Repaid(w, u) ==
  /\ worker[w].at = "refunding" /\ FillsOf(fills, u) # {} =>
       /\ frozen[u].set /\ worker[w].comp[u] = frozen[u]
       /\ u \in worker[w].todo \/ Paid(u)
  /\ worker[w].at = "refunding" /\ u \in worker[w].todo => FillsOf(fills, u) # {}
  /\ worker[w].at \in {"unwinding", "unwound"} /\ FillsOf(fills, u) # {} => Paid(u)

Handled(w, u) == Cancelled(w, u) /\ Collected(w, u) /\ Weighed(w, u) /\ Repaid(w, u)

\* A voiding processor works from all the executions there are.
SeenAll(w) == worker[w].at \in Reverting \ {"unlisting"} => worker[w].seen = fills

AllHeld ==
  /\ \A u \in Users : Custody(u)
  /\ \A w \in Workers : SeenAll(w) /\ \A u \in Users : Handled(w, u)

CustodyInv == Inv /\ VoidHolds /\ AllHeld /\ NothingLeftOpen

-----------------------------------------------------------------------------
(* What is left alone.                                                     *)

\* Without a void job nothing is frozen, refunded or reversed.
LEMMA NoneFrozen ==
  ASSUME VoidHolds, \A u \in Users : RefundHeld(u), job.action # "void", NEW u \in Users
  PROVE  ~frozen[u].set /\ ~refunded[u].set /\ ~Undone(u) /\ ~Unwinding(u)
BY DEF VoidHolds, RefundHeld, Paid, Undone, Unwinding

\* A user is unwinding once refunded or reversed.
LEMMA UnwindingIs ==
  ASSUME NEW u
  PROVE  Unwinding(u) <=> refunded[u].set \/ Undone(u)
BY DEF Unwinding, Undone

\* A processor at no step of a settlement or a void owes nobody anything.
LEMMA Unburdened ==
  ASSUME NEW w, worker[w].at \notin Fixing \cup Reverting
  PROVE  SeenAll(w) /\ \A u \in Users : Handled(w, u)
BY DEF SeenAll, Handled, Cancelled, Collected, Weighed, Repaid, Fixing, Reverting

\* The custody of a user is a matter of the books alone.
LEMMA CustodyRests ==
  ASSUME NEW u, Custody(u), UNCHANGED <<books, orderVars>>
  PROVE  Custody(u)'
BY DEF Custody, MarginHeld, RefundHeld, Paid, Undone, Unwinding, books, orderVars

\* The step of one processor leaves the others idle.
LEMMA OthersRest ==
  ASSUME TypeOK, OneProcessor, NEW w \in Workers, worker[w].at # "idle",
         NEW r, worker' = worker \/ worker' = [worker EXCEPT ![w] = r]
  PROVE  \A v \in Workers : v # w =>
           worker'[v].at \notin Fixing \cup Reverting
           /\ SeenAll(v)' /\ \A u \in Users : Handled(v, u)'
<1>1. \A v \in Workers : v # w => worker'[v].at = "idle"
  BY BusyAlone DEF TypeOK
<1> SUFFICES ASSUME NEW v \in Workers, v # w
             PROVE  /\ worker'[v].at \notin Fixing \cup Reverting
                    /\ SeenAll(v)' /\ \A u \in Users : Handled(v, u)'
  OBVIOUS
<1>2. worker'[v].at \notin Fixing \cup Reverting
  BY <1>1 DEF Fixing, Reverting
<1> QED BY <1>2 DEF SeenAll, Handled, Cancelled, Collected, Weighed, Repaid, Fixing, Reverting

\* A processor's step keeps the void's promise when it freezes for a void
\* job only and reverts an undecided market only.
LEMMA VoidRests ==
  ASSUME VoidHolds, UNCHANGED <<match, market>>, job'.action = job.action,
         \A u \in Users : frozen'[u].set => frozen[u].set \/ job.action = "void",
         \A w \in Workers : worker'[w].at \in Reverting => market.lifecycle = "settling"
  PROVE  VoidHolds'
BY DEF VoidHolds

\* Nothing is opened while a market is being settled or voided, and nothing
\* moves once it is closed.
LEMMA ClosedRests ==
  ASSUME NothingLeftOpen, UNCHANGED market,
         market.lifecycle \in Closed => UNCHANGED <<position, resting, reserved>>
  PROVE  NothingLeftOpen'
BY DEF NothingLeftOpen, Open, Closed

-----------------------------------------------------------------------------
(* Trades, polls and leases.                                               *)

\* Where users may trade, nothing is settled, voided or reversed.
LEMMA TradableCalm ==
  ASSUME TypeOK, Flow, VoidHolds, AllHeld, Tradable
  PROVE  /\ market.lifecycle = "open"
         /\ \A w \in Workers : worker[w].at \notin Fixing \cup Reverting
         /\ \A u \in Users : /\ ~frozen[u].set /\ ~refunded[u].set /\ ~Undone(u)
                             /\ ~Unwinding(u)
<1>1. market.lifecycle = "open" /\ job.action # "void"
  BY DEF Tradable, VoidHolds
<1>2. \A w \in Workers : worker[w].at \notin Fixing \cup Reverting
  BY <1>1 DEF Flow, ClaimHolds, VoidHolds
<1> QED BY <1>1, <1>2, NoneFrozen DEF AllHeld, Custody

\* A fill is not reversed when it is made.
LEMMA FillFresh ==
  ASSUME TypeOK, NEW e \in Fills, fills' = Append(fills, e), undo' = Append(undo, "none"),
         NEW v \in Users, ~Undone(v)
  PROVE  ~Undone(v)'
<1> SUFFICES ASSUME NEW n \in DOMAIN undo', undo'[n] # "none", fills'[n].user = v
             PROVE  FALSE
  BY DEF Undone
<1>1. /\ undo \in Seq({"none", "open", "executed"}) /\ fills \in Seq(Fills)
      /\ Len(undo) = Len(fills)
  BY DEF TypeOK
<1>2. n \in 1 .. Len(undo) + 1
  BY <1>1
<1>3. n # Len(undo) + 1
  BY <1>1
<1>4. n \in DOMAIN undo /\ undo'[n] = undo[n] /\ fills'[n] = fills[n]
  BY <1>1, <1>2, <1>3
<1> QED BY <1>4 DEF Undone

\* A trade or a resting order moves one user's books and keeps them in balance.
LEMMA TradingCustody ==
  ASSUME TypeOK, Flow, VoidHolds, AllHeld, Trading, NEW v \in Users
  PROVE  Custody(v)'
<1>1. Tradable /\ UNCHANGED <<closing, frozen, refunded>>
  BY TradingKeeps DEF Trading, Trade, Rest, FillResting
<1>2. /\ ~frozen[v].set /\ ~refunded[v].set /\ ~Undone(v) /\ ~Unwinding(v)
      /\ Custody(v)
  BY <1>1, TradableCalm DEF AllHeld
<1>3. /\ position \in [Users -> [lots : Int, collateral : Nat]]
      /\ cash \in [Users -> Int] /\ reserved \in [Users -> Int]
      /\ resting \in [Users -> Prices \cup {0}]
  BY DEF TypeOK
<1>4. /\ position[v].lots \in -1 .. 1 /\ reserved[v] = resting[v] + position[v].collateral
      /\ position[v].lots >= 0 => position[v].collateral = 0
  BY <1>2 DEF Custody, MarginHeld
<1>5. \A p \in Prices : p \in Nat /\ p > 0
  BY SettlementAssumption
<1>6. ASSUME ~Undone(v)', UNCHANGED <<closing, frozen, refunded>>,
             position'[v].lots \in -1 .. 1,
             position'[v].lots >= 0 => position'[v].collateral = 0,
             reserved'[v] = resting'[v] + position'[v].collateral
      PROVE  Custody(v)'
  <2>1. ~frozen'[v].set /\ ~refunded'[v].set /\ ~Unwinding(v)'
    BY <1>2, <1>6 DEF Unwinding, Undone
  <2> QED BY <1>2, <1>6, <2>1 DEF Custody, MarginHeld, RefundHeld
<1>7. CASE \E u \in Users, side \in {"buy", "sell"}, price \in Prices : Trade(u, side, price)
  <2>1. PICK u \in Users, side \in {"buy", "sell"}, price \in Prices : Trade(u, side, price)
    BY <1>7
  <2> DEFINE e == [user |-> u, side |-> side, price |-> price]
             p == Moved(position[u], side, price)
  <2>2. e \in Fills /\ fills' = Append(fills, e) /\ undo' = Append(undo, "none")
    BY <2>1 DEF Trade, Fills
  <2> HIDE DEF e
  <2>3. ~Undone(v)'
    BY <1>2, <2>2, FillFresh
  <2>4. /\ position' = [position EXCEPT ![u] = p]
        /\ reserved' = [reserved EXCEPT ![u] = @ + p.collateral - position[u].collateral]
        /\ resting' = resting /\ position[u].lots # (IF side = "buy" THEN 1 ELSE -1)
    BY <2>1 DEF Trade, FillOf
  <2>5. CASE v # u
    <3>1. position'[v] = position[v] /\ reserved'[v] = reserved[v] /\ resting'[v] = resting[v]
      BY <1>3, <2>4, <2>5
    <3> QED BY <1>1, <1>4, <1>6, <2>3, <3>1
  <2>6. CASE v = u
    <3>1. /\ p.lots = position[u].lots + (IF side = "buy" THEN 1 ELSE -1)
          /\ p.lots >= 0 => p.collateral = 0
          /\ p.collateral \in Nat
      BY <1>3, <1>5, SettlementAssumption DEF Moved
    <3>2. p.lots \in -1 .. 1
      BY <1>4, <2>4, <2>6, <3>1
    <3> HIDE DEF p
    <3>3. position'[v] = p /\ resting'[v] = resting[v]
          /\ reserved'[v] = reserved[v] + p.collateral - position[v].collateral
      BY <1>3, <2>4, <2>6
    <3>4. reserved'[v] = resting'[v] + p.collateral
      <4>1. /\ resting[v] \in Int /\ position[v].collateral \in Int /\ p.collateral \in Int
            /\ reserved[v] = resting[v] + position[v].collateral
        BY <1>3, <1>4, <1>5, <3>1
      <4> QED BY <3>3, <4>1
    <3> QED BY <1>1, <1>6, <2>3, <3>1, <3>2, <3>3, <3>4
  <2> QED BY <2>5, <2>6
<1>8. CASE \E u \in Users, price \in Prices : Rest(u, price)
  <2>1. PICK u \in Users, price \in Prices : Rest(u, price)
    BY <1>8
  <2>2. /\ UNCHANGED <<position, fills, undo>> /\ resting[u] = 0
        /\ resting' = [resting EXCEPT ![u] = price]
        /\ reserved' = [reserved EXCEPT ![u] = @ + price]
    BY <2>1 DEF Rest, orderVars
  <2>3. ~Undone(v)'
    BY <1>2, <2>2 DEF Undone
  <2>4. reserved'[v] = resting'[v] + position[v].collateral
    BY <1>3, <1>4, <1>5, <2>2
  <2> QED BY <1>1, <1>4, <1>6, <2>2, <2>3, <2>4
<1>9. CASE \E u \in Users : FillResting(u)
  <2>1. PICK u \in Users : FillResting(u)
    BY <1>9
  <2> DEFINE e == [user |-> u, side |-> "buy", price |-> resting[u]]
             p == Moved(position[u], "buy", resting[u])
  <2>2. e \in Fills /\ fills' = Append(fills, e) /\ undo' = Append(undo, "none")
    BY <1>3, <2>1 DEF FillResting, Fills
  <2> HIDE DEF e
  <2>3. ~Undone(v)'
    BY <1>2, <2>2, FillFresh
  <2>4. /\ position' = [position EXCEPT ![u] = p] /\ position[u].lots = 0
        /\ reserved' = [reserved EXCEPT ![u] = @ - resting[u]]
        /\ resting' = [resting EXCEPT ![u] = 0]
    BY <2>1 DEF FillResting
  <2>5. p.lots = 1 /\ p.collateral = 0
    BY <2>4 DEF Moved
  <2> HIDE DEF p
  <2>6. CASE v # u
    <3>1. position'[v] = position[v] /\ reserved'[v] = reserved[v] /\ resting'[v] = resting[v]
      BY <1>3, <2>4, <2>6
    <3> QED BY <1>1, <1>4, <1>6, <2>3, <3>1
  <2>7. CASE v = u
    <3>1. /\ position'[v] = p /\ resting'[v] = 0 /\ reserved'[v] = reserved[v] - resting[v]
          /\ resting[v] \in Int
      BY <1>3, <1>5, <2>4, <2>7
    <3>2. reserved'[v] = 0
      BY <1>3, <1>4, <2>4, <2>7, <3>1
    <3> QED BY <1>1, <1>6, <2>3, <2>5, <3>1, <3>2
  <2> QED BY <2>6, <2>7
<1> QED BY <1>7, <1>8, <1>9 DEF Trading

\* No trade happens while anything is settled, voided or reversed.
LEMMA TradingHeld ==
  ASSUME TypeOK, Flow, VoidHolds, AllHeld, Trading
  PROVE  VoidHolds' /\ AllHeld' /\ NothingLeftOpen'
<1>1. Tradable
  BY DEF Trading, Trade, Rest, FillResting
<1>2. UNCHANGED <<match, market, job, worker, frozen>>
  BY TradingKeeps
<1>3. VoidHolds'
  BY <1>2 DEF VoidHolds
<1>4. \A w \in Workers : SeenAll(w)' /\ \A u \in Users : Handled(w, u)'
  <2>1. \A w \in Workers : worker'[w].at \notin Fixing \cup Reverting
    BY <1>1, <1>2, TradableCalm
  <2> QED BY <2>1 DEF SeenAll, Handled, Cancelled, Collected, Weighed, Repaid, Fixing, Reverting
<1>5. NothingLeftOpen'
  BY <1>1, <1>2, TradableCalm DEF NothingLeftOpen
<1> QED BY <1>3, <1>4, <1>5, TradingCustody DEF AllHeld

\* A poll moves no money: a market it leaves open or closes is not closed for
\* good, and a market being voided stays so.
LEMMA FeedHeld ==
  ASSUME TypeOK, Flow, ~Fickle, VoidHolds, AllHeld, NothingLeftOpen, Feed
  PROVE  VoidHolds' /\ AllHeld' /\ NothingLeftOpen'
<1>1. Grounded
  BY DEF Grounded, Flow
<1>2. PICK t : Committed(t) /\ t.ok /\ Commit(t) /\ UNCHANGED <<worker, books, orderVars>>
  BY <1>1, FeedCommits
<1>3. /\ Reached(t) /\ match' = t.match /\ market' = t.market /\ job' = t.job
      /\ UNCHANGED <<worker, position, resting, reserved, fills, frozen, refunded>>
  BY <1>2 DEF Committed, Commit, books, orderVars
<1>4. /\ job.action = "void" => t.job.action = "void"
      /\ t.job.action = "void" => VoidShape(t)
  BY <1>2 DEF Committed
<1>5. /\ market.lifecycle \in Closed \/ t.market.lifecycle \in Closed =>
           t.market.lifecycle = market.lifecycle
      /\ job.status = "processing" => t.job = job
  BY <1>3 DEF Reached
<1>6. VoidHolds'
  <2>1. ASSUME NEW w \in Workers, worker[w].at \in Reverting
        PROVE  t.market.lifecycle = "settling"
    <3>1. worker[w].at # "idle" /\ worker[w].at \in VoidStages
      BY <2>1 DEF Reverting, VoidStages
    <3>2. job.action = "void"
      BY <3>1 DEF Flow, JobFollowed
    <3>3. t.market.lifecycle \in {"settling", "void"} /\ market.lifecycle = "settling"
      BY <1>4, <2>1, <3>2 DEF VoidShape, VoidHolds
    <3> QED BY <1>5, <3>3 DEF Closed
  <2> QED BY <1>3, <1>4, <2>1 DEF VoidHolds, VoidShape
<1>7. \A u \in Users : Custody(u)'
  BY <1>2, CustodyRests DEF AllHeld
<1>8. \A w \in Workers : SeenAll(w)' /\ \A u \in Users : Handled(w, u)'
  BY <1>3 DEF AllHeld, SeenAll, Handled, Cancelled, Collected, Weighed, Repaid, Paid
<1>9. NothingLeftOpen'
  BY <1>3, <1>5 DEF NothingLeftOpen, Open, Closed
<1> QED BY <1>6, <1>7, <1>8, <1>9 DEF AllHeld

\* Taking, losing, completing or failing the job moves nothing.
LEMMA JobHeld ==
  ASSUME TypeOK, Flow, VoidHolds, AllHeld, NothingLeftOpen, NEW w \in Workers,
         \/ ClaimSettlementJob(w) \/ CompleteSettlementJob(w) \/ Mishap(w)
         \/ maintainLease(w) \/ Renew(w) \/ Fail(w) \/ LeaseExpires
  PROVE  VoidHolds' /\ AllHeld' /\ NothingLeftOpen'
<1>1. UNCHANGED <<match, market, books, orderVars>> /\ job'.action = job.action
  <2>1. job \in Jobs
    BY DEF TypeOK
  <2> QED BY <2>1 DEF ClaimSettlementJob, CompleteSettlementJob, Mishap, maintainLease, Renew,
                      Fail, Failing, LeaseExpires, feedVars, Jobs
<1>2. \A v \in Workers :
        worker'[v] = worker[v] \/ worker'[v].at \notin Fixing \cup Reverting
  <2> DEFINE r == [Idle EXCEPT !.revision = job.revision,
                               !.at = IF job.action = "void" THEN "voiding" ELSE "settling"]
  <2>1. \/ UNCHANGED worker
        \/ worker' = [worker EXCEPT ![w] = Idle] \/ worker' = [worker EXCEPT ![w] = r]
    BY DEF ClaimSettlementJob, CompleteSettlementJob, Mishap, maintainLease, Renew,
           Fail, Failing, LeaseExpires
  <2>2. Idle.at = "idle" /\ r.at \in {"voiding", "settling"}
    BY DEF Idle
  <2> HIDE DEF r
  <2>3. Idle.at \notin Fixing \cup Reverting /\ r.at \notin Fixing \cup Reverting
    BY <2>2 DEF Fixing, Reverting
  <2> QED BY <2>1, <2>3 DEF TypeOK
<1>3. /\ UNCHANGED <<position, resting, reserved, fills, frozen, refunded>>
  BY <1>1 DEF books, orderVars
<1>4. VoidHolds'
  <2>1. \A v \in Workers : worker'[v].at \in Reverting => market.lifecycle = "settling"
    BY <1>2 DEF VoidHolds
  <2> QED BY <1>1, <1>3, <2>1, VoidRests
<1>5. ASSUME NEW v \in Workers PROVE SeenAll(v)' /\ \A u \in Users : Handled(v, u)'
  <2>1. CASE worker'[v] = worker[v]
    BY <1>3, <2>1 DEF AllHeld, SeenAll, Handled, Cancelled, Collected, Weighed, Repaid, Paid
  <2>2. CASE worker'[v].at \notin Fixing \cup Reverting
    BY <2>2 DEF SeenAll, Handled, Cancelled, Collected, Weighed, Repaid, Fixing, Reverting
  <2> QED BY <1>2, <2>1, <2>2
<1>6. \A u \in Users : Custody(u)'
  BY <1>1, CustodyRests DEF AllHeld
<1> QED BY <1>1, <1>3, <1>4, <1>5, <1>6, ClosedRests DEF AllHeld

-----------------------------------------------------------------------------
(* The settlement.                                                         *)

\* One step of the only processor at work, the market left as it is.
LEMMA StepHeld ==
  ASSUME TypeOK, Flow, VoidHolds, AllHeld, NothingLeftOpen, NEW w \in Workers,
         worker[w].at # "idle", Stepping, UNCHANGED market,
         NEW r, worker' = worker \/ worker' = [worker EXCEPT ![w] = r],
         \A u \in Users : Custody(u)' /\ Handled(w, u)', SeenAll(w)',
         \A u \in Users : frozen'[u].set => frozen[u].set \/ job.action = "void",
         worker'[w].at \in Reverting => market.lifecycle = "settling",
         market.lifecycle \in Closed => UNCHANGED <<position, resting, reserved>>
  PROVE  VoidHolds' /\ AllHeld' /\ NothingLeftOpen'
<1>1. UNCHANGED <<match, market, job>>
  BY DEF Stepping
<1>2. \A v \in Workers : v # w =>
        worker'[v].at \notin Fixing \cup Reverting
        /\ SeenAll(v)' /\ \A u \in Users : Handled(v, u)'
  BY OthersRest DEF Flow
<1>3. VoidHolds'
  BY <1>1, <1>2, VoidRests
<1>4. NothingLeftOpen'
  BY ClosedRests
<1> QED BY <1>2, <1>3, <1>4 DEF AllHeld

\* The same where the step moves no books.
LEMMA QuietHeld ==
  ASSUME TypeOK, Flow, VoidHolds, AllHeld, NothingLeftOpen, NEW w \in Workers,
         worker[w].at # "idle", Stepping, UNCHANGED <<market, books, orderVars>>,
         NEW r, worker' = [worker EXCEPT ![w] = r],
         \A u \in Users : Handled(w, u)', SeenAll(w)',
         worker'[w].at \in Reverting => market.lifecycle = "settling"
  PROVE  VoidHolds' /\ AllHeld' /\ NothingLeftOpen'
<1>1. \A u \in Users : Custody(u)'
  BY CustodyRests DEF AllHeld
<1>2. UNCHANGED <<position, resting, reserved, frozen>>
  BY DEF books, orderVars
<1> QED BY <1>1, <1>2, StepHeld

\* A processor that is through with a market, or only reads it.
LEMMA LeaveHeld ==
  ASSUME TypeOK, Flow, VoidHolds, AllHeld, NothingLeftOpen, NEW w \in Workers,
         worker[w].at # "idle", Stepping, UNCHANGED <<market, books, orderVars>>,
         NEW r, worker' = [worker EXCEPT ![w] = r], r.at \notin Fixing \cup Reverting
  PROVE  VoidHolds' /\ AllHeld' /\ NothingLeftOpen'
<1>1. worker'[w].at \notin Fixing \cup Reverting
  BY DEF TypeOK
<1>2. SeenAll(w)' /\ \A u \in Users : Handled(w, u)'
  BY <1>1 DEF SeenAll, Handled, Cancelled, Collected, Weighed, Repaid, Fixing, Reverting
<1> QED BY <1>1, <1>2, QuietHeld

\* A working order has a reserve.
LEMMA ReservePositive ==
  ASSUME TypeOK, NEW u \in Users
  PROVE  resting[u] > 0 \/ resting[u] = 0
<1>1. resting[u] \in Prices \cup {0}
  BY DEF TypeOK
<1>2. \A p \in Prices : p > 0
  BY SettlementAssumption
<1> QED BY <1>1, <1>2

\* Amounts are integers.
LEMMA RestingInt ==
  ASSUME TypeOK, NEW u \in Users
  PROVE  resting[u] \in Int /\ position[u].collateral \in Int
<1>1. resting[u] \in Prices \cup {0}
  BY DEF TypeOK
<1>2. \A p \in Prices : p \in Int
  BY SettlementAssumption
<1>3. position[u].collateral \in Int
  BY DEF TypeOK
<1> QED BY <1>1, <1>2, <1>3

\* Cancelling a listed order returns its reserve.
LEMMA CancelHeld ==
  ASSUME TypeOK, Flow, VoidHolds, AllHeld, NothingLeftOpen, NEW w \in Workers,
         NEW u \in Users, CancelOrder(w, u)
  PROVE  VoidHolds' /\ AllHeld' /\ NothingLeftOpen'
<1> DEFINE r == [worker[w] EXCEPT !.todo = @ \ {u}]
<1>1. /\ worker[w].at \in {"listing", "unlisting"} /\ u \in worker[w].todo
      /\ reserved' = [reserved EXCEPT ![u] = @ - resting[u]]
      /\ resting' = [resting EXCEPT ![u] = 0]
      /\ worker' = [worker EXCEPT ![w] = r]
      /\ Stepping /\ UNCHANGED <<market, position, cash, fills, orderVars>>
  BY DEF CancelOrder
<1>2. worker[w] \in Processors
  BY DEF TypeOK
<1>3. r.at = worker[w].at /\ r.todo = worker[w].todo \ {u}
  BY <1>2 DEF Processors
<1> HIDE DEF r
<1>4. worker'[w] = r
  BY <1>1 DEF TypeOK
<1>5. ASSUME NEW v \in Users PROVE Custody(v)'
  <2>1. /\ reserved \in [Users -> Int] /\ resting \in [Users -> Prices \cup {0}]
        /\ position \in [Users -> [lots : Int, collateral : Nat]]
    BY DEF TypeOK
  <2>2. \A p \in Prices \cup {0} : p \in Int
    BY SettlementAssumption
  <2>3. reserved'[v] = resting'[v] + (IF Unwinding(v) THEN 0 ELSE position[v].collateral)
    <3> DEFINE held == IF Unwinding(v) THEN 0 ELSE position[v].collateral
    <3>1. reserved[v] = resting[v] + held
      BY DEF AllHeld, Custody, MarginHeld
    <3>2. held \in Int
      BY <2>1
    <3> HIDE DEF held
    <3>3. reserved[v] \in Int /\ resting[v] \in Int
      BY <2>1, <2>2
    <3>4. IF v = u THEN reserved'[v] = reserved[v] - resting[v] /\ resting'[v] = 0
          ELSE reserved'[v] = reserved[v] /\ resting'[v] = resting[v]
      BY <1>1, <2>1
    <3>5. reserved'[v] = resting'[v] + held
      BY <3>1, <3>2, <3>3, <3>4
    <3> QED BY <3>5 DEF held
  <2>4. UNCHANGED <<position, fills, closing, undo, frozen, refunded>>
    BY <1>1 DEF orderVars
  <2> QED BY <2>3, <2>4
          DEF AllHeld, Custody, MarginHeld, RefundHeld, Paid, Undone, Unwinding
<1>6. ASSUME NEW v \in Users PROVE Handled(w, v)'
  <2>1. resting'[v] = (IF v = u THEN 0 ELSE resting[v])
    BY <1>1 DEF TypeOK
  <2>2. Cancelled(w, v)'
    BY <1>1, <1>3, <1>4, <2>1 DEF AllHeld, Handled, Cancelled
  <2> QED BY <1>1, <1>3, <1>4, <2>2 DEF Handled, Collected, Weighed, Repaid
<1>7. SeenAll(w)'
  BY <1>1, <1>3, <1>4 DEF SeenAll, Reverting
<1>8. /\ market.lifecycle = "settling" /\ worker[w].at # "idle"
  BY <1>1 DEF Flow, ClaimHolds, VoidHolds, Fixing, Reverting
<1>9. UNCHANGED frozen
  BY <1>1 DEF orderVars
<1> QED BY <1>1, <1>5, <1>6, <1>7, <1>8, <1>9, StepHeld DEF Closed

\* The closing fill releases the collateral of the position it flattens.
LEMMA CloseHeld ==
  ASSUME TypeOK, Flow, VoidHolds, AllHeld, NothingLeftOpen, NEW w \in Workers,
         NEW u \in Users, applySettlementFill(w, u)
  PROVE  VoidHolds' /\ AllHeld' /\ NothingLeftOpen'
<1> DEFINE r == [worker[w] EXCEPT !.todo = @ \ {u}, !.ok = @ /\ Closable(u)]
<1>1. /\ worker[w].at = "closing" /\ u \in worker[w].todo
      /\ worker' = [worker EXCEPT ![w] = r]
      /\ \/ /\ reserved' = [reserved EXCEPT ![u] = @ - position[u].collateral]
            /\ position' = [position EXCEPT ![u] = Flat]
            /\ closing' = [closing EXCEPT ![u].stage = "executed"]
         \/ UNCHANGED <<reserved, position, closing>>
      /\ Stepping /\ UNCHANGED <<market, resting, fills, undo, frozen, refunded>>
  BY DEF applySettlementFill
<1>2. worker[w] \in Processors
  BY DEF TypeOK
<1>3. r.at = "closing" /\ r.todo = worker[w].todo \ {u} /\ r.lots = worker[w].lots
  BY <1>1, <1>2 DEF Processors
<1> HIDE DEF r
<1>4. worker'[w] = r
  BY <1>1 DEF TypeOK
<1>5. market.lifecycle = "settling" /\ job.action = "settle"
  BY <1>1 DEF Flow, ClaimHolds, JobFollowed, SettleStages, Fixing
<1>6. ASSUME NEW v \in Users PROVE Custody(v)'
  <2>1. /\ reserved \in [Users -> Int] /\ resting \in [Users -> Prices \cup {0}]
        /\ position \in [Users -> [lots : Int, collateral : Nat]]
        /\ closing \in [Users -> [stage : {"none", "open", "executed"}, revision : Nat, lots : Int]]
        /\ \A p \in Prices \cup {0} : p \in Int
    BY SettlementAssumption DEF TypeOK
  <2>2. Custody(v) /\ ~frozen[v].set /\ ~refunded[v].set /\ ~Undone(v) /\ ~Unwinding(v)
    BY <1>5, NoneFrozen DEF AllHeld, Custody
  <2>3. ~frozen'[v].set /\ ~refunded'[v].set /\ ~Undone(v)' /\ ~Unwinding(v)'
    BY <1>1, <2>2 DEF Undone, Unwinding
  <2>4. /\ closing'[v].stage = "open" => closing'[v] = closing[v]
        /\ \/ position'[v] = position[v] /\ reserved'[v] = reserved[v]
           \/ position'[v] = Flat /\ reserved'[v] = reserved[v] - position[v].collateral
    BY <1>1, <2>1
  <2>5. reserved[v] = resting[v] + position[v].collateral /\ resting[v] \in Int
        /\ position[v].collateral \in Int /\ resting'[v] = resting[v]
    BY <1>1, <2>1, <2>2 DEF Custody, MarginHeld
  <2>6. reserved'[v] = resting'[v] + position'[v].collateral
    BY <2>1, <2>4, <2>5 DEF Flat
  <2>7. MarginHeld(v)'
    BY <2>2, <2>3, <2>4, <2>6 DEF MarginHeld, Custody, Flat
  <2>8. RefundHeld(v)'
    BY <2>3 DEF RefundHeld
  <2> QED BY <2>2, <2>4, <2>7, <2>8 DEF Custody
<1>7. ASSUME NEW v \in Users PROVE Handled(w, v)'
  <2>1. Handled(w, v)
    BY DEF AllHeld
  <2> QED BY <1>1, <1>3, <1>4, <2>1
          DEF Handled, Cancelled, Collected, Weighed, Repaid, Fixing
<1>8. SeenAll(w)'
  BY <1>3, <1>4 DEF SeenAll, Reverting
<1>9. worker'[w].at \notin Reverting /\ worker[w].at # "idle"
  BY <1>1, <1>3, <1>4 DEF Reverting
<1> QED BY <1>1, <1>5, <1>6, <1>7, <1>8, <1>9, StepHeld DEF Closed

\* A market may be settled when its processor found nothing open on it.
LEMMA SettledHeld ==
  ASSUME TypeOK, Flow, VoidHolds, AllHeld, NothingLeftOpen, NEW w \in Workers, SetSettled(w)
  PROVE  VoidHolds' /\ AllHeld' /\ NothingLeftOpen'
<1>1. worker[w].at = "closed"
  BY DEF SetSettled
<1>2. CASE Fail(w)
  BY <1>2, JobHeld
<1>3. CASE ~Fail(w)
  <2> DEFINE d == [worker[w] EXCEPT !.at = "done"]
  <2>1. Stepping /\ worker' = [worker EXCEPT ![w] = d] /\ UNCHANGED <<books, orderVars>>
    BY <1>3 DEF SetSettled, SetGate, Goto
  <2>2. d.at = "done"
    BY DEF TypeOK, Processors
  <2> HIDE DEF d
  <2>3. worker'[w].at \notin Fixing \cup Reverting
    BY <2>1, <2>2 DEF TypeOK, Fixing, Reverting
  <2>4. job.action = "settle" /\ UNCHANGED <<match, job, position, resting, reserved, frozen>>
    BY <1>1, <2>1 DEF Flow, JobFollowed, SettleStages, Fixing, Stepping, books, orderVars
  <2>5. /\ \A v \in Workers : v # w =>
             /\ worker'[v].at \notin Fixing \cup Reverting
             /\ SeenAll(v)' /\ \A u \in Users : Handled(v, u)'
    BY <1>1, <2>1, OthersRest DEF Flow
  <2>6. SeenAll(w)' /\ \A u \in Users : Handled(w, u)'
    BY <2>3 DEF SeenAll, Handled, Cancelled, Collected, Weighed, Repaid, Fixing, Reverting
  <2>7. VoidHolds'
    BY <2>3, <2>4, <2>5 DEF VoidHolds
  <2>8. \A u \in Users : Custody(u)'
    BY <2>1, CustodyRests DEF AllHeld
  <2>9. ASSUME NEW u \in Users
        PROVE  position[u].lots = 0 /\ resting[u] = 0 /\ reserved[u] = 0
    <3>1. position[u].lots = 0 /\ resting[u] = 0
      BY <1>1 DEF AllHeld, Handled, Collected, Cancelled, Fixing
    <3>2. ~Unwinding(u) /\ MarginHeld(u)
      BY <2>4, NoneFrozen DEF AllHeld, Custody
    <3> QED BY <3>1, <3>2 DEF MarginHeld
  <2>10. NothingLeftOpen'
    BY <2>4, <2>9 DEF NothingLeftOpen, Open
  <2> QED BY <2>5, <2>6, <2>7, <2>8, <2>10 DEF AllHeld
<1> QED BY <1>2, <1>3

\* Every step of a settlement keeps custody.
LEMMA SettleHeld ==
  ASSUME TypeOK, Flow, VoidHolds, AllHeld, NothingLeftOpen, NEW w \in Workers, Settle(w)
  PROVE  VoidHolds' /\ AllHeld' /\ NothingLeftOpen'
<1> DEFINE Goal == VoidHolds' /\ AllHeld' /\ NothingLeftOpen'
<1>1. worker[w] \in Processors /\ worker \in [Workers -> Processors]
  BY DEF TypeOK
<1>2. CASE Fail(w)
  BY <1>2, JobHeld
<1>3. CASE ReadMarket(w) /\ ~Fail(w)
  <2> DEFINE d == [worker[w] EXCEPT !.at = "done"]
             r == [worker[w] EXCEPT !.at = "reading", !.score = market.score]
  <2>1. d.at = "done" /\ r.at = "reading"
    BY <1>1 DEF Processors
  <2>2. /\ Stepping /\ UNCHANGED <<market, books, orderVars>> /\ worker[w].at # "idle"
        /\ worker' = [worker EXCEPT ![w] = d] \/ worker' = [worker EXCEPT ![w] = r]
    BY <1>3 DEF ReadMarket, Goto
  <2> HIDE DEF d, r
  <2>3. d.at \notin Fixing \cup Reverting /\ r.at \notin Fixing \cup Reverting
    BY <2>1 DEF Fixing, Reverting
  <2> QED BY <2>2, <2>3, LeaveHeld
<1>4. CASE ClaimProviderSettlement(w) /\ ~Fail(w)
  <2> DEFINE todo == {u \in Users : resting[u] > 0}
             r == [worker[w] EXCEPT !.at = "listing", !.todo = todo]
  <2>1. /\ Stepping /\ UNCHANGED <<books, orderVars>> /\ worker[w].at = "reading"
        /\ worker' = [worker EXCEPT ![w] = r] /\ market.lifecycle = "settling"
        /\ market' = [market EXCEPT !.claimed = worker[w].revision]
    BY <1>4 DEF ClaimProviderSettlement, Claims
  <2>2. r.at = "listing" /\ r.todo = todo
    BY <1>1 DEF Processors
  <2> HIDE DEF r
  <2>3. worker'[w] = r
    BY <1>1, <2>1
  <2>4. SeenAll(w)'
    BY <2>2, <2>3 DEF SeenAll, Reverting
  <2>5. ASSUME NEW u \in Users PROVE Handled(w, u)'
    <3>1. resting[u] > 0 \/ resting[u] = 0
      BY ReservePositive
    <3> QED BY <2>1, <2>2, <2>3, <3>1
            DEF Handled, Cancelled, Collected, Weighed, Repaid, Fixing, Reverting, books
  <2>6. \A v \in Workers : v # w =>
          /\ worker'[v].at \notin Fixing \cup Reverting
          /\ SeenAll(v)' /\ \A u \in Users : Handled(v, u)'
    BY <2>1, OthersRest DEF Flow
  <2>7. \A u \in Users : Custody(u)'
    BY <2>1, CustodyRests DEF AllHeld
  <2>8. VoidHolds'
    <3>1. job.action = "settle" /\ worker'[w].at \notin Reverting
      BY <2>1, <2>2, <2>3 DEF Flow, JobFollowed, SettleStages, Reverting
    <3>2. UNCHANGED <<job, frozen>>
      BY <2>1 DEF Stepping, orderVars
    <3> QED BY <2>6, <3>1, <3>2 DEF VoidHolds
  <2>9. market'.lifecycle = "settling"
    BY <2>1 DEF TypeOK, Markets
  <2> QED BY <2>4, <2>5, <2>6, <2>7, <2>8, <2>9 DEF AllHeld, NothingLeftOpen
<1>5. CASE collectOpenPositions(w)
  <2> DEFINE r == [worker[w] EXCEPT !.at = "closing", !.todo = Open, !.lots = Lots]
  <2>1. /\ Stepping /\ UNCHANGED <<market, books, orderVars>> /\ worker[w].at = "listing"
        /\ worker' = [worker EXCEPT ![w] = r] /\ worker[w].todo = {}
    BY <1>5 DEF collectOpenPositions
  <2>2. r.at = "closing" /\ r.todo = Open /\ r.lots = Lots
    BY <1>1 DEF Processors
  <2> HIDE DEF r
  <2>3. worker'[w] = r
    BY <1>1, <2>1
  <2>4. SeenAll(w)' /\ worker'[w].at \notin Reverting
    BY <2>2, <2>3 DEF SeenAll, Reverting
  <2>5. ASSUME NEW u \in Users PROVE Handled(w, u)'
    <3>1. resting[u] = 0
      BY <2>1 DEF AllHeld, Handled, Cancelled
    <3>2. job.action = "settle"
      BY <2>1 DEF Flow, JobFollowed, SettleStages, Fixing
    <3>3. ~Unwinding(u) /\ MarginHeld(u)
      BY <3>2, NoneFrozen DEF AllHeld, Custody
    <3>4. u \in Open => Lots[u] \in {-1, 1}
      BY <3>3 DEF MarginHeld, Open, Lots
    <3> QED BY <2>1, <2>2, <2>3, <3>1, <3>4
            DEF Handled, Cancelled, Collected, Weighed, Repaid, Fixing, Reverting, books
  <2> QED BY <2>1, <2>4, <2>5, QuietHeld
<1>6. ASSUME NEW u \in Users, FindOrCreate(w, u) PROVE Goal
  <2>1. /\ worker[w].at = "closing" /\ u \in worker[w].todo
        /\ closing' = [closing EXCEPT ![u] = [stage |-> "open", lots |-> worker[w].lots[u],
                                               revision |-> worker[w].revision]]
        /\ Stepping /\ UNCHANGED <<market, worker, books, undo, frozen, refunded>>
    BY <1>6 DEF FindOrCreate
  <2>2. worker[w].lots[u] \in {-1, 1}
    BY <2>1 DEF AllHeld, Handled, Collected
  <2>3. ASSUME NEW v \in Users PROVE Custody(v)'
    <3>1. closing'[v].stage = "open" => closing'[v].lots \in {-1, 1}
      BY <2>1, <2>2 DEF TypeOK, AllHeld, Custody
    <3>2. MarginHeld(v)' /\ RefundHeld(v)'
      BY <2>1 DEF AllHeld, Custody, MarginHeld, RefundHeld, Paid, Undone, Unwinding, books
    <3> QED BY <3>1, <3>2 DEF Custody
  <2>4. SeenAll(w)' /\ \A v \in Users : Handled(w, v)'
    BY <2>1 DEF AllHeld, SeenAll, Handled, Cancelled, Collected, Weighed, Repaid, Paid, books
  <2>5. /\ worker'[w].at \notin Reverting /\ worker[w].at # "idle"
        /\ UNCHANGED <<position, resting, reserved>>
    BY <2>1 DEF Reverting, books
  <2> QED BY <2>1, <2>3, <2>4, <2>5, StepHeld
<1>7. CASE Recheck(w) /\ ~Fail(w)
  <2> DEFINE r == [worker[w] EXCEPT !.at = "closed"]
  <2>1. /\ Stepping /\ UNCHANGED <<market, books, orderVars>> /\ worker[w].at = "closing"
        /\ worker' = [worker EXCEPT ![w] = r] /\ Open = {}
    BY <1>7 DEF Recheck, Goto
  <2>2. r.at = "closed"
    BY <1>1 DEF Processors
  <2> HIDE DEF r
  <2>3. worker'[w] = r
    BY <1>1, <2>1
  <2>4. SeenAll(w)' /\ worker'[w].at \notin Reverting
    BY <2>2, <2>3 DEF SeenAll, Reverting
  <2>5. ASSUME NEW u \in Users PROVE Handled(w, u)'
    <3>1. resting[u] = 0 /\ position[u].lots = 0
      BY <2>1 DEF AllHeld, Handled, Cancelled, Fixing, Open
    <3> QED BY <2>1, <2>2, <2>3, <3>1
            DEF Handled, Cancelled, Collected, Weighed, Repaid, Fixing, Reverting, books
  <2> QED BY <2>1, <2>4, <2>5, QuietHeld
<1> QED BY <1>2, <1>3, <1>4, <1>5, <1>6, <1>7, CancelHeld, CloseHeld, SettledHeld DEF Settle

-----------------------------------------------------------------------------
(* The void.                                                               *)

\* The compensation frozen for a user is the one weighed now, or an earlier
\* one of the same cash.
LEMMA FreezeHeld ==
  ASSUME TypeOK, Flow, VoidHolds, AllHeld, NothingLeftOpen, NEW w \in Workers,
         NEW u \in Users, FreezeProviderVoidCompensation(w, u)
  PROVE  VoidHolds' /\ AllHeld' /\ NothingLeftOpen'
<1>1. CASE Fail(w)
  BY <1>1, JobHeld
<1>2. CASE ~Fail(w)
  <2> DEFINE kept == Frozen(u, worker[w].comp[u])
             comp == [worker[w].comp EXCEPT ![u] = kept]
             r == [worker[w] EXCEPT !.todo = @ \ {u}, !.comp[u] = kept]
  <2>1. /\ worker[w].at = "freezing" /\ u \in worker[w].todo
        /\ kept.cash = worker[w].comp[u].cash
        /\ frozen' = [frozen EXCEPT ![u] = kept] /\ worker' = [worker EXCEPT ![w] = r]
        /\ Stepping /\ UNCHANGED <<market, books, closing, undo, refunded>>
    BY <1>2 DEF FreezeProviderVoidCompensation
  <2>2. worker[w] \in Processors /\ frozen \in [Users -> Comps]
    BY DEF TypeOK
  <2>3. job.action = "void" /\ market.lifecycle = "settling"
    BY <2>1 DEF Flow, JobFollowed, VoidHolds, VoidStages, Reverting
  <2>4. /\ worker[w].comp[u].set /\ worker[w].comp[u].cash = CashDelta(fills, u)
        /\ ~frozen[u].set => worker[w].comp[u].reserved = -position[u].collateral
    BY <2>1 DEF AllHeld, Handled, Weighed
  <2>5. /\ kept.set /\ kept.cash = CashDelta(fills, u)
        /\ IF frozen[u].set THEN kept = frozen[u]
           ELSE kept.reserved = -position[u].collateral
    BY <2>1, <2>4 DEF Frozen
  <2> HIDE DEF kept
  <2>6. /\ r.at = "freezing" /\ r.todo = worker[w].todo \ {u} /\ r.comp = comp
        /\ r.seen = worker[w].seen
    BY <2>1, <2>2 DEF Processors
  <2>7. comp[u] = kept /\ \A v \in Users : v # u => comp[v] = worker[w].comp[v]
    BY <2>2 DEF Processors
  <2>8. frozen'[u] = kept /\ \A v \in Users : v # u => frozen'[v] = frozen[v]
    BY <2>1, <2>2
  <2> HIDE DEF comp, r
  <2>9. worker'[w] = r
    BY <2>1 DEF TypeOK
  <2>10. UNCHANGED <<position, resting, reserved, fills>>
    BY <2>1 DEF books
  <2>11. ASSUME NEW v \in Users PROVE Custody(v)'
    <3>1. CASE frozen'[v] = frozen[v]
      BY <2>1, <2>10, <3>1 DEF AllHeld, Custody, MarginHeld, RefundHeld, Paid, Undone, Unwinding
    <3>2. CASE frozen'[v] # frozen[v]
      <4>1. v = u /\ ~frozen[u].set
        BY <2>5, <2>8, <3>2
      <4>2. ~refunded[u].set /\ ~Undone(u) /\ Custody(u)
        BY <4>1 DEF AllHeld, Custody, RefundHeld, Paid
      <4>3. ~refunded'[u].set /\ ~Undone(u)'
        BY <2>1, <2>10, <4>2 DEF Undone
      <4>4. RefundHeld(u)'
        BY <2>5, <2>8, <2>10, <4>1, <4>3 DEF RefundHeld
      <4>5. MarginHeld(u)'
        BY <2>1, <2>10, <4>2 DEF Custody, MarginHeld, Undone, Unwinding
      <4> QED BY <2>1, <4>1, <4>2, <4>4, <4>5 DEF Custody
    <3> QED BY <3>1, <3>2
  <2>12. ASSUME NEW v \in Users PROVE Handled(w, v)'
    <3>1. Handled(w, v)
      BY DEF AllHeld
    <3>2. Cancelled(w, v)' /\ Collected(w, v)' /\ Repaid(w, v)'
      BY <2>1, <2>6, <2>9, <2>10, <3>1 DEF Handled, Cancelled, Collected, Repaid
    <3>3. Weighed(w, v)'
      <4>1. CASE v = u
        BY <2>5, <2>6, <2>7, <2>8, <2>9, <2>10, <4>1 DEF Weighed
      <4>2. CASE v # u
        BY <2>1, <2>6, <2>7, <2>8, <2>9, <2>10, <3>1, <4>2 DEF Handled, Weighed
      <4> QED BY <4>1, <4>2
    <3> QED BY <3>2, <3>3 DEF Handled
  <2>13. SeenAll(w)'
    BY <2>1, <2>6, <2>9, <2>10 DEF AllHeld, SeenAll, Reverting
  <2> QED BY <2>1, <2>3, <2>10, <2>11, <2>12, <2>13, StepHeld
<1> QED BY <1>1, <1>2

\* The wallet is moved by the frozen compensation, once.
LEMMA RefundStepHeld ==
  ASSUME TypeOK, Flow, VoidHolds, VoidWork, AllHeld, NothingLeftOpen, NEW w \in Workers,
         NEW u \in Users, ReverseProviderContract(w, u)
  PROVE  VoidHolds' /\ AllHeld' /\ NothingLeftOpen'
<1>1. CASE Fail(w)
  BY <1>1, JobHeld
<1>2. CASE ~Fail(w)
  <2> DEFINE comp == [worker[w].comp[u] EXCEPT !.hash = {}]
             r == [worker[w] EXCEPT !.todo = @ \ {u}]
  <2>1. /\ worker[w].at = "refunding" /\ u \in worker[w].todo
        /\ worker' = [worker EXCEPT ![w] = r]
        /\ refunded' = [refunded EXCEPT ![u] = comp]
        /\ IF refunded[u].set THEN refunded[u] = comp /\ UNCHANGED reserved
           ELSE reserved' = [reserved EXCEPT ![u] = @ + comp.reserved]
        /\ Stepping
        /\ UNCHANGED <<market, position, resting, fills, closing, undo, frozen>>
    BY <1>2 DEF ReverseProviderContract, Replayed
  <2>2. worker[w] \in Processors /\ refunded \in [Users -> Comps]
        /\ reserved \in [Users -> Int] /\ frozen \in [Users -> Comps]
    BY DEF TypeOK
  <2>3. job.action = "void" /\ market.lifecycle = "settling"
    BY <2>1 DEF Flow, JobFollowed, VoidHolds, VoidStages, Reverting
  <2>4. frozen[u].set /\ worker[w].comp[u] = frozen[u]
    BY <2>1 DEF AllHeld, Handled, Repaid
  <2>5. comp.set /\ comp.cash = frozen[u].cash /\ comp.reserved = frozen[u].reserved
    BY <2>2, <2>4 DEF Comps
  <2>6. r.at = "refunding" /\ r.todo = worker[w].todo \ {u} /\ r.comp = worker[w].comp
        /\ r.seen = worker[w].seen
    BY <2>1, <2>2 DEF Processors
  <2> HIDE DEF comp, r
  <2>7. worker'[w] = r
    BY <2>1 DEF TypeOK
  <2>8. refunded'[u] = comp /\ \A v \in Users : v # u => refunded'[v] = refunded[v]
    BY <2>1, <2>2
  <2>9. ASSUME NEW v \in Users PROVE Custody(v)'
    <3>1. Custody(v)
      BY DEF AllHeld
    <3>2. CASE refunded'[v] = refunded[v]
      <4>1. reserved'[v] = reserved[v]
        BY <2>1, <2>2, <2>5, <2>8, <3>2
      <4> QED BY <2>1, <3>1, <3>2, <4>1
              DEF Custody, MarginHeld, RefundHeld, Paid, Undone, Unwinding
    <3>3. CASE refunded'[v] # refunded[v]
      <4>1. v = u /\ ~refunded[u].set /\ reserved'[u] = reserved[u] + frozen[u].reserved
        BY <2>1, <2>2, <2>5, <2>8, <3>3
      <4>2. Unwinding(u)' /\ refunded'[u].set
        BY <2>5, <2>8 DEF Unwinding
      <4>3. reserved'[u] = resting[u]
        <5>1. CASE Undone(u)
          <6>1. frozen[u].reserved = 0
            BY <3>1, <4>1, <5>1 DEF Custody, RefundHeld, Paid
          <6>2. reserved[u] = resting[u] + 0
            BY <3>1, <4>1, <5>1, UnwindingIs DEF Custody, MarginHeld
          <6> QED BY <2>2, <4>1, <6>1, <6>2, RestingInt
        <5>2. CASE ~Undone(u)
          <6>1. ~Unwinding(u)
            BY <4>1, <5>2, UnwindingIs
          <6>2. frozen[u].reserved = -position[u].collateral
            BY <2>4, <3>1, <4>1, <6>1 DEF Custody, RefundHeld
          <6>3. reserved[u] = resting[u] + position[u].collateral
            BY <3>1, <4>1, <6>1 DEF Custody, MarginHeld
          <6> QED BY <2>2, <4>1, <6>2, <6>3, RestingInt
        <5> QED BY <5>1, <5>2
      <4>4. MarginHeld(u)'
        BY <2>1, <3>1, <4>1, <4>2, <4>3, RestingInt DEF Custody, MarginHeld
      <4>5. RefundHeld(u)'
        BY <2>1, <2>4, <2>5, <2>8, <3>1, <4>1, <4>2 DEF Custody, RefundHeld, Paid
      <4> QED BY <2>1, <3>1, <4>1, <4>4, <4>5 DEF Custody
    <3> QED BY <3>2, <3>3
  <2>10. ASSUME NEW v \in Users PROVE Handled(w, v)'
    <3>1. Handled(w, v)
      BY DEF AllHeld
    <3>2. Cancelled(w, v)' /\ Collected(w, v)' /\ Weighed(w, v)'
      BY <2>1, <2>6, <2>7, <3>1 DEF Handled, Cancelled, Collected, Weighed
    <3>3. Paid(u)' /\ (Paid(v) => Paid(v)')
      BY <2>1, <2>4, <2>5, <2>8 DEF Paid
    <3>4. Repaid(w, v)'
      BY <2>1, <2>6, <2>7, <3>1, <3>3 DEF Handled, Repaid
    <3> QED BY <3>2, <3>4 DEF Handled
  <2>11. SeenAll(w)'
    BY <2>1, <2>6, <2>7 DEF AllHeld, SeenAll, Reverting
  <2> QED BY <2>1, <2>3, <2>9, <2>10, <2>11, StepHeld DEF Closed
<1> QED BY <1>1, <1>2

\* A void reads its market, cancels, lists the executions and weighs them.
LEMMA WeighHeld ==
  ASSUME TypeOK, Flow, VoidHolds, AllHeld, NothingLeftOpen, NEW w \in Workers,
         \/ ReadVoidable(w) \/ ListExecutions(w) \/ providerVoidCompensations(w)
  PROVE  VoidHolds' /\ AllHeld' /\ NothingLeftOpen'
<1> DEFINE Goal == VoidHolds' /\ AllHeld' /\ NothingLeftOpen'
<1>1. worker[w] \in Processors /\ worker \in [Workers -> Processors]
  BY DEF TypeOK
<1>2. CASE Fail(w)
  BY <1>2, JobHeld
<1>3. ASSUME ReadVoidable(w), ~Fail(w) PROVE Goal
  <2> DEFINE todo == {u \in Users : resting[u] > 0}
             d == [worker[w] EXCEPT !.at = "done"]
             r == [worker[w] EXCEPT !.at = "unlisting", !.todo = todo]
  <2>1. d.at = "done" /\ r.at = "unlisting" /\ r.todo = todo
    BY <1>1 DEF Processors
  <2>2. /\ Stepping /\ UNCHANGED <<market, books, orderVars>> /\ worker[w].at # "idle"
        /\ \/ worker' = [worker EXCEPT ![w] = d]
           \/ worker' = [worker EXCEPT ![w] = r] /\ market.lifecycle = "settling"
    BY <1>3 DEF ReadVoidable, Goto
  <2> HIDE DEF d, r
  <2>3. CASE worker' = [worker EXCEPT ![w] = d]
    <3>1. d.at \notin Fixing \cup Reverting
      BY <2>1 DEF Fixing, Reverting
    <3> QED BY <2>2, <2>3, <3>1, LeaveHeld
  <2>4. CASE worker' = [worker EXCEPT ![w] = r] /\ market.lifecycle = "settling"
    <3>1. worker'[w] = r /\ UNCHANGED resting
      BY <1>1, <2>2, <2>4 DEF books
    <3>2. SeenAll(w)'
      BY <2>1, <3>1 DEF SeenAll
    <3>3. ASSUME NEW u \in Users PROVE Handled(w, u)'
      <4>1. resting[u] > 0 \/ resting[u] = 0
        BY ReservePositive
      <4> QED BY <2>1, <3>1, <4>1
              DEF Handled, Cancelled, Collected, Weighed, Repaid, Fixing, Reverting
    <3> QED BY <2>2, <2>4, <3>2, <3>3, QuietHeld
  <2> QED BY <2>2, <2>3, <2>4
<1>4. ASSUME ListExecutions(w) PROVE Goal
  <2> DEFINE r == [worker[w] EXCEPT !.at = "weighing", !.seen = fills]
  <2>1. r.at = "weighing" /\ r.seen = fills
    BY <1>1 DEF Processors
  <2>2. /\ Stepping /\ UNCHANGED <<market, books, orderVars>> /\ worker[w].at = "unlisting"
        /\ worker' = [worker EXCEPT ![w] = r] /\ worker[w].todo = {}
    BY <1>4 DEF ListExecutions
  <2> HIDE DEF r
  <2>3. worker'[w] = r /\ UNCHANGED <<resting, fills>>
    BY <1>1, <2>2 DEF books
  <2>4. SeenAll(w)'
    BY <2>1, <2>3 DEF SeenAll
  <2>5. ASSUME NEW u \in Users PROVE Handled(w, u)'
    <3>1. resting[u] = 0
      BY <2>2 DEF AllHeld, Handled, Cancelled
    <3> QED BY <2>1, <2>3, <3>1 DEF Handled, Cancelled, Collected, Weighed, Repaid
  <2>6. market.lifecycle = "settling"
    BY <2>2 DEF VoidHolds, Reverting
  <2> QED BY <2>2, <2>4, <2>5, <2>6, QuietHeld
<1>5. ASSUME providerVoidCompensations(w) PROVE Goal
  <2> DEFINE c == [u \in Users |->
                     [set |-> TRUE, cash |-> CashDelta(worker[w].seen, u),
                      reserved |-> -position[u].collateral,
                      hash |-> FillsOf(worker[w].seen, u)]]
             t == {u \in Users : FillsOf(worker[w].seen, u) # {}}
  <2>1. PICK todo, comp :
          /\ todo = t /\ comp = c
          /\ worker' = [worker EXCEPT ![w] =
                          [worker[w] EXCEPT !.at = "freezing", !.todo = todo, !.comp = comp]]
    <3>1. worker' = [worker EXCEPT ![w] =
                       [worker[w] EXCEPT !.at = "freezing", !.todo = t, !.comp = c]]
      BY <1>5 DEF providerVoidCompensations
    <3> HIDE DEF t, c
    <3> QED BY <3>1
  <2> DEFINE r == [worker[w] EXCEPT !.at = "freezing", !.todo = todo, !.comp = comp]
  <2>2. /\ Stepping /\ UNCHANGED <<market, books, orderVars>> /\ worker[w].at = "weighing"
    BY <1>5 DEF providerVoidCompensations
  <2>3. worker[w].seen = fills
    BY <2>2 DEF AllHeld, SeenAll, Reverting
  <2>4. \A u \in Users : /\ comp[u].set /\ comp[u].cash = CashDelta(fills, u)
                         /\ comp[u].reserved = -position[u].collateral
    BY <2>1, <2>3
  <2>5. \A u \in Users : FillsOf(fills, u) # {} => u \in todo
    BY <2>1, <2>3
  <2>6. r.at = "freezing" /\ r.todo = todo /\ r.comp = comp /\ r.seen = fills
    BY <1>1, <2>3 DEF Processors
  <2>7. worker' = [worker EXCEPT ![w] = r]
    BY <2>1
  <2> HIDE DEF c, t, r
  <2>8. worker'[w] = r /\ UNCHANGED <<resting, fills, position, frozen>>
    BY <1>1, <2>2, <2>7 DEF books, orderVars
  <2>9. SeenAll(w)'
    BY <2>6, <2>8 DEF SeenAll
  <2>10. ASSUME NEW u \in Users PROVE Handled(w, u)'
    <3>1. resting[u] = 0
      BY <2>2 DEF AllHeld, Handled, Cancelled, Reverting
    <3>2. Weighed(w, u)'
      BY <2>4, <2>5, <2>6, <2>8 DEF Weighed
    <3> QED BY <2>6, <2>8, <3>1, <3>2 DEF Handled, Cancelled, Collected, Repaid
  <2>11. market.lifecycle = "settling"
    BY <2>2 DEF VoidHolds, Reverting
  <2> QED BY <2>2, <2>7, <2>9, <2>10, <2>11, QuietHeld
<1> QED BY <1>2, <1>3, <1>4, <1>5

\* With everything frozen only the users who are owed something are paid, and
\* with everybody paid the executions are reversed until nothing is open.
LEMMA OrderHeld ==
  ASSUME TypeOK, Flow, VoidHolds, AllHeld, NothingLeftOpen, NEW w \in Workers,
         \/ AllFrozen(w) \/ AllRefunded(w) \/ Unwound(w)
  PROVE  VoidHolds' /\ AllHeld' /\ NothingLeftOpen'
<1> DEFINE Goal == VoidHolds' /\ AllHeld' /\ NothingLeftOpen'
<1>1. worker[w] \in Processors /\ worker \in [Workers -> Processors]
  BY DEF TypeOK
<1>2. CASE Fail(w)
  BY <1>2, JobHeld
<1>3. ASSUME AllFrozen(w) PROVE Goal
  <2> DEFINE t == {u \in Users : /\ FillsOf(worker[w].seen, u) # {}
                                 /\ \/ worker[w].comp[u].cash # 0
                                    \/ worker[w].comp[u].reserved # 0}
  <2>1. PICK todo :
          /\ todo = t
          /\ worker' = [worker EXCEPT ![w] = [worker[w] EXCEPT !.at = "refunding", !.todo = todo]]
    BY <1>3 DEF AllFrozen
  <2> DEFINE r == [worker[w] EXCEPT !.at = "refunding", !.todo = todo]
  <2>2. /\ Stepping /\ UNCHANGED <<market, books, orderVars>> /\ worker[w].at = "freezing"
        /\ worker[w].todo = {}
    BY <1>3 DEF AllFrozen
  <2>3. worker[w].seen = fills
    BY <2>2 DEF AllHeld, SeenAll, Reverting
  <2>4. \A u \in Users :
          /\ u \in todo => FillsOf(fills, u) # {}
          /\ FillsOf(fills, u) # {} /\ u \notin todo =>
               worker[w].comp[u].cash = 0 /\ worker[w].comp[u].reserved = 0
    BY <2>1, <2>3
  <2>5. r.at = "refunding" /\ r.todo = todo /\ r.comp = worker[w].comp /\ r.seen = fills
    BY <1>1, <2>3 DEF Processors
  <2>6. worker' = [worker EXCEPT ![w] = r]
    BY <2>1
  <2> HIDE DEF t, r
  <2>7. worker'[w] = r /\ UNCHANGED <<resting, fills, position, frozen, refunded>>
    BY <1>1, <2>2, <2>6 DEF books, orderVars
  <2>8. SeenAll(w)'
    BY <2>5, <2>7 DEF SeenAll
  <2>9. ASSUME NEW u \in Users PROVE Handled(w, u)'
    <3>1. resting[u] = 0
      BY <2>2 DEF AllHeld, Handled, Cancelled, Reverting
    <3>2. FillsOf(fills, u) # {} => frozen[u].set /\ worker[w].comp[u] = frozen[u]
      BY <2>2 DEF AllHeld, Handled, Weighed
    <3>3. Repaid(w, u)'
      BY <2>4, <2>5, <2>7, <3>2 DEF Repaid, Paid
    <3> QED BY <2>5, <2>7, <3>1, <3>3 DEF Handled, Cancelled, Collected, Weighed
  <2>10. market.lifecycle = "settling"
    BY <2>2 DEF VoidHolds, Reverting
  <2> QED BY <2>2, <2>6, <2>8, <2>9, <2>10, QuietHeld
<1>4. ASSUME AllRefunded(w) PROVE Goal
  <2> DEFINE r == [worker[w] EXCEPT !.at = "unwinding", !.todo = DOMAIN worker[w].seen]
  <2>1. r.at = "unwinding" /\ r.seen = worker[w].seen
    BY <1>1 DEF Processors
  <2>2. /\ Stepping /\ UNCHANGED <<market, books, orderVars>> /\ worker[w].at = "refunding"
        /\ worker' = [worker EXCEPT ![w] = r] /\ worker[w].todo = {}
    BY <1>4 DEF AllRefunded
  <2> HIDE DEF r
  <2>3. worker'[w] = r /\ UNCHANGED <<resting, fills, position, frozen, refunded>>
    BY <1>1, <2>2 DEF books, orderVars
  <2>4. SeenAll(w)'
    BY <2>1, <2>2, <2>3 DEF AllHeld, SeenAll, Reverting
  <2>5. ASSUME NEW u \in Users PROVE Handled(w, u)'
    <3>1. resting[u] = 0
      BY <2>2 DEF AllHeld, Handled, Cancelled, Reverting
    <3>2. FillsOf(fills, u) # {} => Paid(u)
      BY <2>2 DEF AllHeld, Handled, Repaid
    <3>3. Repaid(w, u)'
      BY <2>1, <2>3, <3>2 DEF Repaid, Paid
    <3> QED BY <2>1, <2>3, <3>1, <3>3 DEF Handled, Cancelled, Collected, Weighed
  <2>6. market.lifecycle = "settling"
    BY <2>2 DEF VoidHolds, Reverting
  <2> QED BY <2>2, <2>4, <2>5, <2>6, QuietHeld
<1>5. ASSUME Unwound(w), ~Fail(w) PROVE Goal
  <2> DEFINE r == [worker[w] EXCEPT !.at = "unwound"]
  <2>1. r.at = "unwound" /\ r.seen = worker[w].seen
    BY <1>1 DEF Processors
  <2>2. /\ Stepping /\ UNCHANGED <<market, books, orderVars>> /\ worker[w].at = "unwinding"
        /\ worker' = [worker EXCEPT ![w] = r] /\ Open = {}
    BY <1>5 DEF Unwound, Goto
  <2> HIDE DEF r
  <2>3. worker'[w] = r /\ UNCHANGED <<resting, fills, position, frozen, refunded>>
    BY <1>1, <2>2 DEF books, orderVars
  <2>4. SeenAll(w)'
    BY <2>1, <2>2, <2>3 DEF AllHeld, SeenAll, Reverting
  <2>5. ASSUME NEW u \in Users PROVE Handled(w, u)'
    <3>1. resting[u] = 0 /\ position[u].lots = 0
      BY <2>2 DEF AllHeld, Handled, Cancelled, Reverting, Open
    <3>2. FillsOf(fills, u) # {} => Paid(u)
      BY <2>2 DEF AllHeld, Handled, Repaid
    <3>3. Repaid(w, u)'
      BY <2>1, <2>3, <3>2 DEF Repaid, Paid
    <3> QED BY <2>1, <2>3, <3>1, <3>3 DEF Handled, Cancelled, Collected, Weighed
  <2>6. market.lifecycle = "settling"
    BY <2>2 DEF VoidHolds, Reverting
  <2> QED BY <2>2, <2>4, <2>5, <2>6, QuietHeld
<1> QED BY <1>2, <1>3, <1>4, <1>5

\* Only a short position has collateral.
LEMMA MovedFlat ==
  ASSUME NEW p, p.lots \in Int, NEW side, NEW price
  PROVE  Moved(p, side, price).lots >= 0 => Moved(p, side, price).collateral = 0
<1> DEFINE lots == p.lots + (IF side = "buy" THEN 1 ELSE -1)
<1>1. lots \in Int /\ Moved(p, side, price).lots = lots
  BY DEF Moved
<1>2. Moved(p, side, price).collateral = IF lots < 0 THEN price + Margin ELSE 0
  BY DEF Moved
<1> HIDE DEF lots
<1> QED BY <1>1, <1>2

\* An execution is reversed when its user is paid: the reversal gives the
\* collateral back without moving the wallet.
LEMMA ReverseHeld ==
  ASSUME TypeOK, Flow, VoidHolds, VoidWork, AllHeld, NothingLeftOpen, NEW w \in Workers,
         ReverseExecution(w)
  PROVE  VoidHolds' /\ AllHeld' /\ NothingLeftOpen'
<1> DEFINE n == Newest(w)
           r == [worker[w] EXCEPT !.todo = @ \ {n}]
<1>1. /\ worker[w] \in Processors /\ worker \in [Workers -> Processors]
      /\ fills \in Seq(Fills) /\ undo \in Seq({"none", "open", "executed"})
      /\ Len(undo) = Len(fills) /\ position \in [Users -> [lots : Int, collateral : Nat]]
  BY DEF TypeOK
<1>2. /\ worker[w].at = "unwinding" /\ worker[w].todo # {} /\ Stepping
      /\ UNCHANGED <<market, cash, reserved, resting, fills, closing, frozen, refunded>>
      /\ worker' = worker \/ worker' = [worker EXCEPT ![w] = r]
  BY DEF ReverseExecution
<1>3. worker[w].seen = fills
  BY <1>2 DEF AllHeld, SeenAll, Reverting
<1>4. n \in DOMAIN fills
  BY <1>1, <1>2, <1>3, NewestExists DEF VoidWork
<1> HIDE DEF n
<1> DEFINE f == fills[n]
<1>5. f \in Fills /\ f.user \in Users /\ n \in DOMAIN undo
  <2>1. n \in 1 .. Len(fills)
    BY <1>1, <1>4
  <2>2. n \in DOMAIN undo
    BY <1>1, <2>1
  <2>3. f \in Fills
    BY <1>1, <2>1
  <2> QED BY <2>2, <2>3 DEF Fills
<1>6. /\ \/ undo' = [undo EXCEPT ![n] = "open"] /\ undo[n] = "none" /\ UNCHANGED position
         \/ /\ undo' = [undo EXCEPT ![n] = "executed"] /\ undo[n] # "none"
            /\ position' = [position EXCEPT ![f.user] = Moved(@, Opposite(f.side), f.price)]
         \/ UNCHANGED <<undo, position>>
  BY <1>3 DEF ReverseExecution, n
<1>7. r.at = "unwinding" /\ r.seen = worker[w].seen
  BY <1>1, <1>2 DEF Processors
<1> HIDE DEF r
<1>8. worker'[w].at = "unwinding" /\ worker'[w].seen = worker[w].seen
  BY <1>1, <1>2, <1>7
<1>9. Paid(f.user)
  <2>1. FillsOf(fills, f.user) # {}
    BY <1>4 DEF FillsOf
  <2> QED BY <1>2, <1>5, <2>1 DEF AllHeld, Handled, Repaid
<1>10. job.action = "void" /\ market.lifecycle = "settling"
  BY <1>2 DEF Flow, JobFollowed, VoidHolds, VoidStages, Reverting
<1>11. ASSUME NEW v \in Users PROVE Custody(v)'
  <2>1. Custody(v)
    BY DEF AllHeld
  <2>2. CASE UNCHANGED <<undo, position>>
    BY <1>2, <2>1, <2>2 DEF Custody, MarginHeld, RefundHeld, Paid, Undone, Unwinding
  <2>3. CASE undo' = [undo EXCEPT ![n] = "open"] /\ undo[n] = "none" /\ UNCHANGED position
    <3>1. /\ Undone(v) => Undone(v)'
          /\ v # f.user => (Undone(v)' => Undone(v))
      BY <1>1, <1>2, <1>5, <2>3 DEF Undone
    <3>2. v = f.user => Undone(v)'
      BY <1>1, <1>2, <1>4, <1>5, <2>3 DEF Undone
    <3>3. CASE v # f.user
      <4>1. Undone(v)' <=> Undone(v)
        BY <3>1, <3>3
      <4>2. Unwinding(v)' <=> Unwinding(v)
        BY <1>2, <4>1 DEF Unwinding, Undone
      <4> QED BY <1>2, <2>1, <2>3, <4>1, <4>2 DEF Custody, MarginHeld, RefundHeld, Paid
    <3>4. CASE v = f.user
      <4>1. Unwinding(v)'
        BY <3>2, <3>4 DEF Unwinding, Undone
      <4>2. Paid(v) /\ Paid(v)'
        BY <1>2, <1>9, <3>4 DEF Paid
      <4>3. reserved[v] = resting[v]
        <5>1. CASE Unwinding(v)
          <6>1. reserved[v] = resting[v] + 0
            BY <2>1, <5>1 DEF Custody, MarginHeld
          <6> QED BY <6>1, RestingInt
        <5>2. CASE ~Unwinding(v)
          <6>1. frozen[v].set /\ frozen[v].reserved = 0
            BY <4>2, <5>2 DEF Paid, Unwinding
          <6>2. 0 = -position[v].collateral
            BY <2>1, <5>2, <6>1 DEF Custody, RefundHeld
          <6>3. reserved[v] = resting[v] + position[v].collateral
            BY <2>1, <5>2 DEF Custody, MarginHeld
          <6> QED BY <6>2, <6>3, RestingInt
        <5> QED BY <5>1, <5>2
      <4>4. MarginHeld(v)'
        BY <1>2, <2>1, <2>3, <4>1, <4>3, RestingInt DEF Custody, MarginHeld
      <4>5. RefundHeld(v)'
        BY <1>2, <2>1, <4>1, <4>2 DEF Custody, RefundHeld
      <4> QED BY <1>2, <2>1, <4>4, <4>5 DEF Custody
    <3> QED BY <3>3, <3>4
  <2>4. CASE /\ undo' = [undo EXCEPT ![n] = "executed"] /\ undo[n] # "none"
             /\ position' = [position EXCEPT ![f.user] = Moved(@, Opposite(f.side), f.price)]
    <3>1. Undone(v)' <=> Undone(v)
      BY <1>1, <1>2, <1>5, <2>4 DEF Undone
    <3>2. Unwinding(v)' <=> Unwinding(v)
      BY <1>2, <3>1, UnwindingIs DEF Unwinding, Undone
    <3>3. RefundHeld(v)'
      <4>1. position'[v] = position[v] \/ Unwinding(v)
        <5>1. v = f.user => Undone(v)
          BY <1>4, <1>5, <2>4 DEF Undone
        <5> QED BY <1>1, <2>4, <5>1, UnwindingIs
      <4> QED BY <1>2, <2>1, <3>1, <3>2, <4>1 DEF Custody, RefundHeld, Paid
    <3>4. CASE v # f.user
      <4>1. position'[v] = position[v]
        BY <1>1, <2>4, <3>4
      <4> QED BY <1>2, <2>1, <3>2, <3>3, <4>1 DEF Custody, MarginHeld
    <3>5. CASE v = f.user
      <4> DEFINE p == Moved(position[v], Opposite(f.side), f.price)
      <4>1. p.lots >= 0 => p.collateral = 0
        BY <1>1, MovedFlat
      <4>2. position'[v] = p
        BY <1>1, <1>5, <2>4, <3>5
      <4> HIDE DEF p
      <4>3. Unwinding(v)
        BY <1>4, <1>5, <2>4, <3>5 DEF Unwinding
      <4>4. MarginHeld(v)'
        BY <1>2, <2>1, <3>2, <4>1, <4>2, <4>3 DEF Custody, MarginHeld
      <4> QED BY <1>2, <2>1, <3>3, <4>4 DEF Custody
    <3> QED BY <3>4, <3>5
  <2> QED BY <1>6, <2>2, <2>3, <2>4
<1>12. ASSUME NEW v \in Users PROVE Handled(w, v)'
  <2>1. Handled(w, v)
    BY DEF AllHeld
  <2>2. resting'[v] = 0
    BY <1>2, <2>1 DEF Handled, Cancelled, Reverting
  <2>3. Repaid(w, v)'
    BY <1>2, <1>8, <2>1 DEF Handled, Repaid, Paid
  <2> QED BY <1>8, <2>2, <2>3 DEF Handled, Cancelled, Collected, Weighed
<1>13. SeenAll(w)'
  BY <1>2, <1>3, <1>8 DEF SeenAll
<1>14. \A u \in Users : frozen'[u].set => frozen[u].set
  BY <1>2
<1> QED BY <1>2, <1>10, <1>11, <1>12, <1>13, <1>14, StepHeld DEF Closed

\* A market may be voided when its processor found nothing open on it.
LEMMA VoidedHeld ==
  ASSUME TypeOK, Flow, VoidHolds, AllHeld, NothingLeftOpen, NEW w \in Workers, SetVoid(w)
  PROVE  VoidHolds' /\ AllHeld' /\ NothingLeftOpen'
<1>1. worker[w].at = "unwound"
  BY DEF SetVoid
<1>2. CASE Fail(w)
  BY <1>2, JobHeld
<1>3. CASE ~Fail(w)
  <2> DEFINE d == [worker[w] EXCEPT !.at = "done"]
             t == SetProviderMarketGate(Now, "void", FALSE, NoFinal)
             k == Regated(market, "void", FALSE, NoFinal)
  <2>1. /\ Stepping /\ worker' = [worker EXCEPT ![w] = d] /\ UNCHANGED <<books, orderVars>>
        /\ market' = t.market
    BY <1>3 DEF SetVoid, SetGate, Goto
  <2>2. d.at = "done"
    BY DEF TypeOK, Processors
  <2>3. /\ Now.ok /\ Now.market = market /\ Now \in Txs
    BY DEF Now, Tx, Txs, TypeOK
  <2>4. t.market = market \/ t.market = k
    BY <2>3 DEF SetProviderMarketGate, Abort, Txs
  <2>5. k.claimed = market.claimed /\ k.lifecycle = "void"
    BY DEF Regated
  <2> HIDE DEF d, t, k
  <2>6. market'.claimed = market.claimed /\ market'.lifecycle \in {market.lifecycle, "void"}
    BY <2>1, <2>4, <2>5
  <2>7. worker'[w].at \notin Fixing \cup Reverting
    BY <2>1, <2>2 DEF TypeOK, Fixing, Reverting
  <2>8. /\ job.action = "void" /\ market.claimed = 0 /\ market.lifecycle = "settling"
        /\ UNCHANGED <<match, job, position, resting, reserved, frozen>>
    BY <1>1, <2>1
    DEF Flow, JobFollowed, VoidStages, VoidHolds, Reverting, Stepping, books, orderVars
  <2>9. \A v \in Workers : v # w =>
          /\ worker'[v].at \notin Fixing \cup Reverting
          /\ SeenAll(v)' /\ \A u \in Users : Handled(v, u)'
    BY <1>1, <2>1, OthersRest DEF Flow
  <2>10. SeenAll(w)' /\ \A u \in Users : Handled(w, u)'
    BY <2>7 DEF SeenAll, Handled, Cancelled, Collected, Weighed, Repaid, Fixing, Reverting
  <2>11. VoidHolds'
    BY <2>6, <2>7, <2>8, <2>9 DEF VoidHolds
  <2>12. \A u \in Users : Custody(u)'
    BY <2>1, CustodyRests DEF AllHeld
  <2>13. ASSUME NEW u \in Users
         PROVE  position[u].lots = 0 /\ resting[u] = 0 /\ reserved[u] = 0
    <3>1. position[u].lots = 0 /\ resting[u] = 0
      BY <1>1 DEF AllHeld, Handled, Collected, Cancelled, Reverting
    <3> QED BY <3>1 DEF AllHeld, Custody, MarginHeld
  <2>14. NothingLeftOpen'
    BY <2>8, <2>13 DEF NothingLeftOpen, Open
  <2> QED BY <2>9, <2>10, <2>11, <2>12, <2>14 DEF AllHeld
<1> QED BY <1>2, <1>3

\* Every step of a void keeps custody.
LEMMA VoidHeld ==
  ASSUME TypeOK, Flow, VoidHolds, VoidWork, AllHeld, NothingLeftOpen, NEW w \in Workers, Void(w)
  PROVE  VoidHolds' /\ AllHeld' /\ NothingLeftOpen'
BY WeighHeld, OrderHeld, FreezeHeld, RefundStepHeld, ReverseHeld, VoidedHeld DEF Void

-----------------------------------------------------------------------------

\* Nothing is in custody when the market opens.
LEMMA CustodyInit == Init => CustodyInv
<1> SUFFICES ASSUME Init PROVE CustodyInv
  OBVIOUS
<1>1. /\ \A w \in Workers : worker[w].at = "idle"
      /\ \A u \in Users : ~frozen[u].set /\ ~refunded[u].set
      /\ job.action # "void" /\ market.lifecycle = "open"
  BY DEF Init, Idle, NoComp, NoJob
<1>2. VoidHolds
  BY <1>1 DEF VoidHolds, Reverting
<1>3. ASSUME NEW u \in Users PROVE Custody(u)
  <2>1. ~Undone(u) /\ ~Unwinding(u)
    BY <1>1 DEF Init, Undone, Unwinding
  <2> QED BY <1>1, <2>1 DEF Init, Custody, MarginHeld, RefundHeld, Flat, NoOrder
<1>4. \A w \in Workers : SeenAll(w) /\ \A u \in Users : Handled(w, u)
  BY <1>1, Unburdened DEF Fixing, Reverting
<1> QED BY <1>1, <1>2, <1>3, <1>4, InvInit DEF CustodyInv, AllHeld, NothingLeftOpen

\* Every step keeps custody.
LEMMA CustodyStep ==
  ASSUME CustodyInv, ~Stalls, ~Fickle, [Next]_vars
  PROVE  CustodyInv'
<1>1. Inv' /\ TypeOK /\ Flow /\ VoidWork /\ VoidHolds /\ AllHeld /\ NothingLeftOpen
  BY InvStep DEF CustodyInv, Inv, Flow
<1>2. CASE UNCHANGED vars
  <2>1. VoidHolds' /\ NothingLeftOpen'
    BY <1>1, <1>2 DEF VoidHolds, NothingLeftOpen, Open, vars
  <2>2. \A u \in Users : Custody(u)'
    BY <1>1, <1>2, CustodyRests DEF AllHeld, vars, books, orderVars
  <2>3. \A w \in Workers : SeenAll(w)' /\ \A u \in Users : Handled(w, u)'
    BY <1>1, <1>2 DEF AllHeld, SeenAll, Handled, Cancelled, Collected, Weighed, Repaid, Paid, vars
  <2> QED BY <1>1, <2>1, <2>2, <2>3 DEF CustodyInv, AllHeld
<1>3. CASE Next
  <2>1. CASE Trading
    BY <1>1, <2>1, TradingHeld DEF CustodyInv
  <2>2. CASE Feed
    BY <1>1, <2>2, FeedHeld DEF CustodyInv
  <2>3. ASSUME NEW w \in Workers, Work(w) \/ Mishap(w) PROVE CustodyInv'
    BY <1>1, <2>3, JobHeld, SettleHeld, VoidHeld DEF CustodyInv, Work
  <2>4. CASE LeaseExpires
    <3>1. UNCHANGED <<feedVars, worker, books, orderVars>>
      BY <2>4 DEF LeaseExpires
    <3>2. UNCHANGED <<match, market, job, position, reserved, resting, fills, frozen, refunded>>
      BY <3>1 DEF feedVars, books, orderVars
    <3>3. VoidHolds' /\ NothingLeftOpen'
      BY <1>1, <3>1, <3>2 DEF VoidHolds, NothingLeftOpen, Open
    <3>4. \A u \in Users : Custody(u)'
      BY <1>1, <3>1, CustodyRests DEF AllHeld
    <3>5. \A w \in Workers : SeenAll(w)' /\ \A u \in Users : Handled(w, u)'
      BY <1>1, <3>1, <3>2 DEF AllHeld, SeenAll, Handled, Cancelled, Collected, Weighed, Repaid, Paid
    <3> QED BY <1>1, <3>3, <3>4, <3>5 DEF CustodyInv, AllHeld
  <2> QED BY <1>3, <2>1, <2>2, <2>3, <2>4 DEF Next
<1> QED BY <1>2, <1>3

\* A market is settled or voided with no position, no working order and no
\* blocked margin left on it, as long as no processor outlives its lease and no
\* final status is taken back.
THEOREM NothingLeftOpenHolds ==
  ASSUME ~Stalls, ~Fickle
  PROVE  Spec => []NothingLeftOpen
<1>1. CustodyInv /\ [Next]_vars => CustodyInv'
  BY CustodyStep
<1>2. CustodyInv => NothingLeftOpen
  BY DEF CustodyInv
<1> QED BY <1>1, <1>2, CustodyInit, PTL DEF Spec

-----------------------------------------------------------------------------
(* The settlement and the void implement the payout.                       *)

\* A user without fills is owed nothing.
LEMMA CashDeltaNone ==
  ASSUME NEW h \in Seq(Fills), NEW u, FillsOf(h, u) = {}
  PROVE  CashDelta(h, u) = 0
<1> DEFINE f == [n \in DOMAIN h |-> IF n \in FillsOf(h, u) THEN Spend(h[n]) ELSE 0]
<1>1. DOMAIN h = 1 .. Len(h) /\ Len(h) \in Nat
  OBVIOUS
<1>2. \A i \in 1 .. Len(h) : f[i] = 0
  BY <1>1
<1> HIDE DEF f
<1> QED BY <1>1, <1>2, TotalNothing DEF CashDelta, f

\* The abstract payoff and positions.
Due == IF market.claimed > 0 THEN Payoff(market.score) ELSE 0
Owned == [u \in Users |-> IF Unwinding(u) THEN 0 ELSE position[u].lots]

\* The phase of the payout, read off the market and the reversals.
LEMMA PhaseIs ==
  ASSUME TypeOK, Flow
  PROVE  /\ market.lifecycle \in Closed => Phase = market.lifecycle
         /\ market.lifecycle \notin Closed /\ market.claimed > 0 => Phase = "fixed"
         /\ market.lifecycle \notin Closed /\ market.claimed = 0 =>
              Phase = IF \E u \in Users : Unwinding(u) THEN "refunding" ELSE "trading"
         /\ market.claimed \in Nat
<1>1. market.claimed \in Nat
  BY DEF TypeOK, Markets
<1>2. market.lifecycle \in Closed => Phase = market.lifecycle
  BY DEF Phase, Closed
<1>3. market.lifecycle \notin Closed /\ market.claimed > 0 => Phase = "fixed"
  BY DEF Phase, Closed
<1>4. market.lifecycle \notin Closed /\ ~(market.claimed > 0) =>
        Phase = IF \E u \in Users : Unwinding(u) THEN "refunding" ELSE "trading"
  BY DEF Phase, Closed
<1> QED BY <1>1, <1>2, <1>3, <1>4

\* What does not move the payout.
LEMMA PayoutRests ==
  ASSUME TypeOK, market'.claimed = market.claimed, UNCHANGED cash,
         market.claimed > 0 => market'.score = market.score,
         market.lifecycle \in Closed \/ market'.lifecycle \in Closed =>
           market'.lifecycle = market.lifecycle,
         \A u \in Users : /\ Unwinding(u)' <=> Unwinding(u)
                          /\ ~Unwinding(u) => position'[u].lots = position[u].lots
  PROVE  UNCHANGED P!vars
<1>1. Phase' = Phase
  BY DEF Phase, Closed
<1>2. Due' = Due
  BY DEF Due
<1>3. Owned' = Owned
  BY DEF Owned
<1> QED BY <1>1, <1>2, <1>3 DEF P!vars, Due, Owned

\* Nor does a step of the processor that leaves the books alone.
LEMMA BooksRest ==
  ASSUME TypeOK, UNCHANGED <<market, position, cash, fills, undo, refunded>>
  PROVE  UNCHANGED P!vars
<1>1. \A u \in Users : Unwinding(u)' <=> Unwinding(u)
  BY DEF Unwinding
<1> QED BY <1>1, PayoutRests

\* A user whose compensation is paid holds the deposit again.
LEMMA PaidWhole ==
  ASSUME TypeOK, VoidHolds, VoidWork, ClosedOnce, BooksBalance, AllHeld, NEW u \in Users,
         job.action = "void", Paid(u) \/ FillsOf(fills, u) = {}
  PROVE  cash[u] = Deposit
<1>1. closing[u].stage # "executed"
  BY DEF ClosedOnce, VoidHolds
<1>2. cash[u] = Deposit - CashDelta(fills, u) + 0 + refunded[u].cash
  BY <1>1 DEF BooksBalance
<1>3. RefundHeld(u) /\ (~refunded[u].set => refunded[u].cash = 0)
  BY DEF AllHeld, Custody, VoidWork
<1>4. /\ FillsOf(fills, u) = {} => CashDelta(fills, u) = 0
      /\ CashDelta(fills, u) \in Int /\ Deposit \in Int /\ refunded[u].cash \in Int
  BY CashDeltaNone, MoneyTyped DEF TypeOK
<1>5. refunded[u].cash = CashDelta(fills, u)
  <2>1. CASE refunded[u].set
    BY <1>3, <2>1 DEF RefundHeld
  <2>2. CASE ~refunded[u].set
    BY <1>3, <1>4, <2>2 DEF RefundHeld, Paid
  <2> QED BY <2>1, <2>2
<1> QED BY <1>2, <1>4, <1>5

\* A user is refunded: the position is gone and the deposit is back.
LEMMA Refunded ==
  ASSUME TypeOK, Flow, job.action = "void", market.claimed = 0, market.lifecycle = "settling",
         NEW u \in Users, Unwinding(u)', cash'[u] = Deposit, UNCHANGED market,
         \A v \in Users : v # u => (Unwinding(v)' <=> Unwinding(v)),
         \A v \in Users : position'[v].lots = position[v].lots,
         cash' = [cash EXCEPT ![u] = Deposit]
  PROVE  P!Refund(u)
<1>1. Phase = IF \E v \in Users : Unwinding(v) THEN "refunding" ELSE "trading"
  BY PhaseIs DEF Closed
<1>2. Phase' = "refunding"
  BY DEF Phase
<1>3. Owned' = [Owned EXCEPT ![u] = 0]
  BY DEF Owned
<1>4. Due' = Due
  BY DEF Due
<1> QED BY <1>1, <1>2, <1>3, <1>4 DEF P!Refund, Due, Owned

\* A fill moves one lot and its price.
LEMMA FillPays ==
  ASSUME TypeOK, Flow, VoidHolds, AllHeld, Tradable, Trading, NEW u \in Users,
         NEW step \in {-1, 1}, NEW price \in Prices, position[u].lots + step \in -1 .. 1,
         NEW p, p.lots = position[u].lots + step, position' = [position EXCEPT ![u] = p],
         NEW c, c = cash[u] - step * price, cash' = [cash EXCEPT ![u] = c], NEW e \in Fills,
         fills' = Append(fills, e), undo' = Append(undo, "none")
  PROVE  P!Trade(u, step, price)
<1>1. /\ market.lifecycle = "open" /\ market.claimed = 0 /\ UNCHANGED <<market, refunded>>
      /\ \A v \in Users : ~Unwinding(v) /\ ~Undone(v)
  BY TradableCalm, TradingKeeps, PhaseIs DEF Flow, ClaimHolds
<1>2. \A v \in Users : ~Unwinding(v)'
  <2> SUFFICES ASSUME NEW v \in Users PROVE ~Unwinding(v)'
    OBVIOUS
  <2>1. ~Undone(v)'
    BY <1>1, FillFresh
  <2> QED BY <1>1, <2>1 DEF Unwinding, Undone
<1>3. Phase = "trading" /\ Phase' = "trading"
  BY <1>1, <1>2 DEF Phase
<1>4. Due' = Due
  BY <1>1 DEF Due
<1>5. Owned[u] = position[u].lots /\ Owned' = [Owned EXCEPT ![u] = @ + step]
  BY <1>1, <1>2 DEF Owned, TypeOK
<1> QED BY <1>3, <1>4, <1>5 DEF P!Trade, Due, Owned

LEMMA TradingPays ==
  ASSUME TypeOK, Flow, VoidHolds, AllHeld, Trading
  PROVE  P!Next \/ UNCHANGED P!vars
<1>1. Tradable
  BY DEF Trading, Trade, Rest, FillResting
<1>2. \A v \in Users : ~Unwinding(v) /\ MarginHeld(v)
  BY <1>1, TradableCalm DEF AllHeld, Custody
<1>3. ASSUME NEW u \in Users, NEW side \in {"buy", "sell"}, NEW price \in Prices,
             Trade(u, side, price)
      PROVE  P!Next
  <2> DEFINE step == IF side = "buy" THEN 1 ELSE -1
             p == Moved(position[u], side, price)
             e == [user |-> u, side |-> side, price |-> price]
             c == IF side = "buy" THEN cash[u] - price ELSE cash[u] + price
  <2>1. e \in Fills /\ fills' = Append(fills, e) /\ undo' = Append(undo, "none")
        /\ position' = [position EXCEPT ![u] = p]
        /\ position[u].lots # step
    BY <1>3 DEF Fills, Trade, FillOf
  <2>2. c = cash[u] - step * price /\ cash' = [cash EXCEPT ![u] = c]
    <3>1. price \in Int /\ cash[u] \in Int
      BY SettlementAssumption DEF TypeOK
    <3>2. cash[u] - step * price = c
      BY <3>1
    <3> QED BY <1>3, <3>2 DEF Trade, FillOf
  <2>3. p.lots = position[u].lots + step
    BY DEF Moved
  <2>4. step \in {-1, 1} /\ position[u].lots + step \in -1 .. 1
    BY <1>2, <2>1 DEF MarginHeld
  <2> HIDE DEF e, p, c, step
  <2>5. P!Trade(u, step, price)
    BY <1>1, <2>1, <2>2, <2>3, <2>4, FillPays
  <2> QED BY <2>4, <2>5 DEF P!Next
<1>4. ASSUME NEW u \in Users, NEW price \in Prices, Rest(u, price) PROVE UNCHANGED P!vars
  <2>1. UNCHANGED <<market, position, cash, fills, undo, refunded>>
    BY <1>4 DEF Rest, feedVars, orderVars
  <2> QED BY <2>1, BooksRest
<1>5. ASSUME NEW u \in Users, FillResting(u) PROVE P!Next
  <2> DEFINE p == Moved(position[u], "buy", resting[u])
             e == [user |-> u, side |-> "buy", price |-> resting[u]]
             step == 1
             c == cash[u] - resting[u]
  <2>1. PICK price \in Prices : price = resting[u]
    BY <1>5 DEF FillResting, TypeOK
  <2>2. e \in Fills /\ fills' = Append(fills, e) /\ undo' = Append(undo, "none")
        /\ position' = [position EXCEPT ![u] = p]
        /\ position[u].lots = 0
    BY <1>5, <2>1 DEF Fills, FillResting
  <2>3. c = cash[u] - step * price /\ cash' = [cash EXCEPT ![u] = c]
    BY <1>5, <2>1, RestingInt DEF FillResting
  <2>4. p.lots = position[u].lots + step /\ position[u].lots + step \in -1 .. 1
        /\ step \in {-1, 1}
    BY <2>2 DEF Moved
  <2> HIDE DEF e, p, c, step
  <2>5. P!Trade(u, step, price)
    BY <1>1, <2>2, <2>3, <2>4, FillPays
  <2> QED BY <2>4, <2>5 DEF P!Next
<1> QED BY <1>3, <1>4, <1>5 DEF Trading

\* A poll leaves the phase, the payoff and the money alone.
LEMMA FeedPays ==
  ASSUME TypeOK, Flow, ~Fickle, Feed
  PROVE  UNCHANGED P!vars
<1>1. Grounded
  BY DEF Grounded, Flow
<1>2. PICK t : Committed(t) /\ t.ok /\ Commit(t) /\ UNCHANGED <<worker, books, orderVars>>
  BY <1>1, FeedCommits
<1>3. Reached(t) /\ market' = t.market
  BY <1>2 DEF Committed, Commit
<1>4. UNCHANGED <<position, cash, fills, undo, refunded>>
  BY <1>2 DEF books, orderVars
<1>5. \A u \in Users : Unwinding(u)' <=> Unwinding(u)
  BY <1>4 DEF Unwinding
<1> QED BY <1>3, <1>4, <1>5, PayoutRests DEF Reached

\* So do taking, losing, failing and completing the job.
LEMMA JobPays ==
  ASSUME TypeOK, NEW w \in Workers,
         \/ ClaimSettlementJob(w) \/ CompleteSettlementJob(w) \/ Mishap(w)
         \/ maintainLease(w) \/ Renew(w) \/ Fail(w)
  PROVE  UNCHANGED P!vars
<1>1. UNCHANGED <<market, books, orderVars>>
  BY DEF ClaimSettlementJob, CompleteSettlementJob, Mishap, maintainLease, Renew, Fail, feedVars
<1> QED BY <1>1, BooksRest DEF books, orderVars

\* The first claim fixes the payoff, every closing fill pays it once, and the
\* market is settled with no position open.
LEMMA SettlePays ==
  ASSUME TypeOK, Flow, VoidHolds, AllHeld, NEW w \in Workers, Settle(w), MarketKept
  PROVE  P!Next \/ UNCHANGED P!vars
<1> DEFINE Goal == P!Next \/ UNCHANGED P!vars
<1>1. CASE Fail(w)
  BY <1>1, JobPays
<1>2. ASSUME UNCHANGED <<market, books, undo, refunded>> PROVE Goal
  BY <1>2, BooksRest DEF books
<1>3. CASE ReadMarket(w) \/ collectOpenPositions(w) \/ Recheck(w)
           \/ \E u \in Users : FindOrCreate(w, u)
  BY <1>1, <1>2, <1>3 DEF ReadMarket, collectOpenPositions, Recheck, FindOrCreate, orderVars
<1>4. ASSUME NEW u \in Users, CancelOrder(w, u) PROVE Goal
  BY <1>4, BooksRest DEF CancelOrder, orderVars
<1>5. ASSUME ClaimProviderSettlement(w), ~Fail(w) PROVE Goal
  <2>1. /\ worker[w].at = "reading" /\ Claims(w) /\ UNCHANGED <<books, orderVars>>
        /\ market' = [market EXCEPT !.claimed = worker[w].revision]
    BY <1>5 DEF ClaimProviderSettlement
  <2>2. market \in Markets /\ job.action = "settle" /\ worker[w].revision > 0
    BY <2>1 DEF TypeOK, Flow, JobFollowed, SettleStages
  <2>3. /\ market'.claimed = worker[w].revision /\ market'.score = market.score
        /\ market'.lifecycle = "settling" /\ market.lifecycle = "settling"
        /\ market.revision = worker[w].revision
    BY <2>1, <2>2 DEF Markets, Claims
  <2>4. UNCHANGED <<position, cash, fills, undo, refunded>>
    BY <2>1 DEF books, orderVars
  <2>5. \A u \in Users : ~Unwinding(u) /\ ~Unwinding(u)'
    <3>1. \A u \in Users : ~Unwinding(u)
      BY <2>2, NoneFrozen DEF AllHeld, Custody
    <3> QED BY <2>4, <3>1 DEF Unwinding
  <2>6. CASE market.claimed = worker[w].revision
    BY <2>3, <2>4, <2>5, <2>6, PayoutRests
  <2>7. CASE market.claimed = 0
    <3>1. Phase = "trading"
      BY <2>3, <2>5, <2>7 DEF Phase
    <3>2. Phase' = "fixed"
      BY <2>2, <2>3 DEF Phase
    <3>3. Due' = Payoff(market.score) /\ market.score \in Scores
      BY <2>2, <2>3 DEF Due, Flow, FinalsAgree
    <3>4. Owned' = Owned
      BY <2>4, <2>5 DEF Owned
    <3>5. P!Fix
      BY <2>4, <3>1, <3>2, <3>3, <3>4 DEF P!Fix, Due, Owned
    <3> QED BY <3>5 DEF P!Next
  <2> QED BY <2>1, <2>6, <2>7 DEF Claims
<1>6. ASSUME NEW u \in Users, applySettlementFill(w, u) PROVE Goal
  <2>1. CASE ~Closable(u)
    BY <1>6, <2>1, BooksRest DEF applySettlementFill
  <2>2. CASE Closable(u)
    <3>1. /\ worker[w].at = "closing" /\ closing[u].stage = "open"
          /\ closing[u].lots > 0 => position[u].lots >= closing[u].lots
          /\ closing[u].lots < 0 => position[u].lots <= closing[u].lots
          /\ cash' = [cash EXCEPT ![u] = @ + closing[u].lots * Payoff(worker[w].score)]
          /\ position' = [position EXCEPT ![u] = Flat]
          /\ UNCHANGED <<market, fills, undo, refunded>>
      BY <1>6, <2>2 DEF applySettlementFill, Closable
    <3>2. /\ market.claimed = worker[w].revision /\ market.score = worker[w].score
          /\ market.lifecycle = "settling" /\ market.claimed > 0 /\ job.action = "settle"
      BY <3>1 DEF Flow, ClaimHolds, JobFollowed, SettleStages, Fixing
    <3>3. \A v \in Users : ~Unwinding(v) /\ ~Unwinding(v)' /\ Custody(v)
      <4>1. \A v \in Users : ~Unwinding(v) /\ Custody(v)
        BY <3>2, NoneFrozen DEF AllHeld, Custody
      <4> QED BY <3>1, <4>1 DEF Unwinding
    <3>4. closing[u].lots \in {-1, 1} /\ position[u].lots \in -1 .. 1
      BY <3>1, <3>3 DEF Custody, MarginHeld
    <3>5. position[u].lots = closing[u].lots /\ position[u].lots # 0
      BY <3>1, <3>4
    <3>6. Phase = "fixed" /\ Phase' = "fixed"
      BY <3>1, <3>2 DEF Phase
    <3>7. Due = Payoff(worker[w].score) /\ Due' = Due
      BY <3>1, <3>2 DEF Due
    <3>8. Owned[u] = position[u].lots /\ Owned' = [Owned EXCEPT ![u] = 0]
      BY <3>1, <3>3 DEF Owned, Flat, TypeOK
    <3>9. P!Pay(u)
      BY <3>1, <3>5, <3>6, <3>7, <3>8 DEF P!Pay, Due, Owned
    <3> QED BY <3>9 DEF P!Next
  <2> QED BY <2>1, <2>2
<1>7. ASSUME SetSettled(w), ~Fail(w) PROVE Goal
  <2> DEFINE final == [revision |-> worker[w].revision, score |-> worker[w].score]
             t == SetProviderMarketGate(Now, "settled", FALSE, final)
             k == Regated(market, "settled", FALSE, final)
  <2>1. worker[w].at = "closed" /\ market' = t.market /\ UNCHANGED <<books, orderVars>>
    BY <1>7 DEF SetSettled, SetGate
  <2>2. Now.ok /\ Now.market = market /\ Now \in Txs
    BY DEF Now, Tx, Txs, TypeOK
  <2>3. t.market = market \/ t.market = k
    BY <2>2 DEF SetProviderMarketGate, Abort, Txs
  <2>4. k.lifecycle = "settled"
    BY DEF Regated
  <2> HIDE DEF t, k
  <2>5. market' = market \/ market'.lifecycle = "settled"
    BY <2>1, <2>3, <2>4
  <2>6. /\ market.claimed = worker[w].revision /\ market.lifecycle = "settling"
        /\ market.claimed > 0
    BY <2>1 DEF Flow, ClaimHolds, JobFollowed, SettleStages, Fixing
  <2>7. market'.claimed = market.claimed /\ market'.score = market.score
    BY <2>6 DEF MarketKept
  <2>8. CASE market' = market
    BY <1>2, <2>1, <2>8 DEF orderVars
  <2>9. CASE market'.lifecycle = "settled"
    <3>1. UNCHANGED <<position, cash, fills, undo, refunded>>
      BY <2>1 DEF books, orderVars
    <3>2. Phase = "fixed" /\ Phase' = "settled"
      BY <2>6, <2>9 DEF Phase
    <3>3. Due' = Due
      BY <2>7 DEF Due
    <3>4. Owned' = Owned
      BY <3>1 DEF Owned, Unwinding
    <3>5. \A u \in Users : Owned[u] = 0
      BY <2>1 DEF AllHeld, Handled, Collected, Owned
    <3>6. P!Settle
      BY <3>1, <3>2, <3>3, <3>4, <3>5 DEF P!Settle, P!Flat, Due, Owned
    <3> QED BY <3>6 DEF P!Next
  <2> QED BY <2>5, <2>8, <2>9
<1> QED BY <1>3, <1>4, <1>5, <1>6, <1>7, <1>1 DEF Settle

\* Each user is refunded once, with the first movement of the reversal, and the
\* market is void when everybody holds the deposit.
LEMMA VoidPays ==
  ASSUME TypeOK, Flow, VoidHolds, VoidWork, ClosedOnce, BooksBalance, AllHeld,
         BooksBalance', AllHeld', VoidWork', TypeOK', VoidHolds', ClosedOnce',
         NEW w \in Workers, Void(w)
  PROVE  P!Next \/ UNCHANGED P!vars
<1> DEFINE Goal == P!Next \/ UNCHANGED P!vars
<1>1. CASE Fail(w)
  BY <1>1, JobPays
<1>2. ASSUME UNCHANGED <<market, books, undo, refunded>> PROVE Goal
  BY <1>2, BooksRest DEF books
<1>3. CASE ReadVoidable(w) \/ ListExecutions(w) \/ providerVoidCompensations(w) \/ AllFrozen(w)
           \/ AllRefunded(w) \/ Unwound(w)
           \/ \E u \in Users : FreezeProviderVoidCompensation(w, u)
  BY <1>1, <1>2, <1>3
  DEF ReadVoidable, ListExecutions, providerVoidCompensations, AllFrozen, AllRefunded, Unwound,
      FreezeProviderVoidCompensation, orderVars
<1>4. ASSUME worker[w].at \in Reverting
      PROVE  job.action = "void" /\ market.claimed = 0 /\ market.lifecycle = "settling"
  BY <1>4 DEF VoidHolds, Flow, JobFollowed, VoidStages
<1>5. ASSUME NEW u \in Users, ReverseProviderContract(w, u), ~Fail(w) PROVE Goal
  <2> DEFINE comp == [worker[w].comp[u] EXCEPT !.hash = {}]
  <2>1. /\ worker[w].at = "refunding" /\ u \in worker[w].todo /\ Stepping
        /\ refunded' = [refunded EXCEPT ![u] = comp]
        /\ IF refunded[u].set THEN refunded[u] = comp /\ UNCHANGED cash
           ELSE cash' = [cash EXCEPT ![u] = @ + comp.cash]
        /\ UNCHANGED <<market, position, fills, undo, frozen>>
    BY <1>5 DEF ReverseProviderContract, Replayed
  <2>2. worker[w].comp[u] \in Comps /\ refunded \in [Users -> Comps] /\ cash \in [Users -> Int]
    <3>1. worker[w] \in Processors
      BY DEF TypeOK
    <3>2. worker[w].comp \in [Users -> Comps]
      BY <3>1 DEF Processors
    <3> QED BY <3>2 DEF TypeOK
  <2>3. comp.set
    BY <2>1, <2>2 DEF VoidWork, Comps
  <2> HIDE DEF comp
  <2>4. /\ job.action = "void" /\ market.claimed = 0 /\ market.lifecycle = "settling"
        /\ job'.action = "void"
    BY <1>4, <2>1 DEF Reverting, Stepping
  <2>5. refunded'[u] = comp /\ \A v \in Users : v # u => refunded'[v] = refunded[v]
    BY <2>1, <2>2
  <2>6. CASE refunded[u].set
    <3>1. refunded' = refunded /\ UNCHANGED cash
      BY <2>1, <2>2, <2>6
    <3> QED BY <2>1, <3>1, BooksRest
  <2>7. CASE ~refunded[u].set
    <3>1. comp.cash = CashDelta(fills, u)
      <4>1. comp.cash = worker[w].comp[u].cash
        BY <2>2 DEF comp, Comps
      <4>2. frozen[u].set /\ worker[w].comp[u] = frozen[u]
        BY <2>1 DEF AllHeld, Handled, Repaid
      <4> QED BY <4>1, <4>2 DEF AllHeld, Custody, RefundHeld
    <3>2. cash'[u] = Deposit
      <4>1. closing[u].stage # "executed" /\ refunded[u].cash = 0
        BY <2>4, <2>7 DEF ClosedOnce, VoidWork
      <4>2. cash[u] = Deposit - CashDelta(fills, u) + 0 + 0
        BY <4>1 DEF BooksBalance
      <4>3. CashDelta(fills, u) \in Int /\ Deposit \in Int
        BY MoneyTyped
      <4>4. cash'[u] = cash[u] + CashDelta(fills, u)
        BY <2>1, <2>2, <2>7, <3>1
      <4> QED BY <4>2, <4>3, <4>4
    <3>3. cash' = [cash EXCEPT ![u] = Deposit]
      BY <2>1, <2>2, <2>7, <3>2
    <3>4. Unwinding(u)' /\ \A v \in Users : v # u => (Unwinding(v)' <=> Unwinding(v))
      BY <2>1, <2>3, <2>5 DEF Unwinding
    <3>5. P!Refund(u)
      BY <2>1, <2>4, <3>2, <3>3, <3>4, Refunded
    <3> QED BY <3>5 DEF P!Next
  <2> QED BY <2>6, <2>7
<1>6. ASSUME ReverseExecution(w) PROVE Goal
  <2>1. /\ worker[w].at = "unwinding" /\ worker[w].todo # {} /\ Stepping
        /\ UNCHANGED <<market, cash, fills, refunded, frozen>>
    BY <1>6 DEF ReverseExecution
  <2>2. worker[w].seen = fills
    BY <2>1 DEF AllHeld, SeenAll, Reverting
  <2>3. fills \in Seq(Fills) /\ undo \in Seq({"none", "open", "executed"}) /\ Len(undo) = Len(fills)
        /\ position \in [Users -> [lots : Int, collateral : Nat]]
    BY DEF TypeOK
  <2>4. PICK n \in DOMAIN fills : n = Newest(w)
    BY <2>1, <2>2, <2>3, NewestExists DEF VoidWork
  <2>5. PICK f : f = fills[n]
    OBVIOUS
  <2>6. \/ undo' = [undo EXCEPT ![n] = "open"] /\ undo[n] = "none" /\ UNCHANGED position
        \/ /\ undo' = [undo EXCEPT ![n] = "executed"] /\ undo[n] # "none"
           /\ position' = [position EXCEPT ![f.user] = Moved(@, Opposite(f.side), f.price)]
        \/ UNCHANGED <<undo, position>>
    BY <1>6, <2>2, <2>4, <2>5 DEF ReverseExecution
  <2>7. f.user \in Users /\ n \in DOMAIN undo
    <3>1. n \in 1 .. Len(fills)
      BY <2>3, <2>4
    <3>2. n \in DOMAIN undo
      BY <2>3, <3>1
    <3>3. f \in Fills
      BY <2>3, <2>5, <3>1
    <3> QED BY <3>2, <3>3 DEF Fills
  <2>8. /\ job.action = "void" /\ market.claimed = 0 /\ market.lifecycle = "settling"
    BY <1>4, <2>1 DEF Reverting
  <2>9. CASE UNCHANGED <<undo, position>>
    BY <2>1, <2>9, BooksRest
  <2>10. CASE undo' = [undo EXCEPT ![n] = "open"] /\ undo[n] = "none" /\ UNCHANGED position
    <3>1. Paid(f.user)
      <4>1. FillsOf(fills, f.user) # {}
        BY <2>4, <2>5 DEF FillsOf
      <4> QED BY <2>1, <2>7, <4>1 DEF AllHeld, Handled, Repaid
    <3>2. cash[f.user] = Deposit
      BY <2>7, <2>8, <3>1, PaidWhole
    <3>3. cash' = [cash EXCEPT ![f.user] = Deposit]
      BY <2>1, <2>7, <3>2 DEF TypeOK
    <3>4. Unwinding(f.user)'
      BY <2>1, <2>3, <2>4, <2>7, <2>10, <2>5 DEF Unwinding
    <3>5. \A v \in Users : v # f.user => (Unwinding(v)' <=> Unwinding(v))
      BY <2>1, <2>3, <2>7, <2>10, <2>5 DEF Unwinding
    <3>6. PICK u \in Users : u = f.user
      BY <2>7
    <3>7. P!Refund(u)
      BY <2>1, <2>8, <2>10, <3>2, <3>3, <3>4, <3>5, <3>6, Refunded
    <3> QED BY <3>7 DEF P!Next
  <2>11. CASE /\ undo' = [undo EXCEPT ![n] = "executed"] /\ undo[n] # "none"
              /\ position' = [position EXCEPT ![f.user] = Moved(@, Opposite(f.side), f.price)]
    <3>1. \A v \in Users : Unwinding(v)' <=> Unwinding(v)
      BY <2>1, <2>3, <2>7, <2>11 DEF Unwinding
    <3>2. Unwinding(f.user)
      BY <2>4, <2>7, <2>11, <2>5 DEF Unwinding
    <3>3. \A v \in Users : ~Unwinding(v) => position'[v] = position[v]
      BY <2>3, <2>11, <3>2
    <3> QED BY <2>1, <3>1, <3>3, PayoutRests
  <2> QED BY <2>6, <2>9, <2>10, <2>11
<1>7. ASSUME SetVoid(w), ~Fail(w) PROVE Goal
  <2> DEFINE t == SetProviderMarketGate(Now, "void", FALSE, NoFinal)
             k == Regated(market, "void", FALSE, NoFinal)
  <2>1. worker[w].at = "unwound" /\ market' = t.market /\ UNCHANGED <<books, orderVars>>
    BY <1>7 DEF SetVoid, SetGate
  <2>2. Now.ok /\ Now.market = market /\ Now \in Txs
    BY DEF Now, Tx, Txs, TypeOK
  <2>3. t.market = market \/ t.market = k
    BY <2>2 DEF SetProviderMarketGate, Abort, Txs
  <2>4. k.lifecycle = "void" /\ k.claimed = market.claimed
    BY DEF Regated
  <2> HIDE DEF t, k
  <2>5. market' = market \/ (market'.lifecycle = "void" /\ market'.claimed = market.claimed)
    BY <2>1, <2>3, <2>4
  <2>6. job.action = "void" /\ market.claimed = 0 /\ market.lifecycle = "settling"
    BY <1>4, <2>1 DEF Reverting
  <2>7. CASE market' = market
    BY <1>2, <2>1, <2>7 DEF orderVars
  <2>8. CASE market'.lifecycle = "void" /\ market'.claimed = market.claimed
    <3>1. UNCHANGED <<position, cash, fills, undo, refunded>>
      BY <2>1 DEF books, orderVars
    <3>2. Phase \in {"trading", "refunding"} /\ Phase' = "void"
      BY <2>6, <2>8 DEF Phase
    <3>3. Due' = Due
      BY <2>6, <2>8 DEF Due
    <3>4. Owned' = Owned
      BY <3>1 DEF Owned, Unwinding
    <3>5. \A u \in Users : Owned[u] = 0
      BY <2>1 DEF AllHeld, Handled, Collected, Owned
    <3>6. \A u \in Users : cash[u] = Deposit
      <4> SUFFICES ASSUME NEW u \in Users PROVE cash[u] = Deposit
        OBVIOUS
      <4>1. Paid(u) \/ FillsOf(fills, u) = {}
        BY <2>1 DEF AllHeld, Handled, Repaid
      <4> QED BY <2>6, <4>1, PaidWhole
    <3>7. cash = [u \in Users |-> Deposit]
      BY <3>6 DEF TypeOK
    <3>8. P!Void
      BY <3>1, <3>2, <3>3, <3>4, <3>5, <3>7 DEF P!Void, P!Flat, Due, Owned
    <3> QED BY <3>8 DEF P!Next
  <2> QED BY <2>5, <2>7, <2>8
<1> QED BY <1>1, <1>3, <1>5, <1>6, <1>7 DEF Void

\* The settlement and the void of a market implement Payout: every position is
\* paid once at one payoff, or every user gets the deposit back, never both,
\* whatever the feed reports and wherever processors stop and are replaced.
THEOREM PaysOutHolds ==
  ASSUME ~Stalls, ~Fickle
  PROVE  Spec => PaysOut
<1>1. Init => P!Init
  <2> SUFFICES ASSUME Init PROVE P!Init
    OBVIOUS
  <2>1. \A u \in Users : ~Unwinding(u)
    BY DEF Init, Unwinding, NoComp
  <2>2. market.lifecycle = "open" /\ ~(market.claimed > 0)
    BY DEF Init
  <2>3. Phase = "trading"
    BY <2>1, <2>2 DEF Phase
  <2> QED BY <2>1, <2>2, <2>3 DEF Init, P!Init, Flat
<1>2. CustodyInv /\ [Next]_vars => [P!Next]_(P!vars)
  <2> SUFFICES ASSUME CustodyInv, [Next]_vars PROVE P!Next \/ UNCHANGED P!vars
    OBVIOUS
  <2>1. /\ TypeOK /\ Flow /\ VoidWork /\ ClosedOnce /\ BooksBalance /\ VoidHolds /\ AllHeld
        /\ MarketKept
    BY InvStep DEF CustodyInv, Inv, Flow
  <2>2. /\ TypeOK' /\ VoidWork' /\ ClosedOnce' /\ BooksBalance' /\ VoidHolds' /\ AllHeld'
    BY CustodyStep DEF CustodyInv, Inv
  <2>3. CASE UNCHANGED vars
    BY <2>1, <2>3, BooksRest DEF vars
  <2>4. CASE Trading
    BY <2>1, <2>4, TradingPays
  <2>5. CASE Feed
    BY <2>1, <2>5, FeedPays
  <2>6. ASSUME NEW w \in Workers, Work(w) \/ Mishap(w) PROVE P!Next \/ UNCHANGED P!vars
    BY <2>1, <2>2, <2>6, JobPays, SettlePays, VoidPays DEF Work
  <2>7. CASE LeaseExpires
    BY <2>1, <2>7, BooksRest DEF LeaseExpires, feedVars, books, orderVars
  <2> QED BY <2>3, <2>4, <2>5, <2>6, <2>7 DEF Next
<1>3. CustodyInv /\ [Next]_vars => CustodyInv'
  BY CustodyStep
<1> QED BY <1>1, <1>2, <1>3, CustodyInit, PTL DEF Spec, PaysOut, P!Spec
=============================================================================
