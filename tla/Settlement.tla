----------------------------- MODULE Settlement -----------------------------
(***************************************************************************)
(* One innings market from trading to payout.  The feed's transactions     *)
(* (module Finalization) close the market and enqueue its settlement job;  *)
(* the processors of the API replicas claim the job under a lease and      *)
(* either settle the market at the claimed final revision or void it.      *)
(*                                                                         *)
(* A processor takes one database transaction or one write at a time, and  *)
(* may stop, stall until its lease runs out, or fail between any two.  A   *)
(* user's trade is one atomic fill here: module Trading has its steps.     *)
(***************************************************************************)
EXTENDS Finalization, Totals, Sequences, FiniteSets

CONSTANTS
  Users,
  Workers,          \* settlement processors, one per API replica
  Contracts,        \* innings whose market is followed: a subset of {1, 2}
  Prices,           \* prices of fills
  Strike,           \* strike of the market's single contract
  Deposit,          \* cash every user starts with
  Margin,           \* initial margin of a short lot, beside its proceeds
  Fickle,           \* may the provider take a final status back
  Stalls,           \* may a live processor outlive its lease
  MaxTrades,        \* bound: fills
  MaxRests,         \* bound: resting orders
  MaxReports,       \* bound: polls that change the match
  MaxOutages,       \* bound: failed polls, stale feeds and closures
  MaxMishaps,       \* bound: stops, stalls and failed steps of processors
  NoWorker          \* no lease

ASSUME SettlementAssumption ==
  /\ Contracts \subseteq {1, 2} /\ Prices \subseteq Nat \ {0}
  /\ Strike \in Nat /\ Deposit \in Nat /\ Margin \in Nat
  /\ Fickle \in BOOLEAN /\ Stalls \in BOOLEAN
  /\ MaxTrades \in Nat /\ MaxRests \in Nat /\ MaxReports \in Nat
  /\ MaxOutages \in Nat /\ MaxMishaps \in Nat
  /\ NoWorker \notin Workers
  /\ IsFiniteSet(Users) /\ IsFiniteSet(Workers)

VARIABLES
  match,      \* the final fields of the match document
  market,     \* the market document
  job,        \* the settlement job of this innings
  lease,      \* its lease: owner and whether it has run out
  worker,     \* what each processor is doing
  position,   \* lots and recorded collateral of each user
  cash,       \* total balance of each user
  reserved,   \* blocked margin of each user
  resting,    \* reserve of each user's working order, 0 if none
  fills,      \* executions, oldest first, void reversals excluded
  closing,    \* the settlement order of each user's position
  undo,       \* the reversal order of each execution
  frozen,     \* provider_void_compensations: one document per user
  refunded,   \* wallet operations of the reversal, under each user's key
  spent       \* counts towards the bounds

books == <<position, cash, reserved, resting, fills>>
orderVars == <<closing, undo, frozen, refunded>>
feedVars == <<match, market, job>>
vars == <<match, market, job, lease, worker, position, cash, reserved, resting,
          fills, closing, undo, frozen, refunded, spent>>

-----------------------------------------------------------------------------
(* Accounts and positions.                                                 *)

Payoff(score) == IF score > Strike THEN score - Strike ELSE 0

Flat == [lots |-> 0, collateral |-> 0]
NoOrder == [stage |-> "none", revision |-> 0, lots |-> 0]
NoComp == [set |-> FALSE, cash |-> 0, reserved |-> 0, hash |-> {}]

\* What a fill of one side does to a position of at most one lot.
Moved(p, side, price) ==
  LET lots == p.lots + (IF side = "buy" THEN 1 ELSE -1)
  IN  [lots |-> lots,
       collateral |-> IF lots < 0 THEN price + Margin ELSE 0]

\* A fill moves cash by its notional and collateral by the position's.
FillOf(u, side, price) ==
  LET next == Moved(position[u], side, price)
  IN  /\ position' = [position EXCEPT ![u] = next]
      /\ cash' = [cash EXCEPT ![u] = IF side = "buy" THEN @ - price ELSE @ + price]
      /\ reserved' = [reserved EXCEPT ![u] = @ + next.collateral - position[u].collateral]

\* Mutant: the fill does not look at the market document.
MatchOnly == match.status = "live" /\ ~match.blocked

Tradable ==
  /\ match.status = "live" /\ ~match.blocked
  /\ market.lifecycle = "open" /\ ~market.blocked

Known ==
  {0, market.revision, market.claimed, job.revision, match.candidate.revision}
  \cup {worker[w].revision : w \in Workers} \cup {closing[u].revision : u \in Users}

-----------------------------------------------------------------------------
(* Initial state: the contract's innings is being played and its market    *)
(* is open.                                                                *)

Idle == [at |-> "idle", revision |-> 0, score |-> 0, todo |-> {}, lots |-> [u \in Users |-> 0],
         ok |-> TRUE, seen |-> <<>>, comp |-> [u \in Users |-> NoComp]]

Init ==
  /\ match \in {[contract |-> c, innings |-> c, status |-> "live", feed |-> "healthy",
                 blocked |-> FALSE, candidate |-> NoCandidate, ready |-> FALSE,
                 disposition |-> "none", final |-> NoCandidate,
                 last |-> [phase |-> "play", innings |-> c, complete |-> FALSE,
                           score |-> 0]] : c \in Contracts}
  /\ market = [lifecycle |-> "open", blocked |-> FALSE, claimed |-> 0,
               revision |-> 0, score |-> 0]
  /\ job = NoJob
  /\ lease = [owner |-> NoWorker, expired |-> FALSE]
  /\ worker = [w \in Workers |-> Idle]
  /\ position = [u \in Users |-> Flat]
  /\ cash = [u \in Users |-> Deposit]
  /\ reserved = [u \in Users |-> 0]
  /\ resting = [u \in Users |-> 0]
  /\ fills = <<>>
  /\ closing = [u \in Users |-> NoOrder]
  /\ undo = <<>>
  /\ frozen = [u \in Users |-> NoComp]
  /\ refunded = [u \in Users |-> NoComp]
  /\ spent = [trades |-> 0, rests |-> 0, reports |-> 0, outages |-> 0, mishaps |-> 0]

-----------------------------------------------------------------------------
(* Users.                                                                  *)

Held(u, side, price) ==
  cash[u] - reserved[u] >=
    CASE side = "buy" -> price - position[u].collateral
      [] side = "sell" -> IF position[u].lots > 0 THEN 0 ELSE Margin

Trade(u, side, price) ==
  /\ Tradable /\ spent.trades < MaxTrades
  /\ position[u].lots # (IF side = "buy" THEN 1 ELSE -1)
  /\ Held(u, side, price)
  /\ FillOf(u, side, price)
  /\ fills' = Append(fills, [user |-> u, side |-> side, price |-> price])
  /\ undo' = Append(undo, "none")
  /\ spent' = [spent EXCEPT !.trades = @ + 1]
  /\ UNCHANGED <<match, market, job, lease, worker, resting, closing, frozen, refunded>>

\* A limit order rests with its reserve.
Rest(u, price) ==
  /\ Tradable /\ spent.rests < MaxRests
  /\ resting[u] = 0 /\ Held(u, "buy", price) /\ position[u].lots = 0
  /\ resting' = [resting EXCEPT ![u] = price]
  /\ reserved' = [reserved EXCEPT ![u] = @ + price]
  /\ spent' = [spent EXCEPT !.rests = @ + 1]
  /\ UNCHANGED <<feedVars, lease, worker, position, cash, fills, orderVars>>

\* A resting buy fills: its reserve is released in the same transaction.
FillResting(u) ==
  /\ Tradable /\ resting[u] > 0 /\ position[u].lots = 0
  /\ position' = [position EXCEPT ![u] = Moved(@, "buy", resting[u])]
  /\ cash' = [cash EXCEPT ![u] = @ - resting[u]]
  /\ reserved' = [reserved EXCEPT ![u] = @ - resting[u]]
  /\ resting' = [resting EXCEPT ![u] = 0]
  /\ fills' = Append(fills, [user |-> u, side |-> "buy", price |-> resting[u]])
  /\ undo' = Append(undo, "none")
  /\ UNCHANGED <<feedVars, lease, worker, closing, frozen, refunded, spent>>

Trading == \E u \in Users :
  \/ \E side \in {"buy", "sell"}, price \in Prices : Trade(u, side, price)
  \/ \E price \in Prices : Rest(u, price)
  \/ FillResting(u)

-----------------------------------------------------------------------------
(* The feed.                                                               *)

Now == Tx(match, market, job)

\* A job taken from its processor loses the lease.
Commit(t) ==
  /\ match' = t.match /\ market' = t.market /\ job' = t.job
  /\ lease' = IF t.job.status = "processing" THEN lease
              ELSE [owner |-> NoWorker, expired |-> FALSE]

FeedUnchanged == UNCHANGED <<worker, books, orderVars>>

\* What a poll leaves: it is applied, or it fails and provisional finals go.
PollResult(report, other) ==
  LET t == applyProjectionTransaction(Now, report, NewRevision(Known), other)
      reset == ResetFinalizationHolds(Now)
  IN  IF t.ok THEN t
      ELSE IF reset.ok /\ match.feed # "terminal" THEN reset
      ELSE Now

Polled(report, other) == Commit(PollResult(report, other)) /\ FeedUnchanged

Poll(report, other) ==
  /\ report = match.last \/ spent.reports < MaxReports
  /\ Polled(report, other)
  /\ spent' = IF report = match.last THEN spent ELSE [spent EXCEPT !.reports = @ + 1]

\* A failed poll, a feed gone stale, a terminal phase without a snapshot, a
\* match given up for dead.  A transaction that returns an error changes
\* nothing.
Commits(t) == t.ok /\ t # Now /\ Commit(t)

Outage ==
  /\ spent.outages < MaxOutages
  /\ \/ Commits(ResetFinalizationHolds(Now))
     \/ match.feed \in {"healthy", "finalizing"} /\ Commits(markFeedConditionally(Now))
     \/ \E status \in {"completed", "abandoned"} :
          /\ match.feed # "terminal" \/ (Fickle /\ match.status # status)
          /\ Commits(ApplyProviderTerminalClosure(Now, status))
     \/ /\ match.feed = "stale" /\ match.status \in {"live", "innings_break"}
        /\ Commits(abandonDeadMatch(Now))
  /\ spent' = [spent EXCEPT !.outages = @ + 1]
  /\ FeedUnchanged

\* The provider keeps reporting what it reported last.
SteadyPoll == Poll(match.last, FALSE)

Feed ==
  \/ \E report \in Reports(match), other \in BOOLEAN :
       /\ other => Fickle /\ match.contract = 2 /\ report.phase = "abandoned"
       /\ Poll(report, other)
  \/ Outage

-----------------------------------------------------------------------------
(* Processors: the job and its lease.                                      *)

Goto(w, at) == worker' = [worker EXCEPT ![w].at = at]
Owns(w) == job.status = "processing" /\ lease.owner = w
Unleased == [owner |-> NoWorker, expired |-> FALSE]

ClaimSettlementJob(w) ==
  /\ worker[w].at = "idle"
  /\ \/ job.status \in {"pending", "failed"}
     \/ job.status = "processing" /\ lease.expired
  /\ job' = [job EXCEPT !.status = "processing"]
  /\ lease' = [owner |-> w, expired |-> FALSE]
  /\ worker' = [worker EXCEPT ![w] =
       [Idle EXCEPT !.revision = job.revision,
                    !.at = IF job.action = "void" THEN "voiding" ELSE "settling"]]
  /\ UNCHANGED <<match, market, books, orderVars, spent>>

\* FailSettlementJob: the job is retried, unless the lease is gone.
Failing(w) ==
  /\ job' = IF Owns(w) THEN [job EXCEPT !.status = "failed"] ELSE job
  /\ lease' = IF Owns(w) THEN Unleased ELSE lease
  /\ worker' = [worker EXCEPT ![w] = Idle]

CompleteSettlementJob(w) ==
  /\ worker[w].at = "done"
  /\ job' = IF Owns(w) THEN [job EXCEPT !.status = "complete"] ELSE job
  /\ lease' = IF Owns(w) THEN Unleased ELSE lease
  /\ worker' = [worker EXCEPT ![w] = Idle]
  /\ UNCHANGED <<match, market, books, orderVars, spent>>

\* A processor stops, fails a step, or stalls past its lease.
Mishap(w) ==
  /\ worker[w].at # "idle" /\ spent.mishaps < MaxMishaps
  /\ spent' = [spent EXCEPT !.mishaps = @ + 1]
  /\ \/ worker' = [worker EXCEPT ![w] = Idle] /\ UNCHANGED <<job, lease>>
     \/ Failing(w)
     \/ Stalls /\ Owns(w) /\ ~lease.expired /\ lease' = [lease EXCEPT !.expired = TRUE]
        /\ UNCHANGED <<job, worker>>
  /\ UNCHANGED <<match, market, books, orderVars>>

\* The lease of a stopped processor runs out.
LeaseExpires ==
  /\ job.status = "processing" /\ ~lease.expired
  /\ worker[lease.owner].at = "idle"
  /\ lease' = [lease EXCEPT !.expired = TRUE]
  /\ UNCHANGED <<feedVars, worker, books, orderVars, spent>>

\* maintainLease: a processor that cannot renew its lease gives up.
maintainLease(w) ==
  /\ worker[w].at # "idle" /\ ~Owns(w)
  /\ worker' = [worker EXCEPT ![w] = Idle]
  /\ UNCHANGED <<feedVars, lease, books, orderVars, spent>>

Renew(w) ==
  /\ worker[w].at # "idle" /\ Owns(w) /\ lease.expired
  /\ lease' = [lease EXCEPT !.expired = FALSE]
  /\ UNCHANGED <<feedVars, worker, books, orderVars, spent>>

-----------------------------------------------------------------------------
(* Processors: settlement, squareOff.                                      *)

Fail(w) == Failing(w) /\ UNCHANGED <<match, market, books, orderVars, spent>>

Stepping == UNCHANGED <<match, job, lease, spent>>

\* GetProviderSettlementMarket: the market of exactly the job's revision.
ReadMarket(w) ==
  /\ worker[w].at = "settling"
  /\ IF market.revision # worker[w].revision THEN Fail(w)
     ELSE IF market.lifecycle = "settling"
       THEN /\ worker' = [worker EXCEPT ![w].at = "reading", ![w].score = market.score]
            /\ Stepping /\ UNCHANGED <<market, books, orderVars>>
     ELSE IF market.lifecycle = "settled" /\ market.claimed = worker[w].revision
       THEN Goto(w, "done") /\ Stepping /\ UNCHANGED <<market, books, orderVars>>
     ELSE Fail(w)

Claims(w) ==
  /\ market.lifecycle = "settling" /\ market.revision = worker[w].revision
  /\ market.claimed \in {0, worker[w].revision}

ClaimProviderSettlement(w) ==
  /\ worker[w].at = "reading"
  /\ IF Claims(w)
       THEN /\ market' = [market EXCEPT !.claimed = worker[w].revision]
            /\ worker' = [worker EXCEPT ![w].at = "listing",
                                        ![w].todo = {u \in Users : resting[u] > 0}]
            /\ Stepping /\ UNCHANGED <<books, orderVars>>
       ELSE Fail(w)

\* cancelWorkingOrders: every listed order, each in its own transaction.
CancelOrder(w, u) ==
  /\ worker[w].at \in {"listing", "unlisting"} /\ u \in worker[w].todo
  /\ reserved' = [reserved EXCEPT ![u] = @ - resting[u]]
  /\ resting' = [resting EXCEPT ![u] = 0]
  /\ worker' = [worker EXCEPT ![w].todo = @ \ {u}]
  /\ Stepping /\ UNCHANGED <<market, position, cash, fills, orderVars>>

Open == {u \in Users : position[u].lots # 0}
Lots == [u \in Users |-> position[u].lots]

collectOpenPositions(w) ==
  /\ worker[w].at = "listing" /\ worker[w].todo = {}
  /\ worker' = [worker EXCEPT ![w].at = "closing", ![w].todo = Open, ![w].lots = Lots]
  /\ Stepping /\ UNCHANGED <<market, books, orderVars>>

\* The settlement order of a user, found by its client order id or created.
FindOrCreate(w, u) ==
  /\ worker[w].at = "closing" /\ u \in worker[w].todo
  /\ closing[u].revision # worker[w].revision
  /\ closing' = [closing EXCEPT ![u] = [stage |-> "open", lots |-> worker[w].lots[u],
                                         revision |-> worker[w].revision]]
  /\ Stepping /\ UNCHANGED <<market, worker, books, undo, frozen, refunded>>

\* Mutant: a forced buy needs the money, as a user's buy does.
Affordable(u) ==
  closing[u].lots < 0 => cash[u] - reserved[u] + position[u].collateral >= Payoff(market.score)

\* A forced buy is not refused for lack of funds.
Solvent(u) == TRUE

\* Mutant: the order found is filled whatever became of it.
Refillable(u) == TRUE

\* The fill: the order must still be open, and the position must still hold
\* the lots to close.
Closable(u) ==
  /\ closing[u].stage = "open"
  /\ closing[u].lots > 0 => position[u].lots >= closing[u].lots
  /\ closing[u].lots < 0 => position[u].lots <= closing[u].lots
  /\ Solvent(u)

applySettlementFill(w, u) ==
  /\ worker[w].at = "closing" /\ u \in worker[w].todo
  /\ closing[u].revision = worker[w].revision
  /\ worker' = [worker EXCEPT ![w].todo = @ \ {u}, ![w].ok = @ /\ Closable(u)]
  /\ IF Closable(u)
       THEN /\ cash' = [cash EXCEPT ![u] = @ + closing[u].lots * Payoff(worker[w].score)]
            /\ reserved' = [reserved EXCEPT ![u] = @ - position[u].collateral]
            /\ position' = [position EXCEPT ![u] = Flat]
            /\ closing' = [closing EXCEPT ![u].stage = "executed"]
       ELSE UNCHANGED <<cash, reserved, position, closing>>
  /\ Stepping /\ UNCHANGED <<market, resting, fills, undo, frozen, refunded>>

\* Every position was closed and none is left: the market is settled.
Recheck(w) ==
  /\ worker[w].at = "closing" /\ worker[w].todo = {}
  /\ IF worker[w].ok /\ Open = {}
       THEN Goto(w, "closed") /\ Stepping /\ UNCHANGED <<market, books, orderVars>>
       ELSE Fail(w)

SetGate(w, lifecycle, final) ==
  LET t == SetProviderMarketGate(Now, lifecycle, FALSE, final)
  IN  IF t.ok THEN /\ market' = t.market /\ Goto(w, "done")
                   /\ Stepping /\ UNCHANGED <<books, orderVars>>
      ELSE Fail(w)

SetSettled(w) ==
  /\ worker[w].at = "closed"
  /\ SetGate(w, "settled", [revision |-> worker[w].revision, score |-> worker[w].score])

Settle(w) ==
  \/ ReadMarket(w) \/ ClaimProviderSettlement(w)
  \/ \E u \in Users : CancelOrder(w, u) \/ FindOrCreate(w, u) \/ applySettlementFill(w, u)
  \/ collectOpenPositions(w) \/ Recheck(w) \/ SetSettled(w)

-----------------------------------------------------------------------------
(* Processors: voiding, VoidProviderInningsMarket.                         *)

FillsOf(history, u) == {n \in DOMAIN history : history[n].user = u}
Spend(f) == IF f.side = "buy" THEN f.price ELSE -f.price
CashDelta(history, u) ==
  Total([n \in DOMAIN history |-> IF n \in FillsOf(history, u) THEN Spend(history[n]) ELSE 0],
        Len(history))

ReadVoidable(w) ==
  /\ worker[w].at = "voiding"
  /\ IF market.lifecycle = "void"
       THEN Goto(w, "done") /\ Stepping /\ UNCHANGED <<market, books, orderVars>>
     ELSE IF market.lifecycle = "settling" /\ market.claimed = 0
       THEN /\ worker' = [worker EXCEPT ![w].at = "unlisting",
                                        ![w].todo = {u \in Users : resting[u] > 0}]
            /\ Stepping /\ UNCHANGED <<market, books, orderVars>>
     ELSE Fail(w)

\* The executions listed for the void.
ListExecutions(w) ==
  /\ worker[w].at = "unlisting" /\ worker[w].todo = {}
  /\ worker' = [worker EXCEPT ![w].at = "weighing", ![w].seen = fills]
  /\ Stepping /\ UNCHANGED <<market, books, orderVars>>

\* providerVoidCompensations: cash from the fills, collateral from the open
\* positions.
providerVoidCompensations(w) ==
  /\ worker[w].at = "weighing"
  /\ worker' = [worker EXCEPT ![w].at = "freezing",
       ![w].todo = {u \in Users : FillsOf(worker[w].seen, u) # {}},
       ![w].comp = [u \in Users |->
          [set |-> TRUE, cash |-> CashDelta(worker[w].seen, u),
           reserved |-> -position[u].collateral, hash |-> FillsOf(worker[w].seen, u)]]]
  /\ Stepping /\ UNCHANGED <<market, books, orderVars>>

\* Mutant: a restarted void recomputes what it froze.
Refrozen(u, comp) == comp

\* The first compensation frozen for a user is the one every attempt uses.
Frozen(u, comp) == IF frozen[u].set THEN frozen[u] ELSE comp

FreezeProviderVoidCompensation(w, u) ==
  LET comp == worker[w].comp[u]
      kept == Frozen(u, comp)
  IN  /\ worker[w].at = "freezing" /\ u \in worker[w].todo
      /\ IF kept.hash = comp.hash /\ kept.cash = comp.cash
           THEN /\ frozen' = [frozen EXCEPT ![u] = kept]
                /\ worker' = [worker EXCEPT ![w].todo = @ \ {u}, ![w].comp[u] = kept]
                /\ Stepping /\ UNCHANGED <<market, books, closing, undo, refunded>>
           ELSE Fail(w)

AllFrozen(w) ==
  /\ worker[w].at = "freezing" /\ worker[w].todo = {}
  /\ worker' = [worker EXCEPT ![w].at = "refunding",
       ![w].todo = {u \in Users : /\ FillsOf(worker[w].seen, u) # {}
                                  /\ \/ worker[w].comp[u].cash # 0
                                     \/ worker[w].comp[u].reserved # 0}]
  /\ Stepping /\ UNCHANGED <<market, books, orderVars>>

\* Mutant: the wallet reversal carries no operation key.
Unkeyed(u) == FALSE

\* The operation key of the reversal is already recorded.
Replayed(u) == refunded[u].set

\* A key recorded with another payload is a conflict.
ReverseProviderContract(w, u) ==
  LET comp == [worker[w].comp[u] EXCEPT !.hash = {}]
  IN  /\ worker[w].at = "refunding" /\ u \in worker[w].todo
      /\ IF Replayed(u) /\ refunded[u] # comp THEN Fail(w)
         ELSE /\ worker' = [worker EXCEPT ![w].todo = @ \ {u}]
              /\ refunded' = [refunded EXCEPT ![u] = comp]
              /\ IF Replayed(u) THEN UNCHANGED <<cash, reserved>>
                 ELSE /\ cash' = [cash EXCEPT ![u] = @ + comp.cash]
                      /\ reserved' = [reserved EXCEPT ![u] = @ + comp.reserved]
              /\ Stepping
              /\ UNCHANGED <<market, position, resting, fills, closing, undo, frozen>>

AllRefunded(w) ==
  /\ worker[w].at = "refunding" /\ worker[w].todo = {}
  /\ worker' = [worker EXCEPT ![w].at = "unwinding", ![w].todo = DOMAIN worker[w].seen]
  /\ Stepping /\ UNCHANGED <<market, books, orderVars>>

Newest(w) == CHOOSE n \in worker[w].todo : \A k \in worker[w].todo : k <= n
Opposite(side) == IF side = "buy" THEN "sell" ELSE "buy"

\* Reversal of the newest execution left: an order under a stable client
\* order id, then its fill, which moves the position but not the wallet.
ReverseExecution(w) ==
  /\ worker[w].at = "unwinding" /\ worker[w].todo # {}
  /\ LET n == Newest(w)
         f == worker[w].seen[n]
     IN  CASE undo[n] = "none" ->
                /\ undo' = [undo EXCEPT ![n] = "open"]
                /\ UNCHANGED <<worker, position>>
           [] undo[n] = "open" ->
                /\ undo' = [undo EXCEPT ![n] = "executed"]
                /\ position' = [position EXCEPT ![f.user] = Moved(@, Opposite(f.side), f.price)]
                /\ worker' = [worker EXCEPT ![w].todo = @ \ {n}]
           [] OTHER -> /\ worker' = [worker EXCEPT ![w].todo = @ \ {n}]
                       /\ UNCHANGED <<undo, position>>
  /\ Stepping
  /\ UNCHANGED <<market, cash, reserved, resting, fills, closing, frozen, refunded>>

\* Nothing is left open: the market is void.
Unwound(w) ==
  /\ worker[w].at = "unwinding" /\ worker[w].todo = {}
  /\ IF Open = {} THEN Goto(w, "unwound") /\ Stepping /\ UNCHANGED <<market, books, orderVars>>
     ELSE Fail(w)

SetVoid(w) == worker[w].at = "unwound" /\ SetGate(w, "void", NoFinal)

Void(w) ==
  \/ ReadVoidable(w) \/ ListExecutions(w) \/ providerVoidCompensations(w)
  \/ \E u \in Users : FreezeProviderVoidCompensation(w, u) \/ ReverseProviderContract(w, u)
  \/ AllFrozen(w) \/ AllRefunded(w) \/ ReverseExecution(w) \/ Unwound(w) \/ SetVoid(w)

-----------------------------------------------------------------------------

Work(w) ==
  ClaimSettlementJob(w) \/ Settle(w) \/ Void(w) \/ CompleteSettlementJob(w)
  \/ maintainLease(w) \/ Renew(w)

Next ==
  \/ Trading \/ Feed
  \/ \E w \in Workers : Work(w) \/ Mishap(w)
  \/ LeaseExpires

-----------------------------------------------------------------------------

Spec == Init /\ [][Next]_vars

\* A live provider is polled for ever: WF_vars(SteadyPoll), with the states in
\* which the poll changes something written out.
PolledForEver ==
  \/ []<>(PollResult(match.last, FALSE) = Now)
  \/ []<><<SteadyPoll>>_vars

\* A processor ticks every second, and a lease lasts a bounded time.
Fairness ==
  /\ \A w \in Workers : WF_vars(Work(w))
  /\ WF_vars(LeaseExpires)
  /\ PolledForEver

FairSpec == Spec /\ Fairness

-----------------------------------------------------------------------------
(* Properties.                                                             *)

Stages ==
  {"idle", "settling", "reading", "listing", "closing", "closed", "voiding", "unlisting",
   "weighing", "freezing", "refunding", "unwinding", "unwound", "done"}

Fills == [user : Users, side : {"buy", "sell"}, price : Prices]
Comps == [set : BOOLEAN, cash : Int, reserved : Int, hash : SUBSET Nat]
Processors ==
  [at : Stages, revision : Nat, score : Nat, todo : SUBSET (Users \cup Nat),
   lots : [Users -> Int], ok : BOOLEAN, seen : Seq(Fills), comp : [Users -> Comps]]

TypeOK ==
  /\ match \in Matches /\ market \in Markets /\ job \in Jobs
  /\ lease \in [owner : Workers \cup {NoWorker}, expired : BOOLEAN]
  /\ worker \in [Workers -> Processors]
  /\ position \in [Users -> [lots : Int, collateral : Nat]]
  /\ cash \in [Users -> Int] /\ reserved \in [Users -> Int]
  /\ resting \in [Users -> Prices \cup {0}]
  /\ fills \in Seq(Fills)
  /\ undo \in Seq({"none", "open", "executed"}) /\ Len(undo) = Len(fills)
  /\ closing \in [Users -> [stage : {"none", "open", "executed"}, revision : Nat, lots : Int]]
  /\ frozen \in [Users -> Comps] /\ refunded \in [Users -> Comps]

\* Money is what the deposits and the trades left, plus one payoff for a
\* closed position and one reversal for a refunded user: however often the
\* settlement or the void was retried (squareoff.go, forceClosePosition and
\* reverseProviderMarketExecutions).
BooksBalance ==
  \A u \in Users :
    cash[u] = Deposit - CashDelta(fills, u)
                + (IF closing[u].stage = "executed"
                     THEN closing[u].lots * Payoff(market.score) ELSE 0)
                + refunded[u].cash

\* A market is closed for good only when no position, no working order and no
\* blocked margin is left on it: nothing can be traded, filled or rested
\* while it is being settled or voided.
NothingLeftOpen ==
  market.lifecycle \in {"settled", "void"} =>
    Open = {} /\ \A u \in Users : resting[u] = 0 /\ reserved[u] = 0

\* From the claim on, the final the market settles at is the claimed one: a
\* corrected score is refused (ClaimProviderSettlement and the guards of
\* UpdateProviderMarketGate).
ClaimIsFinal ==
  [][market.claimed > 0 =>
       /\ market'.claimed = market.claimed /\ market'.revision = market.claimed
       /\ market'.score = market.score]_vars

\* The settlement implements the payout the market promises.
Unwinding(u) ==
  refunded[u].set \/ \E n \in DOMAIN undo : undo[n] # "none" /\ fills[n].user = u

Phase ==
  CASE market.lifecycle \in {"settled", "void"} -> market.lifecycle
    [] market.lifecycle \notin {"settled", "void"} /\ market.claimed > 0 -> "fixed"
    [] OTHER -> IF \E u \in Users : Unwinding(u) THEN "refunding" ELSE "trading"

P == INSTANCE Payout WITH
       phase <- Phase,
       payoff <- IF market.claimed > 0 THEN Payoff(market.score) ELSE 0,
       lots <- [u \in Users |-> IF Unwinding(u) THEN 0 ELSE position[u].lots],
       money <- cash,
       Payoffs <- {Payoff(score) : score \in Scores}

\* Settlement and void implement Payout: paid once at one payoff, or
\* refunded once, never both, whatever stops, stalls and retries.
PaysOut == P!Spec

\* A claimed market is settled, whatever its processors go through, unless
\* the feed puts its job on hold.
ClaimSettles ==
  market.claimed > 0 ~> (market.lifecycle = "settled" \/ job.status = "held")

\* A void job voids its market.
VoidFinishes ==
  (job.action = "void" /\ job.status = "pending") ~> market.lifecycle = "void"
=============================================================================
