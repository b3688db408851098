# Formal verification of the Crikoptions backend

Crikoptions lets users trade, with paper money, contracts on the score of a
live cricket innings. The backend is a Go service over MongoDB: several API
replicas serve requests and run job processors, one or more feed workers poll
the score providers, and nothing but MongoDB documents is shared between
processes. This directory holds TLA+ models of its parts, the TLC runs that
check them on small instances, and TLAPS proofs of their main properties for
every instance. Paths below are relative to `src/internal`.

1. [The system](#1-the-system): inventory
2. [The modules](#2-the-modules) and how they correspond to the code
3. [The runs](#3-the-runs): bounds, fairness, what they show
4. [Findings and observations](#4-findings-and-observations)
5. [The proofs](#5-the-proofs): theorems, assumptions, arguments
6. [What is only model-checked, and what is not modelled](#6-what-is-only-model-checked-and-what-is-not-modelled)
7. [Plan](#7-plan)

## 1. The system

| Component | State | Operations | What makes it correct |
|---|---|---|---|
| Order service (`modules/orders`) | `orders`, `executions` | create, fill, cancel, close, gate-job cancellation, preview | an order has one fate; margin is held exactly as long as it is needed; a quote is what the fill does |
| Square-off (`modules/orders/squareoff.go`) | orders with `settlement:` and `void:` client ids, `provider_void_compensations` | settle an innings, void it | every position is closed once, at the claimed score, or every user refunded once |
| Positions (`modules/positions`) | one projection per user and contract | apply an execution inside a fill; replay; show | lots are the sum of the executions; collateral covers shorts |
| Wallet (`modules/wallet`) | account (cash, reserved), ledger, operation keys | credit, debit, reserve, release, settle, reverse, bonus, top-up | balances agree, are never overdrawn, each operation applies once |
| Trading gate (`modules/matches`, `modules/markets`) | state, blockers and versions on a match and its markets | verification inside the order transactions | nothing trades while the gate is closed |
| Gate jobs (`criclive/store`, `criclive/settlement`) | one job per match with a lease | enqueue, claim, renew, complete, fail | what rested when the gate closed is cancelled; the gate reopens |
| Settlement jobs | one job per innings market with a lease | enqueue, convert, hold, claim, renew, complete, fail | every finished innings is settled, by one revision |
| Feed projection (`criclive/store/apply*.go`) | match, markets, balls, outbox | apply a poll, mark stale, heal, finalise, abandon | a market closes once; the balls converge to the provider's |
| Feed worker (`criclive/worker`) | polling targets with leases, request buckets | discover, claim, poll, complete, fail, park | one poller per target; allowances respected; a match is followed to its end |
| Provider clients (`criclive/client`, `criclive/cricketline`) | a memo of the striker | translate a provider's document | the innings, striker and overs of the match |
| Reducer (`criclive/reconcile`) | none | one state of the match from two readings | what a poll reads is the match |
| Realtime (`realtime`) | outbox, change stream, hub, connections | insert, deliver, resume, disconnect | a viewer is never behind without being told |
| Simulator (`modules/simulator`) | lock, replayed match | start, resume, replay, stop | each ball recorded once and in order |
| Challenges, sign-up bonus (`modules/challenges`, `modules/auth`) | progress documents | count, claim, pay | a reward is paid once |
| Portfolio, leaderboard (`modules/portfolio`) | none | totals, daily profit, equity curve | profit is the money the wallet took and paid |
| Chat, watchlist, health, authentication | their own collections | | independent of trading |

Components interact by function calls within a process, and between processes
only through documents. Multi-document transactions (snapshot reads, majority
writes, write conflicts) are the unit of atomicity. There is no other lock
between processes.

What is hard:

* `CreateOrder` reads match, quote and position outside any transaction, then
  creates the order with its margin in one transaction and fills it in a
  second. Anything may happen in between: a cancel, another fill of the same
  position, a gate closure, a hang-up, the death of the process. The mutex
  that serialises one user's orders on one strike is per process.
* The gate is closed and reopened by the feed, by administrators and by the
  completion of gate jobs, while handlers retry with back-offs.
* A settlement or a void is dozens of transactions by a processor that may stop,
  fail or lose its lease between any two, while the feed corrects the result,
  puts the job on hold or turns it into a void.
* Leases run out under a holder that still works; a late poll meets a target,
  a match or a result that has moved on.
* Request buckets are taken in two writes over the ends of hours and days.
* Balls are corrected, withdrawn and served out of order; change streams
  break; two providers name batters, innings and overs differently.
* Money outside trading is moved without an operation key, in two writes.

`PROJECT.json` lists every component with its status and every hazard at its
line with the properties that cover it.

## 2. The modules

| Module | Models | Checked through |
|---|---|---|
| `OrderMath`, `Totals` | arithmetic of orders, margins, projections and wallets; sums over `1..n` | `Trading`, `Portfolio`, proofs |
| `Trading` | the life of orders on one match | `MCTrading` |
| `GateJobs` | the trading gate of a match, its writers, its job and the processors | `MCGateJobs` |
| `Finalization` | the feed's transactions on match, market and settlement job, as functions | `Settlement` |
| `Settlement` | one innings market from trading to payout: users, feed, processors | `MCSettlement` |
| `Payout` | abstract specification of `Settlement` | `Settlement!PaysOut` |
| `Polling` | how one fixture is followed: scans, dispatcher, polls, leases, parks | `MCPolling` |
| `Outbox`, `Deliveries`, `Realtime` | stored balls, outbox events, change stream and viewer | `Broadcast` |
| `Replay` | the simulator's workers and their lock | `Broadcast` |
| `Broadcast` | composes the two ways balls come in | `MCBroadcast` |
| `RequestQuota` | request buckets of the hour and the day | `Separate` |
| `Cadence` | how often the provider is asked over a day | `Separate` |
| `Scoreboard`, `CricketLine` | reading the first and the second provider | `Separate` |
| `Portfolio` | what a user is shown | `Separate` |
| `Accounts` | money outside trading | `Separate` |
| `Separate` | puts parts that share nothing side by side for one run | `MCSeparate` |
| `TotalsProofs` | lemmas on sums | |
| `TradingProofs` | the arithmetic of orders, theorems on `Trading` | |
| `GateJobsProofs`, `PollingProofs` | theorems on those modules | |
| `SettlementProofs`, `CustodyProofs` | theorems on `Settlement`, its refinement of `Payout` | |
| `BroadcastProofs` | theorems on `Deliveries`, `Realtime` and `Replay` | |
| `SeparateProofs` | theorems on `RequestQuota`, `Accounts`, `CricketLine` and `Cadence` | |

In every module an action is one MongoDB transaction or write, or a group of
reads outside a transaction whose result the caller keeps. `map` in
`PROJECT.json` names the lines behind each definition.

### Trading

`wallet` and `position` are the account and open-projection documents, `order`
and `executions` the two collections, `request` the local state of each handler
(its stage and what it remembers of its reads), `gate` the gate of the match.
`funded` and `marketable` are history.

| Code (`modules/orders/service.go` unless named) | Actions |
|---|---|
| look-up by client order id, before the lock | `Receive` |
| `lockFor`, match, market, quote, position, `buildPositionPlan` | `Plan`, `PlanRefused` |
| first transaction: gate, insert, `ReserveOrderMargin` | `Create`, `CreateRefused`, `CreateFenced` |
| back-off and second reading of the match | `Reread`, `RereadRefused` |
| `applyFill`: gate, projection, `UpdateFill`, wallet, execution | `Fill`, `FillFenced`, `FillDenied`, `FillStale` |
| compensation after a failed immediate fill | `Undo` |
| `CancelOrder`; `CancelProviderWorkingOrders` | `UserCancel`; `GateCancel` |
| `AdminCredit`, `AdminDebit` | the same |
| gate closed or reopened; request context ends; process dies | `CloseGate`, `ReopenGate`; `Disconnect`; `Crash` |

Money is an integer number of paise, because the code rounds every stored
amount; the only rounding left that depends on values is `ProRata`. Quotes are
any price of a set, at any time. `Plan` makes the reads of `CreateOrder` one
step: only position and gate are shared, and the transactions check both
again. Orders fill whole, since `applyFill` is always called with the remaining
quantity, and no matcher fills a resting order.

### GateJobs

`match` (status, feed state, trading state, blockers, trading version),
`market`, the one `trading_gate_jobs` document of the match (`job`), each
replica's processor (`worker`), resting orders (`order`), the administrators'
last word (`control`) and a starting replica between its read and its writes
(`heal`). `due`, `fresh`, `drained` are history.

| Code (`criclive/store` unless named) | Actions |
|---|---|
| `applyProjectionTransaction` with `projectMatch` | `Project` |
| the same, snapshot already applied: `applyFeedHealth` | `Refresh` |
| `applyReconcilingPoll`, `decideReconcilingTradingGate` | `ReconcilingPoll` |
| `markFeedConditionally` | `MarkFeed` |
| `SetGlobalTradingKill`, `SetProviderManualGate` | `SetKill`, `SetManual` |
| `HealFalselyStaleLiveMatches` | `HealRead`, `HealWrite`, `HealProject` |
| a user's order and cancel | `ReadMatch`, `Rest`, `Withdraw` |
| `ClaimTradingGateJob`; `CancelProviderWorkingOrders` | `Claim`; `List`, `CancelOrder`, `CancelFails` |
| `CompleteTradingGateJob`, `FailTradingGateJob` | `Complete`, `Fail` |
| `RenewTradingGateJob`; death, lease time | `Renew`, `LeaseLost`; `Stop`, `Expire`, `Stall` |

Blocker lists are sets; `sameStrings` compares lists, so two equal sets of two or
more blockers may compare either way (`Same`). The feed state `stale` stands
for `stale`, `quota_limited` and `unsupported`. A transaction that finds
another `stateVersion` is retried and is a later step. `List` reads
all orders at once: one that comes to rest between two of its reads is seen or is
newer than the claim.

### Finalization, Settlement and Payout

`Finalization` has no state: a transaction is a record `[match, market, job,
ok]` threaded through the store's functions in the order the code calls them
(`applyProjectionTransaction`, `projectMatch`, `projectMarkets`,
`advanceFinalCandidate`, `SetProviderMarketGate`, `enqueueSettlementJobs`,
`voidJobConversionUpdate`, `ResetFinalizationHolds`, `abandonDeadMatch`, ...).
A function that returns an error clears `ok`, and the caller commits nothing.

`Settlement` adds users, processors and money. `lease` is the job's lease,
`worker` what each processor is doing and remembers, `closing` and `undo` the
settlement and reversal orders found by their client order ids, `frozen` the
compensation documents, `refunded` the reversal operations of the wallet.

| Code | Actions |
|---|---|
| a fill, a resting order, its fill | `Trade`, `Rest`, `FillResting` |
| `ApplyProjection`; a failed poll; watchdog; reaper | `Poll`; `Outage` |
| `ClaimSettlementJob`, `CompleteSettlementJob`, `FailSettlementJob`, `RenewSettlementJob` | the same, `Failing`, `Renew` |
| `maintainLease`; time; failures | `maintainLease`; `LeaseExpires`; `Mishap` |
| `squareOff`: read, claim, cancel, collect, close, settle | `ReadMarket`, `ClaimProviderSettlement`, `CancelOrder`, `collectOpenPositions`, `FindOrCreate`, `applySettlementFill`, `Recheck`, `SetSettled` |
| `VoidProviderInningsMarket` with `reverseProviderMarketExecutions` | `ReadVoidable`, `CancelOrder`, `ListExecutions`, `providerVoidCompensations`, `FreezeProviderVoidCompensation`, `AllFrozen`, `ReverseProviderContract`, `AllRefunded`, `ReverseExecution`, `Unwound`, `SetVoid` |

A trade is one atomic fill of one lot (`Trading` has its steps); the hash of
a final candidate is its score; the hold time of a candidate counts as elapsed
with its last identical poll. `Fickle` says whether the provider may take a
final status back, `Stalls` whether a live processor may outlive its lease.

`Payout` is the promise: while the market trades, positions and money move
together; then one payoff is fixed and every position is paid it once, or
every user gets back what the market took; never both, never twice. `PaysOut`
maps `Settlement` to it: `Phase` from the market's lifecycle, its claim and the
refunds begun, `lots` without those being unwound, money as it is.

### Polling, RequestQuota, Cadence

`Polling` has the target document, the public match (its status and whether
its feed is terminal), the workers that run (`up`), what each dispatcher and
scanner has read, and the polls in flight with their fencing tokens. `sent` is
history: requests sent since the last resync, without those of polls that lost
their lease, their write or their worker. Actions: `Scan` (`ScanReads`,
`ScanWrites`, `ScanJudges`: live list and schedule), `Dispatch` (`DueTargets`),
`Serve` (`ParkTarget`, `DeferTarget`, `ClaimTarget`), `Poll` (`PollFetches`,
`PollRefused`, `PollFails`, `PollCloses`, `ApplyProjection`, `ApplyRejected`,
`LeaseLost`, `PollRecords`, `handlePollFailure`, `Unrecorded`),
`RenewTargetLease`, `LeaseExpires`, `Ages`, `FeedMoves`, `Crash`, `Boot`,
`RequestFixtureResync`, `ChangeFeed`, `abandonDeadMatch`. Times are ranks
(armed or not, live window passed or not), the back-off's length is left out,
a scan's mark and sweep are one step, the live list may miss a match at any
scan, and a refusal by the quota is a free choice.

Three outcomes are kept apart because the code goes on after each. Discovery's
closure of a finished match may fail, and the scan stops the target all the
same (`ScanReads` with `closes` false). A poll of a finished match whose
provider still says it is over is not a regression for the code, so
`Projected` may take the match back to a break (`closing`). A mark of the feed
as unavailable takes its terminal state away, and with it the guard against
regressions (`MarkFeedUnavailable`). A provider that abandons a match is one
that ends it here; what an abandonment leaves to settle is `Finalization`'s.

`RequestQuota` has the refusal itself: `ConsumeRequestQuota` takes a slot of the
hour and then of the day in two writes, and gives the first back. `Cadence`
computes waits with the code's own constants (`adaptivePollInterval`,
`budgetPacedInterval`, `quietFeedInterval`, `failureBackoff`,
`feedValidityForInterval`, ...) in steps of ten minutes over a day. It counts
a slowing lull in full, so it over-counts reads.

### Deliveries, Realtime, Replay, Broadcast

`Deliveries` keeps the balls as the provider has them (`truth`), as stored
(`stored`: revision, hash, tombstone, polls missed), and the outbox. One poll is
one transaction (`Poll`: `Apply`, `Reconcile` or `Refresh`). `Realtime` follows
the outbox with a stream that breaks and resumes, a hub with bounded send
buffers and one viewer. `Replay` has the simulator's lock, its workers
named by lease tokens, the match's score and history, with the three writes of a
ball separate. `Broadcast` composes them: a match is of one kind and never
changes it. Pausing, bowler names, the hidden flag and the chase target of a
replay are left out; a read with the write that follows it in
`CompleteMatch`, `UpdateMatchScore` and `UpdateLiveContext` is one step.

### Scoreboard, CricketLine

`Scoreboard` reduces one poll of the first provider: overs that may be one
event late, joined with a summary discovery wrote at any earlier moment
(`ReduceSnapshot`, `miniScoreFromOvers`, `battersAtCrease`,
`inningsFromSnapshot`). `CricketLine` reads the second: over tokens, the
innings an unnumbered over belongs to (`assignInnings`), and the striker
inferred from the balls between two reads (`strikeTracker.resolve`). In both, a
ball is what it adds; texts, the pulse of the match and the bowler are left
out.

### Portfolio, Accounts

`Portfolio` holds position documents, the replay of executions, totals, daily
profit, equity curve, leaderboard and previews against the money the wallet
took and paid, for one user whose fills come one at a time. `Accounts` has
sign-up and welcome bonus, top-ups, adjustments without a key as two writes,
keyed rewards as one transaction, and the daily challenge's progress
documents counted inside fills that may abort.

## 3. The runs

| Run | Checks | Instance |
|---|---|---|
| `TradingLedger` | `ReserveBacked`, `CashReconciles`, `LotsReconcile`, `Solvent`, `ShortsCollateralised` | 3 orders, 2 contracts, 2 replicas, prices 1 and 2, quantities 1 and 2, gate open |
| `TradingRaces` | `OneFate`, `LimitRespected`, `OneOrderPerClientId`, `FinishedOrdersStay` | 2 orders, a shared client order id, 2 replicas, versions up to 3, crashes, hang-ups, 3 attempts |
| `TradingReplica` | `IntentHonoured`, `NothingLeftBehind`, `RequestsReturn` | 1 replica, closures, crashes, no hang-ups, fair handlers |
| `GateJobsFence` | `DrainCovers`, `SparesResumedOrders`, `ClosuresQueued` | 1 order, 2 processors, 2 closures, 1 mishap, no repair |
| `GateJobsHeal` | `AdminGateHolds`, `DueOrdersFinish` | 1 order, 2 processors, 1 closure, 1 repair, 1 mishap, fairness |
| `SettlementPays` | `BooksBalance`, `NothingLeftOpen`, `ClaimIsFinal`, `PaysOut` | 1 user, 2 processors, first innings, scores 1 and 5, 1 trade, 1 resting order, 2 reports, 1 outage, 1 mishap (stalls included) |
| `SettlementLive` | `ClaimSettles`, `VoidFinishes` | 1 user, 1 processor, either innings, 1 trade, 2 reports, 2 identical polls, 1 outage, 1 mishap, fairness |
| `SettlementStall` | `ClaimIsFinal` is violated | as `SettlementPays` with no trades, 3 reports and 2 mishaps |
| `Polling` | `RequestsCounted`, `HardParkStays`, `FinishedNotRevived`, `FollowedToTheEnd` | 1 worker that scans, one poll at a time, budget of 2 requests, 3 requests told apart, 1 upset, fairness; 444,146 states |
| `Parked` | `ParkedIsSkipped` is violated | as `Polling` without upsets |
| `Broadcast` | `Announced`, `Converges`, `NoHiddenGap`, `ReplaysOnce` | 2 overs of 1 ball, window of 1 over, 2 upsets or 1 and a break; 2 instances, 2 rows an innings, 2 starts, 1 failure |
| `Separate` | `QuotaReconciles`, `CadenceHolds`, `ReadingIsOfTheMatch`, `StrikeTracked`, `OversFiled`, `TotalsAreMoney`, `ViewsAgree`, `LedgerExplains`, `PaidOnce` | see below |

`CHECK_DEADLOCK FALSE` where the bounds end the behaviour: requests, closures,
reports, balls, fills and days are finite in number, and the modelled system
then rests.

Bounds and why they are enough.

* Trading: three orders are the least in which a position is opened and two
  others race over it; with two contracts they share a wallet. Quantities 1
  and 2 give partial closes, exact closes and flips; prices 1 and 2 give better, equal and
  worse quotes than a limit. `MaxFunded = 6` funds a short of one lot at any price
  but not everything at once. `LotSize` is 1: the real 25 multiplies every
  amount and matters only to the rounding of `ProRata`, which the proofs treat
  for every value. No document is shared between users but the gate.
* GateJobs: two closures are the least in which the job is raised, reset or
  claimed between them; every action treats each order alone; two processors race
  for the lease.
* Settlement: no document but the feed's is shared between users, so one
  user suffices; two scores, below and above the strike's payoff, tell a
  corrected final from the claimed one; two processors meet with one stall, stop
  or failed step. `HoldPolls = 2` where the instance is small enough: a
  candidate that becomes ready at once is the harder case for safety.
* Polling: one worker with one poll at a time never has two polls of the
  fixture, but its poll meets its own scans, parks, sweeps and closures, a
  change of feed, a resync and a lease that ran out, at every step; `PollRecords`,
  `LeaseLost` and `handlePollFailure` are reached with and without the lease. Two
  polls that overlap are left to the theorems, which hold for any number of
  workers and polls. A budget of 2 is the least that a second request reaches
  and a first does not; with `Many` = 3 requests told apart the count is
  compared beyond the budget too.
* Separate: each part has its own instance. Buckets of 2 requests an hour
  and 4 a day for two workers with two tasks each; days of two T20s at once,
  two in a row, and one ODI; matches of 2 overs of 2 balls (first provider) and of 2
  overs of 1 ball (second); four fills on two contracts at prices 0, 10 and 31 with replays cut
  at 3; three calls, two fills, two days and one crash. A behaviour is one of a
  single part, so the state spaces add up and never multiply.
* Symmetry is used only where no liveness property is checked.

Fairness. `Trading!FairSpec`: weak fairness of each handler, since a goroutine that can
run does, and the Go mutex behind `LockFree` is obtained in turn by starving
waiters; nothing is assumed of the gate, users, crashes or workers.
`GateJobs`: weak fairness of each processor's steps (`Processor.Run` ticks every
second) and of `Expire` (clocks advance). `Settlement`: the same for its
processors and leases, and `PolledForEver`: a live provider's last report keeps being
polled. `Polling`: weak fairness of the worker's loops, of its restart and of
the end of leases; strong fairness of `Dispatch` of a due target, of a request
being answered, of applying a final state and of the schedule scan, because
another step (a refusal, a quota denial, a lost lease) may disable each time
and again, but not for ever. The reaper runs every five minutes
(`cmd/api/main.go:197`) but closes only what nothing has read for hours, so its
step is fair only while the fixture is given up and no poll is under way. No
fairness makes the live list show a match, or its window pass. Mishaps,
outages, users and administrators get none.

## 4. Findings and observations

Two runs show a disagreement between the code and its own comments.

* `Parked`: a scan that parks a fixture past its live window
  (`criclive/store/store.go:887-893`) leaves the lease of a poll under way. The
  poll's record (`:1310`, or `:1341` when it fails) puts `nextPollAt` back, and
  neither `DueTargets` (`:1207-1216`) nor `OverrunReason` (`guardrails.go:137`)
  looks at a park: the fixture is polled again at live cadence, and each poll arms
  the next, until the match leaves play. `guardrails.go:29` says that parking "is
  recorded as parkedReason so no other code path re-arms it", and `:72-73` that
  dispatch skips a parked target. No mishap is needed. `HardParkStays` is what
  does hold: the reason stays on the document.
* `SettlementStall`: the claim of a market is not fenced by the job's lease
  (`modules/markets/repository.go:803-823`), and a void does not look at the
  claim when it closes the market (`:582-640`; the in-memory repository at
  `:208` differs). A processor that stalls between reading and claiming may claim after its job
  was taken over, failed, held and turned into a void that was already let in. The
  market ends void, without the final that
  `modules/markets/service.go:169` says was frozen, and the contract may be both
  closed and refunded. Two mishaps are needed. `SettlementPays` allows one of
  any kind, stalls included; the theorems assume there are no stalls
  (`~Stalls`), and this run shows why.

The following were met while modelling. They have no run of their own.

* Orders. `modules/orders/service.go:180-181`: the lock is per process, so two
  replicas oversell (hence `IntentHonoured` for one replica). `:781-783`: a client that hangs
  up during the back-off leaves a marketable order working (hence `NothingLeftBehind`
  without hang-ups). `criclive/store/apply.go:906-908`: a rain-shortened match is not
  held when a reconciling poll recomputes the blockers (`apply_feed.go:208-217`). `:923-925`:
  orders that rest at a closure made while a processor works on an earlier
  one keep resting (hence `DueOrdersFinish` asks that the job was waiting).
* Gate. A snapshot of a break applied again closes a match that a reconciling
  poll had reopened without a new version or job, so `ClosuresQueued` speaks of
  closures under a new version. The repair at start may undo the match's
  `manual` blocker (the market's copy holds) and set the trading version back,
  so version properties are stated for matches no repair touches.
* Settlement. A claimed market whose job a failed poll holds, followed by a
  restart, is never settled (the phased plan, `:1260`, `:1294`, asks for it). A closure
  `finished` and then `abandoned` turns a ready job into a void without
  freezing dispositions, so users are refunded and then settled: that is why
  `Fickle` is FALSE in the runs. A job re-enqueued by a correction after its market settled fails
  for ever. `NormalizeProviderStatus` maps "No Result" to completed.
* Polling. A target parked between `DueTargets` and `ClaimTarget` is polled
  at live cadence too (`Parked` above); an absent target is probed beyond the
  request budget (`guardrails.go:44`); a poll that lost its lease is billed but
  not counted, although `model.go:90-91` calls the count "every provider request";
  the dispatcher's `MarkFeedUnavailable` and `DeferTarget` are
  unfenced; a duplicate key on the first upsert of a bucket counts as a full
  bucket; a league disabled between read and bulk write leaves a target
  eligible; a request begun before the end of an hour or a day uses the old bucket.
* Ends of matches. A finished match is taken back to a break, with its feed
  finalizing, by a poll whose provider phrase is not an explicit end ("X won by
  ...") while its hold has not been met: `apply.go:346-349` refuses a different status
  only, and `projectMatch` (`:937-958`) does not look at the match's own. A mark
  of the feed as stale overwrites the terminal feed state (`:301`), and then any
  poll may take the match back. `FinishedNotRevived` says what is left: only the
  holder of the lease does. When discovery's closure fails (`worker.go:444-450`;
  `apply_terminal.go:136-138` even returns no error), the scan puts the next poll
  365 days away (`store.go:969-971`) with the match in play; the next listing
  or a boot brings it back, otherwise the reaper abandons it hours later, and what
  had a result is voided. Hence `GivenUp` in `FollowedToTheEnd`.
  `CompleteStuckTerminalMatches` (`apply_terminal.go:202-204`) compares with a list
  that lacks CricLive's own "Complete". A closure may turn an abandoned match
  into a completed one, and a resync can revive one through a refused poll.
* Cadence. Two concurrent T20s use up the usable hour (720 requests) in about
  35 minutes, after which both are refused until the hour turns, against
  `worker.go:801-804` ("slower updates instead of a dead feed"): the pacer looks at
  the day only. `WithinBudget` says how far this goes: in the second half of an
  hour, and never for a match alone. A quiet scoreboard is read every 60 s +/- 10 %
  while it is valid for 60 s, so the watchdog closes trading between healthy polls,
  against `worker.go:727-731`: `QuietIsStaleBriefly` bounds the gap by 22 s. The
  2-minute failure back-off outlasts the validity as well (`:1064-1065`). The pacer
  does not save a day of an ODI and a T20, of two concurrent ODIs, or of three T20s.
* Deliveries and realtime. With corrections off, a missed ball that left
  the window makes four of five polls reconcile for ever; an unchanged healthy
  poll does not reset the count of missed polls; the resume token is
  set only after the first event, so a stream error before it skips events
  silently; an expired token is never cleared; simulator matches are
  published only to the local hub.
* Simulator. The writes of a ball are not fenced by the lease, so an overtaken
  worker's ball lands in the freshly reset match (hence `clean` in `ReplaysOnce`); an
  error of the event count reads as 0 and wipes the history; two HTTP starts on
  one instance attach two workers.
* Providers. When the figures of a batter fit both batters of the over before,
  `reducer.go:960` and `:963` give the newcomer's name to both, against the comment
  at `:958-959`. A stale summary of the first innings beside overs of the second reports the
  first complete with a low target; after a wide as an over's first ball the
  strip shows the over before. With the second provider, a scoreboard behind the strip can confirm
  the wrong striker, and run-outs on a completed run are not rotated:
  `misled` marks these in `StrikeTracked`. When the first innings ends with a
  batter run out on an extra that opens an over, the strip's last over is one past
  `ceil(legal / 6)` (`cricketline/translate.go:273`), so during the break all overs
  of the strip are filed under the second innings, against the comment at
  `cricketline/tokens.go:190-193` (hence `LegalWickets` in `OversFiledHolds`).
* Portfolio. Shorts settled at 0 show no profit (`positions/projection.go:180-184`); lots sold short
  after others were bought mix two averages; daily profit can count a slice
  on two days; orders are planned from the last 500 executions of a market
  whatever the strike, replays from the last 1000.
* Accounts. An aborted fill leaves its count in the daily progress; the first count
  of a day is lost when two upserts race; `balanceBefore` of an
  un-keyed entry may be stale; a bonus lost in a crash is never retried; a changed
  reward between crash and retry is a conflict for ever.

## 5. The proofs

`tlapm` checks every proof to its leaves, for arbitrary constants that meet the
named assumptions of the modules. `PROJECT.json` lists the theorems.

| Theorems | State |
|---|---|
| `TotalsProofs!TotalUpdate`, `TradingProofs!ConstraintIsPlan` | a changed summand changes the sum by the difference; the fill's constraint accepts what the planner accepts |
| `TradingProofs!TypeCorrect` | `TypeOK` of `Trading` |
| `TradingProofs!` `OneFateHolds`, `FinishedOrdersStayHolds`, `SolventHolds`, `ReserveBackedHolds`, `MarginReturnableHolds` | the property each is named for |
| `TradingProofs!` `OneOrderPerClientIdHolds`, `LimitRespectedHolds`, `CashReconcilesHolds`, `LotsReconcileHolds`, `ShortsCollateralisedHolds` | the same |
| `TradingProofs!IntentHonouredHolds` | `IntentHonoured`, with a single API process |
| `TradingProofs!NothingLeftBehindHolds` | `NothingLeftBehind`, if clients do not hang up |
| `GateJobsProofs!` `TypeCorrect`, `AdminGateCorrect` | `TypeOK`, `AdminGateHolds` |
| `GateJobsProofs!` `DrainCoversCorrect`, `ClosuresQueuedCorrect`, `SparesResumedOrdersCorrect` | those properties, if no replica repairs the match |
| `PollingProofs!` `TypeCorrect`, `RequestsCountedHolds`, `HardParkStaysHolds`, `FinishedNotRevivedHolds` | every safety property of `Polling`, for any number of workers and polls |
| `SettlementProofs!` `TypeCorrect`, `BooksBalanceHolds`, `ClaimIsFinalHolds` | those properties, if no processor outlives its lease |
| `CustodyProofs!` `NothingLeftOpenHolds`, `PaysOutHolds` | the closed market is empty; `Settlement` implements `Payout`: both if, besides, the provider takes no final status back |
| `BroadcastProofs!` `AnnouncedHolds`, `ConvergesHolds`, `NoHiddenGapHolds`, `ReplaysOnceHolds` | every property of `Broadcast` |
| `SeparateProofs!` `QuotaReconcilesHolds`, `LedgerExplainsHolds`, `PaidOnceHolds` | the property each is named for |
| `SeparateProofs!OversFiledHolds` | `OversFiled`, if wickets fall to legal balls |
| `SeparateProofs!` `FreshBetweenReadsHolds`, `QuietIsStaleBrieflyHolds`, `StartsNoticedHolds` | three of the four parts of `CadenceHolds`, for any programme of a day; the last if no match begins at midnight |

### Trading

`TypeOK` is inductive. `Unborn`: a handler that has not created its order has no
document and no execution; with it `Create` cannot overwrite an order and
`OneFate` becomes inductive (`FateInv`). `Solvent` is inductive with types
alone: each wallet operation preserves "available is cash minus reserved", and its
precondition keeps its balance non-negative; `FillAccountSolvent` does this for
the chain of a fill (`SolventInv`). `ReserveBacked` compares a balance with
two sums over orders and contracts, so an action is a change of one summand
(`TotalUpdate`); `FillDelta` says what the chain takes from the reserved
balance (`BackedInv`). `MarginReturnable` follows: a summand of a sum of naturals
is at most the sum.

`CashReconciles` and `LotsReconcile` relate a wallet and a projection to sums
over executions and use the same lemmas. `MemoryInv` relates what a handler remembers
to its order (`PlanPriced`, `OrderOfRequest`), from which `LimitInv` follows: the
price of a fill is the planned one or a requoted one, each tested against the
limit. `OneOrderPerClientId` is the unique index. `ShortsInv` bounds the
collateral of a short from below at the lowest price, through pro-rata
releases, flips and partial covers; it assumes there is a price.
`IntentInv` rests on `LockInv`: the handler past planning holds the process's lock
(`LockHeld`), so the position its plan saw is the position its fill meets
(`PlanFresh`); with a second process it is not. `TidyInv` says that the undo of a failed fill cannot
fail for lack of blocked margin, which is `ReserveBacked` again.

### GateJobs

`AdminInv` says where each gate rests: the kill switch on the match, the manual
gate on the market, and a repair that may still write has read the kill switch
as it stands. `FenceInv` orders the versions: no order, processor or job is
ahead of the match, so each closure is newer than all of them; an order due at
a closure is older than it and the job knows it (`DueQueued`); a processor that
failed nothing has listed every due order up to the version it claimed
(`DueListed`). Every writer of the gate is one of two kinds of step
(`GateWrite`), so preservation is proved once for all. `SpareInv` adds that
an order read after the last closure is not older than the job. A repair may
set the version back, hence `MaxHeals = 0`.

### Polling

`Inv == Shape /\ Assigned /\ OwnPolls`. `Shape` is the type of every document
with two facts of the lease (whole or absent; a target never written is not
parked). `Assigned`: only a running worker's dispatcher holds a task, and for a
target that exists. `OwnPolls`: polls run in running workers, and a fencing
token names one poll.

`RequestsCounted` relates the document to the history. A request sent adds one
to `sent` and one element to `Asked`, so their difference is unchanged; a poll that
records its outcome takes its element away and the document is charged one
(`EndsCount`); a poll that lost its lease or its write takes one from both sides
and charges nothing, and a worker that stops takes all of its own (`CrashCounts`).
`HardParkStays` goes through every writer of the park with whatever it read
before. `FinishedNotRevived` needs one fact more, `Heard`: a poll that carries
the end was answered after the provider reported it. On a finished match whose
feed is terminal such a poll is the only one `Rejected` lets through
(`PollOnFinished`).

### Settlement

`Inv` of `SettlementProofs` joins `TypeOK`, `BooksBalance` and

* `OneProcessor`: a processor at work holds the live lease. With `~Stalls` there is
  one at a time, and the feed leaves its job alone;
* `JobFollowed`: it works on the kind of job that is on the books;
* `FinalsAgree`: candidate, market and processors that carry one revision carry
  one score. A new final always takes a revision nobody carries (`RevisionNew`);
* `ClaimHolds`: a claimed market keeps its final and is settling or
  settled; a processor that closes contracts does so at the claim, one that reverses them met none;
* `ClosedOnce`: a contract is closed by execution at the claimed revision only, so
  what closings were paid is fixed by the market;
* `VoidWork`: dispositions a void will refund have been computed, and what it unwinds
  it has read.

The feed's transactions are proved write by write: `Reached(t)` is what every
intermediate record satisfies (documents coherent, nothing claimed or closed is
touched, a job being processed is left alone) and `Committed` what a committed
one does; each function of `Finalization` keeps `Reached`, and `FeedCommits` closes every
action of the feed. `InvStep` then has one lemma for each kind of step: who works and
on what (`FlowStep`), money (`FillBalance`, `CloseBalance`, `RefundBalance`),
closings and stages. `MarketKept`, the step form of `ClaimIsFinal`, comes out
of the same lemma.

`~Stalls` cannot be dropped from `ClaimIsFinalHolds`: `SettlementStall` is the
counterexample.

`CustodyInv` of `CustodyProofs` adds, for `~Stalls` and `~Fickle`,

* `VoidHolds`: a void job belongs to an abandoned match with an unclaimed market, so
  nothing is frozen, paid back or reversed for a market that is settled;
* `MarginHeld`: what the wallet blocks is the reserve of the working order and the
  collateral of the position, until the user is `Unwinding`: then the compensation
  has given the collateral back and the reversal moves the position alone;
* `RefundHeld`: the frozen compensation is the cash of the user's fills, the wallet was
  moved by exactly that, and no execution is reversed before the user is `Paid`;
* `Cancelled`, `Collected`, `Weighed`, `Repaid`: what a processor has done, at its
  stage, for the users it no longer has to do. They are what survives a restart:
  the next processor begins with an empty hand, and finds the orders, frozen documents and
  operation keys the last one left;
* `SeenAll`: a void works from all the executions there are, nobody trading any more.

At `closed` and `unwound` they give `NothingLeftOpen`. `PaysOutHolds` maps every step:
a fill to `Trade`, the first claim to `Fix`, a closing fill to `Pay`, `SetSettled`
to `Settle`, the first movement of a user's reversal (the wallet's, or the first
execution of a user owed nothing) to `Refund`, `SetVoid` to `Void`, the rest to stutters.
`PaidWhole` is the arithmetic: `BooksBalance`, no closing of an unclaimed market and
`RefundHeld` leave exactly the deposit. That a user without fills is owed nothing is
a sum of zeros (`TotalNothing`).

Both conditions are needed by the code, not by the proof: TLC finds either property
violated when either is dropped. With two mishaps under `Stalls` a late claim meets a void
(`SettlementStall`); under `Fickle` an abandoned match reported completed after all turns a void
that has refunded somebody into a settlement, and the other way round (section 4).

### Deliveries, Realtime, Replay

Each is proved in `Broadcast`, where a step of one leaves the others alone.

`Announced` and `Converges` (any overs, window and upsets). An event names its
ball and the polls sort them, so `InOrder` needs that an order of them exists:
there is one event for each ball (`OnePerBall`). `Tells` says that the revisions
of a ball rise along the outbox, none is ahead of the store, and the last is
the ball as stored; each kind of poll appends at most one event for a ball, of
the revision it stores. For `Converges`, `Settled` says that what is stored
agrees with the document applied last, and `Catching` counts: of the polls of an
unchanged document either one applied it or every one is counted in `polls`,
which stays below `MaxReconcilingPolls`. The poll at that limit is never refused,
because it marks what it counts (`AllMarked`).

`NoHiddenGap` (any buffer, breaks and batches). `Following`: a viewer that
has loaded is connected and every event up to the stream's position is one it
knows, one in its queue or one a break of the stream skipped (`UpTo`). A full
queue disconnects the viewer, who loads again.

`ReplaysOnce` (any instances, rows, crashes and failures). `ReplayInv` says
what the match and its history are while only the holder of the lock has
written: `Recorded` (each ball once and in order) and `InStep`, the three
writes of a ball that may be half done, by the step of the holder. A write
by anybody else or a write that fails half way clears `clean`, and the holder's
wipe of the history sets it again.

### RequestQuota, Accounts

`QuotaReconciles` counts the requests that hold a slot of the hour and have none
of the day yet. They are a finite set since workers and tasks are; each write
of a bucket adds or takes one of them, a stop counts its own as lost, and the end
of an hour leaves none.

`LedgerInv`: the balance is the sum of the ledger, plus what calls between
their two writes have moved, plus what died there (`orphaned`). Sums run over
finite sets: of entries, each written by one call (`Authored`), and of calls
under way. A step moves one call, so one summand passes from one sum to another.
`PaidInv`: an entry with a key is the only one with it, and a reward of a day
has its claimed row, whose closes reached the target. Calls and fills are
finite in number and `NoKey` is no number; nothing else is assumed.

### CricketLine

`OversFiled` is proved for overs and innings of any length and a strip of two overs
or more. `LineInv`: the strip is overs of the first innings followed by overs
of the second, and numbers rise by one but where the second begins (`CutAt`); the
scoreboard's legal balls are full overs and those of the newest
(`BoardAgrees`); what may be shown is at most one event behind (`Near`). So a fall
of the numbers in the strip is the change of innings; without one, the read
goes by the scoreboard: in the break the last over's number is the overs begun
in the first innings (`InningsEnds`, from `Quotient`). That last step needs
`LegalWickets`, and the code needs it too (section 4); the instance of
the run meets it.

### Cadence

`WaitsFit` is the arithmetic of `FreshBetweenReads`: a validity of four waits and 25
seconds, and at least 60, outlasts the next wait with its jitter, tick and
slow response. It holds for any wait, hence for any number of matches, any
spending and either format. For a standing score the next wait is not the one
the validity was computed from: that is 20 s at most (`PlayingWait`), while
`quietFeedInterval` makes the next one a minute. So the read comes, at the latest,
22 seconds after the feed went stale (`QuietIsStaleBriefly`).
`StartsNoticed` rests on `ScansFollow`: after the
first step, `active` is what `setDiscoveryActive` says of the matches as they
stand. What the day and the hour cost (`WithinBudget`) depends on the programme and stays
with TLC.

## 6. What is only model-checked, and what is not modelled

Out of the provers' reach: liveness (`RequestsReturn`, `DueOrdersFinish`,
`ClaimSettles`, `VoidFinishes`, `FollowedToTheEnd`), and the induction over data
behind `ReadingIsOfTheMatch`, `StrikeTracked`, `TotalsAreMoney` and `ViewsAgree`,
which say what folds over balls and fills compute. `TotalsAreMoney` is moreover a
statement about short histories: each partial cover of a short rounds the
collateral it releases, and nothing in the code bounds the sum of those
roundings by the tolerance. `WithinBudget`, the fourth part of `CadenceHolds`, is
true of the programmes checked and false of others (section 4).

Not modelled: HTTP handlers, transport of the provider clients and listings are
input and output. Pricing (`modules/markets/pricing.go`) is Black-Scholes in
floating point, a function of the match: `Trading` takes any quote of a set. Legacy matches of the
simulator are not fenced by a gate. The demo fallback hides and completes matches; that it does so
without squaring them off is noted here only. Chat, watchlist, health, tokens and profile
edits keep state trading never reads. Percentages, risk figures and names of the
portfolio are display. Maintenance commands are run by hand.

## 7. Plan

Every safety property of `Trading`, `GateJobs`, `Settlement`, `Polling` and
`Broadcast` is a theorem. What is left, in order:

1. The rounding of `TotalsAreMoney`: a tolerance that counts the covers of a
   short, with the sums over documents as recursive functions, and a proof.
2. The quotes of `ViewsAgree`: the signed sum of a contract's fills is the
   lots of its open document, as an inductive invariant.
3. The hazards of `PROJECT.json` that no property covers yet.
