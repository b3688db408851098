------------------------------ MODULE GateJobs ------------------------------
(***************************************************************************)
(* The trading gate of one provider match and the job that cancels what    *)
(* rested when it closed: the feed's polls, the watchdog, the kill switch, *)
(* the manual gate and the repair at process start all write the gate; the *)
(* writers that close it enqueue one durable job per match, and the job    *)
(* processors of the API replicas claim it under a lease, cancel the       *)
(* orders older than the closure and reopen the match.                     *)
(*                                                                         *)
(* One action is one MongoDB transaction or one write outside a            *)
(* transaction.  Blocker lists are sets: their order matters only to       *)
(* sameStrings, see Same.                                                  *)
(***************************************************************************)
EXTENDS Integers, FiniteSets

CONSTANTS
  Orders,        \* resting orders users may place
  Workers,       \* job processors, one per API replica
  MaxClosures,   \* bound: gate jobs enqueued
  MaxHeals,      \* bound: replicas that start and repair the match
  MaxMishaps,    \* bound: stops, stalls and failed cancellations of workers
  NoOwner        \* no lease

ASSUME GateJobsAssumption ==
  /\ MaxClosures \in Nat /\ MaxHeals \in Nat /\ MaxMishaps \in Nat
  /\ NoOwner \notin Workers

VARIABLES
  match,         \* the gate fields of the match document
  market,        \* hard blockers of the innings market
  job,           \* trading_gate_jobs: the document of this match
  worker,        \* what each processor is doing
  order,         \* resting orders: stage and the trading version they carry
  control,       \* the admin's last word: kill switch and manual gate
  heal,          \* the starting replica inside HealFalselyStaleLiveMatches
  spent,         \* counts towards the bounds
  due,           \* history: version of the closure an order rested at, or 0
  fresh,         \* history: no closure since the order's handler read the match
  drained        \* history: newest version a completed job had claimed

orderVars == <<order, due, fresh>>
gateVars  == <<match, market, job>>
vars == <<match, market, job, worker, order, control, heal, spent, due, fresh,
          drained>>

-----------------------------------------------------------------------------
(* The gate.                                                               *)

Soft     == {"reconciling", "warming"}
Admin    == {"manual", "global_kill", "cancellation_pending"}
Automated == Soft \cup {"not_live", "feed_stale", "innings_break", "reduced_overs"}
Blockers == Admin \cup Automated

Statuses == {"live", "innings_break", "upcoming"}
\* "stale" stands for every feed state that forbids trading.
Feeds    == {"healthy", "reconciling", "warming", "stale"}
\* What a poll reports; "reduced" is a live match shortened by rain.
Kinds    == {"live", "reduced", "innings_break", "upcoming"}

Pending == {"cancellation_pending"}
Hard(blockers) == blockers \ Soft
FeedAllowsTrading(feed) == feed \in {"healthy", "reconciling", "warming"}

\* providerBlockers: automated blockers are recomputed, the others stay.
Kept(blockers) == blockers \ Automated

IsTradable(m) ==
  /\ m.status = "live" /\ FeedAllowsTrading(m.feed)
  /\ m.open /\ Hard(m.blockers) = {}

\* An order also needs an active market.
Tradable == IsTradable(match) /\ market = {}

\* Mutant: the market's own manual block is not kept.
UnmarkedSuspending(m) ==
  IF m.status = "upcoming" THEN market ELSE Hard(m.blockers)

\* The blockers projectMarkets leaves on the market for a match document: a
\* manual block of the market survives, an upcoming match has no market yet.
Suspending(m) ==
  IF m.status = "upcoming" THEN market
  ELSE Hard(m.blockers) \cup (market \cap {"manual"})

\* sameStrings compares lists, so two equal sets may still count as different.
Same(a, b) == IF a # b THEN {FALSE}
              ELSE IF Cardinality(a) < 2 THEN {TRUE} ELSE BOOLEAN

Larger(a, b) == IF a > b THEN a ELSE b

Block(m, blockers) == [m EXCEPT !.open = FALSE, !.blockers = blockers]
Bump(m) == [m EXCEPT !.version = @ + 1]

-----------------------------------------------------------------------------
(* Enqueueing the job.                                                     *)

\* Mutant: a job that is processing is set back to pending.
ResetEnqueued(j, v) ==
  [j EXCEPT
    !.version = IF j.status \in {"absent", "complete"} THEN v ELSE Larger(@, v),
    !.status  = "pending"]

\* Mutant: only the version of a complete job is raised.
RaisedEnqueued(j, v) ==
  [j EXCEPT !.version = Larger(@, v),
            !.status  = IF @ \in {"absent", "failed"} THEN "pending" ELSE @]

Enqueued(j, v) ==
  [j EXCEPT
    !.version = IF j.status \in {"absent", "complete"} THEN v ELSE Larger(@, v),
    !.status  = IF @ = "processing" THEN @ ELSE "pending",
    !.owner   = IF j.status = "processing" THEN @ ELSE NoOwner]

Working(o) == order[o].stage = "working"

\* A closure: the job is enqueued, and every resting order is due.
Enqueue(v) ==
  /\ spent.closures < MaxClosures
  /\ spent' = [spent EXCEPT !.closures = @ + 1]
  /\ job' = Enqueued(job, v)
  /\ due' = [o \in Orders |-> IF Working(o) /\ due[o] = 0 THEN v ELSE due[o]]
  /\ fresh' = [o \in Orders |-> FALSE]

NoClosure == UNCHANGED <<job, spent, due, fresh>>

\* A replica that read the match for repair no longer finds its stateVersion.
Outdate == heal' = [heal EXCEPT !.current = FALSE]

-----------------------------------------------------------------------------
Init ==
  /\ match = [status |-> "live", feed |-> "healthy", open |-> TRUE,
              blockers |-> {}, version |-> 1, reduced |-> FALSE,
              last |-> "live"]
  /\ market = {}
  /\ job = [status |-> "absent", version |-> 0, owner |-> NoOwner,
            expired |-> FALSE]
  /\ worker = [w \in Workers |-> [stage |-> "idle", version |-> 0,
                                  todo |-> {}, failed |-> FALSE]]
  /\ order = [o \in Orders |-> [stage |-> "idle", version |-> 0]]
  /\ control = [killed |-> FALSE, manual |-> FALSE]
  /\ heal = [stage |-> "idle", current |-> FALSE, doc |-> match]
  /\ spent = [closures |-> 0, heals |-> 0, mishaps |-> 0]
  /\ due = [o \in Orders |-> 0]
  /\ fresh = [o \in Orders |-> FALSE]
  /\ drained = 0

-----------------------------------------------------------------------------
(* The feed.                                                               *)

\* projectMatch, with the trading version left to the caller.
Projected(m, kind) ==
  CASE kind = "live" ->
         LET kept == Kept(m.blockers) \ Pending
         IN  [m EXCEPT !.status = "live", !.feed = "healthy",
                       !.open = (kept = {}), !.blockers = kept,
                       !.reduced = FALSE, !.last = kind]
    [] kind = "reduced" ->
         [m EXCEPT !.status = "live", !.feed = "healthy", !.open = FALSE,
                   !.blockers = Kept(@) \cup {"reduced_overs"},
                   !.reduced = TRUE, !.last = kind]
    [] kind = "innings_break" ->
         [m EXCEPT !.status = "innings_break", !.feed = "healthy", !.open = FALSE,
                   !.blockers = Kept(@) \cup {"innings_break"}, !.last = kind]
    [] kind = "upcoming" ->
         [m EXCEPT !.status = "upcoming", !.feed = "warming", !.open = FALSE,
                   !.blockers = Kept(@) \cup {"not_live"}, !.last = kind]

\* The kill switch is laid over the projection.
Overlaid(m) == IF control.killed THEN Block(m, m.blockers \cup {"global_kill"}) ELSE m

\* A poll whose snapshot is new, or that must refresh the gate.
Project(kind) ==
  \E same \in Same(Projected(match, kind).blockers, match.blockers) :
    LET projected == Projected(match, kind)
        next      == Overlaid(projected)
        moved     == \/ projected.open # match.open
                     \/ ~same
                     \/ control.killed /\ "global_kill" \notin match.blockers
        closes    == moved /\ ~next.open
        bumped    == IF moved THEN Bump(next) ELSE next
    IN  /\ match' = IF closes THEN [bumped EXCEPT !.blockers = @ \cup Pending]
                              ELSE bumped
        /\ market' = Suspending(match')
        /\ IF closes THEN Enqueue(match'.version) ELSE NoClosure
        /\ Outdate
        /\ UNCHANGED <<worker, order, control, drained>>

\* applyFeedHealth: a snapshot already applied refreshes the feed state and
\* drops automated blockers, with no version, market or job.  (The counter of
\* healthy snapshots only chooses between Project and Refresh; a snapshot with
\* an older provider stamp comes here in any state, so it is left out.)
Refreshed(m, kind) ==
  IF kind = "innings_break"
  THEN [m EXCEPT !.feed = "healthy", !.open = FALSE,
                 !.blockers = Kept(@) \cup {"innings_break"}]
  ELSE [m EXCEPT !.feed = "healthy", !.open = (Kept(m.blockers) = {}),
                 !.blockers = Kept(@)]

Refresh(kind) ==
  /\ kind = match.last
  /\ match' = Refreshed(match, kind)
  /\ UNCHANGED <<market, job, worker, order, control, heal, spent, due, fresh,
                 drained>>

\* decideReconcilingTradingGate: a poll that contradicts stored deliveries.
\* Polls of a break skip reconciling.
Reconciled(m, kind) ==
  LET kept == Kept(m.blockers) \ Pending
  IN  IF kind \in {"live", "reduced"}
      THEN [m EXCEPT !.feed = "healthy", !.blockers = kept, !.open = (kept = {})]
      ELSE IF m.status = "live" \/ m.open
      THEN [m EXCEPT !.status = "live", !.feed = "reconciling",
                     !.blockers = kept, !.open = (kept = {})]
      ELSE [m EXCEPT !.feed = "reconciling", !.open = FALSE,
                     !.blockers = Kept(@) \cup {"reconciling"}]

ReconcilingPoll(kind) ==
  LET next   == Reconciled(match, kind)
      before == match.open /\ Hard(match.blockers) = {}
      after  == next.open /\ Hard(next.blockers) = {}
      moved  == next.open # match.open \/ Kept(next.blockers) # Kept(match.blockers)
      closes == before /\ ~after
      bumped == IF ~after /\ moved THEN Bump(next) ELSE next
  IN  /\ kind # "innings_break"
      /\ match' = IF closes THEN [bumped EXCEPT !.blockers = @ \cup Pending]
                            ELSE bumped
      /\ market' = Suspending(match')
      /\ IF closes THEN Enqueue(match'.version) ELSE NoClosure
      /\ Outdate
      /\ UNCHANGED <<worker, order, control, drained>>

\* markFeedConditionally, called by the watchdog and by failed polls.
MarkFeed(feed, blocker) ==
  LET blockers == Kept(match.blockers) \cup {blocker}
  IN  /\ \/ match.feed # feed
         \/ match.open
         \/ FALSE \in Same(match.blockers, blockers)
      /\ match' = [Bump(Block(match, blockers \cup Pending)) EXCEPT !.feed = feed]
      /\ market' = Suspending(match')
      /\ Enqueue(match'.version)
      /\ Outdate
      /\ UNCHANGED <<worker, order, control, drained>>

-----------------------------------------------------------------------------
(* The administrators.                                                     *)

Lifted(blockers) == IF blockers = {} THEN {"warming"} ELSE blockers

\* SetGlobalTradingKill.
SetKill(killed) ==
  /\ control' = [control EXCEPT !.killed = killed]
  /\ IF ("global_kill" \in match.blockers) = killed
     THEN UNCHANGED <<match, market, heal>> /\ NoClosure
     ELSE /\ match' = Bump(Block(match,
               IF killed THEN match.blockers \cup {"global_kill"} \cup Pending
               ELSE Lifted(match.blockers \ {"global_kill"})))
          /\ market' = Suspending(match')
          /\ IF killed THEN Enqueue(match'.version) ELSE NoClosure
          /\ Outdate
  /\ UNCHANGED <<worker, order, drained>>

\* SetProviderManualGate writes the market's own blocker, then the match,
\* without a new stateVersion.
Marked(manual) == IF manual THEN market \cup {"manual"} ELSE market \ {"manual"}
SetManual(manual) ==
  LET marked == Marked(manual)
  IN  /\ control' = [control EXCEPT !.manual = manual]
      /\ IF /\ ("manual" \in match.blockers) = manual
            /\ ("manual" \in market) = manual
         THEN UNCHANGED <<match, market>> /\ NoClosure
         ELSE /\ match' = Bump(Block(match,
                   IF manual THEN match.blockers \cup {"manual"} \cup Pending
                   ELSE Lifted(match.blockers \ {"manual"})))
              /\ market' = IF match.status = "upcoming" THEN marked
                           ELSE Hard(match'.blockers) \cup (marked \cap {"manual"})
              /\ IF manual THEN Enqueue(match'.version) ELSE NoClosure
      /\ UNCHANGED <<worker, order, heal, drained>>

-----------------------------------------------------------------------------
(* HealFalselyStaleLiveMatches, at the start of a replica: a read, a write  *)
(* fenced by stateVersion alone, and the market, with no transaction.       *)

HealRead ==
  /\ heal.stage = "idle"
  /\ spent.heals < MaxHeals
  /\ match.status = "live"
  /\ \/ match.feed # "healthy"
     \/ match.blockers \cap {"feed_stale", "warming", "reconciling"} # {}
  /\ heal' = [stage |-> "read", current |-> TRUE, doc |-> match]
  /\ spent' = [spent EXCEPT !.heals = @ + 1]
  /\ UNCHANGED <<gateVars, worker, order, control, due, fresh, drained>>

Healed(m) ==
  Bump([m EXCEPT !.feed = "healthy", !.open = TRUE,
                 !.blockers = Kept(@) \ Pending])

HealWrite ==
  /\ heal.stage = "read"
  /\ IF heal.current
     THEN /\ match' = Healed(heal.doc)
          /\ heal' = [stage |-> "written", current |-> FALSE, doc |-> match']
     ELSE /\ heal' = [heal EXCEPT !.stage = "idle"]
          /\ UNCHANGED match
  /\ UNCHANGED <<market, job, worker, order, control, spent, due, fresh, drained>>

HealProject ==
  /\ heal.stage = "written"
  /\ market' = Suspending(heal.doc)
  /\ heal' = [heal EXCEPT !.stage = "idle"]
  /\ UNCHANGED <<match, job, worker, order, control, spent, due, fresh, drained>>

-----------------------------------------------------------------------------
(* Resting orders.                                                         *)

\* CreateOrder reads the match; the order will carry its trading version.
ReadMatch(o) ==
  /\ order[o].stage \in {"idle", "read"}
  /\ Tradable
  /\ order' = [order EXCEPT ![o] = [stage |-> "read", version |-> match.version]]
  /\ fresh' = [fresh EXCEPT ![o] = TRUE]
  /\ UNCHANGED <<gateVars, worker, control, heal, spent, due, drained>>

\* The create transaction verifies the gate, not its version.
Rest(o) ==
  /\ order[o].stage = "read"
  /\ Tradable
  /\ order' = [order EXCEPT ![o].stage = "working"]
  /\ UNCHANGED <<gateVars, worker, control, heal, spent, due, fresh, drained>>

\* Cancelled by its user.
Withdraw(o) ==
  /\ Working(o)
  /\ order' = [order EXCEPT ![o].stage = "withdrawn"]
  /\ UNCHANGED <<gateVars, worker, control, heal, spent, due, fresh, drained>>

-----------------------------------------------------------------------------
(* The job processors.                                                     *)

Busy(w)  == worker[w].stage # "idle"
Holds(w) == job.status = "processing" /\ job.owner = w

Idle(w) == worker' = [worker EXCEPT ![w] = [stage |-> "idle", version |-> 0,
                                            todo |-> {}, failed |-> FALSE]]

workerRest == <<control, heal, due, fresh>>

Mishap == /\ spent.mishaps < MaxMishaps
          /\ spent' = [spent EXCEPT !.mishaps = @ + 1]

Claimable == \/ job.status \in {"pending", "failed"}
             \/ job.status = "processing" /\ job.expired

Claim(w) ==
  /\ ~Busy(w)
  /\ Claimable
  /\ job' = [job EXCEPT !.status = "processing", !.owner = w, !.expired = FALSE]
  /\ worker' = [worker EXCEPT ![w].stage = "claimed", ![w].version = job.version]
  /\ UNCHANGED <<match, market, order, spent, drained, workerRest>>

\* Mutant: no version fence.
UnfencedOlder(o, version) == TRUE

\* Mutant: off by one.
MuchOlder(o, version) == order[o].version + 1 < version

\* cancelWorkingOrders keeps the orders older than the version it was given.
Older(o, version) == order[o].version < version

List(w) ==
  /\ worker[w].stage = "claimed"
  /\ worker' = [worker EXCEPT
       ![w].stage = "draining",
       ![w].todo = {o \in Orders : Working(o) /\ Older(o, worker[w].version)}]
  /\ UNCHANGED <<gateVars, order, spent, drained, workerRest>>

\* One transaction per order; an order that is no longer working is skipped.
CancelOrder(w, o) ==
  /\ o \in worker[w].todo
  /\ worker' = [worker EXCEPT ![w].todo = @ \ {o}]
  /\ order' = IF Working(o) THEN [order EXCEPT ![o].stage = "cancelled"] ELSE order
  /\ UNCHANGED <<gateVars, spent, drained, workerRest>>

\* A cancellation fails: counted, and the others are tried.
CancelFails(w, o) ==
  /\ o \in worker[w].todo
  /\ Mishap
  /\ worker' = [worker EXCEPT ![w].todo = @ \ {o}, ![w].failed = TRUE]
  /\ UNCHANGED <<gateVars, order, drained, workerRest>>

Drained(w) == worker[w].stage = "draining" /\ worker[w].todo = {}

\* What CompleteTradingGateJob does to the match.
Resumed(m) ==
  LET blockers == m.blockers \ Pending
  IN  Bump([m EXCEPT !.blockers = blockers,
                     !.open = /\ m.status = "live" /\ FeedAllowsTrading(m.feed)
                              /\ Hard(blockers) = {}])

Complete(w) ==
  /\ Drained(w) /\ ~worker[w].failed
  /\ Holds(w)
  /\ job' = [job EXCEPT !.status = "complete", !.owner = NoOwner, !.expired = FALSE]
  /\ match' = Resumed(match)
  /\ market' = Suspending(match')
  /\ drained' = Larger(drained, worker[w].version)
  /\ Idle(w)
  /\ UNCHANGED <<order, spent, workerRest>>

Fail(w) ==
  /\ Drained(w) /\ worker[w].failed
  /\ Holds(w)
  /\ job' = [job EXCEPT !.status = "failed", !.owner = NoOwner, !.expired = FALSE]
  /\ Idle(w)
  /\ UNCHANGED <<match, market, order, spent, drained, workerRest>>

\* The renewal or the final write finds the lease gone.
LeaseLost(w) ==
  /\ Busy(w) /\ ~Holds(w)
  /\ Idle(w)
  /\ UNCHANGED <<gateVars, order, spent, drained, workerRest>>

\* The process dies or its database call fails: the job keeps its lease.
Stop(w) ==
  /\ Busy(w)
  /\ Mishap
  /\ Idle(w)
  /\ UNCHANGED <<gateVars, order, drained, workerRest>>

Expired == job' = [job EXCEPT !.expired = TRUE]

\* The lease of a worker that is gone runs out.
Expire ==
  /\ job.status = "processing" /\ ~job.expired
  /\ ~Busy(job.owner)
  /\ Expired
  /\ UNCHANGED <<match, market, worker, order, spent, drained, workerRest>>

\* So does the lease of a worker too slow to renew it.
Stall ==
  /\ job.status = "processing" /\ ~job.expired
  /\ Busy(job.owner)
  /\ Mishap
  /\ Expired
  /\ UNCHANGED <<match, market, worker, order, drained, workerRest>>

Renew(w) ==
  /\ Busy(w) /\ Holds(w) /\ job.expired
  /\ job' = [job EXCEPT !.expired = FALSE]
  /\ UNCHANGED <<match, market, worker, order, spent, drained, workerRest>>

-----------------------------------------------------------------------------
Feed == \/ \E kind \in Kinds : Project(kind) \/ Refresh(kind) \/ ReconcilingPoll(kind)
        \/ MarkFeed("stale", "feed_stale")
        \/ MarkFeed("reconciling", "reconciling")

Administrator == \E b \in BOOLEAN : SetKill(b) \/ SetManual(b)

Heal == HealRead \/ HealWrite \/ HealProject

User == \E o \in Orders : ReadMatch(o) \/ Rest(o) \/ Withdraw(o)

Drain(w) == \/ List(w) \/ (\E o \in Orders : CancelOrder(w, o))
            \/ Complete(w) \/ Fail(w) \/ LeaseLost(w)

Next ==
  \/ Feed \/ Administrator \/ Heal \/ User
  \/ \E w \in Workers :
       \/ Claim(w) \/ Drain(w) \/ Stop(w) \/ Renew(w)
       \/ \E o \in Orders : CancelFails(w, o)
  \/ Expire \/ Stall

Spec == Init /\ [][Next]_vars

\* Processors poll every second and do not stop for good; clocks advance.
FairSpec ==
  /\ Spec
  /\ \A w \in Workers : WF_vars(Claim(w)) /\ WF_vars(Drain(w))
  /\ WF_vars(Expire)

-----------------------------------------------------------------------------
(* Properties.                                                             *)

MatchDoc ==
  [status : Statuses, feed : Feeds, open : BOOLEAN, blockers : SUBSET Blockers,
   version : Nat, reduced : BOOLEAN, last : Kinds]

\* Every document and every processor keeps its shape, and the job has an
\* owner exactly while it is processing.
TypeOK ==
  /\ match \in MatchDoc
  /\ market \in SUBSET Blockers
  /\ job \in [status : {"absent", "pending", "processing", "failed", "complete"},
              version : Nat, owner : Workers \cup {NoOwner}, expired : BOOLEAN]
  /\ worker \in [Workers -> [stage : {"idle", "claimed", "draining"},
                             version : Nat, todo : SUBSET Orders, failed : BOOLEAN]]
  /\ order \in [Orders -> [stage : {"idle", "read", "working", "cancelled", "withdrawn"},
                           version : Nat]]
  /\ control \in [killed : BOOLEAN, manual : BOOLEAN]
  /\ heal \in [stage : {"idle", "read", "written"}, current : BOOLEAN, doc : MatchDoc]
  /\ spent \in [closures : Nat, heals : Nat, mishaps : Nat]
  /\ due \in [Orders -> Nat] /\ fresh \in [Orders -> BOOLEAN]
  /\ drained \in Nat
  /\ (job.owner # NoOwner) = (job.status = "processing")

\* While the kill switch or the manual gate is on, nothing trades, whatever
\* the feed, a finished gate job or a starting replica does to the match.
AdminGateHolds == control.killed \/ control.manual => ~Tradable

\* A completed job has cancelled every order that rested at a closure up to
\* the version it had claimed, across failures, retries and changes of owner.
DrainCovers == \A o \in Orders : Working(o) /\ due[o] > 0 => due[o] > drained

\* A processor never cancels an order whose handler read the match after the
\* last closure (squareoff.go: an order placed after the match resumes must
\* survive a gate job that is still draining).
SparesResumedOrders ==
  [][\A o \in Orders :
       Working(o) /\ order'[o].stage = "cancelled" => ~fresh[o]]_vars

\* No writer moves a trading match to a version that does not trade without
\* leaving a job that knows that version.
ClosuresQueued ==
  [][IsTradable(match) /\ ~IsTradable(match)' /\ match'.version # match.version =>
       /\ job'.status \in {"pending", "processing"}
       /\ job'.version >= match'.version]_vars

\* An order that rested at a closure is eventually cancelled, provided its job
\* was then waiting for a processor.  (If one was at work it may not be: apply.go
\* says of dropping cancellation_pending that the job is "version-fenced, so
\* dropping the marker here cannot lose or misapply it", but an enqueue only
\* raises the version of a job at work, which completes with the one it claimed.)
DueOrdersFinish ==
  \A o \in Orders :
    (Working(o) /\ due[o] > 0 /\ job.status = "pending") ~> ~Working(o)
=============================================================================
