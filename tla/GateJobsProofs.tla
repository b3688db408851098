--------------------------- MODULE GateJobsProofs ---------------------------
(***************************************************************************)
(* Proofs about GateJobs: its typing invariant, the administrators' gate,  *)
(* and, for a match no starting replica repairs, that closures are queued, *)
(* that a completed job is complete and that it spares newer orders.       *)
(***************************************************************************)
EXTENDS GateJobs, TLAPS

\* Every writer of the gate fields turns a match document into another one.
LEMMA DocType ==
  ASSUME NEW m \in MatchDoc
  PROVE  /\ Bump(m) \in MatchDoc
         /\ Healed(m) \in MatchDoc
         /\ Resumed(m) \in MatchDoc
         /\ \A kind \in Kinds :
              /\ Projected(m, kind) \in MatchDoc
              /\ Reconciled(m, kind) \in MatchDoc
              /\ Refreshed(m, kind) \in MatchDoc
         /\ \A b \in SUBSET Blockers : Block(m, b) \in MatchDoc
         /\ \A b \in SUBSET Blockers : [m EXCEPT !.blockers = @ \cup b] \in MatchDoc
         /\ \A f \in Feeds : [m EXCEPT !.feed = f] \in MatchDoc
<1>1. Kept(m.blockers) \in SUBSET Blockers
  BY DEF Kept, MatchDoc
<1>2. Pending \in SUBSET Blockers
  BY DEF Pending, Blockers, Admin
<1>3. {"reduced_overs", "innings_break", "not_live", "reconciling"} \in SUBSET Blockers
  BY DEF Blockers, Automated, Soft
<1>4. Bump(m) \in MatchDoc
  BY DEF Bump, MatchDoc
<1>5. Healed(m) \in MatchDoc
  <2> DEFINE healthy == [m EXCEPT !.feed = "healthy", !.open = TRUE,
                                  !.blockers = Kept(@) \ Pending]
  <2>1. healthy \in MatchDoc
    BY <1>1 DEF MatchDoc, Feeds
  <2> HIDE DEF healthy
  <2>2. Bump(healthy) \in MatchDoc
    BY <2>1 DEF Bump, MatchDoc
  <2>3. QED
    BY <2>2 DEF Healed, healthy
<1>6. Resumed(m) \in MatchDoc
  <2> DEFINE left == m.blockers \ Pending
             open == m.status = "live" /\ FeedAllowsTrading(m.feed) /\ Hard(left) = {}
             resumed == [m EXCEPT !.blockers = left, !.open = open]
  <2>1. left \in SUBSET Blockers
    BY DEF MatchDoc
  <2>2. open \in BOOLEAN
    OBVIOUS
  <2> HIDE DEF left, open
  <2>3. resumed \in MatchDoc
    BY <2>1, <2>2 DEF MatchDoc
  <2> HIDE DEF resumed
  <2>4. Bump(resumed) \in MatchDoc
    BY <2>3 DEF Bump, MatchDoc
  <2>5. QED
    BY <2>4 DEF Resumed, resumed, left, open
<1>7. ASSUME NEW kind \in Kinds
      PROVE  /\ Projected(m, kind) \in MatchDoc
             /\ Reconciled(m, kind) \in MatchDoc
             /\ Refreshed(m, kind) \in MatchDoc
  <2>1. Projected(m, kind) \in MatchDoc
    <3>1. CASE kind = "live"
      BY <1>1, <3>1 DEF Projected, MatchDoc, Feeds, Statuses, Kinds
    <3>2. CASE kind = "reduced"
      BY <1>1, <1>3, <3>2 DEF Projected, MatchDoc, Feeds, Statuses, Kinds
    <3>3. CASE kind = "innings_break"
      BY <1>1, <1>3, <3>3 DEF Projected, MatchDoc, Feeds, Statuses, Kinds
    <3>4. CASE kind = "upcoming"
      BY <1>1, <1>3, <3>4 DEF Projected, MatchDoc, Feeds, Statuses, Kinds
    <3>5. QED
      BY <3>1, <3>2, <3>3, <3>4 DEF Kinds
  <2>2. Reconciled(m, kind) \in MatchDoc
    BY <1>1, <1>3 DEF Reconciled, MatchDoc, Feeds, Statuses
  <2>3. Refreshed(m, kind) \in MatchDoc
    BY <1>1, <1>3 DEF Refreshed, MatchDoc, Feeds
  <2>4. QED
    BY <2>1, <2>2, <2>3
<1>8. QED
  BY <1>4, <1>5, <1>6, <1>7 DEF Block, MatchDoc

\* What projectMarkets leaves on a market are blockers.
LEMMA SuspendingType ==
  ASSUME market \in SUBSET Blockers, NEW m \in MatchDoc
  PROVE  Suspending(m) \in SUBSET Blockers
BY DEF Suspending, MatchDoc, Hard

\* Enqueueing keeps the job's shape, and its version covers the closure.
LEMMA EnqueuedType ==
  ASSUME TypeOK, NEW v \in Nat
  PROVE  /\ Enqueued(job, v) \in
              [status : {"absent", "pending", "processing", "failed", "complete"},
               version : Nat, owner : Workers \cup {NoOwner}, expired : BOOLEAN]
         /\ (Enqueued(job, v).owner # NoOwner)
              = (Enqueued(job, v).status = "processing")
         /\ Enqueued(job, v).status \in {"pending", "processing"}
         /\ Enqueued(job, v).version >= v
         /\ Enqueued(job, v).version >= job.version \/ job.status \in {"absent", "complete"}
<1> DEFINE version == IF job.status \in {"absent", "complete"} THEN v
                      ELSE Larger(job.version, v)
           status  == IF job.status = "processing" THEN job.status ELSE "pending"
           owner   == IF job.status = "processing" THEN job.owner ELSE NoOwner
<1>1. Enqueued(job, v) = [job EXCEPT !.version = version, !.status = status,
                                     !.owner = owner]
  BY DEF Enqueued, TypeOK
<1>2. version \in Nat /\ version >= v
      /\ (version >= job.version \/ job.status \in {"absent", "complete"})
  BY DEF TypeOK, Larger
<1>3. status \in {"pending", "processing"} /\ owner \in Workers \cup {NoOwner}
  BY DEF TypeOK
<1>4. (owner # NoOwner) = (status = "processing")
  BY DEF TypeOK
<1> HIDE DEF version, status, owner
<1>5. QED
  BY <1>1, <1>2, <1>3, <1>4 DEF TypeOK

LEMMA EnqueueType ==
  ASSUME TypeOK, NEW v \in Nat, Enqueue(v)
  PROVE  /\ job' \in [status : {"absent", "pending", "processing", "failed", "complete"},
                      version : Nat, owner : Workers \cup {NoOwner}, expired : BOOLEAN]
         /\ (job'.owner # NoOwner) = (job'.status = "processing")
         /\ spent' \in [closures : Nat, heals : Nat, mishaps : Nat]
         /\ due' \in [Orders -> Nat]
         /\ fresh' \in [Orders -> BOOLEAN]
<1>1. job' = Enqueued(job, v)
  BY DEF Enqueue
<1>2. spent' \in [closures : Nat, heals : Nat, mishaps : Nat]
  BY DEF Enqueue, TypeOK
<1>3. due' \in [Orders -> Nat]
  BY DEF Enqueue, TypeOK
<1>4. fresh' \in [Orders -> BOOLEAN]
  BY DEF Enqueue
<1>5. QED
  BY <1>1, <1>2, <1>3, <1>4, EnqueuedType

-----------------------------------------------------------------------------
\* The part of the typing invariant a closure may touch.
GateTyped ==
  /\ match \in MatchDoc
  /\ market \in SUBSET Blockers
  /\ job \in [status : {"absent", "pending", "processing", "failed", "complete"},
              version : Nat, owner : Workers \cup {NoOwner}, expired : BOOLEAN]
  /\ (job.owner # NoOwner) = (job.status = "processing")
  /\ spent \in [closures : Nat, heals : Nat, mishaps : Nat]
  /\ due \in [Orders -> Nat] /\ fresh \in [Orders -> BOOLEAN]

\* A writer that puts a document in place, projects it on the market, and
\* enqueues its version or leaves the job alone.
LEMMA WriterType ==
  ASSUME TypeOK, match' \in MatchDoc,
         market' \in SUBSET Blockers,
         Enqueue(match'.version) \/ NoClosure
  PROVE  GateTyped'
<1>1. match'.version \in Nat
  BY DEF MatchDoc
<1>2. CASE Enqueue(match'.version)
  BY <1>1, <1>2, EnqueueType DEF GateTyped
<1>3. CASE NoClosure
  BY <1>3 DEF GateTyped, NoClosure, TypeOK
<1>4. QED
  BY <1>2, <1>3

\* Outdating a repair keeps its shape.
LEMMA OutdateType ==
  ASSUME TypeOK, Outdate
  PROVE  heal' \in [stage : {"idle", "read", "written"}, current : BOOLEAN,
                    doc : MatchDoc]
BY DEF TypeOK, Outdate

LEMMA ProjectType ==
  ASSUME TypeOK, NEW kind \in Kinds, Project(kind)
  PROVE  TypeOK'
<1> DEFINE projected == Projected(match, kind)
           next      == Overlaid(projected)
<1>1. PICK same \in Same(projected.blockers, match.blockers) :
        LET moved  == \/ projected.open # match.open
                      \/ ~same
                      \/ control.killed /\ "global_kill" \notin match.blockers
            closes == moved /\ ~next.open
            bumped == IF moved THEN Bump(next) ELSE next
        IN  /\ match' = IF closes THEN [bumped EXCEPT !.blockers = @ \cup Pending]
                                  ELSE bumped
            /\ market' = Suspending(match')
            /\ IF closes THEN Enqueue(match'.version) ELSE NoClosure
            /\ Outdate
            /\ UNCHANGED <<worker, order, control, drained>>
  BY DEF Project
<1>2. match \in MatchDoc /\ projected \in MatchDoc
  BY DocType DEF TypeOK
<1>3. projected.blockers \cup {"global_kill"} \in SUBSET Blockers
  BY <1>2 DEF MatchDoc, Blockers, Admin
<1>4. next \in MatchDoc
  BY <1>2, <1>3, DocType DEF Overlaid
<1>5. Bump(next) \in MatchDoc /\ Pending \in SUBSET Blockers
  BY <1>4, DocType DEF Pending, Blockers, Admin
<1> HIDE DEF projected, next
<1>6. match' \in MatchDoc
  BY <1>1, <1>4, <1>5, DocType
<1>7. market' \in SUBSET Blockers
  BY <1>1, <1>6, SuspendingType DEF TypeOK
<1>8. Enqueue(match'.version) \/ NoClosure
  BY <1>1
<1>9. GateTyped'
  BY <1>6, <1>7, <1>8, WriterType
<1>10. heal' \in [stage : {"idle", "read", "written"}, current : BOOLEAN,
                  doc : MatchDoc]
  BY <1>1, OutdateType
<1>11. QED
  BY <1>1, <1>9, <1>10 DEF TypeOK, GateTyped

LEMMA ReconcilingPollType ==
  ASSUME TypeOK, NEW kind \in Kinds, ReconcilingPoll(kind)
  PROVE  TypeOK'
<1> DEFINE next   == Reconciled(match, kind)
           before == match.open /\ Hard(match.blockers) = {}
           after  == next.open /\ Hard(next.blockers) = {}
           moved  == next.open # match.open
                     \/ Kept(next.blockers) # Kept(match.blockers)
           closes == before /\ ~after
           bumped == IF ~after /\ moved THEN Bump(next) ELSE next
<1>1. /\ match' = IF closes THEN [bumped EXCEPT !.blockers = @ \cup Pending]
                             ELSE bumped
      /\ market' = Suspending(match')
      /\ IF closes THEN Enqueue(match'.version) ELSE NoClosure
      /\ Outdate
      /\ UNCHANGED <<worker, order, control, drained>>
  BY DEF ReconcilingPoll
<1>2. next \in MatchDoc /\ Pending \in SUBSET Blockers
  BY DocType DEF TypeOK, Pending, Blockers, Admin
<1>3. Bump(next) \in MatchDoc
  BY <1>2, DocType
<1> HIDE DEF next, closes, moved, after
<1>4. match' \in MatchDoc
  BY <1>1, <1>2, <1>3, DocType
<1>5. market' \in SUBSET Blockers
  BY <1>1, <1>4, SuspendingType DEF TypeOK
<1>6. Enqueue(match'.version) \/ NoClosure
  BY <1>1
<1>7. GateTyped'
  BY <1>4, <1>5, <1>6, WriterType
<1>8. heal' \in [stage : {"idle", "read", "written"}, current : BOOLEAN,
                 doc : MatchDoc]
  BY <1>1, OutdateType
<1>9. QED
  BY <1>1, <1>7, <1>8 DEF TypeOK, GateTyped

LEMMA MarkFeedType ==
  ASSUME TypeOK, NEW feed \in Feeds, NEW blocker \in Blockers,
         MarkFeed(feed, blocker)
  PROVE  TypeOK'
<1> DEFINE blockers == Kept(match.blockers) \cup {blocker} \cup Pending
           blocked  == Bump(Block(match, blockers))
<1>1. blockers \in SUBSET Blockers
  BY DEF TypeOK, MatchDoc, Kept, Pending, Blockers, Admin
<1>2. /\ match' = [blocked EXCEPT !.feed = feed]
      /\ market' = Suspending(match')
      /\ Enqueue(match'.version)
      /\ Outdate
      /\ UNCHANGED <<worker, order, control, drained>>
  BY DEF MarkFeed
<1> HIDE DEF blockers
<1>3. blocked \in MatchDoc
  BY <1>1, DocType DEF TypeOK
<1> HIDE DEF blocked
<1>4. match' \in MatchDoc
  BY <1>2, <1>3, DocType
<1>5. market' \in SUBSET Blockers
  BY <1>2, <1>4, SuspendingType DEF TypeOK
<1>6. GateTyped'
  BY <1>2, <1>4, <1>5, WriterType
<1>7. heal' \in [stage : {"idle", "read", "written"}, current : BOOLEAN,
                 doc : MatchDoc]
  BY <1>2, OutdateType
<1>8. QED
  BY <1>2, <1>6, <1>7 DEF TypeOK, GateTyped

LEMMA LiftedType ==
  ASSUME NEW b \in SUBSET Blockers
  PROVE  Lifted(b) \in SUBSET Blockers
BY DEF Lifted, Blockers, Automated, Soft

LEMMA SetKillType ==
  ASSUME TypeOK, NEW killed \in BOOLEAN, SetKill(killed)
  PROVE  TypeOK'
<1>1. control' \in [killed : BOOLEAN, manual : BOOLEAN]
  BY DEF SetKill, TypeOK
<1>2. CASE ("global_kill" \in match.blockers) = killed
  <2>1. UNCHANGED <<match, market, heal, job, spent, due, fresh, worker, order, drained>>
    BY <1>2 DEF SetKill, NoClosure
  <2>2. QED
    BY <1>1, <2>1 DEF TypeOK
<1>3. CASE ("global_kill" \in match.blockers) # killed
  <2> DEFINE blockers == IF killed THEN match.blockers \cup {"global_kill"} \cup Pending
                         ELSE Lifted(match.blockers \ {"global_kill"})
  <2>1. /\ match' = Bump(Block(match, blockers))
        /\ market' = Suspending(match')
        /\ Enqueue(match'.version) \/ NoClosure
        /\ Outdate
        /\ UNCHANGED <<worker, order, drained>>
    BY <1>3 DEF SetKill
  <2>2. /\ match.blockers \cup {"global_kill"} \cup Pending \in SUBSET Blockers
        /\ match.blockers \ {"global_kill"} \in SUBSET Blockers
    BY DEF TypeOK, MatchDoc, Pending, Blockers, Admin
  <2>3. blockers \in SUBSET Blockers
    BY <2>2, LiftedType
  <2> HIDE DEF blockers
  <2>4. match' \in MatchDoc
    BY <2>1, <2>3, DocType DEF TypeOK
  <2>5. market' \in SUBSET Blockers
    BY <2>1, <2>4, SuspendingType DEF TypeOK
  <2>6. GateTyped'
    BY <2>1, <2>4, <2>5, WriterType
  <2>7. heal' \in [stage : {"idle", "read", "written"}, current : BOOLEAN,
                   doc : MatchDoc]
    BY <2>1, OutdateType
  <2>8. QED
    BY <1>1, <2>1, <2>6, <2>7 DEF TypeOK, GateTyped
<1>4. QED
  BY <1>2, <1>3

LEMMA SetManualType ==
  ASSUME TypeOK, NEW manual \in BOOLEAN, SetManual(manual)
  PROVE  TypeOK'
<1> DEFINE marked == IF manual THEN market \cup {"manual"} ELSE market \ {"manual"}
<1>1. /\ control' \in [killed : BOOLEAN, manual : BOOLEAN]
      /\ UNCHANGED <<worker, order, heal, drained>>
  BY DEF SetManual, Marked, TypeOK
<1>2. marked \in SUBSET Blockers
  BY DEF TypeOK, Blockers, Admin
<1>3. CASE ("manual" \in match.blockers) = manual /\ ("manual" \in market) = manual
  <2>1. UNCHANGED <<match, market, job, spent, due, fresh>>
    BY <1>3 DEF SetManual, Marked, NoClosure
  <2>2. QED
    BY <1>1, <2>1 DEF TypeOK
<1>4. CASE ~(("manual" \in match.blockers) = manual /\ ("manual" \in market) = manual)
  <2> DEFINE blockers == IF manual THEN match.blockers \cup {"manual"} \cup Pending
                         ELSE Lifted(match.blockers \ {"manual"})
  <2>1. /\ match' = Bump(Block(match, blockers))
        /\ market' = IF match.status = "upcoming" THEN marked
                     ELSE Hard(match'.blockers) \cup (marked \cap {"manual"})
        /\ Enqueue(match'.version) \/ NoClosure
    BY <1>4 DEF SetManual, Marked
  <2>2. /\ match.blockers \cup {"manual"} \cup Pending \in SUBSET Blockers
        /\ match.blockers \ {"manual"} \in SUBSET Blockers
    BY DEF TypeOK, MatchDoc, Pending, Blockers, Admin
  <2>3. blockers \in SUBSET Blockers
    BY <2>2, LiftedType
  <2> HIDE DEF blockers, marked
  <2>4. match' \in MatchDoc
    BY <2>1, <2>3, DocType DEF TypeOK
  <2>5. market' \in SUBSET Blockers
    BY <1>2, <2>1, <2>4 DEF MatchDoc, Hard
  <2>6. GateTyped'
    BY <2>1, <2>4, <2>5, WriterType
  <2>7. QED
    BY <1>1, <2>6 DEF TypeOK, GateTyped
<1>5. QED
  BY <1>3, <1>4

LEMMA HealType ==
  ASSUME TypeOK, Heal
  PROVE  TypeOK'
<1>1. CASE HealRead
  BY <1>1 DEF HealRead, TypeOK, gateVars
<1>2. CASE HealWrite
  <2>1. UNCHANGED <<market, job, worker, order, control, spent, due, fresh, drained>>
    BY <1>2 DEF HealWrite
  <2>2. match' \in MatchDoc
    BY <1>2, DocType DEF HealWrite, TypeOK
  <2>3. heal' \in [stage : {"idle", "read", "written"}, current : BOOLEAN,
                   doc : MatchDoc]
    <3>1. CASE heal.current
      <4>1. heal' = [stage |-> "written", current |-> FALSE, doc |-> match']
        BY <1>2, <3>1 DEF HealWrite
      <4> DEFINE doc == match'
      <4>2. doc \in MatchDoc /\ heal' = [stage |-> "written", current |-> FALSE, doc |-> doc]
        BY <2>2, <4>1
      <4> HIDE DEF doc
      <4>3. QED
        BY <4>2
    <3>2. CASE ~heal.current
      BY <1>2, <3>2 DEF HealWrite, TypeOK
    <3>3. QED
      BY <3>1, <3>2
  <2>4. QED
    BY <2>1, <2>2, <2>3 DEF TypeOK
<1>3. CASE HealProject
  <2>1. market' \in SUBSET Blockers
    BY <1>3, SuspendingType DEF HealProject, TypeOK
  <2>2. QED
    BY <1>3, <2>1 DEF HealProject, TypeOK
<1>4. QED
  BY <1>1, <1>2, <1>3 DEF Heal

LEMMA UserType ==
  ASSUME TypeOK, User
  PROVE  TypeOK'
<1>1. PICK o \in Orders : ReadMatch(o) \/ Rest(o) \/ Withdraw(o)
  BY DEF User
<1>2. order' \in [Orders -> [stage : {"idle", "read", "working", "cancelled", "withdrawn"},
                             version : Nat]]
  <2> DEFINE Docs == [stage : {"idle", "read", "working", "cancelled", "withdrawn"},
                      version : Nat]
  <2>1. order \in [Orders -> Docs] /\ match.version \in Nat
    BY DEF TypeOK, MatchDoc
  <2>2. CASE ReadMatch(o)
    BY <2>1, <2>2 DEF ReadMatch
  <2>3. CASE Rest(o) \/ Withdraw(o)
    BY <2>1, <2>3 DEF Rest, Withdraw
  <2> QED BY <1>1, <2>2, <2>3
<1>3. fresh' \in [Orders -> BOOLEAN]
  BY <1>1 DEF ReadMatch, Rest, Withdraw, TypeOK
<1>4. UNCHANGED <<gateVars, worker, control, heal, spent, due, drained>>
  BY <1>1 DEF ReadMatch, Rest, Withdraw
<1>5. QED
  BY <1>2, <1>3, <1>4 DEF TypeOK, gateVars

-----------------------------------------------------------------------------
(* The job processors.                                                     *)

WorkerDocs ==
  [stage : {"idle", "claimed", "draining"}, version : Nat, todo : SUBSET Orders,
   failed : BOOLEAN]

JobDocs ==
  [status : {"absent", "pending", "processing", "failed", "complete"},
   version : Nat, owner : Workers \cup {NoOwner}, expired : BOOLEAN]

LEMMA WorkersType ==
  ASSUME TypeOK, NEW w \in Workers,
         \/ Claim(w) \/ Drain(w) \/ Stop(w) \/ Renew(w)
         \/ \E o \in Orders : CancelFails(w, o)
  PROVE  worker' \in [Workers -> WorkerDocs]
<1>1. worker \in [Workers -> WorkerDocs] /\ job \in JobDocs
  BY DEF TypeOK, WorkerDocs, JobDocs
<1>2. CASE Idle(w)
  BY <1>1, <1>2 DEF Idle, WorkerDocs
<1>3. CASE UNCHANGED worker
  BY <1>1, <1>3
<1>4. CASE Claim(w)
  <2> DEFINE r == [worker[w] EXCEPT !.stage = "claimed", !.version = job.version]
  <2>1. r \in WorkerDocs
    BY <1>1 DEF WorkerDocs, JobDocs
  <2>2. worker' = [worker EXCEPT ![w] = r]
    BY <1>1, <1>4 DEF Claim
  <2> QED BY <1>1, <2>1, <2>2
<1>5. CASE List(w)
  <2> DEFINE todo == {o \in Orders : Working(o) /\ Older(o, worker[w].version)}
  <2>1. todo \in SUBSET Orders
    OBVIOUS
  <2>2. worker' = [worker EXCEPT ![w].stage = "draining", ![w].todo = todo]
    BY <1>5 DEF List
  <2> HIDE DEF todo
  <2>3. QED
    BY <1>1, <2>1, <2>2 DEF WorkerDocs
<1>6. ASSUME NEW o \in Orders, CancelOrder(w, o) \/ CancelFails(w, o)
      PROVE  worker' \in [Workers -> WorkerDocs]
  BY <1>1, <1>6 DEF CancelOrder, CancelFails, WorkerDocs
<1>7. QED
  BY <1>2, <1>3, <1>4, <1>5, <1>6 DEF Drain, Complete, Fail, LeaseLost, Stop, Renew

LEMMA WorkerType ==
  ASSUME TypeOK, NEW w \in Workers,
         \/ Claim(w) \/ Drain(w) \/ Stop(w) \/ Renew(w)
         \/ \E o \in Orders : CancelFails(w, o)
  PROVE  TypeOK'
<1>1. worker' \in [Workers -> WorkerDocs]
  BY WorkersType
<1>2. UNCHANGED workerRest
  BY DEF Claim, Drain, Stop, Renew, CancelFails, List, CancelOrder, Complete, Fail,
         LeaseLost
<1>3. job \in JobDocs /\ (job.owner # NoOwner) = (job.status = "processing")
  BY DEF TypeOK, JobDocs
<1>4. job' \in JobDocs /\ (job'.owner # NoOwner) = (job'.status = "processing")
  <2>1. CASE UNCHANGED job
    BY <1>3, <2>1
  <2>2. CASE Claim(w)
    BY <1>3, <2>2, GateJobsAssumption DEF Claim, JobDocs
  <2>3. CASE Complete(w)
    BY <1>3, <2>3 DEF Complete, JobDocs
  <2>4. CASE Fail(w)
    BY <1>3, <2>4 DEF Fail, JobDocs
  <2>5. CASE Renew(w)
    BY <1>3, <2>5 DEF Renew, JobDocs
  <2>6. QED
    BY <2>1, <2>2, <2>3, <2>4, <2>5
    DEF Drain, Stop, CancelFails, List, CancelOrder, LeaseLost, gateVars
<1>5. match' \in MatchDoc /\ market' \in SUBSET Blockers /\ drained' \in Nat
  <2>1. CASE UNCHANGED <<match, market, drained>>
    BY <2>1 DEF TypeOK
  <2>2. CASE Complete(w)
    <3>1. match' \in MatchDoc
      BY <2>2, DocType DEF Complete, TypeOK
    <3>2. market' \in SUBSET Blockers
      BY <2>2, <3>1, SuspendingType DEF Complete, TypeOK
    <3>3. drained' \in Nat
      BY <2>2 DEF Complete, TypeOK, Larger
    <3>4. QED
      BY <3>1, <3>2, <3>3
  <2>3. QED
    BY <2>1, <2>2
    DEF Claim, Drain, Stop, Renew, CancelFails, List, CancelOrder, Fail, LeaseLost,
        gateVars
<1>6. order' \in [Orders -> [stage : {"idle", "read", "working", "cancelled", "withdrawn"},
                             version : Nat]]
  <2>1. CASE UNCHANGED order
    BY <2>1 DEF TypeOK
  <2>2. ASSUME NEW o \in Orders, CancelOrder(w, o)
        PROVE  order' \in [Orders -> [stage : {"idle", "read", "working", "cancelled",
                                               "withdrawn"}, version : Nat]]
    BY <2>2 DEF CancelOrder, TypeOK
  <2>3. QED
    BY <2>1, <2>2
    DEF TypeOK, Claim, Drain, Stop, Renew, CancelFails, List, Complete, Fail, LeaseLost
<1>7. spent' \in [closures : Nat, heals : Nat, mishaps : Nat]
  <2>1. UNCHANGED spent \/ Mishap
    BY DEF Claim, Drain, Stop, Renew, CancelFails, List, CancelOrder, Complete, Fail,
           LeaseLost
  <2>2. CASE UNCHANGED spent
    BY <2>2 DEF TypeOK
  <2>3. CASE Mishap
    BY <2>3 DEF Mishap, TypeOK
  <2>4. QED
    BY <2>1, <2>2, <2>3
<1>8. QED
  BY <1>1, <1>2, <1>4, <1>5, <1>6, <1>7 DEF TypeOK, WorkerDocs, JobDocs, workerRest

LEMMA LeaseType ==
  ASSUME TypeOK, Expire \/ Stall
  PROVE  TypeOK'
<1>1. job' = [job EXCEPT !.expired = TRUE]
      /\ UNCHANGED <<match, market, worker, order, drained, workerRest>>
  BY DEF Expire, Stall, Expired
<1>2. spent' \in [closures : Nat, heals : Nat, mishaps : Nat]
  BY DEF Expire, Stall, Mishap, TypeOK
<1>3. QED
  BY <1>1, <1>2 DEF TypeOK, workerRest

\* Every step keeps the shapes.
LEMMA StepType ==
  ASSUME TypeOK, [Next]_vars
  PROVE  TypeOK'
<1>1. CASE Feed
  <2>1. ASSUME NEW kind \in Kinds, Refresh(kind)
        PROVE  TypeOK'
    <3>1. match' \in MatchDoc
      BY <2>1, DocType DEF Refresh, TypeOK
    <3>2. QED
      BY <2>1, <3>1 DEF Refresh, TypeOK
  <2>2. {"feed_stale", "reconciling"} \in SUBSET Blockers
        /\ {"stale", "reconciling"} \in SUBSET Feeds
    BY DEF Blockers, Automated, Soft, Feeds
  <2>3. QED
    BY <1>1, <2>1, <2>2, ProjectType, ReconcilingPollType, MarkFeedType DEF Feed
<1>2. CASE Administrator
  BY <1>2, SetKillType, SetManualType DEF Administrator
<1>3. CASE Heal
  BY <1>3, HealType
<1>4. CASE User
  BY <1>4, UserType
<1>5. ASSUME NEW w \in Workers,
             \/ Claim(w) \/ Drain(w) \/ Stop(w) \/ Renew(w)
             \/ \E o \in Orders : CancelFails(w, o)
      PROVE  TypeOK'
  BY <1>5, WorkerType
<1>6. CASE Expire \/ Stall
  BY <1>6, LeaseType
<1>7. CASE UNCHANGED vars
  BY <1>7 DEF vars, TypeOK
<1>8. QED
  BY <1>1, <1>2, <1>3, <1>4, <1>5, <1>6, <1>7 DEF Next

LEMMA InitType ==
  ASSUME Init
  PROVE  TypeOK
<1>1. match \in MatchDoc /\ heal.doc = match
  BY DEF Init, MatchDoc, Statuses, Feeds, Kinds
<1>2. QED
  BY <1>1 DEF Init, TypeOK

\* Gate, job, processors, orders and the starting replica keep their shape,
\* and the job has an owner exactly while processing, for any orders, workers
\* and bounds.
THEOREM TypeCorrect == Spec => []TypeOK
<1>1. Init => TypeOK
  BY InitType
<1>2. TypeOK /\ [Next]_vars => TypeOK'
  BY StepType
<1>3. QED
  BY <1>1, <1>2, PTL DEF Spec

-----------------------------------------------------------------------------
(* The administrators' gate.                                               *)

Marks == {"global_kill", "manual"}

\* No automated writer adds or drops an administrator's mark, and only the end
\* of a job moves the version by itself.
LEMMA MarksKept ==
  ASSUME NEW m \in MatchDoc, NEW mark \in Marks
  PROVE  /\ \A kind \in Kinds :
              /\ mark \in Projected(m, kind).blockers <=> mark \in m.blockers
              /\ mark \in Reconciled(m, kind).blockers <=> mark \in m.blockers
              /\ mark \in Refreshed(m, kind).blockers <=> mark \in m.blockers
              /\ Projected(m, kind).version = m.version
              /\ Reconciled(m, kind).version = m.version
              /\ Refreshed(m, kind).version = m.version
         /\ mark \in Resumed(m).blockers <=> mark \in m.blockers
         /\ mark \in Healed(m).blockers <=> mark \in m.blockers
         /\ Resumed(m).version = m.version + 1
<1>1. /\ mark \notin Automated /\ mark \notin Pending
      /\ mark \notin {"reduced_overs", "innings_break", "not_live", "reconciling"}
  BY DEF Marks, Automated, Soft, Pending
<1>2. ASSUME NEW kind \in Kinds
      PROVE  /\ mark \in Projected(m, kind).blockers <=> mark \in m.blockers
             /\ Projected(m, kind).version = m.version
  <2>1. CASE kind = "live"
    BY <1>1, <2>1 DEF Projected, MatchDoc, Kept
  <2>2. CASE kind = "reduced"
    BY <1>1, <2>2 DEF Projected, MatchDoc, Kept
  <2>3. CASE kind = "innings_break"
    BY <1>1, <2>3 DEF Projected, MatchDoc, Kept
  <2>4. CASE kind = "upcoming"
    BY <1>1, <2>4 DEF Projected, MatchDoc, Kept
  <2>5. QED
    BY <2>1, <2>2, <2>3, <2>4 DEF Kinds
<1>3. ASSUME NEW kind \in Kinds
      PROVE  /\ mark \in Reconciled(m, kind).blockers <=> mark \in m.blockers
             /\ Reconciled(m, kind).version = m.version
  BY <1>1 DEF Reconciled, MatchDoc, Kept
<1>4. ASSUME NEW kind \in Kinds
      PROVE  /\ mark \in Refreshed(m, kind).blockers <=> mark \in m.blockers
             /\ Refreshed(m, kind).version = m.version
  BY <1>1 DEF Refreshed, MatchDoc, Kept
<1>5. (mark \in Resumed(m).blockers <=> mark \in m.blockers)
      /\ Resumed(m).version = m.version + 1
  BY <1>1 DEF Resumed, Bump, MatchDoc
<1>6. mark \in Healed(m).blockers <=> mark \in m.blockers
  BY <1>1 DEF Healed, Bump, MatchDoc, Kept
<1>7. QED
  BY <1>2, <1>3, <1>4, <1>5, <1>6

\* What the gate rests on: the kill switch is on the match, the manual gate on
\* the market, and a repair that may still write has read the kill switch as
\* it stands.
AdminInv ==
  /\ control.killed => "global_kill" \in match.blockers
  /\ control.manual => "manual" \in market
  /\ heal.current =>
       /\ heal.stage = "read"
       /\ "global_kill" \in heal.doc.blockers <=> "global_kill" \in match.blockers

\* A market keeps its manual block whatever is projected on it.
LEMMA ManualKept ==
  ASSUME NEW m, "manual" \in market
  PROVE  "manual" \in Suspending(m)
BY DEF Suspending

\* A writer that outdates the repair, keeps the control and leaves the kill
\* switch on the match.
LEMMA WriterAdmin ==
  ASSUME TypeOK, AdminInv, Outdate, UNCHANGED control,
         control.killed => "global_kill" \in match'.blockers,
         market' = Suspending(match')
  PROVE  AdminInv'
<1>1. ~heal'.current
  BY DEF Outdate, TypeOK
<1>2. control'.manual => "manual" \in market'
  BY ManualKept DEF AdminInv
<1>3. QED
  BY <1>1, <1>2 DEF AdminInv

LEMMA FeedAdmin ==
  ASSUME TypeOK, AdminInv, Feed
  PROVE  AdminInv'
<1> USE DEF TypeOK
<1>1. "global_kill" \in Marks
  BY DEF Marks
<1>2. ASSUME NEW kind \in Kinds, Project(kind)
      PROVE  AdminInv'
  <2> DEFINE next == Overlaid(Projected(match, kind))
  <2>1. next \in MatchDoc /\ (control.killed => "global_kill" \in next.blockers)
    <3>1. Projected(match, kind) \in MatchDoc
      BY DocType
    <3>2. Projected(match, kind).blockers \cup {"global_kill"} \in SUBSET Blockers
      BY <3>1 DEF MatchDoc, Blockers, Admin
    <3>3. CASE control.killed
      <4> DEFINE m == Projected(match, kind)
                 b == m.blockers \cup {"global_kill"}
      <4>1. next = Block(m, b)
        BY <3>3 DEF Overlaid
      <4>2. m \in MatchDoc /\ b \in SUBSET Blockers /\ "global_kill" \in b
        BY <3>1, <3>2
      <4> HIDE DEF m, b, next
      <4>3. next \in MatchDoc
        BY <4>1, <4>2, DocType
      <4>4. next.blockers = b
        BY <4>1, <4>2 DEF Block, MatchDoc
      <4> QED BY <4>2, <4>3, <4>4
    <3>4. CASE ~control.killed
      BY <3>1, <3>4 DEF Overlaid
    <3>5. QED
      BY <3>3, <3>4
  <2>2. \E bumped \in {next, Bump(next)} :
           match' = bumped \/ match' = [bumped EXCEPT !.blockers = @ \cup Pending]
    BY <1>2 DEF Project
  <2>3. Bump(next).blockers = next.blockers /\ Bump(next) \in MatchDoc
    BY <2>1, DocType DEF Bump, MatchDoc
  <2> HIDE DEF next
  <2>4. control.killed => "global_kill" \in match'.blockers
    BY <2>1, <2>2, <2>3 DEF MatchDoc
  <2>5. Outdate /\ UNCHANGED control /\ market' = Suspending(match')
    BY <1>2 DEF Project
  <2>6. QED
    BY <2>4, <2>5, WriterAdmin
<1>3. ASSUME NEW kind \in Kinds, Refresh(kind)
      PROVE  AdminInv'
  BY <1>1, <1>3, MarksKept DEF Refresh, AdminInv
<1>4. ASSUME NEW kind \in Kinds, ReconcilingPoll(kind)
      PROVE  AdminInv'
  <2> DEFINE next == Reconciled(match, kind)
  <2>1. next \in MatchDoc /\ (control.killed => "global_kill" \in next.blockers)
    BY <1>1, DocType, MarksKept DEF AdminInv
  <2>2. \E bumped \in {next, Bump(next)} :
           match' = bumped \/ match' = [bumped EXCEPT !.blockers = @ \cup Pending]
    BY <1>4 DEF ReconcilingPoll
  <2>3. Bump(next).blockers = next.blockers /\ Bump(next) \in MatchDoc
    BY <2>1, DocType DEF Bump, MatchDoc
  <2> HIDE DEF next
  <2>4. control.killed => "global_kill" \in match'.blockers
    BY <2>1, <2>2, <2>3 DEF MatchDoc
  <2>5. Outdate /\ UNCHANGED control /\ market' = Suspending(match')
    BY <1>4 DEF ReconcilingPoll
  <2>6. QED
    BY <2>4, <2>5, WriterAdmin
<1>5. ASSUME NEW feed, NEW blocker, MarkFeed(feed, blocker)
      PROVE  AdminInv'
  <2>1. match'.blockers = Kept(match.blockers) \cup {blocker} \cup Pending
    BY <1>5 DEF MarkFeed, Bump, Block, MatchDoc
  <2>2. "global_kill" \in Kept(match.blockers) <=> "global_kill" \in match.blockers
    BY DEF Kept, Automated, Soft
  <2>3. QED
    BY <1>5, <2>1, <2>2, WriterAdmin DEF MarkFeed, AdminInv
<1>6. QED
  BY <1>2, <1>3, <1>4, <1>5 DEF Feed

\* A match closed by a writer has the blockers it was given, and a new version.
LEMMA BlockedBlockers ==
  ASSUME NEW m \in MatchDoc, NEW b
  PROVE  /\ Bump(Block(m, b)).blockers = b
         /\ Bump(Block(m, b)).version = m.version + 1
BY DEF Bump, Block, MatchDoc

LEMMA AdministratorAdmin ==
  ASSUME TypeOK, AdminInv, Administrator
  PROVE  AdminInv'
<1>1. ASSUME NEW killed \in BOOLEAN, SetKill(killed)
      PROVE  AdminInv'
  <2>1. control'.killed = killed /\ control'.manual = control.manual
    BY <1>1 DEF SetKill, TypeOK
  <2>2. CASE ("global_kill" \in match.blockers) = killed
    BY <1>1, <2>1, <2>2 DEF SetKill, AdminInv
  <2>3. CASE ("global_kill" \in match.blockers) # killed
    <3>1. market' = Suspending(match') /\ Outdate
      BY <1>1, <2>3 DEF SetKill
    <3>2. ASSUME killed
          PROVE  "global_kill" \in match'.blockers
      <4> DEFINE killing == match.blockers \cup {"global_kill"} \cup Pending
      <4>1. match' = Bump(Block(match, killing))
        BY <1>1, <2>3, <3>2 DEF SetKill
      <4>2. "global_kill" \in killing
        OBVIOUS
      <4> HIDE DEF killing
      <4>3. QED
        BY <4>1, <4>2, BlockedBlockers DEF TypeOK
    <3>3. ~heal'.current
      BY <3>1 DEF Outdate, TypeOK
    <3>4. control'.manual => "manual" \in market'
      BY <2>1, <3>1, ManualKept DEF AdminInv
    <3>5. QED
      BY <2>1, <3>2, <3>3, <3>4 DEF AdminInv
  <2>4. QED
    BY <2>2, <2>3
<1>2. ASSUME NEW manual \in BOOLEAN, SetManual(manual)
      PROVE  AdminInv'
  <2>1. control'.manual = manual /\ control'.killed = control.killed /\ UNCHANGED heal
    BY <1>2 DEF SetManual, Marked, TypeOK
  <2>2. manual => "manual" \in market'
    BY <1>2 DEF SetManual, Marked
  <2>3. "global_kill" \in match'.blockers <=> "global_kill" \in match.blockers
    <3> DEFINE on  == match.blockers \cup {"manual"} \cup Pending
               off == Lifted(match.blockers \ {"manual"})
    <3>1. match' = match \/ match' = Bump(Block(match, on))
          \/ match' = Bump(Block(match, off))
      BY <1>2 DEF SetManual, Marked
    <3>2. /\ "global_kill" \in on <=> "global_kill" \in match.blockers
          /\ "global_kill" \in off <=> "global_kill" \in match.blockers
      BY DEF Lifted, Pending
    <3> HIDE DEF on, off
    <3>3. QED
      BY <3>1, <3>2, BlockedBlockers DEF TypeOK
  <2>4. QED
    BY <2>1, <2>2, <2>3 DEF AdminInv
<1>3. QED
  BY <1>1, <1>2 DEF Administrator

LEMMA HealAdmin ==
  ASSUME TypeOK, AdminInv, Heal
  PROVE  AdminInv'
<1>1. CASE HealRead
  BY <1>1 DEF HealRead, AdminInv, gateVars
<1>2. CASE HealWrite
  <2>1. ~heal'.current /\ UNCHANGED <<market, control>>
    BY <1>2 DEF HealWrite, AdminInv, TypeOK
  <2>2. control.killed => "global_kill" \in match'.blockers
    BY <1>2, MarksKept DEF HealWrite, AdminInv, Marks, TypeOK
  <2>3. QED
    BY <2>1, <2>2 DEF AdminInv
<1>3. CASE HealProject
  <2>1. ~heal.current /\ ~heal'.current /\ UNCHANGED <<match, control>>
    BY <1>3 DEF HealProject, AdminInv, TypeOK
  <2>2. control.manual => "manual" \in market'
    BY <1>3, ManualKept DEF HealProject, AdminInv
  <2>3. QED
    BY <2>1, <2>2 DEF AdminInv
<1>4. QED
  BY <1>1, <1>2, <1>3 DEF Heal

LEMMA WorkerAdmin ==
  ASSUME TypeOK, AdminInv, NEW w \in Workers,
         \/ Claim(w) \/ Drain(w) \/ Stop(w) \/ Renew(w)
         \/ \E o \in Orders : CancelFails(w, o)
  PROVE  AdminInv'
<1>1. CASE UNCHANGED <<match, market, control, heal>>
  BY <1>1 DEF AdminInv
<1>2. CASE Complete(w)
  <2>1. UNCHANGED <<control, heal>> /\ market' = Suspending(match')
        /\ match' = Resumed(match)
    BY <1>2 DEF Complete, workerRest
  <2>2. "global_kill" \in match'.blockers <=> "global_kill" \in match.blockers
    BY <2>1, MarksKept DEF Marks, TypeOK
  <2>3. QED
    BY <2>1, <2>2, ManualKept DEF AdminInv
<1>3. QED
  BY <1>1, <1>2
  DEF Claim, Drain, Stop, Renew, CancelFails, List, CancelOrder, Fail, LeaseLost,
      gateVars, workerRest

LEMMA AdminStep ==
  ASSUME TypeOK, AdminInv, [Next]_vars
  PROVE  AdminInv'
<1>1. CASE User
  BY <1>1 DEF User, ReadMatch, Rest, Withdraw, gateVars, AdminInv
<1>2. CASE Expire \/ Stall
  BY <1>2 DEF Expire, Stall, workerRest, AdminInv
<1>3. CASE UNCHANGED vars
  BY <1>3 DEF vars, AdminInv
<1>4. QED
  BY <1>1, <1>2, <1>3, FeedAdmin, AdministratorAdmin, HealAdmin, WorkerAdmin DEF Next

\* While the kill switch or the manual gate is on, no poll, repair or finished
\* job lets the match trade, for any number of processors and repairs.
THEOREM AdminGateCorrect == Spec => []AdminGateHolds
<1>1. Init => AdminInv
  BY DEF Init, AdminInv
<1>2. TypeOK /\ AdminInv /\ [Next]_vars => AdminInv'
  BY AdminStep
<1>3. AdminInv => AdminGateHolds
  BY DEF AdminInv, AdminGateHolds, Tradable, IsTradable, Hard, Soft
<1>4. QED
  BY <1>1, <1>2, <1>3, TypeCorrect, PTL DEF Spec

-----------------------------------------------------------------------------
(* Closures and the jobs that serve them, when no starting replica repairs   *)
(* the match: a repair is fenced by stateVersion alone and may move the      *)
(* trading version back.                                                     *)

\* The trading version never falls behind what depends on it.
VersionsOrdered ==
  /\ job.version <= match.version /\ drained <= job.version
  /\ \A w \in Workers : worker[w].version <= job.version
  /\ \A o \in Orders : order[o].version <= match.version

\* An order due at a closure is older than it, and the job knows that closure.
DueQueued ==
  \A o \in Orders : due[o] > 0 =>
    /\ order[o].version < due[o] /\ due[o] <= job.version
    /\ order[o].stage \in {"working", "cancelled", "withdrawn"}

\* A processor that has failed nothing has listed every due order it claimed.
DueListed ==
  \A w \in Workers, o \in Orders :
    (/\ worker[w].stage = "draining" /\ ~worker[w].failed
     /\ Working(o) /\ due[o] > 0 /\ due[o] <= worker[w].version)
    => o \in worker[w].todo

FenceInv ==
  /\ heal.stage = "idle"
  /\ VersionsOrdered /\ DueQueued /\ DueListed /\ DrainCovers
  /\ "manual" \in market => "manual" \in match.blockers

\* What every writer of the gate does to the version and the job.
GateWrite ==
  /\ \/ match'.version = match.version + 1 /\ Enqueue(match'.version)
     \/ match'.version \in {match.version, match.version + 1} /\ NoClosure
  /\ UNCHANGED <<worker, order, drained>>

LEMMA GateWriteFence ==
  ASSUME TypeOK, FenceInv, GateWrite
  PROVE  (VersionsOrdered /\ DueQueued /\ DueListed /\ DrainCovers)'
<1>1. match.version \in Nat /\ job.version \in Nat /\ drained \in Nat
      /\ (\A w \in Workers : worker[w].version \in Nat)
      /\ (\A o \in Orders : order[o].version \in Nat /\ due[o] \in Nat)
  BY DEF TypeOK, MatchDoc
<1>2. CASE match'.version = match.version + 1 /\ Enqueue(match'.version)
  <2> DEFINE v == match.version + 1
  <2>1. v \in Nat /\ v > job.version /\ v > drained /\ match'.version = v
        /\ job' = Enqueued(job, v)
        /\ due' = [o \in Orders |-> IF Working(o) /\ due[o] = 0 THEN v ELSE due[o]]
    BY <1>1, <1>2 DEF Enqueue, FenceInv, VersionsOrdered
  <2>2. job'.version = v
    BY <1>1, <2>1 DEF Enqueued, Larger, TypeOK
  <2>3. UNCHANGED <<worker, order, drained>>
    BY DEF GateWrite
  <2> HIDE DEF v
  <2>4. VersionsOrdered'
    BY <1>1, <1>2, <2>1, <2>2, <2>3 DEF FenceInv, VersionsOrdered
  <2>5. ASSUME NEW o \in Orders
        PROVE  \/ due'[o] = v /\ Working(o)
               \/ due'[o] = due[o]
    BY <2>1
  <2>6. \A o \in Orders : order[o].version < v
    BY <1>1, <1>2, <2>1 DEF FenceInv, VersionsOrdered
  <2>7. DueQueued'
    BY <1>1, <2>1, <2>2, <2>3, <2>5, <2>6 DEF FenceInv, DueQueued, Working
  <2>8. \A w \in Workers : worker[w].version < v
    BY <1>1, <2>1 DEF FenceInv, VersionsOrdered
  <2>9. DueListed'
    BY <1>1, <2>1, <2>3, <2>5, <2>8 DEF FenceInv, DueListed, Working
  <2>10. DrainCovers'
    BY <1>1, <2>1, <2>3, <2>5 DEF FenceInv, DrainCovers, Working
  <2>11. QED
    BY <2>4, <2>7, <2>9, <2>10
<1>3. CASE match'.version \in {match.version, match.version + 1} /\ NoClosure
  BY <1>1, <1>3
  DEF GateWrite, NoClosure, FenceInv, VersionsOrdered, DueQueued, DueListed,
      DrainCovers, Working
<1>4. QED
  BY <1>2, <1>3 DEF GateWrite

\* The manual block is on the match when it is on the market.
LEMMA WriterFence ==
  ASSUME TypeOK, FenceInv, GateWrite, heal'.stage = "idle",
         "manual" \in match.blockers => "manual" \in match'.blockers,
         market' = Suspending(match')
  PROVE  FenceInv'
<1>1. "manual" \in market' => "manual" \in match'.blockers
  BY DEF Suspending, FenceInv, Hard
<1>2. QED
  BY <1>1, GateWriteFence DEF FenceInv

LEMMA OutdateIdle ==
  ASSUME TypeOK, FenceInv, Outdate
  PROVE  heal'.stage = "idle"
BY DEF TypeOK, FenceInv, Outdate

\* A document with a new version or a pending mark keeps the rest.
LEMMA BumpFacts ==
  ASSUME NEW m \in MatchDoc
  PROVE  /\ Bump(m) \in MatchDoc
         /\ Bump(m).version = m.version + 1
         /\ Bump(m) = [m EXCEPT !.version = Bump(m).version]
         /\ \A b : /\ [m EXCEPT !.blockers = @ \cup b].version = m.version
                   /\ m.blockers \subseteq [m EXCEPT !.blockers = @ \cup b].blockers
BY DocType DEF Bump, MatchDoc

LEMMA OverlaidFacts ==
  ASSUME NEW m \in MatchDoc
  PROVE  /\ Overlaid(m) \in MatchDoc
         /\ Overlaid(m).version = m.version
         /\ m.blockers \subseteq Overlaid(m).blockers
         /\ Overlaid(m).open => Overlaid(m) = m
<1>1. m.blockers \cup {"global_kill"} \in SUBSET Blockers
  BY DEF MatchDoc, Blockers, Admin
<1>2. QED
  BY <1>1, DocType DEF Overlaid, Block, MatchDoc

\* The step ClosuresQueued allows.
QueuedStep ==
  IsTradable(match) /\ ~IsTradable(match)' /\ match'.version # match.version =>
    /\ job'.status \in {"pending", "processing"}
    /\ job'.version >= match'.version

LEMMA EnqueueQueued ==
  ASSUME TypeOK, match'.version \in Nat, Enqueue(match'.version)
  PROVE  QueuedStep
<1> DEFINE v == match'.version
<1>1. v \in Nat /\ job' = Enqueued(job, v)
  BY DEF Enqueue
<1> HIDE DEF v
<1>2. job'.status \in {"pending", "processing"} /\ job'.version >= v
  BY <1>1, EnqueuedType
<1>3. QED
  BY <1>2 DEF QueuedStep, v

\* A projection that leaves the match open lets it trade.
LEMMA OpenProjection ==
  ASSUME NEW m \in MatchDoc, NEW kind \in Kinds
  PROVE  /\ Projected(m, kind).open => IsTradable(Projected(m, kind))
         /\ Reconciled(m, kind).open =>
              Reconciled(m, kind).blockers = {}
<1>1. Projected(m, kind).open => IsTradable(Projected(m, kind))
  <2>1. CASE kind = "live"
    BY <2>1 DEF Projected, IsTradable, FeedAllowsTrading, Hard, MatchDoc
  <2>2. CASE kind # "live"
    BY <2>2 DEF Projected, MatchDoc, Kinds
  <2>3. QED
    BY <2>1, <2>2
<1>2. Reconciled(m, kind).open => Reconciled(m, kind).blockers = {}
  BY DEF Reconciled, MatchDoc
<1>3. QED
  BY <1>1, <1>2

LEMMA ProjectFence ==
  ASSUME TypeOK, FenceInv, NEW kind \in Kinds, Project(kind)
  PROVE  FenceInv' /\ QueuedStep
<1> DEFINE projected == Projected(match, kind)
           next      == Overlaid(projected)
<1>1. PICK same \in Same(projected.blockers, match.blockers) :
        LET moved  == \/ projected.open # match.open
                      \/ ~same
                      \/ control.killed /\ "global_kill" \notin match.blockers
            closes == moved /\ ~next.open
            bumped == IF moved THEN Bump(next) ELSE next
        IN  /\ match' = IF closes THEN [bumped EXCEPT !.blockers = @ \cup Pending]
                                  ELSE bumped
            /\ market' = Suspending(match')
            /\ IF closes THEN Enqueue(match'.version) ELSE NoClosure
            /\ Outdate
            /\ UNCHANGED <<worker, order, control, drained>>
  BY DEF Project
<1>2. projected \in MatchDoc /\ projected.version = match.version
      /\ ("manual" \in match.blockers => "manual" \in projected.blockers)
      /\ (projected.open => IsTradable(projected))
  BY DocType, MarksKept, OpenProjection DEF TypeOK, Marks
<1>3. next \in MatchDoc /\ next.version = match.version
      /\ ("manual" \in match.blockers => "manual" \in next.blockers)
      /\ (next.open => IsTradable(next))
  <2> HIDE DEF projected
  <2>1. QED
    BY <1>2, OverlaidFacts
<1> HIDE DEF projected, next
<1>4. /\ Bump(next) \in MatchDoc /\ Bump(next).version = match.version + 1
      /\ Bump(next) = [next EXCEPT !.version = Bump(next).version]
  BY <1>3, BumpFacts
<1>5. CASE match' = [Bump(next) EXCEPT !.blockers = @ \cup Pending]
           /\ Enqueue(match'.version)
  <2>1. match'.version = match.version + 1
        /\ ("manual" \in match.blockers => "manual" \in match'.blockers)
    BY <1>3, <1>4, <1>5 DEF MatchDoc
  <2>2. GateWrite
    BY <1>1, <1>5, <2>1 DEF GateWrite
  <2>3. FenceInv'
    BY <1>1, <2>1, <2>2, WriterFence, OutdateIdle
  <2>4. QED
    BY <1>5, <2>1, <2>3, EnqueueQueued DEF TypeOK, MatchDoc
<1>6. CASE match' = Bump(next) /\ next.open /\ NoClosure
  <2>1. match'.version = match.version + 1
        /\ ("manual" \in match.blockers => "manual" \in match'.blockers)
    BY <1>3, <1>4, <1>6 DEF MatchDoc
  <2>2. GateWrite
    BY <1>1, <1>6, <2>1 DEF GateWrite, TypeOK, MatchDoc
  <2>3. FenceInv'
    BY <1>1, <2>1, <2>2, WriterFence, OutdateIdle
  <2>4. IsTradable(match)'
    BY <1>3, <1>4, <1>6 DEF IsTradable, MatchDoc
  <2>5. QED
    BY <2>3, <2>4 DEF QueuedStep
<1>7. CASE match' = next /\ NoClosure
  <2>1. GateWrite
    BY <1>1, <1>3, <1>7 DEF GateWrite, TypeOK, MatchDoc
  <2>2. FenceInv'
    BY <1>1, <1>3, <1>7, <2>1, WriterFence, OutdateIdle
  <2>3. QED
    BY <1>3, <1>7, <2>2 DEF QueuedStep
<1>8. QED
  BY <1>1, <1>5, <1>6, <1>7

LEMMA ReconcilingPollFence ==
  ASSUME TypeOK, FenceInv, NEW kind \in Kinds, ReconcilingPoll(kind)
  PROVE  FenceInv' /\ QueuedStep
<1> DEFINE next   == Reconciled(match, kind)
           before == match.open /\ Hard(match.blockers) = {}
           after  == next.open /\ Hard(next.blockers) = {}
           moved  == next.open # match.open
                     \/ Kept(next.blockers) # Kept(match.blockers)
           closes == before /\ ~after
           bumped == IF ~after /\ moved THEN Bump(next) ELSE next
<1>1. /\ match' = IF closes THEN [bumped EXCEPT !.blockers = @ \cup Pending]
                             ELSE bumped
      /\ market' = Suspending(match')
      /\ IF closes THEN Enqueue(match'.version) ELSE NoClosure
      /\ Outdate
      /\ UNCHANGED <<worker, order, control, drained>>
  BY DEF ReconcilingPoll
<1>2. next \in MatchDoc /\ next.version = match.version
      /\ ("manual" \in match.blockers => "manual" \in next.blockers)
      /\ (next.open => next.blockers = {})
  BY DocType, MarksKept, OpenProjection DEF TypeOK, Marks
<1>3. closes => moved
  BY <1>2 DEF Hard
<1>4. IsTradable(match) => before
  BY DEF IsTradable
<1>5. match.version \in Nat
  BY DEF TypeOK, MatchDoc
<1> HIDE DEF next, before, after, moved
<1>6. /\ Bump(next) \in MatchDoc /\ Bump(next).version = match.version + 1
      /\ Bump(next) = [next EXCEPT !.version = Bump(next).version]
  BY <1>2, BumpFacts
<1>7. CASE closes
  <2>1. match' = [Bump(next) EXCEPT !.blockers = @ \cup Pending]
        /\ Enqueue(match'.version)
    BY <1>1, <1>3, <1>7
  <2>2. match'.version = match.version + 1
        /\ ("manual" \in match.blockers => "manual" \in match'.blockers)
    BY <1>2, <1>6, <2>1 DEF MatchDoc
  <2>3. GateWrite
    BY <1>1, <2>1, <2>2 DEF GateWrite
  <2>4. FenceInv'
    BY <1>1, <2>2, <2>3, WriterFence, OutdateIdle
  <2>5. QED
    BY <1>5, <2>1, <2>2, <2>4, EnqueueQueued
<1>8. CASE ~closes
  <2>1. NoClosure /\ (match' = next \/ match' = Bump(next))
    BY <1>1, <1>8
  <2>2. match'.version \in {match.version, match.version + 1}
        /\ ("manual" \in match.blockers => "manual" \in match'.blockers)
    BY <1>2, <1>6, <2>1 DEF MatchDoc
  <2>3. GateWrite
    BY <1>1, <2>1, <2>2 DEF GateWrite
  <2>4. FenceInv'
    BY <1>1, <2>2, <2>3, WriterFence, OutdateIdle
  <2>5. QueuedStep
    <3>1. CASE before
      BY <1>1, <1>2, <1>8, <3>1 DEF QueuedStep
    <3>2. CASE ~before
      BY <1>4, <3>2 DEF QueuedStep
    <3>3. QED
      BY <3>1, <3>2
  <2>6. QED
    BY <2>4, <2>5
<1>9. QED
  BY <1>7, <1>8

LEMMA MarkFeedFence ==
  ASSUME TypeOK, FenceInv, NEW feed \in Feeds, NEW blocker \in Blockers,
         MarkFeed(feed, blocker)
  PROVE  FenceInv' /\ QueuedStep
<1> DEFINE blockers == Kept(match.blockers) \cup {blocker} \cup Pending
<1>1. match' = [Bump(Block(match, blockers)) EXCEPT !.feed = feed]
      /\ market' = Suspending(match') /\ Enqueue(match'.version) /\ Outdate
      /\ UNCHANGED <<worker, order, control, drained>>
  BY DEF MarkFeed
<1>2. "manual" \in match.blockers => "manual" \in blockers
  BY DEF Kept, Automated, Soft
<1> HIDE DEF blockers
<1>3. match'.version = match.version + 1 /\ match'.blockers = blockers
  BY <1>1, BlockedBlockers DEF TypeOK
<1>4. GateWrite
  BY <1>1, <1>3 DEF GateWrite
<1>5. FenceInv'
  BY <1>1, <1>2, <1>3, <1>4, WriterFence, OutdateIdle
<1>6. match'.version \in Nat
  BY <1>3 DEF TypeOK, MatchDoc
<1>7. QED
  BY <1>1, <1>5, <1>6, EnqueueQueued

LEMMA RefreshFence ==
  ASSUME TypeOK, FenceInv, NEW kind \in Kinds, Refresh(kind)
  PROVE  FenceInv' /\ QueuedStep
<1>1. match' = Refreshed(match, kind) /\ NoClosure
      /\ UNCHANGED <<market, heal, worker, order, drained>>
  BY DEF Refresh, NoClosure
<1>2. match'.version = match.version
      /\ ("manual" \in match.blockers => "manual" \in match'.blockers)
  BY <1>1, MarksKept DEF TypeOK, Marks
<1>3. GateWrite
  BY <1>1, <1>2 DEF GateWrite
<1>4. FenceInv'
  BY <1>1, <1>2, <1>3, GateWriteFence DEF FenceInv
<1>5. QED
  BY <1>2, <1>4 DEF QueuedStep

LEMMA SetKillFence ==
  ASSUME TypeOK, FenceInv, NEW killed \in BOOLEAN, SetKill(killed)
  PROVE  FenceInv' /\ QueuedStep
<1>1. match.version \in Nat /\ UNCHANGED <<worker, order, drained>>
  BY DEF TypeOK, MatchDoc, SetKill
<1>2. CASE ("global_kill" \in match.blockers) = killed
  <2>1. UNCHANGED <<match, market, heal>> /\ NoClosure
    BY <1>2 DEF SetKill
  <2>2. GateWrite
    BY <1>1, <2>1 DEF GateWrite
  <2>3. QED
    BY <2>1, <2>2, GateWriteFence DEF FenceInv, QueuedStep
<1>3. CASE ("global_kill" \in match.blockers) # killed
  <2> DEFINE blockers == IF killed THEN match.blockers \cup {"global_kill"} \cup Pending
                         ELSE Lifted(match.blockers \ {"global_kill"})
  <2>1. /\ match' = Bump(Block(match, blockers)) /\ market' = Suspending(match')
        /\ IF killed THEN Enqueue(match'.version) ELSE NoClosure
        /\ Outdate
    BY <1>3 DEF SetKill
  <2>2. "manual" \in match.blockers => "manual" \in blockers
    BY DEF Lifted
  <2> HIDE DEF blockers
  <2>3. match'.version = match.version + 1 /\ match'.blockers = blockers
    BY <2>1, BlockedBlockers DEF TypeOK
  <2>4. GateWrite
    BY <1>1, <2>1, <2>3 DEF GateWrite
  <2>5. FenceInv'
    BY <2>1, <2>2, <2>3, <2>4, WriterFence, OutdateIdle
  <2>6. CASE killed
    BY <1>1, <2>1, <2>3, <2>5, <2>6, EnqueueQueued
  <2>7. CASE ~killed
    BY <1>3, <2>5, <2>7 DEF QueuedStep, IsTradable, Hard, Soft
  <2>8. QED
    BY <2>6, <2>7
<1>4. QED
  BY <1>2, <1>3

LEMMA SetManualFence ==
  ASSUME TypeOK, FenceInv, NEW manual \in BOOLEAN, SetManual(manual)
  PROVE  FenceInv' /\ QueuedStep
<1> DEFINE marked == IF manual THEN market \cup {"manual"} ELSE market \ {"manual"}
<1>1. match.version \in Nat /\ UNCHANGED <<worker, order, heal, drained>>
  BY DEF TypeOK, MatchDoc, SetManual, Marked
<1>2. CASE ("manual" \in match.blockers) = manual /\ ("manual" \in market) = manual
  <2>1. UNCHANGED <<match, market>> /\ NoClosure
    BY <1>2 DEF SetManual, Marked
  <2>2. GateWrite
    BY <1>1, <2>1 DEF GateWrite
  <2>3. QED
    BY <1>1, <2>1, <2>2, GateWriteFence DEF FenceInv, QueuedStep
<1>3. CASE ~(("manual" \in match.blockers) = manual /\ ("manual" \in market) = manual)
  <2> DEFINE blockers == IF manual THEN match.blockers \cup {"manual"} \cup Pending
                         ELSE Lifted(match.blockers \ {"manual"})
  <2>1. /\ match' = Bump(Block(match, blockers))
        /\ market' = IF match.status = "upcoming" THEN marked
                     ELSE Hard(match'.blockers) \cup (marked \cap {"manual"})
        /\ IF manual THEN Enqueue(match'.version) ELSE NoClosure
    BY <1>3 DEF SetManual, Marked
  <2>2. manual => "manual" \in blockers
    OBVIOUS
  <2> HIDE DEF blockers
  <2>3. match'.version = match.version + 1 /\ match'.blockers = blockers
    BY <2>1, BlockedBlockers DEF TypeOK
  <2>4. GateWrite
    BY <1>1, <2>1, <2>3 DEF GateWrite
  <2>5. "manual" \in market' => "manual" \in match'.blockers
    <3>1. CASE manual
      BY <2>2, <2>3, <3>1
    <3>2. CASE ~manual
      BY <2>1, <3>2 DEF Hard
    <3>3. QED
      BY <3>1, <3>2
  <2>6. FenceInv'
    BY <1>1, <2>4, <2>5, GateWriteFence DEF FenceInv
  <2>7. CASE manual
    BY <1>1, <2>1, <2>3, <2>6, <2>7, EnqueueQueued
  <2>8. CASE ~manual
    <3>1. "manual" \in match.blockers
      BY <1>3, <2>8 DEF FenceInv
    <3>2. QED
      BY <2>6, <3>1 DEF QueuedStep, IsTradable, Hard, Soft
  <2>9. QED
    BY <2>7, <2>8
<1>4. QED
  BY <1>2, <1>3

LEMMA UserFence ==
  ASSUME TypeOK, FenceInv, User
  PROVE  FenceInv' /\ QueuedStep
<1>1. PICK o \in Orders : ReadMatch(o) \/ Rest(o) \/ Withdraw(o)
  BY DEF User
<1>2. UNCHANGED <<match, market, job, worker, heal, due, drained>>
  BY <1>1 DEF ReadMatch, Rest, Withdraw, gateVars
<1>3. match.version \in Nat
  BY DEF TypeOK, MatchDoc
<1>4. /\ \A p \in Orders : p # o => order'[p] = order[p]
      /\ \/ order[o].stage \in {"idle", "read"} /\ order'[o].stage = "read"
            /\ order'[o].version = match.version
         \/ order[o].stage = "read" /\ order'[o].stage = "working"
            /\ order'[o].version = order[o].version
         \/ order[o].stage = "working" /\ order'[o].stage = "withdrawn"
            /\ order'[o].version = order[o].version
  BY <1>1 DEF ReadMatch, Rest, Withdraw, Working, TypeOK
<1>5. order[o].stage \in {"idle", "read"} => due[o] = 0
  BY DEF FenceInv, DueQueued, TypeOK
<1>6. VersionsOrdered'
  BY <1>2, <1>3, <1>4 DEF FenceInv, VersionsOrdered
<1>7. DueQueued'
  BY <1>2, <1>4, <1>5 DEF FenceInv, DueQueued
<1>8. \A p \in Orders : Working(p)' /\ due[p] > 0 => Working(p)
  BY <1>4, <1>5 DEF Working
<1>9. DueListed' /\ DrainCovers'
  BY <1>2, <1>8 DEF FenceInv, DueListed, DrainCovers, Working
<1>10. QED
  BY <1>2, <1>6, <1>7, <1>9 DEF FenceInv, QueuedStep

\* A completed job moves the version on, and leaves nothing due behind.
LEMMA CompleteFence ==
  ASSUME TypeOK, FenceInv, NEW w \in Workers, Complete(w)
  PROVE  FenceInv' /\ QueuedStep
<1>1. /\ worker[w].stage = "draining" /\ worker[w].todo = {} /\ ~worker[w].failed
      /\ match' = Resumed(match) /\ market' = Suspending(match')
      /\ drained' = Larger(drained, worker[w].version)
      /\ UNCHANGED <<order, heal, due>>
  BY DEF Complete, Drained, workerRest
<1>2. /\ worker'[w].stage = "idle" /\ worker'[w].version = 0
      /\ \A u \in Workers : u # w => worker'[u] = worker[u]
  BY DEF Complete, Idle, TypeOK
<1>3. job'.version = job.version
  BY DEF Complete, TypeOK
<1>4. match'.version = match.version + 1
      /\ ("manual" \in match.blockers => "manual" \in match'.blockers)
  BY <1>1, MarksKept DEF TypeOK, Marks
<1>5. /\ match.version \in Nat /\ job.version \in Nat /\ drained \in Nat
      /\ \A u \in Workers : worker[u].version \in Nat
      /\ \A o \in Orders : order[o].version \in Nat /\ due[o] \in Nat
  BY DEF TypeOK, MatchDoc
<1>6. drained' <= job.version
  BY <1>1, <1>5 DEF FenceInv, VersionsOrdered, Larger
<1>7. VersionsOrdered'
  <2>1. \A u \in Workers : worker'[u].version <= job.version
    BY <1>2, <1>5 DEF FenceInv, VersionsOrdered
  <2>2. \A o \in Orders : order[o].version <= match'.version
    BY <1>4, <1>5 DEF FenceInv, VersionsOrdered
  <2>3. job.version <= match'.version
    BY <1>4, <1>5 DEF FenceInv, VersionsOrdered
  <2>4. QED
    BY <1>1, <1>3, <1>6, <2>1, <2>2, <2>3 DEF VersionsOrdered
<1>8. DueQueued' /\ DueListed'
  BY <1>1, <1>2, <1>3 DEF FenceInv, DueQueued, DueListed, Working
<1>9. DrainCovers'
  <2>1. \A o \in Orders : Working(o) /\ due[o] > 0 => due[o] > worker[w].version
    BY <1>1, <1>5 DEF FenceInv, DueListed
  <2>2. QED
    BY <1>1, <1>5, <2>1 DEF FenceInv, DrainCovers, Working, Larger
<1>10. "manual" \in market' => "manual" \in match'.blockers
  BY <1>1, <1>4 DEF FenceInv, Suspending, Hard
<1>11. QueuedStep
  BY <1>1 DEF QueuedStep, IsTradable, Resumed, Bump, Hard, Pending, TypeOK, MatchDoc
<1>12. QED
  BY <1>1, <1>7, <1>8, <1>9, <1>10, <1>11 DEF FenceInv

LEMMA ListFence ==
  ASSUME TypeOK, FenceInv, NEW w \in Workers, List(w)
  PROVE  FenceInv' /\ QueuedStep
<1> DEFINE todo == {o \in Orders : Working(o) /\ Older(o, worker[w].version)}
<1>1. /\ worker' = [worker EXCEPT ![w].stage = "draining", ![w].todo = todo]
      /\ UNCHANGED <<match, market, job, order, heal, due, drained>>
  BY DEF List, workerRest, gateVars
<1>2. /\ worker'[w].version = worker[w].version /\ worker'[w].todo = todo
      /\ \A u \in Workers : u # w => worker'[u] = worker[u]
  <2> HIDE DEF todo
  <2>1. QED
    BY <1>1 DEF TypeOK
<1>3. \A o \in Orders : Working(o) /\ due[o] > 0 /\ due[o] <= worker[w].version
        => o \in todo
  BY DEF FenceInv, DueQueued, Older, TypeOK
<1> HIDE DEF todo
<1>4. DueListed'
  BY <1>1, <1>2, <1>3 DEF FenceInv, DueListed, Working
<1>5. VersionsOrdered'
  BY <1>1, <1>2 DEF FenceInv, VersionsOrdered
<1>6. QED
  BY <1>1, <1>4, <1>5 DEF FenceInv, DueQueued, DrainCovers, Working, QueuedStep

LEMMA CancelFence ==
  ASSUME TypeOK, FenceInv, NEW w \in Workers, NEW o \in Orders,
         CancelOrder(w, o) \/ CancelFails(w, o)
  PROVE  FenceInv' /\ QueuedStep
<1>1. UNCHANGED <<match, market, job, heal, due, drained>>
  BY DEF CancelOrder, CancelFails, workerRest, gateVars
<1>2. /\ worker'[w].version = worker[w].version /\ worker'[w].stage = worker[w].stage
      /\ worker'[w].todo = worker[w].todo \ {o}
      /\ \A u \in Workers : u # w => worker'[u] = worker[u]
  BY DEF CancelOrder, CancelFails, TypeOK
<1>3. ~worker'[w].failed => ~worker[w].failed /\ CancelOrder(w, o)
  BY DEF CancelOrder, CancelFails, TypeOK
<1>4. /\ \A p \in Orders : /\ order'[p].version = order[p].version
                           /\ Working(p)' => Working(p)
                           /\ order'[p].stage \in {order[p].stage, "cancelled"}
      /\ CancelOrder(w, o) => ~Working(o)'
  <2>1. CASE order' = order /\ ~Working(o)
    BY <2>1 DEF Working
  <2>2. CASE order' = [order EXCEPT ![o].stage = "cancelled"]
    BY <2>2 DEF Working, TypeOK
  <2>3. CASE CancelFails(w, o)
    <3>1. order' = order
      BY <2>3 DEF CancelFails
    <3>2. ~CancelOrder(w, o)
      <4>1. spent' # spent
        BY <2>3 DEF CancelFails, Mishap, TypeOK
      <4>2. QED
        BY <4>1 DEF CancelOrder
    <3>3. QED
      BY <3>1, <3>2 DEF Working
  <2>4. QED
    BY <2>1, <2>2, <2>3 DEF CancelOrder
<1>5. VersionsOrdered' /\ DueQueued'
  BY <1>1, <1>2, <1>4 DEF FenceInv, VersionsOrdered, DueQueued
<1>6. DueListed'
  BY <1>1, <1>2, <1>3, <1>4 DEF FenceInv, DueListed
<1>7. DrainCovers'
  BY <1>1, <1>4 DEF FenceInv, DrainCovers
<1>8. QED
  BY <1>1, <1>5, <1>6, <1>7 DEF FenceInv, QueuedStep

LEMMA LeaseFence ==
  ASSUME TypeOK, FenceInv, NEW w \in Workers,
         Claim(w) \/ Fail(w) \/ LeaseLost(w) \/ Stop(w) \/ Renew(w)
  PROVE  FenceInv' /\ QueuedStep
<1>1. UNCHANGED <<match, market, order, heal, due, drained>>
  BY DEF Claim, Fail, LeaseLost, Stop, Renew, workerRest, gateVars
<1>2. job'.version = job.version
  BY DEF Claim, Fail, LeaseLost, Stop, Renew, gateVars, TypeOK
<1>3. \/ UNCHANGED worker
      \/ /\ worker'[w].stage # "draining"
         /\ worker'[w].version \in {0, job.version}
         /\ \A u \in Workers : u # w => worker'[u] = worker[u]
  <2>1. CASE Idle(w)
    BY <2>1 DEF Idle, TypeOK
  <2>2. CASE Claim(w)
    BY <2>2 DEF Claim, TypeOK
  <2>3. QED
    BY <2>1, <2>2 DEF Fail, LeaseLost, Stop, Renew
<1>4. VersionsOrdered'
  BY <1>1, <1>2, <1>3 DEF FenceInv, VersionsOrdered, TypeOK
<1>5. DueListed'
  BY <1>1, <1>3 DEF FenceInv, DueListed, Working
<1>6. QED
  BY <1>1, <1>2, <1>4, <1>5 DEF FenceInv, DueQueued, DrainCovers, Working, QueuedStep

LEMMA FenceStep ==
  ASSUME MaxHeals = 0, TypeOK, FenceInv, [Next]_vars
  PROVE  FenceInv' /\ QueuedStep
<1>1. CASE Feed
  <2>1. {"feed_stale", "reconciling"} \in SUBSET Blockers
        /\ {"stale", "reconciling"} \in SUBSET Feeds
    BY DEF Blockers, Automated, Soft, Feeds
  <2>2. QED
    BY <1>1, <2>1, ProjectFence, RefreshFence, ReconcilingPollFence, MarkFeedFence
    DEF Feed
<1>2. CASE Administrator
  BY <1>2, SetKillFence, SetManualFence DEF Administrator
<1>3. CASE Heal
  <2>1. ~HealRead
    BY DEF HealRead, TypeOK
  <2>2. ~HealWrite /\ ~HealProject
    BY DEF HealWrite, HealProject, FenceInv
  <2>3. QED
    BY <1>3, <2>1, <2>2 DEF Heal
<1>4. CASE User
  BY <1>4, UserFence
<1>5. ASSUME NEW w \in Workers,
             \/ Claim(w) \/ Drain(w) \/ Stop(w) \/ Renew(w)
             \/ \E o \in Orders : CancelFails(w, o)
      PROVE  FenceInv' /\ QueuedStep
  BY <1>5, CompleteFence, ListFence, CancelFence, LeaseFence DEF Drain
<1>6. CASE Expire \/ Stall
  <2>1. job'.version = job.version
        /\ UNCHANGED <<match, market, worker, order, drained, heal, due>>
    BY <1>6 DEF Expire, Stall, Expired, workerRest, TypeOK
  <2>2. QED
    BY <2>1
    DEF FenceInv, VersionsOrdered, DueQueued, DueListed, DrainCovers, Working, QueuedStep
<1>7. CASE UNCHANGED vars
  BY <1>7
  DEF vars, FenceInv, VersionsOrdered, DueQueued, DueListed, DrainCovers, Working,
      QueuedStep
<1>8. QED
  BY <1>1, <1>2, <1>3, <1>4, <1>5, <1>6, <1>7 DEF Next

LEMMA FenceInit ==
  ASSUME Init
  PROVE  FenceInv
BY DEF Init, FenceInv, VersionsOrdered, DueQueued, DueListed, DrainCovers, Working

\* A completed job leaves no order that rested at a closure it had claimed,
\* for any orders, processors, closures, failures and changes of owner.
THEOREM DrainCoversCorrect ==
  ASSUME MaxHeals = 0
  PROVE  Spec => []DrainCovers
<1>1. Init => FenceInv
  BY FenceInit
<1>2. TypeOK /\ FenceInv /\ [Next]_vars => FenceInv'
  BY FenceStep
<1>3. FenceInv => DrainCovers
  BY DEF FenceInv
<1>4. QED
  BY <1>1, <1>2, <1>3, TypeCorrect, PTL DEF Spec

\* No writer closes a trading match under a new version without a waiting or
\* running job that knows it.
THEOREM ClosuresQueuedCorrect ==
  ASSUME MaxHeals = 0
  PROVE  Spec => ClosuresQueued
<1>1. Init => FenceInv
  BY FenceInit
<1>2. TypeOK /\ FenceInv /\ [Next]_vars => FenceInv'
  BY FenceStep
<1>3. TypeOK /\ FenceInv /\ [Next]_vars =>
        [IsTradable(match) /\ ~IsTradable(match)' /\ match'.version # match.version =>
           /\ job'.status \in {"pending", "processing"}
           /\ job'.version >= match'.version]_vars
  BY FenceStep DEF QueuedStep
<1>4. QED
  BY <1>1, <1>2, <1>3, TypeCorrect, PTL DEF Spec, ClosuresQueued

-----------------------------------------------------------------------------
(* Orders of users who read the match after the last closure.              *)

\* Such an order is not older than the job, and whatever a processor has
\* listed is older than the version it claimed.
SpareInv ==
  /\ \A o \in Orders : fresh[o] => order[o].version >= job.version
  /\ \A w \in Workers : \A o \in worker[w].todo :
       /\ order[o].version < worker[w].version
       /\ order[o].stage \in {"working", "cancelled", "withdrawn"}
  /\ \A w \in Workers : worker[w].stage # "draining" => worker[w].todo = {}

\* Writers of the gate touch neither orders nor processors, and a closure
\* leaves nothing fresh.
LEMMA WriterSpare ==
  ASSUME TypeOK, SpareInv, Feed \/ Administrator
  PROVE  SpareInv'
<1>1. UNCHANGED <<worker, order>>
  BY DEF Feed, Project, Refresh, ReconcilingPoll, MarkFeed, Administrator, SetKill,
         SetManual
<1>2. NoClosure \/ \E v : Enqueue(v)
  BY DEF Feed, Project, Refresh, ReconcilingPoll, MarkFeed, Administrator, SetKill,
         SetManual, NoClosure
<1>3. UNCHANGED <<job, fresh>> \/ \A o \in Orders : ~fresh'[o]
  BY <1>2 DEF NoClosure, Enqueue
<1>4. QED
  BY <1>1, <1>3 DEF SpareInv

LEMMA UserSpare ==
  ASSUME TypeOK, FenceInv, SpareInv, User
  PROVE  SpareInv'
<1>1. PICK o \in Orders : ReadMatch(o) \/ Rest(o) \/ Withdraw(o)
  BY DEF User
<1>2. UNCHANGED <<match, job, worker>>
  BY <1>1 DEF ReadMatch, Rest, Withdraw, gateVars
<1>3. \A p \in Orders : p # o => order'[p] = order[p] /\ fresh'[p] = fresh[p]
  BY <1>1 DEF ReadMatch, Rest, Withdraw, TypeOK
<1>4. \/ order[o].stage \in {"idle", "read"} /\ order'[o].version = match.version
      \/ order[o].stage = "read" /\ order'[o].version = order[o].version
         /\ fresh'[o] = fresh[o]
      \/ order'[o].stage = "withdrawn" /\ order'[o].version = order[o].version
         /\ fresh'[o] = fresh[o]
  BY <1>1 DEF ReadMatch, Rest, Withdraw, TypeOK
<1>5. fresh'[o] => order'[o].version >= job.version
  BY <1>4 DEF SpareInv, FenceInv, VersionsOrdered, TypeOK, MatchDoc
<1>6. ASSUME NEW w \in Workers, NEW p \in worker[w].todo
      PROVE  /\ order'[p].version < worker[w].version
             /\ order'[p].stage \in {"working", "cancelled", "withdrawn"}
  <2>1. /\ order[p].version < worker[w].version
        /\ order[p].stage \in {"working", "cancelled", "withdrawn"}
    BY <1>6 DEF SpareInv
  <2>2. p \in Orders
    BY <1>6 DEF TypeOK
  <2>3. QED
    BY <1>3, <1>4, <2>1, <2>2
<1>7. QED
  BY <1>2, <1>3, <1>5, <1>6 DEF SpareInv

LEMMA WorkerSpare ==
  ASSUME TypeOK, SpareInv, NEW w \in Workers,
         \/ Claim(w) \/ Drain(w) \/ Stop(w) \/ Renew(w)
         \/ \E o \in Orders : CancelFails(w, o)
  PROVE  SpareInv'
<1>1. job'.version = job.version /\ UNCHANGED fresh
  BY DEF Claim, Drain, Stop, Renew, CancelFails, List, CancelOrder, Complete, Fail,
         LeaseLost, workerRest, gateVars, TypeOK
<1>2. \A p \in Orders : /\ order'[p].version = order[p].version
                        /\ order'[p].stage \in {order[p].stage, "cancelled"}
  <2>1. CASE UNCHANGED order
    BY <2>1
  <2>2. ASSUME NEW o \in Orders, CancelOrder(w, o)
        PROVE  \A p \in Orders : /\ order'[p].version = order[p].version
                                 /\ order'[p].stage \in {order[p].stage, "cancelled"}
    BY <2>2 DEF CancelOrder, TypeOK
  <2>3. QED
    BY <2>1, <2>2
    DEF Claim, Drain, Stop, Renew, CancelFails, List, Complete, Fail, LeaseLost
<1>3. \A u \in Workers : u # w => worker'[u] = worker[u]
  BY DEF Claim, Drain, Stop, Renew, CancelFails, List, CancelOrder, Complete, Fail,
         LeaseLost, Idle, TypeOK
<1>4. \A o \in worker'[w].todo :
        /\ order[o].version < worker'[w].version
        /\ order[o].stage \in {"working", "cancelled", "withdrawn"}
  <2>1. CASE Idle(w)
    BY <2>1 DEF Idle, TypeOK
  <2>2. CASE UNCHANGED worker
    BY <2>2 DEF SpareInv
  <2>3. CASE Claim(w)
    <3>1. worker'[w].todo = worker[w].todo /\ worker[w].stage # "draining"
      BY <2>3 DEF Claim, Busy, TypeOK
    <3>2. QED
      BY <3>1 DEF SpareInv
  <2>4. CASE List(w)
    <3>1. worker'[w].version = worker[w].version
          /\ worker'[w].todo = {o \in Orders : Working(o) /\ Older(o, worker[w].version)}
      BY <2>4 DEF List, TypeOK
    <3>2. QED
      BY <3>1 DEF Working, Older
  <2>5. ASSUME NEW o \in Orders, CancelOrder(w, o) \/ CancelFails(w, o)
        PROVE  worker'[w].todo \subseteq worker[w].todo
               /\ worker'[w].version = worker[w].version
    BY <2>5 DEF CancelOrder, CancelFails, TypeOK
  <2>6. QED
    BY <2>1, <2>2, <2>3, <2>4, <2>5
    DEF SpareInv, Drain, Stop, Renew, Complete, Fail, LeaseLost
<1>5. worker'[w].stage # "draining" => worker'[w].todo = {}
  <2>1. CASE Idle(w)
    BY <2>1 DEF Idle, TypeOK
  <2>2. CASE UNCHANGED worker
    BY <2>2 DEF SpareInv
  <2>3. CASE Claim(w)
    BY <2>3 DEF Claim, Busy, SpareInv, TypeOK
  <2>4. CASE List(w)
    BY <2>4 DEF List, TypeOK
  <2>5. ASSUME NEW o \in Orders, CancelOrder(w, o) \/ CancelFails(w, o)
        PROVE  worker'[w].todo \subseteq worker[w].todo
               /\ worker'[w].stage = worker[w].stage
    BY <2>5 DEF CancelOrder, CancelFails, TypeOK
  <2>6. QED
    BY <2>1, <2>2, <2>3, <2>4, <2>5
    DEF SpareInv, Drain, Stop, Renew, Complete, Fail, LeaseLost
<1>6. worker' \in [Workers -> WorkerDocs]
  BY WorkersType
<1>7. ASSUME NEW u \in Workers, NEW o \in worker'[u].todo
      PROVE  /\ order'[o].version < worker'[u].version
             /\ order'[o].stage \in {"working", "cancelled", "withdrawn"}
  <2>1. o \in Orders
    BY <1>6, <1>7 DEF WorkerDocs
  <2>2. /\ order[o].version < worker'[u].version
        /\ order[o].stage \in {"working", "cancelled", "withdrawn"}
    BY <1>3, <1>4, <1>7 DEF SpareInv
  <2>3. QED
    BY <1>2, <2>1, <2>2
<1>8. \A u \in Workers : worker'[u].stage # "draining" => worker'[u].todo = {}
  BY <1>3, <1>5 DEF SpareInv
<1>9. QED
  BY <1>1, <1>2, <1>7, <1>8 DEF SpareInv

LEMMA SpareStep ==
  ASSUME MaxHeals = 0, TypeOK, FenceInv, SpareInv, [Next]_vars
  PROVE  SpareInv'
<1>1. CASE Heal
  <2>1. ~HealRead
    BY DEF HealRead, TypeOK
  <2>2. ~HealWrite /\ ~HealProject
    BY DEF HealWrite, HealProject, FenceInv
  <2>3. QED
    BY <1>1, <2>1, <2>2 DEF Heal
<1>2. CASE Expire \/ Stall
  <2>1. job'.version = job.version /\ UNCHANGED <<worker, order, fresh>>
    BY <1>2 DEF Expire, Stall, Expired, workerRest, TypeOK
  <2>2. QED
    BY <2>1 DEF SpareInv
<1>3. CASE UNCHANGED vars
  BY <1>3 DEF vars, SpareInv
<1>4. QED
  BY <1>1, <1>2, <1>3, WriterSpare, UserSpare, WorkerSpare DEF Next

\* Only the cancellation of a listed order cancels one.
LEMMA CancelledWasListed ==
  ASSUME TypeOK, FenceInv, SpareInv, [Next]_vars, NEW o \in Orders, Working(o),
         order'[o].stage = "cancelled"
  PROVE  ~fresh[o]
<1>1. PICK w \in Workers : o \in worker[w].todo
  <2>1. ASSUME NEW p \in Orders, ReadMatch(p) \/ Rest(p) \/ Withdraw(p)
        PROVE  FALSE
    BY <2>1 DEF ReadMatch, Rest, Withdraw, Working, TypeOK
  <2>2. ASSUME NEW w \in Workers, NEW p \in Orders, CancelOrder(w, p)
        PROVE  o \in worker[w].todo
    BY <2>2 DEF CancelOrder, Working, TypeOK
  <2>3. CASE UNCHANGED order
    BY <2>3 DEF Working
  <2>4. QED
    BY <2>1, <2>2, <2>3
    DEF Next, Feed, Project, Refresh, ReconcilingPoll, MarkFeed, Administrator, SetKill,
        SetManual, Heal, HealRead, HealWrite, HealProject, User, Claim, Drain, Stop,
        Renew, CancelFails, List, Complete, Fail, LeaseLost, Expire, Stall, vars
<1>2. order[o].version < worker[w].version /\ worker[w].version <= job.version
  BY <1>1 DEF SpareInv, FenceInv, VersionsOrdered
<1>3. fresh[o] => order[o].version >= job.version
  BY DEF SpareInv
<1>4. QED
  BY <1>2, <1>3 DEF TypeOK

\* A draining job never cancels an order whose handler read the match after the
\* last closure, for any orders, processors, closures and changes of owner.
THEOREM SparesResumedOrdersCorrect ==
  ASSUME MaxHeals = 0
  PROVE  Spec => SparesResumedOrders
<1>1. Init => FenceInv /\ SpareInv
  BY FenceInit DEF Init, SpareInv
<1>2. TypeOK /\ FenceInv /\ [Next]_vars => FenceInv'
  BY FenceStep
<1>3. TypeOK /\ FenceInv /\ SpareInv /\ [Next]_vars => SpareInv'
  BY SpareStep
<1>4. TypeOK /\ FenceInv /\ SpareInv /\ [Next]_vars =>
        [\A o \in Orders :
           Working(o) /\ order'[o].stage = "cancelled" => ~fresh[o]]_vars
  BY CancelledWasListed
<1>5. QED
  BY <1>1, <1>2, <1>3, <1>4, TypeCorrect, PTL DEF Spec, SparesResumedOrders
=============================================================================
