--------------------------- MODULE PollingProofs ---------------------------
(***************************************************************************)
(* Module Polling, proved for any number of workers, scanners and polls    *)
(* and any bounds: its documents keep their shape, the requests of a       *)
(* fixture are counted, a hard park is not undone, and the end of a match  *)
(* only by the poll that holds the lease.                                  *)
(***************************************************************************)
EXTENDS Polling, FiniteSetTheorems, TLAPS

TargetDoc ==
  [exists : BOOLEAN, eligible : BOOLEAN, status : States, armed : BOOLEAN,
   parked : Parks, requests : 0 .. MaxRequests, missing : BOOLEAN,
   opened : BOOLEAN, owner : Workers \cup {NoOne}, token : Nat, live : BOOLEAN]

\* A target as the store may hold it: the lease is whole or absent, and a
\* fixture that was never written has none, is not parked and cost nothing.
Sound(t) ==
  /\ t \in TargetDoc
  /\ t.owner = NoOne <=> t.token = 0
  /\ t.live => t.owner # NoOne
  /\ ~t.exists => t.parked = "none" /\ t.requests = 0 /\ t.owner = NoOne

ScanDoc ==
  {c \in [stage : {"off", "read", "written"}, heard : States \cup {"absent"},
          eligible : BOOLEAN, admitted : BOOLEAN, late : BOOLEAN,
          poll : {"keep", "stop", "arm", "forward"}] :
     c.stage = "read" => c.heard # "absent"}

PollDoc == [worker : Workers, token : Nat \ {0}, stage : Stages, state : States,
            armed : BOOLEAN]

Tasks == {NoTask, "defer", "claim"} \cup HardParks
MatchStates == {"none", "upcoming", "live", "closing", "over", "abandoned"}

\* A match as the store may hold it: only a finished one has a terminal feed.
MatchDoc ==
  {m \in [status : MatchStates, terminal : BOOLEAN] : m.terminal => Finished(m)}

-----------------------------------------------------------------------------
(* The operators on the two documents keep them sound and never delete a   *)
(* target; only the outcome of a poll is counted.                          *)

LEMMA MatchSound ==
  /\ NoMatch \in MatchDoc
  /\ \A status \in MatchStates : Reached(status) \in MatchDoc
  /\ \A m \in MatchDoc : /\ MarkFeedUnavailable(m) \in MatchDoc
                         /\ MarkFeedUnavailable(m).status = m.status
  /\ \A m \in MatchDoc : ApplyProviderTerminalClosure(m) \in MatchDoc
  /\ [status |-> "abandoned", terminal |-> TRUE] \in MatchDoc
<1>1. \A status \in MatchStates : Reached(status) \in MatchDoc
  BY DEF MatchDoc, MatchStates, Reached, Finished
<1>2. \A m \in MatchDoc : /\ MarkFeedUnavailable(m) \in MatchDoc
                          /\ MarkFeedUnavailable(m).status = m.status
  BY DEF MatchDoc, MarkFeedUnavailable, Finished
<1>3. \A m \in MatchDoc : ApplyProviderTerminalClosure(m) \in MatchDoc
  BY <1>1 DEF ApplyProviderTerminalClosure, MatchStates
<1> QED BY <1>1, <1>2, <1>3 DEF MatchDoc, MatchStates, NoMatch, Finished

LEMMA NoTargetSound ==
  /\ Sound(NoTarget)
  /\ Sound([NoTarget EXCEPT !.exists = TRUE, !.eligible = TRUE, !.armed = TRUE])
  /\ [NoTarget EXCEPT !.exists = TRUE, !.eligible = TRUE, !.armed = TRUE].requests = 0
<1>1. Sound(NoTarget)
  BY PollingAssumption DEF Sound, NoTarget, TargetDoc, States, Parks
<1>2. \A t : Sound(t) /\ t.parked = "none" =>
         LET u == [t EXCEPT !.exists = TRUE, !.eligible = TRUE, !.armed = TRUE]
         IN  Sound(u) /\ u.requests = t.requests
  BY DEF Sound, TargetDoc
<1>3. NoTarget.parked = "none" /\ NoTarget.requests = 0
  BY DEF NoTarget
<1> QED BY <1>1, <1>2, <1>3

LEMMA UnleasedSound ==
  ASSUME NEW t, Sound(t)
  PROVE  /\ Sound(Unleased(t))
         /\ Unleased(t).exists = t.exists /\ Unleased(t).parked = t.parked
         /\ Unleased(t).requests = t.requests
BY DEF Sound, TargetDoc, Unleased

LEMMA ParkedSound ==
  ASSUME NEW t, Sound(t), t.exists, NEW r \in Parks
  PROVE  /\ Sound(Parked(t, r)) /\ Parked(t, r).exists /\ Parked(t, r).parked = r
         /\ Parked(t, r).requests = t.requests
BY DEF Sound, TargetDoc, Unleased, Parked

LEMMA OverrunReasonType ==
  ASSUME NEW t
  PROVE  OverrunReason(t) \in {"none"} \cup HardParks
BY DEF OverrunReason, HardParks

LEMMA ParkOverrunSound ==
  ASSUME NEW t, Sound(t)
  PROVE  /\ Sound(ParkOverrunLiveTargets(t))
         /\ t.exists => ParkOverrunLiveTargets(t).exists
         /\ ParkOverrunLiveTargets(t).requests = t.requests
         /\ t.parked # "none" => ParkOverrunLiveTargets(t).parked = t.parked
<1>1. CASE InPlay(t) /\ OverrunReason(t) # "none"
  <2>1. OverrunReason(t) \in Parks /\ t.exists
    BY <1>1, OverrunReasonType DEF Parks, InPlay
  <2>2. t.parked = "none"
    BY <1>1 DEF OverrunReason
  <2> QED BY <1>1, <2>1, <2>2, ParkedSound DEF ParkOverrunLiveTargets
<1>2. CASE ~(InPlay(t) /\ OverrunReason(t) # "none")
  BY <1>2 DEF ParkOverrunLiveTargets
<1> QED BY <1>1, <1>2

LEMMA ArmUnparkedSound ==
  ASSUME NEW t, Sound(t)
  PROVE  /\ Sound(armUnparkedTarget(t)) /\ armUnparkedTarget(t).exists
         /\ armUnparkedTarget(t).requests = t.requests
         /\ t.parked # "none" => armUnparkedTarget(t) = t
<1>1. CASE ~t.exists
  BY <1>1, NoTargetSound DEF armUnparkedTarget, Sound, NoTarget
<1>2. CASE t.exists
  BY <1>2 DEF armUnparkedTarget, Sound, TargetDoc
<1> QED BY <1>1, <1>2

LEMMA RescheduleSound ==
  ASSUME NEW t, Sound(t), NEW m
  PROVE  /\ Sound(RescheduleStaleTargets(t, m))
         /\ t.exists => RescheduleStaleTargets(t, m).exists
         /\ RescheduleStaleTargets(t, m).requests = t.requests
         /\ t.parked # "none" => RescheduleStaleTargets(t, m).parked = t.parked
<1> DEFINE a == IF MatchInPlay(m) THEN armUnparkedTarget(t) ELSE t
<1>1. /\ Sound(a)
      /\ t.exists => a.exists
      /\ a.requests = t.requests
      /\ t.parked # "none" => a.parked = t.parked
  BY ArmUnparkedSound
<1>2. RescheduleStaleTargets(t, m) =
        IF InPlay(a) /\ a.parked = "none" THEN [a EXCEPT !.armed = TRUE] ELSE a
  BY DEF RescheduleStaleTargets
<1>3. \A u : Sound(u) =>
        LET v == [u EXCEPT !.armed = TRUE]
        IN  Sound(v) /\ v.exists = u.exists /\ v.parked = u.parked
            /\ v.requests = u.requests
  BY DEF Sound, TargetDoc
<1> HIDE DEF a
<1> QED BY <1>1, <1>2, <1>3

LEMMA UpsertSound ==
  ASSUME NEW t, Sound(t), NEW c \in ScanDoc, c.stage = "read"
  PROVE  /\ Sound(UpsertFixtureTargets(t, c))
         /\ UpsertFixtureTargets(t, c).exists
         /\ UpsertFixtureTargets(t, c).requests = t.requests
         /\ UpsertFixtureTargets(t, c).parked \in {t.parked, "live_window_exceeded"}
<1> DEFINE base == [t EXCEPT !.exists = TRUE, !.eligible = c.eligible,
                        !.status = IF c.heard # "preview" \/ ~t.exists THEN c.heard ELSE @]
<1>1. Sound(base) /\ base.exists /\ base.parked = t.parked
      /\ base.requests = t.requests
  BY DEF Sound, TargetDoc, ScanDoc
<1>2. UpsertFixtureTargets(t, c) \in
        {[base EXCEPT !.armed = FALSE, !.parked = "live_window_exceeded"],
         [base EXCEPT !.armed = FALSE], [base EXCEPT !.armed = TRUE], base}
  BY DEF UpsertFixtureTargets
<1> HIDE DEF base
<1>3. /\ Sound([base EXCEPT !.armed = FALSE, !.parked = "live_window_exceeded"])
      /\ [base EXCEPT !.armed = FALSE, !.parked = "live_window_exceeded"].exists
      /\ [base EXCEPT !.armed = FALSE, !.parked = "live_window_exceeded"].parked
           = "live_window_exceeded"
      /\ [base EXCEPT !.armed = FALSE, !.parked = "live_window_exceeded"].requests
           = base.requests
  BY <1>1 DEF Sound, TargetDoc, Parks, HardParks
<1>4. \A armed \in BOOLEAN :
        /\ Sound([base EXCEPT !.armed = armed]) /\ [base EXCEPT !.armed = armed].exists
        /\ [base EXCEPT !.armed = armed].parked = base.parked
        /\ [base EXCEPT !.armed = armed].requests = base.requests
  BY <1>1 DEF Sound, TargetDoc
<1>6. CASE UpsertFixtureTargets(t, c) = base
  BY <1>6, <1>1
<1>7. CASE UpsertFixtureTargets(t, c) \in
             {[base EXCEPT !.armed = FALSE], [base EXCEPT !.armed = TRUE]}
  BY <1>7, <1>4, <1>1
<1>8. CASE UpsertFixtureTargets(t, c) =
             [base EXCEPT !.armed = FALSE, !.parked = "live_window_exceeded"]
  BY <1>8, <1>3, <1>1
<1> QED BY <1>2, <1>6, <1>7, <1>8

LEMMA MarkMissingSound ==
  ASSUME NEW t, Sound(t), NEW listed \in BOOLEAN, NEW long \in BOOLEAN
  PROVE  /\ Sound(MarkLiveTargetsMissing(t, listed, long))
         /\ t.exists => MarkLiveTargetsMissing(t, listed, long).exists
         /\ t.parked \in HardParks => MarkLiveTargetsMissing(t, listed, long).parked = t.parked
         /\ MarkLiveTargetsMissing(t, listed, long).requests = t.requests
<1> DEFINE next == MarkLiveTargetsMissing(t, listed, long)
<1>1. CASE ~InPlay(t)
  BY <1>1 DEF MarkLiveTargetsMissing
<1>2. CASE InPlay(t) /\ listed /\ t.parked = "absent_from_live_feed"
  <2>1. next = [t EXCEPT !.missing = FALSE, !.parked = "none", !.armed = TRUE]
    BY <1>2 DEF MarkLiveTargetsMissing
  <2> QED BY <1>2, <2>1 DEF Sound, TargetDoc, Parks, HardParks
<1>3. CASE InPlay(t) /\ listed /\ t.parked # "absent_from_live_feed"
  <2>1. next = [t EXCEPT !.missing = FALSE]
    BY <1>3 DEF MarkLiveTargetsMissing
  <2> QED BY <2>1 DEF Sound, TargetDoc
<1>4. CASE InPlay(t) /\ ~listed /\ ~t.missing
  <2>1. next = [t EXCEPT !.missing = TRUE]
    BY <1>4 DEF MarkLiveTargetsMissing
  <2> QED BY <2>1 DEF Sound, TargetDoc
<1>5. CASE InPlay(t) /\ ~listed /\ t.missing /\ long /\ t.parked = "none"
  <2> DEFINE u == Unleased(t)
  <2>1. next = [u EXCEPT !.parked = "absent_from_live_feed"]
    BY <1>5 DEF MarkLiveTargetsMissing
  <2>2. Sound(u) /\ u.exists /\ u.requests = t.requests
    BY <1>5, UnleasedSound DEF InPlay
  <2> HIDE DEF u, next
  <2>3. Sound(next) /\ next.exists /\ next.requests = t.requests
    BY <2>1, <2>2 DEF Sound, TargetDoc, Parks
  <2> USE DEF next
  <2> QED BY <1>5, <2>3 DEF HardParks
<1>6. CASE InPlay(t) /\ ~listed /\ t.missing /\ ~(long /\ t.parked = "none")
  BY <1>6 DEF MarkLiveTargetsMissing
<1> QED BY <1>1, <1>2, <1>3, <1>4, <1>5, <1>6

LEMMA FeedChangeSound ==
  ASSUME NEW t, Sound(t)
  PROVE  /\ Sound(Retire(t)) /\ Sound(Release(t))
         /\ t.exists => Retire(t).exists /\ Release(t).exists
         /\ Retire(t).requests = t.requests /\ Release(t).requests = t.requests
         /\ t.parked \in HardParks => Retire(t) = t /\ Release(t) = t
<1>1. CASE t.exists /\ t.parked = "none"
  <2>1. Sound(Parked(t, "feed_changed")) /\ Parked(t, "feed_changed").exists
        /\ Parked(t, "feed_changed").requests = t.requests
    BY <1>1, ParkedSound DEF Parks
  <2> QED BY <1>1, <2>1 DEF Retire, Release, Sound, TargetDoc, HardParks
<1>2. CASE ~(t.exists /\ t.parked = "none")
  <2>1. Retire(t) = t
    BY <1>2 DEF Retire
  <2>2. CASE t.parked = "feed_changed"
    <3>1. Release(t) = [t EXCEPT !.parked = "none", !.armed = TRUE]
      BY <2>2 DEF Release
    <3>2. Sound(Release(t)) /\ (t.exists => Release(t).exists)
          /\ Release(t).requests = t.requests
      BY <3>1 DEF Sound, TargetDoc, Parks
    <3> QED BY <2>1, <2>2, <3>2 DEF HardParks
  <2>3. CASE t.parked # "feed_changed"
    BY <2>1, <2>3 DEF Release
  <2> QED BY <2>2, <2>3
<1> QED BY <1>1, <1>2

LEMMA OutcomeSound ==
  ASSUME NEW t, Sound(t), t.exists, NEW p \in PollDoc, NEW cause
  PROVE  /\ Sound(FailTargetPoll(t, cause)) /\ Sound(CompleteTargetPoll(t, p))
         /\ FailTargetPoll(t, cause).exists /\ CompleteTargetPoll(t, p).exists
         /\ FailTargetPoll(t, cause).parked = t.parked
         /\ CompleteTargetPoll(t, p).parked = t.parked
         /\ FailTargetPoll(t, cause).requests =
              IF t.requests < MaxRequests THEN t.requests + Counted(cause) ELSE t.requests
         /\ CompleteTargetPoll(t, p).requests =
              IF t.requests < MaxRequests THEN t.requests + 1 ELSE t.requests
<1>1. \A n \in {0, 1} : /\ Sound(Charged(Unleased(t), n))
                        /\ Charged(Unleased(t), n).exists
                        /\ Charged(Unleased(t), n).parked = t.parked
                        /\ Charged(Unleased(t), n).requests =
                             IF t.requests < MaxRequests THEN t.requests + n ELSE t.requests
  BY UnleasedSound, PollingAssumption DEF Charged, Sound, TargetDoc
<1>2. Counted(cause) \in {0, 1}
  BY DEF Counted
<1>3. \A u : Sound(u) =>
        LET v == [u EXCEPT !.armed = TRUE]
        IN  Sound(v) /\ v.exists = u.exists /\ v.parked = u.parked /\ v.requests = u.requests
  BY DEF Sound, TargetDoc
<1>4. \A u : Sound(u) =>
        LET x == [u EXCEPT !.status = p.state, !.armed = p.armed, !.opened = TRUE]
        IN  Sound(x) /\ x.exists = u.exists /\ x.parked = u.parked /\ x.requests = u.requests
  BY DEF Sound, TargetDoc, PollDoc
<1> QED BY <1>1, <1>2, <1>3, <1>4 DEF FailTargetPoll, CompleteTargetPoll

-----------------------------------------------------------------------------
(* The invariant: shapes, and who works for whom.                          *)

Shape ==
  /\ feed \in [state : States, start : 0 .. 2]
  /\ Sound(target) /\ match \in MatchDoc
  /\ up \subseteq Workers
  /\ dispatch \in [Workers -> Tasks]
  /\ scan \in [Scanners -> ScanDoc]
  /\ polls \subseteq PollDoc /\ IsFiniteSet(polls)
  /\ sent \in Int /\ upsets \in Nat

\* A dispatcher with a task runs, and read it from an existing target.
Assigned == \A w \in Workers : dispatch[w] # NoTask => w \in up /\ target.exists

\* Polls run in running workers, and a token names one of them.
OwnPolls ==
  /\ \A p \in polls : p.worker \in up
  /\ \A p, q \in polls : p.token = q.token => p = q

Inv == Shape /\ Assigned /\ OwnPolls

LEMMA InvTypeOK == Inv => TypeOK
BY DEF Inv, Shape, OwnPolls, TypeOK, Sound, TargetDoc, PollDoc, MatchDoc, MatchStates

LEMMA InitInv == Init => Inv
<1> SUFFICES ASSUME Init PROVE Inv
  OBVIOUS
<1>1. Shape
  BY NoTargetSound, MatchSound, FS_EmptySet
  DEF Init, Shape, States, Tasks, NoTask, NoScan, ScanDoc
<1> QED BY <1>1 DEF Init, Inv, Assigned, OwnPolls

\* A step that leaves workers, dispatchers and polls alone.
LEMMA DocumentStep ==
  ASSUME Inv, Sound(target'), target.exists => target'.exists,
         match' \in MatchDoc, feed' \in [state : States, start : 0 .. 2],
         scan' \in [Scanners -> ScanDoc], upsets' \in Nat,
         sent' \in Int, UNCHANGED <<up, dispatch, polls>>
  PROVE  Inv'
BY DEF Inv, Shape, Assigned, OwnPolls

\* A dispatcher takes a task or has served it.
LEMMA ServedStep ==
  ASSUME Inv, NEW w \in Workers, NEW task \in Tasks,
         dispatch' = [dispatch EXCEPT ![w] = task],
         task # NoTask => w \in up /\ target'.exists,
         Sound(target'), target.exists => target'.exists, match' \in MatchDoc,
         UNCHANGED <<feed, up, scan, upsets, polls, sent>>
  PROVE  Inv'
<1>1. Shape'
  BY DEF Inv, Shape
<1>2. Assigned'
  BY DEF Inv, Shape, Assigned
<1> QED BY <1>1, <1>2 DEF Inv, OwnPolls

\* A poll goes on, or ends.
LEMMA PollStep ==
  ASSUME Inv, NEW p \in polls,
         \/ Ends(p)
         \/ \E q \in PollDoc : q.token = p.token /\ q.worker = p.worker /\ Becomes(p, q),
         Sound(target'), target.exists => target'.exists,
         match' \in MatchDoc, upsets' \in Nat, sent' \in Int,
         UNCHANGED StepVars
  PROVE  Inv'
<1>1. CASE Ends(p)
  <2>1. IsFiniteSet(polls')
    BY <1>1, FS_RemoveElement DEF Inv, Shape, Ends
  <2> QED BY <1>1, <2>1 DEF Inv, Shape, Assigned, OwnPolls, Ends, StepVars
<1>2. ASSUME NEW q \in PollDoc, q.token = p.token, q.worker = p.worker, Becomes(p, q)
      PROVE  Inv'
  <2>1. IsFiniteSet(polls')
    BY <1>2, FS_RemoveElement, FS_AddElement DEF Inv, Shape, Becomes
  <2>2. Shape' /\ Assigned'
    BY <1>2, <2>1 DEF Inv, Shape, Assigned, Becomes, StepVars
  <2>3. OwnPolls'
    BY <1>2 DEF Inv, OwnPolls, Becomes, StepVars
  <2> QED BY <2>2, <2>3 DEF Inv
<1> QED BY <1>1, <1>2

\* There is a token left for the next poll.
LEMMA TokenExists ==
  ASSUME Inv
  PROVE  \E n \in 1 .. (Cardinality(polls) + 1) : n \notin Tokens
<1> DEFINE free == 1 .. (Cardinality(polls) + 1)
<1>1. IsFiniteSet(polls) /\ Cardinality(polls) \in Nat
  BY FS_CardinalityType DEF Inv, Shape
<1>2. IsFiniteSet(Tokens) /\ Cardinality(Tokens) <= Cardinality(polls)
  <2> DEFINE f == [p \in polls |-> p.token]
  <2>1. f \in Surjection(polls, Tokens)
    BY DEF Surjection, Tokens
  <2> HIDE DEF f
  <2> QED BY <2>1, <1>1, FS_Surjection
<1>3. Cardinality(Tokens) \in Nat
  BY <1>2, FS_CardinalityType
<1>4. Cardinality(free) = Cardinality(polls) + 1
  <2>1. 1 \in Int /\ Cardinality(polls) + 1 \in Int /\ ~(1 > Cardinality(polls) + 1)
    BY <1>1
  <2>2. Cardinality(free) = (Cardinality(polls) + 1) - 1 + 1
    BY <2>1, FS_Interval
  <2> QED BY <2>2, <1>1
<1>5. ~(free \subseteq Tokens)
  <2> SUFFICES ASSUME free \in SUBSET Tokens PROVE FALSE
    OBVIOUS
  <2> HIDE DEF free
  <2>1. Cardinality(free) <= Cardinality(Tokens)
    BY <1>2, FS_Subset
  <2> QED BY <2>1, <1>1, <1>2, <1>3, <1>4
<1> QED BY <1>5

-----------------------------------------------------------------------------
(* Every step keeps the invariant.                                         *)

LEMMA DecidedType ==
  ASSUME Inv, NEW s \in States
  PROVE  Decided(s) \in ScanDoc
<1>1. Admitted(s) \in BOOLEAN /\ fixtureTargetNextPoll(target, s) \in {"keep", "stop", "arm", "forward"}
  BY PollingAssumption DEF Admitted, fixtureTargetNextPoll
<1>2. \A a \in BOOLEAN, n \in {"keep", "stop", "arm", "forward"}, e, l \in BOOLEAN :
        [stage |-> "read", heard |-> s, admitted |-> a, eligible |-> e, late |-> l,
         poll |-> n] \in ScanDoc
  BY DEF ScanDoc, States
<1>3. (s = "live" /\ LiveWindowExceeded /\ target.parked = "none") \in BOOLEAN
      /\ (Admitted(s) \/ match.status # "none") \in BOOLEAN
  OBVIOUS
<1> QED BY <1>1, <1>2, <1>3 DEF Decided

LEMMA ScanStep ==
  ASSUME Inv, NEW w \in Scanners, Scan(w)
  PROVE  Inv'
<1> USE DEF ScanVars
<1>1. /\ \A s \in States \cup {"absent"} : Written(s) \in ScanDoc
      /\ NoScan \in ScanDoc
      /\ match \in MatchDoc /\ Sound(target) /\ scan[w] \in ScanDoc
      /\ upsets \in Nat /\ sent \in Int /\ feed \in [state : States, start : 0 .. 2]
      /\ scan \in [Scanners -> ScanDoc]
  BY DEF Written, NoScan, ScanDoc, States, Inv, Shape
<1>2. ASSUME NEW s \in States \cup {"absent"}, NEW closes \in BOOLEAN,
             ScanReads(w, s, closes)
      PROVE  Inv'
  <2>1. match' \in MatchDoc /\ scan' \in [Scanners -> ScanDoc]
    BY <1>1, <1>2, MatchSound, DecidedType DEF ScanReads
  <2> QED BY <2>1, <1>1, <1>2, DocumentStep DEF ScanReads
<1>3. CASE ScanWrites(w)
  <2>1. Sound(target') /\ target'.exists
    BY <1>1, <1>3, UpsertSound DEF ScanWrites
  <2>2. match' \in MatchDoc
    BY <1>1, <1>3, MatchSound DEF ScanWrites, PublishFixtureMatches, MatchStates
  <2>3. scan' \in [Scanners -> ScanDoc]
    <3>1. scan[w].heard \in States \cup {"absent"}
      BY <1>1 DEF ScanDoc
    <3> QED BY <3>1, <1>1, <1>3 DEF ScanWrites
  <2> QED BY <2>1, <2>2, <2>3, <1>1, <1>3, DocumentStep DEF ScanWrites
<1>4. ASSUME NEW long \in BOOLEAN, ScanJudges(w, long) PROVE Inv'
  <2>1. Sound(target') /\ (target.exists => target'.exists)
    BY <1>1, <1>4, MarkMissingSound, ParkOverrunSound DEF ScanJudges
  <2> QED BY <2>1, <1>1, <1>4, DocumentStep DEF ScanJudges
<1> QED BY <1>2, <1>3, <1>4 DEF Scan

LEMMA DispatchStep ==
  ASSUME Inv, NEW w \in Workers, NEW crowded \in BOOLEAN, Dispatch(w, crowded)
  PROVE  Inv'
<1>1. TaskFor(target, crowded) \in Tasks
  BY OverrunReasonType DEF TaskFor, Tasks
<1>2. Sound(target) /\ match \in MatchDoc
  BY DEF Inv, Shape
<1> QED BY <1>1, <1>2, ServedStep DEF Dispatch, PollVars

LEMMA ServeStep ==
  ASSUME Inv, NEW w \in Workers, Serve(w)
  PROVE  Inv'
<1> USE DEF PollVars, Served
<1>1. /\ Sound(target) /\ dispatch[w] \in Tasks /\ NoTask \in Tasks
      /\ match \in MatchDoc /\ MarkFeedUnavailable(match) \in MatchDoc
      /\ dispatch[w] # NoTask => w \in up /\ target.exists
  BY MatchSound DEF Inv, Shape, Assigned, Tasks
<1>2. CASE ParkTarget(w)
  <2>1. dispatch[w] \in Parks /\ target.exists
    BY <1>1, <1>2 DEF ParkTarget, Parks, HardParks, NoTask
  <2>2. Sound(target') /\ target'.exists
    BY <1>1, <1>2, <2>1, ParkedSound DEF ParkTarget
  <2> QED BY <1>1, <1>2, <2>2, ServedStep DEF ParkTarget
<1>3. CASE DeferTarget(w)
  <2>1. Sound(target') /\ target'.exists = target.exists
    BY <1>1, <1>3 DEF DeferTarget, Sound, TargetDoc
  <2> QED BY <1>1, <1>3, <2>1, ServedStep DEF DeferTarget
<1>4. CASE ClaimTarget(w) /\ UNCHANGED <<target, polls>>
  BY <1>1, <1>4, ServedStep DEF ClaimTarget
<1>5. CASE ClaimTarget(w) /\ ~UNCHANGED <<target, polls>>
  <2> DEFINE token == CHOOSE n \in 1 .. (Cardinality(polls) + 1) : n \notin Tokens
             p == [worker |-> w, token |-> token, stage |-> "ask", state |-> "preview",
                   armed |-> TRUE]
  <2>1. token \in Nat \ {0} /\ token \notin Tokens
    BY TokenExists
  <2>2. /\ target' = [target EXCEPT !.owner = w, !.token = token, !.live = TRUE]
        /\ polls' = polls \cup {p}
    BY <1>5 DEF ClaimTarget
  <2> HIDE DEF token
  <2>3. p \in PollDoc
    BY <2>1 DEF PollDoc, Stages, States
  <2>4. Sound(target') /\ target'.exists = target.exists
    <3>1. target.exists
      BY <1>1, <1>5 DEF ClaimTarget, NoTask
    <3> QED BY <1>1, <2>1, <2>2, <3>1, PollingAssumption DEF Sound, TargetDoc
  <2>5. IsFiniteSet(polls')
    BY <2>2, FS_AddElement DEF Inv, Shape
  <2>6. w \in up
    BY <1>1, <1>5 DEF ClaimTarget, NoTask
  <2> HIDE DEF p
  <2>7. Shape'
    BY <1>1, <1>5, <2>2, <2>3, <2>4, <2>5 DEF Inv, Shape, ClaimTarget
  <2>8. Assigned'
    BY <1>1, <1>5, <2>4 DEF Inv, Shape, Assigned, ClaimTarget
  <2>9. OwnPolls'
    <3>1. \A q \in polls : q.token # token
      BY <2>1 DEF Tokens
    <3>2. p.token = token /\ p.worker = w
      BY DEF p
    <3>3. up' = up
      BY <1>5 DEF ClaimTarget
    <3> QED BY <2>2, <2>6, <3>1, <3>2, <3>3 DEF Inv, OwnPolls
  <2> QED BY <2>7, <2>8, <2>9 DEF Inv
<1> QED BY <1>2, <1>3, <1>4, <1>5 DEF Serve

\* A lease is on a target that was written.
LEMMA FencedExists ==
  ASSUME Inv, NEW p \in polls, Fenced(p)
  PROVE  target.exists
BY PollingAssumption DEF Inv, Shape, Sound, PollDoc, Fenced

LEMMA PollsStep ==
  ASSUME Inv, NEW p \in polls, Poll(p)
  PROVE  Inv'
<1> USE DEF StepVars
<1>1. /\ Sound(target) /\ p \in PollDoc /\ match \in MatchDoc
      /\ MarkFeedUnavailable(match) \in MatchDoc
      /\ sent \in Int /\ upsets \in Nat /\ feed.state \in States
  BY MatchSound DEF Inv, Shape
<1>2. Fenced(p) => /\ \A cause : /\ Sound(FailTargetPoll(target, cause))
                                 /\ FailTargetPoll(target, cause).exists
                   /\ Sound(CompleteTargetPoll(target, p))
                   /\ CompleteTargetPoll(target, p).exists
  BY <1>1, FencedExists, OutcomeSound
<1>3. \A stage \in Stages, state \in States :
        LET q == [p EXCEPT !.stage = stage, !.state = state]
        IN  q \in PollDoc /\ q.token = p.token /\ q.worker = p.worker
  BY <1>1 DEF PollDoc
<1>4. \A armed \in BOOLEAN :
        LET q == [p EXCEPT !.stage = "applied", !.armed = armed]
        IN  q \in PollDoc /\ q.token = p.token /\ q.worker = p.worker
  BY <1>1 DEF PollDoc, Stages
<1>5. {"got", "failed"} \subseteq Stages /\ "preview" \in States
  BY DEF Stages, States
<1>6. \A n \in Int : Tally(n) \in Int
  BY <1>1 DEF Tally
<1>7. CASE PollFetches(p)
  <2> DEFINE q == [p EXCEPT !.stage = "got", !.state = feed.state]
  <2>1. q \in PollDoc /\ q.token = p.token /\ q.worker = p.worker
    BY <1>1, <1>3, <1>5
  <2>2. Becomes(p, q) /\ sent' \in Int
    BY <1>1, <1>6, <1>7 DEF PollFetches
  <2> HIDE DEF q
  <2> QED BY <2>1, <2>2, <1>1, <1>7, PollStep DEF PollFetches
<1>8. CASE PollRefused(p)
  <2>1. Sound(target') /\ (target.exists => target'.exists) /\ match' \in MatchDoc
    BY <1>1, <1>2, <1>8 DEF PollRefused, Holds
  <2> QED BY <2>1, <1>1, <1>8, PollStep DEF PollRefused
<1>9. CASE PollFails(p)
  <2>1. upsets' \in Nat
    BY <1>1, <1>9 DEF PollFails, Upset
  <2> QED BY <2>1, <1>1, <1>3, <1>5, <1>9, PollStep DEF PollFails
<1>10. ASSUME NEW final \in BOOLEAN, ApplyProjection(p, final) PROVE Inv'
  <2>1. match' \in MatchDoc
    BY <1>10, MatchSound DEF ApplyProjection, Projected, MatchStates
  <2>2. ReadAgain(p, final) \in BOOLEAN
    BY DEF ReadAgain
  <2> QED BY <2>1, <2>2, <1>1, <1>4, <1>10, PollStep DEF ApplyProjection
<1>11. CASE ApplyRejected(p)
  BY <1>1, <1>3, <1>5, <1>11, PollStep DEF ApplyRejected
<1>12. CASE LeaseLost(p)
  BY <1>1, <1>6, <1>12, PollStep DEF LeaseLost, CutOff
<1>13. CASE PollRecords(p)
  <2>1. Sound(target') /\ (target.exists => target'.exists) /\ Ends(p) /\ sent' \in Int
    BY <1>1, <1>2, <1>6, <1>13 DEF PollRecords, CutOff
  <2> QED BY <2>1, <1>1, <1>13, PollStep DEF PollRecords
<1>14. CASE handlePollFailure(p)
  <2>1. /\ Sound(target') /\ (target.exists => target'.exists) /\ match' \in MatchDoc
        /\ Ends(p) /\ sent' \in Int
    BY <1>1, <1>2, <1>6, <1>14 DEF handlePollFailure, CutOff, Holds
  <2> QED BY <2>1, <1>1, <1>14, PollStep DEF handlePollFailure
<1>15. CASE Unrecorded(p)
  <2>1. upsets' \in Nat /\ Ends(p) /\ sent' \in Int
    BY <1>1, <1>6, <1>15 DEF Unrecorded, Upset, CutOff
  <2> QED BY <2>1, <1>1, <1>15, PollStep DEF Unrecorded
<1>16. CASE PollCloses(p)
  <2>1. match' \in MatchDoc /\ upsets' \in Nat
    BY <1>1, <1>16, MatchSound DEF PollCloses, Upset
  <2> QED BY <2>1, <1>1, <1>4, <1>16, PollStep DEF PollCloses
<1> QED BY <1>7, <1>8, <1>9, <1>10, <1>11, <1>12, <1>13, <1>14, <1>15,
           <1>16 DEF Poll

LEMMA TimeStep ==
  ASSUME Inv, LeaseExpires \/ Ages \/ FeedMoves \/ \E p \in polls : RenewTargetLease(p)
  PROVE  Inv'
<1> USE DEF workerVars, StepVars
<1>1. /\ Sound(target) /\ match \in MatchDoc /\ upsets \in Nat /\ sent \in Int
      /\ feed \in [state : States, start : 0 .. 2] /\ scan \in [Scanners -> ScanDoc]
  BY DEF Inv, Shape
<1>2. CASE LeaseExpires
  <2>1. Sound(target') /\ target'.exists = target.exists
    BY <1>1, <1>2 DEF LeaseExpires, Sound, TargetDoc
  <2>2. upsets' \in Nat
    BY <1>1, <1>2 DEF LeaseExpires, Upset
  <2> QED BY <2>1, <2>2, <1>1, <1>2, DocumentStep DEF LeaseExpires
<1>3. CASE Ages
  <2>1. feed' \in [state : States, start : 0 .. 2]
    BY <1>1, <1>3 DEF Ages
  <2> QED BY <2>1, <1>1, <1>3, DocumentStep DEF Ages
<1>4. CASE FeedMoves
  <2>1. feed' \in [state : States, start : 0 .. 2]
    BY <1>1, <1>4 DEF FeedMoves, States
  <2> QED BY <2>1, <1>1, <1>4, DocumentStep DEF FeedMoves
<1>5. ASSUME NEW p \in polls, RenewTargetLease(p) PROVE Inv'
  <2>1. target.owner # NoOne
    BY PollingAssumption, <1>5 DEF RenewTargetLease, Fenced, Inv, Shape, PollDoc
  <2>2. Sound(target') /\ target'.exists = target.exists
    BY <1>1, <1>5, <2>1 DEF RenewTargetLease, Sound, TargetDoc
  <2> QED BY <2>2, <1>1, <1>5, DocumentStep DEF RenewTargetLease
<1> QED BY <1>2, <1>3, <1>4, <1>5

LEMMA WorkerStep ==
  ASSUME Inv, NEW w \in Workers, Crash(w) \/ Boot(w)
  PROVE  Inv'
<1>1. CASE Crash(w)
  <2>1. IsFiniteSet(polls') /\ IsFiniteSet(Asked \cap PollsOf(w))
    <3>1. polls' \in SUBSET polls /\ Asked \cap PollsOf(w) \in SUBSET polls
      BY <1>1 DEF Crash, PollsOf
    <3>2. IsFiniteSet(polls)
      BY DEF Inv, Shape
    <3> QED BY <3>1, <3>2, FS_Subset
  <2>2. sent' \in Int
    BY <2>1, <1>1, FS_CardinalityType DEF Crash, Tally, Inv, Shape
  <2>3. scan' \in [Scanners -> ScanDoc]
    BY <1>1 DEF Crash, Inv, Shape, NoScan, ScanDoc, States
  <2>4. Shape'
    BY <1>1, <2>1, <2>2, <2>3 DEF Crash, Inv, Shape, Upset, Served, Tasks
  <2>5. Assigned' /\ OwnPolls'
    BY <1>1 DEF Crash, Inv, Shape, Assigned, OwnPolls, Served, PollsOf
  <2> QED BY <2>4, <2>5 DEF Inv
<1>2. CASE Boot(w)
  <2>1. Sound(target') /\ (target.exists => target'.exists)
    BY <1>2, RescheduleSound, ParkOverrunSound DEF Boot, Inv, Shape
  <2> QED BY <1>2, <2>1 DEF Boot, EnvVars, Inv, Shape, Assigned, OwnPolls
<1> QED BY <1>1, <1>2

LEMMA AskedFinite ==
  ASSUME Inv
  PROVE  IsFiniteSet(Asked) /\ Cardinality(Asked) \in Nat
<1>1. Asked \in SUBSET polls /\ IsFiniteSet(polls)
  BY DEF Asked, Inv, Shape
<1> QED BY <1>1, FS_Subset, FS_CardinalityType

LEMMA OperatorStep ==
  ASSUME Inv, RequestFixtureResync \/ ChangeFeed \/ abandonDeadMatch
  PROVE  Inv'
<1> USE DEF workerVars
<1>1. /\ Sound(target) /\ match \in MatchDoc /\ upsets \in Nat /\ sent \in Int
      /\ feed \in [state : States, start : 0 .. 2] /\ scan \in [Scanners -> ScanDoc]
  BY DEF Inv, Shape
<1>2. CASE RequestFixtureResync
  <2> DEFINE t == Unleased(target)
  <2>1. Sound(t) /\ 0 \in 0 .. MaxRequests
    BY <1>1, UnleasedSound, PollingAssumption
  <2>4. target' = [t EXCEPT !.exists = TRUE, !.eligible = TRUE, !.armed = TRUE,
                   !.requests = 0, !.parked = "none", !.missing = FALSE]
    BY <1>2 DEF RequestFixtureResync
  <2> HIDE DEF t
  <2>2. Sound(target') /\ target'.exists
    BY <2>1, <2>4 DEF Sound, TargetDoc, Parks
  <2>3. upsets' \in Nat /\ sent' \in Int
    <3>1. Cardinality(Asked) \in Nat
      BY AskedFinite
    <3> QED BY <3>1, <1>1, <1>2, PollingAssumption DEF RequestFixtureResync, Upset
  <2> QED BY <2>2, <2>3, <1>1, <1>2, DocumentStep DEF RequestFixtureResync
<1>3. CASE ChangeFeed
  <2>1. Sound(target') /\ (target.exists => target'.exists)
    BY <1>1, <1>3, FeedChangeSound DEF ChangeFeed
  <2>2. upsets' \in Nat
    BY <1>1, <1>3 DEF ChangeFeed, Upset
  <2> QED BY <2>1, <2>2, <1>1, <1>3, DocumentStep DEF ChangeFeed
<1>4. CASE abandonDeadMatch
  <2>1. Sound(target') /\ (target.exists => target'.exists)
    BY <1>1, <1>4, ParkedSound DEF abandonDeadMatch, Parks, HardParks
  <2>2. match' \in MatchDoc
    BY <1>4, MatchSound DEF abandonDeadMatch
  <2> QED BY <2>1, <2>2, <1>1, <1>4, DocumentStep DEF abandonDeadMatch
<1> QED BY <1>2, <1>3, <1>4

LEMMA NextInv == Inv /\ [Next]_vars => Inv'
<1>1. ASSUME Inv, Next PROVE Inv'
  BY <1>1, ScanStep, DispatchStep, ServeStep, PollsStep, TimeStep, WorkerStep, OperatorStep
  DEF Next
<1>2. ASSUME Inv, UNCHANGED vars PROVE Inv'
  BY <1>2 DEF vars, workerVars, Inv, Shape, Assigned, OwnPolls
<1> QED BY <1>1, <1>2

LEMMA InvHolds == Spec => []Inv
BY InitInv, NextInv, PTL DEF Spec

\* The documents of a fixture keep their shape; a lease has an owner and a
\* token or neither, and running polls hold different tokens: two claims of
\* one target never get the same one.
THEOREM TypeCorrect == Spec => []TypeOK
BY InvHolds, InvTypeOK, PTL

-----------------------------------------------------------------------------
(* The requests of the fixture.                                            *)

\* Whether a poll is past its request.
Sent(p) == IF p.stage = "ask" THEN 0 ELSE 1

LEMMA EndsCount ==
  ASSUME Inv, NEW p \in polls, Ends(p)
  PROVE  Cardinality(Asked') = Cardinality(Asked) - Sent(p)
<1>1. IsFiniteSet(Asked) /\ Cardinality(Asked) \in Nat
  BY AskedFinite
<1>2. Asked' = Asked \ {p}
  BY DEF Asked, Ends
<1>3. p \in Asked <=> p.stage # "ask"
  BY DEF Asked
<1>4. Cardinality(Asked \ {p}) =
        IF p \in Asked THEN Cardinality(Asked) - 1 ELSE Cardinality(Asked)
  BY <1>1, FS_RemoveElement
<1> QED BY <1>1, <1>2, <1>3, <1>4 DEF Sent

LEMMA BecomesCount ==
  ASSUME Inv, NEW p \in polls, NEW q, q.token = p.token, Becomes(p, q)
  PROVE  Cardinality(Asked') = Cardinality(Asked) - Sent(p) + Sent(q)
<1> DEFINE rest == Asked \ {p}
<1>1. IsFiniteSet(Asked) /\ Cardinality(Asked) \in Nat
  BY AskedFinite
<1>2. /\ IsFiniteSet(rest) /\ Cardinality(rest) \in Int
      /\ Cardinality(rest) = Cardinality(Asked) - Sent(p)
  <2>1. /\ IsFiniteSet(rest)
        /\ Cardinality(rest) = IF p \in Asked THEN Cardinality(Asked) - 1
                               ELSE Cardinality(Asked)
    BY <1>1, FS_RemoveElement
  <2>2. p \in Asked <=> p.stage # "ask"
    BY DEF Asked
  <2> HIDE DEF rest
  <2> QED BY <1>1, <2>1, <2>2 DEF Sent
<1>3. q \notin rest
  BY DEF Inv, OwnPolls, Asked
<1>4. Asked' = IF q.stage = "ask" THEN rest ELSE rest \cup {q}
  BY DEF Asked, Becomes
<1> HIDE DEF rest
<1>5. Cardinality(rest \cup {q}) = Cardinality(rest) + 1
  BY <1>2, <1>3, FS_AddElement
<1> QED BY <1>1, <1>2, <1>4, <1>5 DEF Sent

\* Neither a request nor its count: both sides stay.
LEMMA CountKept ==
  ASSUME Inv, RequestsCounted, target'.requests = target.requests,
         sent' < Many => sent < Many /\ sent' - Cardinality(Asked') = sent - Cardinality(Asked)
  PROVE  RequestsCounted'
BY DEF RequestsCounted

\* A request is counted when its poll is over.
LEMMA CountGrows ==
  ASSUME Inv, RequestsCounted, sent' = sent,
         Cardinality(Asked') = Cardinality(Asked) - 1,
         target'.requests = IF target.requests < MaxRequests THEN target.requests + 1
                            ELSE target.requests
  PROVE  RequestsCounted'
<1> DEFINE n == sent - Cardinality(Asked)
<1>1. n \in Int /\ MaxRequests \in Nat \ {0} /\ target.requests \in 0 .. MaxRequests
  BY AskedFinite, PollingAssumption DEF Inv, Shape, Sound, TargetDoc
<1>2. sent' - Cardinality(Asked') = n + 1
  BY AskedFinite DEF Inv, Shape
<1>3. sent < Many => target.requests = IF n < MaxRequests THEN n ELSE MaxRequests
  BY DEF RequestsCounted
<1>4. RequestsCounted' <=>
        (sent' < Many => target'.requests = IF n + 1 < MaxRequests THEN n + 1 ELSE MaxRequests)
  BY <1>2 DEF RequestsCounted
<1> HIDE DEF n
<1> QED BY <1>1, <1>3, <1>4

LEMMA PollCounts ==
  ASSUME Inv, RequestsCounted, NEW p \in polls, Poll(p)
  PROVE  RequestsCounted'
<1>1. /\ sent \in Int /\ Many \in Nat /\ p \in PollDoc
      /\ Sound(target) /\ Cardinality(Asked) \in Nat /\ target.requests \in 0 .. MaxRequests
  BY AskedFinite, PollingAssumption DEF Inv, Shape, Sound, TargetDoc
<1>2. Fenced(p) =>
        /\ CompleteTargetPoll(target, p).requests =
             IF target.requests < MaxRequests THEN target.requests + 1 ELSE target.requests
        /\ FailTargetPoll(target, "poll").requests =
             IF target.requests < MaxRequests THEN target.requests + 1 ELSE target.requests
        /\ FailTargetPoll(target, "quota").requests = target.requests
  BY <1>1, FencedExists, OutcomeSound DEF Counted
<1>3. ASSUME CutOff(p), p.stage # "ask", target' = target PROVE RequestsCounted'
  <2>1. Cardinality(Asked') = Cardinality(Asked) - 1
    BY <1>1, <1>3, EndsCount DEF CutOff, Sent
  <2> QED BY <1>1, <1>3, <2>1, CountKept DEF CutOff, Tally
<1>4. ASSUME NEW q, q.token = p.token, Becomes(p, q), target' = target,
             sent' = Tally(sent - Sent(p) + Sent(q))
      PROVE  RequestsCounted'
  <2>1. Cardinality(Asked') = Cardinality(Asked) - Sent(p) + Sent(q)
    BY <1>4, BecomesCount
  <2>2. Sent(p) \in Int /\ Sent(q) \in Int
    BY DEF Sent
  <2> QED BY <1>1, <1>4, <2>1, <2>2, CountKept DEF Tally
<1>5. ASSUME Ends(p), p.stage # "ask", sent' = sent,
             target'.requests = IF target.requests < MaxRequests THEN target.requests + 1
                                ELSE target.requests
      PROVE  RequestsCounted'
  <2>1. Cardinality(Asked') = Cardinality(Asked) - 1
    BY <1>1, <1>5, EndsCount DEF Sent
  <2> QED BY <1>5, <2>1, CountGrows
<1>6. \A stage, state, armed :
        /\ [p EXCEPT !.stage = stage, !.state = state].token = p.token
        /\ [p EXCEPT !.stage = stage, !.state = state].stage = stage
        /\ [p EXCEPT !.stage = stage, !.armed = armed].token = p.token
        /\ [p EXCEPT !.stage = stage, !.armed = armed].stage = stage
  BY <1>1 DEF PollDoc
<1>7. CASE PollFetches(p)
  <2> DEFINE q == [p EXCEPT !.stage = "got", !.state = feed.state]
  <2>1. q.token = p.token /\ q.stage = "got"
    BY <1>6
  <2>2. Becomes(p, q) /\ sent' = Tally(sent + 1) /\ p.stage = "ask" /\ target' = target
    BY <1>7 DEF PollFetches
  <2> HIDE DEF q
  <2>3. Sent(p) = 0 /\ Sent(q) = 1 /\ sent - 0 + 1 = sent + 1
    BY <1>1, <2>1, <2>2 DEF Sent
  <2> QED BY <1>4, <2>1, <2>2, <2>3
<1>8. CASE PollRefused(p)
  <2>1. Ends(p) /\ sent' = sent /\ p.stage = "ask" /\ target'.requests = target.requests
    BY <1>2, <1>8 DEF PollRefused, Holds
  <2>2. Cardinality(Asked') = Cardinality(Asked)
    BY <1>1, <2>1, EndsCount DEF Sent
  <2> QED BY <2>1, <2>2, CountKept
<1>9. ASSUME NEW q, q.token = p.token, q.stage # "ask", Becomes(p, q), p.stage = "got",
             target' = target, sent' = sent
      PROVE  RequestsCounted'
  <2>1. Sent(p) = 1 /\ Sent(q) = 1 /\ sent - 1 + 1 = sent /\ Tally(sent) = sent
    BY <1>1, <1>9 DEF Sent, Tally
  <2> QED BY <1>4, <1>9, <2>1
<1>10. CASE PollFails(p) \/ ApplyRejected(p)
  <2> DEFINE q == [p EXCEPT !.stage = "failed", !.state = "preview"]
  <2>1. q.token = p.token /\ q.stage = "failed"
    BY <1>6
  <2>2. Becomes(p, q) /\ sent' = sent /\ p.stage = "got" /\ target' = target
    BY <1>10 DEF PollFails, ApplyRejected, StepVars
  <2> HIDE DEF q
  <2> QED BY <1>9, <2>1, <2>2
<1>11. ASSUME NEW armed, Becomes(p, [p EXCEPT !.stage = "applied", !.armed = armed]),
              sent' = sent, p.stage = "got", target' = target
       PROVE  RequestsCounted'
  <2> DEFINE q == [p EXCEPT !.stage = "applied", !.armed = armed]
  <2>1. q.token = p.token /\ q.stage = "applied" /\ Becomes(p, q)
    BY <1>6, <1>11
  <2> HIDE DEF q
  <2> QED BY <1>9, <1>11, <2>1
<1>12. ASSUME NEW final \in BOOLEAN, ApplyProjection(p, final) PROVE RequestsCounted'
  BY <1>11, <1>12 DEF ApplyProjection
<1>13. CASE PollCloses(p)
  BY <1>11, <1>13 DEF PollCloses
<1>14. CASE LeaseLost(p)
  BY <1>3, <1>14 DEF LeaseLost
<1>15. CASE PollRecords(p)
  BY <1>2, <1>3, <1>5, <1>15 DEF PollRecords
<1>16. CASE handlePollFailure(p)
  BY <1>2, <1>3, <1>5, <1>16 DEF handlePollFailure, Holds
<1>17. CASE Unrecorded(p)
  BY <1>3, <1>17 DEF Unrecorded
<1> QED BY <1>7, <1>8, <1>10, <1>12, <1>13, <1>14, <1>15, <1>16, <1>17 DEF Poll

LEMMA CrashCounts ==
  ASSUME Inv, RequestsCounted, NEW w \in Workers, Crash(w)
  PROVE  RequestsCounted'
<1> DEFINE gone == Asked \cap PollsOf(w)
<1>1. /\ IsFiniteSet(Asked) /\ Cardinality(Asked) \in Nat /\ Many \in Nat
      /\ IsFiniteSet(gone) /\ Cardinality(gone) \in Nat /\ sent \in Int
  BY AskedFinite, FS_Intersection, FS_CardinalityType, PollingAssumption DEF Inv, Shape
<1>2. Asked' = Asked \ gone /\ Asked \cap gone = gone
  BY DEF Asked, Crash, PollsOf
<1>3. sent' = Tally(sent - Cardinality(gone)) /\ target' = target
  BY DEF Crash
<1> HIDE DEF gone
<1>4. Cardinality(Asked \ gone) = Cardinality(Asked) - Cardinality(Asked \cap gone)
  BY <1>1, FS_Difference
<1>5. Cardinality(Asked') = Cardinality(Asked) - Cardinality(gone)
  BY <1>2, <1>4
<1> QED BY <1>1, <1>3, <1>5, CountKept DEF Tally

\* What leaves the polls, their history and the count alone.
LEMMA StillCounted ==
  ASSUME Inv, RequestsCounted, Asked' = Asked, sent' = sent,
         target'.requests = target.requests
  PROVE  RequestsCounted'
BY CountKept

LEMMA ServeCounts ==
  ASSUME Inv, RequestsCounted, NEW w \in Workers, Serve(w)
  PROVE  RequestsCounted'
<1>1. /\ Sound(target) /\ target \in TargetDoc
      /\ dispatch[w] # NoTask => target.exists
  BY DEF Inv, Shape, Sound, Assigned
<1>2. CASE ParkTarget(w)
  <2>1. dispatch[w] \in Parks /\ target.exists
    BY <1>1, <1>2 DEF ParkTarget, Parks, HardParks, NoTask
  <2> QED BY <1>1, <1>2, <2>1, ParkedSound, StillCounted DEF ParkTarget, Asked
<1>3. CASE DeferTarget(w)
  <2>1. target'.requests = target.requests
    BY <1>1, <1>3 DEF DeferTarget, TargetDoc
  <2> QED BY <1>3, <2>1, StillCounted DEF DeferTarget, Asked
<1>4. CASE ClaimTarget(w)
  <2>1. \A token : [target EXCEPT !.owner = w, !.token = token, !.live = TRUE].requests
                    = target.requests
    BY <1>1 DEF TargetDoc
  <2>2. target'.requests = target.requests
    BY <1>4, <2>1 DEF ClaimTarget
  <2>3. Asked' = Asked
    BY <1>4 DEF ClaimTarget, Asked
  <2> QED BY <1>4, <2>2, <2>3, StillCounted DEF ClaimTarget, PollVars
<1> QED BY <1>2, <1>3, <1>4 DEF Serve

LEMMA ScanCounts ==
  ASSUME Inv, RequestsCounted, NEW w \in Scanners, Scan(w)
  PROVE  RequestsCounted'
<1>1. Sound(target) /\ scan[w] \in ScanDoc
  BY DEF Inv, Shape
<1>2. ASSUME NEW s \in States \cup {"absent"}, NEW closes \in BOOLEAN,
             ScanReads(w, s, closes)
      PROVE  target' = target
  BY <1>2 DEF ScanReads
<1>3. CASE ScanWrites(w)
  BY <1>1, <1>3, UpsertSound, StillCounted DEF ScanWrites, ScanVars, Asked
<1>4. ASSUME NEW long \in BOOLEAN, ScanJudges(w, long)
      PROVE  target'.requests = target.requests
  <2> DEFINE t == MarkLiveTargetsMissing(target, scan[w].heard # "absent", long)
  <2>1. Sound(t) /\ t.requests = target.requests
    BY <1>1, MarkMissingSound
  <2>2. target' = ParkOverrunLiveTargets(t)
    BY <1>4 DEF ScanJudges
  <2> HIDE DEF t
  <2> QED BY <2>1, <2>2, ParkOverrunSound
<1>5. Asked' = Asked /\ sent' = sent
  BY DEF Scan, ScanReads, ScanWrites, ScanJudges, ScanVars, Asked
<1> QED BY <1>2, <1>3, <1>4, <1>5, StillCounted DEF Scan

LEMMA OperatorCounts ==
  ASSUME Inv, RequestsCounted, RequestFixtureResync \/ ChangeFeed \/ abandonDeadMatch
  PROVE  RequestsCounted'
<1>1. Sound(target) /\ Asked' = Asked
  BY DEF Inv, Shape, RequestFixtureResync, ChangeFeed, abandonDeadMatch, workerVars, Asked
<1>2. CASE RequestFixtureResync
  <2> DEFINE t == Unleased(target)
  <2>1. t \in TargetDoc
    BY <1>1, UnleasedSound DEF Sound
  <2>2. target' = [t EXCEPT !.exists = TRUE, !.eligible = TRUE, !.armed = TRUE,
                            !.requests = 0, !.parked = "none", !.missing = FALSE]
    BY <1>2 DEF RequestFixtureResync
  <2> HIDE DEF t
  <2>3. target'.requests = 0
    BY <2>1, <2>2 DEF TargetDoc
  <2>4. sent' < Many => sent' = Cardinality(Asked')
    BY <1>1, <1>2, PollingAssumption, AskedFinite DEF RequestFixtureResync
  <2>5. Cardinality(Asked') \in Nat /\ MaxRequests > 0
    BY <1>1, PollingAssumption, AskedFinite
  <2>6. sent' < Many => sent' - Cardinality(Asked') = 0
    BY <2>4, <2>5
  <2> QED BY <2>3, <2>5, <2>6 DEF RequestsCounted
<1>3. CASE ChangeFeed
  BY <1>1, <1>3, FeedChangeSound, StillCounted DEF ChangeFeed
<1>4. CASE abandonDeadMatch
  BY <1>1, <1>4, ParkedSound, StillCounted DEF abandonDeadMatch, Parks, HardParks
<1> QED BY <1>2, <1>3, <1>4

LEMMA TimeCounts ==
  ASSUME Inv, RequestsCounted,
         LeaseExpires \/ Ages \/ FeedMoves \/ \E p \in polls : RenewTargetLease(p)
  PROVE  RequestsCounted'
<1>1. target \in TargetDoc
  BY DEF Inv, Shape, Sound
<1>2. target'.requests = target.requests
  BY <1>1 DEF LeaseExpires, Ages, FeedMoves, RenewTargetLease, TargetDoc, StepVars
<1> QED BY <1>2, StillCounted
        DEF LeaseExpires, Ages, FeedMoves, RenewTargetLease, workerVars, StepVars, Asked

LEMMA BootCounts ==
  ASSUME Inv, RequestsCounted, NEW w \in Workers, Boot(w)
  PROVE  RequestsCounted'
<1> DEFINE t == RescheduleStaleTargets(target, match)
<1>1. Sound(target)
  BY DEF Inv, Shape
<1>2. Sound(t) /\ t.requests = target.requests
  BY <1>1, RescheduleSound
<1>3. target' = ParkOverrunLiveTargets(t)
  BY DEF Boot
<1> HIDE DEF t
<1>4. target'.requests = target.requests
  BY <1>2, <1>3, ParkOverrunSound
<1> QED BY <1>4, StillCounted DEF Boot, EnvVars, Asked

\* The fixture's request count, up to its lifetime budget, is the number of
\* requests sent since the last resync, without those under way and those of
\* polls that lost their lease, their write or their worker: for any number of
\* concurrent polls, and whatever requests the quota refuses.
THEOREM RequestsCountedHolds == Spec => []RequestsCounted
<1>1. Init => RequestsCounted
  <2> SUFFICES ASSUME Init PROVE RequestsCounted
    OBVIOUS
  <2>1. Asked = {} /\ sent = 0 /\ target.requests = 0
    BY DEF Init, Asked, NoTarget
  <2>2. Cardinality(Asked) = 0
    BY <2>1, FS_EmptySet
  <2> QED BY <2>1, <2>2, PollingAssumption DEF RequestsCounted
<1>2. Inv /\ RequestsCounted /\ [Next]_vars => RequestsCounted'
  <2> SUFFICES ASSUME Inv, RequestsCounted, [Next]_vars PROVE RequestsCounted'
    OBVIOUS
  <2>1. ASSUME NEW w \in Workers, NEW crowded \in BOOLEAN, Dispatch(w, crowded)
        PROVE  RequestsCounted'
    BY <2>1, StillCounted DEF Dispatch, Asked
  <2>2. CASE UNCHANGED vars
    BY <2>2, StillCounted DEF vars, workerVars, Asked
  <2> QED BY <2>1, <2>2, PollCounts, CrashCounts, ServeCounts, ScanCounts, OperatorCounts,
             TimeCounts, BootCounts DEF Next
<1> QED BY <1>1, <1>2, InvHolds, PTL DEF Spec

-----------------------------------------------------------------------------
(* What no later step takes back.                                          *)

HardNow == target.parked \in HardParks

LEMMA PollKeepsPark ==
  ASSUME Inv, NEW p \in polls, Poll(p)
  PROVE  target'.parked = target.parked
<1>1. Sound(target) /\ p \in PollDoc
  BY DEF Inv, Shape
<1>2. \/ target' = target
      \/ Fenced(p) /\ \/ target' = CompleteTargetPoll(target, p)
                      \/ \E cause : target' = FailTargetPoll(target, cause)
  BY DEF Poll, PollFetches, PollRefused, PollFails, PollCloses, ApplyProjection,
         ApplyRejected, LeaseLost, PollRecords, handlePollFailure, Unrecorded, Holds
<1> QED BY <1>1, <1>2, FencedExists, OutcomeSound

LEMMA ServeKeepsPark ==
  ASSUME Inv, NEW w \in Workers, Serve(w), HardNow
  PROVE  HardNow'
<1>1. target \in TargetDoc
  BY DEF Inv, Shape, Sound
<1>2. CASE ParkTarget(w)
  BY <1>1, <1>2 DEF ParkTarget, HardNow, Parked, Unleased, TargetDoc
<1>3. CASE DeferTarget(w)
  BY <1>1, <1>3 DEF DeferTarget, HardNow, TargetDoc
<1>4. CASE ClaimTarget(w)
  <2>1. \A token : [target EXCEPT !.owner = w, !.token = token, !.live = TRUE].parked
                    = target.parked
    BY <1>1 DEF TargetDoc
  <2> QED BY <2>1, <1>4 DEF ClaimTarget, HardNow
<1> QED BY <1>2, <1>3, <1>4 DEF Serve

LEMMA ScanKeepsPark ==
  ASSUME Inv, NEW w \in Scanners, Scan(w), HardNow
  PROVE  HardNow'
<1>1. Sound(target) /\ scan[w] \in ScanDoc
  BY DEF Inv, Shape
<1>2. ASSUME NEW s \in States \cup {"absent"}, NEW closes \in BOOLEAN,
             ScanReads(w, s, closes)
      PROVE  HardNow'
  BY <1>2 DEF ScanReads, HardNow
<1>3. CASE ScanWrites(w)
  BY <1>1, <1>3, UpsertSound DEF ScanWrites, HardNow, HardParks
<1>4. ASSUME NEW long \in BOOLEAN, ScanJudges(w, long) PROVE HardNow'
  <2> DEFINE t == MarkLiveTargetsMissing(target, scan[w].heard # "absent", long)
  <2>1. Sound(t) /\ t.parked = target.parked
    BY <1>1, MarkMissingSound DEF HardNow
  <2>2. t.parked # "none"
    BY <2>1 DEF HardNow, HardParks
  <2>3. target' = ParkOverrunLiveTargets(t)
    BY <1>4 DEF ScanJudges
  <2> HIDE DEF t
  <2> QED BY <2>1, <2>2, <2>3, ParkOverrunSound DEF HardNow
<1> QED BY <1>2, <1>3, <1>4 DEF Scan

\* A fixture parked for good is released, or parked for a softer reason, by an
\* operator's resync alone: whatever scans, polls, sweeps and boots of any
\* number of workers read before the park and write after it.
THEOREM HardParkStaysHolds == Spec => HardParkStays
<1> DEFINE Keep == HardNow /\ ~HardNow' => /\ target'.parked = "none" /\ target'.requests = 0
                                          /\ upsets' > upsets
<1>1. ASSUME Inv, RequestFixtureResync
      PROVE  target'.parked = "none" /\ target'.requests = 0 /\ upsets' > upsets
  <2> DEFINE t == Unleased(target)
  <2>1. t \in TargetDoc /\ upsets \in Nat
    BY <1>1, UnleasedSound DEF Inv, Shape, Sound
  <2>2. /\ target' = [t EXCEPT !.exists = TRUE, !.eligible = TRUE, !.armed = TRUE,
                               !.requests = 0, !.parked = "none", !.missing = FALSE]
        /\ upsets' = upsets + 1
    BY <1>1 DEF RequestFixtureResync, Upset
  <2> HIDE DEF t
  <2> QED BY <2>1, <2>2 DEF TargetDoc
<1>2. Inv /\ [Next]_vars => Keep
  <2> SUFFICES ASSUME Inv, [Next]_vars, HardNow, ~HardNow'
               PROVE  RequestFixtureResync
    BY <1>1
  <2>1. Sound(target)
    BY DEF Inv, Shape
  <2>2. ~(target' = target)
    BY DEF HardNow
  <2>3. ~\E w \in Scanners : Scan(w)
    BY ScanKeepsPark
  <2>4. ~\E w \in Workers : Serve(w)
    BY ServeKeepsPark
  <2>5. ~\E p \in polls : Poll(p)
    BY PollKeepsPark DEF HardNow
  <2>6. ~LeaseExpires /\ ~\E p \in polls : RenewTargetLease(p)
    BY <2>1 DEF LeaseExpires, RenewTargetLease, HardNow, Sound, TargetDoc
  <2>7. ASSUME NEW w \in Workers, Boot(w) PROVE FALSE
    <3> DEFINE t == RescheduleStaleTargets(target, match)
    <3>1. target.parked # "none"
      BY DEF HardNow, HardParks
    <3>2. Sound(t) /\ t.parked = target.parked
      BY <2>1, <3>1, RescheduleSound
    <3>3. target' = ParkOverrunLiveTargets(t)
      BY <2>7 DEF Boot
    <3> HIDE DEF t
    <3> QED BY <3>1, <3>2, <3>3, ParkOverrunSound DEF HardNow
  <2>8. ~ChangeFeed
    BY <2>1, <2>2, FeedChangeSound DEF ChangeFeed, HardNow
  <2>9. ~abandonDeadMatch
    BY <2>1, ParkedSound DEF abandonDeadMatch, HardNow, HardParks, Parks
  <2> QED BY <2>2, <2>3, <2>4, <2>5, <2>6, <2>7, <2>8, <2>9
          DEF Next, Dispatch, Ages, FeedMoves, Crash, vars
<1>3. Keep => ((target.parked \in HardParks /\ target'.parked \notin HardParks)
                 => target'.parked = "none" /\ target'.requests = 0 /\ upsets' > upsets)
  BY DEF HardNow
<1> QED BY <1>2, <1>3, InvHolds, PTL DEF Spec, HardParkStays

\* The end of a match is in a poll only after the provider reported it.
Heard == \A p \in polls : p.state = "over" => feed.state = "over"

LEMMA HeardStep == Inv /\ Heard /\ [Next]_vars => Heard'
<1> SUFFICES ASSUME Inv, Heard, [Next]_vars PROVE Heard'
  OBVIOUS
<1>1. feed.state = "over" => feed'.state = "over"
  <2>1. ASSUME NEW p \in polls, Poll(p) \/ RenewTargetLease(p) PROVE feed' = feed
    BY <2>1 DEF Poll, PollFetches, PollRefused, PollFails, PollCloses, ApplyProjection,
       ApplyRejected, LeaseLost, PollRecords, handlePollFailure, Unrecorded,
       RenewTargetLease, StepVars
  <2>2. ASSUME NEW w \in Workers, Serve(w) \/ Crash(w) \/ Boot(w) PROVE feed' = feed
    BY <2>2 DEF Serve, ParkTarget, DeferTarget, ClaimTarget, PollVars, Crash, Boot
  <2>3. ASSUME NEW w \in Scanners, Scan(w) PROVE feed' = feed
    BY <2>3 DEF Scan, ScanReads, ScanWrites, ScanJudges, ScanVars
  <2>4. CASE FeedMoves \/ Ages
    BY <2>4 DEF FeedMoves, Ages, Inv, Shape
  <2>5. CASE \/ \E w \in Workers, crowded \in BOOLEAN : Dispatch(w, crowded)
             \/ LeaseExpires \/ RequestFixtureResync \/ ChangeFeed \/ abandonDeadMatch
    BY <2>5 DEF Dispatch, PollVars, LeaseExpires, RequestFixtureResync, ChangeFeed,
       abandonDeadMatch
  <2> QED BY <2>1, <2>2, <2>3, <2>4, <2>5 DEF Next, vars
<1>2. \A p \in polls' : p.state = "over" => feed.state = "over"
  <2>1. ASSUME NEW p \in polls, Poll(p) PROVE \A r \in polls' : r.state = "over" => feed.state = "over"
    <3>1. p \in PollDoc
      BY DEF Inv, Shape
    <3>2. \A stage, armed : [p EXCEPT !.stage = stage, !.armed = armed].state = p.state
      BY <3>1 DEF PollDoc
    <3>3. \A stage, state : [p EXCEPT !.stage = stage, !.state = state].state = state
      BY <3>1 DEF PollDoc
    <3>4. \/ Ends(p)
          \/ \E q : /\ Becomes(p, q)
                    /\ q.state \in {p.state, feed.state, "preview"}
      <4>1. ASSUME NEW stage, NEW state, state \in {feed.state, "preview"},
                   Becomes(p, [p EXCEPT !.stage = stage, !.state = state])
            PROVE  \E q : Becomes(p, q) /\ q.state \in {feed.state, "preview"}
        <5> WITNESS [p EXCEPT !.stage = stage, !.state = state]
        <5> QED BY <3>3, <4>1
      <4>2. CASE PollFetches(p)
        BY <4>1, <4>2 DEF PollFetches
      <4>3. CASE PollFails(p) \/ ApplyRejected(p)
        BY <4>1, <4>3 DEF PollFails, ApplyRejected
      <4>4. CASE PollCloses(p)
        BY <3>2, <4>4 DEF PollCloses
      <4>5. ASSUME NEW final \in BOOLEAN, ApplyProjection(p, final)
            PROVE  \E q : Becomes(p, q) /\ q.state = p.state
        BY <3>2, <4>5 DEF ApplyProjection
      <4>6. CASE \/ PollRefused(p) \/ LeaseLost(p) \/ PollRecords(p)
                 \/ handlePollFailure(p) \/ Unrecorded(p)
        BY <4>6 DEF PollRefused, LeaseLost, PollRecords, handlePollFailure, Unrecorded, CutOff
      <4> QED BY <2>1, <4>2, <4>3, <4>4, <4>5, <4>6 DEF Poll
    <3> QED BY <3>4 DEF Ends, Becomes, Heard
  <2>2. ASSUME NEW w \in Workers, Serve(w) \/ Crash(w) \/ Boot(w)
        PROVE  \A r \in polls' : r.state = "over" => feed.state = "over"
    <3>1. CASE ClaimTarget(w)
      <4>1. \A q \in polls' : q \in polls \/ q.state = "preview"
        BY <3>1 DEF ClaimTarget
      <4> QED BY <4>1 DEF Heard
    <3>2. CASE ~ClaimTarget(w)
      BY <2>2, <3>2 DEF Serve, ParkTarget, DeferTarget, Crash, Boot, EnvVars, Heard
    <3> QED BY <3>1, <3>2
  <2>3. CASE polls' = polls
    BY <2>3 DEF Heard
  <2>4. ASSUME NEW w \in Scanners, Scan(w) PROVE polls' = polls
    BY <2>4 DEF Scan, ScanReads, ScanWrites, ScanJudges, ScanVars
  <2>5. CASE \/ \E w \in Workers, crowded \in BOOLEAN : Dispatch(w, crowded)
             \/ LeaseExpires \/ RequestFixtureResync \/ ChangeFeed \/ abandonDeadMatch
             \/ FeedMoves \/ Ages \/ \E p \in polls : RenewTargetLease(p)
    BY <2>3, <2>5 DEF Dispatch, LeaseExpires, RequestFixtureResync, ChangeFeed,
       abandonDeadMatch, FeedMoves, Ages, RenewTargetLease, workerVars, StepVars
  <2> QED BY <2>1, <2>2, <2>3, <2>4, <2>5 DEF Next, vars, workerVars
<1> QED BY <1>1, <1>2 DEF Heard

\* What a poll does to a finished match.
LEMMA PollOnFinished ==
  ASSUME Inv, Heard, Finished(match), NEW p \in polls, Poll(p), ~Finished(match')
  PROVE  /\ p.stage = "got" /\ Holds(p)
         /\ match.terminal => match'.status = "closing" /\ feed.state = "over"
<1>1. match \in MatchDoc /\ MarkFeedUnavailable(match).status = match.status
  BY MatchSound DEF Inv, Shape
<1>2. match'.status # match.status
  BY DEF Finished
<1>3. PICK final \in BOOLEAN : ApplyProjection(p, final)
  BY <1>1, <1>2 DEF Poll, PollFetches, PollRefused, PollFails, PollCloses,
     ApplyProviderTerminalClosure, Reached, Finished, ApplyRejected, LeaseLost,
     PollRecords, handlePollFailure, Unrecorded, StepVars
<1>4. ASSUME match.terminal PROVE match'.status = "closing" /\ feed.state = "over"
  <2>1. p.state = "over"
    BY <1>3, <1>4 DEF ApplyProjection, Rejected
  <2>2. match' = Reached("over") \/ match' = Reached("closing")
    BY <1>3, <2>1 DEF ApplyProjection, Projected
  <2> QED BY <2>1, <2>2 DEF Heard, Finished, Reached
<1> QED BY <1>3, <1>4 DEF ApplyProjection

\* A finished match is taken back by the poll that holds the lease alone, and
\* while its feed is terminal only to "closing" and after the provider reported
\* the end: whatever other sources, late polls, closures that failed, boots and
\* sweeps of any number of workers write.
THEOREM FinishedNotRevivedHolds == Spec => FinishedNotRevived
<1> DEFINE Kept == (Finished(match) /\ ~Finished(match'))
                     => /\ \E p \in polls : p.stage = "got" /\ Holds(p)
                        /\ match.terminal => match'.status = "closing" /\ feed.state = "over"
<1>1. Inv /\ Heard /\ [Next]_vars => Kept
  <2> SUFFICES ASSUME Inv, Heard, [Next]_vars, Finished(match), ~Finished(match')
               PROVE  \E p \in polls : Poll(p)
    BY PollOnFinished
  <2>1. match'.status # match.status /\ MarkFeedUnavailable(match).status = match.status
    BY MatchSound DEF Finished, Inv, Shape
  <2>2. ASSUME NEW w \in Scanners, Scan(w) PROVE FALSE
    BY <2>1, <2>2 DEF Scan, ScanReads, ScanWrites, ScanJudges, PublishFixtureMatches,
       ApplyProviderTerminalClosure, Reached, Finished
  <2>3. ASSUME NEW w \in Workers, Serve(w) \/ Crash(w) \/ Boot(w) PROVE FALSE
    BY <2>1, <2>3 DEF Serve, ParkTarget, DeferTarget, ClaimTarget, PollVars, Crash, Boot
  <2>4. ~abandonDeadMatch
    BY DEF abandonDeadMatch, Finished
  <2>5. ASSUME \/ \E w \in Workers, crowded \in BOOLEAN : Dispatch(w, crowded)
               \/ LeaseExpires \/ Ages \/ FeedMoves \/ \E p \in polls : RenewTargetLease(p)
               \/ RequestFixtureResync \/ ChangeFeed
        PROVE  FALSE
    BY <2>1, <2>5 DEF Dispatch, LeaseExpires, Ages, FeedMoves, RenewTargetLease,
       RequestFixtureResync, ChangeFeed, StepVars
  <2> QED BY <2>1, <2>2, <2>3, <2>4, <2>5 DEF Next, vars
<1>2. Init => Heard
  BY DEF Init, Heard
<1>3. Kept => ((Finished(match) /\ ~Finished(match'))
                 => /\ \E p \in polls : p.stage = "got" /\ Holds(p)
                    /\ match.terminal => match'.status = "closing" /\ feed.state = "over")
  OBVIOUS
<1> QED BY <1>1, <1>2, <1>3, InvHolds, HeardStep, PTL DEF Spec, FinishedNotRevived
=============================================================================
