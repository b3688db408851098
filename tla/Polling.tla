------------------------------ MODULE Polling ------------------------------
(***************************************************************************)
(* How one fixture of the provider is followed: the feed workers learn of  *)
(* it from the schedule and from the list of live matches, poll it under a *)
(* lease while it is in play, and stop when it ends, leaves the list, has  *)
(* been live for too long or has cost too many requests.                   *)
(*                                                                         *)
(* A worker runs three loops: scans of the schedule and of the live list,  *)
(* the dispatcher, and one task per poll.  Each step below is one read or  *)
(* write of the database or one request.  The scheduler leases that thin   *)
(* out scans and dispatches are left out: they run out under a slow holder *)
(* at any moment, so any worker may start a pass at any time.  A scanner   *)
(* has one scan at a time here, of either kind.  The fixture's league is   *)
(* enabled and its format supported throughout.                            *)
(*                                                                         *)
(* Times are ranks: the next poll of an armed target comes by itself, in   *)
(* seconds or in hours; that of another is 365 days away.  So a target put *)
(* off, or backed off after a failure, is still an armed one.              *)
(* Whether a request is allowed is in module RequestQuota; what an outcome *)
(* does to the match's trading gate in GateJobs, and to its final result   *)
(* in Finalization.                                                        *)
(***************************************************************************)
EXTENDS Integers, FiniteSets

CONSTANTS
  Workers,            \* feed worker processes
  NoOne,              \* no lease
  Scanners,           \* bound: the workers that scan
  AllowMidMatch,      \* CRICLIVE_ALLOW_MID_MATCH_LIVE_ADMISSION
  MaxRequests,        \* lifetime request budget of the fixture
  MaxConcurrency,     \* polls of one worker at a time
  MaxUpsets,          \* bound: crashes, stalls, failed requests and writes,
                      \* resyncs and changes of feed
  Many                \* bound: as many requests as are told apart in sent

ASSUME PollingAssumption ==
  /\ NoOne \notin Workers /\ Scanners \subseteq Workers /\ AllowMidMatch \in BOOLEAN
  /\ MaxRequests \in Nat \ {0} /\ MaxConcurrency \in Nat \ {0}
  /\ MaxUpsets \in Nat /\ Many \in Nat

VARIABLES
  feed,        \* the provider: state it reports; time since the scheduled
               \* start, 2 when the live window has passed
  target,      \* the polling target document
  match,       \* the public match document: its status, and whether its feed
               \* is terminal
  up,          \* running workers
  dispatch,    \* the due target each dispatcher read
  scan,        \* the scan of each scanner
  polls,       \* running polls
  sent,        \* history: requests sent since the last resync, without those
               \* of polls that lost their lease, their write or their worker
  upsets       \* count towards the bound

workerVars == <<up, dispatch, scan, polls>>
vars == <<feed, target, match, up, dispatch, scan, polls, sent, upsets>>

States == {"preview", "live", "over"}

\* Reasons only an operator's resync lifts, and the two that lift themselves.
HardParks == {"live_window_exceeded", "request_budget_exceeded", "match_abandoned"}
Parks == HardParks \cup {"none", "absent_from_live_feed", "feed_changed"}

NoTarget == [exists |-> FALSE, eligible |-> FALSE, status |-> "preview",
             armed |-> FALSE, parked |-> "none", requests |-> 0, missing |-> FALSE,
             opened |-> FALSE, owner |-> NoOne, token |-> 0, live |-> FALSE]
NoMatch == [status |-> "none", terminal |-> FALSE]
NoScan == [stage |-> "off", heard |-> "absent", eligible |-> FALSE,
           admitted |-> FALSE, late |-> FALSE, poll |-> "keep"]
NoTask == "none"

Init ==
  /\ feed = [state |-> "preview", start |-> 0]
  /\ target = NoTarget /\ match = NoMatch
  /\ up = Workers /\ dispatch = [w \in Workers |-> NoTask]
  /\ scan = [w \in Scanners |-> NoScan]
  /\ polls = {} /\ sent = 0
  /\ upsets = 0

Upset == upsets < MaxUpsets /\ upsets' = upsets + 1

-----------------------------------------------------------------------------
(* The match document.  While its feed is terminal no poll may change the  *)
(* status; a feed marked unavailable is not terminal any more.             *)

MatchInPlay(m) == m.status \in {"live", "closing"}
Finished(m) == m.status \in {"over", "abandoned"}

\* A read, or a list that says so, takes the match to this status.
Reached(status) == [status |-> status, terminal |-> status = "over"]

MarkFeedUnavailable(m) == [m EXCEPT !.terminal = FALSE]

ApplyProviderTerminalClosure(m) == IF m.status = "none" THEN m ELSE Reached("over")

-----------------------------------------------------------------------------
(* The target document.                                                    *)

\* Mutant: a released lease keeps its token.
HalfUnleased(t) == [t EXCEPT !.owner = NoOne, !.live = FALSE]

Unleased(t) == [t EXCEPT !.owner = NoOne, !.token = 0, !.live = FALSE]

\* Mutant: a lease that ran out still keeps others away.
ReleasedOnly(t) == t.owner = NoOne

LeaseFree(t) == t.owner = NoOne \/ ~t.live
Parked(t, reason) == [Unleased(t) EXCEPT !.parked = reason, !.armed = FALSE]
InPlay(t) == t.exists /\ t.eligible /\ t.status = "live"

\* The start, and the first live sighting if that was later, are too long ago.
LiveWindowExceeded == feed.start = 2

OverrunReason(t) ==
  IF t.parked # "none" \/ t.status # "live" THEN "none"
  ELSE IF LiveWindowExceeded THEN "live_window_exceeded"
  ELSE IF t.requests >= MaxRequests THEN "request_budget_exceeded"
  ELSE "none"

ParkOverrunLiveTargets(t) ==
  IF InPlay(t) /\ OverrunReason(t) # "none" THEN Parked(t, OverrunReason(t)) ELSE t

armUnparkedTarget(t) ==
  IF ~t.exists THEN [NoTarget EXCEPT !.exists = TRUE, !.eligible = TRUE, !.armed = TRUE]
  ELSE IF t.parked = "none" THEN [t EXCEPT !.eligible = TRUE, !.armed = TRUE]
  ELSE t

\* How a source that reports state s moves the next poll of the target it
\* read: "arm" and "stop" replace it, "forward" only brings it forward.
fixtureTargetNextPoll(seen, s) ==
  IF seen.parked # "none" THEN "keep"
  ELSE IF s = "over" THEN "stop"
  ELSE IF s = "live" \/ ~seen.exists THEN "arm"
  ELSE IF seen.status # "preview" /\ seen.opened THEN "keep"
  ELSE "forward"

\* Admission in live mode: a fixture still to start, or by the operator's
\* choice one already in play; a published match stays admitted.
Admitted(s) ==
  \/ s = "preview" /\ feed.start = 0
  \/ s = "live" /\ AllowMidMatch

\* What a scan that heard s decides from the target it read.
Decided(s) ==
  [stage |-> "read", heard |-> s, admitted |-> Admitted(s),
   eligible |-> Admitted(s) \/ match.status # "none",
   late |-> s = "live" /\ LiveWindowExceeded /\ target.parked = "none",
   poll |-> fixtureTargetNextPoll(target, s)]

Written(s) == [NoScan EXCEPT !.stage = "written", !.heard = s]

\* The bulk write of those decisions.
UpsertFixtureTargets(t, c) ==
  LET s == c.heard
      base == [t EXCEPT !.exists = TRUE, !.eligible = c.eligible,
                        !.status = IF s # "preview" \/ ~t.exists THEN s ELSE @]
  IN  IF c.late THEN [base EXCEPT !.armed = FALSE, !.parked = "live_window_exceeded"]
      ELSE IF c.poll = "stop" THEN [base EXCEPT !.armed = FALSE]
      ELSE IF c.poll \in {"arm", "forward"} THEN [base EXCEPT !.armed = TRUE]
      ELSE base

\* Absence from the live list, judged by one response; it may have lasted long
\* enough.
MarkLiveTargetsMissing(t, listed, long) ==
  IF ~InPlay(t) THEN t
  ELSE IF listed THEN
    IF t.parked = "absent_from_live_feed"
    THEN [t EXCEPT !.missing = FALSE, !.parked = "none", !.armed = TRUE]
    ELSE [t EXCEPT !.missing = FALSE]
  ELSE IF ~t.missing THEN [t EXCEPT !.missing = TRUE]
  ELSE IF long /\ t.parked = "none"
    THEN [Unleased(t) EXCEPT !.parked = "absent_from_live_feed"]
  ELSE t

\* Mutant: a change of feed parks targets that are already parked.
ReparkingRetire(t) ==
  IF t.exists THEN [Parked(t, "feed_changed") EXCEPT !.eligible = FALSE] ELSE t

\* Another feed becomes active: the target is not its own.
Retire(t) ==
  IF t.exists /\ t.parked = "none"
  THEN [Parked(t, "feed_changed") EXCEPT !.eligible = FALSE] ELSE t

\* This feed is active again.
Release(t) ==
  IF t.parked = "feed_changed" THEN [t EXCEPT !.parked = "none", !.armed = TRUE] ELSE t

\* What a starting worker pulls forward.
RescheduleStaleTargets(t, m) ==
  LET admitted == IF MatchInPlay(m) THEN armUnparkedTarget(t) ELSE t
  IN  IF InPlay(admitted) /\ admitted.parked = "none" THEN [admitted EXCEPT !.armed = TRUE]
      ELSE admitted

-----------------------------------------------------------------------------
(* Scans: the schedule, which lists every fixture as not started, and the  *)
(* list of live matches, which may miss one in play.  A scan reads the     *)
(* targets, then writes them and the matches; a scan of the live list goes *)
(* on to judge absences and to sweep.                                      *)

ScanVars == <<feed, up, dispatch, polls, sent, upsets>>

\* The request is answered with s; one that fails or is refused has no effect.
\* discoverLive closes what the list reports finished, before the targets: the
\* closure may fail on a settlement in flight, on another write of the match or
\* on the database, and the scan goes on all the same.
ScanReads(w, s, closes) ==
  /\ w \in up /\ scan[w].stage = "off"
  /\ s \in {"preview", "absent", feed.state}
  /\ closes => s = "over"
  /\ match' = IF closes THEN ApplyProviderTerminalClosure(match) ELSE match
  /\ scan' = [scan EXCEPT ![w] = IF s = "absent" THEN Written(s) ELSE Decided(s)]
  /\ UNCHANGED <<target, ScanVars>>

\* A fixture is published once; later sources only refresh its names, and its
\* schedule while it is upcoming.
PublishFixtureMatches(m, c) ==
  IF m.status = "none" /\ c.admitted THEN Reached("upcoming") ELSE m

ScanWrites(w) ==
  /\ scan[w].stage = "read"
  /\ target' = UpsertFixtureTargets(target, scan[w])
  /\ match' = PublishFixtureMatches(match, scan[w])
  /\ scan' = [scan EXCEPT ![w] = IF scan[w].heard = "preview" THEN NoScan
                                     ELSE Written(scan[w].heard)]
  /\ UNCHANGED ScanVars

ScanJudges(w, long) ==
  /\ scan[w].stage = "written"
  /\ target' = ParkOverrunLiveTargets(
                 MarkLiveTargetsMissing(target, scan[w].heard # "absent", long))
  /\ scan' = [scan EXCEPT ![w] = NoScan]
  /\ UNCHANGED <<match, ScanVars>>

-----------------------------------------------------------------------------
(* The dispatcher: it reads the due targets, then serves them.             *)

PollVars == <<feed, up, scan, upsets>>

\* crowded: the other fixtures in play have used up the budget of new ones.
TaskFor(t, crowded) ==
  IF OverrunReason(t) # "none" THEN OverrunReason(t)
  ELSE IF crowded /\ ~t.opened THEN "defer" ELSE "claim"

Dispatch(w, crowded) ==
  /\ w \in up /\ dispatch[w] = NoTask
  /\ target.exists /\ target.eligible /\ target.armed /\ LeaseFree(target)
  /\ dispatch' = [dispatch EXCEPT ![w] = TaskFor(target, crowded)]
  /\ UNCHANGED <<PollVars, target, match, polls, sent>>

Served(w) == dispatch' = [dispatch EXCEPT ![w] = NoTask]

ParkTarget(w) ==
  /\ dispatch[w] \in HardParks
  /\ target' = Parked(target, dispatch[w])
  /\ match' = MarkFeedUnavailable(match)
  /\ Served(w)
  /\ UNCHANGED <<PollVars, polls, sent>>

DeferTarget(w) ==
  /\ dispatch[w] = "defer"
  /\ target' = [target EXCEPT !.armed = TRUE]
  /\ match' = MarkFeedUnavailable(match)
  /\ Served(w)
  /\ UNCHANGED <<PollVars, polls, sent>>

PollsOf(w) == {p \in polls : p.worker = w}
Tokens == {p.token : p \in polls}

ClaimTarget(w) ==
  /\ dispatch[w] = "claim"
  /\ IF Cardinality(PollsOf(w)) < MaxConcurrency /\ target.eligible /\ LeaseFree(target)
     THEN LET token == CHOOSE n \in 1..(Cardinality(polls) + 1) : n \notin Tokens
          IN  /\ target' = [target EXCEPT !.owner = w, !.token = token, !.live = TRUE]
              /\ polls' = polls \cup {[worker |-> w, token |-> token, stage |-> "ask",
                                       state |-> "preview", armed |-> TRUE]}
     ELSE UNCHANGED <<target, polls>>
  /\ Served(w)
  /\ UNCHANGED <<PollVars, match, sent>>

-----------------------------------------------------------------------------
(* A poll: quota, one request, the transaction of ApplyProjection, and the *)
(* record of the outcome.  The last two are fenced by owner and token, the *)
(* transaction also by the lease's time.                                   *)

StepVars == <<feed, up, dispatch, scan>>
Becomes(p, q) == polls' = (polls \ {p}) \cup {q}
Ends(p) == polls' = polls \ {p}
Fenced(p) == target.owner = p.worker /\ target.token = p.token
Holds(p) == Fenced(p) /\ target.live

\* Polls whose request was sent.
Asked == {p \in polls : p.stage # "ask"}

\* The history beyond Many is not told apart any more.
Tally(n) == IF sent < Many THEN n ELSE sent

\* A poll whose request stays uncounted ends.
CutOff(p) == Ends(p) /\ sent' = Tally(sent - 1)

\* What a failed poll adds to the fixture's request count.
Counted(cause) == IF cause = "quota" THEN 0 ELSE 1

Charged(t, n) == [t EXCEPT !.requests = IF @ < MaxRequests THEN @ + n ELSE @]

FailTargetPoll(t, cause) ==
  [Charged(Unleased(t), Counted(cause)) EXCEPT !.armed = TRUE]

\* Mutant: a poll that succeeds is not counted.
UncountedPoll(t, p) ==
  [Unleased(t) EXCEPT !.status = p.state, !.armed = p.armed, !.opened = TRUE]

CompleteTargetPoll(t, p) ==
  [Charged(Unleased(t), 1) EXCEPT
     !.status = p.state, !.armed = p.armed, !.opened = TRUE]

\* One request, answered with the state of the provider.
PollFetches(p) ==
  /\ p.stage = "ask"
  /\ Becomes(p, [p EXCEPT !.stage = "got", !.state = feed.state])
  /\ sent' = Tally(sent + 1)
  /\ UNCHANGED <<StepVars, target, match, upsets>>

\* No allowance, or the worker is suspended.  Here as in handlePollFailure a
\* worker whose lease ran out leaves the outcome to the next owner:
\* ResetFinalizationHolds finds that.
PollRefused(p) ==
  /\ p.stage = "ask"
  /\ IF Holds(p) THEN /\ target' = FailTargetPoll(target, "quota")
                      /\ match' = MarkFeedUnavailable(match)
     ELSE UNCHANGED <<target, match>>
  /\ Ends(p)
  /\ UNCHANGED <<StepVars, sent, upsets>>

\* The request fails, or the snapshot is rejected.
PollFails(p) ==
  /\ p.stage = "got" /\ Upset
  /\ Becomes(p, [p EXCEPT !.stage = "failed", !.state = "preview"])
  /\ UNCHANGED <<StepVars, target, match, sent>>

\* A snapshot rejected after the end closes the match without its balls.
PollCloses(p) ==
  /\ p.stage = "got" /\ Holds(p) /\ p.state = "over" /\ Upset
  /\ match.status # "none" /\ match # Reached("over")
  /\ match' = ApplyProviderTerminalClosure(match)
  /\ Becomes(p, [p EXCEPT !.stage = "applied", !.armed = FALSE])
  /\ UNCHANGED <<StepVars, target, sent>>

Promotion(p) ==
  match.status = "none" /\ ~AllowMidMatch /\ (p.state # "preview" \/ feed.start > 0)

\* A promotion in mid match, or another status while the feed is terminal.
Rejected(p) ==
  \/ Promotion(p)
  \/ match.terminal /\ ~(match.status = "over" /\ p.state = "over")

\* The next poll by the state that was read: a final result is not read again.
ReadAgain(p, final) == p.state # "over" \/ ~final

\* What projectMatch makes of the state that was read: an end that is not
\* final yet, by its phrase or by its hold, only closes the match, also one
\* that was finished.
Projected(p, final) ==
  CASE p.state = "preview" -> Reached("upcoming")
    [] p.state = "live" -> Reached("live")
    [] OTHER -> Reached(IF final THEN "over" ELSE "closing")

ApplyProjection(p, final) ==
  /\ p.stage = "got" /\ Holds(p) /\ ~Rejected(p)
  /\ final => p.state = "over"
  /\ match' = Projected(p, final)
  /\ Becomes(p, [p EXCEPT !.stage = "applied",
                          !.armed = ReadAgain(p, final)])
  /\ UNCHANGED <<StepVars, target, sent, upsets>>

ApplyRejected(p) ==
  /\ p.stage = "got" /\ Holds(p) /\ Rejected(p)
  /\ Becomes(p, [p EXCEPT !.stage = "failed", !.state = "preview"])
  /\ UNCHANGED <<StepVars, target, match, sent, upsets>>

\* ErrFixtureLeaseLost: the worker leaves the outcome to the next owner.
LeaseLost(p) ==
  /\ p.stage = "got" /\ ~Holds(p)
  /\ CutOff(p)
  /\ UNCHANGED <<StepVars, target, match, upsets>>

PollRecords(p) ==
  /\ p.stage = "applied"
  /\ IF Fenced(p) THEN target' = CompleteTargetPoll(target, p) /\ Ends(p) /\ UNCHANGED sent
     ELSE CutOff(p) /\ UNCHANGED target
  /\ UNCHANGED <<StepVars, match, upsets>>

\* Only when the last successful read is old is the feed called stale.
handlePollFailure(p) ==
  /\ p.stage = "failed"
  /\ IF Holds(p) THEN /\ target' = FailTargetPoll(target, "poll")
                      /\ match' \in {match, MarkFeedUnavailable(match)}
                      /\ Ends(p) /\ UNCHANGED sent
     ELSE CutOff(p) /\ UNCHANGED <<target, match>>
  /\ UNCHANGED <<StepVars, upsets>>

\* The write of the outcome fails; the lease stays until it runs out.
Unrecorded(p) ==
  /\ p.stage \in {"applied", "failed"} /\ Upset
  /\ CutOff(p)
  /\ UNCHANGED <<StepVars, target, match>>

\* The heartbeat of a worker that stalled finds its lease run out, but its own.
RenewTargetLease(p) ==
  /\ Fenced(p) /\ ~target.live
  /\ target' = [target EXCEPT !.live = TRUE]
  /\ UNCHANGED <<StepVars, match, polls, sent, upsets>>

-----------------------------------------------------------------------------
(* Time, workers, operators and the provider.                              *)

EnvVars == <<dispatch, scan, polls, sent>>

\* The heartbeat keeps a lease while its poll runs, unless the worker stalls.
LeaseExpires ==
  /\ target.live
  /\ IF \E p \in polls : Fenced(p) THEN Upset ELSE UNCHANGED upsets
  /\ target' = [target EXCEPT !.live = FALSE]
  /\ UNCHANGED <<feed, match, workerVars, sent>>

\* The start passes, the live window passes.
Ages ==
  /\ feed.start < 2 /\ feed' = [feed EXCEPT !.start = @ + 1]
  /\ UNCHANGED <<target, match, workerVars, sent, upsets>>

FeedMoves ==
  /\ \/ feed.state = "preview" /\ feed.start > 0 /\ feed' = [feed EXCEPT !.state = "live"]
     \/ feed.state = "live" /\ feed' = [feed EXCEPT !.state = "over"]
  /\ UNCHANGED <<target, match, workerVars, sent, upsets>>

Crash(w) ==
  /\ w \in up /\ Upset
  /\ up' = up \ {w}
  /\ sent' = Tally(sent - Cardinality(Asked \cap PollsOf(w)))
  /\ polls' = polls \ PollsOf(w)
  /\ scan' = [x \in Scanners |-> IF x = w THEN NoScan ELSE scan[x]]
  /\ Served(w)
  /\ UNCHANGED <<feed, target, match>>

\* bootstrap, without its two scans.
Boot(w) ==
  /\ w \notin up /\ up' = up \cup {w}
  /\ target' = ParkOverrunLiveTargets(RescheduleStaleTargets(target, match))
  /\ UNCHANGED <<feed, match, EnvVars, upsets>>

RequestFixtureResync ==
  /\ Upset
  /\ target' = [Unleased(target) EXCEPT !.exists = TRUE, !.eligible = TRUE, !.armed = TRUE,
                   !.requests = 0, !.parked = "none", !.missing = FALSE]
  /\ sent' = IF Cardinality(Asked) < Many THEN Cardinality(Asked) ELSE Many
  /\ UNCHANGED <<feed, match, workerVars>>

\* RetireForeignFixtures: at a change of feed, by a worker of the other one,
\* and again and again by the workers of this one.
ChangeFeed ==
  /\ \/ Upset /\ target' = Retire(target)
     \/ UNCHANGED upsets /\ target' = Release(target) /\ target' # target
  /\ UNCHANGED <<feed, match, workerVars, sent>>

\* The reaper gives up a match in play that started long ago and that nothing
\* has read for hours; hours may pass between any two steps.
abandonDeadMatch ==
  /\ MatchInPlay(match) /\ feed.start = 2
  /\ match' = [status |-> "abandoned", terminal |-> TRUE]
  /\ target' = IF target.exists THEN Parked(target, "match_abandoned") ELSE target
  /\ UNCHANGED <<feed, workerVars, sent, upsets>>

-----------------------------------------------------------------------------

Scan(w) ==
  \/ \E s \in States \cup {"absent"}, closes \in BOOLEAN : ScanReads(w, s, closes)
  \/ ScanWrites(w) \/ \E long \in BOOLEAN : ScanJudges(w, long)

Serve(w) == ParkTarget(w) \/ DeferTarget(w) \/ ClaimTarget(w)

Poll(p) ==
  \/ PollFetches(p) \/ PollRefused(p) \/ PollFails(p) \/ PollCloses(p)
  \/ \E final \in BOOLEAN : ApplyProjection(p, final)
  \/ ApplyRejected(p) \/ LeaseLost(p)
  \/ PollRecords(p) \/ handlePollFailure(p) \/ Unrecorded(p)

Next ==
  \/ \E w \in Scanners : Scan(w)
  \/ \E w \in Workers, crowded \in BOOLEAN : Dispatch(w, crowded)
  \/ \E w \in Workers : Serve(w)
  \/ \E p \in polls : Poll(p)
  \/ \E p \in polls : RenewTargetLease(p)
  \/ LeaseExpires \/ Ages \/ FeedMoves
  \/ \E w \in Workers : Crash(w) \/ Boot(w)
  \/ RequestFixtureResync \/ ChangeFeed \/ abandonDeadMatch

Spec == Init /\ [][Next]_vars

\* Nothing reads the fixture any more: it is parked, or its next poll was put
\* off for a year by a scan that heard the end, whether or not it could close
\* the match.
GivenUp ==
  \/ target.parked \in HardParks \cup {"feed_changed"}
  \/ target.parked = "none" /\ ~target.armed

\* A worker goes on as long as it runs and is started again when it stops, a
\* lease nobody renews runs out, and neither the allowance nor the budget of
\* new fixtures refuses for ever.  That a result is final in the end is up to
\* the finalization hold (module Finalization): a poll repeated often enough
\* says so here.  The reaper runs every five minutes, and finds a match that
\* nothing reads any more.  Nothing is assumed of the live list, nor that a
\* match's window ever passes.
FairSpec ==
  /\ Spec
  /\ \A w \in Workers :
       /\ SF_vars(Dispatch(w, FALSE)) /\ WF_vars(Serve(w))
       /\ WF_vars(\E p \in PollsOf(w) : Poll(p))
       /\ WF_vars(Boot(w))
  /\ \A w \in Scanners :
       /\ SF_vars(ScanReads(w, "preview", FALSE))
       /\ WF_vars(ScanWrites(w) \/ \E long \in BOOLEAN : ScanJudges(w, long))
  /\ SF_vars(\E p \in polls : PollFetches(p))
  /\ SF_vars(\E p \in polls : ApplyProjection(p, TRUE))
  /\ WF_vars(LeaseExpires)
  /\ WF_vars(GivenUp /\ polls = {} /\ abandonDeadMatch)

-----------------------------------------------------------------------------
(* Properties.                                                             *)

Stages == {"ask", "got", "applied", "failed"}
TypeOK ==
  /\ target.parked \in Parks /\ target.requests \in 0..MaxRequests
  /\ target.owner = NoOne <=> target.token = 0
  /\ target.live => target.owner # NoOne
  /\ match.status \in {"none", "upcoming", "live", "closing", "over", "abandoned"}
  /\ match.terminal => Finished(match)
  /\ \A p \in polls : p.worker \in up /\ p.stage \in Stages
  /\ \A p, q \in polls : p.token = q.token => p = q

\* The fixture's request count, against which its lifetime budget is judged,
\* is the number of requests sent since the last resync: without those still
\* under way, those the quota refused, and those of polls that lost their
\* lease, their write or their worker; none is counted twice.
RequestsCounted ==
  sent < Many =>
    target.requests = LET n == sent - Cardinality(Asked)
                      IN  IF n < MaxRequests THEN n ELSE MaxRequests

\* A target parked for good is released, or parked for a softer reason, by an
\* operator's resync alone: no scan, poll, boot, sweep or change of feed.
HardParkStays ==
  [][(target.parked \in HardParks /\ target'.parked \notin HardParks)
       => target'.parked = "none" /\ target'.requests = 0
          /\ upsets' > upsets]_vars

\* A match that was read in play and is then parked for good is served no more:
\* "no other code path re-arms it" (store/guardrails.go:29), "A parked target
\* is skipped by discovery, dispatch and the boot-time reschedule"
\* (store/guardrails.go:72-73).
ParkedIsSkipped ==
  [][\A w \in Workers : dispatch[w] = NoTask /\ dispatch'[w] # NoTask
       => ~(target.opened /\ target.status = "live" /\ target.parked \in HardParks)]_vars

\* A finished match is taken back by the poll that holds the lease alone: no
\* source of the schedule or of the live list, no late poll, boot or sweep.
\* As long as its feed is terminal it is taken back only to "closing", and
\* only after the provider reported the end: an answer read before that, of a
\* poll that the closure overtook, shows nothing.
FinishedNotRevived ==
  [][(Finished(match) /\ ~Finished(match'))
       => /\ \E p \in polls : p.stage = "got" /\ Holds(p)
          /\ match.terminal => match'.status = "closing" /\ feed.state = "over"]_vars

\* A match in play that the provider reports over is read until it is
\* finished, whatever leases were lost, workers stopped and polls put off on
\* the way, unless it is given up; and one that was given up does not stay in
\* play either: once its window has passed, the reaper abandons it.
FollowedToTheEnd ==
  (feed.state = "over" /\ MatchInPlay(match))
     ~> (Finished(match) \/ (GivenUp /\ feed.start < 2))
=============================================================================
