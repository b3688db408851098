---------------------------- MODULE Finalization ----------------------------
(***************************************************************************)
(* How a provider match becomes final: what one transaction of the feed    *)
(* does to the match document, to the market of one innings and to the     *)
(* settlement job of that innings.  The module holds no state: a           *)
(* transaction is a record                                                 *)
(*    [match, market, job, ok]                                             *)
(* threaded through the functions of the store in the order the code calls *)
(* them; a function that returns an error makes ok false and the caller    *)
(* commits nothing.                                                        *)
(*                                                                         *)
(* Only the innings of the contract is kept of the match's summaries.  The *)
(* hash of a final candidate is the score: nothing else of a scorecard is  *)
(* told apart.  The hold time of a candidate counts as elapsed when its    *)
(* last identical poll arrives.                                            *)
(***************************************************************************)
EXTENDS Integers

CONSTANTS
  Scores,        \* final scores a provider may report
  HoldPolls      \* identical polls before a candidate is ready (3 in the code)

ASSUME FinalizationAssumption ==
  Scores \subseteq Nat \ {0} /\ Scores # {} /\ HoldPolls \in Nat \ {0}

Phases   == {"play", "over", "break", "unsure", "finished", "abandoned"}
Statuses == {"live", "innings_break", "completed", "abandoned"}
Feeds    == {"healthy", "finalizing", "terminal", "stale"}
Lifecycles == {"pending", "open", "settling", "settled", "void"}
JobStatuses == {"none", "pending", "processing", "failed", "held", "complete"}

NoFinal == [revision |-> 0, score |-> 0]
NoCandidate == [revision |-> 0, score |-> 0, polls |-> 0]
NoJob == [status |-> "none", action |-> "settle", revision |-> 0, score |-> 0]

Candidates == [revision : Nat, score : Nat, polls : Nat]
Matches ==
  [contract : 1 .. 2, innings : 1 .. 2, status : Statuses, feed : Feeds, blocked : BOOLEAN,
   candidate : Candidates, ready : BOOLEAN, disposition : {"none", "settle", "void"},
   final : Candidates,
   last : [phase : Phases, innings : 1 .. 2, complete : BOOLEAN, score : Nat]]
Markets ==
  [lifecycle : Lifecycles, blocked : BOOLEAN, claimed : Nat, revision : Nat, score : Nat]
Jobs == [status : JobStatuses, action : {"settle", "void"}, revision : Nat, score : Nat]

Tx(match, market, job) ==
  [match |-> match, market |-> market, job |-> job, ok |-> TRUE]
Abort(t) == [t EXCEPT !.ok = FALSE]

-----------------------------------------------------------------------------
(* The market document: a write guarded by its lifecycle and revisions.    *)

allowedLifecycleSources(lifecycle) ==
  CASE lifecycle = "pending"  -> {"pending"}
    [] lifecycle = "open"     -> {"pending", "open"}
    [] lifecycle = "settling" -> {"pending", "open", "settling"}
    [] lifecycle = "settled"  -> {"settling", "settled"}
    [] lifecycle = "void"     -> {"pending", "open", "settling", "void"}

validLifecycleTransition(from, to) ==
  \/ from = to
  \/ from = "pending"  /\ to \in {"open", "settling", "void"}
  \/ from = "open"     /\ to \in {"settling", "void"}
  \/ from = "settling" /\ to \in {"settled", "void"}

\* Mutant: a claimed market takes the final of another revision.
RewritableFinal(market, final) ==
  \/ market.revision < final.revision
  \/ market.revision = final.revision /\ market.score = final.score

\* Which final a market accepts: of its claimed revision once claimed, and
\* never an older one or another score under the same revision.
AcceptsFinal(market, final) ==
  /\ market.claimed \in {0, final.revision}
  /\ \/ market.revision < final.revision
     \/ market.revision = final.revision /\ market.score = final.score

GateMatches(market, lifecycle, final) ==
  /\ \/ market.lifecycle \in allowedLifecycleSources(lifecycle)
     \/ lifecycle = "open" /\ market.lifecycle = "settling" /\ market.claimed = 0
  /\ final # NoFinal => AcceptsFinal(market, final)

\* Why the guarded write matched nothing: an error, or nothing to do.
GateConflict(market, lifecycle, final) ==
  IF market.lifecycle \in {"settled", "void"}
    THEN /\ final # NoFinal
         /\ final # [revision |-> market.revision, score |-> market.score]
  ELSE \/ final # NoFinal /\ market.claimed \notin {0, final.revision}
       \/ market.lifecycle = "settling" /\ lifecycle = "open" /\ market.claimed > 0
       \/ /\ final # NoFinal /\ market.revision > final.revision
          /\ lifecycle \in {"settled", "void"}
       \/ /\ final # NoFinal /\ market.revision = final.revision
          /\ market.score # final.score
       \/ /\ ~(final # NoFinal /\ market.revision > final.revision)
          /\ ~validLifecycleTransition(market.lifecycle, lifecycle)

Regated(market, lifecycle, blocked, final) ==
  LET kept == CASE final # NoFinal -> final
                [] final = NoFinal /\ lifecycle \in {"open", "void"} -> NoFinal
                [] OTHER -> [revision |-> market.revision, score |-> market.score]
  IN  [lifecycle |-> lifecycle, blocked |-> blocked, claimed |-> market.claimed,
       revision |-> kept.revision, score |-> kept.score]

SetProviderMarketGate(t, lifecycle, blocked, final) ==
  CASE ~t.ok -> t
    [] t.ok /\ GateMatches(t.market, lifecycle, final) ->
         [t EXCEPT !.market = Regated(t.market, lifecycle, blocked, final)]
    [] OTHER -> IF GateConflict(t.market, lifecycle, final) THEN Abort(t) ELSE t

-----------------------------------------------------------------------------
(* The settlement job document.                                            *)

Retryable == {"pending", "failed", "held"}

holdSettlementJob(t) ==
  CASE ~t.ok \/ t.job.status = "none" -> t
    [] t.ok /\ t.job.status \in Retryable -> [t EXCEPT !.job.status = "held"]
    [] OTHER -> Abort(t)

\* enqueueSettlementJobs: a ready candidate becomes a job, or renews one.
SettlesNow(m) ==
  /\ m.ready /\ m.candidate # NoCandidate
  /\ m.contract = 2 => m.status \in {"completed", "abandoned"}

JobOf(candidate) ==
  [status |-> "pending", action |-> "settle",
   revision |-> candidate.revision, score |-> candidate.score]

enqueueSettlementJobs(t) ==
  LET job == t.job
      current == /\ job.score = t.match.candidate.score
                 /\ job.status # "held" /\ job.action # "void"
  IN  CASE ~t.ok \/ ~SettlesNow(t.match) -> t
        [] t.ok /\ SettlesNow(t.match) /\ job.status = "none" ->
             [t EXCEPT !.job = JobOf(t.match.candidate)]
        [] OTHER -> IF current THEN t
                    ELSE IF job.status \in Retryable
                      THEN [t EXCEPT !.job = JobOf(t.match.candidate)]
                    ELSE Abort(t)

voidJobConversionUpdate(job) ==
  [status |-> "pending", action |-> "void", revision |-> 0, score |-> 0]

enqueueVoidJob(t) ==
  CASE t.job.status \in Retryable \cup {"none"} ->
         [t EXCEPT !.job = voidJobConversionUpdate(t.job)]
    [] t.job.status = "complete" -> t
    [] OTHER -> Abort(t)

enqueueVoidJobs(t) ==
  CASE ~t.ok \/ t.market.lifecycle \in {"settled", "void"} -> t
    [] t.ok /\ t.market.lifecycle \notin {"settled", "void"} ->
         IF t.match.disposition = "settle" THEN t
         ELSE IF t.market.claimed > 0 THEN Abort(t)
         ELSE enqueueVoidJob(t)

-----------------------------------------------------------------------------
(* The match document.                                                     *)

\* A revision is the state version that created a candidate, newer than any
\* revision a document or an order still carries: only their order matters.
NewRevision(known) == 1 + CHOOSE n \in known : \A k \in known : k <= n

advanceFinalCandidate(candidate, score, revision) ==
  IF candidate = NoCandidate \/ candidate.score # score
    THEN [revision |-> revision, score |-> score, polls |-> 1]
    ELSE [candidate EXCEPT !.polls = IF @ < HoldPolls THEN @ + 1 ELSE @]

\* What a poll reports: the phase, the innings being played, and the score of
\* the contract's innings, 0 while that innings is not complete.
Reports(m) ==
  {r \in [phase: Phases, innings: m.innings..2, complete: BOOLEAN,
          score: Scores \cup {0}] :
     /\ r.phase \in {"unsure", "finished"} => r.innings = 2
     /\ r.phase \in {"unsure", "finished", "abandoned"} \/ r.innings > m.contract
          => r.complete
     /\ r.innings = m.contract /\ r.phase = "play" => ~r.complete
     /\ r.innings = m.contract /\ r.phase = "over" => r.complete
     /\ ~r.complete <=> r.score = 0}

\* inningsSummaries for the contract's innings: an incomplete innings has no
\* candidate.
Summarised(m, report, revision) ==
  LET candidate == advanceFinalCandidate(m.candidate, report.score, revision)
  IN  IF ~report.complete
        THEN [m EXCEPT !.candidate = NoCandidate, !.ready = FALSE, !.disposition = "none"]
        ELSE [m EXCEPT !.candidate = candidate, !.ready = candidate.polls >= HoldPolls,
                       !.disposition = "none"]

freezeAbandonmentDispositions(current, next) ==
  LET settles == \/ current.disposition = "settle"
                 \/ current.disposition = "none" /\ current.ready
                    /\ current.candidate # NoCandidate
  IN  IF settles THEN [next EXCEPT !.disposition = "settle"]
      ELSE [next EXCEPT !.disposition = "void", !.candidate = NoCandidate,
                        !.ready = FALSE]

abandonmentSettlementPending(m) == m.disposition = "settle" /\ ~m.ready

\* Status and feed state of the next match document; other: the summary of
\* the other innings still waits for its own settlement.
projectMatch(m, report, revision, other) ==
  LET next == [Summarised(m, report, revision) EXCEPT
                 !.innings = report.innings, !.last = report,
                 !.blocked = report.phase # "play"]
      frozen == freezeAbandonmentDispositions(m, next)
      final == advanceFinalCandidate(m.final, report.score, 0)
      sure == final.polls >= HoldPolls
  IN  CASE report.phase = "play" ->
             [next EXCEPT !.status = "live", !.feed = "healthy", !.final = NoCandidate]
        [] report.phase = "over" ->
             [next EXCEPT !.status = "innings_break", !.feed = "finalizing"]
        [] report.phase = "break" ->
             [next EXCEPT !.status = "innings_break", !.feed = "healthy"]
        [] report.phase = "finished" ->
             [next EXCEPT !.status = "completed", !.feed = "terminal", !.final = NoCandidate]
        [] report.phase = "unsure" ->
             [next EXCEPT !.final = final,
                !.status = IF sure THEN "completed" ELSE "innings_break",
                !.feed = IF sure THEN "terminal" ELSE "finalizing"]
        [] report.phase = "abandoned" ->
             [frozen EXCEPT !.status = "abandoned",
                !.feed = IF other \/ abandonmentSettlementPending(frozen)
                           THEN "finalizing" ELSE "terminal"]

StatusOf(phase) ==
  CASE phase = "play" -> "live"
    [] phase \in {"over"} -> "live"
    [] phase = "break" -> "innings_break"
    [] phase \in {"unsure", "finished"} -> "completed"
    [] phase = "abandoned" -> "abandoned"

\* A terminal match refuses a report of another status.
TerminalRegression(m, report) ==
  m.feed = "terminal" /\ StatusOf(report.phase) # m.status

hasFinalizationCandidate(m) == m.final # NoCandidate \/ m.candidate # NoCandidate

\* resetPendingFinalization: candidates go, except one whose job is being
\* processed or is done.
resetPendingFinalization(t) ==
  LET held == holdSettlementJob(t)
      none(u) == [u EXCEPT !.match.candidate = NoCandidate, !.match.ready = FALSE]
      m == [t EXCEPT !.match.final = NoCandidate]
  IN  CASE t.match.feed = "terminal" -> t
        [] t.match.feed # "terminal" /\ t.match.candidate = NoCandidate -> m
        [] OTHER -> IF ~t.match.ready THEN none(m)
                    ELSE IF held.ok THEN none([m EXCEPT !.job = held.job])
                    ELSE m

-----------------------------------------------------------------------------
(* The markets of a match, from its document.                              *)

ProjectAbandoned(t) ==
  LET m == t.match
      final == IF m.disposition = "settle" /\ m.ready
                 THEN [revision |-> m.candidate.revision, score |-> m.candidate.score]
                 ELSE NoFinal
  IN  IF t.market.lifecycle \in {"settled", "void"} THEN t
      ELSE SetProviderMarketGate(t, "settling", TRUE, final)

\* The market of the innings being played: open, or closing once its summary
\* is final.
ProjectCurrent(t) ==
  LET m == t.match
      ready == m.ready /\ (m.contract = 2 => m.status = "completed")
  IN  IF m.innings # m.contract THEN t
      ELSE SetProviderMarketGate(t,
             IF m.feed \in {"finalizing", "terminal"} /\ ready
               THEN "settling" ELSE "open",
             m.blocked, NoFinal)

\* A ready summary fixes the final of its market.
ProjectFinal(t) ==
  LET m == t.match
  IN  IF \/ ~m.ready
         \/ m.innings = m.contract /\ m.status = "live"
         \/ m.contract = 2 /\ m.status \notin {"completed", "abandoned"}
        THEN t
      ELSE SetProviderMarketGate(t, "settling", TRUE,
             [revision |-> m.candidate.revision, score |-> m.candidate.score])

projectMarkets(t) ==
  CASE ~t.ok -> t
    [] t.ok /\ t.match.status = "abandoned" -> ProjectAbandoned(t)
    [] OTHER -> ProjectFinal(ProjectCurrent(t))

-----------------------------------------------------------------------------
(* The transactions.                                                       *)

holdInvalidSettlementJobs(t, next) ==
  IF t.match.ready /\ ~next.ready THEN holdSettlementJob(t) ELSE t

applyProjectionTransaction(t, report, revision, other) ==
  LET next == projectMatch(t.match, report, revision, other)
      projected == projectMarkets([holdInvalidSettlementJobs(t, next) EXCEPT !.match = next])
      enqueued == enqueueSettlementJobs(projected)
  IN  CASE TerminalRegression(t.match, report) -> Abort(t)
        [] ~TerminalRegression(t.match, report) ->
             IF report.phase = "abandoned" THEN enqueueVoidJobs(enqueued) ELSE enqueued

\* After a failed poll: provisional finals go and the markets are projected
\* again.
ResetFinalizationHolds(t) ==
  IF t.match.feed = "terminal" \/ ~hasFinalizationCandidate(t.match) THEN t
  ELSE projectMarkets(resetPendingFinalization(t))

markFeedConditionally(t) ==
  projectMarkets([resetPendingFinalization(t) EXCEPT
                    !.match.feed = "stale", !.match.blocked = TRUE])

applyTerminalMatchState(m, status) ==
  [m EXCEPT !.status = status, !.feed = "terminal", !.blocked = TRUE, !.final = NoCandidate]

\* CricLive reports a terminal phase with a snapshot that cannot be reduced.
ApplyProviderTerminalClosure(t, status) ==
  LET reset == resetPendingFinalization(t)
      closed == [reset EXCEPT !.match = applyTerminalMatchState(@, status)]
      enqueued == enqueueSettlementJobs(projectMarkets(closed))
  IN  IF status = "abandoned" THEN enqueueVoidJobs(enqueued) ELSE enqueued

\* The feed died without a terminal phase: abandoned on our own clock.
abandonDeadMatch(t) ==
  LET reset == resetPendingFinalization(t)
      closed == [reset EXCEPT !.match = freezeAbandonmentDispositions(reset.match,
                                          applyTerminalMatchState(@, "abandoned"))]
  IN  enqueueVoidJobs(enqueueSettlementJobs(projectMarkets(closed)))
=============================================================================
