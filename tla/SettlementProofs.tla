-------------------------- MODULE SettlementProofs --------------------------
(***************************************************************************)
(* Module Settlement, proved for any number of users, workers, contracts,  *)
(* reports and outages and any scores, prices and deposits, as long as no  *)
(* processor outlives its lease (~Stalls): every state keeps its shape,    *)
(* the books balance whoever works on the match, and what a claim fixed    *)
(* stays fixed.                                                            *)
(*                                                                         *)
(* The invariant says who works (OneProcessor), for which kind of job      *)
(* (JobFollowed), that all carriers of one revision carry one score        *)
(* (FinalsAgree), what a claim has fixed (ClaimHolds), that a contract is  *)
(* closed at the claimed revision only (ClosedOnce) and what a void run    *)
(* has read (VoidWork). The feed's transactions keep it one write at a     *)
(* time: Reached is what every intermediate document satisfies, Committed  *)
(* what a committed one does.                                              *)
(***************************************************************************)
EXTENDS Settlement, TotalsProofs, FiniteSetTheorems

\* The stages after a claim, of any settling run, after a void was let in, and
\* of any voiding run.
Fixing == {"listing", "closing", "closed"}
SettleStages == Fixing \cup {"settling", "reading"}
Reverting == {"unlisting", "weighing", "freezing", "refunding", "unwinding", "unwound"}
VoidStages == Reverting \cup {"voiding"}

\* A processor at work holds the live lease: with no stalls there is but one.
OneProcessor ==
  \A w \in Workers : worker[w].at # "idle" => Owns(w) /\ ~lease.expired

\* A processor works on the kind of job that is on the books.
JobFollowed ==
  /\ job.action = "settle" /\ job.status # "none" => job.revision > 0
  /\ \A w \in Workers :
       /\ worker[w].at \in SettleStages =>
            job.action = "settle" /\ worker[w].revision > 0
       /\ worker[w].at \in VoidStages => job.action = "void"

\* Two carriers of the same revision carry the same score.
Agree(a, b) == a.revision = b.revision /\ a.revision > 0 => a.score = b.score

\* The candidate, the market and the processors agree on a revision's score.
FinalsAgree ==
  /\ match.candidate # NoCandidate =>
       match.candidate.revision > 0 /\ match.candidate.score \in Scores
  /\ match.ready => match.candidate # NoCandidate
  /\ market.revision > 0 => market.score \in Scores
  /\ Agree(match.candidate, market)
  /\ \A w \in Workers : worker[w].at \in Fixing \cup {"reading"} =>
       Agree(match.candidate, worker[w]) /\ Agree(market, worker[w])

\* A claimed market keeps its final and is settling or settled; a processor
\* that fixes contracts does so at the claim, one that voids met no claim.
ClaimHolds ==
  /\ market.claimed > 0 =>
       market.revision = market.claimed /\ market.lifecycle \in {"settling", "settled"}
  /\ market.lifecycle = "settled" => market.claimed > 0
  /\ \A w \in Workers :
       /\ worker[w].at \in Fixing =>
            /\ market.claimed = worker[w].revision /\ market.score = worker[w].score
            /\ market.lifecycle = "settling"
       /\ worker[w].at \in Reverting => market.claimed = 0

\* A void job belongs to an abandoned match whose market was never claimed.
VoidHolds ==
  /\ job.action = "void" =>
       /\ match.status = "abandoned" /\ match.feed = "terminal"
       /\ ~match.ready /\ match.disposition # "settle"
       /\ market.claimed = 0 /\ market.lifecycle \in {"settling", "void"}
  /\ \A u \in Users : frozen[u].set => job.action = "void"
  /\ \A w \in Workers : worker[w].at \in Reverting => market.lifecycle = "settling"

\* A contract is closed by execution at the claimed revision only.
ClosedOnce ==
  \A u \in Users : closing[u].stage = "executed" =>
    market.claimed > 0 /\ closing[u].revision = market.claimed

\* A voiding processor has computed a disposition for every user it freezes or
\* refunds, and unwinds only fills it has read.
VoidWork ==
  /\ \A u \in Users : ~refunded[u].set => refunded[u].cash = 0
  /\ \A w \in Workers : worker[w].at \in {"freezing", "refunding"} =>
       \A u \in Users : worker[w].comp[u].set
  /\ \A w \in Workers : worker[w].at = "unwinding" =>
       worker[w].todo \subseteq DOMAIN worker[w].seen

Inv ==
  /\ TypeOK /\ OneProcessor /\ JobFollowed /\ FinalsAgree /\ ClaimHolds
  /\ ClosedOnce /\ VoidWork /\ BooksBalance

-----------------------------------------------------------------------------
(* The feed.                                                               *)

Txs == [match : Matches, market : Markets, job : Jobs, ok : BOOLEAN]

Closed == {"settled", "void"}

Coherent(t) ==
  /\ t.match.candidate # NoCandidate =>
       t.match.candidate.revision > 0 /\ t.match.candidate.score \in Scores
  /\ t.match.ready => t.match.candidate # NoCandidate
  /\ t.market.revision > 0 => t.market.score \in Scores
  /\ Agree(t.match.candidate, t.market)
  /\ t.market.claimed > 0 =>
       t.market.revision = t.market.claimed /\ t.market.lifecycle \in {"settling", "settled"}
  /\ t.market.lifecycle = "settled" => t.market.claimed > 0
  /\ t.job.action = "settle" /\ t.job.status # "none" => t.job.revision > 0
  /\ \A w \in Workers : worker[w].at \in Fixing \cup {"reading"} =>
       Agree(t.match.candidate, worker[w]) /\ Agree(t.market, worker[w])

Reached(t) ==
  /\ t \in Txs /\ Coherent(t)
  /\ job.status = "processing" => t.job = job
  /\ t.job.status = "processing" => job.status = "processing"
  /\ t.market.claimed = market.claimed
  /\ market.claimed > 0 =>
       /\ t.market.revision = market.revision /\ t.market.score = market.score
       /\ t.market.lifecycle = market.lifecycle
  /\ market.lifecycle \in Closed \/ t.market.lifecycle \in Closed =>
       t.market.lifecycle = market.lifecycle

\* A final a transaction may write: none, or its candidate.
Offered(t, final) ==
  \/ final = NoFinal
  \/ /\ t.match.candidate # NoCandidate
     /\ final = [revision |-> t.match.candidate.revision, score |-> t.match.candidate.score]

LEMMA AbortReached ==
  ASSUME NEW t, Reached(t)
  PROVE  Reached(Abort(t))
BY DEF Reached, Coherent, Txs, Abort

LEMMA MarketReplaced ==
  ASSUME NEW t, Reached(t), NEW k \in Markets,
         k.revision > 0 => k.score \in Scores,
         Agree(t.match.candidate, k),
         \A w \in Workers : worker[w].at \in Fixing \cup {"reading"} => Agree(k, worker[w]),
         k.claimed = market.claimed,
         k.claimed > 0 => k.lifecycle = t.market.lifecycle /\ k.revision = t.market.revision
                          /\ k.score = t.market.score,
         k.lifecycle \in Closed \/ t.market.lifecycle \in Closed =>
           k.lifecycle = t.market.lifecycle
  PROVE  Reached([t EXCEPT !.market = k])
<1> DEFINE r == [t EXCEPT !.market = k]
<1>1. /\ r \in Txs /\ r.match = t.match /\ r.market = k /\ r.job = t.job /\ t.match \in Matches
      /\ t.market \in Markets
  BY DEF Reached, Txs
<1>2. Coherent(r)
  BY <1>1 DEF Reached, Coherent, Txs, Markets, Matches, Closed
<1> HIDE DEF r
<1>3. Reached(r)
  BY <1>1, <1>2 DEF Reached, Closed
<1> QED BY <1>3 DEF r

LEMMA MatchReplaced ==
  ASSUME NEW t, Reached(t), NEW m \in Matches,
         m.candidate # NoCandidate =>
           m.candidate.revision > 0 /\ m.candidate.score \in Scores,
         m.ready => m.candidate # NoCandidate,
         Agree(m.candidate, t.market),
         \A w \in Workers : worker[w].at \in Fixing \cup {"reading"} =>
           Agree(m.candidate, worker[w])
  PROVE  Reached([t EXCEPT !.match = m])
<1> DEFINE r == [t EXCEPT !.match = m]
<1>1. r \in Txs /\ r.match = m /\ r.market = t.market /\ r.job = t.job
  BY DEF Reached, Txs
<1>2. Coherent(r)
  BY <1>1 DEF Reached, Coherent
<1> HIDE DEF r
<1>3. Reached(r)
  BY <1>1, <1>2 DEF Reached
<1> QED BY <1>3 DEF r

LEMMA JobReplaced ==
  ASSUME NEW t, Reached(t), NEW j \in Jobs,
         j.action = "settle" /\ j.status # "none" => j.revision > 0,
         t.job.status # "processing", j.status # "processing"
  PROVE  Reached([t EXCEPT !.job = j])
<1> DEFINE r == [t EXCEPT !.job = j]
<1>1. r \in Txs /\ r.match = t.match /\ r.market = t.market /\ r.job = j
  BY DEF Reached, Txs
<1>2. Coherent(r)
  BY <1>1 DEF Reached, Coherent
<1> HIDE DEF r
<1>3. Reached(r)
  BY <1>1, <1>2 DEF Reached
<1> QED BY <1>3 DEF r

\* Forgetting the candidate breaks nothing.
LEMMA ForgetReached ==
  ASSUME NEW t, Reached(t), NEW m \in Matches, m.candidate = NoCandidate, ~m.ready
  PROVE  Reached([t EXCEPT !.match = m])
<1>1. Agree(m.candidate, t.market)
      /\ \A w \in Workers : worker[w].at \in Fixing \cup {"reading"} =>
           Agree(m.candidate, worker[w])
  BY DEF Agree, NoCandidate
<1> QED BY <1>1, MatchReplaced

LEMMA RegatedSound ==
  ASSUME NEW t, Reached(t), NEW b \in BOOLEAN, NEW lifecycle \in {"open", "settling"},
         NEW final, Offered(t, final), GateMatches(t.market, lifecycle, final)
  PROVE  Reached([t EXCEPT !.market = Regated(t.market, lifecycle, b, final)])
<1> DEFINE k == Regated(t.market, lifecycle, b, final)
<1>1. /\ t.match \in Matches /\ t.market \in Markets /\ t.market.claimed = market.claimed
      /\ Coherent(t)
  BY DEF Reached, Txs
<1>2. k \in Markets /\ k.lifecycle = lifecycle /\ k.claimed = t.market.claimed
  BY <1>1 DEF Offered, NoFinal, NoCandidate, Candidates, Regated, Markets, Matches, Lifecycles
<1>3. \/ k.revision = 0
      \/ k.revision = t.market.revision /\ k.score = t.market.score
      \/ /\ t.match.candidate # NoCandidate
         /\ k.revision = t.match.candidate.revision /\ k.score = t.match.candidate.score
  BY DEF Regated, Offered, NoFinal
<1>4. /\ k.revision > 0 => k.score \in Scores
      /\ Agree(t.match.candidate, k)
      /\ \A w \in Workers : worker[w].at \in Fixing \cup {"reading"} => Agree(k, worker[w])
  BY <1>1, <1>3 DEF Coherent, Agree
<1>5. t.market.lifecycle \notin Closed
  BY DEF GateMatches, allowedLifecycleSources, Closed
<1>6. ASSUME k.claimed > 0
      PROVE  /\ k.lifecycle = t.market.lifecycle /\ k.revision = t.market.revision
             /\ k.score = t.market.score
  <2>1. t.market.lifecycle = "settling" /\ t.market.revision = t.market.claimed
    BY <1>1, <1>2, <1>5, <1>6 DEF Coherent, Closed
  <2>2. lifecycle = "settling"
    BY <1>2, <1>6, <2>1 DEF GateMatches, allowedLifecycleSources
  <2>3. final = NoFinal \/ AcceptsFinal(t.market, final)
    BY DEF GateMatches
  <2>4. CASE final = NoFinal
    BY <2>1, <2>2, <2>4 DEF Regated
  <2>5. CASE final # NoFinal
    <3>1. final.revision = t.market.claimed /\ final.score = t.market.score
      BY <1>1, <1>2, <1>6, <2>1, <2>3, <2>5 DEF AcceptsFinal, Markets
    <3> QED BY <3>1, <2>1, <2>2, <2>5 DEF Regated
  <2> QED BY <2>4, <2>5
<1> HIDE DEF k
<1>7. k.lifecycle \notin Closed
  BY <1>2 DEF Closed
<1>8. k.claimed = market.claimed
  BY <1>1, <1>2
<1>9. Reached([t EXCEPT !.market = k])
  BY <1>2, <1>4, <1>5, <1>6, <1>7, <1>8, MarketReplaced
<1> QED BY <1>9 DEF k

LEMMA GateReached ==
  ASSUME NEW t, Reached(t), NEW b \in BOOLEAN, NEW lifecycle \in {"open", "settling"},
         NEW final, Offered(t, final)
  PROVE  Reached(SetProviderMarketGate(t, lifecycle, b, final))
<1>1. CASE t.ok /\ GateMatches(t.market, lifecycle, final)
  BY <1>1, RegatedSound DEF SetProviderMarketGate
<1>2. CASE ~(t.ok /\ GateMatches(t.market, lifecycle, final))
  BY <1>2, AbortReached DEF SetProviderMarketGate
<1> QED BY <1>1, <1>2

LEMMA HeldReached ==
  ASSUME NEW t, Reached(t)
  PROVE  /\ Reached(holdSettlementJob(t))
         /\ holdSettlementJob(t).match = t.match /\ holdSettlementJob(t).market = t.market
         /\ holdSettlementJob(t).job.action = t.job.action
         /\ t.job.status \notin Retryable \cup {"none"} => holdSettlementJob(t).job = t.job
<1> DEFINE j == [t.job EXCEPT !.status = "held"]
<1>1. /\ t.job \in Jobs /\ t \in Txs
      /\ t.job.action = "settle" /\ t.job.status # "none" => t.job.revision > 0
  BY DEF Reached, Coherent, Txs
<1>2. /\ j \in Jobs /\ j.status = "held" /\ j.action = t.job.action
      /\ j.revision = t.job.revision
  BY <1>1 DEF Jobs, JobStatuses
<1>3. CASE t.ok /\ t.job.status \in Retryable
  <2>1. /\ holdSettlementJob(t) = [t EXCEPT !.job = j]
        /\ t.job.status # "none" /\ t.job.status # "processing"
    BY <1>1, <1>3 DEF holdSettlementJob, Retryable, Txs
  <2> HIDE DEF j
  <2>2. Reached([t EXCEPT !.job = j])
    BY <1>1, <1>2, <2>1, JobReplaced
  <2> QED BY <1>1, <1>2, <1>3, <2>1, <2>2 DEF Txs
<1>4. CASE ~t.ok \/ t.job.status = "none"
  BY <1>4 DEF holdSettlementJob, Retryable
<1>5. CASE ~(t.ok /\ t.job.status \in Retryable) /\ ~(~t.ok \/ t.job.status = "none")
  <2>1. holdSettlementJob(t) = Abort(t)
    BY <1>5 DEF holdSettlementJob
  <2> QED BY <1>1, <2>1, AbortReached DEF Abort, Txs
<1> QED BY <1>3, <1>4, <1>5

LEMMA ResetReached ==
  ASSUME NEW t, Reached(t)
  PROVE  /\ Reached(resetPendingFinalization(t))
         /\ resetPendingFinalization(t).market = t.market
         /\ resetPendingFinalization(t).ok = t.ok
         /\ resetPendingFinalization(t).match.disposition = t.match.disposition
         /\ resetPendingFinalization(t).job.action = t.job.action
         /\ t.ok /\ t.match.feed # "terminal" =>
              \/ ~resetPendingFinalization(t).match.ready
              \/ t.job.status \notin Retryable \cup {"none"}
         /\ t.job.status \notin Retryable \cup {"none"} =>
              resetPendingFinalization(t).job = t.job
<1> DEFINE n == [t.match EXCEPT !.final = NoCandidate]
           c == [n EXCEPT !.candidate = NoCandidate, !.ready = FALSE]
<1>1. t.match \in Matches /\ t \in Txs /\ Coherent(t) /\ NoCandidate \in Candidates
  BY DEF Reached, Txs, NoCandidate, Candidates
<1>2. /\ n \in Matches /\ n.candidate = t.match.candidate /\ n.ready = t.match.ready
      /\ n.disposition = t.match.disposition
      /\ c \in Matches /\ c.candidate = NoCandidate /\ ~c.ready
      /\ c.disposition = t.match.disposition
  BY <1>1 DEF Matches
<1>3. Reached([t EXCEPT !.match = n]) /\ Reached([t EXCEPT !.match = c])
  <2> HIDE DEF n, c
  <2>1. Reached([t EXCEPT !.match = n])
    BY <1>1, <1>2, MatchReplaced DEF Reached, Coherent
  <2>2. Reached([t EXCEPT !.match = c])
    BY <1>2, ForgetReached
  <2> QED BY <2>1, <2>2
<1>4. CASE t.match.feed = "terminal"
  BY <1>4 DEF resetPendingFinalization
<1>5. CASE t.match.feed # "terminal" /\ t.match.candidate = NoCandidate
  <2>1. resetPendingFinalization(t) = [t EXCEPT !.match = n]
    BY <1>1, <1>5 DEF resetPendingFinalization, Txs
  <2> HIDE DEF n, c
  <2> QED BY <1>1, <1>2, <1>3, <1>5, <2>1 DEF Txs, Coherent
<1>6. CASE t.match.feed # "terminal" /\ t.match.candidate # NoCandidate /\ ~t.match.ready
  <2>1. resetPendingFinalization(t) = [t EXCEPT !.match = c]
    BY <1>1, <1>6 DEF resetPendingFinalization, Txs, Matches
  <2> HIDE DEF n, c
  <2> QED BY <1>1, <1>2, <1>3, <2>1 DEF Txs
<1>7. CASE t.match.feed # "terminal" /\ t.match.candidate # NoCandidate /\ t.match.ready
  <2> DEFINE h == holdSettlementJob(t)
             a == [t EXCEPT !.match = n]
             r == [a EXCEPT !.job = h.job]
  <2>1. /\ Reached(h) /\ h.match = t.match /\ h.market = t.market /\ h.job.action = t.job.action
        /\ h \in Txs /\ h.job \in Jobs
        /\ t.job.status \notin Retryable \cup {"none"} => h.job = t.job
    BY HeldReached DEF Reached, Txs
  <2>2. CASE h.ok
    <3>1. resetPendingFinalization(t) = [h EXCEPT !.match = c, !.ok = t.ok]
      BY <1>1, <1>7, <2>1, <2>2 DEF resetPendingFinalization, Txs, Matches
    <3>2. h.ok = TRUE /\ t.ok = TRUE
      BY <1>1, <2>1, <2>2 DEF holdSettlementJob, Abort, Txs
    <3>3. resetPendingFinalization(t) = [h EXCEPT !.match = c]
      BY <3>1, <3>2, <2>1 DEF Txs
    <3> HIDE DEF h, n, c
    <3>4. Reached([h EXCEPT !.match = c])
      BY <2>1, <1>2, ForgetReached
    <3> QED BY <1>1, <1>2, <2>1, <3>2, <3>3, <3>4 DEF Txs
  <2>3. CASE ~h.ok
    <3>1. resetPendingFinalization(t) = [t EXCEPT !.match = n]
      BY <1>1, <1>7, <2>3 DEF resetPendingFinalization, Txs
    <3>2. t.ok => t.job.status \notin Retryable \cup {"none"}
      BY <2>3 DEF holdSettlementJob
    <3> HIDE DEF h, n, c
    <3> QED BY <1>1, <1>2, <1>3, <3>1, <3>2 DEF Txs
  <2> QED BY <2>2, <2>3
<1> QED BY <1>4, <1>5, <1>6, <1>7

LEMMA EnqueueSettleReached ==
  ASSUME NEW t, Reached(t)
  PROVE  /\ Reached(enqueueSettlementJobs(t))
         /\ enqueueSettlementJobs(t).match = t.match
         /\ enqueueSettlementJobs(t).market = t.market
         /\ enqueueSettlementJobs(t).job # t.job =>
              /\ enqueueSettlementJobs(t).job.action = "settle" /\ SettlesNow(t.match)
              /\ t.job.status \in Retryable \cup {"none"}
<1> DEFINE j == JobOf(t.match.candidate)
<1>1. t \in Txs /\ t.job \in Jobs /\ t.match \in Matches /\ Coherent(t)
  BY DEF Reached, Txs
<1>2. CASE ~t.ok \/ ~SettlesNow(t.match)
  BY <1>2 DEF enqueueSettlementJobs
<1>3. CASE t.ok /\ SettlesNow(t.match) /\ t.job.status \in Retryable \cup {"none"}
  <2>1. t.match.candidate \in Candidates /\ t.match.candidate.revision > 0
    BY <1>1, <1>3 DEF SettlesNow, Coherent, Matches
  <2>2. j \in Jobs /\ j.status = "pending" /\ j.action = "settle" /\ j.revision > 0
    BY <2>1 DEF JobOf, Jobs, JobStatuses, Candidates
  <2>3. enqueueSettlementJobs(t) = t \/ enqueueSettlementJobs(t) = [t EXCEPT !.job = j]
    BY <1>3 DEF enqueueSettlementJobs
  <2>4. t.job.status # "processing"
    BY <1>3 DEF Retryable
  <2> HIDE DEF j
  <2>5. Reached([t EXCEPT !.job = j])
    BY <2>2, <2>4, JobReplaced
  <2> QED BY <1>1, <1>3, <2>2, <2>3, <2>5 DEF Txs
<1>4. CASE t.ok /\ SettlesNow(t.match) /\ t.job.status \notin Retryable \cup {"none"}
  <2>1. enqueueSettlementJobs(t) = t \/ enqueueSettlementJobs(t) = Abort(t)
    BY <1>4 DEF enqueueSettlementJobs
  <2> QED BY <1>1, <2>1, AbortReached DEF Abort, Txs
<1> QED BY <1>2, <1>3, <1>4

LEMMA EnqueueVoidReached ==
  ASSUME NEW t, Reached(t)
  PROVE  /\ Reached(enqueueVoidJobs(t))
         /\ enqueueVoidJobs(t).match = t.match
         /\ enqueueVoidJobs(t).market = t.market
         /\ enqueueVoidJobs(t).job # t.job =>
              /\ enqueueVoidJobs(t).job.action = "void"
              /\ t.job.status \in Retryable \cup {"none"}
              /\ t.market.lifecycle \notin Closed /\ t.market.claimed = 0
              /\ t.match.disposition # "settle"
<1> DEFINE j == voidJobConversionUpdate(t.job)
<1>1. t \in Txs /\ t.job \in Jobs /\ t.market \in Markets /\ Coherent(t)
  BY DEF Reached, Txs
<1>2. j \in Jobs /\ j.status = "pending" /\ j.action = "void"
  BY DEF voidJobConversionUpdate, Jobs, JobStatuses
<1>3. \/ enqueueVoidJobs(t) = t
      \/ enqueueVoidJobs(t) = Abort(t)
      \/ /\ enqueueVoidJobs(t) = [t EXCEPT !.job = j]
         /\ t.job.status \in Retryable \cup {"none"}
         /\ t.market.lifecycle \notin Closed /\ ~(t.market.claimed > 0)
         /\ t.match.disposition # "settle"
  <2> HIDE DEF j
  <2>1. CASE ~t.ok \/ t.market.lifecycle \in Closed
    BY <2>1 DEF enqueueVoidJobs, Closed
  <2>2. CASE t.ok /\ t.market.lifecycle \notin Closed
    <3>1. \/ enqueueVoidJobs(t) = t \/ enqueueVoidJobs(t) = Abort(t)
          \/ /\ enqueueVoidJobs(t) = enqueueVoidJob(t) /\ ~(t.market.claimed > 0)
             /\ t.match.disposition # "settle"
      BY <2>2 DEF enqueueVoidJobs, Closed
    <3>2. \/ enqueueVoidJob(t) = t \/ enqueueVoidJob(t) = Abort(t)
          \/ /\ enqueueVoidJob(t) = [t EXCEPT !.job = j]
             /\ t.job.status \in Retryable \cup {"none"}
      BY DEF enqueueVoidJob, j, Retryable
    <3> QED BY <2>2, <3>1, <3>2
  <2> QED BY <2>1, <2>2
<1>4. t.job.status \in Retryable \cup {"none"} => t.job.status # "processing"
  BY DEF Retryable
<1> HIDE DEF j
<1>5. t.job.status \in Retryable \cup {"none"} => Reached([t EXCEPT !.job = j])
  BY <1>2, <1>4, JobReplaced
<1> QED BY <1>1, <1>2, <1>3, <1>5, AbortReached DEF Txs, Abort, Markets

LEMMA GateKeeps ==
  ASSUME NEW t, Reached(t), NEW lifecycle, NEW b, NEW final
  PROVE  /\ SetProviderMarketGate(t, lifecycle, b, final).match = t.match
         /\ SetProviderMarketGate(t, lifecycle, b, final).job = t.job
BY DEF SetProviderMarketGate, Reached, Txs, Abort

LEMMA ProjectedReached ==
  ASSUME NEW t, Reached(t)
  PROVE  /\ Reached(projectMarkets(t))
         /\ projectMarkets(t).match = t.match /\ projectMarkets(t).job = t.job
         /\ ~t.ok => ~projectMarkets(t).ok
<1>1. t \in Txs /\ t.match \in Matches /\ Coherent(t) /\ t.match.blocked \in BOOLEAN
  BY DEF Reached, Txs, Matches
<1>2. ASSUME NEW r, Reached(r), r.match = t.match
      PROVE  /\ Offered(r, NoFinal)
             /\ t.match.ready => Offered(r, [revision |-> t.match.candidate.revision,
                                              score |-> t.match.candidate.score])
  BY <1>1, <1>2 DEF Offered, Coherent
<1> DEFINE F == [revision |-> t.match.candidate.revision, score |-> t.match.candidate.score]
<1> HIDE DEF F
<1>7. ASSUME NEW r, Reached(r), r.match = t.match, r.job = t.job, NEW b \in BOOLEAN,
             NEW lifecycle \in {"open", "settling"}, NEW final,
             final = NoFinal \/ (t.match.ready /\ final = F)
      PROVE  LET g == SetProviderMarketGate(r, lifecycle, b, final)
             IN  Reached(g) /\ g.match = t.match /\ g.job = t.job
  <2>1. Offered(r, final)
    BY <1>2, <1>7 DEF F
  <2> QED BY <1>7, <2>1, GateReached, GateKeeps
<1>3. /\ Reached(ProjectAbandoned(t))
      /\ ProjectAbandoned(t).match = t.match /\ ProjectAbandoned(t).job = t.job
  <2>1. PICK final : /\ final = NoFinal \/ (t.match.ready /\ final = F)
                     /\ \/ ProjectAbandoned(t) = t
                        \/ ProjectAbandoned(t) = SetProviderMarketGate(t, "settling", TRUE, final)
    BY DEF ProjectAbandoned, F
  <2>2. LET g == SetProviderMarketGate(t, "settling", TRUE, final)
        IN  Reached(g) /\ g.match = t.match /\ g.job = t.job
    BY <1>7, <2>1
  <2> QED BY <2>1, <2>2
<1>4. /\ Reached(ProjectCurrent(t))
      /\ ProjectCurrent(t).match = t.match /\ ProjectCurrent(t).job = t.job
  <2>1. PICK lifecycle \in {"open", "settling"} :
           \/ ProjectCurrent(t) = t
           \/ ProjectCurrent(t) = SetProviderMarketGate(t, lifecycle, t.match.blocked, NoFinal)
    BY DEF ProjectCurrent
  <2>2. LET g == SetProviderMarketGate(t, lifecycle, t.match.blocked, NoFinal)
        IN  Reached(g) /\ g.match = t.match /\ g.job = t.job
    BY <1>1, <1>7
  <2> QED BY <2>1, <2>2
<1>5. ASSUME NEW r, Reached(r), r.match = t.match, r.job = t.job
      PROVE  /\ Reached(ProjectFinal(r))
             /\ ProjectFinal(r).match = t.match /\ ProjectFinal(r).job = t.job
  <2>1. \/ ProjectFinal(r) = r
        \/ /\ t.match.ready
           /\ ProjectFinal(r) = SetProviderMarketGate(r, "settling", TRUE, F)
    BY <1>5 DEF ProjectFinal, F
  <2>2. t.match.ready =>
          LET g == SetProviderMarketGate(r, "settling", TRUE, F)
          IN  Reached(g) /\ g.match = t.match /\ g.job = t.job
    BY <1>5, <1>7
  <2> QED BY <1>5, <2>1, <2>2
<1>6. Reached(projectMarkets(t)) /\ projectMarkets(t).match = t.match
      /\ projectMarkets(t).job = t.job
  BY <1>3, <1>4, <1>5 DEF projectMarkets
<1> QED BY <1>6 DEF projectMarkets

-----------------------------------------------------------------------------
(* New revisions.                                                          *)

LEMMA GreatestExists ==
  ASSUME NEW S, IsFiniteSet(S), S \subseteq Nat, S # {}
  PROVE  \E n \in S : \A k \in S : k <= n
<1> DEFINE Bad(T) == /\ IsFiniteSet(T) /\ T \subseteq Nat /\ T # {}
                     /\ ~ \E n \in T : \A k \in T : k <= n
           Sizes == {c \in Nat : \E T : Bad(T) /\ Cardinality(T) = c}
<1>1. SUFFICES ASSUME Bad(S) PROVE FALSE
  OBVIOUS
<1>2. Cardinality(S) \in Sizes
  BY <1>1, FS_CardinalityType
<1>3. PICK c \in Sizes : \A d \in Sizes : c <= d
  BY <1>2, LeastNatural
<1>4. PICK T : Bad(T) /\ Cardinality(T) = c
  BY <1>3
<1>5. PICK x : x \in T
  BY <1>4
<1> DEFINE U == T \ {x}
<1>6. IsFiniteSet(U) /\ Cardinality(U) = c - 1 /\ U \subseteq Nat /\ Cardinality(U) \in Nat
  BY <1>4, <1>5, FS_RemoveElement, FS_CardinalityType
<1>7. ~Bad(U)
  BY <1>3, <1>6
<1>8. CASE U = {}
  <2>1. T = {x}
    BY <1>5, <1>8
  <2> QED BY <2>1, <1>4
<1>9. CASE U # {}
  <2>1. PICK n \in U : \A k \in U : k <= n
    BY <1>6, <1>7, <1>9
  <2>2. x \in Nat /\ n \in Nat /\ n \in T /\ \A k \in T : k = x \/ k <= n
    BY <1>4, <1>5, <2>1
  <2>3. CASE x <= n
    BY <2>2, <2>3, <1>4
  <2>4. CASE ~(x <= n)
    <3>1. \A k \in T : k <= x
      BY <2>2, <2>4, <1>4
    <3> QED BY <3>1, <1>4, <1>5
  <2> QED BY <2>3, <2>4
<1> QED BY <1>8, <1>9

LEMMA KnownFinite ==
  ASSUME TypeOK
  PROVE  /\ IsFiniteSet(Known) /\ Known \subseteq Nat /\ 0 \in Known
<1> DEFINE W == {worker[w].revision : w \in Workers}
           C == {closing[u].revision : u \in Users}
           B == {0, market.revision, market.claimed, job.revision, match.candidate.revision}
<1>1. IsFiniteSet(W)
  <2> DEFINE f == [w \in Workers |-> worker[w].revision]
  <2>1. f \in Surjection(Workers, W)
    BY DEF Surjection
  <2> HIDE DEF f, W
  <2> QED BY <2>1, FS_Surjection, SettlementAssumption
<1>2. IsFiniteSet(C)
  <2> DEFINE f == [u \in Users |-> closing[u].revision]
  <2>1. f \in Surjection(Users, C)
    BY DEF Surjection
  <2> HIDE DEF f, C
  <2> QED BY <2>1, FS_Surjection, SettlementAssumption
<1>3. IsFiniteSet(B)
  <2> DEFINE a == market.revision
             b == market.claimed
             c == job.revision
             d == match.candidate.revision
  <2> HIDE DEF a, b, c, d
  <2>1. \A S, x : IsFiniteSet(S) => IsFiniteSet(S \cup {x})
    BY FS_AddElement
  <2>2. IsFiniteSet({} \cup {0})
    BY <2>1, FS_EmptySet
  <2>3. IsFiniteSet(((({} \cup {0}) \cup {a}) \cup {b}) \cup {c})
    BY <2>1, <2>2
  <2>4. IsFiniteSet((((({} \cup {0}) \cup {a}) \cup {b}) \cup {c}) \cup {d})
    BY <2>1, <2>3
  <2>5. {0, a, b, c, d} = (((({} \cup {0}) \cup {a}) \cup {b}) \cup {c}) \cup {d}
    OBVIOUS
  <2>6. IsFiniteSet({0, a, b, c, d})
    BY <2>4, <2>5
  <2> QED BY <2>6 DEF a, b, c, d
<1>4. W \subseteq Nat /\ C \subseteq Nat /\ B \subseteq Nat
  <2>1. \A w \in Workers : worker[w].revision \in Nat
    BY DEF TypeOK, Processors
  <2>2. \A u \in Users : closing[u].revision \in Nat
    BY DEF TypeOK
  <2>3. match \in Matches /\ market \in Markets /\ job \in Jobs
    BY DEF TypeOK
  <2>4. B \subseteq Nat
    BY <2>3 DEF Markets, Jobs, Matches, Candidates
  <2> QED BY <2>1, <2>2, <2>4
<1>5. Known = (B \cup W) \cup C
  BY DEF Known
<1> HIDE DEF W, C
<1>6. IsFiniteSet((B \cup W) \cup C)
  BY <1>1, <1>2, <1>3, FS_Union
<1>7. 0 \in B
  OBVIOUS
<1> HIDE DEF B
<1> QED BY <1>4, <1>5, <1>6, <1>7

\* A new revision is newer than all a document or a processor still carries.
LEMMA RevisionNew ==
  ASSUME TypeOK
  PROVE  /\ NewRevision(Known) \in Nat /\ NewRevision(Known) > 0
         /\ NewRevision(Known) > market.revision
         /\ \A w \in Workers : NewRevision(Known) > worker[w].revision
<1> DEFINE n == CHOOSE n \in Known : \A k \in Known : k <= n
<1>1. n \in Known /\ \A k \in Known : k <= n
  BY KnownFinite, GreatestExists
<1>2. n \in Nat /\ Known \subseteq Nat
  BY <1>1, KnownFinite
<1>3. NewRevision(Known) = 1 + n
  BY DEF NewRevision
<1> HIDE DEF n
<1>4. market.revision \in Known /\ \A w \in Workers : worker[w].revision \in Known
  BY DEF Known
<1>5. ASSUME NEW k \in Known PROVE k \in Nat /\ 1 + n > k
  <2>1. k \in Nat /\ k <= n
    BY <1>1, <1>2
  <2> QED BY <1>2, <2>1
<1>6. 1 + n \in Nat /\ 1 + n > 0
  BY <1>2
<1>7. 1 + n > market.revision
  BY <1>4, <1>5
<1>8. \A w \in Workers : 1 + n > worker[w].revision
  BY <1>4, <1>5
<1> QED BY <1>3, <1>6, <1>7, <1>8

-----------------------------------------------------------------------------
(* The transactions of the feed.                                           *)

Grounded == TypeOK /\ JobFollowed /\ FinalsAgree /\ ClaimHolds

LEMMA NowReached ==
  ASSUME Grounded
  PROVE  Reached(Now) /\ Now.match = match /\ Now.market = market /\ Now.job = job /\ Now.ok
<1>1. /\ Now \in Txs /\ Now.match = match /\ Now.market = market /\ Now.job = job /\ Now.ok
  BY DEF Grounded, TypeOK, Now, Tx, Txs
<1>2. Coherent(Now)
  BY <1>1 DEF Grounded, JobFollowed, FinalsAgree, ClaimHolds, Coherent
<1> QED BY <1>1, <1>2 DEF Reached

LEMMA AdvanceSound ==
  ASSUME NEW c \in Candidates, NEW score \in Nat, NEW revision \in Nat, revision > 0,
         c # NoCandidate => c.revision > 0
  PROVE  LET a == advanceFinalCandidate(c, score, revision)
         IN  /\ a \in Candidates /\ a.score = score /\ a.revision > 0
             /\ a.revision = revision \/ (a.revision = c.revision /\ c # NoCandidate
                                            /\ c.score = score)
BY FinalizationAssumption DEF advanceFinalCandidate, Candidates

\* A reported match document: its candidate is the old one, a new one, or gone.
Renewed(m) ==
  \/ m.candidate = NoCandidate /\ ~m.ready
  \/ /\ m.candidate.revision > 0 /\ m.candidate.score \in Scores
     /\ \/ m.candidate.revision = NewRevision(Known)
        \/ /\ match.candidate # NoCandidate
           /\ m.candidate.revision = match.candidate.revision
           /\ m.candidate.score = match.candidate.score

LEMMA SummarisedSound ==
  ASSUME Grounded, NEW report \in Reports(match)
  PROVE  LET s == Summarised(match, report, NewRevision(Known))
         IN  s \in Matches /\ Renewed(s) /\ s.contract = match.contract
             /\ s.disposition = "none"
<1>1. /\ match \in Matches /\ match.candidate \in Candidates /\ report.score \in Nat
      /\ match.candidate # NoCandidate => match.candidate.revision > 0
      /\ NewRevision(Known) \in Nat /\ NewRevision(Known) > 0 /\ NoCandidate \in Candidates
      /\ report.complete => report.score \in Scores
      /\ report.complete \in BOOLEAN
  <2>1. match \in Matches /\ match.candidate \in Candidates
        /\ (match.candidate # NoCandidate => match.candidate.revision > 0)
    BY DEF Grounded, TypeOK, FinalsAgree, Matches
  <2>2. NewRevision(Known) \in Nat /\ NewRevision(Known) > 0
    BY RevisionNew DEF Grounded
  <2>3. /\ report.score \in Scores \cup {0} /\ report.complete \in BOOLEAN
        /\ ~report.complete <=> report.score = 0
    BY DEF Reports
  <2>4. NoCandidate \in Candidates
    BY DEF NoCandidate, Candidates
  <2>5. report.score \in Nat
    <3>1. Scores \cup {0} \subseteq Nat
      BY FinalizationAssumption
    <3> QED BY <2>3, <3>1
  <2>6. report.complete => report.score \in Scores
    BY <2>3
  <2> QED BY <2>1, <2>2, <2>3, <2>4, <2>5, <2>6
<1> DEFINE a == advanceFinalCandidate(match.candidate, report.score, NewRevision(Known))
<1>2. /\ a \in Candidates /\ a.score = report.score /\ a.revision > 0
      /\ \/ a.revision = NewRevision(Known)
         \/ /\ a.revision = match.candidate.revision /\ match.candidate # NoCandidate
            /\ match.candidate.score = report.score
  BY <1>1, AdvanceSound
<1> HIDE DEF a
<1> DEFINE s == Summarised(match, report, NewRevision(Known))
<1>3. CASE ~report.complete
  BY <1>1, <1>3 DEF Summarised, Matches, Renewed
<1>4. CASE report.complete
  <2>1. s = [match EXCEPT !.candidate = a, !.ready = a.polls >= HoldPolls,
                          !.disposition = "none"]
    BY <1>4 DEF Summarised, a
  <2>2. (a.polls >= HoldPolls) \in BOOLEAN
    OBVIOUS
  <2>3. s \in Matches /\ s.candidate = a /\ s.contract = match.contract
        /\ s.disposition = "none"
    BY <1>1, <1>2, <2>1, <2>2 DEF Matches
  <2> HIDE DEF s
  <2>4. Renewed(s)
    BY <1>1, <1>2, <1>4, <2>3 DEF Renewed
  <2> QED BY <2>3, <2>4 DEF s
<1> QED BY <1>1, <1>3, <1>4

LEMMA FreezeSound ==
  ASSUME NEW current \in Matches, NEW next \in Matches, current.ready => current.candidate # NoCandidate
  PROVE  LET f == freezeAbandonmentDispositions(current, next)
         IN  /\ f \in Matches
             /\ \/ f.candidate = NoCandidate /\ ~f.ready
                \/ f.candidate = next.candidate /\ f.ready = next.ready
             /\ f.status = next.status /\ f.feed = next.feed
             /\ f.disposition = "settle" \/ (~f.ready /\ f.disposition = "void")
             /\ ~current.ready /\ current.disposition # "settle" =>
                  ~f.ready /\ f.disposition = "void"
BY DEF freezeAbandonmentDispositions, Matches, Candidates, NoCandidate

LEMMA ProjectSound ==
  ASSUME Grounded, NEW report \in Reports(match), NEW other \in BOOLEAN
  PROVE  LET m == projectMatch(match, report, NewRevision(Known), other)
         IN  /\ m \in Matches /\ Renewed(m)
             /\ report.phase = "abandoned" =>
                  /\ m.status = "abandoned"
                  /\ m.disposition # "settle" => ~m.ready /\ (~other => m.feed = "terminal")
                  /\ ~match.ready /\ match.disposition # "settle" =>
                       ~m.ready /\ m.disposition # "settle"
<1> DEFINE s == Summarised(match, report, NewRevision(Known))
           n == [s EXCEPT !.innings = report.innings, !.last = report,
                          !.blocked = report.phase # "play"]
           f == freezeAbandonmentDispositions(match, n)
           c == advanceFinalCandidate(match.final, report.score, 0)
           m == projectMatch(match, report, NewRevision(Known), other)
<1>1. s \in Matches /\ Renewed(s)
  BY SummarisedSound
<1>2. /\ report.phase \in Phases /\ report.innings \in 1 .. 2 /\ report.complete \in BOOLEAN
      /\ report.score \in Nat
      /\ report \in [phase : Phases, innings : 1 .. 2, complete : BOOLEAN, score : Nat]
  <2>1. match.innings \in 1 .. 2
    BY DEF Grounded, TypeOK, Matches
  <2>2. report \in [phase : Phases, innings : match.innings .. 2,
                    complete : BOOLEAN, score : Scores \cup {0}]
    BY DEF Reports
  <2>3. match.innings .. 2 \subseteq 1 .. 2 /\ Scores \cup {0} \subseteq Nat
    BY <2>1, FinalizationAssumption
  <2> QED BY <2>2, <2>3
<1> HIDE DEF s
<1>3. (report.phase # "play") \in BOOLEAN
  OBVIOUS
<1>4. n \in Matches /\ n.candidate = s.candidate /\ n.ready = s.ready
  BY <1>1, <1>2, <1>3 DEF Matches
<1>5. match \in Matches /\ match.final \in Candidates
      /\ (match.ready => match.candidate # NoCandidate)
  BY DEF Grounded, TypeOK, Matches, FinalsAgree
<1>6. c \in Candidates /\ NoCandidate \in Candidates
  BY <1>2, <1>5, FinalizationAssumption DEF advanceFinalCandidate, Candidates, NoCandidate
<1> HIDE DEF n, c
<1>7. /\ f \in Matches
      /\ \/ f.candidate = NoCandidate /\ ~f.ready
         \/ f.candidate = n.candidate /\ f.ready = n.ready
      /\ f.disposition = "settle" \/ (~f.ready /\ f.disposition = "void")
      /\ ~match.ready /\ match.disposition # "settle" =>
           ~f.ready /\ f.disposition = "void"
  BY <1>4, <1>5, FreezeSound
<1> HIDE DEF f
<1>8. CASE report.phase = "abandoned"
  <2>1. m = [f EXCEPT !.status = "abandoned",
                      !.feed = IF other \/ abandonmentSettlementPending(f)
                                 THEN "finalizing" ELSE "terminal"]
    BY <1>8 DEF projectMatch, s, n, f
  <2>2. /\ m \in Matches /\ m.candidate = f.candidate /\ m.ready = f.ready
        /\ m.status = "abandoned" /\ m.disposition = f.disposition
        /\ ~other /\ m.disposition # "settle" => m.feed = "terminal"
    <3> HIDE DEF m
    <3> QED BY <1>7, <2>1 DEF Matches, Statuses, Feeds, abandonmentSettlementPending
  <2> HIDE DEF m
  <2>3. Renewed(m)
    BY <1>1, <1>4, <1>7, <2>2 DEF Renewed
  <2> QED BY <1>7, <2>2, <2>3 DEF m
<1>9. CASE report.phase # "abandoned"
  <2>1. m \in Matches /\ m.candidate = n.candidate /\ m.ready = n.ready
    <3>1. CASE report.phase = "play"
      <4>1. m = [n EXCEPT !.status = "live", !.feed = "healthy", !.final = NoCandidate]
        BY <3>1 DEF projectMatch, s, n
      <4> HIDE DEF m
      <4> QED BY <1>4, <1>6, <4>1 DEF Matches, Statuses, Feeds
    <3>2. CASE report.phase = "over"
      <4>1. m = [n EXCEPT !.status = "innings_break", !.feed = "finalizing"]
        BY <3>2 DEF projectMatch, s, n
      <4> HIDE DEF m
      <4> QED BY <1>4, <4>1 DEF Matches, Statuses, Feeds
    <3>3. CASE report.phase = "break"
      <4>1. m = [n EXCEPT !.status = "innings_break", !.feed = "healthy"]
        BY <3>3 DEF projectMatch, s, n
      <4> HIDE DEF m
      <4> QED BY <1>4, <4>1 DEF Matches, Statuses, Feeds
    <3>4. CASE report.phase = "finished"
      <4>1. m = [n EXCEPT !.status = "completed", !.feed = "terminal", !.final = NoCandidate]
        BY <3>4 DEF projectMatch, s, n
      <4> HIDE DEF m
      <4> QED BY <1>4, <1>6, <4>1 DEF Matches, Statuses, Feeds
    <3>5. CASE report.phase = "unsure"
      <4>1. m = [n EXCEPT !.final = c,
                   !.status = IF c.polls >= HoldPolls THEN "completed" ELSE "innings_break",
                   !.feed = IF c.polls >= HoldPolls THEN "terminal" ELSE "finalizing"]
        BY <3>5 DEF projectMatch, s, n, c
      <4> HIDE DEF m
      <4> QED BY <1>4, <1>6, <4>1 DEF Matches, Statuses, Feeds
    <3> QED BY <1>2, <1>9, <3>1, <3>2, <3>3, <3>4, <3>5 DEF Phases
  <2> HIDE DEF m
  <2>2. Renewed(m)
    BY <1>1, <1>4, <2>1 DEF Renewed
  <2> QED BY <1>9, <2>1, <2>2 DEF m
<1> QED BY <1>8, <1>9

\* Giving up a match that settles nothing closes its market.
LEMMA AbandonedGate ==
  ASSUME NEW t, Reached(t), t.match.status = "abandoned", t.match.disposition # "settle",
         projectMarkets(t).ok
  PROVE  projectMarkets(t).market.lifecycle \in {"settling"} \cup Closed
<1>1. t \in Txs /\ t.market \in Markets /\ t.market.lifecycle \in Lifecycles
  BY DEF Reached, Txs, Markets
<1>2. t.ok /\ projectMarkets(t) = ProjectAbandoned(t)
  BY DEF projectMarkets
<1>3. CASE t.market.lifecycle \in Closed
  BY <1>2, <1>3 DEF ProjectAbandoned, Closed
<1>4. CASE t.market.lifecycle \notin Closed
  <2>1. ProjectAbandoned(t) = SetProviderMarketGate(t, "settling", TRUE, NoFinal)
    BY <1>4 DEF ProjectAbandoned, Closed
  <2>2. GateMatches(t.market, "settling", NoFinal)
    BY <1>1, <1>4 DEF GateMatches, allowedLifecycleSources, Closed, Lifecycles
  <2>3. ProjectAbandoned(t) = [t EXCEPT !.market = Regated(t.market, "settling", TRUE, NoFinal)]
    BY <1>2, <2>1, <2>2 DEF SetProviderMarketGate
  <2>4. ProjectAbandoned(t).market.lifecycle = "settling"
    BY <1>1, <2>3 DEF Regated, Txs
  <2> QED BY <1>2, <2>4
<1> QED BY <1>3, <1>4

\* What a void job says of the match and its market.
VoidShape(t) ==
  /\ t.match.status = "abandoned" /\ t.match.feed = "terminal"
  /\ ~t.match.ready /\ t.match.disposition # "settle"
  /\ t.market.claimed = 0 /\ t.market.lifecycle \in {"settling", "void"}

\* A transaction as the feed may commit it.
Committed(t) ==
  /\ Reached(t)
  /\ t.ok /\ ~Fickle /\ VoidHolds =>
       /\ job.action = "void" => t.job.action = "void"
       /\ t.job.action = "void" => VoidShape(t)

LEMMA RenewedReached ==
  ASSUME Grounded, NEW t, Reached(t), t.market = market, NEW m \in Matches, Renewed(m)
  PROVE  Reached([t EXCEPT !.match = m])
<1>1. /\ m.candidate # NoCandidate => m.candidate.revision > 0 /\ m.candidate.score \in Scores
      /\ m.ready => m.candidate # NoCandidate
  BY DEF Renewed, NoCandidate
<1>2. NewRevision(Known) > market.revision
      /\ \A w \in Workers : NewRevision(Known) > worker[w].revision
  BY RevisionNew DEF Grounded
<1>3. market.revision \in Nat /\ (\A w \in Workers : worker[w].revision \in Nat)
      /\ NewRevision(Known) \in Nat
  BY RevisionNew DEF Grounded, TypeOK, Markets, Processors
<1>4. Agree(m.candidate, t.market)
  BY <1>2, <1>3 DEF Renewed, Agree, NoCandidate, Grounded, FinalsAgree
<1>5. ASSUME NEW w \in Workers, worker[w].at \in Fixing \cup {"reading"}
      PROVE  Agree(m.candidate, worker[w])
  BY <1>2, <1>3, <1>5 DEF Renewed, Agree, NoCandidate, Grounded, FinalsAgree
<1> QED BY <1>1, <1>4, <1>5, MatchReplaced

\* The end of a match that was given up.
LEMMA AbandonedCommitted ==
  ASSUME NEW t, Reached(t), t.match.status = "abandoned",
         t.match.disposition # "settle" => t.match.feed = "terminal",
         t.match.disposition # "settle" =>
           ~t.match.ready \/ t.job.status \notin Retryable \cup {"none"},
         job.action = "void" =>
           /\ VoidHolds /\ t.job.action = "void"
           /\ t.match.disposition # "settle" /\ ~t.match.ready,
         job.action = "settle" => t.job.action = "settle",
         job.action \in {"settle", "void"}
  PROVE  LET v == enqueueVoidJobs(enqueueSettlementJobs(projectMarkets(t)))
         IN  Reached(v) /\ (v.ok => /\ job.action = "void" => v.job.action = "void"
                                    /\ v.job.action = "void" => VoidShape(v))
<1> DEFINE p == projectMarkets(t)
           e == enqueueSettlementJobs(p)
           v == enqueueVoidJobs(e)
<1>1. Reached(p) /\ p.match = t.match /\ p.job = t.job
  BY ProjectedReached
<1>2. p.ok /\ t.match.disposition # "settle" => p.market.lifecycle \in {"settling"} \cup Closed
  BY AbandonedGate
<1> HIDE DEF p
<1>3. /\ Reached(e) /\ e.match = t.match /\ e.market = p.market
      /\ e.job # t.job => /\ e.job.action = "settle" /\ SettlesNow(t.match)
                          /\ t.job.status \in Retryable \cup {"none"}
  BY <1>1, EnqueueSettleReached
<1>4. e.ok => p.ok
  BY <1>1 DEF e, enqueueSettlementJobs, Reached, Txs
<1> HIDE DEF e
<1>5. /\ Reached(v) /\ v.match = t.match /\ v.market = p.market
      /\ v.job # e.job =>
           /\ v.job.action = "void" /\ e.job.status \in Retryable \cup {"none"}
           /\ p.market.lifecycle \notin Closed /\ p.market.claimed = 0
           /\ t.match.disposition # "settle"
  BY <1>3, EnqueueVoidReached
<1>6. v.ok => e.ok
  BY <1>3 DEF v, enqueueVoidJobs, Reached, Txs, Abort
<1> HIDE DEF v
<1>7. /\ p.market.claimed = market.claimed
      /\ market.lifecycle \in Closed \/ p.market.lifecycle \in Closed =>
           p.market.lifecycle = market.lifecycle
  BY <1>1 DEF Reached
<1>8. SettlesNow(t.match) => t.match.ready
  BY DEF SettlesNow
<1>9. ASSUME v.ok, job.action = "void"
      PROVE  v.job.action = "void" /\ VoidShape(v)
  <2>1. e.job = t.job
    BY <1>3, <1>8, <1>9
  <2>2. v.job.action = "void"
    BY <1>5, <1>9, <2>1
  <2>3. market.claimed = 0 /\ market.lifecycle \in {"settling", "void"}
    BY <1>9 DEF VoidHolds
  <2>4. p.market.lifecycle \in {"settling", "void"}
    BY <1>2, <1>4, <1>6, <1>7, <1>9, <2>3 DEF Closed
  <2> QED BY <1>5, <1>7, <1>9, <2>2, <2>3, <2>4 DEF VoidShape
<1>10. ASSUME v.ok, job.action = "settle", v.job.action = "void"
       PROVE  VoidShape(v)
  <2>1. e.job.action = "settle"
    BY <1>3, <1>10
  <2>2. /\ v.job # e.job /\ e.job.status \in Retryable \cup {"none"}
        /\ p.market.lifecycle \notin Closed /\ p.market.claimed = 0
        /\ t.match.disposition # "settle"
    BY <1>5, <1>10, <2>1
  <2>3. p.market.lifecycle = "settling"
    BY <1>2, <1>4, <1>6, <1>10, <2>2
  <2>4. ~t.match.ready
    BY <1>3, <2>2
  <2> QED BY <1>5, <2>2, <2>3, <2>4 DEF VoidShape
<1>11. job.action # "void" => job.action = "settle"
  OBVIOUS
<1> QED BY <1>5, <1>9, <1>10, <1>11 DEF v, e, p

\* A projection that gives nothing up makes no void job.
LEMMA SettleCommitted ==
  ASSUME NEW t, Reached(t), t.job.action = job.action, job.action # "void"
  PROVE  LET e == enqueueSettlementJobs(projectMarkets(t))
         IN  Reached(e) /\ e.job.action # "void"
<1>1. Reached(projectMarkets(t)) /\ projectMarkets(t).job = t.job
  BY ProjectedReached
<1> QED BY <1>1, EnqueueSettleReached

LEMMA ApplyCommitted ==
  ASSUME Grounded, NEW report \in Reports(match), NEW other \in BOOLEAN,
         other => Fickle /\ report.phase = "abandoned"
  PROVE  Committed(applyProjectionTransaction(Now, report, NewRevision(Known), other))
<1> DEFINE m == projectMatch(match, report, NewRevision(Known), other)
           h == holdInvalidSettlementJobs(Now, m)
           t == [h EXCEPT !.match = m]
           e == enqueueSettlementJobs(projectMarkets(t))
           r == applyProjectionTransaction(Now, report, NewRevision(Known), other)
<1>1. /\ m \in Matches /\ Renewed(m)
      /\ report.phase = "abandoned" =>
           /\ m.status = "abandoned"
           /\ m.disposition # "settle" => ~m.ready /\ (~other => m.feed = "terminal")
           /\ ~match.ready /\ match.disposition # "settle" =>
                ~m.ready /\ m.disposition # "settle"
  BY ProjectSound
<1>2. Reached(Now) /\ Now.match = match /\ Now.market = market /\ Now.job = job /\ Now.ok
  BY NowReached
<1>3. job.action \in {"settle", "void"}
  BY DEF Grounded, TypeOK, Jobs
<1> HIDE DEF m
<1>4. Reached(h) /\ h.market = market /\ h.job.action = job.action /\ h \in Txs
  <2>1. Reached(h) /\ h.market = market /\ h.job.action = job.action
    BY <1>2, HeldReached DEF holdInvalidSettlementJobs
  <2> QED BY <2>1 DEF Reached
<1>5. r = IF TerminalRegression(match, report) THEN Abort(Now)
          ELSE IF report.phase = "abandoned" THEN enqueueVoidJobs(e) ELSE e
  BY <1>2 DEF applyProjectionTransaction, m
<1> HIDE DEF h
<1>6. Reached(t) /\ t.match = m /\ t.job.action = job.action
  <2>1. Reached(t)
    BY <1>1, <1>4, RenewedReached
  <2> QED BY <2>1, <1>4 DEF Txs
<1> HIDE DEF t
<1>7. CASE TerminalRegression(match, report)
  <2>1. Reached(Abort(Now)) /\ ~Abort(Now).ok
    BY <1>2, AbortReached DEF Abort, Reached, Txs
  <2> QED BY <1>5, <1>7, <2>1 DEF Committed
<1>8. CASE ~TerminalRegression(match, report) /\ report.phase # "abandoned"
  <2>1. r = e
    BY <1>5, <1>8
  <2>2. VoidHolds => job.action # "void"
    <3>1. report.phase \in Phases
      BY DEF Reports
    <3> QED BY <1>8, <3>1 DEF VoidHolds, TerminalRegression, StatusOf, Phases
  <2>3. Reached(e) /\ (job.action # "void" => e.job.action # "void")
    <3>1. Reached(e)
      BY <1>6, ProjectedReached, EnqueueSettleReached
    <3> QED BY <1>6, <3>1, SettleCommitted
  <2> QED BY <2>1, <2>2, <2>3 DEF Committed
<1>9. CASE ~TerminalRegression(match, report) /\ report.phase = "abandoned"
  <2>1. r = enqueueVoidJobs(e)
    BY <1>5, <1>9
  <2>2. Reached(enqueueVoidJobs(e))
    BY <1>6, ProjectedReached, EnqueueSettleReached, EnqueueVoidReached
  <2>3. ASSUME ~Fickle, VoidHolds
        PROVE  r.ok => /\ job.action = "void" => r.job.action = "void"
                       /\ r.job.action = "void" => VoidShape(r)
    <3>1. ~other
      BY <2>3
    <3>2. /\ t.match.status = "abandoned"
          /\ t.match.disposition # "settle" => t.match.feed = "terminal" /\ ~t.match.ready
      BY <1>1, <1>6, <1>9, <3>1
    <3>3. job.action = "void" => t.match.disposition # "settle" /\ ~t.match.ready
      BY <1>1, <1>6, <1>9, <2>3 DEF VoidHolds
    <3> QED BY <1>3, <1>6, <2>1, <2>3, <3>2, <3>3, AbandonedCommitted
  <2> QED BY <2>1, <2>2, <2>3 DEF Committed
<1> QED BY <1>7, <1>8, <1>9 DEF r

LEMMA ResetHoldsCommitted ==
  ASSUME Grounded
  PROVE  Committed(ResetFinalizationHolds(Now))
<1>1. Reached(Now) /\ Now.match = match /\ Now.market = market /\ Now.job = job
  BY NowReached
<1>2. CASE ResetFinalizationHolds(Now) = Now
  BY <1>1, <1>2 DEF Committed, VoidHolds, VoidShape
<1>3. CASE /\ match.feed # "terminal"
           /\ ResetFinalizationHolds(Now) = projectMarkets(resetPendingFinalization(Now))
  <2>1. LET r == resetPendingFinalization(Now)
        IN  Reached(r) /\ r.job.action = job.action
    BY <1>1, ResetReached
  <2>2. LET p == projectMarkets(resetPendingFinalization(Now))
        IN  Reached(p) /\ p.job.action = job.action
    BY <2>1, ProjectedReached
  <2> QED BY <1>3, <2>2 DEF Committed, VoidHolds
<1> QED BY <1>1, <1>2, <1>3 DEF ResetFinalizationHolds

LEMMA MarkFeedCommitted ==
  ASSUME Grounded, match.feed \in {"healthy", "finalizing"}
  PROVE  Committed(markFeedConditionally(Now))
<1> DEFINE r == resetPendingFinalization(Now)
           m == [r.match EXCEPT !.feed = "stale", !.blocked = TRUE]
           t == [r EXCEPT !.match = m]
<1>1. Reached(r) /\ r.job.action = job.action /\ r.market = market
  BY NowReached, ResetReached
<1>2. r \in Txs /\ r.match \in Matches /\ Coherent(r)
  BY <1>1 DEF Reached, Txs
<1>3. markFeedConditionally(Now) = projectMarkets(t)
  BY <1>2 DEF markFeedConditionally, Txs
<1> HIDE DEF r
<1>4. m \in Matches /\ m.candidate = r.match.candidate /\ m.ready = r.match.ready
  BY <1>2 DEF Matches, Feeds
<1> HIDE DEF m
<1>5. Reached(t)
  <2>1. Coherent(r)
    BY <1>2
  <2> QED BY <1>1, <1>4, <2>1, MatchReplaced DEF Coherent
<1>6. t.job.action = job.action
  BY <1>1, <1>2 DEF Txs
<1>7. VoidHolds => job.action # "void"
  BY DEF VoidHolds
<1> HIDE DEF t
<1> QED BY <1>3, <1>5, <1>6, <1>7, ProjectedReached DEF Committed

LEMMA TerminalStateSound ==
  ASSUME NEW m \in Matches, NEW status \in {"completed", "abandoned"}
  PROVE  LET c == applyTerminalMatchState(m, status)
         IN  /\ c \in Matches /\ c.status = status /\ c.feed = "terminal"
             /\ c.candidate = m.candidate /\ c.ready = m.ready
             /\ c.disposition = m.disposition
<1>1. NoCandidate \in Candidates
  BY DEF NoCandidate, Candidates
<1> QED BY <1>1 DEF applyTerminalMatchState, Matches, Statuses, Feeds

LEMMA ClosureCommitted ==
  ASSUME Grounded, NEW status \in {"completed", "abandoned"},
         match.feed # "terminal" \/ Fickle
  PROVE  Committed(ApplyProviderTerminalClosure(Now, status))
<1> DEFINE r == resetPendingFinalization(Now)
           m == applyTerminalMatchState(r.match, status)
           t == [r EXCEPT !.match = m]
           e == enqueueSettlementJobs(projectMarkets(t))
<1>1. /\ Reached(r) /\ r.job.action = job.action /\ r.market = market
      /\ match.feed # "terminal" =>
           ~r.match.ready \/ job.status \notin Retryable \cup {"none"}
      /\ job.status \notin Retryable \cup {"none"} => r.job = job
  BY NowReached, ResetReached
<1>2. r \in Txs /\ r.match \in Matches /\ Coherent(r)
  BY <1>1 DEF Reached, Txs
<1>3. ApplyProviderTerminalClosure(Now, status) =
        IF status = "abandoned" THEN enqueueVoidJobs(e) ELSE e
  BY <1>2 DEF ApplyProviderTerminalClosure, Txs
<1> HIDE DEF r
<1>4. /\ m \in Matches /\ m.status = status /\ m.feed = "terminal"
      /\ m.candidate = r.match.candidate /\ m.ready = r.match.ready
  BY <1>2, TerminalStateSound
<1> HIDE DEF m
<1>5. Reached(t)
  BY <1>1, <1>2, <1>4, MatchReplaced DEF Coherent
<1>6. t.job.action = job.action /\ t.match = m /\ t.job = r.job
  BY <1>1, <1>2 DEF Txs
<1> HIDE DEF t
<1>7. Reached(e) /\ Reached(enqueueVoidJobs(e))
  BY <1>5, ProjectedReached, EnqueueSettleReached, EnqueueVoidReached
<1>8. VoidHolds /\ ~Fickle => job.action # "void"
  BY DEF VoidHolds
<1>9. job.action \in {"settle", "void"}
  BY DEF Grounded, TypeOK, Jobs
<1>10. CASE status = "completed"
  <2>1. job.action # "void" => e.job.action # "void"
    BY <1>5, <1>6, SettleCommitted
  <2> QED BY <1>3, <1>7, <1>8, <1>10, <2>1 DEF Committed
<1>11. CASE status = "abandoned"
  <2>1. ASSUME ~Fickle, VoidHolds
        PROVE  LET v == enqueueVoidJobs(e)
               IN  v.ok => /\ job.action = "void" => v.job.action = "void"
                           /\ v.job.action = "void" => VoidShape(v)
    <3>1. ~t.match.ready \/ t.job.status \notin Retryable \cup {"none"}
      BY <1>1, <1>4, <1>6, <2>1
    <3> QED BY <1>4, <1>5, <1>6, <1>8, <1>9, <1>11, <2>1, <3>1, AbandonedCommitted
  <2> QED BY <1>3, <1>7, <1>11, <2>1 DEF Committed
<1> QED BY <1>10, <1>11

LEMMA DeadMatchCommitted ==
  ASSUME Grounded, match.feed = "stale"
  PROVE  Committed(abandonDeadMatch(Now))
<1> DEFINE r == resetPendingFinalization(Now)
           c == applyTerminalMatchState(r.match, "abandoned")
           m == freezeAbandonmentDispositions(r.match, c)
           t == [r EXCEPT !.match = m]
           e == enqueueSettlementJobs(projectMarkets(t))
<1>1. Reached(r) /\ r.job.action = job.action /\ r.market = market
  BY NowReached, ResetReached
<1>2. r \in Txs /\ r.match \in Matches /\ Coherent(r)
  BY <1>1 DEF Reached, Txs
<1>3. abandonDeadMatch(Now) = enqueueVoidJobs(e)
  BY <1>2 DEF abandonDeadMatch, Txs
<1> HIDE DEF r
<1>4. /\ c \in Matches /\ c.status = "abandoned" /\ c.feed = "terminal"
      /\ c.candidate = r.match.candidate /\ c.ready = r.match.ready
  BY <1>2, TerminalStateSound
<1> HIDE DEF c
<1>5. /\ m \in Matches /\ m.status = "abandoned" /\ m.feed = "terminal"
      /\ \/ m.candidate = NoCandidate /\ ~m.ready
         \/ m.candidate = r.match.candidate /\ m.ready = r.match.ready
      /\ m.disposition # "settle" => ~m.ready
  BY <1>2, <1>4, FreezeSound DEF Coherent
<1> HIDE DEF m
<1>6. Reached(t)
  <2>1. CASE m.candidate = NoCandidate /\ ~m.ready
    BY <1>1, <1>5, <2>1, ForgetReached
  <2>2. CASE m.candidate = r.match.candidate /\ m.ready = r.match.ready
    BY <1>1, <1>2, <1>5, <2>2, MatchReplaced DEF Coherent
  <2> QED BY <1>5, <2>1, <2>2
<1>7. t.job.action = job.action /\ t.match = m
  BY <1>1, <1>2 DEF Txs
<1> HIDE DEF t
<1>8. Reached(enqueueVoidJobs(e))
  BY <1>6, ProjectedReached, EnqueueSettleReached, EnqueueVoidReached
<1>9. VoidHolds => job.action # "void"
  BY DEF VoidHolds
<1>10. job.action \in {"settle", "void"}
  BY DEF Grounded, TypeOK, Jobs
<1>11. ASSUME VoidHolds
       PROVE  LET v == enqueueVoidJobs(e)
              IN  v.ok => /\ job.action = "void" => v.job.action = "void"
                          /\ v.job.action = "void" => VoidShape(v)
  BY <1>5, <1>6, <1>7, <1>9, <1>10, <1>11, AbandonedCommitted
<1> QED BY <1>3, <1>8, <1>11 DEF Committed

LEMMA FeedCommits ==
  ASSUME Grounded, Feed
  PROVE  \E t : /\ Committed(t) /\ t.ok /\ Commit(t)
                /\ UNCHANGED <<worker, books, orderVars>>
<1>1. Committed(Now) /\ Now.ok
  BY NowReached DEF Committed, VoidHolds, VoidShape
<1>2. CASE \E report \in Reports(match), other \in BOOLEAN :
             /\ other => Fickle /\ match.contract = 2 /\ report.phase = "abandoned"
             /\ Poll(report, other)
  <2>1. PICK report \in Reports(match), other \in BOOLEAN :
               /\ other => Fickle /\ report.phase = "abandoned"
               /\ Polled(report, other)
    BY <1>2 DEF Poll
  <2>2. Committed(applyProjectionTransaction(Now, report, NewRevision(Known), other))
    BY <2>1, ApplyCommitted
  <2>3. Committed(ResetFinalizationHolds(Now))
    BY ResetHoldsCommitted
  <2>4. Committed(PollResult(report, other)) /\ PollResult(report, other).ok
    BY <1>1, <2>2, <2>3 DEF PollResult
  <2> QED BY <2>1, <2>4 DEF Polled, FeedUnchanged
<1>3. CASE Outage
  <2>1. CASE Commits(ResetFinalizationHolds(Now))
    BY <1>3, <2>1, ResetHoldsCommitted DEF Outage, Commits, FeedUnchanged
  <2>2. CASE match.feed \in {"healthy", "finalizing"} /\ Commits(markFeedConditionally(Now))
    BY <1>3, <2>2, MarkFeedCommitted DEF Outage, Commits, FeedUnchanged
  <2>3. CASE \E status \in {"completed", "abandoned"} :
               /\ match.feed # "terminal" \/ (Fickle /\ match.status # status)
               /\ Commits(ApplyProviderTerminalClosure(Now, status))
    <3>1. PICK status \in {"completed", "abandoned"} :
                 /\ match.feed # "terminal" \/ Fickle
                 /\ Commits(ApplyProviderTerminalClosure(Now, status))
      BY <2>3
    <3> QED BY <1>3, <3>1, ClosureCommitted DEF Outage, Commits, FeedUnchanged
  <2>4. CASE match.feed = "stale" /\ Commits(abandonDeadMatch(Now))
    BY <1>3, <2>4, DeadMatchCommitted DEF Outage, Commits, FeedUnchanged
  <2> QED BY <1>3, <2>1, <2>2, <2>3, <2>4 DEF Outage
<1> QED BY <1>2, <1>3 DEF Feed

-----------------------------------------------------------------------------
(* The books.                                                              *)

LEMMA FillPriced ==
  ASSUME NEW e \in Fills
  PROVE  e.price \in Nat /\ e.price > 0 /\ Spend(e) \in Int
<1>1. e.price \in Prices /\ e.side \in {"buy", "sell"}
  BY DEF Fills
<1>2. \A p \in Prices : p \in Nat /\ p > 0
  BY SettlementAssumption
<1> QED BY <1>1, <1>2 DEF Spend

LEMMA CashDeltaInt ==
  ASSUME NEW h \in Seq(Fills), NEW u
  PROVE  CashDelta(h, u) \in Int
<1> DEFINE f == [n \in DOMAIN h |-> IF n \in FillsOf(h, u) THEN Spend(h[n]) ELSE 0]
<1>1. DOMAIN h = 1 .. Len(h) /\ Len(h) \in Nat
  OBVIOUS
<1>2. \A i \in 1 .. Len(h) : h[i] \in Fills /\ Spend(h[i]) \in Int
  BY FillPriced
<1>3. \A i \in 1 .. Len(h) : f[i] \in Int
  BY <1>1, <1>2
<1> HIDE DEF f
<1> QED BY <1>1, <1>3, TotalInt DEF CashDelta, f

LEMMA CashDeltaAppend ==
  ASSUME NEW h \in Seq(Fills), NEW e \in Fills, NEW u
  PROVE  CashDelta(Append(h, e), u)
           = CashDelta(h, u) + (IF e.user = u THEN Spend(e) ELSE 0)
<1> DEFINE n == Len(h)
           k == Append(h, e)
           f == [i \in DOMAIN h |-> IF i \in FillsOf(h, u) THEN Spend(h[i]) ELSE 0]
           g == [i \in DOMAIN k |-> IF i \in FillsOf(k, u) THEN Spend(k[i]) ELSE 0]
<1>1. /\ DOMAIN h = 1 .. n /\ n \in Nat /\ DOMAIN k = 1 .. n + 1 /\ Len(k) = n + 1
      /\ k[n + 1] = e /\ \A i \in 1 .. n : k[i] = h[i]
  OBVIOUS
<1>2. \A i \in 1 .. n : h[i] \in Fills /\ Spend(h[i]) \in Int
  BY FillPriced
<1> HIDE DEF k, n
<1>3. \A i \in 1 .. n : f[i] \in Int /\ g[i] = f[i]
  BY <1>1, <1>2 DEF FillsOf
<1>4. g[n + 1] = IF e.user = u THEN Spend(e) ELSE 0
  BY <1>1 DEF FillsOf
<1> HIDE DEF f, g
<1>5. Total(g, n + 1) = Total(f, n) + g[n + 1]
  BY <1>1, <1>3, TotalAppend
<1>6. CashDelta(h, u) = Total(f, n) /\ CashDelta(k, u) = Total(g, n + 1)
  BY <1>1 DEF CashDelta, f, g, n
<1> QED BY <1>4, <1>5, <1>6 DEF k

-----------------------------------------------------------------------------
(* Types.                                                                  *)

LEMMA IdleTyped == Idle \in Processors /\ NoComp \in Comps
BY DEF Idle, NoComp, Processors, Comps, Stages

LEMMA FeedTyped ==
  ASSUME Grounded, Feed
  PROVE  TypeOK'
<1>1. PICK t : Committed(t) /\ Commit(t) /\ UNCHANGED <<worker, books, orderVars>>
  BY FeedCommits
<1>2. t.match \in Matches /\ t.market \in Markets /\ t.job \in Jobs
  BY <1>1 DEF Committed, Reached, Txs
<1>3. match' \in Matches /\ market' \in Markets /\ job' \in Jobs
      /\ lease' \in [owner : Workers \cup {NoWorker}, expired : BOOLEAN]
  BY <1>1, <1>2 DEF Commit, Grounded, TypeOK
<1> QED BY <1>1, <1>3 DEF Grounded, TypeOK, books, orderVars

LEMMA TradingTyped ==
  ASSUME TypeOK, Trading
  PROVE  TypeOK'
<1>1. \A p \in Prices : p \in Nat /\ p > 0
  BY SettlementAssumption
<1>2. Margin \in Nat
  BY SettlementAssumption
<1>3. CASE \E u \in Users, side \in {"buy", "sell"}, price \in Prices : Trade(u, side, price)
  <2>1. PICK u \in Users, side \in {"buy", "sell"}, price \in Prices : Trade(u, side, price)
    BY <1>3
  <2> DEFINE p == Moved(position[u], side, price)
             e == [user |-> u, side |-> side, price |-> price]
  <2>2. p \in [lots : Int, collateral : Nat] /\ price \in Nat
    BY <1>1, <1>2 DEF Moved, TypeOK
  <2>3. e \in Fills /\ fills' = Append(fills, e) /\ undo' = Append(undo, "none")
    BY <2>1 DEF Trade, Fills
  <2> HIDE DEF p, e
  <2>4. /\ position' = [position EXCEPT ![u] = p]
        /\ cash' = [cash EXCEPT ![u] = IF side = "buy" THEN @ - price ELSE @ + price]
        /\ reserved' = [reserved EXCEPT ![u] = @ + p.collateral - position[u].collateral]
    BY <2>1 DEF Trade, FillOf, p
  <2>5. position' \in [Users -> [lots : Int, collateral : Nat]]
        /\ cash' \in [Users -> Int] /\ reserved' \in [Users -> Int]
    <3>1. /\ position \in [Users -> [lots : Int, collateral : Nat]]
          /\ cash \in [Users -> Int] /\ reserved \in [Users -> Int]
      BY DEF TypeOK
    <3>2. position' \in [Users -> [lots : Int, collateral : Nat]]
      BY <2>2, <2>4, <3>1
    <3>3. cash' \in [Users -> Int] /\ reserved' \in [Users -> Int]
      BY <2>2, <2>4, <3>1
    <3> QED BY <3>2, <3>3
  <2>6. /\ fills' \in Seq(Fills) /\ undo' \in Seq({"none", "open", "executed"})
        /\ Len(undo') = Len(fills')
    BY <2>3 DEF TypeOK
  <2> QED BY <2>1, <2>5, <2>6 DEF Trade, TypeOK
<1>4. CASE \E u \in Users, price \in Prices : Rest(u, price)
  <2>1. PICK u \in Users, price \in Prices : Rest(u, price)
    BY <1>4
  <2>2. reserved' = [reserved EXCEPT ![u] = @ + price] /\ reserved' \in [Users -> Int]
    BY <1>1, <2>1 DEF Rest, TypeOK
  <2>3. resting' \in [Users -> Prices \cup {0}]
    BY <2>1 DEF Rest, TypeOK
  <2> QED BY <2>1, <2>2, <2>3 DEF Rest, TypeOK, feedVars, orderVars
<1>5. CASE \E u \in Users : FillResting(u)
  <2>1. PICK u \in Users : FillResting(u)
    BY <1>5
  <2> DEFINE p == Moved(position[u], "buy", resting[u])
             e == [user |-> u, side |-> "buy", price |-> resting[u]]
  <2>2. resting[u] \in Prices /\ resting[u] \in Nat
    BY <1>1, <2>1 DEF FillResting, TypeOK
  <2>3. p \in [lots : Int, collateral : Nat]
    BY <1>2, <2>2 DEF Moved, TypeOK
  <2>4. e \in Fills /\ fills' = Append(fills, e) /\ undo' = Append(undo, "none")
    BY <2>1, <2>2 DEF FillResting, Fills
  <2> HIDE DEF p, e
  <2>5. position' = [position EXCEPT ![u] = p]
    BY <2>1 DEF FillResting, p
  <2>6. position' \in [Users -> [lots : Int, collateral : Nat]]
        /\ cash' \in [Users -> Int] /\ reserved' \in [Users -> Int]
        /\ resting' \in [Users -> Prices \cup {0}]
    <3>1. position' \in [Users -> [lots : Int, collateral : Nat]]
      BY <2>3, <2>5 DEF TypeOK
    <3>2. cash' \in [Users -> Int] /\ reserved' \in [Users -> Int]
      <4>1. cash \in [Users -> Int] /\ reserved \in [Users -> Int]
        BY DEF TypeOK
      <4>2. /\ cash' = [cash EXCEPT ![u] = @ - resting[u]]
            /\ reserved' = [reserved EXCEPT ![u] = @ - resting[u]]
        BY <2>1 DEF FillResting
      <4> QED BY <2>2, <4>1, <4>2
    <3>3. resting' \in [Users -> Prices \cup {0}]
      BY <2>1 DEF FillResting, TypeOK
    <3> QED BY <3>1, <3>2, <3>3
  <2>7. /\ fills' \in Seq(Fills) /\ undo' \in Seq({"none", "open", "executed"})
        /\ Len(undo') = Len(fills')
    BY <2>4 DEF TypeOK
  <2> QED BY <2>1, <2>6, <2>7 DEF FillResting, TypeOK, feedVars
<1> QED BY <1>3, <1>4, <1>5 DEF Trading

\* The lease is the worker's to take, to lose or to renew.
LEMMA JobTyped ==
  ASSUME TypeOK, NEW w \in Workers,
         \/ ClaimSettlementJob(w) \/ CompleteSettlementJob(w) \/ Mishap(w)
         \/ maintainLease(w) \/ Renew(w) \/ Fail(w) \/ LeaseExpires
  PROVE  TypeOK'
<1>1. Idle \in Processors
  BY IdleTyped
<1>2. job \in Jobs /\ job.revision \in Nat
  BY DEF TypeOK, Jobs
<1>3. CASE ClaimSettlementJob(w)
  <2> DEFINE at == IF job.action = "void" THEN "voiding" ELSE "settling"
             r == [Idle EXCEPT !.revision = job.revision, !.at = at]
  <2>1. r \in Processors /\ worker' = [worker EXCEPT ![w] = r]
    BY <1>1, <1>2, <1>3 DEF ClaimSettlementJob, Processors, Stages
  <2> HIDE DEF r
  <2>2. worker' \in [Workers -> Processors]
    BY <2>1 DEF TypeOK
  <2>3. job' \in Jobs
    BY <1>2, <1>3 DEF ClaimSettlementJob, Jobs, JobStatuses
  <2> QED BY <1>3, <2>2, <2>3 DEF ClaimSettlementJob, TypeOK, books, orderVars
<1> DEFINE Freed == /\ job' \in Jobs
                    /\ lease' \in [owner : Workers \cup {NoWorker}, expired : BOOLEAN]
                    /\ worker' \in [Workers -> Processors]
<1>4. ASSUME Failing(w) PROVE Freed
  <2>1. /\ lease \in [owner : Workers \cup {NoWorker}, expired : BOOLEAN]
        /\ worker \in [Workers -> Processors]
    BY DEF TypeOK
  <2> QED BY <1>1, <1>2, <1>4, <2>1 DEF Failing, Jobs, JobStatuses, Unleased
<1>5. CASE CompleteSettlementJob(w)
  <2>1. Freed
    <3>1. /\ lease \in [owner : Workers \cup {NoWorker}, expired : BOOLEAN]
          /\ worker \in [Workers -> Processors]
      BY DEF TypeOK
    <3> QED BY <1>1, <1>2, <1>5, <3>1 DEF CompleteSettlementJob, Jobs, JobStatuses, Unleased
  <2> QED BY <1>5, <2>1 DEF CompleteSettlementJob, TypeOK, books, orderVars
<1>6. CASE Mishap(w)
  <2>1. Freed
    <3>1. CASE Failing(w)
      BY <1>4, <3>1
    <3>2. CASE ~Failing(w)
      <4>1. /\ lease \in [owner : Workers \cup {NoWorker}, expired : BOOLEAN]
            /\ worker \in [Workers -> Processors]
        BY DEF TypeOK
      <4>2. /\ job' = job
            /\ lease' = lease \/ lease' = [lease EXCEPT !.expired = TRUE]
            /\ worker' = worker \/ worker' = [worker EXCEPT ![w] = Idle]
        BY <1>6, <3>2 DEF Mishap
      <4> QED BY <1>1, <1>2, <4>1, <4>2
    <3> QED BY <3>1, <3>2
  <2> QED BY <1>6, <2>1 DEF Mishap, TypeOK, books, orderVars
<1>7. CASE Fail(w)
  BY <1>4, <1>7 DEF Fail, TypeOK, books, orderVars
<1>8. CASE maintainLease(w)
  BY <1>1, <1>8 DEF maintainLease, TypeOK, feedVars, books, orderVars
<1>9. CASE Renew(w) \/ LeaseExpires
  BY <1>9 DEF Renew, LeaseExpires, TypeOK, feedVars, books, orderVars
<1> QED BY <1>3, <1>5, <1>6, <1>7, <1>8, <1>9

\* A processor moves on; whatever else the step changes keeps its type.
LEMMA Moves ==
  ASSUME TypeOK, NEW w \in Workers, NEW r \in Processors,
         worker' = [worker EXCEPT ![w] = r]
  PROVE  worker' \in [Workers -> Processors]
BY DEF TypeOK

LEMMA GotoTyped ==
  ASSUME TypeOK, NEW w \in Workers, NEW at \in Stages, Goto(w, at)
  PROVE  worker' \in [Workers -> Processors]
<1> DEFINE r == [worker[w] EXCEPT !.at = at]
<1>1. worker[w] \in Processors
  BY DEF TypeOK
<1>2. r \in Processors
  BY <1>1 DEF Processors
<1>3. worker' = [worker EXCEPT ![w] = r]
  BY DEF Goto
<1> HIDE DEF r
<1> QED BY <1>2, <1>3, Moves

LEMMA GateTyped ==
  ASSUME TypeOK, NEW lifecycle \in {"settled", "void"}, NEW final \in [revision : Nat, score : Nat]
  PROVE  SetProviderMarketGate(Now, lifecycle, FALSE, final).market \in Markets
<1>1. Now \in Txs /\ Now.market = market /\ market \in Markets
  BY DEF TypeOK, Now, Tx, Txs
<1>2. Regated(market, lifecycle, FALSE, final) \in Markets
  BY <1>1 DEF Regated, Markets, NoFinal, Lifecycles
<1> HIDE DEF Regated
<1> QED BY <1>1, <1>2 DEF SetProviderMarketGate, Txs, Abort

LEMMA SetGateTyped ==
  ASSUME TypeOK, NEW w \in Workers, NEW lifecycle \in {"settled", "void"},
         NEW final \in [revision : Nat, score : Nat], SetGate(w, lifecycle, final)
  PROVE  TypeOK'
<1>1. CASE Fail(w)
  BY <1>1, JobTyped
<1>2. CASE /\ market' = SetProviderMarketGate(Now, lifecycle, FALSE, final).market
           /\ Goto(w, "done") /\ Stepping /\ UNCHANGED <<books, orderVars>>
  <2>1. market' \in Markets
    BY <1>2, GateTyped
  <2>2. worker' \in [Workers -> Processors]
    BY <1>2, GotoTyped DEF Stages
  <2> QED BY <1>2, <2>1, <2>2 DEF TypeOK, Stepping, books, orderVars
<1> QED BY <1>1, <1>2 DEF SetGate

LEMMA PayoffNatural ==
  ASSUME NEW score \in Nat
  PROVE  Payoff(score) \in Nat
BY SettlementAssumption DEF Payoff

LEMMA SettleTyped ==
  ASSUME TypeOK, NEW w \in Workers, Settle(w)
  PROVE  TypeOK'
<1>1. /\ worker[w] \in Processors /\ worker[w].at \in Stages /\ worker[w].revision \in Nat
      /\ worker[w].score \in Nat /\ market \in Markets /\ market.score \in Nat
      /\ worker[w].lots \in [Users -> Int] /\ worker[w].todo \subseteq Users \cup Nat
  BY DEF TypeOK, Processors, Markets
<1>2. \A u \in Users : position[u].lots \in Int /\ position[u].collateral \in Nat
  BY DEF TypeOK
<1>3. ASSUME NEW r \in Processors, worker' = [worker EXCEPT ![w] = r],
             UNCHANGED <<match, job, lease>>, market' \in Markets,
             UNCHANGED <<books, orderVars>>
      PROVE  TypeOK'
  <2>1. worker' \in [Workers -> Processors]
    BY <1>3, Moves
  <2> QED BY <1>3, <2>1 DEF TypeOK, books, orderVars
<1>4. ASSUME Fail(w) PROVE TypeOK'
  BY <1>4, JobTyped
<1>5. CASE ReadMarket(w)
  <2> DEFINE r == [worker[w] EXCEPT !.at = "reading", !.score = market.score]
             d == [worker[w] EXCEPT !.at = "done"]
  <2>1. r \in Processors /\ d \in Processors
    BY <1>1 DEF Processors, Stages
  <2>2. \/ Fail(w)
        \/ /\ worker' = [worker EXCEPT ![w] = r] \/ worker' = [worker EXCEPT ![w] = d]
           /\ Stepping /\ UNCHANGED <<market, books, orderVars>>
    BY <1>1, <1>5 DEF ReadMarket, Goto, TypeOK
  <2> HIDE DEF r, d
  <2> QED BY <1>1, <1>3, <1>4, <2>1, <2>2 DEF Stepping
<1>6. CASE ClaimProviderSettlement(w)
  <2> DEFINE r == [worker[w] EXCEPT !.at = "listing", !.todo = {u \in Users : resting[u] > 0}]
             k == [market EXCEPT !.claimed = worker[w].revision]
  <2>1. r \in Processors /\ k \in Markets
    BY <1>1 DEF Processors, Stages, Markets
  <2>2. \/ Fail(w)
        \/ /\ worker' = [worker EXCEPT ![w] = r] /\ market' = k
           /\ Stepping /\ UNCHANGED <<books, orderVars>>
    BY <1>1, <1>6 DEF ClaimProviderSettlement, TypeOK
  <2> HIDE DEF r, k
  <2> QED BY <1>3, <1>4, <2>1, <2>2 DEF Stepping
<1>7. ASSUME NEW u \in Users, CancelOrder(w, u) PROVE TypeOK'
  <2> DEFINE r == [worker[w] EXCEPT !.todo = @ \ {u}]
  <2>1. r \in Processors /\ worker' = [worker EXCEPT ![w] = r]
    BY <1>1, <1>7 DEF Processors, CancelOrder, TypeOK
  <2>2. worker' \in [Workers -> Processors]
    BY <2>1, Moves
  <2>3. reserved' \in [Users -> Int] /\ resting' \in [Users -> Prices \cup {0}]
    <3>1. resting[u] \in Int
      <4>1. \A p \in Prices : p \in Nat
        BY SettlementAssumption
      <4> QED BY <4>1 DEF TypeOK
    <3> QED BY <1>7, <3>1 DEF CancelOrder, TypeOK
  <2> QED BY <1>7, <2>2, <2>3 DEF CancelOrder, TypeOK, Stepping, orderVars
<1>8. CASE collectOpenPositions(w)
  <2> DEFINE r == [worker[w] EXCEPT !.at = "closing", !.todo = Open, !.lots = Lots]
  <2>1. Open \subseteq Users /\ Lots \in [Users -> Int]
    BY <1>2 DEF Open, Lots
  <2>2. r \in Processors /\ worker' = [worker EXCEPT ![w] = r]
    BY <1>1, <1>8, <2>1 DEF Processors, Stages, collectOpenPositions, TypeOK
  <2> HIDE DEF r
  <2> QED BY <1>1, <1>3, <1>8, <2>2 DEF collectOpenPositions, Stepping
<1>9. ASSUME NEW u \in Users, FindOrCreate(w, u) PROVE TypeOK'
  <2>1. closing' \in [Users -> [stage : {"none", "open", "executed"}, revision : Nat, lots : Int]]
    BY <1>1, <1>9 DEF FindOrCreate, TypeOK
  <2> QED BY <1>9, <2>1 DEF FindOrCreate, TypeOK, Stepping, books
<1>10. ASSUME NEW u \in Users, applySettlementFill(w, u) PROVE TypeOK'
  <2> DEFINE r == [worker[w] EXCEPT !.todo = @ \ {u}, !.ok = @ /\ Closable(u)]
  <2>1. r \in Processors /\ worker' = [worker EXCEPT ![w] = r]
    <3>1. Closable(u) \in BOOLEAN
      BY DEF Closable
    <3> HIDE DEF Closable
    <3> QED BY <1>1, <1>10, <3>1 DEF Processors, applySettlementFill, TypeOK
  <2>2. worker' \in [Workers -> Processors]
    BY <2>1, Moves
  <2>3. Payoff(worker[w].score) \in Nat
    BY <1>1, PayoffNatural
  <2>4. /\ cash' \in [Users -> Int] /\ reserved' \in [Users -> Int]
        /\ position' \in [Users -> [lots : Int, collateral : Nat]]
        /\ closing' \in [Users -> [stage : {"none", "open", "executed"}, revision : Nat, lots : Int]]
    <3>1. CASE Closable(u)
      <4> DEFINE gain == closing[u].lots * Payoff(worker[w].score)
      <4>1. gain \in Int
        BY <2>3 DEF TypeOK
      <4>2. cash' = [cash EXCEPT ![u] = @ + gain]
        BY <1>10, <3>1 DEF applySettlementFill
      <4> HIDE DEF gain
      <4>3. cash' \in [Users -> Int]
        BY <4>1, <4>2 DEF TypeOK
      <4>4. reserved' \in [Users -> Int]
        BY <1>2, <1>10, <3>1 DEF applySettlementFill, TypeOK
      <4>5. position' \in [Users -> [lots : Int, collateral : Nat]]
        <5>1. Flat \in [lots : Int, collateral : Nat] /\ position' = [position EXCEPT ![u] = Flat]
          BY <1>10, <3>1 DEF applySettlementFill, Flat
        <5> QED BY <5>1 DEF TypeOK
      <4>6. closing' = [closing EXCEPT ![u].stage = "executed"]
        BY <1>10, <3>1 DEF applySettlementFill
      <4>7. closing' \in [Users -> [stage : {"none", "open", "executed"}, revision : Nat, lots : Int]]
        BY <4>6 DEF TypeOK
      <4> QED BY <4>3, <4>4, <4>5, <4>7
    <3>2. CASE ~Closable(u)
      BY <1>10, <3>2 DEF applySettlementFill, TypeOK
    <3> QED BY <3>1, <3>2
  <2> QED BY <1>10, <2>2, <2>4 DEF applySettlementFill, TypeOK, Stepping
<1>11. CASE Recheck(w)
  <2>1. Goto(w, "closed") => worker' \in [Workers -> Processors]
    BY GotoTyped DEF Stages
  <2> QED BY <1>4, <1>11, <2>1 DEF Recheck, Stepping, TypeOK, books, orderVars
<1>12. CASE SetSettled(w)
  BY <1>1, <1>12, SetGateTyped DEF SetSettled
<1> QED BY <1>5, <1>6, <1>7, <1>8, <1>9, <1>10, <1>11, <1>12 DEF Settle

LEMMA NewestExists ==
  ASSUME NEW w \in Workers, worker[w].seen \in Seq(Fills), worker[w].todo # {},
         worker[w].todo \subseteq DOMAIN worker[w].seen
  PROVE  Newest(w) \in worker[w].todo /\ \A k \in worker[w].todo : k <= Newest(w)
<1>1. /\ Len(worker[w].seen) \in Nat /\ DOMAIN worker[w].seen = 1 .. Len(worker[w].seen)
      /\ worker[w].todo \in SUBSET Nat /\ \A k \in worker[w].todo : k <= Len(worker[w].seen)
  OBVIOUS
<1>2. IsFiniteSet(worker[w].todo)
  BY <1>1, FS_BoundedSetOfNaturals
<1>3. \E n \in worker[w].todo : \A k \in worker[w].todo : k <= n
  BY <1>1, <1>2, GreatestExists
<1> QED BY <1>3 DEF Newest

LEMMA VoidTyped ==
  ASSUME TypeOK, VoidWork, NEW w \in Workers, Void(w)
  PROVE  TypeOK'
<1>1. /\ worker[w] \in Processors /\ worker[w].at \in Stages
      /\ worker[w].todo \subseteq Users \cup Nat
      /\ worker[w].seen \in Seq(Fills) /\ worker[w].comp \in [Users -> Comps]
  BY DEF TypeOK, Processors
<1>2. \A u \in Users : position[u].lots \in Int /\ position[u].collateral \in Nat
  BY DEF TypeOK
<1>3. ASSUME NEW r \in Processors, worker' = [worker EXCEPT ![w] = r], Stepping,
             UNCHANGED <<market, books, orderVars>>
      PROVE  TypeOK'
  <2>1. worker' \in [Workers -> Processors]
    BY <1>3, Moves
  <2> QED BY <1>3, <2>1 DEF TypeOK, Stepping, books, orderVars
<1>4. ASSUME Fail(w) PROVE TypeOK'
  BY <1>4, JobTyped
<1>5. ASSUME NEW at \in Stages, Goto(w, at), Stepping, UNCHANGED <<market, books, orderVars>>
      PROVE  TypeOK'
  <2>1. worker' \in [Workers -> Processors]
    BY <1>5, GotoTyped
  <2> QED BY <1>5, <2>1 DEF TypeOK, Stepping, books, orderVars
<1>6. CASE ReadVoidable(w)
  <2> DEFINE r == [worker[w] EXCEPT !.at = "unlisting", !.todo = {u \in Users : resting[u] > 0}]
  <2>1. r \in Processors
    BY <1>1 DEF Processors, Stages
  <2>2. \/ Fail(w)
        \/ /\ Goto(w, "done") \/ worker' = [worker EXCEPT ![w] = r]
           /\ Stepping /\ UNCHANGED <<market, books, orderVars>>
    BY <1>6 DEF ReadVoidable
  <2> HIDE DEF r
  <2>3. "done" \in Stages
    BY DEF Stages
  <2> QED BY <1>3, <1>4, <1>5, <2>1, <2>2, <2>3
<1>7. CASE ListExecutions(w)
  <2> DEFINE r == [worker[w] EXCEPT !.at = "weighing", !.seen = fills]
  <2>1. r \in Processors /\ worker' = [worker EXCEPT ![w] = r]
    BY <1>1, <1>7 DEF Processors, Stages, TypeOK, ListExecutions
  <2> HIDE DEF r
  <2> QED BY <1>3, <1>7, <2>1 DEF ListExecutions
<1>8. CASE providerVoidCompensations(w)
  <2> DEFINE todo == {u \in Users : FillsOf(worker[w].seen, u) # {}}
             comp == [u \in Users |->
                        [set |-> TRUE, cash |-> CashDelta(worker[w].seen, u),
                         reserved |-> -position[u].collateral,
                         hash |-> FillsOf(worker[w].seen, u)]]
             r == [worker[w] EXCEPT !.at = "freezing", !.todo = todo, !.comp = comp]
  <2>1. \A u \in Users : CashDelta(worker[w].seen, u) \in Int
    BY <1>1, CashDeltaInt
  <2>2. \A u \in Users : FillsOf(worker[w].seen, u) \in SUBSET Nat
    BY <1>1 DEF FillsOf
  <2>3. comp \in [Users -> Comps]
    BY <1>2, <2>1, <2>2 DEF Comps
  <2>4. worker' = [worker EXCEPT ![w] = r]
    BY <1>8 DEF providerVoidCompensations
  <2> HIDE DEF comp
  <2>5. r \in Processors
    BY <1>1, <2>3 DEF Processors, Stages
  <2> HIDE DEF r
  <2> QED BY <1>3, <1>8, <2>4, <2>5 DEF providerVoidCompensations
<1>9. ASSUME NEW u \in Users, FreezeProviderVoidCompensation(w, u) PROVE TypeOK'
  <2> DEFINE kept == Frozen(u, worker[w].comp[u])
             r == [worker[w] EXCEPT !.todo = @ \ {u}, !.comp[u] = kept]
  <2>1. kept \in Comps
    BY <1>1 DEF Frozen, TypeOK
  <2>2. \/ Fail(w)
        \/ /\ frozen' = [frozen EXCEPT ![u] = kept] /\ worker' = [worker EXCEPT ![w] = r]
           /\ Stepping /\ UNCHANGED <<market, books, closing, undo, refunded>>
    BY <1>9 DEF FreezeProviderVoidCompensation
  <2> HIDE DEF kept
  <2>3. r \in Processors
    BY <1>1, <2>1 DEF Processors
  <2> HIDE DEF r
  <2>4. worker' = [worker EXCEPT ![w] = r] => worker' \in [Workers -> Processors]
    BY <2>3, Moves
  <2>5. frozen' = [frozen EXCEPT ![u] = kept] => frozen' \in [Users -> Comps]
    BY <2>1 DEF TypeOK
  <2>6. CASE Fail(w)
    BY <1>4, <2>6
  <2>7. CASE ~Fail(w)
    BY <2>2, <2>4, <2>5, <2>7 DEF TypeOK, Stepping, books
  <2> QED BY <2>6, <2>7
<1>10. CASE AllFrozen(w)
  <2> DEFINE todo == {u \in Users : /\ FillsOf(worker[w].seen, u) # {}
                                    /\ \/ worker[w].comp[u].cash # 0
                                       \/ worker[w].comp[u].reserved # 0}
             r == [worker[w] EXCEPT !.at = "refunding", !.todo = todo]
  <2>1. worker' = [worker EXCEPT ![w] = r] /\ todo \subseteq Users
    BY <1>10 DEF AllFrozen
  <2> HIDE DEF todo
  <2>2. r \in Processors
    BY <1>1, <2>1 DEF Processors, Stages
  <2> HIDE DEF r
  <2> QED BY <1>3, <1>10, <2>1, <2>2 DEF AllFrozen
<1>11. ASSUME NEW u \in Users, ReverseProviderContract(w, u) PROVE TypeOK'
  <2> DEFINE comp == [worker[w].comp[u] EXCEPT !.hash = {}]
             r == [worker[w] EXCEPT !.todo = @ \ {u}]
  <2>1. comp \in Comps /\ comp.cash \in Int /\ comp.reserved \in Int
    BY <1>1 DEF Comps
  <2>2. r \in Processors
    BY <1>1 DEF Processors
  <2>3. \/ Fail(w)
        \/ /\ worker' = [worker EXCEPT ![w] = r] /\ refunded' = [refunded EXCEPT ![u] = comp]
           /\ \/ UNCHANGED <<cash, reserved>>
              \/ /\ cash' = [cash EXCEPT ![u] = @ + comp.cash]
                 /\ reserved' = [reserved EXCEPT ![u] = @ + comp.reserved]
           /\ Stepping
           /\ UNCHANGED <<market, position, resting, fills, closing, undo, frozen>>
    BY <1>11 DEF ReverseProviderContract
  <2> HIDE DEF comp, r
  <2>4. worker' = [worker EXCEPT ![w] = r] => worker' \in [Workers -> Processors]
    BY <2>2, Moves
  <2>5. refunded' = [refunded EXCEPT ![u] = comp] => refunded' \in [Users -> Comps]
    BY <2>1 DEF TypeOK
  <2>6. CASE Fail(w)
    BY <1>4, <2>6
  <2>7. ASSUME ~Fail(w) PROVE cash' \in [Users -> Int] /\ reserved' \in [Users -> Int]
    <3>1. cash \in [Users -> Int] /\ reserved \in [Users -> Int]
      BY DEF TypeOK
    <3>2. \/ UNCHANGED <<cash, reserved>>
          \/ /\ cash' = [cash EXCEPT ![u] = @ + comp.cash]
             /\ reserved' = [reserved EXCEPT ![u] = @ + comp.reserved]
      BY <2>3, <2>7
    <3> QED BY <2>1, <3>1, <3>2
  <2>8. CASE ~Fail(w)
    BY <2>3, <2>4, <2>5, <2>7, <2>8 DEF TypeOK, Stepping
  <2> QED BY <2>6, <2>8
<1>12. CASE AllRefunded(w)
  <2> DEFINE r == [worker[w] EXCEPT !.at = "unwinding", !.todo = DOMAIN worker[w].seen]
  <2>1. r \in Processors /\ worker' = [worker EXCEPT ![w] = r]
    <3>1. DOMAIN worker[w].seen \subseteq Nat
      BY <1>1
    <3> QED BY <1>1, <1>12, <3>1 DEF Processors, Stages, AllRefunded
  <2> HIDE DEF r
  <2> QED BY <1>3, <1>12, <2>1 DEF AllRefunded
<1>13. CASE ReverseExecution(w)
  <2> DEFINE n == Newest(w)
             f == worker[w].seen[n]
             r == [worker[w] EXCEPT !.todo = @ \ {n}]
             p == Moved(position[f.user], Opposite(f.side), f.price)
  <2>1. r \in Processors
    BY <1>1 DEF Processors
  <2>2. \/ undo' = [undo EXCEPT ![n] = "open"] /\ UNCHANGED <<worker, position>>
        \/ /\ undo' = [undo EXCEPT ![n] = "executed"]
           /\ position' = [position EXCEPT ![f.user] = p]
           /\ worker' = [worker EXCEPT ![w] = r]
        \/ worker' = [worker EXCEPT ![w] = r] /\ UNCHANGED <<undo, position>>
    BY <1>13 DEF ReverseExecution
  <2>3. n \in DOMAIN worker[w].seen
    BY <1>1, <1>13, NewestExists DEF ReverseExecution, VoidWork
  <2>4. f \in Fills
    BY <1>1, <2>3
  <2> HIDE DEF r, n
  <2>5. f.user \in Users /\ f.price \in Nat
    BY <2>4, FillPriced DEF Fills
  <2>6. p \in [lots : Int, collateral : Nat]
    <3>1. Margin \in Nat
      BY SettlementAssumption
    <3> HIDE DEF f
    <3> QED BY <1>2, <2>5, <3>1 DEF Moved
  <2> HIDE DEF f, p
  <2>7. worker' \in [Workers -> Processors]
    BY <2>1, <2>2, Moves DEF TypeOK
  <2>8. undo' \in Seq({"none", "open", "executed"}) /\ Len(undo') = Len(fills)
    <3>1. undo \in [1 .. Len(fills) -> {"none", "open", "executed"}] /\ Len(fills) \in Nat
      BY DEF TypeOK
    <3>2. undo' \in [1 .. Len(fills) -> {"none", "open", "executed"}]
      BY <2>2, <3>1
    <3> QED BY <3>1, <3>2
  <2>9. position' \in [Users -> [lots : Int, collateral : Nat]]
    BY <2>2, <2>5, <2>6 DEF TypeOK
  <2> QED BY <1>13, <2>7, <2>8, <2>9 DEF ReverseExecution, TypeOK, Stepping
<1>14. CASE Unwound(w)
  <2>1. "unwound" \in Stages
    BY DEF Stages
  <2> QED BY <1>4, <1>5, <1>14, <2>1 DEF Unwound
<1>15. CASE SetVoid(w)
  <2>1. NoFinal \in [revision : Nat, score : Nat]
    BY DEF NoFinal
  <2> QED BY <1>15, <2>1, SetGateTyped DEF SetVoid
<1> QED BY <1>6, <1>7, <1>8, <1>9, <1>10, <1>11, <1>12, <1>13, <1>14, <1>15 DEF Void

-----------------------------------------------------------------------------
(* The job, its processor and the market.                                  *)

Flow == OneProcessor /\ JobFollowed /\ FinalsAgree /\ ClaimHolds

\* While one processor is at work every other is idle.
LEMMA BusyAlone ==
  ASSUME TypeOK, OneProcessor, NEW w \in Workers, worker[w].at # "idle"
  PROVE  /\ job.status = "processing" /\ lease.owner = w /\ ~lease.expired
         /\ \A v \in Workers : v # w => worker[v].at = "idle"
BY DEF TypeOK, OneProcessor, Owns

LEMMA AllIdle ==
  ASSUME TypeOK, OneProcessor,
         job.status # "processing" \/ lease.expired
  PROVE  \A v \in Workers : worker[v].at = "idle"
BY DEF OneProcessor, Owns

\* A processor gives up, or finishes.
LEMMA IdleFlow ==
  ASSUME TypeOK, Flow, NEW w \in Workers, worker[w].at # "idle",
         worker' = [worker EXCEPT ![w] = Idle], UNCHANGED <<match, market>>,
         job'.action = job.action, job'.revision = job.revision,
         job'.status = job.status \/ job.status # "none"
  PROVE  Flow'
<1>1. \A v \in Workers : worker'[v].at = "idle"
  BY BusyAlone DEF Flow, TypeOK, Idle
<1>2. OneProcessor'
  BY <1>1 DEF OneProcessor
<1>3. JobFollowed'
  BY <1>1 DEF Flow, JobFollowed, SettleStages, VoidStages, Reverting, Fixing
<1>4. FinalsAgree'
  BY <1>1 DEF Flow, FinalsAgree, Fixing, Agree
<1>5. ClaimHolds'
  BY <1>1 DEF Flow, ClaimHolds, Fixing, Reverting
<1> QED BY <1>2, <1>3, <1>4, <1>5 DEF Flow

\* A processor moves on with the revision and the score it works at.
LEMMA MoveFlow ==
  ASSUME TypeOK, Flow, NEW w \in Workers, worker[w].at # "idle",
         NEW r, worker' = [worker EXCEPT ![w] = r],
         UNCHANGED <<match, market, job, lease>>,
         r.at \in SettleStages => worker[w].at \in SettleStages,
         r.at \in VoidStages => worker[w].at \in VoidStages,
         r.at \in Fixing => worker[w].at \in Fixing,
         r.at = "reading" => worker[w].at = "reading",
         r.at \in Reverting => worker[w].at \in Reverting \/ market.claimed = 0,
         r.revision = worker[w].revision, r.score = worker[w].score
  PROVE  Flow'
<1>1. worker'[w] = r /\ \A v \in Workers : v # w => worker'[v] = worker[v]
  BY DEF TypeOK
<1>2. OneProcessor'
  BY <1>1, BusyAlone DEF Flow, OneProcessor, Owns
<1>3. JobFollowed'
  BY <1>1 DEF Flow, JobFollowed
<1>4. FinalsAgree'
  BY <1>1 DEF Flow, FinalsAgree, Agree
<1>5. ClaimHolds'
  BY <1>1 DEF Flow, ClaimHolds
<1> QED BY <1>2, <1>3, <1>4, <1>5 DEF Flow

\* The market of the claimed revision is closed, or an unclaimed one voided.
LEMMA GateFlow ==
  ASSUME TypeOK, Flow, NEW w \in Workers, worker[w].at # "idle",
         Goto(w, "done"), UNCHANGED <<match, job, lease>>,
         market'.claimed = market.claimed,
         \/ market'.revision = market.revision /\ market'.score = market.score
         \/ market'.revision = 0 /\ market.claimed = 0,
         market.claimed > 0 => market'.lifecycle \in {"settling", "settled"},
         market'.lifecycle = "settled" => market.claimed > 0
  PROVE  Flow'
<1>1. worker'[w].at = "done" /\ \A v \in Workers : v # w => worker'[v].at = "idle"
  BY BusyAlone DEF Flow, TypeOK, Goto, Processors
<1>2. OneProcessor'
  BY <1>1, BusyAlone DEF Flow, OneProcessor, Owns
<1>3. JobFollowed'
  BY <1>1 DEF Flow, JobFollowed, SettleStages, VoidStages, Reverting, Fixing
<1>4. FinalsAgree'
  BY <1>1 DEF Flow, FinalsAgree, Fixing, Agree
<1>5. ClaimHolds'
  BY <1>1 DEF Flow, ClaimHolds, Fixing, Reverting
<1> QED BY <1>2, <1>3, <1>4, <1>5 DEF Flow

LEMMA JobFlow ==
  ASSUME TypeOK, Flow, ~Stalls, NEW w \in Workers,
         \/ ClaimSettlementJob(w) \/ CompleteSettlementJob(w) \/ Mishap(w)
         \/ maintainLease(w) \/ Renew(w) \/ (worker[w].at # "idle" /\ Fail(w))
         \/ LeaseExpires
  PROVE  Flow'
<1>1. job \in Jobs
  BY DEF TypeOK
<1>2. CASE ClaimSettlementJob(w)
  <2>1. \A v \in Workers : worker[v].at = "idle"
    BY <1>2, AllIdle DEF ClaimSettlementJob, Flow
  <2>2. /\ job' = [job EXCEPT !.status = "processing"] /\ lease' = [owner |-> w, expired |-> FALSE]
        /\ UNCHANGED <<match, market>>
    BY <1>2 DEF ClaimSettlementJob
  <2>3. /\ job'.status = "processing" /\ job'.action = job.action /\ job'.revision = job.revision
        /\ job.status # "none" /\ job.action \in {"settle", "void"}
    BY <1>1, <1>2, <2>2 DEF ClaimSettlementJob, Jobs
  <2>4. /\ \A v \in Workers : v # w => worker'[v].at = "idle"
        /\ worker'[w].revision = job.revision
        /\ worker'[w].at = IF job.action = "void" THEN "voiding" ELSE "settling"
    BY <1>2, <2>1 DEF ClaimSettlementJob, TypeOK, Idle
  <2>5. OneProcessor'
    BY <2>2, <2>3, <2>4 DEF OneProcessor, Owns
  <2>6. JobFollowed'
    BY <2>3, <2>4 DEF Flow, JobFollowed, SettleStages, VoidStages, Reverting, Fixing
  <2>7. FinalsAgree'
    BY <2>2, <2>4 DEF Flow, FinalsAgree, Fixing, Agree
  <2>8. ClaimHolds'
    BY <2>2, <2>4 DEF Flow, ClaimHolds, Fixing, Reverting
  <2> QED BY <2>5, <2>6, <2>7, <2>8 DEF Flow
<1>3. ASSUME worker[w].at # "idle", Failing(w), UNCHANGED <<match, market>> PROVE Flow'
  <2>1. job'.action = job.action /\ job'.revision = job.revision /\ job.status # "none"
    BY <1>1, <1>3, BusyAlone DEF Flow, Failing, Jobs
  <2> QED BY <1>3, <2>1, IdleFlow DEF Failing
<1>4. CASE CompleteSettlementJob(w)
  <2>1. /\ worker[w].at # "idle"
        /\ job'.action = job.action /\ job'.revision = job.revision /\ job.status # "none"
    BY <1>1, <1>4, BusyAlone DEF Flow, CompleteSettlementJob, Jobs
  <2> QED BY <1>4, <2>1, IdleFlow DEF CompleteSettlementJob
<1>5. CASE Mishap(w)
  BY <1>3, <1>5, IdleFlow DEF Mishap
<1>6. CASE worker[w].at # "idle" /\ Fail(w)
  BY <1>3, <1>6 DEF Fail
<1>7. CASE maintainLease(w) \/ Renew(w)
  <2>1. FALSE
    BY <1>7, BusyAlone DEF Flow, maintainLease, Renew, Owns
  <2> QED BY <2>1
<1>8. CASE LeaseExpires
  <2>1. \A v \in Workers : worker[v].at = "idle"
    <3>1. SUFFICES ASSUME NEW v \in Workers, worker[v].at # "idle" PROVE FALSE
      OBVIOUS
    <3> QED BY <1>8, <3>1, BusyAlone DEF Flow, LeaseExpires
  <2>2. UNCHANGED <<match, market, job, worker>>
    BY <1>8 DEF LeaseExpires, feedVars
  <2>3. OneProcessor'
    BY <2>1, <2>2 DEF OneProcessor
  <2> QED BY <2>2, <2>3 DEF Flow, JobFollowed, FinalsAgree, ClaimHolds, Agree
<1> QED BY <1>2, <1>4, <1>5, <1>6, <1>7, <1>8

LEMMA FeedFlow ==
  ASSUME TypeOK, Flow, Feed
  PROVE  /\ Flow'
         /\ market'.claimed = market.claimed
         /\ market.claimed > 0 =>
              market'.revision = market.revision /\ market'.score = market.score
<1>1. Grounded
  BY DEF Grounded, Flow
<1>2. PICK t : Committed(t) /\ Commit(t) /\ UNCHANGED <<worker, books, orderVars>>
  BY <1>1, FeedCommits
<1>3. Reached(t) /\ match' = t.match /\ market' = t.market /\ job' = t.job /\ worker' = worker
  BY <1>2 DEF Committed, Commit
<1>4. Coherent(t)
  BY <1>3 DEF Reached
<1>5. OneProcessor'
  <2>1. SUFFICES ASSUME NEW v \in Workers, worker[v].at # "idle"
                 PROVE  job'.status = "processing" /\ lease' = lease
    BY <1>3, BusyAlone DEF Flow, OneProcessor, Owns
  <2>2. job.status = "processing"
    BY <2>1, BusyAlone DEF Flow
  <2> QED BY <1>2, <1>3, <2>2 DEF Reached, Commit
<1>6. JobFollowed'
  <2>1. ASSUME NEW v \in Workers, worker[v].at # "idle" PROVE job' = job
    BY <1>3, <2>1, BusyAlone DEF Flow, Reached
  <2>2. "idle" \notin SettleStages \cup VoidStages
    BY DEF SettleStages, VoidStages, Reverting, Fixing
  <2> QED BY <1>3, <1>4, <2>1, <2>2 DEF Coherent, Flow, JobFollowed
<1>7. FinalsAgree'
  BY <1>3, <1>4 DEF Coherent, FinalsAgree, Agree
<1>8. ClaimHolds'
  <2>1. \A v \in Workers : worker[v].at \in Fixing =>
          market.claimed > 0 /\ market.claimed = worker[v].revision
    BY DEF Flow, JobFollowed, ClaimHolds, SettleStages
  <2> QED BY <1>3, <1>4, <2>1 DEF Coherent, Reached, Flow, ClaimHolds
<1> QED BY <1>3, <1>5, <1>6, <1>7, <1>8 DEF Flow, Reached

\* What the market keeps while a processor settles or voids it.
MarketKept ==
  /\ market.claimed > 0 =>
       /\ market'.claimed = market.claimed /\ market'.revision = market.revision
       /\ market'.score = market.score

LEMMA SetGateFlow ==
  ASSUME TypeOK, Flow, ~Stalls, NEW w \in Workers,
         \/ SetSettled(w) \/ SetVoid(w)
  PROVE  Flow' /\ MarketKept
<1>1. /\ Now.ok /\ Now.market = market /\ Now \in Txs /\ market \in Markets
  BY DEF Now, Tx, Txs, TypeOK
<1>2. worker[w].at # "idle"
  BY DEF SetSettled, SetVoid
<1>3. CASE Fail(w)
  BY <1>2, <1>3, JobFlow DEF Fail, MarketKept
<1>4. CASE SetSettled(w) /\ ~Fail(w)
  <2> DEFINE final == [revision |-> worker[w].revision, score |-> worker[w].score]
             t == SetProviderMarketGate(Now, "settled", FALSE, final)
  <2>1. /\ market.claimed = worker[w].revision /\ market.score = worker[w].score
        /\ market.claimed > 0 /\ market.revision = market.claimed
        /\ market.lifecycle = "settling"
    BY <1>4 DEF SetSettled, Flow, JobFollowed, ClaimHolds, Fixing, SettleStages
  <2>2. t.market = market \/ t.market = Regated(market, "settled", FALSE, final)
    BY <1>1 DEF SetProviderMarketGate, Abort, Txs
  <2>3. /\ t.market.claimed = market.claimed /\ t.market.revision = market.revision
        /\ t.market.score = market.score /\ t.market.lifecycle \in {"settling", "settled"}
    <3> DEFINE k == Regated(market, "settled", FALSE, final)
    <3>1. /\ k.claimed = market.claimed /\ k.lifecycle = "settled"
          /\ k.revision = market.revision /\ k.score = market.score
      BY <2>1 DEF Regated, NoFinal
    <3> HIDE DEF k, t
    <3>2. t.market = market \/ t.market = k
      BY <2>2 DEF k
    <3> QED BY <2>1, <3>1, <3>2
  <2>4. /\ market' = t.market /\ Goto(w, "done") /\ Stepping
    BY <1>4 DEF SetSettled, SetGate
  <2> HIDE DEF t
  <2> QED BY <1>2, <2>1, <2>3, <2>4, GateFlow DEF Stepping, MarketKept
<1>5. CASE SetVoid(w) /\ ~Fail(w)
  <2> DEFINE t == SetProviderMarketGate(Now, "void", FALSE, NoFinal)
  <2>1. market.claimed = 0
    BY <1>5 DEF SetVoid, Flow, ClaimHolds, Reverting
  <2>2. t.market = market \/ t.market = Regated(market, "void", FALSE, NoFinal)
    BY <1>1 DEF SetProviderMarketGate, Abort, Txs
  <2>3. /\ t.market.claimed = market.claimed
        /\ \/ t.market.revision = market.revision /\ t.market.score = market.score
           \/ t.market.revision = 0
        /\ t.market.lifecycle \in {market.lifecycle, "void"}
    <3> DEFINE k == Regated(market, "void", FALSE, NoFinal)
    <3>1. k.claimed = market.claimed /\ k.lifecycle = "void" /\ k.revision = 0
      BY DEF Regated, NoFinal
    <3> HIDE DEF k, t
    <3>2. t.market = market \/ t.market = k
      BY <2>2 DEF k
    <3> QED BY <3>1, <3>2
  <2>4. market' = t.market /\ Goto(w, "done") /\ Stepping
    BY <1>5 DEF SetVoid, SetGate
  <2>5. market.lifecycle # "settled"
    BY <2>1 DEF Flow, ClaimHolds
  <2> HIDE DEF t
  <2> QED BY <1>2, <2>1, <2>3, <2>4, <2>5, GateFlow DEF Stepping, MarketKept
<1> QED BY <1>3, <1>4, <1>5

LEMMA SettleFlow ==
  ASSUME TypeOK, Flow, ~Stalls, NEW w \in Workers, Settle(w)
  PROVE  Flow' /\ MarketKept
<1> USE DEF SettleStages, VoidStages, Reverting, Fixing
<1>1. worker[w] \in Processors /\ market \in Markets
  BY DEF TypeOK
<1>2. CASE worker[w].at # "idle" /\ Fail(w)
  BY <1>2, JobFlow DEF Fail, MarketKept
<1>3. CASE ReadMarket(w) /\ ~Fail(w)
  <2>1. CASE Goto(w, "done") /\ Stepping /\ UNCHANGED market
    <3> DEFINE r == [worker[w] EXCEPT !.at = "done"]
    <3>1. worker' = [worker EXCEPT ![w] = r] /\ worker[w].at # "idle"
      BY <1>3, <2>1 DEF ReadMarket, Goto
    <3>2. r.at = "done" /\ r.revision = worker[w].revision /\ r.score = worker[w].score
      BY <1>1 DEF Processors
    <3> HIDE DEF r
    <3> QED BY <2>1, <3>1, <3>2, MoveFlow DEF Stepping, MarketKept
  <2>2. CASE /\ worker' = [worker EXCEPT ![w].at = "reading", ![w].score = market.score]
             /\ market.revision = worker[w].revision
             /\ Stepping /\ UNCHANGED market
    <3>1. worker[w].at = "settling" /\ job.action = "settle" /\ worker[w].revision > 0
      BY <1>3 DEF ReadMarket, Flow, JobFollowed
    <3>2. /\ worker'[w].at = "reading" /\ worker'[w].revision = market.revision
          /\ worker'[w].score = market.score
          /\ \A v \in Workers : v # w => worker'[v].at = "idle"
      BY <1>1, <2>2, <3>1, BusyAlone DEF Flow, TypeOK, Processors
    <3>3. OneProcessor'
      BY <2>2, <3>1, <3>2, BusyAlone DEF Flow, OneProcessor, Owns, Stepping
    <3>4. JobFollowed'
      BY <2>2, <3>1, <3>2 DEF Flow, JobFollowed, Stepping
    <3>5. FinalsAgree'
      BY <2>2, <3>2 DEF Flow, FinalsAgree, Agree, Stepping
    <3>6. ClaimHolds'
      BY <2>2, <3>2 DEF Flow, ClaimHolds, Stepping
    <3> QED BY <2>2, <3>3, <3>4, <3>5, <3>6 DEF Flow, MarketKept
  <2> QED BY <1>3, <2>1, <2>2 DEF ReadMarket
<1>4. CASE ClaimProviderSettlement(w) /\ ~Fail(w)
  <2>1. /\ worker[w].at = "reading" /\ job.action = "settle" /\ worker[w].revision > 0
        /\ Claims(w) /\ Agree(market, worker[w])
    BY <1>4 DEF ClaimProviderSettlement, Flow, JobFollowed, FinalsAgree
  <2>2. market.score = worker[w].score /\ market.revision = worker[w].revision
    BY <2>1 DEF Claims, Agree
  <2>3. /\ market'.claimed = worker[w].revision /\ market'.score = market.score
        /\ market'.revision = market.revision /\ market'.lifecycle = "settling"
        /\ UNCHANGED <<match, job, lease>>
    BY <1>1, <1>4, <2>1 DEF ClaimProviderSettlement, Claims, Markets, Stepping
  <2>4. /\ worker'[w].at = "listing" /\ worker'[w].revision = worker[w].revision
        /\ worker'[w].score = worker[w].score
        /\ \A v \in Workers : v # w => worker'[v] = worker[v] /\ worker'[v].at = "idle"
    <3> DEFINE todo == {u \in Users : resting[u] > 0}
               r == [worker[w] EXCEPT !.at = "listing", !.todo = todo]
    <3>1. worker' = [worker EXCEPT ![w] = r]
      BY <1>1, <1>4, <2>1 DEF ClaimProviderSettlement
    <3>2. /\ r.at = "listing" /\ r.revision = worker[w].revision
          /\ r.score = worker[w].score
      BY <1>1 DEF Processors
    <3>3. \A v \in Workers : v # w => worker[v].at = "idle"
      BY <2>1, BusyAlone DEF Flow
    <3>4. worker \in [Workers -> Processors]
      BY DEF Flow, TypeOK
    <3> HIDE DEF r
    <3> QED BY <3>1, <3>2, <3>3, <3>4
  <2>5. OneProcessor'
    BY <2>1, <2>3, <2>4, BusyAlone DEF Flow, OneProcessor, Owns
  <2>6. JobFollowed'
    BY <2>1, <2>3, <2>4 DEF Flow, JobFollowed
  <2>7. FinalsAgree'
    BY <2>1, <2>3, <2>4 DEF Flow, FinalsAgree, Agree
  <2>8. ClaimHolds'
    BY <2>1, <2>2, <2>3, <2>4 DEF Flow, ClaimHolds
  <2>9. MarketKept
    BY <2>1, <2>3 DEF MarketKept, Claims
  <2> QED BY <2>5, <2>6, <2>7, <2>8, <2>9 DEF Flow
<1>5. ASSUME NEW r, worker' = [worker EXCEPT ![w] = r], Stepping, UNCHANGED market,
             worker[w].at \in Fixing, r.at \in Fixing,
             r.revision = worker[w].revision, r.score = worker[w].score
      PROVE  Flow' /\ MarketKept
  BY <1>5, MoveFlow DEF Stepping, MarketKept
<1>6. ASSUME NEW u \in Users, CancelOrder(w, u), worker[w].at = "listing"
      PROVE  Flow' /\ MarketKept
  <2> DEFINE r == [worker[w] EXCEPT !.todo = @ \ {u}]
  <2>1. r.at = "listing" /\ r.revision = worker[w].revision /\ r.score = worker[w].score
    BY <1>1, <1>6 DEF Processors
  <2>2. worker' = [worker EXCEPT ![w] = r]
    BY <1>6 DEF CancelOrder
  <2> HIDE DEF r
  <2> QED BY <1>5, <1>6, <2>1, <2>2 DEF CancelOrder
<1>7. ASSUME NEW u \in Users, CancelOrder(w, u), worker[w].at = "unlisting"
      PROVE  Flow' /\ MarketKept
  <2> DEFINE r == [worker[w] EXCEPT !.todo = @ \ {u}]
  <2>1. r.at = "unlisting" /\ r.revision = worker[w].revision /\ r.score = worker[w].score
    BY <1>1, <1>7 DEF Processors
  <2>2. worker' = [worker EXCEPT ![w] = r]
    BY <1>7 DEF CancelOrder
  <2> HIDE DEF r
  <2> QED BY <1>7, <2>1, <2>2, MoveFlow DEF CancelOrder, Stepping, MarketKept
<1>8. CASE collectOpenPositions(w)
  <2> DEFINE r == [worker[w] EXCEPT !.at = "closing", !.todo = Open, !.lots = Lots]
  <2>1. r.at = "closing" /\ r.revision = worker[w].revision /\ r.score = worker[w].score
    BY <1>1 DEF Processors
  <2>2. worker' = [worker EXCEPT ![w] = r]
    BY <1>8 DEF collectOpenPositions
  <2> HIDE DEF r
  <2> QED BY <1>5, <1>8, <2>1, <2>2 DEF collectOpenPositions
<1>9. ASSUME NEW u \in Users, FindOrCreate(w, u) PROVE Flow' /\ MarketKept
  <2>1. UNCHANGED <<match, market, job, lease, worker>>
    BY <1>9 DEF FindOrCreate, Stepping
  <2> QED BY <2>1 DEF Flow, OneProcessor, Owns, JobFollowed, FinalsAgree, Agree, ClaimHolds,
                      MarketKept
<1>10. ASSUME NEW u \in Users, applySettlementFill(w, u) PROVE Flow' /\ MarketKept
  <2> DEFINE r == [worker[w] EXCEPT !.todo = @ \ {u}, !.ok = @ /\ Closable(u)]
  <2>1. r.at = "closing" /\ r.revision = worker[w].revision /\ r.score = worker[w].score
    BY <1>1, <1>10 DEF Processors, applySettlementFill
  <2>2. worker' = [worker EXCEPT ![w] = r]
    BY <1>10 DEF applySettlementFill
  <2> HIDE DEF r
  <2> QED BY <1>5, <1>10, <2>1, <2>2 DEF applySettlementFill
<1>11. CASE Recheck(w) /\ ~Fail(w)
  <2> DEFINE r == [worker[w] EXCEPT !.at = "closed"]
  <2>1. r.at = "closed" /\ r.revision = worker[w].revision /\ r.score = worker[w].score
    BY <1>1 DEF Processors
  <2>2. worker' = [worker EXCEPT ![w] = r] /\ worker[w].at = "closing" /\ Stepping /\ UNCHANGED market
    BY <1>11 DEF Recheck, Goto
  <2> HIDE DEF r
  <2> QED BY <1>5, <2>1, <2>2
<1>12. CASE SetSettled(w)
  BY <1>12, SetGateFlow
<1>13. Fail(w) /\ (ReadMarket(w) \/ ClaimProviderSettlement(w) \/ Recheck(w)) => worker[w].at # "idle"
  BY DEF ReadMarket, ClaimProviderSettlement, Recheck
<1>14. \A u \in Users : CancelOrder(w, u) => worker[w].at \in {"listing", "unlisting"}
  BY DEF CancelOrder
<1> QED BY <1>2, <1>3, <1>4, <1>6, <1>7, <1>8, <1>9, <1>10, <1>11, <1>12, <1>13, <1>14 DEF Settle

LEMMA VoidFlow ==
  ASSUME TypeOK, Flow, ~Stalls, NEW w \in Workers, Void(w)
  PROVE  Flow' /\ MarketKept
<1> USE DEF SettleStages, VoidStages, Reverting, Fixing
<1>1. worker[w] \in Processors /\ market \in Markets
  BY DEF TypeOK
<1>2. CASE worker[w].at # "idle" /\ Fail(w)
  BY <1>2, JobFlow DEF Fail, MarketKept
<1>3. ASSUME NEW r, worker' = [worker EXCEPT ![w] = r], Stepping, UNCHANGED market,
             worker[w].at \in VoidStages, r.at \in Reverting \cup {"done"},
             r.at \in Reverting => worker[w].at \in Reverting \/ market.claimed = 0,
             r.revision = worker[w].revision, r.score = worker[w].score
      PROVE  Flow' /\ MarketKept
  BY <1>3, MoveFlow DEF Stepping, MarketKept
<1>4. CASE ReadVoidable(w) /\ ~Fail(w)
  <2> DEFINE d == [worker[w] EXCEPT !.at = "done"]
             r == [worker[w] EXCEPT !.at = "unlisting", !.todo = {u \in Users : resting[u] > 0}]
  <2>1. /\ d.at = "done" /\ d.revision = worker[w].revision /\ d.score = worker[w].score
        /\ r.at = "unlisting" /\ r.revision = worker[w].revision /\ r.score = worker[w].score
    BY <1>1 DEF Processors
  <2>2. /\ Stepping /\ UNCHANGED market /\ worker[w].at = "voiding"
        /\ \/ worker' = [worker EXCEPT ![w] = d]
           \/ worker' = [worker EXCEPT ![w] = r] /\ market.claimed = 0
    BY <1>4 DEF ReadVoidable, Goto
  <2> HIDE DEF d, r
  <2> QED BY <1>3, <2>1, <2>2
<1>5. CASE ListExecutions(w)
  <2> DEFINE r == [worker[w] EXCEPT !.at = "weighing", !.seen = fills]
  <2>1. r.at = "weighing" /\ r.revision = worker[w].revision /\ r.score = worker[w].score
    BY <1>1 DEF Processors
  <2>2. worker' = [worker EXCEPT ![w] = r]
    BY <1>5 DEF ListExecutions
  <2> HIDE DEF r
  <2> QED BY <1>3, <1>5, <2>1, <2>2 DEF ListExecutions
<1>6. CASE providerVoidCompensations(w)
  <2>1. PICK todo, comp :
          worker' = [worker EXCEPT ![w] =
                       [worker[w] EXCEPT !.at = "freezing", !.todo = todo, !.comp = comp]]
    BY <1>6 DEF providerVoidCompensations
  <2> DEFINE r == [worker[w] EXCEPT !.at = "freezing", !.todo = todo, !.comp = comp]
  <2>2. r.at = "freezing" /\ r.revision = worker[w].revision /\ r.score = worker[w].score
    BY <1>1 DEF Processors
  <2> HIDE DEF r
  <2> QED BY <1>3, <1>6, <2>1, <2>2 DEF providerVoidCompensations, r
<1>7. ASSUME NEW u \in Users, FreezeProviderVoidCompensation(w, u), ~Fail(w)
      PROVE  Flow' /\ MarketKept
  <2> DEFINE r == [worker[w] EXCEPT !.todo = @ \ {u}, !.comp[u] = Frozen(u, worker[w].comp[u])]
  <2>1. r.at = worker[w].at /\ r.revision = worker[w].revision /\ r.score = worker[w].score
    BY <1>1 DEF Processors
  <2>2. worker' = [worker EXCEPT ![w] = r]
    BY <1>7 DEF FreezeProviderVoidCompensation
  <2> HIDE DEF r
  <2> QED BY <1>3, <1>7, <2>1, <2>2 DEF FreezeProviderVoidCompensation
<1>8. CASE AllFrozen(w)
  <2>1. PICK todo :
          worker' = [worker EXCEPT ![w] = [worker[w] EXCEPT !.at = "refunding", !.todo = todo]]
    BY <1>8 DEF AllFrozen
  <2> DEFINE r == [worker[w] EXCEPT !.at = "refunding", !.todo = todo]
  <2>2. r.at = "refunding" /\ r.revision = worker[w].revision /\ r.score = worker[w].score
    BY <1>1 DEF Processors
  <2> HIDE DEF r
  <2> QED BY <1>3, <1>8, <2>1, <2>2 DEF AllFrozen, r
<1>9. ASSUME NEW u \in Users, ReverseProviderContract(w, u), ~Fail(w)
      PROVE  Flow' /\ MarketKept
  <2> DEFINE r == [worker[w] EXCEPT !.todo = @ \ {u}]
  <2>1. r.at = worker[w].at /\ r.revision = worker[w].revision /\ r.score = worker[w].score
    BY <1>1 DEF Processors
  <2>2. worker' = [worker EXCEPT ![w] = r]
    BY <1>9 DEF ReverseProviderContract
  <2> HIDE DEF r
  <2> QED BY <1>3, <1>9, <2>1, <2>2 DEF ReverseProviderContract
<1>10. CASE AllRefunded(w)
  <2> DEFINE r == [worker[w] EXCEPT !.at = "unwinding", !.todo = DOMAIN worker[w].seen]
  <2>1. r.at = "unwinding" /\ r.revision = worker[w].revision /\ r.score = worker[w].score
    BY <1>1 DEF Processors
  <2>2. worker' = [worker EXCEPT ![w] = r]
    BY <1>10 DEF AllRefunded
  <2> HIDE DEF r
  <2> QED BY <1>3, <1>10, <2>1, <2>2 DEF AllRefunded
<1>11. CASE ReverseExecution(w)
  <2> DEFINE r == [worker[w] EXCEPT !.todo = @ \ {Newest(w)}]
  <2>1. r.at = worker[w].at /\ r.revision = worker[w].revision /\ r.score = worker[w].score
    BY <1>1 DEF Processors
  <2>2. worker' = [worker EXCEPT ![w] = r] \/ worker' = worker
    BY <1>11 DEF ReverseExecution
  <2>3. worker = [worker EXCEPT ![w] = worker[w]]
    BY DEF TypeOK
  <2> HIDE DEF r
  <2> QED BY <1>3, <1>11, <2>1, <2>2, <2>3 DEF ReverseExecution
<1>12. CASE Unwound(w) /\ ~Fail(w)
  <2> DEFINE r == [worker[w] EXCEPT !.at = "unwound"]
  <2>1. r.at = "unwound" /\ r.revision = worker[w].revision /\ r.score = worker[w].score
    BY <1>1 DEF Processors
  <2>2. /\ worker' = [worker EXCEPT ![w] = r] /\ worker[w].at = "unwinding" /\ Stepping
        /\ UNCHANGED market
    BY <1>12 DEF Unwound, Goto
  <2> HIDE DEF r
  <2> QED BY <1>3, <2>1, <2>2
<1>13. CASE SetVoid(w)
  BY <1>13, SetGateFlow
<1>14. ReadVoidable(w) \/ Unwound(w) => worker[w].at # "idle"
  BY DEF ReadVoidable, Unwound
<1>15. \A u \in Users : FreezeProviderVoidCompensation(w, u) \/ ReverseProviderContract(w, u)
         => worker[w].at # "idle"
  BY DEF FreezeProviderVoidCompensation, ReverseProviderContract
<1> QED BY <1>2, <1>4, <1>5, <1>6, <1>7, <1>8, <1>9, <1>10, <1>11, <1>12, <1>13, <1>14, <1>15
        DEF Void

\* A job step leaves the market alone.
LEMMA JobKeeps ==
  ASSUME NEW w \in Workers,
         \/ ClaimSettlementJob(w) \/ CompleteSettlementJob(w) \/ Mishap(w)
         \/ maintainLease(w) \/ Renew(w) \/ LeaseExpires
  PROVE  MarketKept
BY DEF ClaimSettlementJob, CompleteSettlementJob, Mishap, maintainLease, Renew, LeaseExpires,
       feedVars, MarketKept

LEMMA TradingKeeps ==
  ASSUME Trading
  PROVE  UNCHANGED <<match, market, job, lease, worker, closing, frozen, refunded>>
BY DEF Trading, Trade, Rest, FillResting, feedVars, orderVars

LEMMA FlowStep ==
  ASSUME TypeOK, Flow, ~Stalls, Next
  PROVE  Flow' /\ MarketKept
<1>1. CASE Trading
  BY <1>1, TradingKeeps DEF Flow, OneProcessor, Owns, JobFollowed, FinalsAgree, Agree, ClaimHolds,
                            MarketKept
<1>2. CASE Feed
  BY <1>2, FeedFlow DEF MarketKept
<1>3. ASSUME NEW w \in Workers, Work(w) \/ Mishap(w) PROVE Flow' /\ MarketKept
  BY <1>3, JobFlow, JobKeeps, SettleFlow, VoidFlow DEF Work
<1>4. CASE LeaseExpires
  <2>1. CASE Workers = {}
    BY <1>4, <2>1 DEF LeaseExpires, Flow, OneProcessor, JobFollowed, FinalsAgree, Agree, ClaimHolds,
                      MarketKept, feedVars
  <2>2. ASSUME NEW w \in Workers PROVE Flow' /\ MarketKept
    BY <1>4, <2>2, JobFlow, JobKeeps
  <2> QED BY <2>1, <2>2
<1> QED BY <1>1, <1>2, <1>3, <1>4 DEF Next

-----------------------------------------------------------------------------
(* The money.                                                              *)

Ledger == <<cash, fills, closing, refunded>>

\* Where the ledger rests, the books stay balanced: the score an executed
\* closing was paid at is fixed by the claim.
LEMMA LedgerRests ==
  ASSUME ClosedOnce, BooksBalance, MarketKept, UNCHANGED Ledger
  PROVE  BooksBalance'
<1>1. \A u \in Users : closing[u].stage = "executed" => market'.score = market.score
  BY DEF ClosedOnce, MarketKept
<1>2. cash' = cash /\ fills' = fills /\ closing' = closing /\ refunded' = refunded
  BY DEF Ledger
<1>3. SUFFICES ASSUME NEW u \in Users
               PROVE  cash[u] = Deposit - CashDelta(fills, u)
                        + (IF closing[u].stage = "executed"
                             THEN closing[u].lots * Payoff(market'.score) ELSE 0)
                        + refunded[u].cash
  BY <1>2 DEF BooksBalance
<1> QED BY <1>1 DEF BooksBalance

LEMMA MoneyTyped ==
  ASSUME TypeOK, NEW v \in Users
  PROVE  /\ cash[v] \in Int /\ refunded[v].cash \in Int /\ Deposit \in Int
         /\ CashDelta(fills, v) \in Int /\ closing[v].lots * Payoff(market.score) \in Int
<1>1. cash[v] \in Int /\ fills \in Seq(Fills)
  BY DEF TypeOK
<1>2. refunded[v] \in Comps
  BY DEF TypeOK
<1>3. Deposit \in Int
  BY SettlementAssumption
<1>4. closing[v].lots \in Int
  BY DEF TypeOK
<1>5. market.score \in Nat
  BY DEF TypeOK, Markets
<1>6. Payoff(market.score) \in Nat
  BY <1>5, PayoffNatural
<1>7. closing[v].lots * Payoff(market.score) \in Int
  BY <1>4, <1>6
<1> QED BY <1>1, <1>2, <1>3, <1>7, CashDeltaInt DEF Comps

\* A fill moves the cash as much as it moves the sum of the fills.
LEMMA FillBalance ==
  ASSUME TypeOK, BooksBalance, NEW u \in Users, NEW e \in Fills, e.user = u,
         fills' = Append(fills, e), cash' = [cash EXCEPT ![u] = @ - Spend(e)],
         UNCHANGED <<closing, refunded, market>>
  PROVE  BooksBalance'
<1>1. SUFFICES ASSUME NEW v \in Users
               PROVE  cash'[v] = Deposit - CashDelta(fills', v)
                        + (IF closing[v].stage = "executed"
                             THEN closing[v].lots * Payoff(market.score) ELSE 0)
                        + refunded[v].cash
  BY DEF BooksBalance
<1> DEFINE paid == IF closing[v].stage = "executed"
                     THEN closing[v].lots * Payoff(market.score) ELSE 0
<1>2. CashDelta(fills', v) = CashDelta(fills, v) + (IF v = u THEN Spend(e) ELSE 0)
  BY CashDeltaAppend DEF TypeOK
<1>3. Spend(e) \in Int /\ CashDelta(fills, v) \in Int
  BY FillPriced, CashDeltaInt DEF TypeOK
<1>4. paid \in Int
  BY MoneyTyped
<1>5. cash[v] = Deposit - CashDelta(fills, v) + paid + refunded[v].cash
  BY DEF BooksBalance
<1>6. /\ cash[v] \in Int /\ refunded[v].cash \in Int /\ Deposit \in Int
      /\ cash'[v] = IF v = u THEN cash[v] - Spend(e) ELSE cash[v]
  BY MoneyTyped DEF TypeOK
<1> HIDE DEF paid
<1>7. cash'[v] = Deposit - CashDelta(fills', v) + paid + refunded[v].cash
  BY <1>2, <1>3, <1>4, <1>5, <1>6
<1> QED BY <1>7 DEF paid

LEMMA TradingBalance ==
  ASSUME TypeOK, ClosedOnce, BooksBalance, Trading
  PROVE  BooksBalance'
<1>1. UNCHANGED <<market, closing, refunded>>
  BY TradingKeeps
<1>2. CASE \E u \in Users, side \in {"buy", "sell"}, price \in Prices : Trade(u, side, price)
  <2>1. PICK u \in Users, side \in {"buy", "sell"}, price \in Prices : Trade(u, side, price)
    BY <1>2
  <2> DEFINE e == [user |-> u, side |-> side, price |-> price]
  <2>2. e \in Fills /\ e.user = u /\ e.side = side /\ e.price = price
    BY DEF Fills
  <2>3. price \in Nat /\ Spend(e) = IF side = "buy" THEN price ELSE -price
    BY <2>2, FillPriced DEF Spend
  <2>4. fills' = Append(fills, e)
        /\ cash' = [cash EXCEPT ![u] = IF side = "buy" THEN @ - price ELSE @ + price]
    BY <2>1 DEF Trade, FillOf
  <2> HIDE DEF e
  <2>5. cash' = [cash EXCEPT ![u] = @ - Spend(e)]
    <3>1. cash[u] \in Int /\ cash[u] - Spend(e) = IF side = "buy" THEN cash[u] - price ELSE cash[u] + price
      BY <2>3, MoneyTyped
    <3> QED BY <2>4, <3>1
  <2> QED BY <1>1, <2>2, <2>4, <2>5, FillBalance
<1>3. CASE \E u \in Users, price \in Prices : Rest(u, price)
  <2>1. UNCHANGED Ledger /\ MarketKept
    BY <1>1, <1>3 DEF Rest, orderVars, Ledger, MarketKept
  <2> QED BY <2>1, LedgerRests
<1>4. CASE \E u \in Users : FillResting(u)
  <2>1. PICK u \in Users : FillResting(u)
    BY <1>4
  <2> DEFINE e == [user |-> u, side |-> "buy", price |-> resting[u]]
  <2>2. resting[u] \in Prices
    BY <2>1 DEF FillResting, TypeOK
  <2>3. e \in Fills /\ e.user = u /\ Spend(e) = resting[u]
    BY <2>2 DEF Fills, Spend
  <2>4. fills' = Append(fills, e) /\ cash' = [cash EXCEPT ![u] = @ - resting[u]]
    BY <2>1 DEF FillResting
  <2> HIDE DEF e
  <2>5. cash' = [cash EXCEPT ![u] = @ - Spend(e)]
    BY <2>3, <2>4
  <2> QED BY <1>1, <2>3, <2>4, <2>5, FillBalance
<1> QED BY <1>2, <1>3, <1>4 DEF Trading

\* The closing fill pays its lots at the claimed score.
LEMMA CloseBalance ==
  ASSUME TypeOK, Flow, BooksBalance, NEW w \in Workers, NEW u \in Users,
         applySettlementFill(w, u), Closable(u)
  PROVE  BooksBalance'
<1>1. /\ worker[w].at = "closing" /\ closing[u].stage = "open"
      /\ cash' = [cash EXCEPT ![u] = @ + closing[u].lots * Payoff(worker[w].score)]
      /\ closing' = [closing EXCEPT ![u].stage = "executed"]
      /\ UNCHANGED <<fills, refunded, market>>
  BY DEF applySettlementFill, Closable
<1>2. worker[w].score = market.score
  BY <1>1 DEF Flow, ClaimHolds, Fixing
<1> DEFINE gain == closing[u].lots * Payoff(market.score)
<1>3. gain \in Int
  BY MoneyTyped
<1>4. SUFFICES ASSUME NEW v \in Users
               PROVE  cash'[v] = Deposit - CashDelta(fills, v)
                        + (IF closing'[v].stage = "executed"
                             THEN closing'[v].lots * Payoff(market.score) ELSE 0)
                        + refunded[v].cash
  BY <1>1 DEF BooksBalance
<1>5. cash[v] = Deposit - CashDelta(fills, v)
                  + (IF closing[v].stage = "executed"
                       THEN closing[v].lots * Payoff(market.score) ELSE 0)
                  + refunded[v].cash
  BY DEF BooksBalance
<1>6. CASE v # u
  <2>1. cash'[v] = cash[v] /\ closing'[v] = closing[v]
    BY <1>1, <1>6 DEF TypeOK
  <2> QED BY <1>5, <2>1
<1>7. CASE v = u
  <2>1. closing'[u].stage = "executed" /\ closing'[u].lots = closing[u].lots
    BY <1>1 DEF TypeOK
  <2>2. cash'[u] = cash[u] + gain
    BY <1>1, <1>2 DEF TypeOK
  <2>3. /\ cash[u] \in Int /\ refunded[u].cash \in Int /\ Deposit \in Int
        /\ CashDelta(fills, u) \in Int
    BY MoneyTyped
  <2>4. cash[u] = Deposit - CashDelta(fills, u) + 0 + refunded[u].cash
    BY <1>1, <1>5, <1>7
  <2>5. (IF closing'[v].stage = "executed"
           THEN closing'[v].lots * Payoff(market.score) ELSE 0) = gain
    BY <1>7, <2>1
  <2> HIDE DEF gain
  <2>6. cash'[u] = Deposit - CashDelta(fills, u) + gain + refunded[u].cash
    BY <1>3, <2>2, <2>3, <2>4
  <2> QED BY <1>7, <2>5, <2>6
<1> QED BY <1>6, <1>7

\* A reversal moves the cash of a user once.
LEMMA RefundBalance ==
  ASSUME TypeOK, Flow, VoidWork, BooksBalance, NEW w \in Workers, NEW u \in Users,
         ReverseProviderContract(w, u), ~Fail(w)
  PROVE  BooksBalance'
<1> DEFINE comp == [worker[w].comp[u] EXCEPT !.hash = {}]
<1>1. /\ UNCHANGED <<fills, closing, market>>
      /\ \/ ~Replayed(u) /\ refunded' = [refunded EXCEPT ![u] = comp]
            /\ cash' = [cash EXCEPT ![u] = @ + comp.cash]
         \/ Replayed(u) /\ refunded[u] = comp /\ refunded' = [refunded EXCEPT ![u] = comp]
            /\ cash' = cash
  BY DEF ReverseProviderContract
<1>2. comp \in Comps /\ comp.cash \in Int
  <2>1. worker[w].comp[u] \in Comps
    BY DEF TypeOK, Processors
  <2> QED BY <2>1 DEF Comps
<1> HIDE DEF comp
<1>3. SUFFICES ASSUME NEW v \in Users
               PROVE  cash'[v] = Deposit - CashDelta(fills, v)
                        + (IF closing[v].stage = "executed"
                             THEN closing[v].lots * Payoff(market.score) ELSE 0)
                        + refunded'[v].cash
  BY <1>1 DEF BooksBalance
<1> DEFINE paid == IF closing[v].stage = "executed"
                     THEN closing[v].lots * Payoff(market.score) ELSE 0
<1>4. paid \in Int
  BY MoneyTyped
<1>5. cash[v] = Deposit - CashDelta(fills, v) + paid + refunded[v].cash
  BY DEF BooksBalance
<1>6. /\ cash[v] \in Int /\ refunded[v].cash \in Int /\ Deposit \in Int
      /\ CashDelta(fills, v) \in Int
  BY MoneyTyped
<1> HIDE DEF paid
<1>7. cash'[v] = Deposit - CashDelta(fills, v) + paid + refunded'[v].cash
  <2>1. CASE v # u \/ Replayed(u)
    <3>1. cash'[v] = cash[v] /\ refunded'[v] = refunded[v]
      BY <1>1, <2>1 DEF TypeOK
    <3> QED BY <1>5, <3>1
  <2>2. CASE v = u /\ ~Replayed(u)
    <3>1. refunded[v].cash = 0
      BY <2>2 DEF VoidWork, Replayed
    <3>2. refunded'[v].cash = comp.cash /\ cash'[v] = cash[v] + comp.cash
      BY <1>1, <2>2 DEF TypeOK
    <3> QED BY <1>2, <1>4, <1>5, <1>6, <3>1, <3>2
  <2> QED BY <2>1, <2>2
<1> QED BY <1>7 DEF paid

LEMMA SettleBalance ==
  ASSUME TypeOK, Flow, ClosedOnce, BooksBalance, NEW w \in Workers, Settle(w), MarketKept
  PROVE  BooksBalance'
<1>1. CASE UNCHANGED Ledger
  BY <1>1, LedgerRests
<1>2. ASSUME NEW u \in Users, FindOrCreate(w, u) PROVE BooksBalance'
  <2>1. /\ worker[w].at = "closing" /\ closing[u].revision # worker[w].revision
        /\ closing' = [closing EXCEPT ![u] = [stage |-> "open", lots |-> worker[w].lots[u],
                                              revision |-> worker[w].revision]]
        /\ UNCHANGED <<cash, fills, refunded, market>>
    BY <1>2 DEF FindOrCreate, books
  <2>2. closing[u].stage # "executed" /\ closing'[u].stage = "open"
    BY <2>1 DEF Flow, ClaimHolds, Fixing, ClosedOnce, TypeOK
  <2>3. \A v \in Users : /\ closing'[v].stage = "executed" <=> closing[v].stage = "executed"
                         /\ closing[v].stage = "executed" => closing'[v] = closing[v]
    BY <2>1, <2>2 DEF TypeOK
  <2>4. SUFFICES ASSUME NEW v \in Users
                 PROVE  cash[v] = Deposit - CashDelta(fills, v)
                          + (IF closing'[v].stage = "executed"
                               THEN closing'[v].lots * Payoff(market.score) ELSE 0)
                          + refunded[v].cash
    BY <2>1 DEF BooksBalance
  <2>5. CASE closing[v].stage = "executed"
    BY <2>3, <2>5 DEF BooksBalance
  <2>6. CASE closing[v].stage # "executed"
    BY <2>3, <2>6 DEF BooksBalance
  <2> QED BY <2>5, <2>6
<1>3. ASSUME NEW u \in Users, applySettlementFill(w, u) PROVE BooksBalance'
  <2>1. CASE Closable(u)
    BY <1>3, <2>1, CloseBalance
  <2>2. CASE ~Closable(u)
    <3>1. UNCHANGED Ledger
      BY <1>3, <2>2 DEF applySettlementFill, Ledger
    <3> QED BY <3>1, LedgerRests
  <2> QED BY <2>1, <2>2
<1>4. ASSUME NEW u \in Users, CancelOrder(w, u) PROVE UNCHANGED Ledger
  BY <1>4 DEF CancelOrder, orderVars, Ledger
<1>5. CASE ReadMarket(w) \/ ClaimProviderSettlement(w) \/ collectOpenPositions(w) \/ Recheck(w)
           \/ SetSettled(w)
  <2>1. UNCHANGED Ledger
    BY <1>5 DEF ReadMarket, ClaimProviderSettlement, collectOpenPositions, Recheck, SetSettled,
                SetGate, Fail, books, orderVars, Ledger
  <2> QED BY <2>1, LedgerRests
<1> QED BY <1>1, <1>2, <1>3, <1>4, <1>5 DEF Settle

LEMMA VoidBalance ==
  ASSUME TypeOK, Flow, ClosedOnce, VoidWork, BooksBalance, NEW w \in Workers, Void(w), MarketKept
  PROVE  BooksBalance'
<1>1. ASSUME NEW u \in Users, ReverseProviderContract(w, u) PROVE BooksBalance'
  <2>1. CASE Fail(w)
    <3>1. UNCHANGED Ledger
      BY <2>1 DEF Fail, books, orderVars, Ledger
    <3> QED BY <3>1, LedgerRests
  <2>2. CASE ~Fail(w)
    BY <1>1, <2>2, RefundBalance
  <2> QED BY <2>1, <2>2
<1>2. ASSUME \A u \in Users : ~ReverseProviderContract(w, u) PROVE UNCHANGED Ledger
  BY <1>2 DEF Void, ReadVoidable, ListExecutions, providerVoidCompensations,
              FreezeProviderVoidCompensation, AllFrozen, AllRefunded, ReverseExecution, Unwound,
              SetVoid, SetGate, Fail, books, orderVars, Ledger
<1> QED BY <1>1, <1>2, LedgerRests

LEMMA ClosedOnceStep ==
  ASSUME TypeOK, Flow, ClosedOnce, MarketKept, Next
  PROVE  ClosedOnce'
<1>1. CASE UNCHANGED closing
  BY <1>1 DEF ClosedOnce, MarketKept
<1>2. ASSUME NEW w \in Workers, NEW u \in Users, FindOrCreate(w, u) PROVE ClosedOnce'
  <2>1. closing' = [closing EXCEPT ![u] = [stage |-> "open", lots |-> worker[w].lots[u],
                                           revision |-> worker[w].revision]]
    BY <1>2 DEF FindOrCreate
  <2>2. \A v \in Users : closing'[v].stage = "executed" =>
          closing[v].stage = "executed" /\ closing'[v] = closing[v]
    BY <2>1 DEF TypeOK
  <2> QED BY <2>2 DEF ClosedOnce, MarketKept
<1>3. ASSUME NEW w \in Workers, NEW u \in Users, applySettlementFill(w, u) PROVE ClosedOnce'
  <2>1. /\ worker[w].at = "closing" /\ closing[u].revision = worker[w].revision
        /\ market' = market
        /\ closing' \in {closing, [closing EXCEPT ![u].stage = "executed"]}
    BY <1>3 DEF applySettlementFill
  <2>2. market.claimed > 0 /\ market.claimed = worker[w].revision
    BY <2>1 DEF Flow, ClaimHolds, JobFollowed, Fixing, SettleStages
  <2>3. \A v \in Users : closing'[v].revision = closing[v].revision
                         /\ (v # u => closing'[v] = closing[v])
    BY <2>1 DEF TypeOK
  <2> QED BY <2>1, <2>2, <2>3 DEF ClosedOnce
<1>4. ASSUME NEW w \in Workers, Settle(w),
             \A u \in Users : ~FindOrCreate(w, u) /\ ~applySettlementFill(w, u)
      PROVE  UNCHANGED closing
  BY <1>4 DEF Settle, ReadMarket, ClaimProviderSettlement, CancelOrder, collectOpenPositions,
              Recheck, SetSettled, SetGate, Fail, orderVars
<1>5. ASSUME NEW w \in Workers, Void(w) PROVE UNCHANGED closing
  BY <1>5 DEF Void, ReadVoidable, ListExecutions, providerVoidCompensations, Stepping, Fail,
              FreezeProviderVoidCompensation, AllFrozen, ReverseProviderContract, AllRefunded,
              ReverseExecution, Unwound, SetVoid, SetGate, orderVars
<1>6. ASSUME NEW w \in Workers,
             \/ ClaimSettlementJob(w) \/ CompleteSettlementJob(w) \/ Mishap(w)
             \/ maintainLease(w) \/ Renew(w) \/ LeaseExpires
      PROVE  UNCHANGED closing
  BY <1>6 DEF ClaimSettlementJob, CompleteSettlementJob, Mishap, maintainLease, Renew,
              LeaseExpires, orderVars
<1>7. Feed => UNCHANGED closing
  BY DEF Feed, Poll, Polled, Outage, FeedUnchanged, orderVars
<1>8. LeaseExpires => UNCHANGED closing
  BY DEF LeaseExpires, orderVars
<1>9. Trading => UNCHANGED closing
  BY TradingKeeps
<1> QED BY <1>1, <1>2, <1>3, <1>4, <1>5, <1>6, <1>7, <1>8, <1>9 DEF Next, Work

\* What a processor of a void carries, when it moves on or gives up.
VoidStage(r) ==
  /\ r.at \in {"freezing", "refunding"} => \A u \in Users : r.comp[u].set
  /\ r.at = "unwinding" => r.todo \subseteq DOMAIN r.seen

LEMMA StageKept ==
  ASSUME TypeOK, VoidWork, NEW w \in Workers, NEW r,
         worker' = [worker EXCEPT ![w] = r], VoidStage(r), UNCHANGED refunded
  PROVE  VoidWork'
<1>1. worker'[w] = r /\ \A v \in Workers : v # w => worker'[v] = worker[v]
  BY DEF TypeOK
<1> QED BY <1>1 DEF VoidWork, VoidStage

LEMMA IdleStage ==
  ASSUME TypeOK, VoidWork, NEW w \in Workers,
         worker' = [worker EXCEPT ![w] = Idle], UNCHANGED refunded
  PROVE  VoidWork'
<1>1. VoidStage(Idle)
  BY DEF VoidStage, Idle
<1> QED BY <1>1, StageKept

LEMMA JobStages ==
  ASSUME TypeOK, VoidWork, NEW w \in Workers,
         \/ ClaimSettlementJob(w) \/ CompleteSettlementJob(w) \/ Mishap(w)
         \/ maintainLease(w) \/ Renew(w) \/ Fail(w) \/ LeaseExpires
  PROVE  VoidWork'
<1>1. CASE CompleteSettlementJob(w) \/ maintainLease(w) \/ Fail(w)
  BY <1>1, IdleStage DEF CompleteSettlementJob, maintainLease, Fail, Failing, orderVars
<1>2. CASE Mishap(w)
  <2>1. UNCHANGED refunded /\ (worker' = [worker EXCEPT ![w] = Idle] \/ worker' = worker)
    BY <1>2 DEF Mishap, Failing, orderVars
  <2>2. CASE worker' = worker
    BY <2>1, <2>2 DEF VoidWork
  <2> QED BY <2>1, <2>2, IdleStage
<1>3. CASE ClaimSettlementJob(w)
  <2> DEFINE r == [Idle EXCEPT !.revision = job.revision,
                               !.at = IF job.action = "void" THEN "voiding" ELSE "settling"]
  <2>1. VoidStage(r) /\ worker' = [worker EXCEPT ![w] = r] /\ UNCHANGED refunded
    BY <1>3 DEF ClaimSettlementJob, VoidStage, Idle, orderVars
  <2> HIDE DEF r
  <2> QED BY <2>1, StageKept
<1>4. CASE Renew(w) \/ LeaseExpires
  BY <1>4 DEF Renew, LeaseExpires, VoidWork, orderVars
<1> QED BY <1>1, <1>2, <1>3, <1>4

LEMMA SettleStage ==
  ASSUME TypeOK, VoidWork, NEW w \in Workers, Settle(w)
  PROVE  VoidWork'
<1>1. worker[w] \in Processors
  BY DEF TypeOK
<1>2. Fail(w) => VoidWork'
  BY JobStages
<1>3. ASSUME NEW r, worker' = [worker EXCEPT ![w] = r], r.at \notin {"freezing", "refunding", "unwinding"},
             UNCHANGED refunded
      PROVE  VoidWork'
  BY <1>3, StageKept DEF VoidStage
<1>4. CASE ReadMarket(w) /\ ~Fail(w)
  <2> DEFINE r == [worker[w] EXCEPT !.at = "reading", !.score = market.score]
             d == [worker[w] EXCEPT !.at = "done"]
  <2>1. r.at = "reading" /\ d.at = "done"
    BY <1>1 DEF Processors
  <2>2. /\ worker' = [worker EXCEPT ![w] = r] \/ worker' = [worker EXCEPT ![w] = d]
        /\ UNCHANGED refunded
    BY <1>1, <1>4 DEF ReadMarket, Goto, orderVars, TypeOK
  <2> HIDE DEF r, d
  <2> QED BY <1>3, <2>1, <2>2
<1>5. CASE ClaimProviderSettlement(w) /\ ~Fail(w)
  <2> DEFINE r == [worker[w] EXCEPT !.at = "listing", !.todo = {u \in Users : resting[u] > 0}]
  <2>1. r.at = "listing" /\ worker' = [worker EXCEPT ![w] = r] /\ UNCHANGED refunded
    BY <1>1, <1>5 DEF ClaimProviderSettlement, Processors, orderVars
  <2> HIDE DEF r
  <2> QED BY <1>3, <2>1
<1>6. ASSUME NEW u \in Users, CancelOrder(w, u) \/ applySettlementFill(w, u) PROVE VoidWork'
  <2> DEFINE r == [worker[w] EXCEPT !.todo = @ \ {u}]
             s == [worker[w] EXCEPT !.todo = @ \ {u}, !.ok = @ /\ Closable(u)]
  <2>1. r.at = worker[w].at /\ s.at = worker[w].at
    BY <1>1 DEF Processors
  <2>2. /\ worker[w].at \in {"listing", "unlisting", "closing"} /\ UNCHANGED refunded
        /\ worker' = [worker EXCEPT ![w] = r] \/ worker' = [worker EXCEPT ![w] = s]
    BY <1>6 DEF CancelOrder, applySettlementFill, orderVars
  <2> HIDE DEF r, s
  <2> QED BY <1>3, <2>1, <2>2
<1>7. ASSUME NEW u \in Users, FindOrCreate(w, u) PROVE VoidWork'
  BY <1>7 DEF FindOrCreate, VoidWork
<1>8. CASE collectOpenPositions(w)
  <2> DEFINE r == [worker[w] EXCEPT !.at = "closing", !.todo = Open, !.lots = Lots]
  <2>1. r.at = "closing" /\ worker' = [worker EXCEPT ![w] = r] /\ UNCHANGED refunded
    BY <1>1, <1>8 DEF collectOpenPositions, Processors, orderVars
  <2> HIDE DEF r
  <2> QED BY <1>3, <2>1
<1>9. ASSUME NEW at \in {"closed", "done"}, Goto(w, at), UNCHANGED refunded PROVE VoidWork'
  <2> DEFINE r == [worker[w] EXCEPT !.at = at]
  <2>1. r.at = at /\ worker' = [worker EXCEPT ![w] = r]
    BY <1>1, <1>9 DEF Goto, Processors
  <2> HIDE DEF r
  <2> QED BY <1>3, <1>9, <2>1
<1>10. CASE (Recheck(w) \/ SetSettled(w)) /\ ~Fail(w)
  BY <1>9, <1>10 DEF Recheck, SetSettled, SetGate, orderVars
<1> QED BY <1>2, <1>4, <1>5, <1>6, <1>7, <1>8, <1>10 DEF Settle

LEMMA VoidStep ==
  ASSUME TypeOK, VoidWork, NEW w \in Workers, Void(w)
  PROVE  VoidWork'
<1>1. worker[w] \in Processors /\ worker[w].seen \in Seq(Fills)
  BY DEF TypeOK, Processors
<1>2. Fail(w) => VoidWork'
  BY JobStages
<1>3. ASSUME NEW r, worker' = [worker EXCEPT ![w] = r], VoidStage(r), UNCHANGED refunded
      PROVE  VoidWork'
  BY <1>3, StageKept
<1>4. ASSUME NEW at \in {"done", "unwound"}, Goto(w, at), UNCHANGED refunded PROVE VoidWork'
  <2> DEFINE r == [worker[w] EXCEPT !.at = at]
  <2>1. r.at = at /\ worker' = [worker EXCEPT ![w] = r]
    BY <1>1, <1>4 DEF Goto, Processors
  <2> HIDE DEF r
  <2> QED BY <1>3, <1>4, <2>1 DEF VoidStage
<1>5. CASE ReadVoidable(w) /\ ~Fail(w)
  <2> DEFINE r == [worker[w] EXCEPT !.at = "unlisting", !.todo = {u \in Users : resting[u] > 0}]
  <2>1. r.at = "unlisting"
    BY <1>1 DEF Processors
  <2>2. Goto(w, "done") \/ worker' = [worker EXCEPT ![w] = r]
    BY <1>5 DEF ReadVoidable
  <2>3. UNCHANGED refunded
    BY <1>5 DEF ReadVoidable, orderVars
  <2> HIDE DEF r
  <2> QED BY <1>3, <1>4, <2>1, <2>2, <2>3 DEF VoidStage
<1>6. CASE ListExecutions(w)
  <2> DEFINE r == [worker[w] EXCEPT !.at = "weighing", !.seen = fills]
  <2>1. r.at = "weighing" /\ worker' = [worker EXCEPT ![w] = r] /\ UNCHANGED refunded
    BY <1>1, <1>6 DEF ListExecutions, Processors, orderVars
  <2> HIDE DEF r
  <2> QED BY <1>3, <2>1 DEF VoidStage
<1>7. CASE providerVoidCompensations(w)
  <2> DEFINE comp == [u \in Users |->
                        [set |-> TRUE, cash |-> CashDelta(worker[w].seen, u),
                         reserved |-> -position[u].collateral,
                         hash |-> FillsOf(worker[w].seen, u)]]
  <2>1. PICK todo :
          worker' = [worker EXCEPT ![w] =
                       [worker[w] EXCEPT !.at = "freezing", !.todo = todo, !.comp = comp]]
    BY <1>7 DEF providerVoidCompensations
  <2> DEFINE r == [worker[w] EXCEPT !.at = "freezing", !.todo = todo, !.comp = comp]
  <2>2. \A u \in Users : comp[u].set
    OBVIOUS
  <2> HIDE DEF comp
  <2>3. r.at = "freezing" /\ r.comp = comp
    BY <1>1 DEF Processors
  <2> HIDE DEF r
  <2>4. VoidStage(r)
    BY <2>2, <2>3 DEF VoidStage
  <2>5. UNCHANGED refunded
    BY <1>7 DEF providerVoidCompensations, orderVars
  <2> QED BY <1>3, <2>1, <2>4, <2>5 DEF r
<1>8. ASSUME NEW u \in Users, FreezeProviderVoidCompensation(w, u), ~Fail(w)
      PROVE  VoidWork'
  <2> DEFINE kept == Frozen(u, worker[w].comp[u])
             comp == [worker[w].comp EXCEPT ![u] = kept]
             r == [worker[w] EXCEPT !.todo = @ \ {u}, !.comp[u] = kept]
  <2>1. /\ worker[w].at = "freezing" /\ UNCHANGED refunded
        /\ worker' = [worker EXCEPT ![w] = r]
    BY <1>8 DEF FreezeProviderVoidCompensation
  <2>2. kept.set
    BY <2>1 DEF Frozen, VoidWork
  <2> HIDE DEF kept
  <2>3. \A v \in Users : comp[v].set
    BY <1>1, <2>1, <2>2 DEF VoidWork, Processors
  <2>4. r.at = "freezing" /\ r.comp = comp
    BY <1>1, <2>1 DEF Processors
  <2> HIDE DEF comp
  <2> HIDE DEF r
  <2> QED BY <1>3, <2>1, <2>3, <2>4 DEF VoidStage
<1>9. CASE AllFrozen(w)
  <2>1. PICK todo :
          worker' = [worker EXCEPT ![w] = [worker[w] EXCEPT !.at = "refunding", !.todo = todo]]
    BY <1>9 DEF AllFrozen
  <2> DEFINE r == [worker[w] EXCEPT !.at = "refunding", !.todo = todo]
  <2>2. r.at = "refunding" /\ r.comp = worker[w].comp
    BY <1>1 DEF Processors
  <2> HIDE DEF r
  <2>3. VoidStage(r)
    BY <1>9, <2>2 DEF VoidStage, VoidWork, AllFrozen
  <2>4. UNCHANGED refunded
    BY <1>9 DEF AllFrozen, orderVars
  <2> QED BY <1>3, <2>1, <2>3, <2>4 DEF r
<1>10. ASSUME NEW u \in Users, ReverseProviderContract(w, u), ~Fail(w)
       PROVE  VoidWork'
  <2> DEFINE comp == [worker[w].comp[u] EXCEPT !.hash = {}]
             r == [worker[w] EXCEPT !.todo = @ \ {u}]
  <2>1. /\ worker[w].at = "refunding" /\ worker' = [worker EXCEPT ![w] = r]
        /\ refunded' = [refunded EXCEPT ![u] = comp]
    BY <1>10 DEF ReverseProviderContract
  <2>2. comp.set
    <3>1. worker[w].comp[u] \in Comps /\ worker[w].comp[u].set
      BY <1>1, <2>1 DEF VoidWork, Processors
    <3> QED BY <3>1 DEF Comps
  <2>3. r.at = "refunding" /\ r.comp = worker[w].comp
    BY <1>1, <2>1 DEF Processors
  <2> HIDE DEF comp, r
  <2>4. \A v \in Users : ~refunded'[v].set => refunded'[v].cash = 0
    BY <2>1, <2>2 DEF VoidWork, TypeOK
  <2>5. worker'[w] = r /\ \A v \in Workers : v # w => worker'[v] = worker[v]
    BY <2>1 DEF TypeOK
  <2> QED BY <2>1, <2>3, <2>4, <2>5 DEF VoidWork
<1>11. CASE AllRefunded(w)
  <2> DEFINE r == [worker[w] EXCEPT !.at = "unwinding", !.todo = DOMAIN worker[w].seen]
  <2>1. /\ r.at = "unwinding" /\ r.todo = DOMAIN worker[w].seen /\ r.seen = worker[w].seen
        /\ worker' = [worker EXCEPT ![w] = r] /\ UNCHANGED refunded
    BY <1>1, <1>11 DEF AllRefunded, Processors, orderVars
  <2> HIDE DEF r
  <2> QED BY <1>3, <2>1 DEF VoidStage
<1>12. CASE ReverseExecution(w)
  <2> DEFINE r == [worker[w] EXCEPT !.todo = @ \ {Newest(w)}]
  <2>1. /\ worker[w].at = "unwinding" /\ UNCHANGED refunded
        /\ worker' = [worker EXCEPT ![w] = r] \/ worker' = worker
    BY <1>12 DEF ReverseExecution
  <2>2. r.at = "unwinding" /\ r.todo \subseteq worker[w].todo /\ r.seen = worker[w].seen
    BY <1>1, <2>1 DEF Processors
  <2> HIDE DEF r
  <2>3. VoidStage(r)
    BY <2>1, <2>2 DEF VoidWork, VoidStage
  <2>4. worker' = worker => VoidWork'
    BY <2>1 DEF VoidWork
  <2> QED BY <1>3, <2>1, <2>3, <2>4
<1>13. CASE (Unwound(w) \/ SetVoid(w)) /\ ~Fail(w)
  BY <1>4, <1>13 DEF Unwound, SetVoid, SetGate, orderVars
<1> QED BY <1>2, <1>5, <1>6, <1>7, <1>8, <1>9, <1>10, <1>11, <1>12, <1>13 DEF Void

LEMMA InvInit == Init => Inv
<1> SUFFICES ASSUME Init PROVE Inv
  OBVIOUS
<1>1. /\ \A w \in Workers : worker[w] = Idle
      /\ job = NoJob /\ market.revision = 0 /\ market.claimed = 0 /\ market.lifecycle = "open"
      /\ ~match.ready /\ match.candidate = NoCandidate /\ fills = <<>> /\ undo = <<>>
  BY DEF Init
<1>2. TypeOK
  <2>1. NoCandidate \in Candidates /\ NoJob \in Jobs
    BY DEF NoCandidate, Candidates, NoJob, Jobs, JobStatuses
  <2>2. match \in Matches
    <3>1. PICK c \in Contracts :
            match = [contract |-> c, innings |-> c, status |-> "live", feed |-> "healthy",
                     blocked |-> FALSE, candidate |-> NoCandidate, ready |-> FALSE,
                     disposition |-> "none", final |-> NoCandidate,
                     last |-> [phase |-> "play", innings |-> c, complete |-> FALSE, score |-> 0]]
      BY DEF Init
    <3>2. c \in 1 .. 2
      BY SettlementAssumption
    <3> QED BY <2>1, <3>1, <3>2 DEF Matches, Statuses, Feeds, Phases
  <2>3. market \in Markets
    BY DEF Init, Markets, Lifecycles
  <2>4. Deposit \in Int
    BY SettlementAssumption
  <2> QED BY <1>1, <2>1, <2>2, <2>3, <2>4, IdleTyped DEF Init, TypeOK, Flat, NoOrder
<1>3. Flow
  BY <1>1 DEF Flow, OneProcessor, JobFollowed, FinalsAgree, ClaimHolds, Agree, Idle, NoJob,
              NoCandidate, SettleStages, VoidStages, Reverting, Fixing
<1>4. ClosedOnce
  BY DEF Init, ClosedOnce, NoOrder
<1>5. VoidWork
  BY <1>1 DEF Init, VoidWork, NoComp, Idle
<1>6. BooksBalance
  <2>1. SUFFICES ASSUME NEW u \in Users
                 PROVE  cash[u] = Deposit - CashDelta(fills, u)
                          + (IF closing[u].stage = "executed"
                               THEN closing[u].lots * Payoff(market.score) ELSE 0)
                          + refunded[u].cash
    BY DEF BooksBalance
  <2>2. CashDelta(fills, u) = 0
    <3> DEFINE f == [n \in DOMAIN fills |-> IF n \in FillsOf(fills, u) THEN Spend(fills[n]) ELSE 0]
    <3>1. Len(fills) = 0
      BY <1>1
    <3> HIDE DEF f
    <3>2. Total(f, 0) = 0
      BY TotalZero
    <3> QED BY <3>1, <3>2 DEF CashDelta, f
  <2>3. cash[u] = Deposit /\ closing[u].stage = "none" /\ refunded[u].cash = 0 /\ Deposit \in Int
    BY SettlementAssumption DEF Init, NoOrder, NoComp
  <2> QED BY <2>2, <2>3
<1> QED BY <1>2, <1>3, <1>4, <1>5, <1>6 DEF Inv, Flow

LEMMA TypeStep ==
  ASSUME TypeOK, Flow, VoidWork, Next
  PROVE  TypeOK'
<1>1. Grounded
  BY DEF Grounded, Flow
<1>2. CASE LeaseExpires
  BY <1>2 DEF LeaseExpires, TypeOK, feedVars, books, orderVars
<1> QED BY <1>1, <1>2, FeedTyped, TradingTyped, JobTyped, SettleTyped, VoidTyped DEF Next, Work

\* The steps of the processors and of the feed keep the invariant, as long
\* as no processor outlives its lease.
LEMMA InvStep ==
  ASSUME Inv, ~Stalls, [Next]_vars
  PROVE  Inv' /\ MarketKept
<1>1. TypeOK /\ Flow /\ ClosedOnce /\ VoidWork /\ BooksBalance
  BY DEF Inv, Flow
<1>2. CASE UNCHANGED vars
  <2>1. TypeOK'
    BY <1>1, <1>2 DEF TypeOK, vars
  <2>2. Flow'
    BY <1>1, <1>2 DEF Flow, OneProcessor, Owns, JobFollowed, FinalsAgree, Agree, ClaimHolds, vars
  <2>3. ClosedOnce' /\ VoidWork'
    BY <1>1, <1>2 DEF ClosedOnce, VoidWork, vars
  <2>4. MarketKept
    BY <1>2 DEF MarketKept, vars
  <2>5. BooksBalance'
    <3>1. UNCHANGED Ledger
      BY <1>2 DEF Ledger, vars
    <3> QED BY <1>1, <2>4, <3>1, LedgerRests
  <2> QED BY <2>1, <2>2, <2>3, <2>4, <2>5 DEF Inv, Flow
<1>3. CASE Next
  <2>1. TypeOK'
    BY <1>1, <1>3, TypeStep
  <2>2. Flow' /\ MarketKept
    BY <1>1, <1>3, FlowStep
  <2>3. ClosedOnce'
    BY <1>1, <1>3, <2>2, ClosedOnceStep
  <2>4. VoidWork' /\ BooksBalance'
    <3>1. ASSUME UNCHANGED Ledger, UNCHANGED worker PROVE VoidWork' /\ BooksBalance'
      BY <1>1, <2>2, <3>1, LedgerRests DEF VoidWork, Ledger
    <3>2. CASE Trading
      BY <1>1, <3>2, TradingKeeps, TradingBalance DEF VoidWork
    <3>3. CASE Feed
      BY <3>1, <3>3 DEF Feed, Poll, Polled, Outage, FeedUnchanged, books, orderVars, Ledger
    <3>4. CASE LeaseExpires
      BY <3>1, <3>4 DEF LeaseExpires, books, orderVars, Ledger
    <3>5. ASSUME NEW w \in Workers, Work(w) \/ Mishap(w) PROVE VoidWork' /\ BooksBalance'
      <4>1. CASE Settle(w)
        BY <1>1, <2>2, <4>1, SettleStage, SettleBalance
      <4>2. CASE Void(w)
        BY <1>1, <2>2, <4>2, VoidStep, VoidBalance
      <4>3. CASE ClaimSettlementJob(w) \/ CompleteSettlementJob(w) \/ Mishap(w)
                 \/ maintainLease(w) \/ Renew(w)
        <5>1. UNCHANGED Ledger
          BY <4>3 DEF ClaimSettlementJob, CompleteSettlementJob, Mishap, maintainLease, Renew,
                      books, orderVars, Ledger
        <5> QED BY <1>1, <2>2, <4>3, <5>1, JobStages, LedgerRests
      <4> QED BY <3>5, <4>1, <4>2, <4>3 DEF Work
    <3> QED BY <1>3, <3>2, <3>3, <3>4, <3>5 DEF Next
  <2> QED BY <2>1, <2>2, <2>3, <2>4 DEF Inv, Flow
<1> QED BY <1>2, <1>3

\* The invariant holds in every state that a processor reaches within its
\* lease.
THEOREM InvHolds ==
  ASSUME ~Stalls
  PROVE  Spec => []Inv
<1>1. Inv /\ [Next]_vars => Inv'
  BY InvStep
<1> QED BY <1>1, InvInit, PTL DEF Spec

\* Documents, accounts and processors keep their shape: no step of the feed, of
\* a trade, of a settlement or of a void leaves a value outside its range.
THEOREM TypeCorrect ==
  ASSUME ~Stalls
  PROVE  Spec => []TypeOK
<1>1. Inv => TypeOK
  BY DEF Inv
<1> QED BY <1>1, InvHolds, PTL

\* However often a settlement or a void is retried, an account holds its
\* deposit, its fills, one payoff for a closed contract and one reversal.
THEOREM BooksBalanceHolds ==
  ASSUME ~Stalls
  PROVE  Spec => []BooksBalance
<1>1. Inv => BooksBalance
  BY DEF Inv
<1> QED BY <1>1, InvHolds, PTL

\* ClaimProviderSettlement freezes the final: no poll, closure or void changes
\* the revision or the score of a claimed market.
THEOREM ClaimIsFinalHolds ==
  ASSUME ~Stalls
  PROVE  Spec => ClaimIsFinal
<1> DEFINE Kept == market.claimed > 0 =>
                     /\ market'.claimed = market.claimed /\ market'.revision = market.claimed
                     /\ market'.score = market.score
<1>1. Inv /\ [Next]_vars => [Kept]_vars
  <2>1. ASSUME Inv, Next PROVE Kept
    BY <2>1, InvStep DEF MarketKept, Inv, ClaimHolds
  <2> QED BY <2>1
<1> QED BY <1>1, InvHolds, PTL DEF Spec, ClaimIsFinal
=============================================================================
