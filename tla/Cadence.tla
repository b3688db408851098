------------------------------ MODULE Cadence ------------------------------
(***************************************************************************)
(* How often the provider is asked, with the defaults of LoadConfigFromEnv *)
(* (criclive/worker, criclive/client/config.go): the reads of each match   *)
(* and the scans of the live list, over a day of matches, against the      *)
(* allowances of the hour, of the day and of one fixture.                  *)
(*                                                                         *)
(* A step is ten minutes.  Within it every wait is its mean, the reads are *)
(* counted in full even when the cadence slows down half way, and the      *)
(* pacer sees the spending of the step before.  One worker; which requests *)
(* race for a slot of a bucket is in RequestQuota, and what a read does to *)
(* a target in Polling.                                                    *)
(***************************************************************************)
EXTENDS Integers, Sequences, FiniteSets, FiniteSetsExt

CONSTANTS Programmes, \* days of matches: sequences of [format, at], at in steps
          MaxTurns,   \* bound: delays, lulls, failures and absences, of ten minutes each
          MaxSteps    \* bound: steps of the day

ASSUME CadenceAssumption ==
  /\ \A p \in Programmes : \A i \in DOMAIN p :
       p[i].format \in {"T20", "ODI"} /\ p[i].at \in Nat
  /\ MaxTurns \in Nat /\ MaxSteps \in Nat

VARIABLES step,    \* steps since midnight
          game,    \* the matches and what their targets know of them
          hourly,  \* requests of the running hour
          daily,   \* requests of the day
          active,  \* discoveryActive
          starved, \* matches refused a request in the last step
          unseen,  \* history: matches that began while the live list was hardly read
          turns
cadenceVars == <<step, game, hourly, daily, active, starved, unseen, turns>>

\* Seconds.
cfg == [MinPollInterval |-> 6, MaxPollInterval |-> 10, DiscoveryInterval |-> 60,
        PreMatchInterval |-> 900, BreakInterval |-> 60, FinalizingInterval |-> 15,
        StaleMinimum |-> 60, HTTPTimeout |-> 15,
        HourlyRequestLimit |-> 900, DailyRequestLimit |-> 5000, QuotaReservePercent |-> 20]
Tick == 1
Step == 600

\* Steps of play and of the break between the innings.
Length(format) == IF format = "ODI" THEN 47 ELSE 21
BreakAt(format) == IF format = "ODI" THEN 22..25 ELSE 10..11
MaxRequestsPerFixture(format) == IF format = "ODI" THEN 3600 ELSE 2500

CadenceInit ==
  /\ game = <<>>
  /\ step = 0 /\ hourly = 0 /\ daily = 0 /\ active = FALSE
  /\ starved = {} /\ unseen = {} /\ turns = 0

Larger(a, b) == IF a > b THEN a ELSE b
Smaller(a, b) == IF a < b THEN a ELSE b
UsableOf(limit) == (limit * (100 - cfg.QuotaReservePercent)) \div 100

On(g) == g.phase \in {"play", "break"}
Playing == {i \in DOMAIN game : On(game[i])}
-----------------------------------------------------------------------------
(***************************************************************************)
(* The wait between two reads of a match, in seconds.                      *)
(***************************************************************************)
adaptivePollInterval(count) ==
  CASE count <= 2 -> cfg.MinPollInterval
    [] count \in 3..4 -> Larger(cfg.MinPollInterval, 5)
    [] OTHER -> cfg.MaxPollInterval

budgetPacedInterval(base, used, usable) ==
  IF 4 * (usable - used) <= usable THEN Larger(base, 2 * cfg.MaxPollInterval)
  ELSE IF 2 * (usable - used) <= usable THEN Larger(base, cfg.MaxPollInterval)
  ELSE base

pacedPollInterval ==
  budgetPacedInterval(adaptivePollInterval(Cardinality({i \in Playing : game[i].news # "absent"})),
                      daily, UsableOf(cfg.DailyRequestLimit))

formatPollInterval(format, interval) ==
  IF format = "ODI" THEN Larger(interval, cfg.MaxPollInterval) ELSE interval

\* A break is read at the finalizing cadence: its innings is complete.
intervalForProjection(g) ==
  CASE g.phase = "play" -> formatPollInterval(g.format, pacedPollInterval)
    [] g.phase \in {"break", "final"} -> cfg.FinalizingInterval
    [] g.phase = "due" -> cfg.PreMatchInterval

\* The snapshot has not changed for the whole step before.
quietFeedInterval(interval, g) ==
  IF g.news = "lull" /\ On(g) THEN Larger(interval, cfg.BreakInterval) ELSE interval

\* 2, 4, 8 and then 10 minutes.
failureBackoff(failures) == Smaller(120 * 2^Smaller(failures, 5), 600)

clampAbsentProbe(interval, g) == IF g.news = "absent" THEN Larger(interval, 300) ELSE interval

NextPoll(g) ==
  IF g.news = "errors" THEN failureBackoff(g.failures)
  ELSE clampAbsentProbe(quietFeedInterval(intervalForProjection(g), g), g)

\* A match to come is read from half an hour before its start, and hardly any
\* more twenty minutes after it.
clampPreMatchPoll(g) == step + 3 >= g.at /\ step <= g.at + 2

Reads(g) ==
  CASE g.phase = "over" -> 0
    [] g.phase = "due" -> IF clampPreMatchPoll(g) THEN 1 ELSE 0
    [] OTHER -> (Step + NextPoll(g) - 1) \div NextPoll(g)

\* How long a read keeps the feed fresh, from the interval scheduled before the
\* outcome was known; and when the next answer may come: its wait with the
\* jitter, a tick of the dispatcher and a slow response.
feedValidityForInterval(scheduled) ==
  Larger(cfg.StaleMinimum, 4 * scheduled + cfg.HTTPTimeout + 10)
Latest(wait) == (11 * wait + 9) \div 10 + Tick + cfg.HTTPTimeout
-----------------------------------------------------------------------------
(***************************************************************************)
(* The scans of the live list.                                             *)
(***************************************************************************)
\* Mutant: a match past its start no longer keeps the scans frequent.
PunctualOnly(games, now) ==
  \E i \in DOMAIN games :
    \/ On(games[i])
    \/ games[i].phase = "due" /\ games[i].at - now \in 0..3

\* A match is in play, or starts within half an hour, or is less than an hour
\* late.
setDiscoveryActive(games, now) ==
  \E i \in DOMAIN games :
    \/ On(games[i])
    \/ games[i].phase = "due" /\ games[i].at - now \in -5..3

nextDiscoveryDelay == IF active THEN cfg.DiscoveryInterval ELSE Larger(cfg.DiscoveryInterval, 600)
Scans == Step \div nextDiscoveryDelay
SyncFixtures == IF step % 36 = 0 THEN 1 ELSE 0
-----------------------------------------------------------------------------
(***************************************************************************)
(* Ten minutes.                                                            *)
(***************************************************************************)
Phase(g, left) ==
  CASE left = 0 -> "final" [] left \in BreakAt(g.format) -> "break" [] OTHER -> "play"

\* What becomes of a match: it waits for its start, begins, or goes on.
After10(g, began, news) ==
  LET read == [g EXCEPT !.spent = @ + Reads(g), !.news = news,
                        !.failures = IF news = "errors" THEN Smaller(@ + 1, 3) ELSE 0]
  IN CASE g.phase = "due" -> IF began THEN [read EXCEPT !.phase = "play"] ELSE read
       [] g.phase \in {"final", "over"} -> [read EXCEPT !.phase = "over"]
       [] OTHER -> [read EXCEPT !.left = @ - 1, !.phase = Phase(g, g.left - 1)]

Turn(g, began, news) ==
  IF news # "runs" \/ (g.phase = "due" /\ step >= g.at /\ ~began) THEN 1 ELSE 0

TenMinutes(began, news) ==
  LET demand == MapThenSumSet(LAMBDA i : Reads(game[i]), DOMAIN game)
                + Scans + SyncFixtures
      used == IF step % 6 = 0 THEN 0 ELSE hourly
      left == Smaller(UsableOf(cfg.HourlyRequestLimit) - used,
                      UsableOf(cfg.DailyRequestLimit) - daily)
      sent == Smaller(demand, left)
  IN /\ step < MaxSteps /\ \E i \in DOMAIN game : game[i].phase # "over"
     /\ began \subseteq {i \in DOMAIN game : game[i].phase = "due" /\ step >= game[i].at}
     /\ \A i \in DOMAIN game : news[i] # "runs" => On(game[i])
     /\ turns' = turns + MapThenSumSet(LAMBDA i : Turn(game[i], i \in began, news[i]), DOMAIN game)
     /\ turns' <= MaxTurns
     /\ hourly' = used + sent /\ daily' = daily + sent
     \* A refused read is put off to the next hour.
     /\ starved' = (IF demand > left THEN {i \in Playing : Reads(game[i]) > 0} ELSE {})
     /\ game' = [i \in DOMAIN game |-> After10(game[i], i \in began, news[i])]
     /\ step' = step + 1 /\ active' = setDiscoveryActive(game', step')
     /\ unseen' = unseen \cup (IF active THEN {} ELSE {i \in began : step - game[i].at <= 5})

DayBegins ==
  /\ game = <<>>
  /\ \E p \in Programmes :
       game' = [i \in DOMAIN p |-> [format |-> p[i].format, at |-> p[i].at, phase |-> "due",
                                    left |-> Length(p[i].format), news |-> "runs",
                                    failures |-> 0, spent |-> 0]]
  /\ UNCHANGED <<step, hourly, daily, active, starved, unseen, turns>>

CadenceNext ==
  \/ DayBegins
  \/ \E began \in SUBSET DOMAIN game :
       \E news \in [DOMAIN game -> {"runs", "lull", "errors", "absent"}] : TenMinutes(began, news)
-----------------------------------------------------------------------------
\* A match that begins up to an hour late is seen within a minute.
StartsNoticed == unseen = {}

\* A match whose reads succeed, that is listed and whose score moves, is read
\* again before the watchdog takes its feed for stale, at every cadence.  One
\* whose score does not move is not: see QuietIsStaleBriefly.
FreshBetweenReads ==
  \A i \in Playing : game[i].news = "runs" =>
    feedValidityForInterval(intervalForProjection(game[i])) >= Latest(NextPoll(game[i]))

\* A listed match whose score stands still, and whose reads were slowed down
\* for that, is read again at most 22 seconds after its feed went stale.
QuietIsStaleBriefly ==
  \A i \in Playing : game[i].news = "lull" =>
    feedValidityForInterval(intervalForProjection(game[i])) + 22 >= Latest(NextPoll(game[i]))

\* The day's allowance suffices, and no match costs more than its fixture's
\* budget.  The hour's allowance suffices for one match, whatever was read
\* before it that day, but not for two in play at once: the pacer looks at the
\* day alone, and they may be refused, but only in the second half of an hour.
WithinBudget ==
  /\ daily < UsableOf(cfg.DailyRequestLimit)
  /\ \A i \in DOMAIN game : game[i].spent <= MaxRequestsPerFixture(game[i].format)
  /\ starved # {} => Cardinality(Playing \cup starved) > 1 /\ (step - 1) % 6 >= 3

\* On a day of one or two matches: starts are noticed, moving scores are read
\* while the feed is fresh and standing ones soon after, no match runs out of
\* its budget and the day not of its allowance; a match alone in play is never
\* refused a read, and two at once for half an hour at most.
CadenceHolds ==
  StartsNoticed /\ FreshBetweenReads /\ QuietIsStaleBriefly /\ WithinBudget
=============================================================================
