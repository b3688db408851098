----------------------------- MODULE Scoreboard -----------------------------
(***************************************************************************)
(* Reading a live match of CricLive (criclive/reconcile).  A poll in play  *)
(* sees the last overs, which may be one event late, and the summary of    *)
(* the innings that discovery wrote on the target, which may be of any     *)
(* earlier moment.  ReduceSnapshot makes one state of the match of them:   *)
(* score, target, what is complete, who bats, and the stand.  Outside play *)
(* it reads a miniscore whose innings may be one event behind its score.   *)
(*                                                                         *)
(* Who bowls, the pulse of the match and the hashes are left out, and a    *)
(* ball is what it adds: [runs, legal, wicket].                            *)
(***************************************************************************)
EXTENDS Integers, Sequences, SequencesExt, FiniteSets

CONSTANTS MatchOvers,   \* overs of an innings
          BallsInOver,  \* legal balls of an over
          Wickets,      \* wickets that end an innings
          Deeds,        \* what a ball can be
          MaxWides,     \* balls of the match that are not legal
          WindowSizes,  \* overs the feed may return
          RolesNamed,   \* overs of which the feed says who is on strike
          Labels        \* team -> names discovery knows it by; its first is the feed's

ASSUME ScoreboardAssumption ==
  /\ {MatchOvers, BallsInOver, Wickets} \subseteq Nat \ {0} /\ BallsInOver < 10
  /\ MaxWides \in Nat /\ WindowSizes \subseteq Nat \ {0}
  /\ DOMAIN Labels = {1, 2}
  /\ \A team \in {1, 2} : Labels[team] \in Seq(STRING) /\ Labels[team] # <<>>

VARIABLES moment, \* the match
          feed,   \* the moment whose overs are shown
          listed  \* the moment discovery last read
scoreVars == <<moment, feed, listed>>

\* A moment: the events so far, the innings and its score, who is at the crease
\* with his [runs, balls], the stand, the overs of the match, and how the first
\* innings ended.
Nought == [runs |-> 0, balls |-> 0]
NoInnings == [runs |-> 0, wickets |-> 0, legal |-> 0]
Underway(innings, overs, first, at, wides) ==
  [at |-> at, innings |-> innings, score |-> NoInnings, wides |-> wides, on |-> 1, off |-> 2,
   figures |-> [x \in {1, 2} |-> Nought], stand |-> Nought, overs |-> overs, first |-> first]
ScoreboardInit ==
  /\ moment = Underway(1, <<>>, NoInnings, 0, 0) /\ feed = moment /\ listed = moment
-----------------------------------------------------------------------------
(***************************************************************************)
(* The match.  The side of innings i is team 3 - i: the visitors bat first.*)
(***************************************************************************)
ScheduledBalls == MatchOvers * BallsInOver
Side(innings) == 3 - innings
LegalIn(balls) == Len(SelectSeq(balls, LAMBDA ball : ball.legal))

\* The final ball of an innings: its last, the last wicket, or the winning run.
Done(m) ==
  \/ m.score.legal >= ScheduledBalls \/ m.score.wickets >= Wickets
  \/ m.innings = 2 /\ m.score.runs > m.first.runs

\* The over the next ball is of.
OverUnderway(m) ==
  /\ m.overs # <<>> /\ Last(m.overs).innings = m.innings
  /\ LegalIn(Last(m.overs).balls) < BallsInOver

\* The crease after a ball: a wide is not faced, an odd number of runs crosses,
\* and a new batter takes the place of who is out, but for the last.
Facing(m) == IF OverUnderway(m) \/ m.overs = <<>> \/ Last(m.overs).innings # m.innings THEN m
             ELSE [m EXCEPT !.on = m.off, !.off = m.on]
Crease(m, ball) ==
  LET hit == IF ball.legal THEN [m EXCEPT !.figures[m.on] = [runs |-> @.runs + ball.runs, balls |-> @.balls + 1]]
             ELSE m
      new == m.score.wickets + 3
  IN IF ball.wicket /\ m.score.wickets + 1 < Wickets
     THEN [hit EXCEPT !.on = new, !.figures = [x \in {m.off, new} |-> IF x = new THEN Nought ELSE @[x]]]
     ELSE IF ball.runs % 2 = 1 /\ ball.legal THEN [hit EXCEPT !.on = m.off, !.off = m.on] ELSE hit

Scored(score, ball) ==
  [runs |-> score.runs + ball.runs, wickets |-> score.wickets + (IF ball.wicket THEN 1 ELSE 0),
   legal |-> score.legal + (IF ball.legal THEN 1 ELSE 0)]

\* The over with one more ball, as the feed prints it: its balls, the score and
\* the two batters' figures after it, and the names of all who batted in it.
PrintedOver(over, m) ==
  [over EXCEPT !.score = m.score, !.on = m.on, !.off = m.off,
               !.figures = m.figures, !.batted = @ \cup {m.on, m.off}]
NextOver(m) ==
  [innings |-> m.innings, balls |-> <<>>, score |-> m.score, on |-> m.on, off |-> m.off,
   number |-> IF m.overs # <<>> /\ Last(m.overs).innings = m.innings THEN Last(m.overs).number + 1 ELSE 1,
   figures |-> m.figures, batted |-> {m.on, m.off}]

AfterBall(now, ball) ==
  LET m == Facing(now)
      out == Crease(m, ball)
      stand == IF ball.wicket THEN Nought
               ELSE [runs |-> m.stand.runs + ball.runs, balls |-> m.stand.balls + (IF ball.legal THEN 1 ELSE 0)]
      whole == [out EXCEPT !.at = @ + 1, !.score = Scored(@, ball), !.stand = stand,
                           !.wides = @ + (IF ball.legal THEN 0 ELSE 1)]
      kept == IF OverUnderway(now) THEN Front(m.overs) ELSE m.overs
      over == IF OverUnderway(now) THEN Last(m.overs) ELSE NextOver(m)
      long == Append(kept, PrintedOver([over EXCEPT !.balls = Append(@, ball)], whole))
      most == CHOOSE n \in WindowSizes : \A k \in WindowSizes : k <= n
  IN [whole EXCEPT !.overs = SubSeq(long, IF Len(long) > most THEN Len(long) - most + 1 ELSE 1, Len(long))]

Bowl(ball) ==
  /\ ~Done(moment) /\ (ball.legal \/ moment.wides < MaxWides)
  /\ moment' = AfterBall(moment, ball) /\ feed' = moment /\ UNCHANGED listed

SecondInnings ==
  /\ moment.innings = 1 /\ Done(moment)
  /\ moment' = Underway(2, moment.overs, moment.score, moment.at + 1, moment.wides)
  /\ feed' = moment /\ UNCHANGED listed

FeedCatchesUp == feed # moment /\ feed' = moment /\ UNCHANGED <<moment, listed>>

\* Discovery writes the summary on the target (SyncFixtures).
DiscoverSummary == listed # moment /\ listed' = moment /\ UNCHANGED <<moment, feed>>
-----------------------------------------------------------------------------
(***************************************************************************)
(* What a poll reads.                                                      *)
(***************************************************************************)
\* Overs n.b as ten times n plus b: a whole over is .6, never the next number.
OversToBalls(overs) ==
  (overs \div 10) * BallsInOver + (IF overs % 10 > BallsInOver THEN BallsInOver ELSE overs % 10)
BallsToOvers(legal) ==
  IF legal = 0 THEN 0 ELSE 10 * ((legal - 1) \div BallsInOver) + ((legal - 1) % BallsInOver) + 1

\* The feed: the last overs with balls, and perhaps the next over, with none.
FeedOf(m, size, announced) ==
  LET n == Len(m.overs) IN
  SubSeq(m.overs, IF n > size THEN n - size + 1 ELSE 1, n)
    \o (IF announced /\ ~OverUnderway(m) THEN <<NextOver(m)>> ELSE <<>>)

\* liveInningsFromTeams: the innings begun by then.  The provider may name the
\* target of the chase.
LiveInningsFromTeams(m, named) ==
  [i \in 1..m.innings |->
     LET score == IF i = m.innings THEN m.score ELSE m.first IN
     [number |-> i, team |-> Side(i), runs |-> score.runs, wickets |-> score.wickets,
      overs |-> BallsToOvers(score.legal),
      target |-> IF named /\ i = 2 THEN m.first.runs + 1 ELSE 0]]

\* FixtureFromMatchItem, and fixtureFromTarget when the target is polled.
\* Discovery does not list the innings of a match before its first ball.
FixtureFromTarget(m, named) ==
  [team |-> {1, 2}, innings |-> IF m.at = 0 THEN <<>> ELSE LiveInningsFromTeams(m, named)]

TeamIDForName(fixture, name) ==
  LET of == {team \in fixture.team : \E i \in DOMAIN Labels[team] : Labels[team][i] = name} IN
  IF of = {} THEN 0 ELSE CHOOSE team \in of : TRUE

LatestOverItem(overs) ==
  LET bowled == SelectSeq(overs, LAMBDA over : over.balls # <<>>) IN
  IF bowled = <<>> THEN <<>> ELSE <<Last(bowled)>>
OversOfInnings(overs, innings) ==
  SelectSeq(overs, LAMBDA over : over.innings = innings /\ over.balls # <<>>)

\* Mutant: an over begun counts as bowled.
RolledNotation(number, legal) == IF number <= 0 THEN 0 ELSE 10 * number + legal
OversNotation(number, legal) ==
  IF number <= 0 THEN 0 ELSE 10 * (number - 1) + (IF legal > BallsInOver THEN BallsInOver ELSE legal)

\* partnershipFromOvers: the balls shown since the last wicket.
PartnershipFromOvers(overs) ==
  LET AddBall(stand, ball) ==
        IF ball.wicket THEN Nought
        ELSE [runs |-> stand.runs + ball.runs, balls |-> stand.balls + (IF ball.legal THEN 1 ELSE 0)]
  IN FoldLeft(LAMBDA stand, over : FoldLeft(AddBall, stand, over.balls), Nought, overs)
-----------------------------------------------------------------------------
(***************************************************************************)
(* The batters of the latest over.  A track is [name, runs, balls], and no *)
(* name is 0; nobody has been followed before the first over.              *)
(***************************************************************************)
Continues(track, figures) ==
  track.live /\ figures.runs >= track.figures.runs /\ figures.balls >= track.figures.balls

\* resolveBatterTracks: for each of the two, who of the last over he was, or 0.
ResolveBatterTracks(before, now) ==
  LET fits(x) == {y \in {1, 2} : Continues(before[y], now[x])}
      only(set) == IF Cardinality(set) = 1 THEN CHOOSE y \in set : TRUE ELSE 0
      one == [x \in {1, 2} |-> only(fits(x))]
      striker == IF one[1] = 0 /\ one[2] # 0 THEN only(fits(1) \ {one[2]}) ELSE one[1]
      other == IF one[2] = 0 /\ one[1] # 0 THEN only(fits(2) \ {one[1]}) ELSE one[2]
  IN IF striker # 0 /\ striker = other THEN <<0, 0>> ELSE <<striker, other>>

\* The names an over is printed with: by role, or all who batted in a list.
ByRole(over) == over.number \in RolesNamed
Names(over) == IF ByRole(over) THEN <<over.on, over.off>> ELSE SetToSortSeq(over.batted, LAMBDA x, y : x < y)
Figures(over) == <<over.figures[over.on], over.figures[over.off]>>

OtherName(names, taken) ==
  LET others == SelectSeq(names, LAMBDA name : name # taken) IN IF others = <<>> THEN 0 ELSE others[1]

\* The names of the two tracks of an over: of the tracks they continue, or the
\* one new name; of two names listed, the other goes to the other.
NamesFollowed(walk, names, from) ==
  LET fresh == ToSet(names) \ walk.seen
      named(x) == IF from[x] # 0 THEN walk.tracks[from[x]].name
                  ELSE IF Cardinality(fresh) = 1 THEN CHOOSE name \in fresh : TRUE ELSE 0
      other(x, taken) == IF Len(names) = 2 /\ named(x) = 0 /\ taken # 0
                         THEN OtherName(names, taken) ELSE named(x)
      first == other(1, named(2))
  IN <<first, other(2, first)>>

\* One over of the walk.
FollowOver(walk, over) ==
  LET names == Names(over)
      figures == Figures(over)
      bound == IF ByRole(over) THEN names
               ELSE NamesFollowed(walk, names, ResolveBatterTracks(walk.tracks, figures))
  IN [tracks |-> [x \in {1, 2} |-> [name |-> bound[x], figures |-> figures[x], live |-> TRUE]],
      seen |-> walk.seen \cup ToSet(names), names |-> names]

AtTheEnd(walk) ==
  LET on == walk.tracks[1].name
      off == walk.tracks[2].name
      striker == IF on = 0 /\ off = 0 /\ walk.names # <<>> THEN walk.names[1]
                 ELSE IF on = 0 THEN OtherName(walk.names, off) ELSE on
  IN <<striker, IF off = 0 THEN OtherName(walk.names, striker) ELSE off>>
BattersAtCrease(overs) ==
  LET nobody == [name |-> 0, figures |-> Nought, live |-> FALSE] IN
  AtTheEnd(FoldLeft(FollowOver, [tracks |-> <<nobody, nobody>>, seen |-> {}, names |-> <<>>], overs))
-----------------------------------------------------------------------------
(***************************************************************************)
(* The reduction.                                                          *)
(***************************************************************************)
Unstarted == [innings |-> 0, team |-> 0, runs |-> 0, wickets |-> 0, overs |-> 0, target |-> 0,
              scores |-> <<>>, batters |-> <<0, 0>>, stand |-> Nought]

\* miniScoreFromOvers: the summary, and over it the latest over, unless that is
\* of an innings the summary has left.
MiniScoreFromOvers(fixture, overs) ==
  LET known == fixture.innings
      base == IF known = <<>> THEN Unstarted
              ELSE [Unstarted EXCEPT !.innings = Last(known).number, !.team = Last(known).team,
                      !.runs = Last(known).runs, !.wickets = Last(known).wickets,
                      !.overs = Last(known).overs, !.target = Last(known).target, !.scores = known]
      latest == LatestOverItem(overs)
      fresh(over) ==
        LET mine == OversOfInnings(overs, over.innings) IN
        [base EXCEPT !.innings = over.innings,
           !.team = IF over.innings = base.innings THEN @
                    ELSE IF known # <<>> THEN 3 - Last(known).team
                    ELSE TeamIDForName(fixture, Labels[Side(over.innings)][1]),
           !.runs = over.score.runs, !.wickets = over.score.wickets,
           !.overs = OversNotation(over.number, LegalIn(over.balls)),
           !.batters = BattersAtCrease(mine), !.stand = PartnershipFromOvers(mine)]
  IN IF latest = <<>> \/ latest[1].innings < base.innings THEN base ELSE fresh(latest[1])

\* The miniscore of the commentary: its own figures, and those of the innings.
MiniScoreOf(m, older) ==
  [Unstarted EXCEPT !.innings = m.innings, !.team = Side(m.innings), !.runs = m.score.runs,
     !.wickets = m.score.wickets, !.overs = BallsToOvers(m.score.legal),
     !.scores = LiveInningsFromTeams(older, FALSE), !.batters = <<m.on, m.off>>, !.stand = m.stand]

InningsComplete(finished, number, current, legal, wickets) ==
  finished \/ current > number \/ legal >= ScheduledBalls \/ wickets >= Wickets

\* inningsFromSnapshot: the innings listed, and for the current one the larger
\* of what is listed and the miniscore's own figures.
InningsFromSnapshot(mini, finished) ==
  LET aggregate(team, runs, wickets, legal, number) ==
        [team |-> team, runs |-> runs, wickets |-> wickets, legal |-> legal, target |-> 0,
         complete |-> InningsComplete(finished, number, mini.innings, legal, wickets)]
      stated == [i \in DOMAIN mini.scores |->
        LET entry == mini.scores[i] IN
        aggregate(entry.team, entry.runs, entry.wickets, OversToBalls(entry.overs), i)]
      larger(a, b) == IF a >= b THEN a ELSE b
      was == IF mini.innings \in DOMAIN stated THEN stated[mini.innings] ELSE aggregate(0, 0, 0, 0, 0)
      now == aggregate(IF mini.team # 0 THEN mini.team ELSE was.team,
                       larger(mini.runs, was.runs), larger(mini.wickets, was.wickets),
                       larger(OversToBalls(mini.overs), was.legal), mini.innings)
  IN [i \in DOMAIN stated \cup ({mini.innings} \ {0}) |-> IF i = mini.innings THEN now ELSE stated[i]]

\* The chase: the target stated, or one run more than a complete first innings.
\* Reaching it completes the second.
ReduceSnapshot(mini, finished) ==
  LET innings == InningsFromSnapshot(mini, finished)
      target == IF mini.target > 0 THEN mini.target
                ELSE IF mini.innings = 2 /\ 1 \in DOMAIN innings /\ innings[1].complete
                THEN innings[1].runs + 1 ELSE 0
      chased == [i \in DOMAIN innings |->
                   IF i # 2 \/ target = 0 THEN innings[i]
                   ELSE [innings[2] EXCEPT !.target = target, !.complete = @ \/ innings[2].runs >= target]]
  IN [innings |-> mini.innings, target |-> target, all |-> chased,
      batters |-> mini.batters, stand |-> mini.stand]

\* currentOverIndex, BuildThisOver: the over in progress, or the one just ended.
CurrentOverIndex(legal) == IF legal <= 0 THEN 0 ELSE (legal + BallsInOver - 1) \div BallsInOver - 1
BuildThisOver(overs, innings, legal) ==
  LET current(over) == over.innings = innings /\ over.number - 1 = CurrentOverIndex(legal)
      those == SelectSeq(overs, current)
  IN IF innings <= 0 \/ legal <= 0 \/ those = <<>> THEN <<>> ELSE those[1].balls

ScoreboardNext ==
  \/ \E ball \in Deeds : Bowl(ball)
  \/ SecondInnings \/ FeedCatchesUp \/ DiscoverSummary
-----------------------------------------------------------------------------
(***************************************************************************)
(* Properties.                                                             *)
(***************************************************************************)
ScoreReads ==
  {[size |-> size, announced |-> announced, named |-> named] :
     size \in WindowSizes, announced \in BOOLEAN, named \in BOOLEAN}
OversRead(read) == FeedOf(feed, read.size, read.announced)
PollRead(read) ==
  ReduceSnapshot(MiniScoreFromOvers(FixtureFromTarget(listed, read.named), OversRead(read)), FALSE)

\* What the overs tell: of an innings without a ball, the end of that before.
Told == IF feed.innings = 1 \/ Last(feed.overs).innings = 2 THEN feed
        ELSE [feed EXCEPT !.innings = 1, !.score = feed.first, !.at = @ - 1]
Fresher == IF listed.at > Told.at THEN listed ELSE Told

\* The summary was read after the innings of the moment began: only then is
\* what it says of the innings before it final.
SummaryIsFinal == Fresher.innings = 1 \/ listed.innings = 2 \/ Done(listed)

\* The score read is that of one moment of the match, the fresher of the two
\* sources: no figure is of another moment or of another innings.
OneMoment(reading, m) ==
  IF m.at = 0 THEN reading.innings = 0
  ELSE /\ reading.innings = m.innings
       /\ LET now == reading.all[m.innings] IN
          /\ [runs |-> now.runs, wickets |-> now.wickets, legal |-> now.legal] = m.score
          /\ now.team = Side(m.innings)

\* Nothing is complete that is not, and what is complete is read so at once; the
\* target of a chase is one more than the first innings made.
ChaseIsRight(reading, m) ==
  m.at > 0 =>
    /\ \A i \in DOMAIN reading.all : reading.all[i].complete <=> (i < m.innings \/ Done(m))
    /\ m.innings = 2 => /\ reading.target = m.first.runs + 1
                        /\ reading.all[1].runs = m.first.runs

\* Of what the overs show, once the summary does not overtake them: the stand
\* is exact if the window reaches its beginning, and the strip of balls is of
\* the over of the last legal ball.
StripIsRight(overs, reading, m) ==
  LET mine == OversOfInnings(overs, m.innings) IN
  mine # <<>> =>
    /\ (mine[1].number = 1 \/ \E i \in DOMAIN mine : \E j \in DOMAIN mine[i].balls : mine[i].balls[j].wicket)
         => reading.stand = m.stand
    /\ m.score.legal > 0 /\ mine[1].number - 1 <= CurrentOverIndex(m.score.legal) =>
         LegalIn(BuildThisOver(overs, m.innings, m.score.legal)) = 1 + ((m.score.legal - 1) % BallsInOver)

\* The batters of two overs are told apart: the same two, unless the figures of
\* both fit both, or one new one, if the figures of neither fit who is out.
ToldApart(before, after) ==
  LET fits(x) == {y \in {before.on, before.off} :
                    Continues([live |-> TRUE, figures |-> before.figures[y]], after.figures[x])}
      both == {after.on, after.off}
      stay == both \cap {before.on, before.off}
  IN \/ Cardinality(stay) = 2 /\ \E x \in both : fits(x) = {x}
     \/ Cardinality(stay) = 1 /\ \A x \in both : fits(x) = {x} \cap stay

\* The striker and the other batter are named with their own figures.
BattersNamed(overs, reading, m) ==
  LET mine == OversOfInnings(overs, m.innings) IN
  (/\ mine # <<>> /\ ByRole(mine[1])
   /\ \A i \in 1..(Len(mine) - 1) : ToldApart(mine[i], mine[i + 1])) =>
     reading.batters = <<Last(mine).on, Last(mine).off>>

PollIsRight(reading, overs) ==
  /\ OneMoment(reading, Fresher)
  /\ SummaryIsFinal => ChaseIsRight(reading, Fresher)
  /\ feed = Fresher => StripIsRight(overs, reading, feed) /\ BattersNamed(overs, reading, feed)

MiniIsRight(reading) ==
  /\ OneMoment(reading, moment)
  /\ (moment.innings = feed.innings \/ Done(feed)) => ChaseIsRight(reading, moment)

\* What a poll reads is the match: of one moment, with the right chase, stand,
\* strip and batters, and so is what is read of a miniscore whose innings lag.
\* (ReduceSnapshot, miniScoreFromOvers, inningsFromSnapshot, battersAtCrease.)
ReadingIsOfTheMatch == moment.at > 0 =>
  /\ \A read \in ScoreReads : PollIsRight(PollRead(read), OversRead(read))
  /\ MiniIsRight(ReduceSnapshot(MiniScoreOf(moment, feed), Done(moment) /\ moment.innings = 2))
=============================================================================
