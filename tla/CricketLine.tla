---------------------------- MODULE CricketLine ----------------------------
(***************************************************************************)
(* Reading a match from CricketLineApi (criclive/cricketline).  The tab of *)
(* a match prints the balls of its recent overs and a scoreboard that may  *)
(* be one event behind them, numbers its overs without saying the innings, *)
(* and lists the two batters without saying who is on strike.  A read has  *)
(* to file the overs and to find the striker.                              *)
(*                                                                         *)
(* Texts are left out: the labels of the two sides, the phrases of the     *)
(* match's state and the spelling of a ball, but for the number on it.     *)
(***************************************************************************)
EXTENDS Integers, Sequences, SequencesExt, FiniteSets

CONSTANTS InningsOvers, \* overs of an innings
          OverBalls,    \* legal balls of an over
          OverLimit,    \* balls of an over, extras included
          AllOut,       \* wickets that end an innings
          OversShown,   \* overs the tab shows: at least the last complete one and the next
          Happenings,   \* what a ball can be: [kind, runs, out]
          NumberIsTotal, \* does the number on an extra include its penalty run
          MaxHints      \* readings of the list of live matches

ASSUME CricketLineAssumption ==
  /\ {InningsOvers, OverBalls, OverLimit, AllOut} \subseteq Nat \ {0}
  /\ OversShown \in Nat \ {0, 1}
  /\ NumberIsTotal \in BOOLEAN /\ MaxHints \in Nat

VARIABLES board,  \* the match: who bats, the balls each has faced, legal balls
          strip,  \* its recent overs, oldest first
          behind, \* a scoreboard the tab may still show: the board or that before it
          memo,   \* strikeMemo of the match, with the true striker at its last ball
          hint,   \* strikeHint of the match
          misled, \* history: what the memo goes back to was not the state of the match
          hints
lineVars == <<board, strip, behind, memo, hint, misled, hints>>

None == [innings |-> 0]
Opening(innings, final) ==
  LET a == 10 * innings + 1 b == a + 1 IN
  [innings |-> innings, on |-> a, off |-> b, faced |-> [x \in {a, b} |-> 0],
   legal |-> 0, wickets |-> 0, final |-> final]
CricketLineInit ==
  /\ board = Opening(1, 0) /\ strip = <<>> /\ behind = board
  /\ memo = None /\ hint = None /\ misled = FALSE /\ hints = 0
-----------------------------------------------------------------------------
(***************************************************************************)
(* The match itself.                                                       *)
(***************************************************************************)
IsLegal(ball) == ball.kind = "bat"
Legal(balls) == Cardinality({i \in DOMAIN balls : IsLegal(balls[i])})
InningsOver == board.legal = InningsOvers * OverBalls \/ board.wickets = AllOut

\* A ball of the scoreboard's innings is on the strip.
UnderWay(shown) == strip # <<>> /\ Last(strip).innings = shown.innings

FirstOfOver ==
  \/ strip = <<>> \/ Last(strip).innings # board.innings
  \/ Legal(Last(strip).balls) = OverBalls

\* The strip with one more ball.
Longer(ball) ==
  LET next == IF strip = <<>> \/ Last(strip).innings # board.innings THEN 1 ELSE Last(strip).number + 1
      all == Append(strip, [innings |-> board.innings, number |-> next, balls |-> <<ball>>])
  IN IF FirstOfOver THEN SubSeq(all, IF Len(all) > OversShown THEN 2 ELSE 1, Len(all))
     ELSE [strip EXCEPT ![Len(strip)].balls = Append(@, ball)]

\* The crease: [on, off] and the balls each has faced.  Who is out is replaced
\* at his end, and by nobody when the side is all out.
Crossed(c) == [c EXCEPT !.on = c.off, !.off = c.on]
Replaced(c, out, in) ==
  LET there == {c.on, c.off} \ {out} IN
  [c EXCEPT !.on = IF @ = out THEN in ELSE @, !.off = IF @ = out THEN in ELSE @,
            !.faced = [x \in there \cup ({in} \ {0}) |-> IF x \in there THEN c.faced[x] ELSE 0]]

\* After a ball.  Batters out while running have crossed or not.
After(ball, crossed, ends) ==
  LET hit == [board EXCEPT !.faced[board.on] = @ + (IF ball.kind = "wide" THEN 0 ELSE 1)]
      out == CASE ball.out = "on" -> {board.on} [] ball.out = "off" -> {board.off} [] OTHER -> {}
      run == IF crossed THEN Crossed(hit) ELSE hit
      newcomer == IF board.wickets + 1 = AllOut THEN 0 ELSE 10 * board.innings + board.wickets + 3
      left == IF out = {} THEN run
              ELSE [Replaced(run, CHOOSE x \in out : TRUE, newcomer) EXCEPT !.wickets = @ + 1]
      scored == [left EXCEPT !.legal = @ + (IF IsLegal(ball) THEN 1 ELSE 0)]
  IN IF ends THEN Crossed(scored) ELSE scored

\* A hint of a crease that cannot be shown again is never used.
DropHint ==
  hint' = IF hint # None /\ hint.batters \in {behind'.faced, board'.faced} THEN hint ELSE None

BallBowled(ball) ==
  LET over == Last(Longer(ball)).balls
      odd == ball.runs % 2 = 1
  IN /\ ~InningsOver /\ Len(over) <= OverLimit
     /\ \E crossed \in IF ball.out # "none" /\ odd THEN BOOLEAN ELSE {odd} :
          board' = After(ball, crossed, IsLegal(ball) /\ Legal(over) = OverBalls)
     /\ strip' = Longer(ball) /\ behind' = (IF UnderWay(board) THEN board ELSE behind) /\ DropHint
     /\ UNCHANGED <<memo, misled, hints>>

NextInnings ==
  /\ InningsOver /\ board.innings = 1
  /\ board' = Opening(2, board.legal) /\ behind' = board /\ DropHint
  /\ UNCHANGED <<strip, memo, misled, hints>>
-----------------------------------------------------------------------------
(***************************************************************************)
(* The balls of an over as they are printed and as they are read.          *)
(***************************************************************************)
Penalty(ball) == IF IsLegal(ball) THEN 0 ELSE 1
NoNumber == -1
Printed(ball) ==
  [kind |-> ball.kind, wicket |-> ball.out # "none",
   number |-> IF ball.runs = 0 /\ (~IsLegal(ball) \/ ball.out # "none") THEN NoNumber
              ELSE ball.runs + (IF NumberIsTotal THEN Penalty(ball) ELSE 0)]

\* A number on a wide or a no-ball has two readings.
Ambiguous(token) == token.kind # "bat" /\ token.number > 0

\* cricLiveToken: the notation of the reducer, where the digit of a wide is
\* its total, that of a no-ball the runs off the bat, and a wide cannot carry
\* a wicket.
CricLiveToken(token, alt) ==
  LET n == IF token.number = NoNumber THEN 0 ELSE token.number
      given == n - (IF alt /\ Ambiguous(token) THEN 1 ELSE 0)
  IN CASE token.kind = "wide" -> [kind |-> "wide", digit |-> given + 1, wicket |-> FALSE]
       [] OTHER -> [kind |-> token.kind, digit |-> given, wicket |-> token.wicket]

\* ParseBallToken.
ParseBallToken(token) ==
  [total |-> token.digit + (IF token.kind = "noball" THEN 1 ELSE 0),
   batter |-> IF token.kind = "wide" THEN 0 ELSE token.digit,
   wide |-> token.kind = "wide", legal |-> token.kind = "bat", wicket |-> token.wicket]

\* normalizeOver: the reading that gives the over's total, or else the first.
SumTotals(tokens) == FoldLeft(LAMBDA sum, token : sum + ParseBallToken(token).total, 0, tokens)
NormalizeOver(tokens, overRuns) ==
  LET read(alt) == [i \in DOMAIN tokens |-> CricLiveToken(tokens[i], alt)] IN
  IF SumTotals(read(FALSE)) # overRuns /\ SumTotals(read(TRUE)) = overRuns THEN read(TRUE) ELSE read(FALSE)

OverRuns(balls) == FoldLeft(LAMBDA sum, ball : sum + ball.runs + Penalty(ball), 0, balls)

\* Mutant: the newest over is always of the innings of the scoreboard.
AssignCurrent(numbers, current, legal, final) ==
  LET falls(i) == numbers[i] > numbers[i + 1]
      steps == 1..(Len(numbers) - 1)
      innings(i) == current - Cardinality({j \in steps : j >= i /\ falls(j)})
  IN [i \in DOMAIN numbers |-> IF innings(i) \in 1..current THEN innings(i) ELSE 0]

\* assignInnings: over numbers rise within an innings.  0 for an over that is
\* not filed.
AssignInnings(numbers, current, legal, final) ==
  LET falls(i) == numbers[i] > numbers[i + 1]
      steps == 1..(Len(numbers) - 1)
      newest == IF \E i \in steps : falls(i) THEN (IF current = 1 THEN 2 ELSE current)
                ELSE IF current > 1 /\ legal = 0 /\ Last(numbers) = final THEN current - 1
                ELSE current
      innings(i) == newest - Cardinality({j \in steps : j >= i /\ falls(j)})
      twice == \E i \in steps : numbers[i] = numbers[i + 1]
  IN [i \in DOMAIN numbers |-> IF ~twice /\ innings(i) \in 1..current THEN innings(i) ELSE 0]

OversBegun(legal) == (legal + OverBalls - 1) \div OverBalls
Filed(shown) ==
  IF strip = <<>> THEN <<>>
  ELSE AssignInnings([i \in DOMAIN strip |-> strip[i].number],
                     shown.innings, shown.legal, OversBegun(shown.final))

\* The balls filed under the innings of the scoreboard: key, outcome, and
\* whether the ball completed its over.
TrackedOver(over) ==
  LET printed == [i \in DOMAIN over.balls |-> Printed(over.balls[i])]
      tokens == NormalizeOver(printed, OverRuns(over.balls))
      legal(i) == Cardinality({j \in 1..i : ParseBallToken(tokens[j]).legal})
  IN [i \in DOMAIN tokens |->
        LET outcome == ParseBallToken(tokens[i]) IN
        [key |-> <<over.number, i>>, outcome |-> outcome,
         ends |-> outcome.legal /\ legal(i) = OverBalls]]
Tracked(shown) ==
  LET filed == Filed(shown) IN
  FlattenSeq([i \in DOMAIN strip |->
                IF filed[i] = shown.innings THEN TrackedOver(strip[i]) ELSE <<>>])
-----------------------------------------------------------------------------
(***************************************************************************)
(* The striker (strike.go).                                                *)
(***************************************************************************)
\* Mutant: the penalty run of a wide is run.
RunsTotal(outcome) == outcome.total

\* runsRun: the runs the batters ran.
RunsRun(outcome) == IF outcome.wide THEN outcome.total - 1 ELSE outcome.batter

Failed == [on |-> 0, off |-> 0, faced |-> <<>>, left |-> {}, wickets |-> 2]

\* The new batter takes the end of the dismissed one.
Replace(s, newcomers) ==
  IF s.left = {} \/ newcomers = {} THEN s
  ELSE IF s.on \in s.left THEN [s EXCEPT !.on = CHOOSE x \in newcomers : TRUE, !.left = {}]
  ELSE IF s.off \in s.left THEN [s EXCEPT !.off = CHOOSE x \in newcomers : TRUE, !.left = {}]
  ELSE Failed

\* simulateStrike: the striker after the balls since, if first was on strike,
\* or 0 when the balls faced contradict that.
SimulateStrike(previous, first, since, current) ==
  LET dismissed == DOMAIN previous \ DOMAIN current
      newcomers == DOMAIN current \ DOMAIN previous
      start == [on |-> first, off |-> CHOOSE x \in DOMAIN previous : x # first,
                faced |-> [x \in DOMAIN previous \cup DOMAIN current |-> 0], left |-> dismissed, wickets |-> 0]
      swap(s) == [s EXCEPT !.on = s.off, !.off = s.on]
      play(s, ball) ==
        IF s.wickets > 1 THEN s ELSE
        LET o == ball.outcome
            hit == IF o.wide THEN s ELSE [s EXCEPT !.faced[s.on] = @ + 1]
            moved == IF o.wicket
                     THEN IF s.wickets = 1 THEN Failed
                          ELSE Replace([hit EXCEPT !.wickets = 1], newcomers)
                     ELSE IF RunsRun(o) % 2 = 1 THEN swap(hit) ELSE hit
        IN IF ball.ends /\ moved # Failed THEN swap(moved) ELSE moved
      wicketSince == \E i \in DOMAIN since : since[i].outcome.wicket
      end == FoldLeft(play, IF wicketSince THEN start ELSE Replace(start, newcomers), since)
      earlier(x) == IF x \in DOMAIN previous THEN previous[x] ELSE 0
  IN IF \/ Cardinality(dismissed) > 1 \/ Cardinality(newcomers) > 1
        \/ ~wicketSince /\ (dismissed = {}) # (newcomers = {})
        \/ end.wickets > 1
        \/ \E x \in DOMAIN current : end.faced[x] # current[x] - earlier(x)
     THEN 0 ELSE end.on

\* replayStrike: the only striker the balls faced since the memo allow, or 0.
ReplayStrike(since, current) ==
  LET candidates == IF memo.striker # 0 THEN {memo.striker} ELSE DOMAIN memo.batters
      found == {SimulateStrike(memo.batters, c, since, current) : c \in candidates} \ {0}
  IN IF Cardinality(found) = 1 THEN CHOOSE x \in found : TRUE ELSE 0

\* ballsSince: the window must still hold the memo's last ball.
Reaches(balls) == memo.lastKey = <<>> \/ \E i \in DOMAIN balls : balls[i].key = memo.lastKey
Since(balls) ==
  IF memo.lastKey = <<>> THEN balls
  ELSE SubSeq(balls, 1 + CHOOSE i \in DOMAIN balls : balls[i].key = memo.lastKey, Len(balls))

\* A ball is bowled after the scoreboard, unless it opens the next innings.
TrueStriker(shown) == IF shown.innings = board.innings THEN board.on ELSE shown.on
InStep(shown, balls) ==
  /\ shown.innings = board.innings => shown.faced = board.faced
  /\ balls = <<>> => ~UnderWay(shown)

FromTheStart(shown, balls) == UnderWay(shown) => balls # <<>> /\ balls[1].key = <<1, 1>>
RunOutOnARun(ball) == ball.outcome.wicket /\ ball.outcome.batter > 0

NewMemo(shown, balls, striker) ==
  [innings |-> shown.innings, lastKey |-> IF balls = <<>> THEN <<>> ELSE Last(balls).key,
   batters |-> shown.faced, striker |-> striker, misses |-> 0, true |-> TrueStriker(shown)]

\* What the list of live matches says of the strike seeds a new memo while the
\* crease is still the same.
Seed(shown) == IF hint # None /\ hint.batters = shown.faced THEN hint.striker ELSE 0

\* resolve.
Resolve(shown) ==
  LET balls == Tracked(shown)
      same == memo # None /\ memo.innings = shown.innings
      since == IF same /\ Reaches(balls) THEN Since(balls) ELSE <<>>
      striker == IF same /\ Reaches(balls) THEN ReplayStrike(since, shown.faced) ELSE 0
  IN IF Cardinality(DOMAIN shown.faced) < 2
     THEN memo' = None /\ misled' = FALSE
     ELSE IF striker # 0
     THEN /\ memo' = NewMemo(shown, balls, striker)
          /\ misled' = \/ misled \/ (memo.striker = 0 /\ ~InStep(shown, balls))
                       \/ memo.lastKey = <<>> /\ ~FromTheStart(shown, balls)
                       \/ \E i \in DOMAIN since : RunOutOnARun(since[i])
     ELSE \/ /\ same /\ memo.misses = 0 \* within strikeMaxMisses and strikeMemoTTL
             /\ memo' = [memo EXCEPT !.misses = 1] /\ UNCHANGED misled
          \/ /\ memo' = NewMemo(shown, balls, Seed(shown))
             /\ misled' = (~InStep(shown, balls) \/ Seed(shown) \notin {0, TrueStriker(shown)})

\* MatchSnapshot: one read of the tab once the match has begun.
ReadTab ==
  \E shown \in {board, behind} :
    /\ shown.innings = 2 \/ strip # <<>>
    /\ Resolve(shown) /\ behind' = shown
    /\ UNCHANGED <<board, strip, hint, hints>>

\* liveItem: the list's on_strike flag, which may lag by a ball.
ReadList ==
  /\ hints < MaxHints /\ hints' = hints + 1
  /\ Cardinality(DOMAIN board.faced) = 2
  /\ \E on \in {board.on, behind.on} \cap DOMAIN board.faced :
       hint' = [innings |-> board.innings, batters |-> board.faced, striker |-> on]
  /\ UNCHANGED <<board, strip, behind, memo, misled>>

CricketLineNext ==
  \/ \E ball \in Happenings : BallBowled(ball)
  \/ NextInnings \/ ReadTab \/ ReadList
-----------------------------------------------------------------------------
\* A striker the tracker has confirmed is the batter on strike: whatever was
\* bowled between the reads, however far apart they are, and with scoreboards
\* a ball behind, as long as the read it started from and the one that settled
\* it each showed one moment of the match and all that lies between, a flag
\* that seeded it was right, and no batter was run out on a run.
StrikeTracked == memo # None /\ ~misled => memo.striker \in {0, memo.true}

\* An over is filed under the innings it was bowled in, or not at all, also
\* when the scoreboard is a ball or the change of innings behind.
OversFiled ==
  \A shown \in {board, behind} :
    LET filed == Filed(shown) IN
    \A i \in DOMAIN filed : filed[i] \in {0, strip[i].innings}
=============================================================================
