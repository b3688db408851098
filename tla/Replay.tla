------------------------------- MODULE Replay -------------------------------
(***************************************************************************)
(* The simulator (modules/simulator): workers on several API instances     *)
(* replay the rows of a recorded match into the match document and the     *)
(* ball history, one worker at a time by an expiring lock.                 *)
(*                                                                         *)
(* A worker is named by the token of its lease.  It renews the lease       *)
(* before a ball; the writes of the ball (score, history, alignment of the *)
(* score to the recording) are separate and do not look at the lease.  The *)
(* score counts the rows, two innings of the same length, and the chase    *)
(* ends with the last row.  Pausing a worker and bowler names are left out.*)
(***************************************************************************)
EXTENDS Integers, Sequences

CONSTANTS Instances, \* API processes, SIMULATOR_INSTANCE_ID
          NoOne,
          Rows,      \* recorded balls of each innings
          AutoLoop,  \* SIMULATOR_AUTO_LOOP
          MaxStarts, \* starts, resumptions and resets
          MaxFailures \* crashes and failed writes

ASSUME ReplayAssumption ==
  Rows \in Nat \ {0} /\ AutoLoop \in BOOLEAN /\ MaxStarts \in Nat /\ MaxFailures \in Nat

VARIABLES match,   \* the match document: [status, innings, score]
          events,  \* match_events per innings: <<innings, row>> of the recording
          lock,    \* simulator_locks: [owner, token, live], token 0 if there is none
          worker,  \* per token, the state of the worker
          current, \* per instance, the worker in its map, or 0
          clean,   \* history: since the last reset only the holder of the lock wrote
                   \* and no write failed
          failures
replayVars == <<match, events, lock, worker, current, clean, failures>>
-----------------------------------------------------------------------------
Unlocked == [owner |-> NoOne, token |-> 0, live |-> FALSE]
Idle == [inst |-> NoOne, step |-> "idle", mode |-> "start", stopped |-> FALSE,
         innings |-> 1, cursor |-> 0, old |-> [status |-> "live", innings |-> 1, score |-> 0]]
Gone(stopped) == [Idle EXCEPT !.step = "gone", !.stopped = stopped]
Fresh == [status |-> "live", innings |-> 1, score |-> 0]
NoEvents == [i \in 1..2 |-> <<>>]

ReplayInit ==
  /\ match = Fresh /\ events = NoEvents /\ lock = Unlocked
  /\ worker = [t \in 1..MaxStarts |-> Idle] /\ current = [i \in Instances |-> 0]
  /\ clean = TRUE /\ failures = 0

At(t, step) == worker[t].step = step
Goto(t, step) == worker' = [worker EXCEPT ![t].step = step]

\* The lease can be renewed: it was not taken over and has not expired.
Held(t) == lock.token = t /\ lock.live

\* UpdateScore: the document is replaced, whoever holds the lock.
Written(t, m) == match' = m /\ clean' = (clean /\ lock.token = t)
Failure == failures < MaxFailures /\ failures' = failures + 1

\* The goroutine ends, stopped or completed, and releases its own lease.
Exit(t, stopped) ==
  /\ worker' = [worker EXCEPT ![t] = Gone(stopped)]
  /\ lock' = IF lock.token = t THEN Unlocked ELSE lock

\* Stop of the worker in the map of an instance.
WithStopped(w, i) == IF current[i] = 0 THEN w ELSE [w EXCEPT ![current[i]].stopped = TRUE]
-----------------------------------------------------------------------------
\* acquireLease: nobody holds the lock, this instance does, or it expired.
Acquirable(i) == lock.token = 0 \/ lock.owner = i \/ ~lock.live
Acquire(i, t) ==
  /\ At(t, "idle") /\ \A s \in 1..(t - 1) : ~At(s, "idle")
  /\ Acquirable(i) /\ lock' = [owner |-> i, token |-> t, live |-> TRUE]

\* Start and Reset stop the worker of this instance at once.
Begin(i, t, mode) ==
  /\ Acquire(i, t)
  /\ worker' = [WithStopped(worker, i) EXCEPT ![t].inst = i, ![t].step = "clear", ![t].mode = mode]
  /\ current' = [current EXCEPT ![i] = 0]
  /\ UNCHANGED <<match, events, clean, failures>>

\* ResumeOrStart, called at boot and by the retry pass when this instance has
\* no worker that is active or completed.
BeginResume(i, t) ==
  /\ \A s \in 1..MaxStarts : current[i] = s => worker[s].stopped
  /\ Acquire(i, t)
  /\ worker' = [worker EXCEPT ![t].inst = i, ![t].step = "plan"]
  /\ UNCHANGED <<match, events, current, clean, failures>>

\* deriveResumePlan: the position is the number of recorded balls, and an
\* innings played to its end continues with the second.
PlannedCursor(i) == Len(events[i])
PlannedInnings ==
  IF match.innings = 1 /\ Len(events[1]) >= Rows THEN 2 ELSE match.innings
Unplayed == \A i \in 1..2 : events[i] = <<>>
Skips ==
  \/ match.status = "completed"
  \/ match.innings = 2 /\ match.score >= Rows
  \/ ~Unplayed /\ PlannedCursor(PlannedInnings) >= Rows

\* Mutant: the score is corrected to that before the ball.
AlignedBefore(m, cursor) == IF cursor = 0 THEN m ELSE [m EXCEPT !.score = cursor - 1]

\* A score that contradicts the last recorded ball is corrected.
Aligned(m, cursor) == IF cursor = 0 THEN m ELSE [m EXCEPT !.score = cursor]

PlanSkip(t) ==
  /\ At(t, "plan") /\ Skips /\ Exit(t, TRUE)
  /\ Written(t, Aligned(match, Len(events[match.innings])))
  /\ UNCHANGED <<events, current, failures>>

Plan(t) ==
  /\ At(t, "plan") /\ ~Skips
  /\ worker' = [WithStopped(worker, worker[t].inst) EXCEPT
                  ![t].step = IF Unplayed THEN "clear" ELSE "resume",
                  ![t].innings = PlannedInnings, ![t].cursor = PlannedCursor(PlannedInnings),
                  ![t].old = match]
  /\ current' = [current EXCEPT ![worker[t].inst] = 0]
  /\ UNCHANGED <<match, events, lock, clean, failures>>

\* The document is brought to the planned position and the worker starts.
Resume(t) ==
  LET w == worker[t]
      turned == IF w.innings # w.old.innings THEN [Fresh EXCEPT !.innings = 2] ELSE w.old
      aligned == Aligned(turned, w.cursor)
  IN /\ At(t, "resume")
     /\ Written(t, IF aligned = w.old THEN match ELSE aligned)
     /\ current' = [current EXCEPT ![w.inst] = t]
     /\ worker' = [worker EXCEPT ![t].step = "wait", ![t].old = Fresh]
     /\ UNCHANGED <<events, lock, failures>>

\* resetMatchForReplay: the history is deleted, then the score is reset.  A
\* failed deletion is only logged.
Clear(t) ==
  /\ At(t, "clear") /\ Goto(t, "reset")
  /\ \/ events' = NoEvents /\ clean' = (lock.token = t) /\ UNCHANGED failures
     \/ Failure /\ clean' = FALSE /\ UNCHANGED events
  /\ UNCHANGED <<match, lock, current>>

Reset(t) ==
  /\ At(t, "reset") /\ Written(t, Fresh)
  /\ IF worker[t].mode = "reset" THEN Exit(t, TRUE) /\ UNCHANGED current
     ELSE /\ worker' = [worker EXCEPT ![t].step = "wait", ![t].innings = 1, ![t].cursor = 0]
          /\ current' = [current EXCEPT ![worker[t].inst] = t] /\ UNCHANGED lock
  /\ UNCHANGED <<events, failures>>

\* Without the reset or the second innings the worker does not go on.
WriteFails(t) ==
  /\ Failure
  /\ \/ At(t, "reset") /\ Exit(t, FALSE)
     \/ At(t, "turning") /\ Exit(t, TRUE)
  /\ UNCHANGED <<match, events, current, clean>>
-----------------------------------------------------------------------------
\* The pause before a ball ends; without its lease, stopped or at the end of
\* the recording the worker leaves.
Wake(t) ==
  /\ At(t, "wait")
  /\ IF worker[t].stopped \/ worker[t].cursor >= Rows \/ ~Held(t)
     THEN Exit(t, worker[t].stopped \/ worker[t].cursor < Rows)
     ELSE Goto(t, "ball") /\ UNCHANGED lock
  /\ UNCHANGED <<match, events, current, clean, failures>>

\* Where a worker goes when its innings has no ball left.
AfterLast(innings) == IF innings = 1 THEN "turn" ELSE "finish"

\* The next ball, or the end of the innings after its last one.
AfterBall(w) == IF w.cursor + 1 = Rows THEN AfterLast(w.innings) ELSE "wait"

\* recordBall reads the document; a match that is not live, or an innings
\* without balls left, ends the replay of the innings.
Read(t) ==
  /\ At(t, "ball")
  /\ worker' = [worker EXCEPT ![t].old = match,
                  ![t].step = IF match.status # "live" THEN "finish"
                              ELSE IF match.score >= Rows THEN AfterLast(worker[t].innings)
                              ELSE "update"]
  /\ UNCHANGED <<match, events, lock, current, clean, failures>>

\* Any other error of recordBall skips the row.
SkipRow(t) ==
  /\ At(t, "ball") \/ At(t, "update")
  /\ Failure /\ clean' = FALSE
  /\ worker' = [worker EXCEPT ![t].step = "wait", ![t].cursor = @ + 1, ![t].old = Fresh]
  /\ UNCHANGED <<match, events, lock, current>>

\* The score is written from what was read ...
Update(t) ==
  /\ At(t, "update") /\ Goto(t, "append")
  /\ Written(t, [worker[t].old EXCEPT !.score = @ + 1])
  /\ UNCHANGED <<events, lock, current, failures>>

\* ... then the ball is added to the history, and a failure is ignored ...
AppendBall(t) ==
  /\ At(t, "append") /\ Goto(t, "align")
  /\ \/ /\ events' = [events EXCEPT ![worker[t].old.innings] =
                        Append(@, <<worker[t].innings, worker[t].cursor + 1>>)]
        /\ clean' = (clean /\ lock.token = t) /\ UNCHANGED failures
     \/ Failure /\ clean' = FALSE /\ UNCHANGED events
  /\ UNCHANGED <<match, lock, current>>

\* ... then a score that the recording contradicts is corrected.
Align(t) ==
  LET w == worker[t]
      after == [w.old EXCEPT !.score = @ + 1]
      aligned == Aligned(after, w.cursor + 1)
  IN /\ At(t, "align")
     /\ Written(t, IF aligned = after THEN match ELSE aligned)
     /\ worker' = [worker EXCEPT ![t].cursor = @ + 1, ![t].old = Fresh,
                     ![t].step = AfterBall(w)]
     /\ UNCHANGED <<events, lock, current, failures>>

\* The end of an innings and of the match renew the lease first.
RenewedTo(t, from, to) ==
  /\ At(t, from)
  /\ IF Held(t) THEN Goto(t, to) /\ UNCHANGED lock ELSE Exit(t, TRUE)
  /\ UNCHANGED <<match, events, current, clean, failures>>
Turn(t) == RenewedTo(t, "turn", "turning")
Finish(t) == RenewedTo(t, "finish", "finishing")

BeginInnings2(t) ==
  /\ At(t, "turning") /\ Written(t, [Fresh EXCEPT !.innings = 2])
  /\ worker' = [worker EXCEPT ![t].step = "wait", ![t].innings = 2, ![t].cursor = 0]
  /\ UNCHANGED <<events, lock, current, failures>>

\* completeMatch: an error is only logged; the looping worker resets the match
\* and plays it again.
CompleteMatch(t) ==
  /\ At(t, "finishing")
  /\ \/ Written(t, [match EXCEPT !.status = "completed"]) /\ UNCHANGED failures
     \/ Failure /\ UNCHANGED <<match, clean>>
  /\ IF AutoLoop THEN Goto(t, "clear") /\ UNCHANGED lock ELSE Exit(t, FALSE)
  /\ UNCHANGED <<events, current>>
-----------------------------------------------------------------------------
\* The fallback, a shutdown or an administrator stops the worker.
StopMatch(i) ==
  /\ current[i] # 0 /\ worker' = WithStopped(worker, i)
  /\ current' = [current EXCEPT ![i] = 0]
  /\ UNCHANGED <<match, events, lock, clean, failures>>

\* An instance stalls for longer than its lease.
Expire ==
  /\ lock.live /\ lock' = [lock EXCEPT !.live = FALSE]
  /\ UNCHANGED <<match, events, worker, current, clean, failures>>

Crash(i) ==
  /\ Failure
  /\ worker' = [t \in DOMAIN worker |->
                  IF worker[t].inst = i THEN Gone(TRUE) ELSE worker[t]]
  /\ current' = [current EXCEPT ![i] = 0]
  /\ UNCHANGED <<match, events, lock, clean>>

ReplayNext ==
  \/ \E t \in 1..MaxStarts :
       \/ \E i \in Instances : BeginResume(i, t) \/ Begin(i, t, "start") \/ Begin(i, t, "reset")
       \/ PlanSkip(t) \/ Plan(t) \/ Resume(t) \/ Clear(t) \/ Reset(t) \/ Wake(t) \/ Read(t)
       \/ SkipRow(t) \/ WriteFails(t) \/ Update(t) \/ AppendBall(t) \/ Align(t) \/ Turn(t) \/ Finish(t)
       \/ BeginInnings2(t) \/ CompleteMatch(t)
  \/ \E i \in Instances : StopMatch(i) \/ Crash(i)
  \/ Expire
-----------------------------------------------------------------------------
\* While only holders of the lock wrote, the history is the recording so far,
\* each ball once and in order, whatever crashes, expired leases, resumptions
\* and restarts lie between; and a holder about to bowl meets the score of the
\* balls before.
ReplaysOnce ==
  clean =>
    /\ \A i \in 1..2 : events[i] = [n \in 1..Len(events[i]) |-> <<i, n>>]
    /\ events[2] # <<>> => Len(events[1]) = Rows
    /\ \A t \in 1..MaxStarts :
         At(t, "wait") /\ Held(t) /\ worker[t].cursor > 0 =>
           match.score = worker[t].cursor /\ match.innings = worker[t].innings
=============================================================================
