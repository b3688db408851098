----------------------------- MODULE Deliveries -----------------------------
(***************************************************************************)
(* Ball-by-ball history of a provider match (criclive/store/apply.go and   *)
(* criclive/reconcile/reducer.go): what a poll does to the stored balls    *)
(* and to the realtime outbox.                                             *)
(*                                                                         *)
(* The provider shows the most recent overs only, corrects and withdraws   *)
(* balls, and sometimes serves an older document or one without balls.  A  *)
(* poll is one transaction.  A ball is its over and place in it, one       *)
(* innings is enough: positions are ordered the same way across innings.   *)
(***************************************************************************)
EXTENDS Integers, Sequences, SequencesExt, FiniteSets, FiniteSetsExt, Outbox

CONSTANTS Overs,               \* overs of the innings
          Balls,               \* balls of an over
          Contents,            \* what a ball can be: its payload hash
          Window,              \* overs the provider shows
          MaxReconcilingPolls, \* polls in a row that may leave the balls alone
          AllowCorrections,    \* CRICLIVE_ALLOW_LIVE_CORRECTIONS
          MaxUpsets            \* corrections, withdrawals and odd documents

ASSUME DeliveriesAssumption ==
  /\ {Overs, Balls, Window, MaxReconcilingPolls} \subseteq Nat \ {0}
  /\ AllowCorrections \in BOOLEAN /\ MaxUpsets \in Nat

VARIABLES truth,   \* per over, the balls as the provider has them
          phase,   \* status of the provider's document: live, break or done
          earlier, \* the balls shown before the provider's latest change
          stored,  \* the match_events: ball -> [rev, hash, gone, missed]
          polls,   \* providerReconcilePolls of the match
          applied, \* last snapshot hash: the document last applied
          calm,    \* history: polls of the latest document since anything changed
          upsets
provider == <<truth, phase, earlier>>
storeVars == <<stored, polls, applied, outbox>>
deliveryVars == <<provider, storeVars, upsets, calm>>
-----------------------------------------------------------------------------
NoBalls == <<>>
DeliveriesInit ==
  /\ truth = [o \in 1..Overs |-> <<>>] /\ phase = "live" /\ earlier = NoBalls
  /\ stored = NoBalls /\ polls = 0 /\ applied = <<NoBalls, "none">>
  /\ outbox = <<>> /\ upsets = 0 /\ calm = 0

AtOrAfter(b, c) == ~Before(b, c)

\* The recent overs that have balls, as ball -> content.
Begun == {o \in 1..Overs : truth[o] # <<>>}
Recent == {o \in Begun : Cardinality({p \in Begun : p > o}) < Window}
Shown == [b \in UNION {{<<o, i>> : i \in 1..Len(truth[o])} : o \in Recent} |-> truth[b[1]][b[2]]]

\* The provider's document changes.
Changed == earlier' = Shown /\ calm' = 0 /\ UNCHANGED storeVars

\* The over being bowled: the latest, or the next one when that is full.
InPlay == LET latest == IF Begun = {} THEN 1 ELSE Max(Begun) IN
          IF Len(truth[latest]) < Balls THEN latest ELSE latest + 1

Bowl(c) ==
  /\ phase = "live" /\ InPlay <= Overs
  /\ truth' = [truth EXCEPT ![InPlay] = Append(@, c)] /\ Changed
  /\ UNCHANGED <<phase, upsets>>

Upset == upsets < MaxUpsets /\ upsets' = upsets + 1
Correct(b, c) ==
  /\ Upset /\ b \in DOMAIN Shown /\ c # Shown[b]
  /\ truth' = [truth EXCEPT ![b[1]][b[2]] = c] /\ Changed
  /\ UNCHANGED phase

\* The balls after a withdrawn one move up.
Withdraw(b) ==
  /\ Upset /\ b \in DOMAIN Shown
  /\ truth' = [truth EXCEPT ![b[1]] = RemoveAt(@, b[2])] /\ Changed
  /\ UNCHANGED phase

PhaseChange ==
  /\ phase' \in CASE phase = "live" -> {"break", "done"}
                  [] phase = "break" -> {"live"}
                  [] phase = "done" -> {}
  /\ calm' = 0 /\ UNCHANGED <<truth, earlier, storeVars, upsets>>
-----------------------------------------------------------------------------
\* Absence says something only from the oldest shown ball on.
InWindow(doc, b) == \E d \in DOMAIN doc : AtOrAfter(b, d)

\* Stored balls that the document should show and does not.
Absent(s, doc) == {b \in DOMAIN s \ DOMAIN doc : ~s[b].gone /\ InWindow(doc, b)}

\* Balls that are back lose their mark.
Unmarked(s, doc) ==
  [b \in DOMAIN s |-> [s[b] EXCEPT !.missed = @ /\ b \notin DOMAIN doc]]
FirstMissing(s, doc) == \E b \in Absent(s, doc) : ~s[b].missed
Marked(s, doc) ==
  LET absent == Absent(s, doc) IN [b \in DOMAIN s |-> [s[b] EXCEPT !.missed = @ \/ b \in absent]]

\* A change of stored balls the configuration does not accept at once.
Differs(s, doc, b) == s[b].gone \/ s[b].hash # doc[b]
CorrectionBlocked(s, doc) ==
  /\ ~AllowCorrections
  /\ \/ \E b \in DOMAIN s \cap DOMAIN doc : Differs(s, doc, b)
     \/ \E b \in DOMAIN s \ DOMAIN doc : ~s[b].gone /\ s[b].missed

\* Mutant: the marks of this poll are written but not seen by applyEvents.
Unseen(s, doc) == s

\* The balls applyEvents works on.
Counted(s, doc) == Marked(s, doc)

\* Mutant: a withdrawn ball keeps its revision.
KeptRevision(s, b) == [s[b] EXCEPT !.gone = TRUE]
Tombstone(s, b) == [s[b] EXCEPT !.rev = @ + 1, !.gone = TRUE]

\* applyEvents: new, changed and revived balls, and tombstones.
ApplyEvents(s, doc) ==
  LET absent == Absent(s, doc) IN
  [b \in DOMAIN s \cup DOMAIN doc |->
     CASE b \notin DOMAIN s -> [rev |-> 1, hash |-> doc[b], gone |-> FALSE, missed |-> FALSE]
       [] b \in DOMAIN s \cap DOMAIN doc ->
            IF Differs(s, doc, b)
            THEN [rev |-> s[b].rev + 1, hash |-> doc[b], gone |-> FALSE, missed |-> FALSE]
            ELSE s[b]
       [] b \in absent -> Tombstone(s, b)
       [] OTHER -> s[b]]

\* One outbox event per changed ball.
Announcement(s, b) == [ball |-> b, rev |-> s[b].rev, hash |-> s[b].hash, gone |-> s[b].gone]
Events(old, new) ==
  {Announcement(new, b) : b \in {b \in DOMAIN new : b \notin DOMAIN old \/ new[b].hash # old[b].hash
                                                     \/ new[b].gone # old[b].gone}}
-----------------------------------------------------------------------------
\* A poll that leaves the stored balls alone but for their marks.
Reconcile(s, doc) ==
  /\ stored' = IF FirstMissing(s, doc) THEN Marked(s, doc) ELSE s
  /\ polls' = polls + 1
  /\ UNCHANGED <<applied, outbox>>

\* A poll whose document is the one applied last only refreshes the match.
Refresh(s, doc) ==
  /\ stored' = IF FirstMissing(s, doc) THEN Marked(s, doc) ELSE s
  /\ UNCHANGED <<polls, applied, outbox>>

\* A poll that applies its document; a tombstone without an earlier mark is
\* an error and the transaction changes nothing.
Apply(s, doc) ==
  IF \A b \in Absent(s, doc) : s[b].missed
  THEN /\ stored' = ApplyEvents(s, doc)
       /\ outbox' = WithInserted(Events(s, stored'))
       /\ polls' = 0 /\ applied' = <<doc, phase>>
  ELSE UNCHANGED storeVars

\* applyProjection.  There are reasons to apply an unchanged document too: the
\* feed is not healthy, holds are pending, a gate is to be refreshed.
Poll(doc) ==
  LET s == Unmarked(stored, doc)
      unsettled == FirstMissing(s, doc) \/ CorrectionBlocked(s, doc)
      forced == polls >= MaxReconcilingPolls - 1 \/ phase # "live"
  IN /\ IF unsettled /\ ~forced THEN Reconcile(s, doc)
        ELSE \/ Apply(Counted(s, doc), doc)
             \/ applied = <<doc, phase>> /\ phase # "done" /\ Refresh(s, doc)
     /\ UNCHANGED provider

PollLatest ==
  /\ Poll(Shown)
  /\ calm' = Min({calm + 1, MaxReconcilingPolls}) /\ UNCHANGED upsets

\* The provider answers with an older document or one without balls.
PollOdd ==
  /\ Upset /\ calm' = 0
  /\ \E doc \in {earlier, NoBalls} \ {Shown} : Poll(doc)

DeliveriesNext ==
  \/ \E c \in Contents : Bowl(c)
  \/ \E b \in (1..Overs) \X (1..Balls) : Withdraw(b) \/ (\E c \in Contents : Correct(b, c))
  \/ PhaseChange \/ PollLatest \/ PollOdd
-----------------------------------------------------------------------------
\* What the outbox says of a set of its positions: the latest revision of
\* every ball they mention.
Told(positions) ==
  LET said == {outbox[i] : i \in positions} IN
  [b \in {e.ball : e \in said} |->
     CHOOSE e \in said : e.ball = b /\ \A f \in said : f.ball = b => f.rev <= e.rev]

\* The outbox tells the stored balls: every change of a ball was published,
\* under a revision that the earlier ones of that ball do not reach.
Announced ==
  /\ \A i, j \in DOMAIN outbox : i < j /\ outbox[i].ball = outbox[j].ball => outbox[i].rev < outbox[j].rev
  /\ Told(DOMAIN outbox) = [b \in DOMAIN stored |-> Announcement(stored, b)]

\* What is stored and not withdrawn is what the provider has, from its oldest
\* shown ball on.
Faithful ==
  LET current == {b \in DOMAIN stored : ~stored[b].gone /\ InWindow(Shown, b)} IN
  current = DOMAIN Shown /\ \A b \in current : stored[b].hash = Shown[b]

\* Whatever was corrected, withdrawn or served out of order before, after
\* MaxReconcilingPolls polls of an unchanged document the stored balls are
\* the provider's.
Converges == calm = MaxReconcilingPolls => Faithful
=============================================================================
