------------------------------- MODULE Outbox -------------------------------
(* The realtime_outbox collection: the match.delivery events that polls     *)
(* commit and that every API replica follows through a change stream.       *)
EXTENDS Integers, Sequences, FiniteSets

VARIABLE outbox \* the events in the order of their insertion

EventId(event) == <<event.ball, event.rev>>

\* The order of play of two balls.
Before(b, c) == b[1] < c[1] \/ (b[1] = c[1] /\ b[2] < c[2])

\* The events of a poll, one per ball, in the order of play.
InOrder(events) ==
  CHOOSE s \in [1..Cardinality(events) -> events] :
    \A i, j \in DOMAIN s : i < j => Before(s[i].ball, s[j].ball)

\* One batch; an event whose id is already there is a duplicate and is ignored.
WithInserted(events) ==
  outbox \o InOrder({e \in events : \A i \in DOMAIN outbox : EventId(outbox[i]) # EventId(e)})
=============================================================================
