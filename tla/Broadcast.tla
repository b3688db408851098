----------------------------- MODULE Broadcast -----------------------------
(***************************************************************************)
(* A match shown to viewers, and the two ways its balls come in.  A        *)
(* provider match is polled and what a poll yields is stored and announced *)
(* through the outbox (Deliveries, Realtime); a match of the simulator is  *)
(* replayed from a recording (Replay).  Each part refuses the matches of   *)
(* the other, so what a match is never changes.                            *)
(***************************************************************************)
EXTENDS Deliveries, Realtime, Replay

CONSTANT MaxFaults \* upsets of the provider and breaks of the stream together

VARIABLE dataSource \* of the match: criclive or simulator
feedVars == <<deliveryVars, realtimeVars>>
vars == <<dataSource, feedVars, replayVars>>

Init ==
  /\ dataSource \in {"criclive", "simulator"}
  /\ DeliveriesInit /\ RealtimeInit /\ ReplayInit

\* The outbox is what the poller and the replica share.
PollerStep == DeliveriesNext /\ UNCHANGED realtimeVars
ReplicaStep == RealtimeNext /\ UNCHANGED <<provider, stored, polls, applied, calm, upsets>>

FeedStep ==
  /\ dataSource = "criclive"
  /\ PollerStep \/ ReplicaStep
  /\ upsets' + breaks' <= MaxFaults
  /\ UNCHANGED <<dataSource, replayVars>>

ReplayStep ==
  /\ dataSource = "simulator" /\ ReplayNext
  /\ UNCHANGED <<dataSource, feedVars>>

Next == FeedStep \/ ReplayStep
Spec == Init /\ [][Next]_vars
=============================================================================
