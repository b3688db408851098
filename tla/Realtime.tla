------------------------------ MODULE Realtime ------------------------------
(***************************************************************************)
(* Push of outbox events to browsers (internal/realtime): one API replica  *)
(* with its change stream, its hub, and one viewer of the match.           *)
(*                                                                         *)
(* A viewer subscribes and then loads the stored balls over REST.  Events  *)
(* wait in the bounded buffer of its connection; a viewer too slow for the *)
(* buffer is disconnected.  The stream breaks and is opened again after    *)
(* the last event it delivered, or at the present if it delivered none.    *)
(***************************************************************************)
EXTENDS Outbox

CONSTANTS SendBuffer, \* messages a connection may hold
          MaxBreaks   \* stream errors and restarts of the replica
ASSUME RealtimeAssumption == SendBuffer \in Nat \ {0} /\ MaxBreaks \in Nat

VARIABLES stream, \* [open, resumable: it has a resume token, at: events passed]
          viewer, \* [on, loaded, seen: positions it knows, queue: positions sent,
                  \* skipped: history, positions a fresh watch passed over]
          breaks
realtimeVars == <<stream, viewer, breaks>>
-----------------------------------------------------------------------------
Off == [on |-> FALSE, loaded |-> FALSE, seen |-> {}, queue |-> <<>>, skipped |-> {}]
RealtimeInit ==
  /\ stream = [open |-> FALSE, resumable |-> FALSE, at |-> 0]
  /\ viewer = Off /\ breaks = 0

\* Mutant: a full buffer drops the event and keeps the connection.
Dropped(v, p) == IF Len(v.queue) < SendBuffer THEN [v EXCEPT !.queue = Append(@, p)] ELSE v

\* trySend: never hide a gap, disconnect a viewer whose buffer is full.
Sent(v, p) == IF Len(v.queue) < SendBuffer THEN [v EXCEPT !.queue = Append(@, p)] ELSE Off

\* The next event of the stream goes to the hub.
Deliver ==
  /\ stream.open /\ stream.at < Len(outbox)
  /\ stream' = [stream EXCEPT !.at = @ + 1, !.resumable = TRUE]
  /\ viewer' = IF viewer.on THEN Sent(viewer, stream.at + 1) ELSE viewer
  /\ UNCHANGED <<outbox, breaks>>

Break ==
  /\ stream.open /\ breaks < MaxBreaks /\ breaks' = breaks + 1
  /\ stream' = [stream EXCEPT !.open = FALSE]
  /\ UNCHANGED <<outbox, viewer>>

\* Mutant: the watch is always opened at the present.
AtPresent == Len(outbox)

\* Where a new watch starts.
ResumePoint == IF stream.resumable THEN stream.at ELSE Len(outbox)
Open ==
  /\ ~stream.open
  /\ stream' = [stream EXCEPT !.open = TRUE, !.at = ResumePoint]
  /\ viewer' = IF viewer.loaded /\ ~stream.resumable
               THEN [viewer EXCEPT !.skipped = @ \cup (stream.at + 1)..Len(outbox)] ELSE viewer
  /\ UNCHANGED <<outbox, breaks>>

\* The replica stops: connections end and the token is forgotten.
Restart ==
  /\ breaks < MaxBreaks /\ breaks' = breaks + 1
  /\ stream' = [open |-> FALSE, resumable |-> FALSE, at |-> 0] /\ viewer' = Off
  /\ UNCHANGED outbox
-----------------------------------------------------------------------------
\* The browser: it subscribes, loads, reads, and leaves.
Subscribe ==
  /\ ~viewer.on /\ viewer' = [Off EXCEPT !.on = TRUE]
  /\ UNCHANGED <<outbox, stream, breaks>>

Load ==
  /\ viewer.on /\ ~viewer.loaded
  /\ viewer' = [viewer EXCEPT !.loaded = TRUE, !.seen = @ \cup DOMAIN outbox]
  /\ UNCHANGED <<outbox, stream, breaks>>

Receive ==
  /\ viewer.queue # <<>>
  /\ viewer' = [viewer EXCEPT !.seen = @ \cup {Head(viewer.queue)}, !.queue = Tail(@)]
  /\ UNCHANGED <<outbox, stream, breaks>>

Leave ==
  /\ viewer.on /\ viewer' = Off
  /\ UNCHANGED <<outbox, stream, breaks>>

RealtimeNext ==
  Deliver \/ Break \/ Open \/ Restart \/ Subscribe \/ Load \/ Receive \/ Leave
-----------------------------------------------------------------------------
\* A viewer that has loaded the balls is never behind the stream without
\* being told: what the stream passed it has read or is waiting in its
\* buffer, but for what a watch opened without a resume token passed over.
NoHiddenGap ==
  viewer.loaded =>
    1..stream.at \subseteq viewer.seen \cup {viewer.queue[i] : i \in DOMAIN viewer.queue} \cup viewer.skipped
=============================================================================
