---------------------------- MODULE RequestQuota ----------------------------
(***************************************************************************)
(* The allowance of provider requests, shared by every feed worker: one    *)
(* bucket for the hour and one for the day, both documents of the          *)
(* database.  A request passes the worker's breaker and its own window,    *)
(* takes a slot of the hour and then one of the day, in two writes; when   *)
(* the day refuses, the slot of the hour is given back.  Both buckets are  *)
(* those of the time the request began, so a slow request takes a slot of  *)
(* an hour, or of a day, that is over.                                     *)
(*                                                                         *)
(* Requests are named by the worker and one of its concurrent tasks.  One  *)
(* endpoint stands for all: the buckets do not tell them apart.            *)
(***************************************************************************)
EXTENDS Integers, FiniteSets

CONSTANTS
  Workers,              \* feed worker processes
  Tasks,                \* bound: concurrent requests of one worker
  HourlyRequestLimit,
  DailyRequestLimit,
  QuotaReservePercent,
  MaxMishaps            \* bound: crashes and outages

ASSUME QuotaAssumption ==
  /\ IsFiniteSet(Workers) /\ IsFiniteSet(Tasks)
  /\ HourlyRequestLimit \in Nat \ {0} /\ DailyRequestLimit \in Nat \ {0}
  /\ QuotaReservePercent \in 0..99 /\ MaxMishaps \in Nat

VARIABLES
  window,      \* requests each worker let through in its last hour
  suspended,   \* workers whose breaker is open
  request,     \* stage of each request; "late" and "past" when the hour it
               \* began in is over, "gone" when the day is over as well
  hour,        \* count of this hour's bucket
  day,         \* count of this day's bucket
  sent,        \* requests allowed with a slot of this hour, and of this day
  lost,        \* slots of this hour whose worker stopped before the day's
  mishaps      \* count towards the bound

quotaVars == <<window, suspended, request, hour, day, sent, lost, mishaps>>

Requests == Workers \X Tasks
QuotaInit ==
  /\ window = [w \in Workers |-> 0] /\ suspended = {}
  /\ request = [r \in Requests |-> "none"]
  /\ hour = 0 /\ day = 0 /\ sent = [hour |-> 0, day |-> 0] /\ lost = 0
  /\ mishaps = 0

To(r, stage) == request' = [request EXCEPT ![r] = stage]
Mishap == mishaps < MaxMishaps /\ mishaps' = mishaps + 1

\* What the reserve leaves of a limit.
Usable(limit) ==
  LET kept == (limit * (100 - QuotaReservePercent)) \div 100
  IN  IF kept < 1 THEN 1 ELSE kept

-----------------------------------------------------------------------------
(* One request.                                                            *)

\* The breaker and the worker's own sliding window, in memory.
Ask(r) ==
  /\ request[r] = "none" /\ r[1] \notin suspended
  /\ window[r[1]] < Usable(HourlyRequestLimit)
  /\ window' = [window EXCEPT ![r[1]] = @ + 1]
  /\ To(r, "ask")
  /\ UNCHANGED <<suspended, hour, day, sent, lost, mishaps>>

\* The upsert that takes a slot.  A request whose upsert collides with the
\* one that creates the bucket meets a duplicate key, taken for a full bucket.
takeQuotaBucket(count, limit) == count < Usable(limit)
Refusable(count, limit) == count >= Usable(limit) \/ count = 1

TakeHour(r) ==
  /\ request[r] = "ask" /\ takeQuotaBucket(hour, HourlyRequestLimit)
  /\ hour' = hour + 1 /\ To(r, "hour")
  /\ UNCHANGED <<window, suspended, day, sent, lost, mishaps>>

HourRefused(r) ==
  /\ request[r] = "ask" /\ Refusable(hour, HourlyRequestLimit)
  /\ To(r, "none")
  /\ UNCHANGED <<window, suspended, hour, day, sent, lost, mishaps>>

\* The bucket of an hour that is over.
TakeLastHour(r) ==
  /\ request[r] = "late" /\ \E stage \in {"past", "none"} : To(r, stage)
  /\ UNCHANGED <<window, suspended, hour, day, sent, lost, mishaps>>

TakeDay(r) ==
  /\ request[r] \in {"hour", "past"} /\ takeQuotaBucket(day, DailyRequestLimit)
  /\ day' = day + 1 /\ To(r, "sent")
  /\ sent' = [hour |-> sent.hour + (IF request[r] = "hour" THEN 1 ELSE 0),
              day |-> sent.day + 1]
  /\ UNCHANGED <<window, suspended, hour, lost, mishaps>>

\* Mutant: the slot is given back to the hour that runs, not to the request's.
SlotOfNow(r) == hour - 1

\* The slot a refused request gives back is one of the hour it began in.
GivenBack(r) == IF request[r] = "hour" THEN hour - 1 ELSE hour

DayRefused(r) ==
  /\ request[r] \in {"hour", "past"} /\ Refusable(day, DailyRequestLimit)
  /\ hour' = GivenBack(r) /\ To(r, "none")
  /\ UNCHANGED <<window, suspended, day, sent, lost, mishaps>>

\* Yesterday's bucket allows the request or not; today's is not touched.
TakeYesterday(r) ==
  /\ request[r] = "gone" /\ \E stage \in {"sent", "none"} : To(r, stage)
  /\ UNCHANGED <<window, suspended, hour, day, sent, lost, mishaps>>

Answered(r) ==
  /\ request[r] = "sent" /\ To(r, "none")
  /\ UNCHANGED <<window, suspended, hour, day, sent, lost, mishaps>>

\* A refusal of the whole account opens the breaker: a rate limit, a rejected
\* credential, or a response whose remaining allowance is nearly spent.
tripBreakerIfOutage(r) ==
  /\ request[r] = "sent" /\ Mishap /\ To(r, "none")
  /\ suspended' = suspended \cup {r[1]}
  /\ UNCHANGED <<window, hour, day, sent, lost>>

-----------------------------------------------------------------------------
(* Time and crashes.                                                       *)

\* The window slides; an open breaker closes.
Slide(w) ==
  /\ window[w] > 0 /\ window' = [window EXCEPT ![w] = @ - 1]
  /\ UNCHANGED <<suspended, request, hour, day, sent, lost, mishaps>>

Resume(w) ==
  /\ w \in suspended /\ suspended' = suspended \ {w}
  /\ UNCHANGED <<window, request, hour, day, sent, lost, mishaps>>

HourEnds(dayToo) ==
  /\ hour' = 0 /\ lost' = 0
  /\ sent' = [hour |-> 0, day |-> IF dayToo THEN 0 ELSE sent.day]
  /\ day' = IF dayToo THEN 0 ELSE day
  /\ request' = [r \in Requests |->
       CASE dayToo /\ request[r] \in {"ask", "late", "hour", "past"} -> "gone"
         [] ~dayToo /\ request[r] = "ask" -> "late"
         [] ~dayToo /\ request[r] = "hour" -> "past"
         [] OTHER -> request[r]]
  /\ UNCHANGED <<window, suspended, mishaps>>

\* A worker stops and starts again: its window and its breaker are memory.
WorkerStops(w) ==
  /\ Mishap
  /\ window' = [window EXCEPT ![w] = 0] /\ suspended' = suspended \ {w}
  /\ request' = [r \in Requests |-> IF r[1] = w THEN "none" ELSE request[r]]
  /\ lost' = lost + Cardinality({r \in Requests : r[1] = w /\ request[r] = "hour"})
  /\ UNCHANGED <<hour, day, sent>>

-----------------------------------------------------------------------------

QuotaNext ==
  \/ \E r \in Requests :
       \/ Ask(r) \/ TakeHour(r) \/ HourRefused(r) \/ TakeLastHour(r)
       \/ TakeDay(r) \/ DayRefused(r) \/ TakeYesterday(r) \/ Answered(r) \/ tripBreakerIfOutage(r)
  \/ \E w \in Workers : Slide(w) \/ Resume(w) \/ WorkerStops(w)
  \/ \E dayToo \in BOOLEAN : HourEnds(dayToo)

-----------------------------------------------------------------------------
(* Properties.                                                             *)

Holding == {r \in Requests : request[r] = "hour"}

\* The buckets hold exactly the requests that were allowed, the slots of
\* requests on their way and those a crash lost, and never more than the
\* usable allowance: a refusal by the day gives its own slot back, whatever
\* hours and days ended meanwhile.
QuotaReconciles ==
  /\ hour = sent.hour + lost + Cardinality(Holding)
  /\ day = sent.day
  /\ hour <= Usable(HourlyRequestLimit) /\ day <= Usable(DailyRequestLimit)
=============================================================================
