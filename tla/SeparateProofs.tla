--------------------------- MODULE SeparateProofs --------------------------
(***************************************************************************)
(* What the parts of Separate guarantee for every instance: the request    *)
(* buckets of the provider, money from outside trading, the overs read     *)
(* from the second provider, and the cadence of the reads.                 *)
(***************************************************************************)
EXTENDS Separate, TotalsProofs, FiniteSetTheorems, TLAPS

-----------------------------------------------------------------------------
(* The request buckets (RequestQuota).                                     *)

Stages == {"none", "ask", "hour", "late", "past", "gone", "sent"}
QuotaTypeOK ==
  /\ request \in [Requests -> Stages]
  /\ hour \in Nat /\ day \in Nat /\ lost \in Nat
  /\ sent \in [hour : Nat, day : Nat]
QuotaInv == QuotaTypeOK /\ QuotaReconciles

LEMMA HoldingFinite ==
  ASSUME NEW S, S \subseteq Requests
  PROVE  IsFiniteSet(S) /\ Cardinality(S) \in Nat
<1>1. IsFiniteSet(Requests)
  BY QuotaAssumption, FS_Product DEF Requests
<1> QED BY <1>1, FS_Subset, FS_CardinalityType

LEMMA UsableNatural ==
  ASSUME NEW limit \in Nat \ {0}
  PROVE  Usable(limit) \in Nat \ {0}
<1> DEFINE product == limit * (100 - QuotaReservePercent)
<1>1. product \in Int
  BY QuotaAssumption
<1>2. product \div 100 \in Int
  <2> HIDE DEF product
  <2> QED BY <1>1
<1> HIDE DEF product
<1> QED BY <1>2 DEF Usable, product

LEMMA UsableNumbers ==
  Usable(HourlyRequestLimit) \in Nat \ {0} /\ Usable(DailyRequestLimit) \in Nat \ {0}
BY QuotaAssumption, UsableNatural

\* A step that moves one request among the stages that hold no slot of the
\* hour leaves the set of holders alone; one that takes or gives back a slot
\* adds the request to it or removes it.
LEMMA HoldersKept ==
  ASSUME QuotaTypeOK, NEW r \in Requests, NEW stage \in Stages, To(r, stage),
         request[r] # "hour", stage # "hour"
  PROVE  request' \in [Requests -> Stages] /\ Holding' = Holding
BY DEF QuotaTypeOK, To, Holding

LEMMA HolderAdded ==
  ASSUME QuotaTypeOK, NEW r \in Requests, To(r, "hour"), request[r] # "hour"
  PROVE  /\ request' \in [Requests -> Stages]
         /\ Cardinality(Holding') = Cardinality(Holding) + 1
<1>1. request' \in [Requests -> Stages] /\ Holding' = Holding \cup {r} /\ r \notin Holding
  BY DEF QuotaTypeOK, To, Holding, Stages
<1>2. IsFiniteSet(Holding)
  BY HoldingFinite DEF Holding
<1> QED BY <1>1, <1>2, FS_AddElement

LEMMA HolderRemoved ==
  ASSUME QuotaTypeOK, NEW r \in Requests, NEW stage \in Stages, To(r, stage),
         request[r] = "hour", stage # "hour"
  PROVE  /\ request' \in [Requests -> Stages]
         /\ Cardinality(Holding) \in Nat \ {0}
         /\ Cardinality(Holding') = Cardinality(Holding) - 1
<1>1. request' \in [Requests -> Stages] /\ Holding' = Holding \ {r} /\ r \in Holding
  BY DEF QuotaTypeOK, To, Holding
<1>2. IsFiniteSet(Holding) /\ Cardinality(Holding) \in Nat
  BY HoldingFinite DEF Holding
<1>3. Cardinality(Holding) # 0
  BY <1>1, <1>2, FS_EmptySet
<1> QED BY <1>1, <1>2, <1>3, FS_RemoveElement

LEMMA QuotaKept ==
  ASSUME QuotaInv, [QuotaNext]_quotaVars
  PROVE  QuotaInv'
<1> USE DEF QuotaInv
<1> DEFINE H == Usable(HourlyRequestLimit)
           D == Usable(DailyRequestLimit)
           N == Cardinality(Holding)
<1>1. H \in Nat \ {0} /\ D \in Nat \ {0}
  BY UsableNumbers
<1>2. /\ hour \in Nat /\ day \in Nat /\ lost \in Nat /\ sent \in [hour : Nat, day : Nat]
      /\ hour = sent.hour + lost + N /\ day = sent.day /\ hour <= H /\ day <= D
  BY DEF QuotaTypeOK, QuotaReconciles
<1>3. N \in Nat /\ N' \in Nat
  BY HoldingFinite DEF Holding
<1> DEFINE Numbers ==
             /\ hour' \in Nat /\ day' \in Nat /\ lost' \in Nat /\ sent' \in [hour : Nat, day : Nat]
             /\ hour' = sent'.hour + lost' + N' /\ day' = sent'.day /\ hour' <= H /\ day' <= D
<1>4. ASSUME request' \in [Requests -> Stages], Numbers PROVE QuotaInv'
  BY <1>4 DEF QuotaTypeOK, QuotaReconciles
<1>5. ASSUME request' \in [Requests -> Stages], N' = N, UNCHANGED <<hour, day, sent, lost>>
      PROVE  QuotaInv'
  <2> HIDE DEF H, D, N
  <2>1. Numbers
    BY <1>2, <1>5
  <2> QED BY <1>5, <2>1, <1>4
<1>6. ASSUME NEW r \in Requests,
             Ask(r) \/ HourRefused(r) \/ TakeLastHour(r) \/ TakeYesterday(r) \/ Answered(r)
               \/ tripBreakerIfOutage(r)
      PROVE  QuotaInv'
  <2>1. UNCHANGED <<hour, day, sent, lost>>
    BY <1>6 DEF Ask, HourRefused, TakeLastHour, TakeYesterday, Answered, tripBreakerIfOutage
  <2>2. \E stage \in Stages : To(r, stage) /\ request[r] # "hour" /\ stage # "hour"
    BY <1>6 DEF Ask, HourRefused, TakeLastHour, TakeYesterday, Answered, tripBreakerIfOutage, Stages
  <2> QED BY <2>1, <2>2, <1>5, HoldersKept
<1>7. ASSUME NEW r \in Requests, TakeHour(r) PROVE QuotaInv'
  <2>1. request' \in [Requests -> Stages] /\ N' = N + 1
    BY <1>7, HolderAdded DEF TakeHour
  <2>2. hour < H /\ hour' = hour + 1 /\ UNCHANGED <<day, sent, lost>>
    BY <1>7 DEF TakeHour, takeQuotaBucket
  <2> HIDE DEF H, D, N
  <2>3. Numbers
    BY <1>1, <1>2, <1>3, <2>1, <2>2
  <2> QED BY <2>1, <2>3, <1>4
<1>8. ASSUME NEW r \in Requests, TakeDay(r) PROVE QuotaInv'
  <2>1. /\ day < D /\ day' = day + 1 /\ UNCHANGED <<hour, lost>> /\ To(r, "sent")
        /\ sent' = [hour |-> sent.hour + (IF request[r] = "hour" THEN 1 ELSE 0), day |-> sent.day + 1]
        /\ request[r] \in {"hour", "past"}
    BY <1>8 DEF TakeDay, takeQuotaBucket
  <2>2. /\ request' \in [Requests -> Stages]
        /\ N' = N - (IF request[r] = "hour" THEN 1 ELSE 0)
    BY <2>1, <1>3, HoldersKept, HolderRemoved DEF Stages
  <2> HIDE DEF H, D, N
  <2>3. Numbers
    BY <1>1, <1>2, <1>3, <2>1, <2>2
  <2> QED BY <2>2, <2>3, <1>4
<1>9. ASSUME NEW r \in Requests, DayRefused(r) PROVE QuotaInv'
  <2>1. /\ hour' = (IF request[r] = "hour" THEN hour - 1 ELSE hour) /\ To(r, "none")
        /\ UNCHANGED <<day, sent, lost>> /\ request[r] \in {"hour", "past"}
    BY <1>9 DEF DayRefused, GivenBack
  <2>2. /\ request' \in [Requests -> Stages]
        /\ N' = N - (IF request[r] = "hour" THEN 1 ELSE 0)
    BY <2>1, <1>3, HoldersKept, HolderRemoved DEF Stages
  <2> HIDE DEF H, D, N
  <2>3. Numbers
    BY <1>1, <1>2, <1>3, <2>1, <2>2
  <2> QED BY <2>2, <2>3, <1>4
<1>10. ASSUME NEW w \in Workers, Slide(w) \/ Resume(w) PROVE QuotaInv'
  <2>1. UNCHANGED <<request, hour, day, sent, lost>>
    BY <1>10 DEF Slide, Resume
  <2> QED BY <2>1 DEF QuotaTypeOK, QuotaReconciles, Holding
<1>11. ASSUME NEW w \in Workers, WorkerStops(w) PROVE QuotaInv'
  <2> DEFINE Gone == {r \in Requests : r[1] = w /\ request[r] = "hour"}
  <2>1. /\ request' = [r \in Requests |-> IF r[1] = w THEN "none" ELSE request[r]]
        /\ lost' = lost + Cardinality(Gone) /\ UNCHANGED <<hour, day, sent>>
    BY <1>11 DEF WorkerStops
  <2>2. request' \in [Requests -> Stages] /\ Holding' = Holding \ Gone /\ Gone \subseteq Holding
    BY <2>1 DEF QuotaTypeOK, Stages, Holding
  <2>3. Cardinality(Gone) \in Nat /\ N' = N - Cardinality(Gone)
    <3>1. IsFiniteSet(Holding) /\ Gone \subseteq Requests
      BY HoldingFinite DEF Holding
    <3>2. Cardinality(Holding \ Gone) = N - Cardinality(Holding \cap Gone)
      BY <3>1, HoldingFinite, FS_Difference
    <3>3. Holding \cap Gone = Gone
      BY <2>2
    <3> QED BY <2>2, <3>1, <3>2, <3>3, HoldingFinite
  <2> HIDE DEF H, D, N, Gone
  <2>4. Numbers
    BY <1>2, <1>3, <2>1, <2>3
  <2> QED BY <2>2, <2>4, <1>4
<1>12. ASSUME NEW dayToo \in BOOLEAN, HourEnds(dayToo) PROVE QuotaInv'
  <2>1. request' \in [Requests -> Stages] /\ Holding' = {}
    BY <1>12 DEF HourEnds, QuotaTypeOK, Stages, Holding
  <2>2. /\ hour' = 0 /\ lost' = 0 /\ day' = (IF dayToo THEN 0 ELSE day)
        /\ sent' = [hour |-> 0, day |-> IF dayToo THEN 0 ELSE sent.day]
    BY <1>12 DEF HourEnds
  <2>3. N' = 0
    BY <2>1, FS_EmptySet
  <2> HIDE DEF H, D, N
  <2>4. Numbers
    BY <1>1, <1>2, <2>2, <2>3
  <2> QED BY <2>1, <2>4, <1>4
<1>13. CASE UNCHANGED quotaVars
  BY <1>13 DEF quotaVars, QuotaTypeOK, QuotaReconciles, Holding
<1> QED BY <1>6, <1>7, <1>8, <1>9, <1>10, <1>11, <1>12, <1>13 DEF QuotaNext

\* Slots of the hour and of the day are exactly the requests that were allowed
\* or are on their way, plus those a crash lost (ConsumeRequestQuota), however
\* many workers race and wherever an hour or a day ends.
THEOREM QuotaReconcilesHolds == Spec => []QuotaReconciles
<1>1. Init => QuotaInv
  <2>1. ASSUME QuotaInit PROVE QuotaInv
    <3>1. QuotaTypeOK /\ Holding = {}
      BY <2>1 DEF QuotaInit, QuotaTypeOK, Holding, Stages
    <3>2. Cardinality(Holding) = 0
      BY <3>1, FS_EmptySet
    <3> QED BY <2>1, <3>1, <3>2, UsableNumbers DEF QuotaInv, QuotaInit, QuotaReconciles
  <2> QED BY <2>1 DEF Init
<1>2. QuotaInv /\ [Next]_vars => QuotaInv'
  <2>1. [Next]_vars => [QuotaNext]_quotaVars
    BY DEF Next, vars, QuotaStep, CadenceStep, ScoreboardStep, ReadingStep, PortfolioStep, AccountsStep
  <2> QED BY <2>1, QuotaKept
<1>3. QuotaInv => QuotaReconciles
  BY DEF QuotaInv
<1> QED BY <1>1, <1>2, <1>3, PTL DEF Spec

-----------------------------------------------------------------------------
(* Sums over finite sets (SumFunctionOnSet of the community modules).      *)

Chosen(s) == CHOOSE x \in s : TRUE
IsIterated(g, f, S) ==
  g = [s \in SUBSET S |-> IF s = {} THEN 0 ELSE f[Chosen(s)] + g[s \ {Chosen(s)}]]

LEMMA ChosenMember ==
  ASSUME NEW s, s # {}
  PROVE  Chosen(s) \in s
BY DEF Chosen

LEMMA SmallerSet ==
  ASSUME NEW s, IsFiniteSet(s), NEW x \in s
  PROVE  /\ IsFiniteSet(s \ {x}) /\ Cardinality(s) \in Nat \ {0}
         /\ Cardinality(s \ {x}) = Cardinality(s) - 1
<1>1. Cardinality(s) \in Nat /\ Cardinality(s) # 0
  BY FS_CardinalityType, FS_EmptySet
<1> QED BY <1>1, FS_RemoveElement

\* The iteration behind a sum exists: it is built for ever larger subsets.
LEMMA IterationExists ==
  ASSUME NEW S, IsFiniteSet(S), NEW f
  PROVE  \E g : IsIterated(g, f, S)
<1> DEFINE Upto(g, n) ==
             \A s \in SUBSET S : Cardinality(s) <= n =>
               g[s] = IF s = {} THEN 0 ELSE f[Chosen(s)] + g[s \ {Chosen(s)}]
           Bad == {n \in Nat : ~ \E g : Upto(g, n)}
<1>1. \A s \in SUBSET S : IsFiniteSet(s) /\ Cardinality(s) \in Nat /\ Cardinality(s) <= Cardinality(S)
  BY FS_Subset, FS_CardinalityType
<1>2. Bad = {}
  <2> SUFFICES ASSUME Bad # {} PROVE FALSE
    OBVIOUS
  <2>1. PICK k \in Bad : \A j \in Bad : k <= j
    <3> HIDE DEF Upto
    <3> QED BY LeastNatural
  <2>2. CASE k = 0
    <3> DEFINE g == [s \in SUBSET S |-> 0]
    <3>1. \A s \in SUBSET S : Cardinality(s) <= 0 => s = {}
      BY <1>1, FS_EmptySet
    <3>2. Upto(g, 0)
      BY <3>1
    <3> QED BY <3>2, <2>2, <2>1
  <2>3. CASE k # 0
    <3>1. k - 1 \in Nat /\ k - 1 \notin Bad
      <4> HIDE DEF Upto
      <4> QED BY <2>1, <2>3
    <3>2. PICK g : Upto(g, k - 1)
      BY <3>1
    <3> DEFINE h == [s \in SUBSET S |-> IF Cardinality(s) = k THEN f[Chosen(s)] + g[s \ {Chosen(s)}] ELSE g[s]]
    <3>3. ASSUME NEW s \in SUBSET S, Cardinality(s) <= k
          PROVE  h[s] = IF s = {} THEN 0 ELSE f[Chosen(s)] + h[s \ {Chosen(s)}]
      <4>1. CASE s = {}
        <5>1. Cardinality(s) = 0
          BY <4>1, FS_EmptySet
        <5>2. g[s] = 0
          <6>1. 0 <= k - 1
            BY <3>1
          <6> QED BY <6>1, <5>1, <4>1, <3>2
        <5>3. h[s] = g[s]
          BY <5>1, <2>3
        <5> QED BY <5>2, <5>3, <4>1
      <4>2. CASE s # {}
        <5> DEFINE c == Chosen(s) r == s \ {c}
        <5>1. c \in s
          BY <4>2, ChosenMember
        <5> HIDE DEF c
        <5>2. r \in SUBSET S /\ Cardinality(r) = Cardinality(s) - 1 /\ Cardinality(s) \in Nat
          BY <5>1, <1>1, SmallerSet
        <5> HIDE DEF r
        <5>3. h[r] = g[r]
          BY <5>2, <3>3, <2>1
        <5>4. CASE Cardinality(s) = k
          BY <5>3, <5>4, <4>2 DEF r, c
        <5>5. CASE Cardinality(s) # k
          <6>1. Cardinality(s) <= k - 1
            BY <5>2, <5>5, <3>3, <2>1
          <6>2. g[s] = f[c] + g[r]
            BY <6>1, <3>2, <4>2 DEF r, c
          <6>3. h[s] = g[s]
            BY <5>5
          <6> QED BY <6>2, <6>3, <5>3, <4>2 DEF r, c
        <5> QED BY <5>4, <5>5
      <4> QED BY <4>1, <4>2
    <3>4. Upto(h, k)
      <4> HIDE DEF h
      <4> QED BY <3>3
    <3> QED BY <3>4, <2>1
  <2> QED BY <2>2, <2>3
<1>3. PICK g : Upto(g, Cardinality(S))
  BY <1>2, FS_CardinalityType
<1> DEFINE h == [s \in SUBSET S |-> g[s]]
<1>4. ASSUME NEW s \in SUBSET S
      PROVE  h[s] = IF s = {} THEN 0 ELSE f[Chosen(s)] + h[s \ {Chosen(s)}]
  <2>1. Cardinality(s) <= Cardinality(S)
    BY <1>1
  <2>2. h[s \ {Chosen(s)}] = g[s \ {Chosen(s)}]
    OBVIOUS
  <2> QED BY <2>1, <2>2, <1>3
<1>5. IsIterated(h, f, S)
  <2>1. h = [s \in SUBSET S |-> h[s]]
    OBVIOUS
  <2> HIDE DEF h
  <2> QED BY <2>1, <1>4 DEF IsIterated
<1> QED BY <1>5

\* Two iterations agree on a set where their summands do.
LEMMA IterationsAgree ==
  ASSUME NEW S, NEW T, NEW f, NEW e, NEW g, NEW h,
         IsIterated(g, f, S), IsIterated(h, e, T),
         NEW U, IsFiniteSet(U), U \subseteq S, U \subseteq T, \A u \in U : f[u] = e[u]
  PROVE  g[U] = h[U]
<1> DEFINE Bad == {n \in Nat : \E V \in SUBSET U : Cardinality(V) = n /\ g[V] # h[V]}
<1>1. SUFFICES ASSUME Bad # {} PROVE FALSE
  <2>1. Cardinality(U) \in Nat
    BY FS_CardinalityType
  <2> QED BY <2>1
<1>2. PICK k \in Bad : \A j \in Bad : k <= j
  BY <1>1, LeastNatural
<1>3. PICK V \in SUBSET U : Cardinality(V) = k /\ g[V] # h[V]
  BY <1>2
<1>4. /\ g[V] = IF V = {} THEN 0 ELSE f[Chosen(V)] + g[V \ {Chosen(V)}]
      /\ h[V] = IF V = {} THEN 0 ELSE e[Chosen(V)] + h[V \ {Chosen(V)}]
  <2>1. V \in SUBSET S /\ V \in SUBSET T
    BY <1>3
  <2> QED BY <2>1 DEF IsIterated
<1>5. V # {} /\ Chosen(V) \in V
  BY <1>3, <1>4, ChosenMember
<1>6. Cardinality(V \ {Chosen(V)}) = k - 1 /\ k \in Nat \ {0}
  BY <1>3, <1>5, FS_Subset, SmallerSet
<1>7. g[V \ {Chosen(V)}] = h[V \ {Chosen(V)}]
  <2>1. k - 1 \in Nat /\ k - 1 \notin Bad
    BY <1>2, <1>6
  <2> QED BY <2>1, <1>6, <1>3
<1>8. f[Chosen(V)] = e[Chosen(V)]
  BY <1>5
<1> QED BY <1>3, <1>4, <1>5, <1>7, <1>8

LEMMA SumIterated ==
  ASSUME NEW S, IsFiniteSet(S), NEW f
  PROVE  \E g : IsIterated(g, f, S) /\ SumFunctionOnSet(f, S) = g[S]
<1> DEFINE g == CHOOSE t : IsIterated(t, f, S)
<1>1. IsIterated(g, f, S)
  BY IterationExists
<1>2. SumFunctionOnSet(f, S) = g[S]
  BY DEF SumFunctionOnSet, FoldFunctionOnSet, MapThenFoldSet, IsIterated, Chosen
<1> QED BY <1>1, <1>2

LEMMA SumEmpty ==
  ASSUME NEW f
  PROVE  SumFunctionOnSet(f, {}) = 0
<1>1. PICK g : IsIterated(g, f, {}) /\ SumFunctionOnSet(f, {}) = g[{}]
  BY SumIterated, FS_EmptySet
<1> QED BY <1>1 DEF IsIterated

\* A sum depends on the summands only.
LEMMA SumSame ==
  ASSUME NEW S, IsFiniteSet(S), NEW f, NEW e, \A x \in S : f[x] = e[x]
  PROVE  SumFunctionOnSet(f, S) = SumFunctionOnSet(e, S)
<1>1. PICK g : IsIterated(g, f, S) /\ SumFunctionOnSet(f, S) = g[S]
  BY SumIterated
<1>2. PICK h : IsIterated(h, e, S) /\ SumFunctionOnSet(e, S) = h[S]
  BY SumIterated
<1> QED BY <1>1, <1>2, IterationsAgree

LEMMA SumStep ==
  ASSUME NEW S, IsFiniteSet(S), S # {}, NEW f
  PROVE  SumFunctionOnSet(f, S) = f[Chosen(S)] + SumFunctionOnSet(f, S \ {Chosen(S)})
<1> DEFINE R == S \ {Chosen(S)}
<1>1. IsFiniteSet(R) /\ R \subseteq S
  BY FS_Subset
<1>2. PICK g : IsIterated(g, f, S) /\ SumFunctionOnSet(f, S) = g[S]
  BY SumIterated
<1>3. PICK h : IsIterated(h, f, R) /\ SumFunctionOnSet(f, R) = h[R]
  BY <1>1, SumIterated
<1>4. g[R] = h[R]
  BY <1>1, <1>2, <1>3, IterationsAgree
<1>5. g[S] = f[Chosen(S)] + g[R]
  BY <1>2 DEF IsIterated
<1> QED BY <1>2, <1>3, <1>4, <1>5

LEMMA SumInt ==
  ASSUME NEW S, IsFiniteSet(S), NEW f, \A x \in S : f[x] \in Int
  PROVE  SumFunctionOnSet(f, S) \in Int
<1> DEFINE Sum(T) == SumFunctionOnSet(f, T)
           Bad == {n \in Nat : \E T \in SUBSET S : Cardinality(T) = n /\ Sum(T) \notin Int}
<1>1. SUFFICES ASSUME Bad # {} PROVE FALSE
  BY FS_CardinalityType
<1>2. PICK k \in Bad : \A j \in Bad : k <= j
  <2> HIDE DEF Sum
  <2> QED BY <1>1, LeastNatural
<1>3. PICK T \in SUBSET S : Cardinality(T) = k /\ Sum(T) \notin Int
  BY <1>2
<1>4. IsFiniteSet(T) /\ T # {}
  <2>1. IsFiniteSet(T)
    BY FS_Subset
  <2>2. Sum({}) = 0
    BY SumEmpty
  <2> HIDE DEF Sum
  <2> QED BY <2>1, <2>2, <1>3
<1> DEFINE c == Chosen(T) R == T \ {c}
<1>5. c \in T /\ f[c] \in Int
  BY <1>4, ChosenMember
<1>6. Sum(T) = f[c] + Sum(R)
  BY <1>4, SumStep
<1> HIDE DEF c, Sum
<1>7. Cardinality(R) = k - 1 /\ k \in Nat \ {0} /\ R \in SUBSET S
  BY <1>3, <1>4, <1>5, SmallerSet
<1>8. k - 1 \in Nat /\ k - 1 \notin Bad
  BY <1>7, <1>2
<1>9. Sum(R) \in Int
  BY <1>7, <1>8
<1> QED BY <1>3, <1>5, <1>6, <1>9

\* Any element can be taken out of a sum.
LEMMA SumRemove ==
  ASSUME NEW S, IsFiniteSet(S), NEW f, \A x \in S : f[x] \in Int, NEW x \in S
  PROVE  SumFunctionOnSet(f, S) = f[x] + SumFunctionOnSet(f, S \ {x})
<1> DEFINE Sum(T) == SumFunctionOnSet(f, T)
           Wrong(T) == \E y \in T : Sum(T) # f[y] + Sum(T \ {y})
           Bad == {n \in Nat : \E T \in SUBSET S : Cardinality(T) = n /\ Wrong(T)}
<1>1. SUFFICES ASSUME Bad # {} PROVE FALSE
  BY FS_CardinalityType
<1>2. PICK k \in Bad : \A j \in Bad : k <= j
  <2> HIDE DEF Wrong
  <2> QED BY <1>1, LeastNatural
<1>3. PICK T \in SUBSET S : Cardinality(T) = k /\ Wrong(T)
  <2> HIDE DEF Wrong
  <2> QED BY <1>2
<1>4. PICK y \in T : Sum(T) # f[y] + Sum(T \ {y})
  BY <1>3
<1>5. IsFiniteSet(T)
  BY FS_Subset
<1> DEFINE c == Chosen(T)
<1>6. c \in T
  BY <1>4, ChosenMember
<1>7. Sum(T) = f[c] + Sum(T \ {c})
  BY <1>4, <1>5, SumStep
<1> HIDE DEF c
<1>8. y # c
  BY <1>4, <1>7
<1>9. \A z \in T : IsFiniteSet(T \ {z}) /\ Cardinality(T \ {z}) = k - 1 /\ k \in Nat \ {0}
  BY <1>3, <1>5, SmallerSet
<1>10. k - 1 \in Nat /\ k - 1 \notin Bad
  <2>1. k \in Nat \ {0}
    BY <1>6, <1>9
  <2>2. k - 1 \in Nat /\ ~(k <= k - 1)
    BY <2>1
  <2> HIDE DEF Bad
  <2> QED BY <1>2, <2>2
<1>11. \A z \in T : ~Wrong(T \ {z})
  <2> HIDE DEF Wrong
  <2>1. \A z \in T : T \ {z} \in SUBSET S
    OBVIOUS
  <2> QED BY <2>1, <1>9, <1>10
<1>12. Sum(T \ {c}) = f[y] + Sum((T \ {c}) \ {y})
  BY <1>11, <1>6, <1>8
<1>13. Sum(T \ {y}) = f[c] + Sum((T \ {y}) \ {c})
  BY <1>11, <1>6, <1>8
<1>14. (T \ {c}) \ {y} = (T \ {y}) \ {c}
  OBVIOUS
<1>15. Sum((T \ {y}) \ {c}) \in Int /\ f[y] \in Int /\ f[c] \in Int
  <2>1. IsFiniteSet((T \ {y}) \ {c}) /\ (T \ {y}) \ {c} \subseteq S
    BY <1>5, FS_Subset
  <2> QED BY <2>1, <1>6, SumInt
<1>16. PICK m \in Int : m = Sum((T \ {y}) \ {c})
  BY <1>15
<1>17. Sum(T) = f[c] + (f[y] + m)
  BY <1>7, <1>12, <1>14, <1>16
<1>18. f[y] + Sum(T \ {y}) = f[y] + (f[c] + m)
  BY <1>13, <1>16
<1>19. f[c] + (f[y] + m) = f[y] + (f[c] + m)
  BY <1>15, <1>16
<1> QED BY <1>4, <1>17, <1>18, <1>19

\* A new element adds its summand.
LEMMA SumAdd ==
  ASSUME NEW S, IsFiniteSet(S), NEW x, x \notin S, NEW f, NEW e, e[x] \in Int,
         \A y \in S : f[y] \in Int /\ e[y] = f[y]
  PROVE  SumFunctionOnSet(e, S \cup {x}) = SumFunctionOnSet(f, S) + e[x]
<1>1. IsFiniteSet(S \cup {x}) /\ (S \cup {x}) \ {x} = S
  BY FS_AddElement
<1>2. SumFunctionOnSet(e, S \cup {x}) = e[x] + SumFunctionOnSet(e, S)
  BY <1>1, SumRemove
<1>3. SumFunctionOnSet(e, S) = SumFunctionOnSet(f, S)
  BY SumSame
<1>4. SumFunctionOnSet(f, S) \in Int
  BY SumInt
<1> QED BY <1>2, <1>3, <1>4

-----------------------------------------------------------------------------
(* Money from outside trading (Accounts).                                  *)

Steps == {"new", "create", "check", "update", "insert", "credit", "mark", "done"}
Kinds == {"none", "bonus", "topup", "debit", "daily", "academy"}
Keys == 0 .. Days \cup {NoKey}

\* The kind of a call or of an entry says which key it carries.
KeyFits(x) ==
  /\ x.kind = "daily" <=> x.key \in 1 .. Days
  /\ x.kind = "academy" <=> x.key = 0

\* The stages of a handler belong to one kind of call.
StageFits(x) ==
  /\ x.step = "credit" => x.kind \in {"daily", "academy"}
  /\ x.step = "mark" => x.kind = "daily"
  /\ x.step \in {"create", "check"} => x.kind = "bonus"
  /\ x.step \in {"update", "insert"} => x.kind \in {"bonus", "topup", "debit"}
  /\ x.kind # "debit" => x.delta >= 0

CallDocs == {x \in [step : Steps, kind : Kinds, delta : Int, key : Keys] : KeyFits(x) /\ StageFits(x)}
EntryDocs == {e \in [by : Calls, kind : Kinds, delta : Int, key : Keys] : KeyFits(e)}
RowDocs == [exists : BOOLEAN, progress : Nat, fills : SUBSET Fills, claimed : BOOLEAN]
FillDocs == [step : {"new"}, day : {0}]
              \cup [step : {"open", "seeking", "done", "aborted"}, day : 1 .. Days]

MoneyTypeOK ==
  /\ account \in [exists : BOOLEAN, cash : Int]
  /\ call \in [Calls -> CallDocs]
  /\ ledger \subseteq EntryDocs /\ IsFiniteSet(ledger)
  /\ orphaned \in Int
RowsTypeOK ==
  /\ user \in BOOLEAN
  /\ row \in [1 .. Days -> RowDocs]
  /\ fill \in [Fills -> FillDocs]
  /\ today \in 1 .. Days

\* An entry was written by a call of its kind that is past its writing, and
\* by one only.
Authored ==
  /\ \A e \in ledger : call[e.by].step \in {"mark", "done"} /\ call[e.by].kind = e.kind
  /\ \A e, f \in ledger : e.by = f.by => e = f

LedgerInv == MoneyTypeOK /\ Authored /\ LedgerExplains

-----------------------------------------------------------------------------
(* How a call goes on.                                                     *)

OneCall(c, x) == call' = [call EXCEPT ![c] = x]

\* A handler begins, or goes on to another stage of the same operation.
Begun(c) ==
  \E x \in CallDocs :
    /\ OneCall(c, x)
    /\ call[c].step \in {"new", "create"} /\ x.step \in {"create", "check", "update", "credit", "done"}
Moved(c, stage) ==
  \E x \in CallDocs :
    /\ OneCall(c, x)
    /\ x.step = stage /\ x.kind = call[c].kind /\ x.delta = call[c].delta /\ x.key = call[c].key

LEMMA StageMoves ==
  ASSUME MoneyTypeOK, NEW c \in Calls, NEW stage \in {"done", "update", "insert", "mark"}, Goto(c, stage),
         stage = "mark" => call[c].kind = "daily",
         stage \in {"update", "insert"} => call[c].kind \in {"bonus", "topup", "debit"}
  PROVE  Moved(c, stage)
<1>1. PICK y : y = call[c]
  OBVIOUS
<1>2. y \in CallDocs
  BY <1>1 DEF MoneyTypeOK
<1> DEFINE x == [step |-> stage, kind |-> y.kind, delta |-> y.delta, key |-> y.key]
<1>3. x \in CallDocs
  BY <1>1, <1>2 DEF CallDocs, KeyFits, StageFits, Steps
<1>4. [y EXCEPT !.step = stage] = x
  BY <1>2 DEF CallDocs
<1>5. OneCall(c, x)
  BY <1>1, <1>4 DEF Goto, OneCall, MoneyTypeOK
<1> QED BY <1>1, <1>3, <1>5 DEF Moved

LEMMA BeginFits ==
  ASSUME NEW c \in Calls, NEW stage \in {"create", "check", "update", "credit", "done"},
         NEW kind \in Kinds, NEW delta \in Int, NEW key \in Keys,
         Begin(c, stage, kind, delta, key), call[c].step \in {"new", "create"},
         kind = "daily" <=> key \in 1 .. Days, kind = "academy" <=> key = 0,
         stage = "credit" => kind \in {"daily", "academy"},
         stage \in {"create", "check"} => kind = "bonus",
         stage = "update" => kind \in {"bonus", "topup", "debit"},
         kind # "debit" => delta >= 0
  PROVE  Begun(c)
<1> DEFINE x == [step |-> stage, kind |-> kind, delta |-> delta, key |-> key]
<1>1. x \in CallDocs
  BY DEF CallDocs, KeyFits, StageFits, Steps
<1>2. OneCall(c, x)
  BY DEF Begin, OneCall
<1> QED BY <1>1, <1>2 DEF Begun

LEMMA AccountConstants ==
  /\ Bonus \in Nat /\ Bonus > 0 /\ Target \in Nat /\ Target > 0 /\ Days \in Nat /\ Days > 0
  /\ \A a \in Amounts \cup Rewards : a \in Nat /\ a > 0
  /\ NoKey \notin Nat /\ NoKey \in Keys /\ NoKey \notin 1 .. Days /\ NoKey # 0
  /\ 0 \in Keys /\ 0 \notin 1 .. Days /\ 1 .. Days \subseteq Keys
BY AccountsAssumption DEF Keys

\* Each action of a handler begins a call, moves it on, or writes.
LEMMA CallActions ==
  ASSUME MoneyTypeOK, today \in 1 .. Days, NEW c \in Calls
  PROVE  /\ LookUp(c) => Begun(c)
         /\ Create(c) => Begun(c) \/ Moved(c, "done")
         /\ CheckBonus(c) => Moved(c, "done") \/ Moved(c, "update")
         /\ \A a \in Amounts : TopUp(c, a) \/ AdminDebit(c, a) => Begun(c)
         /\ \A r \in Rewards : ClaimDaily(c, r) \/ ClaimAcademy(c, r) => Begun(c)
         /\ Adjust(c) => IF Affordable(c) THEN Moved(c, "insert") ELSE Moved(c, "done")
         /\ InsertEntry(c) => Moved(c, "done")
         /\ CreditReward(c) => Moved(c, "mark") \/ Moved(c, "done")
         /\ MarkClaimed(c) => Moved(c, "done")
         /\ Crash(c) => Moved(c, "done")
<1>1. call[c] \in CallDocs
  BY DEF MoneyTypeOK
<1>2. StageFits(call[c])
  BY <1>1 DEF CallDocs
<1>3. Goto(c, "done") => Moved(c, "done")
  BY StageMoves
<1>4. ASSUME LookUp(c) PROVE Begun(c)
  BY <1>4, AccountConstants, BeginFits DEF LookUp, At, Kinds
<1>5. ASSUME Create(c) PROVE Begun(c) \/ Moved(c, "done")
  <2>1. CASE Unique
    <3>1. Begin(c, "check", "bonus", Bonus, NoKey) /\ call[c].step \in {"new", "create"}
      BY <1>5, <2>1 DEF Create, At
    <3> QED BY <3>1, AccountConstants, BeginFits DEF Kinds
  <2>2. CASE ~Unique
    BY <1>3, <1>5, <2>2 DEF Create
  <2> QED BY <2>1, <2>2
<1>6. ASSUME CheckBonus(c) PROVE Moved(c, "done") \/ Moved(c, "update")
  <2>1. call[c].kind = "bonus" /\ (Goto(c, "done") \/ Goto(c, "update"))
    BY <1>6 DEF CheckBonus
  <2> QED BY <1>3, <2>1, StageMoves
<1>7. ASSUME NEW a \in Amounts, TopUp(c, a) PROVE Begun(c)
  BY <1>7, AccountConstants, BeginFits DEF TopUp, At, Kinds
<1>8. ASSUME NEW a \in Amounts, AdminDebit(c, a) PROVE Begun(c)
  <2>1. PICK stage \in {"done", "update"} : Begin(c, stage, "debit", -a, NoKey) /\ call[c].step = "new"
    BY <1>8 DEF AdminDebit, At
  <2>2. -a \in Int
    BY AccountConstants
  <2> QED BY <2>1, <2>2, AccountConstants, BeginFits DEF Kinds
<1>9. ASSUME NEW r \in Rewards, ClaimDaily(c, r) PROVE Begun(c)
  <2>1. PICK stage \in {"credit", "done"} : Begin(c, stage, "daily", r, today) /\ call[c].step = "new"
    BY <1>9 DEF ClaimDaily, At
  <2>2. today \in Keys /\ today # 0
    BY AccountConstants
  <2> QED BY <2>1, <2>2, AccountConstants, BeginFits DEF Kinds
<1>10. ASSUME NEW r \in Rewards, ClaimAcademy(c, r) PROVE Begun(c)
  <2>1. PICK stage \in {"credit", "done"} : Begin(c, stage, "academy", r, 0) /\ call[c].step = "new"
    BY <1>10 DEF ClaimAcademy, At
  <2> QED BY <2>1, AccountConstants, BeginFits DEF Kinds
<1>11. ASSUME Adjust(c) PROVE IF Affordable(c) THEN Moved(c, "insert") ELSE Moved(c, "done")
  <2>1. call[c].kind \in {"bonus", "topup", "debit"}
    BY <1>2, <1>11 DEF Adjust, At, StageFits
  <2> QED BY <1>3, <1>11, <2>1, StageMoves DEF Adjust
<1>12. ASSUME InsertEntry(c) PROVE Moved(c, "done")
  BY <1>3, <1>12 DEF InsertEntry
<1>13. ASSUME CreditReward(c) PROVE Moved(c, "mark") \/ Moved(c, "done")
  <2>1. Goto(c, "done") \/ (Goto(c, "mark") /\ call[c].kind = "daily")
    BY <1>13 DEF CreditReward
  <2> QED BY <1>3, <2>1, StageMoves
<1>14. ASSUME MarkClaimed(c) \/ Crash(c) PROVE Moved(c, "done")
  BY <1>3, <1>14 DEF MarkClaimed, Crash
<1> QED BY <1>4, <1>5, <1>6, <1>7, <1>8, <1>9, <1>10, <1>11, <1>12, <1>13, <1>14

-----------------------------------------------------------------------------
(* The ledger explains the balance.                                        *)

Pending == {c \in Calls : At(c, "insert")}
Deltas == [c \in Calls |-> call[c].delta]
Entered == [e \in ledger |-> e.delta]

LEMMA PendingFinite == IsFiniteSet(Pending) /\ IsFiniteSet(Pending')
BY AccountsAssumption, FS_Subset DEF Pending

LEMMA LedgerNumbers ==
  ASSUME MoneyTypeOK
  PROVE  /\ SumFunctionOnSet(Entered, ledger) \in Int /\ SumFunctionOnSet(Deltas, Pending) \in Int
         /\ account.cash \in Int /\ orphaned \in Int
         /\ \A c \in Calls : call[c] \in CallDocs /\ call[c].delta \in Int /\ Deltas[c] = call[c].delta
         /\ \A e \in ledger : e \in EntryDocs /\ e.delta \in Int /\ Entered[e] = e.delta
<1>1. \A c \in Calls : call[c] \in CallDocs /\ call[c].delta \in Int /\ Deltas[c] = call[c].delta
  BY DEF MoneyTypeOK, CallDocs, Deltas
<1>2. \A e \in ledger : e \in EntryDocs /\ e.delta \in Int /\ Entered[e] = e.delta
  BY DEF MoneyTypeOK, EntryDocs, Entered
<1>3. IsFiniteSet(ledger) /\ account.cash \in Int /\ orphaned \in Int
  BY DEF MoneyTypeOK
<1>4. SumFunctionOnSet(Entered, ledger) \in Int
  BY <1>2, <1>3, SumInt
<1>5. \A c \in Pending : Deltas[c] \in Int
  BY <1>1 DEF Pending
<1>6. SumFunctionOnSet(Deltas, Pending) \in Int
  BY <1>5, PendingFinite, SumInt
<1> QED BY <1>1, <1>2, <1>3, <1>4, <1>6

\* One call goes on: the other calls and, if the operation stays the same,
\* the amounts are what they were.
LEMMA OneCallMoves ==
  ASSUME MoneyTypeOK, NEW c \in Calls, NEW x \in CallDocs, OneCall(c, x)
  PROVE  /\ call' \in [Calls -> CallDocs] /\ call'[c] = x
         /\ \A d \in Calls \ {c} : call'[d] = call[d]
         /\ Pending' = IF x.step = "insert" THEN Pending \cup {c} ELSE Pending \ {c}
         /\ x.delta = call[c].delta => \A d \in Calls : Deltas'[d] = Deltas[d]
<1>1. /\ call' \in [Calls -> CallDocs] /\ call'[c] = x
      /\ \A d \in Calls \ {c} : call'[d] = call[d]
  BY DEF MoneyTypeOK, OneCall
<1>2. Pending' = IF x.step = "insert" THEN Pending \cup {c} ELSE Pending \ {c}
  BY <1>1 DEF Pending, At
<1>3. \A d \in Calls : Deltas'[d] = call'[d].delta /\ Deltas[d] = call[d].delta
  BY DEF Deltas
<1> QED BY <1>1, <1>2, <1>3

\* A step that writes neither the balance nor the ledger.
LEMMA QuietStep ==
  ASSUME LedgerInv, NEW c \in Calls, NEW x \in CallDocs, OneCall(c, x),
         call[c].step # "insert", x.step # "insert",
         call[c].step \in {"mark", "done"} => x.step \in {"mark", "done"} /\ x.kind = call[c].kind,
         account' \in [exists : BOOLEAN, cash : Int], account'.cash = account.cash,
         UNCHANGED <<ledger, orphaned>>
  PROVE  LedgerInv'
<1> USE DEF LedgerInv
<1>1. /\ call' \in [Calls -> CallDocs] /\ call'[c] = x
      /\ \A d \in Calls \ {c} : call'[d] = call[d]
  BY OneCallMoves
<1>2. Pending' = Pending /\ \A d \in Pending : d # c
  <2>1. \A d \in Pending : d # c
    BY DEF Pending, At
  <2>2. Pending' = Pending \ {c}
    BY OneCallMoves
  <2>3. Pending \ {c} = Pending
    BY <2>1
  <2> QED BY <2>1, <2>2, <2>3
<1>3. MoneyTypeOK'
  BY <1>1 DEF MoneyTypeOK
<1>4. Authored'
  <2>1. \A e \in ledger : e.by \in Calls
    BY LedgerNumbers DEF EntryDocs
  <2> QED BY <1>1, <2>1 DEF Authored
<1>5. SumFunctionOnSet(Deltas', Pending') = SumFunctionOnSet(Deltas, Pending)
  <2>1. \A d \in Pending : Deltas'[d] = Deltas[d]
    BY <1>1, <1>2 DEF Deltas, Pending
  <2> QED BY <1>2, <2>1, PendingFinite, SumSame
<1>6. Entered' = Entered
  BY DEF Entered
<1>7. LedgerExplains'
  BY <1>5, <1>6 DEF LedgerExplains, Deltas, Entered, Pending
<1> QED BY <1>3, <1>4, <1>7

\* A step that writes the balance or the ledger, or dies between the two.
LEMMA AdjustStep ==
  ASSUME LedgerInv, NEW c \in Calls, At(c, "update"), Affordable(c), Moved(c, "insert"),
         account' = [EnsureAccount EXCEPT !.cash = @ + call[c].delta],
         UNCHANGED <<ledger, orphaned>>
  PROVE  LedgerInv'
<1> USE DEF LedgerInv
<1>1. PICK x \in CallDocs : OneCall(c, x) /\ x.step = "insert" /\ x.kind = call[c].kind
                            /\ x.delta = call[c].delta
  BY DEF Moved
<1>2. /\ call' \in [Calls -> CallDocs] /\ call'[c] = x
      /\ \A d \in Calls \ {c} : call'[d] = call[d]
      /\ Pending' = Pending \cup {c} /\ \A d \in Calls : Deltas'[d] = Deltas[d]
  BY <1>1, OneCallMoves
<1>3. PICK n \in Int : n = call[c].delta
  BY LedgerNumbers
<1>4. /\ account' \in [exists : BOOLEAN, cash : Int] /\ account'.cash = account.cash + n
      /\ account'.cash >= 0
  <2>1. EnsureAccount \in [exists : BOOLEAN, cash : Int] /\ EnsureAccount.cash = account.cash
    BY DEF EnsureAccount, MoneyTypeOK
  <2>2. n < 0 => account.cash >= -n
    BY <1>3, <2>1 DEF Affordable
  <2>3. account.cash >= 0
    BY DEF LedgerExplains
  <2>4. account' \in [exists : BOOLEAN, cash : Int] /\ account'.cash = account.cash + n
    BY <1>3, <2>1
  <2> QED BY <2>1, <2>2, <2>3, <2>4
<1>5. MoneyTypeOK'
  BY <1>2, <1>4 DEF MoneyTypeOK
<1>6. Authored'
  <2>1. \A e \in ledger : e.by \in Calls /\ e.by # c
    BY LedgerNumbers DEF EntryDocs, Authored, At
  <2> QED BY <1>2, <2>1 DEF Authored
<1>7. SumFunctionOnSet(Deltas', Pending') = SumFunctionOnSet(Deltas, Pending) + n
  <2>1. c \notin Pending
    BY DEF Pending, At
  <2>2. \A d \in Pending : Deltas[d] \in Int /\ Deltas'[d] = Deltas[d]
    BY <1>2, LedgerNumbers DEF Pending
  <2>3. Deltas'[c] = n /\ n \in Int
    BY <1>2, <1>3, LedgerNumbers
  <2>4. SumFunctionOnSet(Deltas', Pending \cup {c}) = SumFunctionOnSet(Deltas, Pending) + Deltas'[c]
    <3>1. IsFiniteSet(Pending) /\ Deltas'[c] \in Int
      BY <2>3, PendingFinite
    <3> QED BY ONLY <2>1, <2>2, <3>1, SumAdd, ZenonT(30)
  <2> QED BY <1>2, <2>3, <2>4
<1>8. SumFunctionOnSet(Entered', ledger') = SumFunctionOnSet(Entered, ledger)
  BY DEF Entered
<1>9. LedgerExplains'
  <2>1. account.cash = SumFunctionOnSet(Entered, ledger) + orphaned + SumFunctionOnSet(Deltas, Pending)
    BY DEF LedgerExplains, Entered, Deltas, Pending
  <2>2. account'.cash = SumFunctionOnSet(Entered', ledger') + orphaned' + SumFunctionOnSet(Deltas', Pending')
    BY <1>4, <1>7, <1>8, <2>1, LedgerNumbers
  <2> QED BY <1>4, <2>2 DEF LedgerExplains, Entered, Deltas, Pending
<1> QED BY <1>5, <1>6, <1>9

\* A new entry of a call that has not written one adds its amount.
LEMMA EntryAdded ==
  ASSUME LedgerInv, NEW c \in Calls, call[c].step \in {"insert", "credit"},
         ledger' = ledger \cup {Entry(c)}, Moved(c, "done") \/ Moved(c, "mark")
  PROVE  /\ ledger' \subseteq EntryDocs /\ IsFiniteSet(ledger')
         /\ Entry(c) \notin ledger /\ Authored'
         /\ SumFunctionOnSet(Entered', ledger') = SumFunctionOnSet(Entered, ledger) + call[c].delta
<1> USE DEF LedgerInv
<1>1. PICK x \in CallDocs : OneCall(c, x) /\ x.step \in {"mark", "done"} /\ x.kind = call[c].kind
  BY DEF Moved
<1>2. call'[c] = x /\ \A d \in Calls \ {c} : call'[d] = call[d]
  BY <1>1, OneCallMoves
<1>3. Entry(c) \in EntryDocs /\ Entry(c).by = c /\ Entry(c).kind = call[c].kind
      /\ Entry(c).delta = call[c].delta
  BY LedgerNumbers DEF Entry, EntryDocs, CallDocs, KeyFits
<1>4. \A e \in ledger : e.by \in Calls /\ e.by # c
  BY LedgerNumbers DEF EntryDocs, Authored
<1>5. Entry(c) \notin ledger
  BY <1>3, <1>4
<1>6. ledger' \subseteq EntryDocs /\ IsFiniteSet(ledger')
  BY <1>3, FS_AddElement DEF MoneyTypeOK
<1>7. Authored'
  <2>1. ASSUME NEW e \in ledger' PROVE call'[e.by].step \in {"mark", "done"} /\ call'[e.by].kind = e.kind
    BY <1>1, <1>2, <1>3, <1>4, <2>1 DEF Authored
  <2>2. ASSUME NEW e \in ledger', NEW f \in ledger', e.by = f.by PROVE e = f
    BY <1>3, <1>4, <2>2 DEF Authored
  <2> QED BY <2>1, <2>2 DEF Authored
<1>8. SumFunctionOnSet(Entered', ledger') = SumFunctionOnSet(Entered, ledger) + call[c].delta
  <2>1. \A e \in ledger : Entered[e] \in Int /\ Entered'[e] = Entered[e]
    BY LedgerNumbers DEF Entered
  <2>2. PICK y : y = Entry(c)
    OBVIOUS
  <2>3. Entered'[y] = y.delta /\ y.delta \in Int /\ y.delta = call[c].delta
    BY <1>3, <2>2, LedgerNumbers DEF Entered
  <2>4. IsFiniteSet(ledger) /\ y \notin ledger
    BY <1>5, <2>2 DEF MoneyTypeOK
  <2> HIDE DEF LedgerInv, Entry
  <2>5. SumFunctionOnSet(Entered', ledger \cup {y}) = SumFunctionOnSet(Entered, ledger) + Entered'[y]
    <3>1. Entered'[y] \in Int
      BY <2>3
    <3> QED BY ONLY <2>1, <2>4, <3>1, SumAdd, ZenonT(30)
  <2> QED BY <2>2, <2>3, <2>5
<1> QED BY <1>5, <1>6, <1>7, <1>8

LEMMA InsertStep ==
  ASSUME LedgerInv, NEW c \in Calls, At(c, "insert"), Moved(c, "done"),
         \/ ledger' = ledger \cup {Entry(c)} /\ orphaned' = orphaned
         \/ ledger' = ledger /\ orphaned' = orphaned + call[c].delta,
         account' = account
  PROVE  LedgerInv'
<1> USE DEF LedgerInv
<1>1. PICK x \in CallDocs : OneCall(c, x) /\ x.step = "done" /\ x.kind = call[c].kind
                            /\ x.delta = call[c].delta
  BY DEF Moved
<1>2. /\ call' \in [Calls -> CallDocs] /\ call'[c] = x
      /\ \A d \in Calls \ {c} : call'[d] = call[d]
      /\ Pending' = Pending \ {c} /\ \A d \in Calls : Deltas'[d] = Deltas[d]
  BY <1>1, OneCallMoves
<1>3. PICK n \in Int : n = call[c].delta
  BY LedgerNumbers
<1>4. SumFunctionOnSet(Deltas, Pending) = n + SumFunctionOnSet(Deltas', Pending')
  <2>1. c \in Pending /\ Deltas[c] = n
    BY <1>3, LedgerNumbers DEF Pending
  <2>2. \A d \in Pending : Deltas[d] \in Int
    BY LedgerNumbers DEF Pending
  <2>3. SumFunctionOnSet(Deltas, Pending) = Deltas[c] + SumFunctionOnSet(Deltas, Pending \ {c})
    BY <2>1, <2>2, PendingFinite, SumRemove
  <2>4. SumFunctionOnSet(Deltas, Pending \ {c}) = SumFunctionOnSet(Deltas', Pending \ {c})
    <3>1. \A d \in Pending \ {c} : Deltas[d] = Deltas'[d]
      BY <1>2 DEF Pending
    <3> QED BY <1>2, <3>1, PendingFinite, SumSame
  <2> QED BY <1>2, <2>1, <2>3, <2>4
<1>5. /\ MoneyTypeOK' /\ Authored'
      /\ SumFunctionOnSet(Entered', ledger') + orphaned' = SumFunctionOnSet(Entered, ledger) + orphaned + n
  <2>1. CASE ledger' = ledger \cup {Entry(c)} /\ orphaned' = orphaned
    <3>1. /\ ledger' \subseteq EntryDocs /\ IsFiniteSet(ledger') /\ Authored'
          /\ SumFunctionOnSet(Entered', ledger') = SumFunctionOnSet(Entered, ledger) + n
      BY <1>3, <2>1, EntryAdded DEF At
    <3>2. MoneyTypeOK'
      BY <1>2, <2>1, <3>1 DEF MoneyTypeOK
    <3>3. SumFunctionOnSet(Entered', ledger') + orphaned' = SumFunctionOnSet(Entered, ledger) + orphaned + n
      BY <2>1, <3>1, LedgerNumbers
    <3> QED BY <3>1, <3>2, <3>3
  <2>2. CASE ledger' = ledger /\ orphaned' = orphaned + call[c].delta
    <3>1. MoneyTypeOK'
      BY <1>2, <1>3, <2>2 DEF MoneyTypeOK
    <3>2. \A e \in ledger : e.by \in Calls /\ e.by # c
      BY LedgerNumbers DEF EntryDocs, Authored, At
    <3>3. Authored'
      BY <1>2, <2>2, <3>2 DEF Authored
    <3>4. Entered' = Entered
      BY <2>2 DEF Entered
    <3>5. SumFunctionOnSet(Entered', ledger') + orphaned' = SumFunctionOnSet(Entered, ledger) + orphaned + n
      BY <1>3, <2>2, <3>4, LedgerNumbers
    <3> QED BY <3>1, <3>3, <3>5
  <2> QED BY <2>1, <2>2
<1>6. LedgerExplains'
  <2>1. account.cash = SumFunctionOnSet(Entered, ledger) + orphaned + SumFunctionOnSet(Deltas, Pending)
    BY DEF LedgerExplains, Entered, Deltas, Pending
  <2>2. /\ SumFunctionOnSet(Deltas', Pending') \in Int /\ SumFunctionOnSet(Entered', ledger') \in Int
        /\ orphaned' \in Int
    <3>1. \A d \in Pending' : Deltas'[d] \in Int
      BY <1>2, LedgerNumbers DEF Pending
    <3>2. \A e \in ledger' : Entered'[e] \in Int
      BY <1>5 DEF MoneyTypeOK, EntryDocs, Entered
    <3>3. IsFiniteSet(ledger') /\ orphaned' \in Int
      BY <1>5 DEF MoneyTypeOK
    <3> QED BY <3>1, <3>2, <3>3, PendingFinite, SumInt
  <2>3. account'.cash = SumFunctionOnSet(Entered', ledger') + orphaned' + SumFunctionOnSet(Deltas', Pending')
    BY <1>4, <1>5, <2>1, <2>2, LedgerNumbers
  <2> QED BY <2>3 DEF LedgerExplains, Entered, Deltas, Pending
<1> QED BY <1>5, <1>6

LEMMA CreditStep ==
  ASSUME LedgerInv, NEW c \in Calls, At(c, "credit"), Moved(c, "done") \/ Moved(c, "mark"),
         ledger' = ledger \cup {Entry(c)},
         account' = [EnsureAccount EXCEPT !.cash = @ + call[c].delta], orphaned' = orphaned
  PROVE  LedgerInv'
<1> USE DEF LedgerInv
<1>1. PICK x \in CallDocs : OneCall(c, x) /\ x.step \in {"mark", "done"} /\ x.delta = call[c].delta
  BY DEF Moved
<1>2. /\ call' \in [Calls -> CallDocs] /\ Pending' = Pending \ {c}
      /\ \A d \in Calls : Deltas'[d] = Deltas[d]
  BY <1>1, OneCallMoves
<1>3. PICK n \in Nat : n = call[c].delta
  <2>1. call[c].step = "credit" /\ call[c] \in CallDocs
    BY LedgerNumbers DEF At
  <2> QED BY <2>1 DEF CallDocs, StageFits
<1>4. account' \in [exists : BOOLEAN, cash : Int] /\ account'.cash = account.cash + n
  <2>1. EnsureAccount \in [exists : BOOLEAN, cash : Int] /\ EnsureAccount.cash = account.cash
    BY DEF EnsureAccount, MoneyTypeOK
  <2> QED BY <1>3, <2>1
<1>5. /\ ledger' \subseteq EntryDocs /\ IsFiniteSet(ledger') /\ Authored'
      /\ SumFunctionOnSet(Entered', ledger') = SumFunctionOnSet(Entered, ledger) + n
  BY <1>3, EntryAdded DEF At
<1>6. MoneyTypeOK'
  BY <1>2, <1>4, <1>5 DEF MoneyTypeOK
<1>7. SumFunctionOnSet(Deltas', Pending') = SumFunctionOnSet(Deltas, Pending)
  <2>1. Pending' = Pending
    BY <1>2 DEF Pending, At
  <2>2. \A d \in Pending : Deltas'[d] = Deltas[d]
    BY <1>2 DEF Pending
  <2> QED BY <2>1, <2>2, PendingFinite, SumSame
<1>8. LedgerExplains'
  <2>1. /\ account.cash = SumFunctionOnSet(Entered, ledger) + orphaned + SumFunctionOnSet(Deltas, Pending)
        /\ account.cash >= 0
    BY DEF LedgerExplains, Entered, Deltas, Pending
  <2>2. account'.cash = SumFunctionOnSet(Entered', ledger') + orphaned' + SumFunctionOnSet(Deltas', Pending')
    BY <1>4, <1>5, <1>7, <2>1, LedgerNumbers
  <2>3. account'.cash >= 0
    BY <1>4, <2>1, LedgerNumbers
  <2> QED BY <2>2, <2>3 DEF LedgerExplains, Entered, Deltas, Pending
<1> QED BY <1>5, <1>6, <1>8


\* A call that begins, or ends without having written.
LEMMA QuietCall ==
  ASSUME LedgerInv, NEW c \in Calls,
         \/ Begun(c)
         \/ /\ call[c].step # "insert"
            /\ Moved(c, "done") \/ (call[c].step \notin {"mark", "done"} /\ (Moved(c, "update") \/ Moved(c, "mark"))),
         account' = account \/ account' = EnsureAccount,
         UNCHANGED <<ledger, orphaned>>
  PROVE  LedgerInv'
<1>1. account' \in [exists : BOOLEAN, cash : Int] /\ account'.cash = account.cash
  BY DEF LedgerInv, MoneyTypeOK, EnsureAccount
<1>2. CASE Begun(c)
  <2>1. PICK x \in CallDocs :
          /\ OneCall(c, x)
          /\ call[c].step \in {"new", "create"} /\ x.step \in {"create", "check", "update", "credit", "done"}
    BY <1>2 DEF Begun
  <2> QED BY <1>1, <2>1, QuietStep
<1>3. CASE ~Begun(c)
  <2>1. PICK x \in CallDocs :
          /\ OneCall(c, x) /\ x.kind = call[c].kind
          /\ call[c].step # "insert"
          /\ x.step = "done" \/ (call[c].step \notin {"mark", "done"} /\ x.step \in {"update", "mark"})
    BY <1>3 DEF Moved
  <2> QED BY <1>1, <2>1, QuietStep
<1> QED BY <1>2, <1>3

\* Each action keeps the invariant.
LEMMA LedgerKept ==
  ASSUME LedgerInv, today \in 1 .. Days, [AccountsNext]_accountVars
  PROVE  LedgerInv'
<1>1. MoneyTypeOK
  BY DEF LedgerInv
<1>2. ASSUME NEW c \in Calls, LookUp(c) \/ Create(c) \/ CheckBonus(c) PROVE LedgerInv'
  <2>1. CASE CheckBonus(c)
    <3>1. call[c].step = "check" /\ UNCHANGED <<account, ledger, orphaned>>
      BY <2>1 DEF CheckBonus, At
    <3> QED BY <1>1, <2>1, <3>1, CallActions, QuietCall
  <2>2. CASE LookUp(c) \/ Create(c)
    <3>1. call[c].step \in {"new", "create"} /\ UNCHANGED <<account, ledger, orphaned>>
      BY <2>2 DEF LookUp, Create, At
    <3> QED BY <1>1, <2>2, <3>1, CallActions, QuietCall
  <2> QED BY <1>2, <2>1, <2>2
<1>3. ASSUME NEW c \in Calls, NEW a \in Amounts, TopUp(c, a) \/ AdminDebit(c, a) PROVE LedgerInv'
  <2>1. (account' = account \/ account' = EnsureAccount) /\ UNCHANGED <<ledger, orphaned>>
    BY <1>3 DEF TopUp, AdminDebit
  <2> QED BY <1>1, <1>3, <2>1, CallActions, QuietCall
<1>4. ASSUME NEW c \in Calls, NEW r \in Rewards, ClaimDaily(c, r) \/ ClaimAcademy(c, r) PROVE LedgerInv'
  <2>1. UNCHANGED <<account, ledger, orphaned>>
    BY <1>4 DEF ClaimDaily, ClaimAcademy
  <2> QED BY <1>1, <1>4, <2>1, CallActions, QuietCall
<1>5. ASSUME NEW c \in Calls, Adjust(c) PROVE LedgerInv'
  <2>1. At(c, "update") /\ UNCHANGED <<ledger, orphaned>>
    BY <1>5 DEF Adjust
  <2>2. CASE Affordable(c)
    <3>1. account' = [EnsureAccount EXCEPT !.cash = @ + call[c].delta]
      BY <1>5, <2>2 DEF Adjust
    <3> QED BY <1>1, <1>5, <2>1, <2>2, <3>1, CallActions, AdjustStep
  <2>3. CASE ~Affordable(c)
    <3>1. account' = EnsureAccount /\ call[c].step = "update"
      BY <1>5, <2>1, <2>3 DEF Adjust, At
    <3> QED BY <1>1, <1>5, <2>1, <2>3, <3>1, CallActions, QuietCall
  <2> QED BY <2>2, <2>3
<1>6. ASSUME NEW c \in Calls, InsertEntry(c) PROVE LedgerInv'
  <2>1. /\ At(c, "insert") /\ account' = account
        /\ ledger' = ledger \cup {Entry(c)} /\ orphaned' = orphaned
    BY <1>6 DEF InsertEntry
  <2> QED BY <1>1, <1>6, <2>1, CallActions, InsertStep
<1>7. ASSUME NEW c \in Calls, CreditReward(c) PROVE LedgerInv'
  <2>1. At(c, "credit") /\ orphaned' = orphaned /\ (Moved(c, "done") \/ Moved(c, "mark"))
    BY <1>1, <1>7, CallActions DEF CreditReward
  <2>2. CASE PriorOperation(c) = {}
    <3>1. ledger' = ledger \cup {Entry(c)} /\ account' = [EnsureAccount EXCEPT !.cash = @ + call[c].delta]
      BY <1>7, <2>2 DEF CreditReward
    <3> QED BY <2>1, <3>1, CreditStep
  <2>3. CASE PriorOperation(c) # {}
    <3>1. UNCHANGED <<ledger, account>> /\ call[c].step = "credit"
      BY <1>7, <2>3 DEF CreditReward, At
    <3> QED BY <2>1, <3>1, QuietCall
  <2> QED BY <2>2, <2>3
<1>8. ASSUME NEW c \in Calls, MarkClaimed(c) PROVE LedgerInv'
  <2>1. call[c].step = "mark" /\ UNCHANGED <<account, ledger, orphaned>>
    BY <1>8 DEF MarkClaimed, At
  <2> QED BY <1>1, <1>8, <2>1, CallActions, QuietCall
<1>9. ASSUME NEW c \in Calls, Crash(c) PROVE LedgerInv'
  <2>1. Moved(c, "done") /\ UNCHANGED <<account, ledger>>
    BY <1>1, <1>9, CallActions DEF Crash
  <2>2. CASE At(c, "insert")
    <3>1. orphaned' = orphaned + call[c].delta
      BY <1>9, <2>2 DEF Crash
    <3> QED BY <2>1, <2>2, <3>1, InsertStep
  <2>3. CASE ~At(c, "insert")
    <3>1. orphaned' = orphaned /\ call[c].step # "insert"
      BY <1>1, <1>9, <2>3 DEF Crash, At, MoneyTypeOK
    <3> QED BY <2>1, <2>3, <3>1, QuietCall
  <2> QED BY <2>2, <2>3
<1>10. ASSUME UNCHANGED <<account, call, ledger, orphaned>> PROVE LedgerInv'
  BY <1>10 DEF LedgerInv, MoneyTypeOK, Authored, LedgerExplains, At
<1>11. ASSUME NEW f \in Fills, StartFill(f) \/ Increment(f) \/ SeekRow(f) \/ InsertRow(f) \/ EndFill(f)
       PROVE  LedgerInv'
  BY <1>10, <1>11 DEF StartFill, Increment, SeekRow, InsertRow, EndFill
<1>12. CASE Midnight
  BY <1>10, <1>12 DEF Midnight
<1>13. CASE UNCHANGED accountVars
  BY <1>10, <1>13 DEF accountVars
<1> QED BY <1>2, <1>3, <1>4, <1>5, <1>6, <1>7, <1>8, <1>9, <1>11, <1>12, <1>13 DEF AccountsNext

-----------------------------------------------------------------------------
(* Nothing is paid twice, nor without the closes it asks for.              *)

\* A reward's key is in the ledger once.
KeysOnce == \A e, f \in ledger : e.key = f.key /\ e.key # NoKey => e = f

\* The call that created the user, until and after it has paid the bonus.
Granted(c) ==
  /\ call[c].kind = "bonus"
  /\ call[c].step \in {"check", "update", "insert"} \/ \E e \in ledger : e.by = c
GrantedOnce ==
  /\ \A c, d \in Calls : Granted(c) /\ Granted(d) => c = d
  /\ \A c \in Calls : Granted(c) => user

Paid(d) == \E e \in ledger : e.kind = "daily" /\ e.key = d
RowsTell ==
  /\ \A d \in 1 .. Days : row[d].progress <= Cardinality(row[d].fills)
  /\ \A c \in Calls : At(c, "credit") /\ call[c].kind = "daily" => row[call[c].key].progress >= Target
  /\ \A c \in Calls : At(c, "mark") => Paid(call[c].key)
  /\ \A e \in ledger : e.kind = "daily" => Cardinality(row[e.key].fills) >= Target
  /\ \A d \in 1 .. Days : row[d].claimed => Paid(d)

PaidInv == RowsTypeOK /\ KeysOnce /\ GrantedOnce /\ RowsTell

LEMMA AtMostOne ==
  ASSUME NEW S, IsFiniteSet(S), \A x, y \in S : x = y
  PROVE  Cardinality(S) <= 1
<1>1. CASE S = {}
  BY <1>1, FS_EmptySet
<1>2. CASE S # {}
  <2>1. PICK x \in S : S = {x}
    BY <1>2
  <2> QED BY <2>1, FS_Singleton
<1> QED BY <1>1, <1>2

\* The invariant says what PaidOnce asks.
LEMMA PaidInvPays ==
  ASSUME MoneyTypeOK, Authored, PaidInv
  PROVE  PaidOnce
<1> DEFINE Of(k) == {e \in ledger : e.kind = k}
           OfDay(d) == {e \in ledger : e.kind = "daily" /\ e.key = d}
<1>1. /\ \A k : IsFiniteSet(Of(k))
      /\ \A d : IsFiniteSet(OfDay(d))
  BY FS_Subset DEF MoneyTypeOK
<1>2. \A e \in ledger : e.by \in Calls /\ KeyFits(e)
  BY DEF MoneyTypeOK, EntryDocs
<1>3. \A e, f \in Of("bonus") : e = f
  <2>1. \A e \in Of("bonus") : e \in ledger /\ Granted(e.by) /\ e.by \in Calls
    BY <1>2 DEF Authored, Granted
  <2> QED BY <2>1 DEF PaidInv, GrantedOnce, Authored
<1>4. \A e, f \in Of("academy") : e = f
  BY <1>2, AccountConstants DEF PaidInv, KeysOnce, KeyFits
<1>5. \A d \in 1 .. Days : \A e, f \in OfDay(d) : e = f
  BY AccountConstants DEF PaidInv, KeysOnce
<1>6. \A d \in 1 .. Days :
        /\ OfDay(d) # {} => Cardinality(row[d].fills) >= Target
        /\ row[d].claimed => OfDay(d) # {}
  BY DEF PaidInv, RowsTell, Paid
<1>7. /\ Cardinality(Of("bonus")) <= 1 /\ Cardinality(Of("academy")) <= 1
      /\ \A d \in 1 .. Days : Cardinality(OfDay(d)) <= 1
  <2> HIDE DEF Of, OfDay
  <2> QED BY <1>1, <1>3, <1>4, <1>5, AtMostOne
<1> QED BY <1>6, <1>7 DEF PaidOnce

-----------------------------------------------------------------------------
(* The documents of the daily challenge.                                   *)

\* What a document keeps while closes are counted.
Grows(r, s) ==
  /\ r.progress >= Target => s.progress >= Target
  /\ r.progress <= Cardinality(r.fills) => s.progress <= Cardinality(s.fills)
  /\ Cardinality(r.fills) <= Cardinality(s.fills)

LEMMA MinOfTwo ==
  ASSUME NEW a \in Int, NEW b \in Int
  PROVE  Min({a, b}) = IF a <= b THEN a ELSE b
BY DEF Min

LEMMA FillsFinite ==
  ASSUME NEW r \in RowDocs
  PROVE  IsFiniteSet(r.fills) /\ Cardinality(r.fills) \in Nat /\ r.progress \in Nat
<1>1. r.fills \in SUBSET Fills /\ r.progress \in Nat
  BY DEF RowDocs
<1> QED BY <1>1, AccountsAssumption, FS_Subset, FS_CardinalityType

LEMMA RowCounts ==
  ASSUME NEW r \in RowDocs, NEW f \in Fills, f \notin r.fills,
         NEW s, s = WithClose(r, f)
  PROVE  s \in RowDocs /\ Grows(r, s) /\ s.claimed = r.claimed
<1>1. r.progress \in Nat /\ Target \in Nat /\ Target > 0 /\ r.fills \subseteq Fills
  BY AccountConstants DEF RowDocs
<1>2. Min({r.progress + 1, Target}) = IF r.progress + 1 <= Target THEN r.progress + 1 ELSE Target
  BY <1>1, MinOfTwo
<1> HIDE DEF Min
<1>3. /\ s.progress = Min({r.progress + 1, Target}) /\ s.fills = r.fills \cup {f}
      /\ s.claimed = r.claimed /\ r.claimed \in BOOLEAN
      /\ s = [exists |-> TRUE, progress |-> s.progress, fills |-> s.fills, claimed |-> r.claimed]
  BY DEF RowDocs, WithClose
<1>4. Cardinality(s.fills) = Cardinality(r.fills) + 1 /\ Cardinality(r.fills) \in Nat
  BY <1>3, FillsFinite, FS_AddElement
<1>5. s \in RowDocs
  <2>1. s.progress \in Nat
    BY <1>1, <1>2, <1>3
  <2>2. PICK p \in Nat, F \in SUBSET Fills, b \in BOOLEAN :
          s = [exists |-> TRUE, progress |-> p, fills |-> F, claimed |-> b]
    BY <1>1, <1>3, <2>1
  <2> QED BY <2>2 DEF RowDocs
<1>6. Grows(r, s)
  BY <1>1, <1>2, <1>3, <1>4 DEF Grows
<1> QED BY <1>3, <1>5, <1>6

LEMMA CountedGrows ==
  ASSUME RowsTypeOK, NEW f \in Fills, fill[f].day \in 1 .. Days, Counted(f)
  PROVE  /\ row' \in [1 .. Days -> RowDocs]
         /\ \A d \in 1 .. Days : Grows(row[d], row'[d]) /\ row'[d].claimed = row[d].claimed
<1>1. \A d \in 1 .. Days : row[d] \in RowDocs /\ Grows(row[d], row[d])
  BY FillsFinite DEF RowsTypeOK, Grows
<1>2. PICK r \in RowDocs : r = row[fill[f].day]
  BY <1>1
<1>4. row' = [row EXCEPT ![fill[f].day] = WithClose(r, f)]
  BY <1>2 DEF Counted
<1>5. WithClose(r, f) \in RowDocs /\ Grows(r, WithClose(r, f)) /\ WithClose(r, f).claimed = r.claimed
  <2>1. CASE f \in r.fills
    BY <1>1, <1>2, <2>1 DEF WithClose
  <2>2. CASE f \notin r.fills
    BY <2>2, RowCounts
  <2> QED BY <2>1, <2>2
<1>6. PICK t \in RowDocs : row' = [row EXCEPT ![fill[f].day] = t] /\ Grows(r, t) /\ t.claimed = r.claimed
  BY <1>4, <1>5
<1>7. PICK d \in 1 .. Days : d = fill[f].day
  OBVIOUS
<1> QED BY <1>1, <1>2, <1>6, <1>7 DEF RowsTypeOK

\* The documents stay sound, and only MarkClaimed marks one.
LEMMA RowsKept ==
  ASSUME MoneyTypeOK, RowsTypeOK, [AccountsNext]_accountVars
  PROVE  /\ RowsTypeOK'
         /\ \A d \in 1 .. Days :
              /\ Grows(row[d], row'[d])
              /\ \/ row'[d].claimed = row[d].claimed
                 \/ \E c \in Calls : MarkClaimed(c) /\ call[c].key = d
<1>1. /\ user \in BOOLEAN /\ today \in 1 .. Days /\ row \in [1 .. Days -> RowDocs] /\ fill \in [Fills -> FillDocs]
      /\ \A d \in 1 .. Days : row[d] \in RowDocs /\ Grows(row[d], row[d])
      /\ \A f \in Fills : fill[f].day \in 0 .. Days /\ (fill[f].step # "new" => fill[f].day \in 1 .. Days)
  <2>1. user \in BOOLEAN /\ today \in 1 .. Days /\ row \in [1 .. Days -> RowDocs] /\ fill \in [Fills -> FillDocs]
    BY DEF RowsTypeOK
  <2>2. \A r \in RowDocs : Grows(r, r)
    BY FillsFinite DEF Grows
  <2>3. \A x \in FillDocs : x.day \in 0 .. Days /\ (x.step # "new" => x.day \in 1 .. Days)
    BY AccountConstants DEF FillDocs
  <2> QED BY <2>1, <2>2, <2>3
<1>2. ASSUME NEW c \in Calls,
             \/ LookUp(c) \/ Create(c) \/ CheckBonus(c) \/ Adjust(c) \/ InsertEntry(c) \/ CreditReward(c) \/ Crash(c)
             \/ \E a \in Amounts : TopUp(c, a) \/ AdminDebit(c, a)
             \/ \E r \in Rewards : ClaimDaily(c, r) \/ ClaimAcademy(c, r)
      PROVE  UNCHANGED <<row, fill, today>> /\ user' \in BOOLEAN
  BY <1>1, <1>2 DEF LookUp, Create, CheckBonus, Adjust, InsertEntry, CreditReward, Crash, TopUp, AdminDebit,
                    ClaimDaily, ClaimAcademy
<1>3. ASSUME NEW c \in Calls, MarkClaimed(c)
      PROVE  /\ call[c].key \in 1 .. Days /\ row' = [row EXCEPT ![call[c].key].claimed = TRUE]
             /\ UNCHANGED <<user, fill, today>>
             /\ row' \in [1 .. Days -> RowDocs]
             /\ \A d \in 1 .. Days :
                  /\ Grows(row[d], row'[d])
                  /\ row'[d].claimed = row[d].claimed \/ call[c].key = d
  <2>1. call[c] \in CallDocs /\ call[c].step = "mark"
    BY <1>3 DEF MoneyTypeOK, MarkClaimed, At
  <2>2. call[c].key \in 1 .. Days
    BY <2>1 DEF CallDocs, StageFits, KeyFits
  <2>3. PICK k \in 1 .. Days : k = call[c].key
    BY <2>2
  <2>4. PICK r \in RowDocs : r = row[k]
    BY <1>1
  <2>5. [r EXCEPT !.claimed = TRUE] \in RowDocs /\ Grows(r, [r EXCEPT !.claimed = TRUE])
    <3>1. [r EXCEPT !.claimed = TRUE] \in RowDocs
      BY DEF RowDocs
    <3>2. [r EXCEPT !.claimed = TRUE].progress = r.progress /\ [r EXCEPT !.claimed = TRUE].fills = r.fills
      BY DEF RowDocs
    <3>3. Grows(r, r)
      BY <1>1, <2>4
    <3> QED BY <3>1, <3>2, <3>3 DEF Grows
  <2>6. row' = [row EXCEPT ![k] = [r EXCEPT !.claimed = TRUE]]
    BY <1>3, <2>3, <2>4 DEF MarkClaimed
  <2>7. PICK s \in RowDocs : row' = [row EXCEPT ![k] = s] /\ Grows(r, s)
    BY <2>5, <2>6
  <2>8. UNCHANGED <<user, fill, today>> /\ row' = [row EXCEPT ![call[c].key].claimed = TRUE]
    BY <1>3 DEF MarkClaimed
  <2>9. row' \in [1 .. Days -> RowDocs] /\ row'[k] = s /\ \A d \in (1 .. Days) \ {k} : row'[d] = row[d]
    BY <1>1, <2>7
  <2> QED BY <1>1, <2>2, <2>3, <2>4, <2>7, <2>8, <2>9
<1>4. ASSUME NEW f \in Fills, Increment(f) \/ InsertRow(f)
      PROVE  /\ row' \in [1 .. Days -> RowDocs] /\ UNCHANGED <<user, today>>
             /\ \A d \in 1 .. Days : Grows(row[d], row'[d]) /\ row'[d].claimed = row[d].claimed
  <2>1. fill[f].day \in 1 .. Days
    BY <1>1, <1>4 DEF Increment, InsertRow
  <2>2. (Counted(f) \/ UNCHANGED row) /\ UNCHANGED <<user, today>>
    BY <1>4 DEF Increment, InsertRow
  <2>3. CASE Counted(f)
    BY <2>1, <2>2, <2>3, CountedGrows
  <2>4. CASE UNCHANGED row
    BY <1>1, <2>2, <2>4
  <2> QED BY <2>2, <2>3, <2>4
<1>5. ASSUME NEW f \in Fills, StartFill(f) \/ Increment(f) \/ SeekRow(f) \/ InsertRow(f) \/ EndFill(f)
      PROVE  fill' \in [Fills -> FillDocs]
  <2>1. PICK x \in FillDocs : x = fill[f]
    BY <1>1
  <2>2. ASSUME NEW stage \in {"open", "seeking", "done", "aborted"}, x.step # "new"
        PROVE  [x EXCEPT !.step = stage] \in FillDocs
    <3>1. [x EXCEPT !.step = stage] = [step |-> stage, day |-> x.day] /\ x.day \in 1 .. Days
      BY <2>2 DEF FillDocs
    <3> QED BY <3>1 DEF FillDocs
  <2>3. ASSUME NEW stage \in {"open", "seeking", "done", "aborted"}, x.step # "new",
               fill' = [fill EXCEPT ![f].step = stage]
        PROVE  fill' \in [Fills -> FillDocs]
    <3>1. fill' = [fill EXCEPT ![f] = [x EXCEPT !.step = stage]]
      BY <2>1, <2>3
    <3>2. PICK y \in FillDocs : fill' = [fill EXCEPT ![f] = y]
      BY <2>2, <2>3, <3>1
    <3> QED BY <1>1, <3>2
  <2>4. CASE StartFill(f)
    <3>1. [step |-> "open", day |-> today] \in FillDocs
      BY <1>1 DEF FillDocs
    <3> QED BY <1>1, <2>4, <3>1 DEF StartFill
  <2>5. CASE Increment(f)
    BY <1>1, <2>5 DEF Increment
  <2>6. CASE SeekRow(f) \/ InsertRow(f) \/ EndFill(f)
    <3>1. x.step # "new" /\ \E stage \in {"open", "seeking", "done", "aborted"} : fill' = [fill EXCEPT ![f].step = stage]
      BY <2>1, <2>6 DEF SeekRow, InsertRow, EndFill
    <3> QED BY <2>3, <3>1
  <2> QED BY <1>5, <2>4, <2>5, <2>6
<1>6. ASSUME NEW f \in Fills, StartFill(f) \/ SeekRow(f) \/ EndFill(f) PROVE UNCHANGED <<user, row, today>>
  BY <1>6 DEF StartFill, SeekRow, EndFill
<1>7. ASSUME Midnight PROVE UNCHANGED <<user, row, fill>> /\ today' \in 1 .. Days
  BY <1>1, <1>7, AccountConstants DEF Midnight
<1>8. CASE \E c \in Calls : MarkClaimed(c)
  BY <1>1, <1>3, <1>8 DEF RowsTypeOK
<1>9. CASE \E f \in Fills : Increment(f) \/ InsertRow(f)
  BY <1>4, <1>5, <1>9 DEF RowsTypeOK
<1>10. CASE UNCHANGED row /\ user' \in BOOLEAN /\ fill' \in [Fills -> FillDocs] /\ today' \in 1 .. Days
  BY <1>1, <1>10 DEF RowsTypeOK
<1>11. CASE UNCHANGED accountVars
  BY <1>1, <1>10, <1>11 DEF accountVars
<1> QED
  <2>1. CASE AccountsNext
    BY <1>1, <1>2, <1>5, <1>6, <1>7, <1>8, <1>9, <1>10, <2>1 DEF AccountsNext
  <2> QED BY <1>11, <2>1

LEMMA RowsTellKept ==
  ASSUME RowsTypeOK, RowsTypeOK', MoneyTypeOK, MoneyTypeOK', RowsTell, ledger \subseteq ledger',
         \A d \in 1 .. Days :
           Grows(row[d], row'[d]) /\ (row'[d].claimed = row[d].claimed \/ Paid(d)),
         \A c \in Calls : call'[c].step = "credit" /\ call'[c].kind = "daily" =>
           call'[c] = call[c] \/ row[call'[c].key].progress >= Target,
         \A c \in Calls : call'[c].step = "mark" => call'[c] = call[c] \/ Paid(call[c].key)',
         \A e \in ledger' : e \in ledger \/ (e.kind = "daily" => row[e.key].progress >= Target)
  PROVE  RowsTell'
<1>1. /\ \A c \in Calls : call'[c] \in CallDocs /\ call[c] \in CallDocs
      /\ \A e \in ledger' : e \in EntryDocs
  BY DEF MoneyTypeOK
<1>2. \A d \in 1 .. Days : /\ row[d].progress \in Nat /\ Cardinality(row[d].fills) \in Nat
                          /\ row'[d].progress \in Nat /\ Cardinality(row'[d].fills) \in Nat
  BY FillsFinite DEF RowsTypeOK
<1>3. Target \in Nat
  BY AccountConstants
<1>4. \A d : Paid(d) => Paid(d)'
  BY DEF Paid
<1>5. \A d \in 1 .. Days : row'[d].progress <= Cardinality(row'[d].fills)
  BY <1>2 DEF RowsTell, Grows
<1>6. ASSUME NEW c \in Calls, call'[c].step = "credit", call'[c].kind = "daily"
      PROVE  row'[call'[c].key].progress >= Target
  <2>1. call'[c].key \in 1 .. Days
    BY <1>1, <1>6 DEF CallDocs, KeyFits
  <2>2. row[call'[c].key].progress >= Target
    BY <1>6 DEF RowsTell, At
  <2> QED BY <2>1, <2>2 DEF Grows
<1>7. ASSUME NEW c \in Calls, call'[c].step = "mark" PROVE Paid(call[c].key)'
  <2>1. CASE call'[c] = call[c]
    <3>1. Paid(call[c].key)
      BY <1>7, <2>1 DEF RowsTell, At
    <3> QED BY <2>1, <3>1 DEF Paid
  <2> QED BY <1>7, <2>1
<1>8. ASSUME NEW e \in ledger', e.kind = "daily" PROVE Cardinality(row'[e.key].fills) >= Target
  <2>1. e.key \in 1 .. Days
    BY <1>1, <1>8 DEF EntryDocs, KeyFits
  <2>2. Cardinality(row[e.key].fills) >= Target
    BY <1>2, <1>3, <1>8, <2>1 DEF RowsTell
  <2> QED BY <1>2, <1>3, <2>1, <2>2 DEF Grows
<1>9. ASSUME NEW d \in 1 .. Days, row'[d].claimed PROVE Paid(d)'
  <2>1. Paid(d)
    BY <1>9 DEF RowsTell
  <2> QED BY <1>4, <2>1
<1> QED BY <1>5, <1>6, <1>7, <1>8, <1>9 DEF RowsTell, At

\* What a step of one call may do to what was granted and paid.
LEMMA PaidCall ==
  ASSUME LedgerInv, LedgerInv', PaidInv, RowsTypeOK', NEW c \in Calls, NEW x \in CallDocs, OneCall(c, x),
         call[c].step \notin {"new", "create"} => x.kind = call[c].kind /\ x.key = call[c].key,
         \/ ledger' = ledger
         \/ /\ ledger' = ledger \cup {Entry(c)}
            /\ At(c, "insert") \/ (At(c, "credit") /\ PriorOperation(c) = {}),
         \A d \in 1 .. Days :
           Grows(row[d], row'[d]) /\ (row'[d].claimed = row[d].claimed \/ Paid(d)),
         x.step = "credit" /\ x.kind = "daily" => row[x.key].progress >= Target,
         x.step = "mark" => Paid(x.key)',
         user => user',
         x.kind = "bonus" /\ x.step \in {"check", "update", "insert"} => Granted(c) \/ (~user /\ user')
  PROVE  PaidInv'
<1>1. /\ call'[c] = x /\ \A d \in Calls \ {c} : call'[d] = call[d]
      /\ MoneyTypeOK /\ MoneyTypeOK' /\ Authored
  BY OneCallMoves DEF LedgerInv
<1>2. call[c] \in CallDocs /\ KeyFits(call[c]) /\ StageFits(call[c])
  BY <1>1 DEF MoneyTypeOK, CallDocs
<1>3. /\ Entry(c).by = c /\ Entry(c).kind = call[c].kind /\ Entry(c).key = call[c].key
  BY DEF Entry
<1>4. ledger \subseteq ledger' /\ \A e \in ledger' : e \in ledger \/ e = Entry(c)
  OBVIOUS
<1>5. ASSUME ledger' # ledger
      PROVE  /\ Entry(c).key # NoKey => \A e \in ledger : e.key # Entry(c).key
             /\ Entry(c).kind = "daily" => row[Entry(c).key].progress >= Target
             /\ call[c].kind = "bonus" => Granted(c)
             /\ call[c].step \notin {"new", "create"}
  <2>1. CASE At(c, "insert")
    <3>1. call[c].kind \in {"bonus", "topup", "debit"} /\ call[c].step = "insert"
      BY <1>2, <2>1 DEF StageFits, At
    <3>2. call[c].key = NoKey
      BY <1>2, <3>1, AccountConstants DEF CallDocs, KeyFits, Keys
    <3> QED BY <1>3, <3>1, <3>2 DEF Granted
  <2>2. CASE At(c, "credit") /\ PriorOperation(c) = {}
    <3>1. call[c].kind \in {"daily", "academy"} /\ call[c].step = "credit"
      BY <1>2, <2>2 DEF StageFits, At
    <3>2. \A e \in ledger : e.key # call[c].key
      BY <2>2 DEF PriorOperation
    <3>3. call[c].kind = "daily" => row[call[c].key].progress >= Target
      BY <2>2 DEF PaidInv, RowsTell
    <3> QED BY <1>3, <3>1, <3>2, <3>3
  <2> QED BY <1>5, <2>1, <2>2
<1>6. KeysOnce'
  <2>1. ASSUME NEW e \in ledger', NEW f \in ledger', e.key = f.key, e.key # NoKey PROVE e = f
    BY <1>4, <1>5, <2>1 DEF PaidInv, KeysOnce
  <2> QED BY <2>1 DEF KeysOnce
<1>7. GrantedOnce'
  <2>1. ASSUME NEW d \in Calls, Granted(d)' PROVE Granted(d) \/ (d = c /\ ~user /\ user')
    <3>1. CASE d # c
      <4>1. call'[d] = call[d]
        BY <1>1, <3>1
      <4>2. \A e \in ledger' : e.by = d => e \in ledger
        BY <1>3, <1>4, <3>1
      <4> QED BY <2>1, <4>1, <4>2 DEF Granted
    <3>2. CASE d = c
      <4>1. x.kind = "bonus"
        BY <1>1, <2>1, <3>2 DEF Granted
      <4>2. CASE x.step \in {"check", "update", "insert"}
        BY <3>2, <4>1, <4>2
      <4>3. ASSUME NEW e \in ledger', e.by = c PROVE Granted(c)
        <5>1. CASE e \in ledger
          <6>1. call[c].step \in {"mark", "done"}
            BY <1>1, <4>3, <5>1 DEF Authored
          <6>2. call[c].kind = "bonus"
            BY <4>1, <6>1
          <6> QED BY <4>3, <5>1, <6>2 DEF Granted
        <5>2. CASE e \notin ledger
          <6>1. ledger' # ledger
            BY <4>3, <5>2
          <6> QED BY <1>5, <4>1, <6>1
        <5> QED BY <5>1, <5>2
      <4> QED BY <1>1, <2>1, <3>2, <4>2, <4>3 DEF Granted
    <3> QED BY <3>1, <3>2
  <2>2. \A d \in Calls : Granted(d) => user
    BY DEF PaidInv, GrantedOnce
  <2>3. ASSUME NEW d \in Calls, NEW e \in Calls, Granted(d)', Granted(e)' PROVE d = e
    <3>1. Granted(d) \/ (d = c /\ ~user)
      BY <2>1, <2>3
    <3>2. Granted(e) \/ (e = c /\ ~user)
      BY <2>1, <2>3
    <3> QED BY <2>2, <3>1, <3>2 DEF PaidInv, GrantedOnce
  <2>4. ASSUME NEW d \in Calls, Granted(d)' PROVE user'
    BY <2>1, <2>2, <2>4
  <2> QED BY <2>3, <2>4 DEF GrantedOnce
<1>8. RowsTell'
  <2>1. \A d \in Calls : call'[d].step = "credit" /\ call'[d].kind = "daily" =>
          call'[d] = call[d] \/ row[call'[d].key].progress >= Target
    BY <1>1
  <2>2. \A d \in Calls : call'[d].step = "mark" => call'[d] = call[d] \/ Paid(call[d].key)'
    BY <1>1 DEF Paid
  <2>3. \A e \in ledger' : e \in ledger \/ (e.kind = "daily" => row[e.key].progress >= Target)
    BY <1>4, <1>5
  <2> QED BY <1>1, <1>4, <2>1, <2>2, <2>3, RowsTellKept DEF PaidInv
<1> QED BY <1>6, <1>7, <1>8 DEF PaidInv

RowsGrow ==
  \A d \in 1 .. Days : Grows(row[d], row'[d]) /\ (row'[d].claimed = row[d].claimed \/ Paid(d))

\* A call that goes on with its operation.
LEMMA PaidMove ==
  ASSUME LedgerInv, LedgerInv', PaidInv, RowsTypeOK', RowsGrow, user' = user,
         NEW c \in Calls, NEW stage \in {"done", "update", "insert", "mark"}, Moved(c, stage),
         stage = "mark" => \E e \in ledger' : e.kind = "daily" /\ e.key = call[c].key,
         stage \in {"update", "insert"} => call[c].step \in {"check", "update"},
         \/ ledger' = ledger
         \/ /\ ledger' = ledger \cup {Entry(c)}
            /\ At(c, "insert") \/ (At(c, "credit") /\ PriorOperation(c) = {})
  PROVE  PaidInv'
<1>1. PICK x \in CallDocs :
        OneCall(c, x) /\ x.step = stage /\ x.kind = call[c].kind /\ x.key = call[c].key
  BY DEF Moved
<1>2. x.step = "mark" => Paid(x.key)'
  BY <1>1 DEF Paid
<1>3. x.kind = "bonus" /\ x.step \in {"check", "update", "insert"} => Granted(c) \/ (~user /\ user')
  BY <1>1 DEF Granted
<1> QED BY <1>1, <1>2, <1>3, PaidCall DEF RowsGrow

\* A call that begins.
LEMMA PaidBegin ==
  ASSUME LedgerInv, LedgerInv', PaidInv, RowsTypeOK', RowsGrow, user => user', ledger' = ledger,
         NEW c \in Calls, Begun(c), NEW stage, NEW kind, NEW delta, NEW key, Begin(c, stage, kind, delta, key),
         stage = "credit" /\ kind = "daily" => row[key].progress >= Target,
         stage # "mark",
         kind = "bonus" /\ stage \in {"check", "update", "insert"} => ~user /\ user'
  PROVE  PaidInv'
<1>1. PICK x \in CallDocs : OneCall(c, x) /\ call[c].step \in {"new", "create"}
  BY DEF Begun
<1>2. x = [step |-> stage, kind |-> kind, delta |-> delta, key |-> key]
  <2>1. call'[c] = x
    BY <1>1 DEF OneCall, LedgerInv, MoneyTypeOK
  <2>2. call'[c] = [step |-> stage, kind |-> kind, delta |-> delta, key |-> key]
    BY DEF Begin, LedgerInv, MoneyTypeOK
  <2> QED BY <2>1, <2>2
<1>3. x.step = stage /\ x.kind = kind /\ x.key = key
  BY <1>2
<1> QED BY <1>1, <1>3, PaidCall DEF RowsGrow

LEMMA PaidKept ==
  ASSUME LedgerInv, LedgerInv', PaidInv, [AccountsNext]_accountVars
  PROVE  PaidInv'
<1>1. MoneyTypeOK /\ MoneyTypeOK' /\ RowsTypeOK /\ today \in 1 .. Days
  BY DEF LedgerInv, PaidInv, RowsTypeOK
<1>2. RowsTypeOK' /\ RowsGrow
  <2>1. \A c \in Calls : MarkClaimed(c) => Paid(call[c].key)
    BY DEF MarkClaimed, PaidInv, RowsTell
  <2> QED BY <1>1, <2>1, RowsKept DEF RowsGrow
<1>3. ASSUME NEW c \in Calls, LookUp(c) PROVE PaidInv'
  <2>1. Begun(c) /\ Begin(c, "create", "bonus", Bonus, NoKey) /\ UNCHANGED <<user, ledger>>
    BY <1>1, <1>3, CallActions DEF LookUp
  <2> QED BY <1>2, <2>1, PaidBegin
<1>4. ASSUME NEW c \in Calls, Create(c) PROVE PaidInv'
  <2>1. user' = TRUE /\ ledger' = ledger
    BY <1>4 DEF Create
  <2>2. CASE Unique
    <3>1. Begin(c, "check", "bonus", Bonus, NoKey) /\ ~user /\ call[c].step \in {"new", "create"}
      BY <1>4, <2>2 DEF Create, Unique, At
    <3>2. Begun(c)
      BY <3>1, AccountConstants, BeginFits DEF Kinds
    <3> QED BY <1>2, <2>1, <3>1, <3>2, PaidBegin
  <2>3. CASE ~Unique
    <3>1. user = TRUE /\ Goto(c, "done")
      BY <1>1, <1>4, <2>3 DEF Create, Unique, RowsTypeOK
    <3>2. Moved(c, "done")
      BY <1>1, <3>1, StageMoves
    <3> QED BY <1>2, <2>1, <3>1, <3>2, PaidMove
  <2> QED BY <2>2, <2>3
<1>5. ASSUME NEW c \in Calls, CheckBonus(c) PROVE PaidInv'
  <2>1. Moved(c, "done") \/ Moved(c, "update")
    BY <1>1, <1>5, CallActions
  <2>2. call[c].step = "check" /\ UNCHANGED <<user, ledger>>
    BY <1>5 DEF CheckBonus, At
  <2> QED BY <1>2, <2>1, <2>2, PaidMove
<1>6. ASSUME NEW c \in Calls, NEW a \in Amounts, TopUp(c, a) \/ AdminDebit(c, a) PROVE PaidInv'
  <2>1. Begun(c) /\ UNCHANGED <<user, ledger>>
    BY <1>1, <1>6, CallActions DEF TopUp, AdminDebit
  <2>2. CASE TopUp(c, a)
    <3>1. Begin(c, "update", "topup", a, NoKey)
      BY <2>2 DEF TopUp
    <3> QED BY <1>2, <2>1, <3>1, PaidBegin
  <2>3. CASE AdminDebit(c, a)
    <3>1. PICK stage \in {"done", "update"} : Begin(c, stage, "debit", -a, NoKey)
      BY <2>3 DEF AdminDebit
    <3> QED BY <1>2, <2>1, <3>1, PaidBegin
  <2> QED BY <1>6, <2>2, <2>3
<1>7. ASSUME NEW c \in Calls, NEW r \in Rewards, ClaimDaily(c, r) \/ ClaimAcademy(c, r) PROVE PaidInv'
  <2>1. Begun(c) /\ UNCHANGED <<user, ledger>>
    BY <1>1, <1>7, CallActions DEF ClaimDaily, ClaimAcademy
  <2>2. CASE ClaimDaily(c, r)
    <3>1. PICK stage \in {"credit", "done"} :
            Begin(c, stage, "daily", r, today) /\ (stage = "credit" => row[today].progress >= Target)
      BY <2>2 DEF ClaimDaily
    <3> QED BY <1>2, <2>1, <3>1, PaidBegin
  <2>3. CASE ClaimAcademy(c, r)
    <3>1. PICK stage \in {"credit", "done"} : Begin(c, stage, "academy", r, 0)
      BY <2>3 DEF ClaimAcademy
    <3> QED BY <1>2, <2>1, <3>1, PaidBegin
  <2> QED BY <1>7, <2>2, <2>3
<1>8. ASSUME NEW c \in Calls, Adjust(c) PROVE PaidInv'
  <2>1. Moved(c, "insert") \/ Moved(c, "done")
    BY <1>1, <1>8, CallActions
  <2>2. call[c].step = "update" /\ UNCHANGED <<user, ledger>>
    BY <1>8 DEF Adjust, At
  <2> QED BY <1>2, <2>1, <2>2, PaidMove
<1>9. ASSUME NEW c \in Calls, InsertEntry(c) PROVE PaidInv'
  <2>1. Moved(c, "done")
    BY <1>1, <1>9, CallActions
  <2>2. At(c, "insert") /\ ledger' = ledger \cup {Entry(c)} /\ user' = user
    BY <1>9 DEF InsertEntry
  <2> QED BY <1>2, <2>1, <2>2, PaidMove
<1>10. ASSUME NEW c \in Calls, CreditReward(c) PROVE PaidInv'
  <2>1. At(c, "credit") /\ user' = user /\ (Moved(c, "mark") \/ Moved(c, "done"))
    BY <1>1, <1>10, CallActions DEF CreditReward
  <2>2. call[c] \in CallDocs
    BY <1>1 DEF MoneyTypeOK
  <2>3. Moved(c, "mark") => call[c].kind = "daily" /\ call[c].key \in 1 .. Days
    BY <2>2 DEF Moved, CallDocs, StageFits, KeyFits
  <2>4. CASE PriorOperation(c) = {}
    <3>1. ledger' = ledger \cup {Entry(c)}
      BY <1>10, <2>4 DEF CreditReward
    <3>2. Moved(c, "mark") => \E e \in ledger' : e.kind = "daily" /\ e.key = call[c].key
      <4>1. Entry(c) \in ledger' /\ Entry(c).kind = call[c].kind /\ Entry(c).key = call[c].key
        BY <3>1 DEF Entry
      <4> QED BY <2>3, <4>1
    <3> QED BY <1>2, <2>1, <2>4, <3>1, <3>2, PaidMove
  <2>5. CASE PriorOperation(c) # {}
    <3>1. ledger' = ledger
      BY <1>10, <2>5 DEF CreditReward
    <3>2. PICK e \in ledger : e.key = call[c].key
      BY <2>5 DEF PriorOperation
    <3>3. KeyFits(e)
      BY <1>1 DEF MoneyTypeOK, EntryDocs
    <3>4. Moved(c, "mark") => \E f \in ledger' : f.kind = "daily" /\ f.key = call[c].key
      BY <2>3, <3>1, <3>2, <3>3 DEF KeyFits
    <3> QED BY <1>2, <2>1, <3>1, <3>4, PaidMove
  <2> QED BY <2>4, <2>5
<1>11. ASSUME NEW c \in Calls, MarkClaimed(c) \/ Crash(c) PROVE PaidInv'
  <2>1. Moved(c, "done") /\ UNCHANGED <<user, ledger>>
    BY <1>1, <1>11, CallActions DEF MarkClaimed, Crash
  <2> QED BY <1>2, <2>1, PaidMove
<1>12. ASSUME UNCHANGED <<user, call, ledger>> PROVE PaidInv'
  <2>1. KeysOnce' /\ GrantedOnce'
    BY <1>12 DEF PaidInv, KeysOnce, GrantedOnce, Granted
  <2>2. RowsTell'
    BY <1>1, <1>2, <1>12, RowsTellKept DEF PaidInv, RowsGrow
  <2> QED BY <1>2, <2>1, <2>2 DEF PaidInv
<1>13. ASSUME NEW f \in Fills, StartFill(f) \/ Increment(f) \/ SeekRow(f) \/ InsertRow(f) \/ EndFill(f)
       PROVE  PaidInv'
  BY <1>12, <1>13 DEF StartFill, Increment, SeekRow, InsertRow, EndFill
<1>14. CASE Midnight
  BY <1>12, <1>14 DEF Midnight
<1>15. CASE UNCHANGED accountVars
  BY <1>12, <1>15 DEF accountVars
<1> QED
  BY <1>3, <1>4, <1>5, <1>6, <1>7, <1>8, <1>9, <1>10, <1>11, <1>13, <1>14, <1>15 DEF AccountsNext

LEMMA AccountsBegin ==
  ASSUME AccountsInit
  PROVE  LedgerInv /\ PaidInv
<1>1. Waiting \in CallDocs
  BY AccountConstants DEF Waiting, CallDocs, Steps, Kinds, KeyFits, StageFits
<1>2. NoRow \in RowDocs /\ NoRow.progress = 0 /\ NoRow.fills = {} /\ ~NoRow.claimed
  BY DEF NoRow, RowDocs
<1>3. NewFill \in FillDocs
  BY DEF NewFill, FillDocs
<1>4. MoneyTypeOK /\ RowsTypeOK
  <2>1. /\ user = FALSE /\ account = [exists |-> FALSE, cash |-> 0] /\ ledger = {}
        /\ today = 1 /\ orphaned = 0
        /\ row = [d \in 1 .. Days |-> NoRow] /\ fill = [f \in Fills |-> NewFill]
        /\ call = [c \in Calls |-> Waiting]
    BY DEF AccountsInit
  <2>2. MoneyTypeOK
    BY <1>1, <2>1, FS_EmptySet DEF MoneyTypeOK
  <2>3. RowsTypeOK
    <3>1. row \in [1 .. Days -> RowDocs] /\ fill \in [Fills -> FillDocs]
      BY <1>2, <1>3, <2>1
    <3>2. today \in 1 .. Days
      BY <2>1, AccountConstants
    <3>3. user \in BOOLEAN
      BY <2>1
    <3> QED BY <3>1, <3>2, <3>3 DEF RowsTypeOK
  <2> QED BY <2>2, <2>3
<1>5. Authored /\ KeysOnce
  BY DEF AccountsInit, Authored, KeysOnce
<1>6. \A c \in Calls : call[c].step = "new"
  BY DEF AccountsInit, Waiting
<1>7. LedgerExplains
  <2>1. Pending = {} /\ ledger = {} /\ account.cash = 0 /\ orphaned = 0
    BY <1>6 DEF AccountsInit, Pending, At
  <2>2. SumFunctionOnSet(Entered, ledger) = 0 /\ SumFunctionOnSet(Deltas, Pending) = 0
    BY <2>1, SumEmpty
  <2> QED BY <2>1, <2>2 DEF LedgerExplains, Entered, Deltas, Pending
<1>8. GrantedOnce
  BY <1>6 DEF AccountsInit, GrantedOnce, Granted
<1>9. RowsTell
  <2>1. ledger = {} /\ \A d \in 1 .. Days : row[d] = NoRow
    BY DEF AccountsInit
  <2>2. Cardinality(NoRow.fills) = 0
    BY <1>2, FS_EmptySet
  <2>3. \A d \in 1 .. Days : row[d].progress <= Cardinality(row[d].fills) /\ ~row[d].claimed
    BY <1>2, <2>1, <2>2
  <2> QED BY <1>6, <2>1, <2>3 DEF RowsTell, At
<1> QED BY <1>4, <1>5, <1>7, <1>8, <1>9 DEF LedgerInv, PaidInv

LEMMA AccountsInvariant == Spec => [](LedgerInv /\ PaidInv)
<1>1. Init => LedgerInv /\ PaidInv
  BY AccountsBegin DEF Init
<1>2. LedgerInv /\ PaidInv /\ [Next]_vars => (LedgerInv /\ PaidInv)'
  <2>1. [Next]_vars => [AccountsNext]_accountVars
    BY DEF Next, vars, QuotaStep, CadenceStep, ScoreboardStep, ReadingStep, PortfolioStep, AccountsStep
  <2>2. ASSUME LedgerInv, PaidInv, [AccountsNext]_accountVars PROVE LedgerInv' /\ PaidInv'
    <3>1. LedgerInv'
      BY <2>2, LedgerKept DEF PaidInv, RowsTypeOK
    <3> QED BY <2>2, <3>1, PaidKept
  <2> QED BY <2>1, <2>2
<1> QED BY <1>1, <1>2, PTL DEF Spec

\* The balance is never negative and is the sum of the ledger, up to calls
\* between their two writes and those that died there (applyAdjustment).
THEOREM LedgerExplainsHolds == Spec => []LedgerExplains
<1>1. LedgerInv => LedgerExplains
  BY DEF LedgerInv
<1> QED BY <1>1, AccountsInvariant, PTL

\* A bonus, an academy reward and the reward of a day are paid at most once,
\* and the last only for a day with enough closes (ApplyWelcomeCredit, Claim,
\* claimDaily), whatever calls race, are repeated or die.
THEOREM PaidOnceHolds == Spec => []PaidOnce
<1>1. LedgerInv /\ PaidInv => PaidOnce
  BY PaidInvPays DEF LedgerInv
<1> QED BY <1>1, AccountsInvariant, PTL

-----------------------------------------------------------------------------
(* The overs of the second provider (CricketLine).                         *)

OverDocs == [innings : {1, 2}, number : Nat \ {0}, balls : Seq(Happenings)]
BoardLike(b) ==
  /\ b = [innings |-> b.innings, on |-> b.on, off |-> b.off, faced |-> b.faced,
          legal |-> b.legal, wickets |-> b.wickets, final |-> b.final]
  /\ b.innings \in {1, 2} /\ b.legal \in Nat /\ b.wickets \in Nat /\ b.final \in Nat
LineTyped == BoardLike(board) /\ BoardLike(behind) /\ strip \in Seq(OverDocs)

\* The strip begins with k overs of the first innings, its other overs are of
\* the second, and numbers go up by one but for the first over of the second.
CutAt(s, k) ==
  /\ \A i \in DOMAIN s : s[i].innings = (IF i <= k THEN 1 ELSE 2)
  /\ \A i \in 1 .. Len(s) - 1 : s[i + 1].number = (IF i = k THEN 1 ELSE s[i].number + 1)
  /\ s # <<>> /\ s[Len(s)].innings = 2 /\ s[Len(s)].number = 1 => Len(s) >= 2

\* Legal balls bowled before an over, the overs before it being full.
BeforeOver(number) == (number - 1) * OverBalls

\* The scoreboard agrees with the newest over.
BoardAgrees ==
  IF UnderWay(board)
  THEN /\ board.legal = BeforeOver(strip[Len(strip)].number) + Legal(strip[Len(strip)].balls)
       /\ Legal(strip[Len(strip)].balls) \in 0 .. OverBalls
  ELSE board.legal = 0 /\ board.wickets = 0

\* The first innings ends with a legal ball, so its last over is the one its
\* total of legal balls tells.
InningsEnds ==
  /\ board.innings = 1 /\ InningsOver => Legal(strip[Len(strip)].balls) # 0
  /\ board.innings = 2 => /\ strip # <<>>
                          /\ strip[Len(strip)].innings = 1 =>
                               strip[Len(strip)].number = OversBegun(board.final)

\* What a scoreboard that may be shown is short of, at most, beside the strip.
Near(shown) ==
  LET last == strip[Len(strip)] IN
  /\ shown.innings <= board.innings
  /\ shown.innings < board.innings /\ last.innings = 2 => last.number = 1
  /\ shown.innings = 2 => /\ shown.final = board.final
                          /\ last.innings = 1 => shown.legal = 0
                          /\ last.innings = 2 => shown.legal >= BeforeOver(last.number)
LineInv ==
  /\ LineTyped
  /\ \E k \in 0 .. Len(strip) : CutAt(strip, k)
  /\ strip # <<>> => strip[Len(strip)].innings <= board.innings
  /\ BoardAgrees /\ InningsEnds /\ Near(behind)

\* A ball counts among the legal balls of its over if it is one.
LEMMA LegalCounts ==
  ASSUME NEW balls \in Seq(Happenings), NEW ball \in Happenings
  PROVE  /\ Legal(balls) \in Nat
         /\ Legal(Append(balls, ball)) = Legal(balls) + (IF IsLegal(ball) THEN 1 ELSE 0)
         /\ Legal(<<ball>>) = (IF IsLegal(ball) THEN 1 ELSE 0)
<1> DEFINE L(b) == {i \in DOMAIN b : IsLegal(b[i])}
           n == Len(balls)
           more == Append(balls, ball)
<1>0. \A b : Legal(b) = Cardinality(L(b))
  BY DEF Legal
<1>1. n \in Nat /\ DOMAIN balls = 1 .. n /\ DOMAIN more = 1 .. n + 1
      /\ more[n + 1] = ball /\ \A i \in 1 .. n : more[i] = balls[i]
  OBVIOUS
<1>2. IsFiniteSet(L(balls)) /\ Cardinality(L(balls)) \in Nat
  <2>1. IsFiniteSet(1 .. n)
    BY <1>1, FS_Interval
  <2>2. L(balls) \subseteq 1 .. n
    BY <1>1
  <2> QED BY <2>1, <2>2, FS_Subset, FS_CardinalityType
<1>3. CASE IsLegal(ball)
  <2>1. L(more) = L(balls) \cup {n + 1} /\ n + 1 \notin L(balls)
    BY <1>1, <1>3
  <2>2. L(<<ball>>) = {1}
    BY <1>3
  <2>3. Cardinality({1}) = 1
    BY FS_Singleton
  <2>4. Cardinality(L(more)) = Cardinality(L(balls)) + 1
    BY <1>2, <2>1, FS_AddElement
  <2> HIDE DEF L
  <2> QED BY <1>0, <1>2, <1>3, <2>2, <2>3, <2>4
<1>4. CASE ~IsLegal(ball)
  <2>1. L(more) = L(balls)
    BY <1>1, <1>4
  <2>2. L(<<ball>>) = {}
    BY <1>4
  <2>3. Cardinality({}) = 0
    BY FS_EmptySet
  <2>4. Legal(more) = Legal(balls) /\ Legal(<<ball>>) = 0 /\ Legal(balls) \in Nat
    <3> HIDE DEF L, more
    <3> QED BY <1>0, <1>2, <2>1, <2>2, <2>3
  <2> QED BY <1>4, <2>4
<1> QED BY <1>3, <1>4

\* An over begins a full over of legal balls after the one before it.
LEMMA OverTimes ==
  ASSUME NEW n \in Nat \ {0}
  PROVE  /\ BeforeOver(n) \in Nat /\ BeforeOver(n + 1) = BeforeOver(n) + OverBalls
         /\ BeforeOver(1) = 0 /\ (n >= 2 => BeforeOver(n) >= OverBalls)
<1>1. OverBalls \in Nat \ {0}
  BY CricketLineAssumption
<1>2. PICK m \in Nat : n = m + 1
  <2>1. n - 1 \in Nat /\ n = (n - 1) + 1
    OBVIOUS
  <2> QED BY <2>1
<1>3. BeforeOver(n) = m * OverBalls /\ BeforeOver(n + 1) = (m + 1) * OverBalls
  BY <1>2 DEF BeforeOver
<1>4. (m + 1) * OverBalls = m * OverBalls + OverBalls /\ m * OverBalls \in Nat
  BY <1>1, <1>2
<1>5. BeforeOver(1) = 0
  BY <1>1 DEF BeforeOver
<1>6. ASSUME n >= 2 PROVE m * OverBalls >= OverBalls
  <2>1. PICK j \in Nat : m = j + 1
    <3>1. m - 1 \in Nat /\ m = (m - 1) + 1
      BY <1>2, <1>6
    <3> QED BY <3>1
  <2>2. m * OverBalls = j * OverBalls + OverBalls /\ j * OverBalls \in Nat
    BY <1>1, <2>1
  <2> QED BY <1>1, <2>2
<1> QED BY <1>3, <1>4, <1>5, <1>6

\* A quotient is told by the multiples of the divisor on both sides.
LEMMA Quotient ==
  ASSUME NEW d \in Nat \ {0}, NEW q \in Nat, NEW r \in 0 .. d - 1
  PROVE  (q * d + r) \div d = q
<1> DEFINE a == q * d + r
           x == a \div d
<1>1. q * d \in Nat /\ a \in Nat
  OBVIOUS
<1>2. x \in Int /\ x * d <= a /\ a < x * d + d
  <2>1. a \in Int /\ d \in Int /\ d > 0
    BY <1>1
  <2> HIDE DEF a
  <2>2. x \in Int /\ a = d * x + (a % d) /\ a % d \in 0 .. d - 1
    BY <2>1, SMTT(30)
  <2>3. d * x = x * d /\ x * d \in Int
    BY <2>1, <2>2
  <2> HIDE DEF x
  <2> QED BY <2>1, <2>2, <2>3
<1> HIDE DEF x
<1>3. CASE x > q
  <2>1. PICK e \in Nat : x = q + 1 + e
    <3>1. x - q - 1 \in Nat /\ x = q + 1 + (x - q - 1)
      BY <1>2, <1>3
    <3> QED BY <3>1
  <2>2. x * d = q * d + d + e * d /\ e * d \in Nat
    BY <2>1
  <2> QED BY <1>1, <1>2, <2>2
<1>4. CASE x < q
  <2>1. PICK e \in Nat : q = x + 1 + e
    <3>1. q - x - 1 \in Nat /\ q = x + 1 + (q - x - 1)
      BY <1>2, <1>4
    <3> QED BY <3>1
  <2>2. q * d = x * d + d + e * d /\ e * d \in Nat /\ x * d \in Int
    BY <1>2, <2>1
  <2> QED BY <1>1, <1>2, <2>2
<1>5. x = q
  BY <1>2, <1>3, <1>4
<1> QED BY <1>5 DEF x

\* The overs begun after legal balls of the n-th over are n.
LEMMA OversOfLegal ==
  ASSUME NEW n \in Nat \ {0}, NEW r \in 1 .. OverBalls
  PROVE  OversBegun(BeforeOver(n) + r) = n
<1>1. OverBalls \in Nat \ {0}
  BY CricketLineAssumption
<1>2. BeforeOver(n + 1) = n * OverBalls /\ BeforeOver(n + 1) = BeforeOver(n) + OverBalls /\ BeforeOver(n) \in Nat
  BY OverTimes DEF BeforeOver
<1>3. BeforeOver(n) + r + OverBalls - 1 = n * OverBalls + (r - 1) /\ r - 1 \in 0 .. OverBalls - 1
  <2>1. n * OverBalls \in Nat
    BY <1>1
  <2> QED BY <1>1, <1>2, <2>1
<1>4. (n * OverBalls + (r - 1)) \div OverBalls = n
  BY <1>1, <1>3, Quotient
<1> QED BY <1>3, <1>4 DEF OversBegun

BoardOf(innings, on, off, faced, legal, wickets, final) ==
  [innings |-> innings, on |-> on, off |-> off, faced |-> faced, legal |-> legal, wickets |-> wickets, final |-> final]

\* What an update of one part of a scoreboard leaves.
LEMMA BoardUpdates ==
  ASSUME NEW b, BoardLike(b)
  PROVE  /\ b.innings \in {1, 2} /\ b.legal \in Nat /\ b.wickets \in Nat /\ b.final \in Nat
         /\ \A f : [b EXCEPT !.faced = f] = BoardOf(b.innings, b.on, b.off, f, b.legal, b.wickets, b.final)
         /\ \A x, y : [b EXCEPT !.on = x, !.off = y] = BoardOf(b.innings, x, y, b.faced, b.legal, b.wickets, b.final)
         /\ \A n : [b EXCEPT !.wickets = n] = BoardOf(b.innings, b.on, b.off, b.faced, b.legal, n, b.final)
         /\ \A n : [b EXCEPT !.legal = n] = BoardOf(b.innings, b.on, b.off, b.faced, n, b.wickets, b.final)
<1>1. b = BoardOf(b.innings, b.on, b.off, b.faced, b.legal, b.wickets, b.final)
  BY DEF BoardLike, BoardOf
<1>2. PICK i, u, v, g, l, w, z :
        b = [innings |-> i, on |-> u, off |-> v, faced |-> g, legal |-> l, wickets |-> w, final |-> z]
  BY DEF BoardLike
<1>3. \A f : [b EXCEPT !.faced = f] = BoardOf(b.innings, b.on, b.off, f, b.legal, b.wickets, b.final)
  BY <1>2 DEF BoardOf
<1>4. \A x, y : [b EXCEPT !.on = x, !.off = y] = BoardOf(b.innings, x, y, b.faced, b.legal, b.wickets, b.final)
  <2>1. ASSUME NEW x, NEW y
        PROVE  [b EXCEPT !.on = x, !.off = y] = [innings |-> i, on |-> x, off |-> y, faced |-> g,
                                                  legal |-> l, wickets |-> w, final |-> z]
    <3>1. [b EXCEPT !.on = x, !.off = y] = [[b EXCEPT !.on = x] EXCEPT !.off = y]
      OBVIOUS
    <3>2. [b EXCEPT !.on = x] = [innings |-> i, on |-> x, off |-> v, faced |-> g,
                                 legal |-> l, wickets |-> w, final |-> z]
      BY <1>2
    <3>3. [[innings |-> i, on |-> x, off |-> v, faced |-> g, legal |-> l, wickets |-> w, final |-> z] EXCEPT !.off = y]
            = [innings |-> i, on |-> x, off |-> y, faced |-> g, legal |-> l, wickets |-> w, final |-> z]
      OBVIOUS
    <3> QED BY <3>1, <3>2, <3>3
  <2> QED BY <1>2, <2>1 DEF BoardOf
<1>6. \A n : [b EXCEPT !.wickets = n] = BoardOf(b.innings, b.on, b.off, b.faced, b.legal, n, b.final)
  BY <1>2 DEF BoardOf
<1>7. \A n : [b EXCEPT !.legal = n] = BoardOf(b.innings, b.on, b.off, b.faced, n, b.wickets, b.final)
  BY <1>2 DEF BoardOf
<1>8. b.innings \in {1, 2} /\ b.legal \in Nat /\ b.wickets \in Nat /\ b.final \in Nat
  BY DEF BoardLike
<1> QED BY <1>3, <1>4, <1>6, <1>7, <1>8

\* The parts of a scoreboard, and its shape, by its parts.
LEMMA BoardFields ==
  ASSUME NEW i \in {1, 2}, NEW x, NEW y, NEW f, NEW l \in Nat, NEW w \in Nat, NEW z \in Nat
  PROVE  LET b == BoardOf(i, x, y, f, l, w, z) IN
         /\ BoardLike(b) /\ b.innings = i /\ b.on = x /\ b.off = y /\ b.faced = f
         /\ b.legal = l /\ b.wickets = w /\ b.final = z
BY DEF BoardOf, BoardLike

\* What a ball does to the innings, its legal balls and its wickets.
LEMMA BallOutcome ==
  ASSUME BoardLike(board), NEW ball \in Happenings, NEW crossed \in BOOLEAN, NEW ends \in BOOLEAN
  PROVE  LET b == After(ball, crossed, ends) IN
         /\ BoardLike(b) /\ b.innings = board.innings /\ b.final = board.final
         /\ b.legal = board.legal + (IF IsLegal(ball) THEN 1 ELSE 0)
         /\ b.wickets = board.wickets \/ (ball.out \in {"on", "off"} /\ b.wickets = board.wickets + 1)
<1> DEFINE Same(b) == /\ BoardLike(b) /\ b.innings = board.innings /\ b.final = board.final
                      /\ b.legal = board.legal /\ b.wickets = board.wickets
           hit == [board EXCEPT !.faced[board.on] = @ + (IF ball.kind = "wide" THEN 0 ELSE 1)]
           out == CASE ball.out = "on" -> {board.on} [] ball.out = "off" -> {board.off} [] OTHER -> {}
           run == IF crossed THEN Crossed(hit) ELSE hit
           newcomer == IF board.wickets + 1 = AllOut THEN 0 ELSE 10 * board.innings + board.wickets + 3
           replaced == Replaced(run, CHOOSE x \in out : TRUE, newcomer)
           left == IF out = {} THEN run ELSE [replaced EXCEPT !.wickets = @ + 1]
           scored == [left EXCEPT !.legal = @ + (IF IsLegal(ball) THEN 1 ELSE 0)]
<1>1. \A b, f : Same(b) => Same([b EXCEPT !.faced = f])
  <2>1. ASSUME NEW b, NEW f, Same(b) PROVE Same([b EXCEPT !.faced = f])
    <3>0. BoardLike(b)
      BY <2>1
    <3>1. /\ [b EXCEPT !.faced = f] = BoardOf(b.innings, b.on, b.off, f, b.legal, b.wickets, b.final)
          /\ b.innings \in {1, 2} /\ b.legal \in Nat /\ b.wickets \in Nat /\ b.final \in Nat
      BY <3>0, BoardUpdates
    <3> QED BY <2>1, <3>1, BoardFields
  <2> HIDE DEF Same
  <2> QED BY <2>1
<1>2. \A b, x, y, f : Same(b) => Same([b EXCEPT !.on = x, !.off = y]) /\ Same([b EXCEPT !.on = x, !.off = y, !.faced = f])
  <2>1. ASSUME NEW b, NEW x, NEW y, NEW f, Same(b)
        PROVE  Same([b EXCEPT !.on = x, !.off = y]) /\ Same([b EXCEPT !.on = x, !.off = y, !.faced = f])
    <3>0. BoardLike(b)
      BY <2>1
    <3>1. [b EXCEPT !.on = x, !.off = y] = BoardOf(b.innings, x, y, b.faced, b.legal, b.wickets, b.final)
      BY <3>0, BoardUpdates, Zenon
    <3>3. b.innings \in {1, 2} /\ b.legal \in Nat /\ b.wickets \in Nat /\ b.final \in Nat
      BY <3>0, BoardUpdates
    <3>4. Same([b EXCEPT !.on = x, !.off = y])
      BY <2>1, <3>1, <3>3, BoardFields
    <3>5. Same([b EXCEPT !.on = x, !.off = y, !.faced = f])
      <4> DEFINE c == [b EXCEPT !.on = x, !.off = y]
      <4>1. [b EXCEPT !.on = x, !.off = y, !.faced = f] = [c EXCEPT !.faced = f]
        OBVIOUS
      <4> HIDE DEF Same, c
      <4>2. Same([c EXCEPT !.faced = f])
        BY <1>1, <3>4 DEF c
      <4> QED BY <4>1, <4>2
    <3> QED BY <3>4, <3>5
  <2> HIDE DEF Same
  <2> QED BY <2>1
<1>3. Same(hit)
  <2>1. hit = [board EXCEPT !.faced = [board.faced EXCEPT ![board.on] = @ + (IF ball.kind = "wide" THEN 0 ELSE 1)]]
    OBVIOUS
  <2>2. Same(board)
    OBVIOUS
  <2> HIDE DEF Same, hit
  <2> QED BY <1>1, <2>1, <2>2
<1>4. Same(run)
  <2> HIDE DEF Same, hit
  <2> QED BY <1>2, <1>3 DEF Crossed
<1>5. Same(replaced)
  <2> HIDE DEF Same, run
  <2> QED BY <1>2, <1>4 DEF Replaced
<1>6. /\ BoardLike(left) /\ left.innings = board.innings /\ left.final = board.final /\ left.legal = board.legal
      /\ left.wickets = board.wickets \/ (ball.out \in {"on", "off"} /\ left.wickets = board.wickets + 1)
  <2>1. CASE out = {}
    <3> HIDE DEF run, out
    <3> QED BY <1>4, <2>1
  <2>2. CASE out # {}
    <3>1. ball.out \in {"on", "off"}
      BY <2>2
    <3>2. left = [replaced EXCEPT !.wickets = replaced.wickets + 1]
      BY <2>2
    <3>3. /\ left = BoardOf(replaced.innings, replaced.on, replaced.off, replaced.faced, replaced.legal,
                           replaced.wickets + 1, replaced.final)
          /\ replaced.innings \in {1, 2} /\ replaced.legal \in Nat /\ replaced.wickets + 1 \in Nat
          /\ replaced.final \in Nat
      <4>1. BoardLike(replaced)
        BY <1>5
      <4> HIDE DEF replaced, left
      <4>2. /\ replaced.innings \in {1, 2} /\ replaced.legal \in Nat /\ replaced.wickets \in Nat
            /\ replaced.final \in Nat
        BY <4>1, BoardUpdates
      <4>3. [replaced EXCEPT !.wickets = replaced.wickets + 1]
              = BoardOf(replaced.innings, replaced.on, replaced.off, replaced.faced, replaced.legal,
                        replaced.wickets + 1, replaced.final)
        BY <4>1, BoardUpdates
      <4> QED BY <3>2, <4>2, <4>3
    <3> HIDE DEF run, out, replaced, left
    <3> QED BY <1>5, <3>1, <3>3, BoardFields
  <2> QED BY <2>1, <2>2
<1>7. /\ BoardLike(scored) /\ scored.innings = left.innings /\ scored.final = left.final
      /\ scored.wickets = left.wickets /\ scored.legal = left.legal + (IF IsLegal(ball) THEN 1 ELSE 0)
  <2> DEFINE l == left.legal + (IF IsLegal(ball) THEN 1 ELSE 0)
  <2>1. scored = [left EXCEPT !.legal = l]
    OBVIOUS
  <2> HIDE DEF left, scored
  <2>2. l \in Nat
    BY <1>6 DEF BoardLike
  <2>3. /\ scored = BoardOf(left.innings, left.on, left.off, left.faced, l, left.wickets, left.final)
        /\ left.innings \in {1, 2} /\ left.wickets \in Nat /\ left.final \in Nat
    <3> HIDE DEF l
    <3> QED BY <1>6, <2>1, BoardUpdates
  <2> HIDE DEF l
  <2>4. /\ BoardLike(scored) /\ scored.innings = left.innings /\ scored.final = left.final
        /\ scored.wickets = left.wickets /\ scored.legal = l
    BY <2>2, <2>3, BoardFields
  <2> QED BY <2>4 DEF l
<1>8. After(ball, crossed, ends) = IF ends THEN Crossed(scored) ELSE scored
  BY DEF After
<1>9. /\ BoardLike(Crossed(scored)) /\ Crossed(scored).innings = scored.innings
      /\ Crossed(scored).final = scored.final /\ Crossed(scored).wickets = scored.wickets
      /\ Crossed(scored).legal = scored.legal
  <2> HIDE DEF scored
  <2>1. /\ Crossed(scored) = BoardOf(scored.innings, scored.off, scored.on, scored.faced, scored.legal,
                                    scored.wickets, scored.final)
        /\ scored.innings \in {1, 2} /\ scored.legal \in Nat /\ scored.wickets \in Nat /\ scored.final \in Nat
    <3>1. [scored EXCEPT !.on = scored.off, !.off = scored.on]
            = BoardOf(scored.innings, scored.off, scored.on, scored.faced, scored.legal, scored.wickets, scored.final)
      <4>1. PICK x, y : x = scored.off /\ y = scored.on
        OBVIOUS
      <4>2. [scored EXCEPT !.on = x, !.off = y]
              = BoardOf(scored.innings, x, y, scored.faced, scored.legal, scored.wickets, scored.final)
        <5>1. BoardLike(scored)
          BY <1>7
        <5>2. \A on, off : [scored EXCEPT !.on = on, !.off = off]
                = BoardOf(scored.innings, on, off, scored.faced, scored.legal, scored.wickets, scored.final)
          BY ONLY <5>1, BoardUpdates, ZenonT(30)
        <5> QED BY ONLY <5>2, ZenonT(30)
      <4> QED BY <4>1, <4>2
    <3>2. scored.innings \in {1, 2} /\ scored.legal \in Nat /\ scored.wickets \in Nat /\ scored.final \in Nat
      BY <1>7, BoardUpdates
    <3> QED BY <3>1, <3>2 DEF Crossed
  <2> QED BY <2>1, BoardFields
<1> HIDE DEF scored, left
<1> QED BY <1>6, <1>7, <1>8, <1>9

\* A strip that loses its oldest over keeps its shape.
LEMMA StripDrops ==
  ASSUME NEW a \in Seq(OverDocs), a # <<>>, NEW j \in 0 .. Len(a), CutAt(a, j),
         NEW f \in {1, 2}, f = 2 => Len(a) >= 3
  PROVE  LET d == SubSeq(a, f, Len(a)) IN
         /\ d \in Seq(OverDocs) /\ d # <<>> /\ d[Len(d)] = a[Len(a)]
         /\ \E k \in 0 .. Len(d) : CutAt(d, k)
<1> DEFINE n == Len(a)
           d == SubSeq(a, f, n)
<1>1. n \in Nat \ {0} /\ DOMAIN a = 1 .. n /\ \A i \in 1 .. n : a[i] \in OverDocs
  OBVIOUS
<1>2. CASE f = 1
  <2>1. d = a
    BY <1>1, <1>2
  <2> QED BY <1>1, <2>1
<1>3. CASE f = 2
  <2>1. n >= 3
    BY <1>3
  <2>2. /\ d \in Seq(OverDocs) /\ Len(d) = n - 1 /\ DOMAIN d = 1 .. n - 1
        /\ \A i \in 1 .. n - 1 : d[i] = a[i + 1]
    <3>1. d = [i \in 1 .. n - 1 |-> a[i + 1]]
      BY <1>1, <1>3, <2>1
    <3>2. \A i \in 1 .. n - 1 : i + 1 \in 1 .. n
      BY <1>1
    <3>3. n - 1 \in Nat
      BY <1>1
    <3> HIDE DEF d
    <3> QED BY <1>1, <3>1, <3>2, <3>3
  <2>3. d # <<>> /\ d[Len(d)] = a[n]
    <3> HIDE DEF d
    <3> QED BY <1>1, <2>1, <2>2
  <2> DEFINE k == IF j = 0 THEN 0 ELSE j - 1
  <2>4. k \in 0 .. n - 1
    BY <1>1
  <2>5. \A i \in 1 .. n - 1 : d[i].innings = (IF i <= k THEN 1 ELSE 2)
    <3>1. \A i \in 1 .. n - 1 : i + 1 \in 1 .. n /\ (i + 1 <= j <=> i <= k)
      BY <1>1
    <3> HIDE DEF d, k
    <3> QED BY <1>1, <2>2, <3>1 DEF CutAt
  <2>6. \A i \in 1 .. n - 2 : d[i + 1].number = (IF i = k THEN 1 ELSE d[i].number + 1)
    <3>1. \A i \in 1 .. n - 2 : i + 1 \in 1 .. n - 1 /\ i \in 1 .. n - 1 /\ (i + 1 = j <=> i = k)
      BY <1>1
    <3> HIDE DEF d, k
    <3> QED BY <1>1, <2>2, <3>1 DEF CutAt
  <2>7. Len(d) >= 2 /\ Len(d) - 1 = n - 2
    <3> HIDE DEF d
    <3> QED BY <1>1, <2>1, <2>2
  <2>8. CutAt(d, k)
    <3> HIDE DEF d, k
    <3> QED BY <2>2, <2>5, <2>6, <2>7 DEF CutAt
  <2> HIDE DEF d, k
  <2> QED BY <2>2, <2>3, <2>4, <2>8 DEF d
<1> QED BY <1>2, <1>3

\* One more ball: the newest over is longer, or there is a new one.
LEMMA StripGrows ==
  ASSUME strip \in Seq(OverDocs), board.innings \in {1, 2}, NEW k \in 0 .. Len(strip), CutAt(strip, k),
         strip # <<>> => strip[Len(strip)].innings <= board.innings,
         board.innings = 2 => strip # <<>>,
         NEW ball \in Happenings
  PROVE  LET s == Longer(ball)
             n == Len(s)
             last == strip[Len(strip)] IN
         /\ s \in Seq(OverDocs) /\ s # <<>> /\ s[n].innings = board.innings
         /\ \E j \in 0 .. n : CutAt(s, j)
         /\ IF FirstOfOver
            THEN s[n].balls = <<ball>> /\ s[n].number = (IF UnderWay(board) THEN last.number + 1 ELSE 1)
            ELSE UnderWay(board) /\ s[n].balls = Append(last.balls, ball) /\ s[n].number = last.number
<1> DEFINE m == Len(strip)
           last == strip[m]
<1>1. m \in Nat /\ DOMAIN strip = 1 .. m /\ \A i \in 1 .. m : strip[i] \in OverDocs
  OBVIOUS
<1>2. strip # <<>> => m \in 1 .. m /\ last \in OverDocs /\ last.innings \in {1, 2} /\ Last(strip) = last
  BY <1>1 DEF Last, OverDocs
<1>3. UnderWay(board) <=> strip # <<>> /\ last.innings = board.innings
  BY <1>2 DEF UnderWay
<1>4. strip # <<>> => (last.innings = 1 <=> k = m)
  <2>1. strip # <<>> => last.innings = (IF m <= k THEN 1 ELSE 2)
    BY <1>1, <1>2 DEF CutAt
  <2>2. m <= k <=> k = m
    <3>1. m \in Nat /\ k \in 0 .. m
      BY <1>1
    <3> HIDE DEF m
    <3> QED BY <3>1
  <2> HIDE DEF last, m
  <2> QED BY <2>1, <2>2
<1>5. strip = <<>> => k = 0 /\ m = 0
  BY <1>1
<1>8. k \in 0 .. m /\ last = strip[m] /\ m = Len(strip)
  OBVIOUS
<1> HIDE DEF m, last
<1>6. CASE FirstOfOver
  <2> DEFINE next == IF strip = <<>> \/ Last(strip).innings # board.innings THEN 1 ELSE Last(strip).number + 1
             o == [innings |-> board.innings, number |-> next, balls |-> <<ball>>]
             all == Append(strip, o)
             f == IF Len(all) > OversShown THEN 2 ELSE 1
             s == SubSeq(all, f, Len(all))
  <2>1. Longer(ball) = s
    BY <1>6 DEF Longer
  <2>2. next = (IF UnderWay(board) THEN last.number + 1 ELSE 1) /\ next \in Nat \ {0}
    BY <1>2, <1>3 DEF OverDocs
  <2>3. o \in OverDocs /\ o.innings = board.innings /\ o.number = next /\ o.balls = <<ball>>
    <3> HIDE DEF next
    <3>1. <<ball>> \in Seq(Happenings)
      OBVIOUS
    <3> QED BY <2>2, <3>1 DEF OverDocs
  <2>4. /\ all \in Seq(OverDocs) /\ Len(all) = m + 1 /\ DOMAIN all = 1 .. m + 1 /\ all[m + 1] = o
        /\ \A i \in 1 .. m : all[i] = strip[i]
    <3> HIDE DEF o
    <3> QED BY <1>1, <2>3
  <2> HIDE DEF all, o, next
  <2>5. \E j \in 0 .. m + 1 : CutAt(all, j)
    <3>1. CASE board.innings = 1
      <4>1. k = m /\ (strip # <<>> => UnderWay(board))
        BY <1>2, <1>3, <1>4, <1>5, <1>8, <3>1
      <4>2. \A i \in 1 .. m + 1 : all[i].innings = 1
        <5> TAKE i \in 1 .. (m + 1)
        <5>1. CASE i = m + 1
          BY <2>3, <2>4, <3>1, <5>1
        <5>2. CASE i # m + 1
          <6>1. i \in 1 .. m /\ i <= k
            BY <1>1, <4>1, <5>2
          <6> QED BY <1>1, <1>8, <2>4, <6>1 DEF CutAt
        <5> QED BY <5>1, <5>2
      <4>3. \A i \in 1 .. m : all[i + 1].number = all[i].number + 1
        <5> TAKE i \in 1 .. m
        <5>2. CASE i = m
          <6>1. strip # <<>>
            BY <1>1
          <6> QED BY <1>1, <1>3, <1>8, <2>2, <2>3, <2>4, <4>1, <5>2, <6>1
        <5>3. CASE i # m
          <6>1. i \in 1 .. m - 1 /\ i + 1 \in 1 .. m /\ i # k
            BY <1>1, <4>1, <5>3
          <6> QED BY <1>8, <2>4, <6>1 DEF CutAt
        <5> QED BY <5>2, <5>3
      <4>4. CutAt(all, m + 1)
        <5>1. \A i \in 1 .. m : i # m + 1
          BY <1>1
        <5>2. Len(all) - 1 = m /\ all[Len(all)].innings = 1 /\ \A i \in 1 .. m + 1 : i <= m + 1
          BY <1>1, <2>4, <4>2
        <5> QED BY <2>4, <4>2, <4>3, <5>1, <5>2 DEF CutAt
      <4> QED BY <1>1, <4>4
    <3>2. CASE board.innings = 2
      <4>1. strip # <<>> /\ m >= 1
        BY <1>1, <3>2
      <4>2. \A i \in 1 .. m + 1 : all[i].innings = (IF i <= k THEN 1 ELSE 2)
        <5> TAKE i \in 1 .. (m + 1)
        <5>2. CASE i = m + 1
          BY <1>1, <2>3, <2>4, <3>2, <5>2
        <5>3. CASE i # m + 1
          <6>1. i \in 1 .. m
            BY <1>1, <5>3
          <6> QED BY <1>1, <1>8, <2>4, <6>1 DEF CutAt
        <5> QED BY <5>2, <5>3
      <4>3. \A i \in 1 .. m : all[i + 1].number = (IF i = k THEN 1 ELSE all[i].number + 1)
        <5> TAKE i \in 1 .. m
        <5>2. CASE i = m
          <6>1. last.innings \in {1, 2}
            BY <1>2, <4>1 DEF OverDocs
          <6>2. all[i + 1].number = next /\ all[i] = last
            BY <1>2, <1>8, <2>3, <2>4, <4>1, <5>2
          <6>3. CASE last.innings = 1
            BY <1>3, <1>4, <2>2, <3>2, <4>1, <5>2, <6>2, <6>3
          <6>4. CASE last.innings = 2
            BY <1>3, <1>4, <2>2, <3>2, <4>1, <5>2, <6>2, <6>4
          <6> QED BY <6>1, <6>3, <6>4
        <5>3. CASE i # m
          <6>1. i \in 1 .. m - 1 /\ i + 1 \in 1 .. m
            BY <1>1, <5>3
          <6> QED BY <1>8, <2>4, <6>1 DEF CutAt
        <5> QED BY <5>2, <5>3
      <4>4. CutAt(all, k)
        <5>1. Len(all) - 1 = m /\ Len(all) >= 2
          BY <1>1, <2>4, <4>1
        <5> QED BY <2>4, <4>2, <4>3, <5>1 DEF CutAt
      <4> QED BY <1>1, <4>4
    <3> QED BY <3>1, <3>2
  <2>6. f \in {1, 2} /\ (f = 2 => Len(all) >= 3)
    BY <1>1, <2>4, CricketLineAssumption
  <2>7. all # <<>>
    BY <1>1, <2>4
  <2> HIDE DEF f
  <2>8. s \in Seq(OverDocs) /\ s # <<>> /\ s[Len(s)] = all[Len(all)] /\ \E j \in 0 .. Len(s) : CutAt(s, j)
    BY <2>4, <2>5, <2>6, <2>7, StripDrops
  <2>9. s[Len(s)] = o
    <3> HIDE DEF s
    <3> QED BY <2>4, <2>8
  <2> HIDE DEF s
  <2> QED BY <1>6, <1>8, <2>1, <2>2, <2>3, <2>8, <2>9
<1>7. CASE ~FirstOfOver
  <2>1. UnderWay(board) /\ strip # <<>>
    BY <1>2, <1>3, <1>7 DEF FirstOfOver
  <2> DEFINE s == [strip EXCEPT ![m].balls = Append(@, ball)]
             o == [strip[m] EXCEPT !.balls = Append(last.balls, ball)]
  <2>2. Longer(ball) = s
    BY <1>7, <1>8 DEF Longer
  <2>3. o \in OverDocs /\ o.innings = last.innings /\ o.number = last.number /\ o.balls = Append(last.balls, ball)
    <3>1. last \in OverDocs /\ Append(last.balls, ball) \in Seq(Happenings)
      BY <1>2, <2>1 DEF OverDocs
    <3>2. PICK x \in OverDocs, y \in Seq(Happenings) : x = last /\ y = Append(last.balls, ball)
      BY <3>1
    <3>3. /\ [x EXCEPT !.balls = y] \in OverDocs /\ [x EXCEPT !.balls = y].innings = x.innings
          /\ [x EXCEPT !.balls = y].number = x.number /\ [x EXCEPT !.balls = y].balls = y
      BY DEF OverDocs
    <3> QED BY <1>8, <3>2, <3>3
  <2>4. s = [strip EXCEPT ![m] = o]
    BY <1>8
  <2> HIDE DEF o, s
  <2>5. /\ s \in Seq(OverDocs) /\ Len(s) = m /\ DOMAIN s = 1 .. m /\ s[m] = o
        /\ \A i \in 1 .. m : i # m => s[i] = strip[i]
    BY <1>1, <1>2, <1>8, <2>1, <2>3, <2>4
  <2>6. \A i \in 1 .. m : s[i].innings = strip[i].innings /\ s[i].number = strip[i].number
    <3> TAKE i \in 1 .. m
    <3>1. CASE i = m
      BY <1>8, <2>3, <2>5, <3>1
    <3>2. CASE i # m
      BY <2>5, <3>2
    <3> QED BY <3>1, <3>2
  <2>7. CutAt(s, k)
    <3>1. \A i \in 1 .. m - 1 : i \in 1 .. m /\ i + 1 \in 1 .. m
      BY <1>1
    <3>2. m \in 1 .. m /\ s # <<>>
      BY <1>1, <1>2, <2>1, <2>5
    <3> QED BY <1>1, <1>8, <2>1, <2>5, <2>6, <3>1, <3>2 DEF CutAt
  <2>8. s # <<>> /\ last.innings = board.innings
    BY <1>1, <1>2, <1>3, <2>1, <2>5
  <2> QED BY <1>1, <1>7, <1>8, <2>1, <2>2, <2>3, <2>5, <2>7, <2>8
<1> QED BY <1>6, <1>7

\* assignInnings tells the innings of every over it files.
LEMMA FiledRight ==
  ASSUME LineInv, NEW shown, BoardLike(shown), Near(shown)
  PROVE  LET filed == Filed(shown) IN \A i \in DOMAIN filed : filed[i] \in {0, strip[i].innings}
<1>1. CASE strip = <<>>
  BY <1>1 DEF Filed
<1>2. CASE strip # <<>>
  <2> DEFINE m == Len(strip)
             last == strip[m]
             N == [i \in DOMAIN strip |-> strip[i].number]
             current == shown.innings
             final == OversBegun(shown.final)
             falls(i) == N[i] > N[i + 1]
             passed(i) == {j \in 1 .. (m - 1) : j >= i /\ falls(j)}
             newest == IF \E i \in 1 .. (m - 1) : falls(i) THEN (IF current = 1 THEN 2 ELSE current)
                       ELSE IF current > 1 /\ shown.legal = 0 /\ N[m] = final THEN current - 1
                       ELSE current
             twice == \E i \in 1 .. (m - 1) : N[i] = N[i + 1]
  <2>1. m \in Nat \ {0} /\ DOMAIN strip = 1 .. m /\ \A i \in 1 .. m : strip[i] \in OverDocs
    BY <1>2 DEF LineInv, LineTyped
  <2>2. \A i \in 1 .. m : strip[i].innings \in {1, 2} /\ strip[i].number \in Nat \ {0} /\ N[i] = strip[i].number
    BY <2>1 DEF OverDocs
  <2>3. Len(N) = m /\ DOMAIN N = 1 .. m /\ Last(N) = N[m]
    <3>1. N \in Seq(Nat)
      BY <2>1, <2>2
    <3>2. DOMAIN N = 1 .. m
      BY <2>1
    <3> HIDE DEF N, m
    <3> QED BY <2>1, <3>1, <3>2 DEF Last
  <2>4. Filed(shown) = [i \in 1 .. m |-> IF ~twice /\ newest - Cardinality(passed(i)) \in 1 .. current
                                          THEN newest - Cardinality(passed(i)) ELSE 0]
    <3>1. Filed(shown) = AssignInnings(N, current, shown.legal, final)
      BY <1>2 DEF Filed
    <3> HIDE DEF N, m, final
    <3> QED BY <2>3, <3>1 DEF AssignInnings
  <2>5. PICK k \in 0 .. m : CutAt(strip, k)
    BY DEF LineInv
  <2>6. \A i \in 1 .. m : strip[i].innings = (IF i <= k THEN 1 ELSE 2)
    BY <2>1, <2>5 DEF CutAt
  <2>7. \A i \in 1 .. (m - 1) : N[i + 1] = (IF i = k THEN 1 ELSE N[i] + 1) /\ N[i] \in Nat \ {0}
    <3>1. \A i \in 1 .. (m - 1) : i \in 1 .. m /\ i + 1 \in 1 .. m
      BY <2>1
    <3>2. \A i \in 1 .. (m - 1) : strip[i + 1].number = (IF i = k THEN 1 ELSE strip[i].number + 1)
      BY <2>5 DEF CutAt
    <3> HIDE DEF N, m
    <3> QED BY <2>2, <3>1, <3>2
  <2>8. /\ current \in {1, 2} /\ shown.legal \in Nat /\ current <= board.innings /\ board.innings \in {1, 2}
        /\ last.innings <= board.innings
        /\ current < board.innings /\ last.innings = 2 => last.number = 1
        /\ current = 2 => /\ shown.final = board.final
                          /\ last.innings = 1 => shown.legal = 0
                          /\ last.innings = 2 => shown.legal >= BeforeOver(last.number)
        /\ board.innings = 2 /\ last.innings = 1 => last.number = OversBegun(board.final)
    BY <1>2 DEF LineInv, LineTyped, BoardLike, Near, InningsEnds
  <2>9. N[m] = last.number /\ last.number \in Nat \ {0} /\ m \in 1 .. m
    BY <2>1, <2>2
  <2>10. last.innings = 2 /\ last.number = 1 => m >= 2
    BY <1>2, <2>5 DEF CutAt
  <2> HIDE DEF N, last, m
  <2>11. \A i \in 1 .. (m - 1) : falls(i) <=> i = k /\ N[k] > 1
    BY <2>7
  <2>12. k \in 1 .. (m - 1) /\ ~twice => N[k] > 1
    BY <2>7
  <2>13. ASSUME NEW i \in 1 .. m, ~twice
         PROVE  newest - Cardinality(passed(i)) = strip[i].innings
    <3>1. CASE k \in 1 .. (m - 1)
      <4>1. newest = 2
        BY <2>8, <2>11, <2>12, <2>13, <3>1
      <4>2. passed(i) = IF i <= k THEN {k} ELSE {}
        BY <2>1, <2>11, <2>12, <2>13, <3>1
      <4> HIDE DEF newest, passed
      <4>3. CASE i <= k
        <5>1. Cardinality(passed(i)) = 1 /\ strip[i].innings = 1
          BY <2>6, <4>2, <4>3, FS_Singleton
        <5> QED BY <4>1, <5>1
      <4>4. CASE ~(i <= k)
        <5>1. Cardinality(passed(i)) = 0 /\ strip[i].innings = 2
          BY <2>6, <4>2, <4>4, FS_EmptySet
        <5> QED BY <4>1, <5>1
      <4> QED BY <4>3, <4>4
    <3>2. CASE k \notin 1 .. (m - 1)
      <4>1. ~ \E j \in 1 .. (m - 1) : falls(j)
        BY <2>11, <3>2
      <4>2. passed(i) = {}
        BY <4>1
      <4>3. Cardinality(passed(i)) = 0
        <5> HIDE DEF passed
        <5> QED BY <4>2, FS_EmptySet
      <4>4. newest = strip[i].innings
        <5>1. CASE k = m
          <6>1. last.innings = 1 /\ strip[i].innings = 1
            <7>1. i <= k /\ m <= k
              BY <2>1, <5>1
            <7> QED BY <2>6, <2>9, <7>1 DEF last
          <6>2. current = 2 => current > 1 /\ shown.legal = 0 /\ N[m] = final
            BY <2>8, <2>9, <6>1
          <6> HIDE DEF final, falls
          <6> QED BY <2>8, <4>1, <6>1, <6>2
        <5>2. CASE k = 0
          <6>1. last.innings = 2 /\ strip[i].innings = 2
            <7>1. ~(i <= k) /\ ~(m <= k)
              BY <2>1, <5>2
            <7> QED BY <2>6, <2>9, <7>1 DEF last
          <6>2. last.number >= 2
            <7>1. CASE last.number = 1
              <8>1. m >= 2
                BY <2>10, <6>1, <7>1
              <8>2. m - 1 \in 1 .. (m - 1) /\ m - 1 # k /\ (m - 1) + 1 = m
                BY <2>1, <5>2, <8>1
              <8>3. N[m] = N[m - 1] + 1 /\ N[m - 1] \in Nat \ {0}
                BY <2>7, <8>2
              <8> QED BY <2>9, <7>1, <8>3
            <7> QED BY <2>9, <7>1
          <6>3. current = 2
            BY <2>8, <6>1, <6>2
          <6>4. shown.legal # 0
            <7>1. BeforeOver(last.number) >= OverBalls /\ BeforeOver(last.number) \in Nat /\ OverBalls \in Nat \ {0}
              BY <2>9, <6>2, OverTimes, CricketLineAssumption
            <7> QED BY <2>8, <6>1, <6>3, <7>1
          <6> HIDE DEF final, falls
          <6> QED BY <4>1, <6>1, <6>3, <6>4
        <5> QED BY <2>1, <3>2, <5>1, <5>2
      <4> HIDE DEF newest, passed
      <4>5. strip[i].innings \in Int
        BY <2>2
      <4> QED BY <4>3, <4>4, <4>5
    <3> QED BY <3>1, <3>2
  <2> HIDE DEF newest, passed, twice
  <2> QED BY <2>4, <2>13
<1> QED BY <1>1, <1>2

\* Wickets fall to legal balls.  An innings that ends with a batter run out on
\* the first ball of an over, and that an extra, leaves an over its total of
\* legal balls does not tell.
LegalWickets == \A ball \in Happenings : ball.out \in {"on", "off"} => IsLegal(ball)

\* The newest over is of the board's innings or of the one before.
LEMMA LineNumbers ==
  ASSUME LineInv, strip # <<>>
  PROVE  LET last == strip[Len(strip)] IN
         /\ last \in OverDocs /\ Last(strip) = last /\ last.innings \in {1, 2} /\ last.number \in Nat \ {0}
         /\ last.balls \in Seq(Happenings) /\ last.innings <= board.innings
         /\ UnderWay(board) <=> last.innings = board.innings
<1>1. Len(strip) \in Nat \ {0} /\ strip[Len(strip)] \in OverDocs
  BY DEF LineInv, LineTyped
<1> QED BY <1>1 DEF LineInv, Last, UnderWay, OverDocs

\* The ranges of what the scoreboards and the constants count.
LEMMA BoardFacts ==
  ASSUME LineInv
  PROVE  /\ board.innings \in {1, 2} /\ board.legal \in Nat /\ board.wickets \in Nat /\ board.final \in Nat
         /\ behind.innings \in {1, 2} /\ behind.legal \in Nat /\ behind.innings <= board.innings
         /\ strip \in Seq(OverDocs) /\ (board.innings = 2 => strip # <<>>)
         /\ OverBalls \in Nat \ {0} /\ InningsOvers * OverBalls \in Nat \ {0} /\ AllOut \in Nat \ {0}
<1>1. OverBalls \in Nat \ {0} /\ InningsOvers \in Nat \ {0} /\ AllOut \in Nat \ {0}
  BY CricketLineAssumption
<1>2. InningsOvers * OverBalls \in Nat \ {0}
  <2>1. \A x, y \in Nat \ {0} : x * y \in Nat \ {0}
    OBVIOUS
  <2> QED BY <1>1, <2>1
<1>3. /\ board.innings \in {1, 2} /\ board.legal \in Nat /\ board.wickets \in Nat /\ board.final \in Nat
      /\ behind.innings \in {1, 2} /\ behind.legal \in Nat
  BY DEF LineInv, LineTyped, BoardLike
<1>4. behind.innings <= board.innings /\ strip \in Seq(OverDocs) /\ (board.innings = 2 => strip # <<>>)
  BY DEF LineInv, LineTyped, InningsEnds, Near
<1> QED BY <1>1, <1>2, <1>3, <1>4

\* The scoreboard of the match itself may be shown.
LEMMA NearBoard ==
  ASSUME LineInv
  PROVE  Near(board)
<1>1. CASE strip = <<>>
  <2>1. board.innings = 1
    BY <1>1, BoardFacts
  <2> QED BY <2>1 DEF Near
<1>2. CASE strip # <<>>
  <2> DEFINE last == strip[Len(strip)]
  <2>1. /\ last.innings \in {1, 2} /\ last.number \in Nat \ {0} /\ last.innings <= board.innings
        /\ UnderWay(board) <=> last.innings = board.innings
        /\ board.innings \in {1, 2} /\ board.legal \in Nat
    BY <1>2, LineNumbers, BoardFacts
  <2>2. UnderWay(board) => /\ board.legal = BeforeOver(last.number) + Legal(last.balls)
                           /\ Legal(last.balls) \in 0 .. OverBalls
    BY DEF LineInv, BoardAgrees
  <2>3. ~UnderWay(board) => board.legal = 0
    BY DEF LineInv, BoardAgrees
  <2>4. BeforeOver(last.number) \in Nat
    BY <2>1, OverTimes
  <2>5. UnderWay(board) => board.legal >= BeforeOver(last.number)
    <3>1. OverBalls \in Nat
      BY BoardFacts
    <3> HIDE DEF last
    <3> QED BY <2>2, <2>4, <3>1
  <2>6. board.innings = 2 => /\ last.innings = 1 => board.legal = 0
                             /\ last.innings = 2 => board.legal >= BeforeOver(last.number)
    <3> HIDE DEF last
    <3> QED BY <2>1, <2>3, <2>5
  <2> QED BY <2>1, <2>6 DEF Near
<1> QED BY <1>1, <1>2

\* A ball keeps the strip, the scoreboard and what may be shown in step.
LEMMA BallKept ==
  ASSUME LineInv, LegalWickets, NEW ball \in Happenings, BallBowled(ball)
  PROVE  LineInv'
<1> DEFINE over == Longer(ball)[Len(Longer(ball))].balls
           last == strip[Len(strip)]
           s == Longer(ball)
           new == s[Len(s)]
           one == IF IsLegal(ball) THEN 1 ELSE 0
<1>1. /\ board.innings \in {1, 2} /\ board.legal \in Nat /\ board.wickets \in Nat /\ board.final \in Nat
      /\ behind.innings \in {1, 2} /\ behind.legal \in Nat /\ behind.innings <= board.innings
      /\ strip \in Seq(OverDocs) /\ (board.innings = 2 => strip # <<>>)
      /\ OverBalls \in Nat \ {0} /\ InningsOvers * OverBalls \in Nat \ {0} /\ AllOut \in Nat \ {0}
  BY BoardFacts
<1>2. /\ s \in Seq(OverDocs) /\ s # <<>> /\ new.innings = board.innings
      /\ \E j \in 0 .. Len(s) : CutAt(s, j)
      /\ IF FirstOfOver
         THEN new.balls = <<ball>> /\ new.number = (IF UnderWay(board) THEN last.number + 1 ELSE 1)
         ELSE UnderWay(board) /\ new.balls = Append(last.balls, ball) /\ new.number = last.number
  <2>1. PICK k \in 0 .. Len(strip) : CutAt(strip, k)
    BY DEF LineInv
  <2>2. strip # <<>> => strip[Len(strip)].innings <= board.innings
    BY DEF LineInv
  <2> HIDE DEF s, new, last
  <2> QED BY <1>1, <2>1, <2>2, StripGrows DEF s, new, last
<1>3. /\ strip' = s /\ ~InningsOver /\ behind' = (IF UnderWay(board) THEN board ELSE behind)
      /\ \E crossed \in BOOLEAN, ends \in BOOLEAN : board' = After(ball, crossed, ends)
  BY DEF BallBowled, IsLegal
<1>4. /\ BoardLike(board') /\ board'.innings = board.innings /\ board'.final = board.final
      /\ board'.legal = board.legal + one
      /\ board'.wickets = board.wickets \/ (ball.out \in {"on", "off"} /\ board'.wickets = board.wickets + 1)
  <2>1. PICK crossed \in BOOLEAN, ends \in BOOLEAN : board' = After(ball, crossed, ends)
    BY <1>3
  <2>2. BoardLike(board)
    BY DEF LineInv, LineTyped
  <2> QED BY <2>1, <2>2, BallOutcome
<1>5. UnderWay(board) => /\ strip # <<>> /\ last.innings = board.innings /\ last.number \in Nat \ {0}
                         /\ last.balls \in Seq(Happenings) /\ Last(strip) = last
                         /\ board.legal = BeforeOver(last.number) + Legal(last.balls)
                         /\ Legal(last.balls) \in 0 .. OverBalls
                         /\ BeforeOver(last.number) \in Nat
                         /\ BeforeOver(last.number + 1) = BeforeOver(last.number) + OverBalls
  <2>1. ASSUME UnderWay(board) PROVE strip # <<>>
    BY <2>1 DEF UnderWay
  <2>2. UnderWay(board) => /\ last.innings = board.innings /\ last.number \in Nat \ {0}
                           /\ last.balls \in Seq(Happenings) /\ Last(strip) = last
    BY <2>1, LineNumbers
  <2>3. UnderWay(board) => board.legal = BeforeOver(last.number) + Legal(last.balls) /\ Legal(last.balls) \in 0 .. OverBalls
    BY DEF LineInv, BoardAgrees
  <2> HIDE DEF last
  <2> QED BY <2>1, <2>2, <2>3, OverTimes
<1>6. ~UnderWay(board) => board.legal = 0 /\ board.wickets = 0
  BY DEF LineInv, BoardAgrees
<1>7. strip'[Len(strip')] = new /\ strip' # <<>> /\ Last(strip') = new
  BY <1>2, <1>3 DEF Last
<1>8. Legal(<<ball>>) = one /\ (UnderWay(board) => Legal(Append(last.balls, ball)) = Legal(last.balls) + one)
  <2>1. <<>> \in Seq(Happenings)
    OBVIOUS
  <2> HIDE DEF last
  <2> QED BY <1>5, <2>1, LegalCounts
<1>9. BeforeOver(1) = 0
  BY OverTimes
<1>10. one \in {0, 1} /\ (IsLegal(ball) <=> one = 1)
  OBVIOUS
<1> HIDE DEF new, last, s, one
<1>11. FirstOfOver /\ UnderWay(board) => Legal(last.balls) = OverBalls
  BY <1>5 DEF FirstOfOver, UnderWay
<1>12. ~FirstOfOver => Legal(last.balls) # OverBalls
  BY <1>2, <1>5 DEF FirstOfOver
<1>13. UnderWay(board)'
  BY <1>2, <1>4, <1>7 DEF UnderWay
<1>14. new.number \in Nat \ {0} /\ board.legal >= BeforeOver(new.number)
       /\ board'.legal = BeforeOver(new.number) + Legal(new.balls)
       /\ Legal(new.balls) \in 0 .. OverBalls /\ Legal(new.balls) >= one
  <2>1. CASE FirstOfOver
    <3>1. new.balls = <<ball>> /\ Legal(new.balls) = one /\ one \in 0 .. OverBalls
      <4>1. new.balls = <<ball>>
        BY <1>2, <2>1
      <4>2. one \in 0 .. OverBalls
        BY <1>1, <1>10
      <4> QED BY <1>8, <4>1, <4>2
    <3>2. CASE UnderWay(board)
      <4>1. new.number = last.number + 1 /\ last.number \in Nat \ {0}
        BY <1>2, <1>5, <2>1, <3>2
      <4>2. BeforeOver(new.number) = board.legal
        BY <1>5, <1>11, <2>1, <3>2, <4>1
      <4> QED BY <1>1, <1>4, <1>10, <3>1, <4>1, <4>2
    <3>3. CASE ~UnderWay(board)
      <4>1. new.number = 1
        BY <1>2, <2>1, <3>3
      <4>2. BeforeOver(new.number) = 0 /\ board.legal = 0
        BY <1>6, <1>9, <3>3, <4>1
      <4> QED BY <1>1, <1>4, <1>10, <3>1, <4>1, <4>2
    <3> QED BY <3>2, <3>3
  <2>2. CASE ~FirstOfOver
    <3>1. UnderWay(board) /\ new.balls = Append(last.balls, ball) /\ new.number = last.number
      BY <1>2, <2>2
    <3>2. Legal(new.balls) = Legal(last.balls) + one /\ new.number \in Nat \ {0}
      BY <1>5, <1>8, <3>1
    <3>3. /\ board.legal = BeforeOver(new.number) + Legal(last.balls) /\ BeforeOver(new.number) \in Nat
          /\ Legal(last.balls) \in 0 .. OverBalls /\ Legal(last.balls) # OverBalls
      BY <1>5, <1>12, <2>2, <3>1
    <3>4. /\ Legal(last.balls) + one >= one
          /\ board.legal + one = BeforeOver(new.number) + (Legal(last.balls) + one)
          /\ board.legal >= BeforeOver(new.number) /\ Legal(last.balls) + one \in 0 .. OverBalls
      <4> DEFINE before == BeforeOver(new.number)
                 had == Legal(last.balls)
      <4>1. before \in Nat /\ had \in 0 .. OverBalls /\ had # OverBalls /\ board.legal = before + had
        BY <3>3
      <4> HIDE DEF before, had
      <4>2. had + one >= one /\ board.legal + one = before + (had + one) /\ board.legal >= before
            /\ had + one \in 0 .. OverBalls
        <5>1. OverBalls \in Nat /\ one \in {0, 1}
          BY <1>1, <1>10
        <5>2. before \in Nat /\ had \in Nat /\ had <= OverBalls /\ had # OverBalls
          BY <4>1, <5>1
        <5> QED BY <4>1, <5>1, <5>2
      <4> QED BY <4>2 DEF before, had
    <3>5. board'.legal = board.legal + one
      BY <1>4
    <3> QED BY <3>2, <3>4, <3>5
  <2> QED BY <2>1, <2>2
<1>15. BoardAgrees'
  BY <1>7, <1>13, <1>14 DEF BoardAgrees
<1>16. InningsEnds'
  <2>1. ASSUME ~IsLegal(ball) PROVE ~InningsOver'
    <3>1. board'.wickets = board.wickets /\ board'.legal = board.legal
      BY <1>1, <1>4, <1>10, <2>1 DEF LegalWickets
    <3> QED BY <1>3, <3>1 DEF InningsOver
  <2>2. board'.innings = 1 /\ InningsOver' => Legal(strip'[Len(strip')].balls) # 0
    BY <1>7, <1>10, <1>14, <2>1
  <2>3. board'.innings = 2 => strip' # <<>> /\ strip'[Len(strip')].innings = 2
    BY <1>2, <1>4, <1>7
  <2> QED BY <2>2, <2>3 DEF InningsEnds
<1>17. Near(behind)'
  <2>1. CASE UnderWay(board)
    <3>1. behind' = board
      BY <1>3, <2>1
    <3> QED BY <1>1, <1>2, <1>4, <1>7, <1>14, <3>1 DEF Near
  <2>2. CASE ~UnderWay(board)
    <3>1. behind' = behind /\ new.number = 1
      <4>1. FirstOfOver
        BY <1>2, <2>2
      <4> QED BY <1>2, <1>3, <2>2, <4>1
    <3>2. behind.innings = 2 => behind.final = board.final
      BY DEF LineInv, Near
    <3> QED BY <1>1, <1>2, <1>4, <1>7, <1>9, <3>1, <3>2 DEF Near
  <2> QED BY <2>1, <2>2
<1>18. LineTyped'
  <2>1. BoardLike(board) /\ BoardLike(behind)
    BY DEF LineInv, LineTyped
  <2> QED BY <1>2, <1>3, <1>4, <2>1 DEF LineTyped
<1>19. \E k \in 0 .. Len(strip') : CutAt(strip', k)
  BY <1>2, <1>3
<1>20. strip'[Len(strip')].innings <= board'.innings
  BY <1>1, <1>2, <1>4, <1>7
<1> QED BY <1>15, <1>16, <1>17, <1>18, <1>19, <1>20 DEF LineInv

\* So does the change of innings: the strip still shows the first.
LEMMA InningsKept ==
  ASSUME LineInv, NextInnings
  PROVE  LineInv'
<1> DEFINE last == strip[Len(strip)]
<1>1. /\ InningsOver /\ board.innings = 1 /\ board' = Opening(2, board.legal) /\ behind' = board /\ strip' = strip
  BY DEF NextInnings
<1>2. /\ board.legal \in Nat /\ board.wickets \in Nat /\ strip \in Seq(OverDocs)
      /\ OverBalls \in Nat \ {0} /\ InningsOvers * OverBalls \in Nat \ {0} /\ AllOut \in Nat \ {0}
  BY BoardFacts
<1>3. /\ BoardLike(board') /\ board'.innings = 2 /\ board'.final = board.legal
      /\ board'.legal = 0 /\ board'.wickets = 0
  BY <1>1, <1>2 DEF Opening, BoardLike
<1>4. UnderWay(board)
  <2>1. ~UnderWay(board) => board.legal = 0 /\ board.wickets = 0
    BY DEF LineInv, BoardAgrees
  <2> QED BY <1>1, <1>2, <2>1 DEF InningsOver
<1>5. strip # <<>> /\ last.innings = 1 /\ last.number \in Nat \ {0} /\ Last(strip) = last
  <2>1. strip # <<>>
    BY <1>4 DEF UnderWay
  <2> QED BY <1>1, <1>4, <2>1, LineNumbers
<1>6. Legal(last.balls) \in 1 .. OverBalls /\ board.legal = BeforeOver(last.number) + Legal(last.balls)
  <2>1. Legal(last.balls) \in 0 .. OverBalls /\ board.legal = BeforeOver(last.number) + Legal(last.balls)
    BY <1>4 DEF LineInv, BoardAgrees
  <2>2. Legal(last.balls) # 0
    BY <1>1 DEF LineInv, InningsEnds
  <2> HIDE DEF last
  <2> QED BY <1>2, <2>1, <2>2
<1>7. OversBegun(board.legal) = last.number
  <2> HIDE DEF last
  <2> QED BY <1>5, <1>6, OversOfLegal
<1>8. ~UnderWay(board)'
  BY <1>1, <1>3, <1>5 DEF UnderWay
<1>9. BoardAgrees'
  BY <1>3, <1>8 DEF BoardAgrees
<1>10. InningsEnds'
  BY <1>1, <1>3, <1>5, <1>7 DEF InningsEnds
<1>11. Near(behind)'
  BY <1>1, <1>3, <1>5 DEF Near
<1>12. LineTyped'
  BY <1>1, <1>3 DEF LineInv, LineTyped
<1>13. \E k \in 0 .. Len(strip') : CutAt(strip', k)
  BY <1>1 DEF LineInv
<1> QED BY <1>1, <1>3, <1>5, <1>9, <1>10, <1>11, <1>12, <1>13 DEF LineInv

\* Every step of the match and of its readings keeps LineInv.
LEMMA LineKept ==
  ASSUME LineInv, LegalWickets, [CricketLineNext]_lineVars
  PROVE  LineInv'
<1>1. ASSUME NEW ball \in Happenings, BallBowled(ball) PROVE LineInv'
  BY <1>1, BallKept
<1>2. CASE NextInnings
  BY <1>2, InningsKept
<1>3. ASSUME UNCHANGED <<board, strip>>, behind' \in {board, behind} PROVE LineInv'
  <2>1. Near(behind')
    BY <1>3, NearBoard DEF LineInv
  <2>2. Near(behind)' /\ LineTyped' /\ BoardAgrees' /\ InningsEnds'
    BY <1>3, <2>1 DEF LineInv, Near, LineTyped, BoardAgrees, InningsEnds, UnderWay, InningsOver
  <2> QED BY <1>3, <2>2 DEF LineInv
<1>4. CASE ReadTab
  BY <1>3, <1>4 DEF ReadTab
<1>5. CASE ReadList
  BY <1>3, <1>5 DEF ReadList
<1>6. CASE UNCHANGED lineVars
  BY <1>3, <1>6 DEF lineVars
<1> QED BY <1>1, <1>2, <1>4, <1>5, <1>6 DEF CricketLineNext

\* A match that has not begun satisfies LineInv.
LEMMA LineBegins ==
  ASSUME CricketLineInit
  PROVE  LineInv
<1>1. board = Opening(1, 0) /\ behind = board /\ strip = <<>>
  BY DEF CricketLineInit
<1>2. BoardLike(board) /\ board.innings = 1 /\ board.legal = 0 /\ board.wickets = 0
  BY <1>1 DEF Opening, BoardLike
<1>3. ~UnderWay(board)
  BY <1>1 DEF UnderWay
<1>4. ~InningsOver
  BY <1>2, BoardFacts, CricketLineAssumption DEF InningsOver
<1>5. Len(strip) = 0 /\ CutAt(strip, 0)
  BY <1>1 DEF CutAt
<1> QED BY <1>1, <1>2, <1>3, <1>4, <1>5 DEF LineInv, LineTyped, BoardAgrees, InningsEnds, Near

\* An over is filed under the innings it was bowled in, or not at all
\* (assignInnings), whatever the scoreboard shown beside it and however the
\* strip slides: as long as wickets fall to legal balls.
THEOREM OversFiledHolds ==
  ASSUME LegalWickets
  PROVE  Spec => []OversFiled
<1>1. Spec => []LineInv
  <2>1. Init => LineInv
    BY LineBegins DEF Init
  <2>2. LineInv /\ [Next]_vars => LineInv'
    <3> SUFFICES ASSUME LineInv, [Next]_vars PROVE LineInv'
      OBVIOUS
    <3>1. [CricketLineNext]_lineVars
      BY DEF Next, QuotaStep, CadenceStep, ScoreboardStep, ReadingStep, PortfolioStep, AccountsStep, vars
    <3> QED BY <3>1, LineKept
  <2> QED BY <2>1, <2>2, PTL DEF Spec
<1>2. LineInv => OversFiled
  <2> SUFFICES ASSUME LineInv PROVE OversFiled
    OBVIOUS
  <2>1. \A shown \in {board, behind} : BoardLike(shown) /\ Near(shown)
    BY NearBoard DEF LineInv, LineTyped
  <2> QED BY <2>1, FiledRight DEF OversFiled
<1> QED BY <1>1, <1>2, PTL

-----------------------------------------------------------------------------
(* The cadence of the reads (Cadence).                                     *)

GameLike(g) ==
  /\ g = [format |-> g.format, at |-> g.at, phase |-> g.phase, left |-> g.left,
          news |-> g.news, failures |-> g.failures, spent |-> g.spent]
  /\ g.at \in Nat
  /\ g.phase \in {"due", "play", "break", "final", "over"}

\* No match begins at midnight, when the scans have not looked at the day yet.
AfterMidnight == \A p \in Programmes : \A i \in DOMAIN p : p[i].at # 0

\* Whether the live list is read often follows from the matches as they stand.
GamesLike == \A i \in DOMAIN game : GameLike(game[i])
ScansFollow ==
  /\ step \in Nat /\ GamesLike /\ \A i \in DOMAIN game : game[i].at # 0
  /\ step # 0 => DOMAIN game # {} /\ active = setDiscoveryActive(game, step)
  /\ unseen = {}

\* A match keeps its start and goes through the phases.
LEMMA GameGoesOn ==
  ASSUME NEW g, GameLike(g), NEW b \in BOOLEAN, NEW n
  PROVE  GameLike(After10(g, b, n)) /\ After10(g, b, n).at = g.at
<1> DEFINE s == g.spent + Reads(g)
           f == IF n = "errors" THEN Smaller(g.failures + 1, 3) ELSE 0
           read == [g EXCEPT !.spent = @ + Reads(g), !.news = n, !.failures = f]
<1>1. PICK x, t, h, l, o, q, z : g = [format |-> x, at |-> t, phase |-> h, left |-> l,
                                      news |-> o, failures |-> q, spent |-> z]
  BY DEF GameLike
<1>2. t \in Nat /\ h \in {"due", "play", "break", "final", "over"}
  BY <1>1 DEF GameLike
<1>3. read = [format |-> x, at |-> t, phase |-> h, left |-> l, news |-> n, failures |-> f, spent |-> s]
  <2>1. PICK v, w : v = s /\ w = f
    OBVIOUS
  <2>2. read = [[[g EXCEPT !.spent = v] EXCEPT !.news = n] EXCEPT !.failures = w]
    BY <2>1
  <2>3. [g EXCEPT !.spent = v] = [format |-> x, at |-> t, phase |-> h, left |-> l,
                                  news |-> o, failures |-> q, spent |-> v]
    BY <1>1
  <2>4. [[g EXCEPT !.spent = v] EXCEPT !.news = n] = [format |-> x, at |-> t, phase |-> h, left |-> l,
                                                      news |-> n, failures |-> q, spent |-> v]
    <3>1. PICK r : r = [g EXCEPT !.spent = v]
      OBVIOUS
    <3>2. r = [format |-> x, at |-> t, phase |-> h, left |-> l, news |-> o, failures |-> q, spent |-> v]
      BY <2>3, <3>1
    <3>3. [r EXCEPT !.news = n] = [format |-> x, at |-> t, phase |-> h, left |-> l,
                                   news |-> n, failures |-> q, spent |-> v]
      BY ONLY <3>2
    <3> QED BY <3>1, <3>3
  <2> HIDE DEF read, s, f
  <2> QED BY <2>1, <2>2, <2>4
<1> DEFINE Kept(y) == GameLike(y) /\ y.at = g.at
<1>4. t = g.at /\ l = g.left /\ h = g.phase
  BY <1>1
<1>5. \A p \in {"due", "play", "break", "final", "over"} : \A k :
        Kept([format |-> x, at |-> t, phase |-> p, left |-> k, news |-> n, failures |-> f, spent |-> s])
  <2> HIDE DEF s, f
  <2> QED BY <1>2, <1>4 DEF GameLike
<1>6. Kept(read) /\ \A p \in {"play", "over"} : Kept([read EXCEPT !.phase = p])
  <2> HIDE DEF read, s, f, Kept
  <2>1. ASSUME NEW p \in {"play", "over"} PROVE Kept([read EXCEPT !.phase = p])
    <3>1. [read EXCEPT !.phase = p] = [format |-> x, at |-> t, phase |-> p, left |-> l,
                                       news |-> n, failures |-> f, spent |-> s]
      BY <1>3
    <3> QED BY <1>5, <3>1
  <2> QED BY <1>2, <1>3, <1>5, <2>1
<1>7. \A m : Kept([read EXCEPT !.left = @ - 1, !.phase = Phase(g, m)])
  <2>1. ASSUME NEW m PROVE Kept([read EXCEPT !.left = @ - 1, !.phase = Phase(g, m)])
    <3>1. PICK p : p = Phase(g, m)
      OBVIOUS
    <3>2. p \in {"final", "break", "play"}
      BY <3>1 DEF Phase
    <3> HIDE DEF read, s, f, Kept
    <3>3. PICK k : k = l - 1
      OBVIOUS
    <3>4. [read EXCEPT !.left = @ - 1, !.phase = p] = [[read EXCEPT !.left = @ - 1] EXCEPT !.phase = p]
      OBVIOUS
    <3>5. [read EXCEPT !.left = @ - 1] = [format |-> x, at |-> t, phase |-> h, left |-> k,
                                          news |-> n, failures |-> f, spent |-> s]
      BY <1>3, <3>3
    <3>6. [read EXCEPT !.left = @ - 1, !.phase = p] = [format |-> x, at |-> t, phase |-> p, left |-> k,
                                                       news |-> n, failures |-> f, spent |-> s]
      <4>1. PICK r : r = [read EXCEPT !.left = @ - 1]
        OBVIOUS
      <4>2. r = [format |-> x, at |-> t, phase |-> h, left |-> k, news |-> n, failures |-> f, spent |-> s]
        BY <3>5, <4>1
      <4>3. [r EXCEPT !.phase = p] = [format |-> x, at |-> t, phase |-> p, left |-> k,
                                      news |-> n, failures |-> f, spent |-> s]
        BY ONLY <4>2
      <4> QED BY <3>4, <4>1, <4>3
    <3> QED BY <1>5, <3>1, <3>2, <3>6
  <2> QED BY <2>1
<1>8. After10(g, b, n) \in {read, [read EXCEPT !.phase = "play"], [read EXCEPT !.phase = "over"],
                            [read EXCEPT !.left = @ - 1, !.phase = Phase(g, g.left - 1)]}
  BY <1>1, <1>2 DEF After10
<1>9. Kept(After10(g, b, n))
  <2> HIDE DEF read, Kept
  <2> QED BY <1>6, <1>7, <1>8
<1> QED BY <1>9

\* Every step of the cadence keeps the records of the matches.
LEMMA GamesStep ==
  ASSUME GamesLike, [CadenceNext]_cadenceVars
  PROVE  GamesLike'
<1>1. CASE UNCHANGED cadenceVars
  BY <1>1 DEF GamesLike, cadenceVars
<1>2. CASE DayBegins
  <2>1. PICK p \in Programmes :
          game' = [i \in DOMAIN p |-> [format |-> p[i].format, at |-> p[i].at, phase |-> "due",
                                       left |-> Length(p[i].format), news |-> "runs",
                                       failures |-> 0, spent |-> 0]]
    BY <1>2 DEF DayBegins
  <2>2. ASSUME NEW i \in DOMAIN game' PROVE GameLike(game'[i])
    <3>1. p[i].at \in Nat
      BY <2>1, <2>2, CadenceAssumption
    <3>2. PICK l : l = Length(p[i].format)
      OBVIOUS
    <3> QED BY <2>1, <2>2, <3>1, <3>2 DEF GameLike
  <2> QED BY <2>2 DEF GamesLike
<1>3. ASSUME NEW b \in SUBSET DOMAIN game, NEW n, TenMinutes(b, n) PROVE GamesLike'
  <2>1. game' = [i \in DOMAIN game |-> After10(game[i], i \in b, n[i])]
    BY <1>3 DEF TenMinutes
  <2>2. ASSUME NEW i \in DOMAIN game PROVE GameLike(game'[i])
    <3>1. GameLike(game[i]) /\ (i \in b) \in BOOLEAN
      BY DEF GamesLike
    <3>2. GameLike(After10(game[i], i \in b, n[i]))
      BY <3>1, GameGoesOn
    <3> QED BY <2>1, <3>2
  <2> QED BY <2>1, <2>2 DEF GamesLike
<1> QED BY <1>1, <1>2, <1>3 DEF CadenceNext

\* Steps of other parts leave the cadence alone.
LEMMA CadenceAlone == [Next]_vars => [CadenceNext]_cadenceVars
BY DEF Next, QuotaStep, CadenceStep, ScoreboardStep, ReadingStep, PortfolioStep, AccountsStep, vars

\* A feed that is valid for four waits and a slow answer outlasts the next
\* wait with its jitter, whatever the wait.
LEMMA WaitsFit ==
  ASSUME NEW wait \in Nat
  PROVE  feedValidityForInterval(wait) >= Latest(wait)
<1>1. (11 * wait + 9) \div 10 <= 2 * wait + 1
  OBVIOUS
<1>2. 4 * wait + 25 >= 2 * wait + 1 + 16
  OBVIOUS
<1> QED BY <1>1, <1>2 DEF feedValidityForInterval, Latest, Larger, cfg, Tick

\* The wait that is scheduled for a match in play.
LEMMA PlayingWait ==
  ASSUME NEW i \in Playing
  PROVE  intervalForProjection(game[i]) \in {6, 10, 15, 20}
<1>1. game[i].phase \in {"play", "break"}
  BY DEF Playing, On
<1>2. \A n : adaptivePollInterval(n) \in {6, 10}
  BY DEF adaptivePollInterval, Larger, cfg
<1>3. pacedPollInterval \in {6, 10, 20}
  BY <1>2 DEF pacedPollInterval, budgetPacedInterval, Larger, cfg
<1>4. \A f : formatPollInterval(f, pacedPollInterval) \in {6, 10, 20}
  BY <1>3 DEF formatPollInterval, Larger, cfg
<1> QED BY <1>1, <1>4 DEF intervalForProjection, cfg

\* A match whose reads succeed, that is listed and whose score moves, is read
\* again before the watchdog takes its feed for stale (feedValidityForInterval
\* against nextPollInterval): at every cadence, for any number of matches at
\* once and whatever was spent.
THEOREM FreshBetweenReadsHolds == Spec => []FreshBetweenReads
<1>1. FreshBetweenReads
  <2> SUFFICES ASSUME NEW i \in Playing, game[i].news = "runs"
               PROVE  feedValidityForInterval(intervalForProjection(game[i])) >= Latest(NextPoll(game[i]))
    BY DEF FreshBetweenReads
  <2>1. intervalForProjection(game[i]) \in Nat
    BY PlayingWait
  <2>2. NextPoll(game[i]) = intervalForProjection(game[i])
    BY DEF NextPoll, clampAbsentProbe, quietFeedInterval
  <2> QED BY <2>1, <2>2, WaitsFit
<1> QED BY <1>1, PTL

\* A match whose score stands still is read once a minute, which the validity of
\* its feed does not cover (worker.go:734): it is read again at most 22 seconds
\* after the feed went stale, at every cadence.
THEOREM QuietIsStaleBrieflyHolds == Spec => []QuietIsStaleBriefly
<1>1. QuietIsStaleBriefly
  <2> SUFFICES ASSUME NEW i \in Playing, game[i].news = "lull"
               PROVE  feedValidityForInterval(intervalForProjection(game[i])) + 22
                        >= Latest(NextPoll(game[i]))
    BY DEF QuietIsStaleBriefly
  <2>1. NextPoll(game[i]) = 60
    <3>1. Larger(intervalForProjection(game[i]), 60) = 60
      BY PlayingWait DEF Larger
    <3>2. On(game[i])
      BY DEF Playing
    <3> QED BY <3>1, <3>2 DEF NextPoll, clampAbsentProbe, quietFeedInterval, cfg
  <2>2. Latest(60) = 82
    <3>1. (11 * 60 + 9) \div 10 = 66
      OBVIOUS
    <3> QED BY <3>1 DEF Latest, cfg, Tick
  <2>3. feedValidityForInterval(intervalForProjection(game[i])) >= 60
    BY PlayingWait DEF feedValidityForInterval, Larger, cfg
  <2>4. \A v \in Int : v >= 60 => v + 22 >= 82
    OBVIOUS
  <2>5. feedValidityForInterval(intervalForProjection(game[i])) \in Int
    BY PlayingWait DEF feedValidityForInterval, Larger, cfg
  <2> QED BY <2>1, <2>2, <2>3, <2>4, <2>5
<1> QED BY <1>1, PTL

\* Ten minutes leave the scans following the matches, and no start unseen.
LEMMA ScansGoOn ==
  ASSUME ScansFollow, NEW b \in SUBSET DOMAIN game, NEW n, TenMinutes(b, n)
  PROVE  /\ step' \in Nat /\ \A i \in DOMAIN game' : game'[i].at # 0
         /\ DOMAIN game' # {} /\ active' = setDiscoveryActive(game', step') /\ unseen' = {}
<1>1. /\ step' = step + 1 /\ active' = setDiscoveryActive(game', step')
      /\ game' = [i \in DOMAIN game |-> After10(game[i], i \in b, n[i])]
      /\ unseen' = unseen \cup (IF active THEN {} ELSE {i \in b : step - game[i].at <= 5})
      /\ b \subseteq {i \in DOMAIN game : game[i].phase = "due" /\ step >= game[i].at}
      /\ DOMAIN game # {}
  BY DEF TenMinutes
<1>2. step \in Nat /\ step' \in Nat
  BY <1>1 DEF ScansFollow
<1>3. ASSUME NEW i \in DOMAIN game' PROVE game'[i].at # 0
  <2>1. GameLike(game[i]) /\ game[i].at # 0 /\ (i \in b) \in BOOLEAN
    BY <1>1, <1>3 DEF ScansFollow, GamesLike
  <2>2. After10(game[i], i \in b, n[i]).at = game[i].at
    BY <2>1, GameGoesOn
  <2> QED BY <1>1, <1>3, <2>1, <2>2
<1>4. ASSUME NEW i \in b, step - game[i].at <= 5 PROVE active
  <2>1. game[i].phase = "due" /\ step >= game[i].at /\ game[i].at \in Nat \ {0} /\ i \in DOMAIN game
    BY <1>1 DEF ScansFollow, GamesLike, GameLike
  <2>2. step # 0 /\ game[i].at - step \in -5 .. 3
    BY <1>2, <1>4, <2>1
  <2>3. setDiscoveryActive(game, step)
    BY <2>1, <2>2 DEF setDiscoveryActive
  <2> QED BY <2>2, <2>3 DEF ScansFollow
<1>5. unseen' = {}
  BY <1>1, <1>4 DEF ScansFollow
<1> QED BY <1>1, <1>2, <1>3, <1>5

\* A match that begins up to an hour late is seen within a minute
\* (setDiscoveryActive), for any programme of a day, any delays, lulls and
\* failures, and however many requests were spent.
THEOREM StartsNoticedHolds ==
  ASSUME AfterMidnight
  PROVE  Spec => []StartsNoticed
<1>1. Init => ScansFollow
  BY DEF Init, CadenceInit, ScansFollow, GamesLike
<1>2. ScansFollow /\ [Next]_vars => ScansFollow'
  <2> SUFFICES ASSUME ScansFollow, [CadenceNext]_cadenceVars PROVE ScansFollow'
    BY CadenceAlone
  <2>1. GamesLike'
    BY GamesStep DEF ScansFollow
  <2>2. CASE UNCHANGED cadenceVars
    BY <2>1, <2>2 DEF ScansFollow, cadenceVars
  <2>3. CASE DayBegins
    <3>1. /\ game = <<>> /\ UNCHANGED <<step, unseen>>
          /\ \E p \in Programmes : /\ DOMAIN game' = DOMAIN p
                                   /\ \A i \in DOMAIN p : game'[i].at = p[i].at
      BY <2>3 DEF DayBegins
    <3>2. step = 0
      BY <3>1 DEF ScansFollow
    <3>3. \A i \in DOMAIN game' : game'[i].at # 0
      BY <3>1 DEF AfterMidnight
    <3> QED BY <2>1, <3>1, <3>2, <3>3 DEF ScansFollow
  <2>4. ASSUME NEW b \in SUBSET DOMAIN game, NEW n, TenMinutes(b, n) PROVE ScansFollow'
    BY <2>1, <2>4, ScansGoOn DEF ScansFollow
  <2> QED BY <2>2, <2>3, <2>4 DEF CadenceNext
<1>3. ScansFollow => StartsNoticed
  BY DEF ScansFollow, StartsNoticed
<1> QED BY <1>1, <1>2, <1>3, PTL DEF Spec
=============================================================================
