--------------------------- MODULE BroadcastProofs -------------------------
(***************************************************************************)
(* What a match shown to viewers guarantees for every instance: the        *)
(* outbox, the convergence of the stored balls, the viewer's gaps, and     *)
(* replays of a recording.                                                 *)
(***************************************************************************)
EXTENDS Broadcast, TotalsProofs, FiniteSetTheorems, TLAPS

-----------------------------------------------------------------------------
(* Events of a poll have an order.                                         *)

Places == Nat \X Nat
OnePerBall(S) ==
  /\ \A e \in S : e.ball \in Places
  /\ \A e, f \in S : e.ball = f.ball => e = f
IsOrder(s, S) ==
  /\ s \in [1..Cardinality(S) -> S]
  /\ \A i, j \in DOMAIN s : i < j => Before(s[i].ball, s[j].ball)

LEMMA BeforeTotal ==
  ASSUME NEW b \in Places, NEW c \in Places
  PROVE  b = c \/ Before(b, c) \/ Before(c, b)
BY DEF Before, Places

LEMMA BeforeTransitive ==
  ASSUME NEW b \in Places, NEW c \in Places, NEW d \in Places, Before(b, c), Before(c, d)
  PROVE  Before(b, d)
BY DEF Before, Places

LEMMA SmallerSet ==
  ASSUME NEW s, IsFiniteSet(s), NEW x \in s
  PROVE  /\ IsFiniteSet(s \ {x}) /\ Cardinality(s) \in Nat \ {0}
         /\ Cardinality(s \ {x}) = Cardinality(s) - 1
<1>1. Cardinality(s) \in Nat /\ Cardinality(s) # 0
  BY FS_CardinalityType, FS_EmptySet
<1> QED BY <1>1, FS_RemoveElement

\* One of the events is the last in the order of play.
LEMMA LastExists ==
  ASSUME NEW S, IsFiniteSet(S), OnePerBall(S), S # {}
  PROVE  \E m \in S : \A e \in S \ {m} : Before(e.ball, m.ball)
<1> DEFINE HasLast(T) == \E m \in T : \A e \in T \ {m} : Before(e.ball, m.ball)
           Bad == {n \in Nat : \E T \in SUBSET S : Cardinality(T) = n /\ T # {} /\ ~HasLast(T)}
<1>1. SUFFICES ASSUME Bad # {} PROVE FALSE
  <2>1. Cardinality(S) \in Nat
    BY FS_CardinalityType
  <2> QED BY <2>1
<1>2. PICK k \in Bad : \A j \in Bad : k <= j
  <2> HIDE DEF HasLast
  <2> QED BY <1>1, LeastNatural
<1>3. PICK T \in SUBSET S : Cardinality(T) = k /\ T # {} /\ ~HasLast(T)
  <2> HIDE DEF HasLast
  <2> QED BY <1>2
<1>4. PICK x \in T : TRUE
  BY <1>3
<1>5. k - 1 \in Nat /\ k - 1 \notin Bad /\ Cardinality(T \ {x}) = k - 1
  <2>1. Cardinality(T \ {x}) = k - 1 /\ k \in Nat \ {0}
    BY <1>3, FS_Subset, SmallerSet
  <2>2. k - 1 \in Nat /\ ~(k <= k - 1)
    BY <2>1
  <2> HIDE DEF Bad
  <2> QED BY <1>2, <2>1, <2>2
<1>6. T \ {x} # {}
  BY <1>3 DEF HasLast
<1>7. HasLast(T \ {x})
  <2> HIDE DEF HasLast
  <2>1. T \ {x} \in SUBSET S
    OBVIOUS
  <2> QED BY <1>5, <1>6, <2>1
<1>8. PICK m \in T \ {x} : \A e \in (T \ {x}) \ {m} : Before(e.ball, m.ball)
  BY <1>7
<1>9. /\ \A e \in T : e.ball \in Places
      /\ m.ball # x.ball
  BY <1>8 DEF OnePerBall
<1>10. CASE Before(x.ball, m.ball)
  BY <1>3, <1>8, <1>10
<1>11. CASE Before(m.ball, x.ball)
  <2>1. \A e \in T \ {x} : Before(e.ball, x.ball)
    BY <1>8, <1>9, <1>11, BeforeTransitive
  <2> QED BY <1>3, <2>1
<1> QED BY <1>8, <1>9, <1>10, <1>11, BeforeTotal

\* InOrder yields the events, each once, the earlier ball first.
LEMMA OrderExists ==
  ASSUME NEW S, IsFiniteSet(S), OnePerBall(S)
  PROVE  \E s : IsOrder(s, S)
<1> DEFINE Ordered(T) == \E s : IsOrder(s, T)
           Bad == {n \in Nat : \E T \in SUBSET S : Cardinality(T) = n /\ ~Ordered(T)}
<1>1. SUFFICES ASSUME Bad # {} PROVE FALSE
  <2>1. Cardinality(S) \in Nat
    BY FS_CardinalityType
  <2> QED BY <2>1
<1>2. PICK k \in Bad : \A j \in Bad : k <= j
  <2> HIDE DEF Ordered
  <2> QED BY <1>1, LeastNatural
<1>3. PICK T \in SUBSET S : Cardinality(T) = k /\ ~Ordered(T)
  <2> HIDE DEF Ordered
  <2> QED BY <1>2
<1>4. IsFiniteSet(T) /\ OnePerBall(T)
  BY FS_Subset DEF OnePerBall
<1>5. T # {}
  <2>1. ASSUME T = {} PROVE FALSE
    <3>1. Cardinality(T) = 0
      BY <2>1, FS_EmptySet
    <3>2. IsOrder([i \in {} |-> i], T)
      BY <2>1, <3>1 DEF IsOrder
    <3> QED BY <1>3, <3>2
  <2> QED BY <2>1
<1>6. PICK m \in T : \A e \in T \ {m} : Before(e.ball, m.ball)
  BY <1>4, <1>5, LastExists
<1>7. k - 1 \in Nat /\ k - 1 \notin Bad /\ Cardinality(T \ {m}) = k - 1
  <2>1. Cardinality(T \ {m}) = k - 1 /\ k \in Nat \ {0}
    BY <1>3, <1>4, SmallerSet
  <2>2. k - 1 \in Nat /\ ~(k <= k - 1)
    BY <2>1
  <2> HIDE DEF Bad
  <2> QED BY <1>2, <2>1, <2>2
<1>8. PICK s : IsOrder(s, T \ {m})
  <2>1. Ordered(T \ {m})
    <3> HIDE DEF Ordered
    <3>1. T \ {m} \in SUBSET S
      OBVIOUS
    <3> QED BY <1>7, <3>1
  <2> QED BY <2>1
<1> DEFINE t == [i \in 1..k |-> IF i = k THEN m ELSE s[i]]
<1>9. IsOrder(t, T)
  <2>1. s \in [1..(k - 1) -> T \ {m}] /\ \A i, j \in 1..(k - 1) : i < j => Before(s[i].ball, s[j].ball)
    BY <1>7, <1>8 DEF IsOrder
  <2>2. k \in Nat /\ \A i \in 1..k : i # k => i \in 1..(k - 1)
    BY <1>7, <1>2
  <2>3. t \in [1..k -> T]
    BY <2>1, <2>2
  <2>4. ASSUME NEW i \in 1..k, NEW j \in 1..k, i < j PROVE Before(t[i].ball, t[j].ball)
    <3>1. i # k /\ i \in 1..(k - 1) /\ t[i] = s[i] /\ s[i] \in T \ {m}
      BY <2>1, <2>2, <2>4
    <3>2. CASE j = k
      BY <1>6, <3>1, <3>2
    <3>3. CASE j # k
      BY <2>1, <2>2, <2>4, <3>1, <3>3
    <3> QED BY <3>2, <3>3
  <2> HIDE DEF t
  <2> QED BY <1>3, <2>3, <2>4 DEF IsOrder
<1> QED BY <1>3, <1>9

LEMMA InOrderOrders ==
  ASSUME NEW S, IsFiniteSet(S), OnePerBall(S)
  PROVE  /\ IsOrder(InOrder(S), S) /\ InOrder(S) \in Seq(S) /\ Len(InOrder(S)) = Cardinality(S)
         /\ Cardinality(S) \in Nat
<1>1. IsOrder(InOrder(S), S)
  BY OrderExists DEF InOrder, IsOrder
<1>2. Cardinality(S) \in Nat
  BY FS_CardinalityType
<1> QED BY <1>1, <1>2 DEF IsOrder

\* Every event is in the order somewhere.
LEMMA InOrderCovers ==
  ASSUME NEW S, IsFiniteSet(S), OnePerBall(S), NEW e \in S
  PROVE  \E i \in DOMAIN InOrder(S) : InOrder(S)[i] = e
<1>1. PICK s, n : s = InOrder(S) /\ n = Cardinality(S)
  OBVIOUS
<1>2. n \in Nat /\ s \in [1..n -> S] /\ \A i, j \in 1..n : i < j => Before(s[i].ball, s[j].ball)
  BY <1>1, InOrderOrders DEF IsOrder
<1>3. \A i, j \in 1..n : s[i] = s[j] => i = j
  <2>1. \A i \in 1..n : s[i].ball \in Places
    BY <1>2 DEF OnePerBall
  <2>2. \A b \in Places : ~Before(b, b)
    BY DEF Before, Places
  <2> QED BY <1>2, <2>1, <2>2
<1>4. s \in Injection(1..n, S)
  BY <1>2, <1>3 DEF Injection, IsInjective
<1>5. IsFiniteSet(1..n) /\ Cardinality(1..n) = n
  BY <1>2, FS_Interval
<1>6. s \in Surjection(1..n, S)
  BY <1>1, <1>4, <1>5, FS_Injection
<1> QED BY <1>1, <1>2, <1>6 DEF Surjection

-----------------------------------------------------------------------------
(* Documents of the provider and stored balls.                             *)

Statuses == {"live", "break", "done"}
Kept == [rev : Nat, hash : Contents, gone : BOOLEAN, missed : BOOLEAN]
Event == [ball : Places, rev : Nat, hash : Contents, gone : BOOLEAN]

IsDoc(doc) ==
  IsFiniteSet(DOMAIN doc) /\ DOMAIN doc \subseteq Places /\ doc \in [DOMAIN doc -> Contents]
IsStore(s) ==
  IsFiniteSet(DOMAIN s) /\ DOMAIN s \subseteq Places /\ s \in [DOMAIN s -> Kept]

ProviderTypeOK ==
  /\ truth \in [1..Overs -> Seq(Contents)] /\ phase \in Statuses /\ IsDoc(earlier)
StoreTypeOK ==
  /\ IsStore(stored) /\ IsDoc(applied[1]) /\ applied = <<applied[1], applied[2]>>
  /\ polls \in Nat /\ calm \in Nat /\ outbox \in Seq(Event)

LEMMA NoBallsShown == IsDoc(NoBalls) /\ DOMAIN NoBalls = {}
BY FS_EmptySet DEF NoBalls, IsDoc

LEMMA ShownIsDoc ==
  ASSUME ProviderTypeOK
  PROVE  IsDoc(Shown)
<1> DEFINE Of(o) == {<<o, i>> : i \in 1..Len(truth[o])}
           All == {Of(o) : o \in Recent}
           D == UNION All
<1>1. Recent \subseteq 1..Overs /\ IsFiniteSet(Recent)
  <2>1. Recent \subseteq 1..Overs
    BY DEF Recent, Begun
  <2>2. IsFiniteSet(1..Overs)
    BY FS_Interval, DeliveriesAssumption
  <2> QED BY <2>1, <2>2, FS_Subset
<1>2. \A o \in 1..Overs : truth[o] \in Seq(Contents) /\ Len(truth[o]) \in Nat
  BY DEF ProviderTypeOK
<1>3. IsFiniteSet(All)
  <2>1. [o \in Recent |-> Of(o)] \in Surjection(Recent, All)
    BY DEF Surjection
  <2> HIDE DEF All
  <2> QED BY <1>1, <2>1, FS_Surjection DEF ExistsSurjection
<1>4. ASSUME NEW o \in Recent PROVE IsFiniteSet(Of(o))
  <2>1. IsFiniteSet(1..Len(truth[o]))
    BY <1>1, <1>2, FS_Interval
  <2>2. [i \in 1..Len(truth[o]) |-> <<o, i>>] \in Surjection(1..Len(truth[o]), Of(o))
    BY DEF Surjection
  <2> HIDE DEF Of
  <2> QED BY <2>1, <2>2, FS_Surjection DEF ExistsSurjection
<1>5. IsFiniteSet(D)
  <2>1. \A T \in All : IsFiniteSet(T)
    BY <1>4
  <2> HIDE DEF All
  <2> QED BY <1>3, <2>1, FS_UNION
<1>6. \A b \in D : b \in Places /\ truth[b[1]][b[2]] \in Contents
  <2> SUFFICES ASSUME NEW o \in Recent, NEW i \in 1..Len(truth[o])
               PROVE  <<o, i>> \in Places /\ truth[o][i] \in Contents
    OBVIOUS
  <2>1. o \in Nat /\ i \in Nat
    BY <1>1, <1>2
  <2> QED BY <1>1, <1>2, <2>1 DEF Places
<1>7. Shown = [b \in D |-> truth[b[1]][b[2]]]
  BY DEF Shown
<1> HIDE DEF D
<1> QED BY <1>5, <1>6, <1>7 DEF IsDoc

-----------------------------------------------------------------------------
(* What a poll does to the stored balls.                                   *)

\* The same balls but for their marks.
Alike(s, t) ==
  /\ DOMAIN s = DOMAIN t
  /\ \A b \in DOMAIN s : s[b].rev = t[b].rev /\ s[b].hash = t[b].hash /\ s[b].gone = t[b].gone

LEMMA MarksOnly ==
  ASSUME NEW s, IsStore(s), NEW m, \A b \in DOMAIN s : m[b] \in BOOLEAN,
         NEW t, t = [b \in DOMAIN s |-> [s[b] EXCEPT !.missed = m[b]]]
  PROVE  IsStore(t) /\ Alike(s, t)
<1>1. ASSUME NEW b \in DOMAIN s
      PROVE  t[b] \in Kept /\ s[b].rev = t[b].rev /\ s[b].hash = t[b].hash /\ s[b].gone = t[b].gone
  <2>1. PICK x \in Kept : x = s[b]
    BY DEF IsStore
  <2>2. PICK v \in BOOLEAN : v = m[b]
    OBVIOUS
  <2>3. t[b] = [x EXCEPT !.missed = v]
    BY <2>1, <2>2
  <2>4. [x EXCEPT !.missed = v] \in Kept
    BY DEF Kept
  <2> QED BY <2>1, <2>3, <2>4 DEF Kept
<1>2. DOMAIN t = DOMAIN s
  OBVIOUS
<1>3. t = [b \in DOMAIN s |-> t[b]]
  OBVIOUS
<1> HIDE DEF Kept
<1> QED BY <1>1, <1>2, <1>3 DEF IsStore, Alike

LEMMA UnmarkedAlike ==
  ASSUME NEW s, IsStore(s), NEW doc
  PROVE  IsStore(Unmarked(s, doc)) /\ Alike(s, Unmarked(s, doc))
<1> DEFINE m == [b \in DOMAIN s |-> s[b].missed /\ b \notin DOMAIN doc]
<1>1. \A b \in DOMAIN s : m[b] \in BOOLEAN
  OBVIOUS
<1>2. Unmarked(s, doc) = [b \in DOMAIN s |-> [s[b] EXCEPT !.missed = m[b]]]
  BY DEF Unmarked
<1> HIDE DEF m
<1> QED BY <1>1, <1>2, MarksOnly

LEMMA MarkedAlike ==
  ASSUME NEW s, IsStore(s), NEW doc
  PROVE  IsStore(Marked(s, doc)) /\ Alike(s, Marked(s, doc))
<1> DEFINE m == [b \in DOMAIN s |-> s[b].missed \/ b \in Absent(s, doc)]
<1>1. \A b \in DOMAIN s : m[b] \in BOOLEAN
  OBVIOUS
<1>2. Marked(s, doc) = [b \in DOMAIN s |-> [s[b] EXCEPT !.missed = m[b]]]
  BY DEF Marked
<1> HIDE DEF m
<1> QED BY <1>1, <1>2, MarksOnly

\* What applying a document makes of a ball.
AppliedTo(s, doc, t) ==
  /\ IsStore(t) /\ DOMAIN t = DOMAIN s \cup DOMAIN doc
  /\ \A b \in DOMAIN doc : t[b].hash = doc[b] /\ ~t[b].gone
  /\ \A b \in DOMAIN s \ DOMAIN doc : t[b].gone = (s[b].gone \/ InWindow(doc, b))
  /\ \A b \in DOMAIN s :
       \/ t[b] = s[b]
       \/ t[b].rev = s[b].rev + 1 /\ (t[b].hash # s[b].hash \/ t[b].gone # s[b].gone)

LEMMA AppliedBalls ==
  ASSUME NEW s, IsStore(s), NEW doc, IsDoc(doc)
  PROVE  AppliedTo(s, doc, ApplyEvents(s, doc))
<1>0. PICK t : t = ApplyEvents(s, doc)
  OBVIOUS
<1>1. DOMAIN t = DOMAIN s \cup DOMAIN doc
  BY <1>0 DEF ApplyEvents
<1>2. IsFiniteSet(DOMAIN t) /\ DOMAIN t \subseteq Places
  BY <1>1, FS_Union DEF IsStore, IsDoc
<1>3. ASSUME NEW b \in DOMAIN s
      PROVE  s[b] \in Kept /\ s[b].rev \in Nat /\ s[b].gone \in BOOLEAN /\ s[b].hash \in Contents
  BY DEF IsStore, Kept
<1>4. ASSUME NEW b \in DOMAIN doc, b \notin DOMAIN s
      PROVE  t[b] \in Kept /\ t[b].hash = doc[b] /\ ~t[b].gone
  <2>1. t[b] = [rev |-> 1, hash |-> doc[b], gone |-> FALSE, missed |-> FALSE]
    BY <1>0, <1>4 DEF ApplyEvents, Absent
  <2>2. doc[b] \in Contents
    BY DEF IsDoc
  <2> QED BY <2>1, <2>2 DEF Kept
<1>5. ASSUME NEW b \in DOMAIN s, b \in DOMAIN doc
      PROVE  /\ t[b] \in Kept /\ t[b].hash = doc[b] /\ ~t[b].gone
             /\ \/ t[b] = s[b]
                \/ t[b].rev = s[b].rev + 1 /\ (t[b].hash # s[b].hash \/ t[b].gone # s[b].gone)
  <2>1. CASE Differs(s, doc, b)
    <3>1. t[b] = [rev |-> s[b].rev + 1, hash |-> doc[b], gone |-> FALSE, missed |-> FALSE]
      BY <1>0, <1>5, <2>1 DEF ApplyEvents, Absent
    <3>2. doc[b] \in Contents
      BY <1>5 DEF IsDoc
    <3>3. s[b].rev + 1 \in Nat /\ (s[b].gone \/ s[b].hash # doc[b])
      BY <1>3, <2>1 DEF Differs
    <3>4. t[b].rev = s[b].rev + 1 /\ t[b].hash = doc[b] /\ t[b].gone = FALSE
      BY <3>1
    <3>5. t[b] \in Kept
      BY <3>1, <3>2, <3>3 DEF Kept
    <3> QED BY <3>3, <3>4, <3>5
  <2>2. CASE ~Differs(s, doc, b)
    <3>1. t[b] = s[b]
      BY <1>0, <1>5, <2>2 DEF ApplyEvents, Absent
    <3> QED BY <1>3, <2>2, <3>1 DEF Differs
  <2> QED BY <2>1, <2>2
<1>6. ASSUME NEW b \in DOMAIN s, b \notin DOMAIN doc
      PROVE  /\ t[b] \in Kept /\ t[b].gone = (s[b].gone \/ InWindow(doc, b))
             /\ \/ t[b] = s[b]
                \/ t[b].rev = s[b].rev + 1 /\ (t[b].hash # s[b].hash \/ t[b].gone # s[b].gone)
  <2>1. CASE b \in Absent(s, doc)
    <3>1. t[b] = Tombstone(s, b)
      BY <1>0, <1>6, <2>1 DEF ApplyEvents
    <3>2. ~s[b].gone /\ InWindow(doc, b)
      BY <2>1 DEF Absent
    <3>3. PICK x \in Kept : x = s[b]
      BY <1>3
    <3>4. t[b] = [x EXCEPT !.rev = x.rev + 1, !.gone = TRUE]
      BY <3>1, <3>3, Zenon DEF Tombstone
    <3>5. /\ [x EXCEPT !.rev = x.rev + 1, !.gone = TRUE] \in Kept
          /\ [x EXCEPT !.rev = x.rev + 1, !.gone = TRUE].rev = x.rev + 1
          /\ [x EXCEPT !.rev = x.rev + 1, !.gone = TRUE].gone
      <4>1. PICK n \in Nat : n = x.rev + 1
        BY DEF Kept
      <4>2. /\ [x EXCEPT !.rev = n, !.gone = TRUE] \in Kept
            /\ [x EXCEPT !.rev = n, !.gone = TRUE].rev = n
            /\ [x EXCEPT !.rev = n, !.gone = TRUE].gone
        BY DEF Kept
      <4> QED BY <4>1, <4>2
    <3> QED BY <3>2, <3>3, <3>4, <3>5
  <2>2. CASE b \notin Absent(s, doc)
    <3>1. t[b] = s[b]
      BY <1>0, <1>6, <2>2 DEF ApplyEvents
    <3>2. s[b].gone \/ ~InWindow(doc, b)
      BY <1>6, <2>2 DEF Absent
    <3> QED BY <1>3, <3>1, <3>2
  <2> QED BY <2>1, <2>2
<1>7. t \in [DOMAIN t -> Kept]
  <2>1. \A b \in DOMAIN t : t[b] \in Kept
    BY <1>1, <1>4, <1>5, <1>6
  <2>2. t = [b \in DOMAIN t |-> t[b]]
    BY <1>0 DEF ApplyEvents
  <2> QED BY <2>1, <2>2
<1>8. AppliedTo(s, doc, t)
  BY <1>1, <1>2, <1>4, <1>5, <1>6, <1>7 DEF IsStore, AppliedTo
<1> QED BY <1>0, <1>8

\* The outcomes of a poll.
Settled(s, doc) ==
  /\ \A b \in DOMAIN doc : b \in DOMAIN s /\ s[b].hash = doc[b] /\ ~s[b].gone
  /\ \A b \in DOMAIN s \ DOMAIN doc : s[b].gone \/ ~InWindow(doc, b)

PollOutcome(doc) ==
  /\ IsStore(stored') /\ UNCHANGED provider
  /\ \/ /\ Alike(stored, stored') /\ UNCHANGED <<applied, outbox>>
        /\ \/ polls' = polls + 1 /\ polls < MaxReconcilingPolls - 1
           \/ polls' = polls /\ applied[1] = doc
     \/ /\ polls' = 0 /\ applied' = <<doc, phase>>
        /\ \E s : /\ IsStore(s) /\ Alike(stored, s)
                  /\ stored' = ApplyEvents(s, doc) /\ outbox' = WithInserted(Events(s, stored'))

\* A poll that counts the absent balls has marked them, so it is not refused.
LEMMA AllMarked ==
  ASSUME NEW s, IsStore(s), NEW doc
  PROVE  \A b \in Absent(Marked(s, doc), doc) : Marked(s, doc)[b].missed
<1> SUFFICES ASSUME NEW b \in Absent(Marked(s, doc), doc) PROVE Marked(s, doc)[b].missed
  OBVIOUS
<1>1. b \in DOMAIN s /\ b \in Absent(s, doc)
  BY MarkedAlike DEF Alike, Absent
<1>2. PICK x \in Kept : x = s[b]
  BY <1>1 DEF IsStore
<1>3. Marked(s, doc)[b] = [x EXCEPT !.missed = x.missed \/ b \in Absent(s, doc)]
  BY <1>1, <1>2 DEF Marked
<1>4. x.missed \/ b \in Absent(s, doc)
  BY <1>1
<1>5. Marked(s, doc)[b] = [x EXCEPT !.missed = TRUE]
  BY <1>2, <1>3, <1>4 DEF Kept
<1> QED BY <1>2, <1>5 DEF Kept

LEMMA AlikeTwice ==
  ASSUME NEW s, NEW t, NEW u, Alike(s, t), Alike(t, u)
  PROVE  Alike(s, u)
BY DEF Alike

LEMMA PollOutcomes ==
  ASSUME ProviderTypeOK, StoreTypeOK, NEW doc, IsDoc(doc), Poll(doc)
  PROVE  PollOutcome(doc)
<1> DEFINE s == Unmarked(stored, doc)
           t == Marked(s, doc)
<1>1. IsStore(s) /\ Alike(stored, s)
  BY UnmarkedAlike DEF StoreTypeOK
<1>2. IsStore(t) /\ Alike(stored, t)
  <2> HIDE DEF s
  <2> QED BY <1>1, MarkedAlike, AlikeTwice
<1>3. UNCHANGED provider
  BY DEF Poll
<1>4. CASE Reconcile(s, doc) /\ ~(polls >= MaxReconcilingPolls - 1)
  <2>1. stored' = s \/ stored' = t
    BY <1>4 DEF Reconcile
  <2>2. polls < MaxReconcilingPolls - 1
    BY <1>4, DeliveriesAssumption DEF StoreTypeOK
  <2>3. polls' = polls + 1 /\ UNCHANGED <<applied, outbox>>
    BY <1>4 DEF Reconcile
  <2> HIDE DEF s, t
  <2> QED BY <1>1, <1>2, <1>3, <2>1, <2>2, <2>3 DEF PollOutcome
<1>5. CASE applied = <<doc, phase>> /\ Refresh(s, doc)
  <2>1. stored' = s \/ stored' = t
    BY <1>5 DEF Refresh
  <2>2. polls' = polls /\ UNCHANGED <<applied, outbox>> /\ applied[1] = doc
    BY <1>5 DEF Refresh
  <2> HIDE DEF s, t
  <2> QED BY <1>1, <1>2, <1>3, <2>1, <2>2 DEF PollOutcome
<1>6. CASE Apply(Counted(s, doc), doc)
  <2>1. Counted(s, doc) = t
    BY DEF Counted
  <2>2. CASE \A b \in Absent(t, doc) : t[b].missed
    <3>1. /\ stored' = ApplyEvents(t, doc) /\ outbox' = WithInserted(Events(t, stored'))
          /\ polls' = 0 /\ applied' = <<doc, phase>>
      BY <1>6, <2>1, <2>2 DEF Apply
    <3>2. IsStore(stored')
      <4> HIDE DEF t
      <4> QED BY <1>2, <3>1, AppliedBalls DEF AppliedTo
    <3> HIDE DEF s, t
    <3> QED BY <1>2, <1>3, <3>1, <3>2 DEF PollOutcome
  <2> QED BY <1>1, <2>2, AllMarked
<1> QED BY <1>4, <1>5, <1>6 DEF Poll

-----------------------------------------------------------------------------
(* The outbox tells the stored balls.                                      *)

Tells(o, s) ==
  /\ \A i, j \in DOMAIN o : i < j /\ o[i].ball = o[j].ball => o[i].rev < o[j].rev
  /\ \A i \in DOMAIN o : o[i].ball \in DOMAIN s /\ o[i].rev <= s[o[i].ball].rev
  /\ \A b \in DOMAIN s : \E i \in DOMAIN o : o[i] = Announcement(s, b)

LEMMA AlikeTells ==
  ASSUME NEW o, NEW s, NEW t, Alike(s, t), Tells(o, s)
  PROVE  Tells(o, t)
<1>1. DOMAIN s = DOMAIN t /\ \A b \in DOMAIN s : Announcement(t, b) = Announcement(s, b) /\ t[b].rev = s[b].rev
  BY DEF Alike, Announcement
<1> QED BY <1>1 DEF Tells

\* The events of a poll: one per ball, of the new revision.
LEMMA EventsOfPoll ==
  ASSUME NEW s, IsStore(s), NEW t, IsStore(t)
  PROVE  /\ IsFiniteSet(Events(s, t)) /\ OnePerBall(Events(s, t)) /\ Events(s, t) \subseteq Event
         /\ \A e \in Events(s, t) : e.ball \in DOMAIN t /\ e.rev = t[e.ball].rev /\ e = Announcement(t, e.ball)
         /\ \A e \in Events(s, t) :
              e.ball \in DOMAIN s => t[e.ball].hash # s[e.ball].hash \/ t[e.ball].gone # s[e.ball].gone
<1> DEFINE changed == {b \in DOMAIN t : b \notin DOMAIN s \/ t[b].hash # s[b].hash \/ t[b].gone # s[b].gone}
           E == {Announcement(t, b) : b \in changed}
<1>1. Events(s, t) = E
  BY DEF Events
<1>2. ASSUME NEW b \in changed
      PROVE  /\ Announcement(t, b) \in Event /\ Announcement(t, b).ball = b /\ b \in Places
             /\ Announcement(t, b).rev = t[b].rev
  <2>1. t[b] \in Kept /\ b \in Places
    BY DEF IsStore
  <2> QED BY <2>1 DEF Announcement, Event, Kept
<1>3. IsFiniteSet(E)
  <2>1. IsFiniteSet(changed)
    BY FS_Subset DEF IsStore
  <2>2. [b \in changed |-> Announcement(t, b)] \in Surjection(changed, E)
    BY DEF Surjection
  <2> HIDE DEF changed, E
  <2> QED BY <2>1, <2>2, FS_Surjection
<1>4. \A e \in E : e.ball \in changed /\ e = Announcement(t, e.ball)
  BY <1>2
<1>5. OnePerBall(E) /\ E \subseteq Event
  BY <1>2, <1>4 DEF OnePerBall
<1> QED BY <1>1, <1>2, <1>3, <1>4, <1>5

\* What is new in the store t after s is in the events E, and not in o.
IsNews(o, s, t, E) ==
  /\ IsStore(t) /\ DOMAIN s \subseteq DOMAIN t
  /\ \A b \in DOMAIN s : s[b].rev \in Nat /\ t[b].rev \in Nat /\ t[b].rev >= s[b].rev
  /\ IsFiniteSet(E) /\ OnePerBall(E) /\ E \subseteq Event
  /\ \A e \in E : e.ball \in DOMAIN t /\ e.rev = t[e.ball].rev
  /\ \A e \in E : \A i \in DOMAIN o : o[i].ball = e.ball => o[i].rev < e.rev
  /\ \A b \in DOMAIN t : Announcement(t, b) \in E \/ (b \in DOMAIN s /\ t[b] = s[b])

\* None of them is in the outbox yet, so the index keeps none back.
LEMMA FreshEvents ==
  ASSUME NEW o \in Seq(Event), NEW s, IsStore(s), NEW doc, IsDoc(doc), NEW t, t = ApplyEvents(s, doc), Tells(o, s),
         NEW E, E = Events(s, t)
  PROVE  IsNews(o, s, t, E) /\ {e \in E : \A i \in DOMAIN o : EventId(o[i]) # EventId(e)} = E
<1>0. AppliedTo(s, doc, t)
  BY AppliedBalls
<1>1. IsStore(t) /\ DOMAIN t = DOMAIN s \cup DOMAIN doc
  BY <1>0 DEF AppliedTo
<1>2. /\ \A b \in DOMAIN s : s[b].rev \in Nat /\ t[b].rev \in Nat
      /\ \A b \in DOMAIN s : t[b] = s[b] \/ t[b].rev = s[b].rev + 1
      /\ \A b \in DOMAIN s : t[b].rev >= s[b].rev
      /\ \A b \in DOMAIN s : t[b] = s[b] \/ t[b].hash # s[b].hash \/ t[b].gone # s[b].gone
      /\ \A b \in DOMAIN s : t[b].hash # s[b].hash \/ t[b].gone # s[b].gone => t[b].rev = s[b].rev + 1
  <2>1. \A b \in DOMAIN s : s[b].rev \in Nat /\ t[b].rev \in Nat
    BY <1>1 DEF IsStore, Kept
  <2>2. \A b \in DOMAIN s :
          \/ t[b] = s[b]
          \/ t[b].rev = s[b].rev + 1 /\ (t[b].hash # s[b].hash \/ t[b].gone # s[b].gone)
    BY <1>0 DEF AppliedTo
  <2> QED BY <2>1, <2>2
<1>3. /\ IsFiniteSet(E) /\ OnePerBall(E) /\ E \subseteq Event
      /\ \A e \in E : e.ball \in DOMAIN t /\ e.rev = t[e.ball].rev
      /\ \A e \in E : e.ball \in DOMAIN s => t[e.ball].hash # s[e.ball].hash \/ t[e.ball].gone # s[e.ball].gone
  BY <1>1, EventsOfPoll
<1>4. \A e \in E : e.ball \in DOMAIN s => e.rev = s[e.ball].rev + 1
  BY <1>2, <1>3
<1>5. \A i \in DOMAIN o : o[i].rev \in Nat /\ o[i].ball \in DOMAIN s /\ o[i].rev <= s[o[i].ball].rev
  <2>1. \A i \in DOMAIN o : o[i] \in Event
    OBVIOUS
  <2>2. \A i \in DOMAIN o : o[i].ball \in DOMAIN s /\ o[i].rev <= s[o[i].ball].rev
    BY DEF Tells
  <2> QED BY <2>1, <2>2 DEF Event
<1>6. \A e \in E : \A i \in DOMAIN o : o[i].ball = e.ball => o[i].rev < e.rev
  BY <1>2, <1>4, <1>5
<1>7. {e \in E : \A i \in DOMAIN o : EventId(o[i]) # EventId(e)} = E
  <2>1. ASSUME NEW e \in E, NEW i \in DOMAIN o, EventId(o[i]) = EventId(e) PROVE FALSE
    <3>1. o[i].ball = e.ball /\ o[i].rev = e.rev
      BY <2>1 DEF EventId
    <3> QED BY <1>5, <1>6, <3>1
  <2> QED BY <2>1
<1>8. \A b \in DOMAIN t : Announcement(t, b) \in E \/ (b \in DOMAIN s /\ t[b] = s[b])
  BY <1>2 DEF Events
<1> QED BY <1>1, <1>2, <1>3, <1>6, <1>7, <1>8 DEF IsNews

\* q lists E in the order of play.
Lists(q, E) ==
  /\ q \in Seq(E) /\ \A i, j \in DOMAIN q : i < j => Before(q[i].ball, q[j].ball)
  /\ \A e \in E : \E i \in DOMAIN q : q[i] = e

\* So the batch goes on from where the outbox is.
LEMMA BatchTells ==
  ASSUME NEW o \in Seq(Event), NEW s, NEW t, Tells(o, s), NEW E, IsNews(o, s, t, E),
         NEW q, Lists(q, E)
  PROVE  o \o q \in Seq(Event) /\ Len(o \o q) >= Len(o) /\ Tells(o \o q, t)
<1>0. /\ IsStore(t) /\ DOMAIN s \subseteq DOMAIN t
      /\ \A b \in DOMAIN s : s[b].rev \in Nat /\ t[b].rev \in Nat /\ t[b].rev >= s[b].rev
      /\ OnePerBall(E) /\ E \subseteq Event
      /\ \A e \in E : e.ball \in DOMAIN t /\ e.rev = t[e.ball].rev
      /\ \A e \in E : \A i \in DOMAIN o : o[i].ball = e.ball => o[i].rev < e.rev
      /\ \A b \in DOMAIN t : Announcement(t, b) \in E \/ (b \in DOMAIN s /\ t[b] = s[b])
  BY DEF IsNews
<1>a. /\ q \in Seq(E) /\ \A i, j \in DOMAIN q : i < j => Before(q[i].ball, q[j].ball)
      /\ \A e \in E : \E i \in DOMAIN q : q[i] = e
  BY DEF Lists
<1>1. PICK m, n \in Nat : m = Len(o) /\ n = Len(q)
  BY <1>a
<1>2. q \in Seq(Event)
  BY <1>0, <1>a
<1>3. PICK p : p = o \o q
  OBVIOUS
<1>4. p \in Seq(Event) /\ Len(p) = m + n
  BY <1>1, <1>2, <1>3
<1>5. DOMAIN p = 1..(m + n) /\ DOMAIN o = 1..m /\ DOMAIN q = 1..n
  BY <1>1, <1>4
<1>6. \A i \in 1..m : p[i] = o[i]
  BY <1>1, <1>2, <1>3
<1>7. \A i \in 1..n : p[m + i] = q[i]
  BY <1>1, <1>2, <1>3
<1>8. \A i \in 1..n : q[i] \in E /\ q[i].ball \in Places
  BY <1>0, <1>a, <1>5 DEF OnePerBall
<1>9. \A i \in 1..m : /\ o[i].rev \in Nat /\ o[i].ball \in DOMAIN s /\ o[i].rev <= s[o[i].ball].rev
  <2>1. \A i \in 1..m : o[i] \in Event
    BY <1>5
  <2>2. \A i \in 1..m : o[i].ball \in DOMAIN s /\ o[i].rev <= s[o[i].ball].rev
    BY <1>5 DEF Tells
  <2> QED BY <2>1, <2>2 DEF Event
<1>10. ASSUME NEW i \in 1..(m + n), i \notin 1..m
       PROVE  \E k \in 1..n : i = m + k /\ p[i] = q[k] /\ q[k] \in E
  <2>1. i - m \in 1..n /\ i = m + (i - m)
    BY <1>1, <1>10
  <2> QED BY <1>7, <1>8, <2>1
<1>11. ASSUME NEW i \in 1..(m + n), NEW j \in 1..(m + n), i < j, p[i].ball = p[j].ball
       PROVE  p[i].rev < p[j].rev
  <2>1. CASE j \in 1..m
    <3>1. i \in 1..m
      BY <1>1, <1>11, <2>1
    <3>2. p[i] = o[i] /\ p[j] = o[j]
      BY <1>6, <2>1, <3>1
    <3> QED BY <1>5, <1>11, <2>1, <3>1, <3>2 DEF Tells
  <2>2. CASE i \in 1..m /\ j \notin 1..m
    <3>1. PICK k \in 1..n : p[j] = q[k] /\ q[k] \in E
      BY <1>10, <2>2
    <3>2. p[i] = o[i] /\ i \in DOMAIN o
      BY <1>5, <1>6, <2>2
    <3> QED BY <1>0, <1>11, <3>1, <3>2
  <2>3. CASE i \notin 1..m /\ j \notin 1..m
    <3>1. PICK k \in 1..n : i = m + k /\ p[i] = q[k]
      BY <1>10, <2>3
    <3>2. PICK l \in 1..n : j = m + l /\ p[j] = q[l]
      BY <1>10, <2>3
    <3>3. k < l
      BY <1>1, <1>11, <3>1, <3>2
    <3>4. Before(q[k].ball, q[l].ball)
      BY <1>a, <1>5, <3>3
    <3>5. ~Before(q[k].ball, q[k].ball)
      BY <1>8 DEF Before, Places
    <3> QED BY <1>11, <3>1, <3>2, <3>4, <3>5
  <2>4. i \notin 1..m => j \notin 1..m
    BY <1>1, <1>11
  <2> QED BY <2>1, <2>2, <2>3, <2>4
<1>12. ASSUME NEW i \in 1..(m + n) PROVE p[i].ball \in DOMAIN t /\ p[i].rev <= t[p[i].ball].rev
  <2>1. CASE i \in 1..m
    <3>1. PICK b : b = o[i].ball
      OBVIOUS
    <3>2. p[i].ball = b /\ p[i].rev = o[i].rev /\ b \in DOMAIN s /\ o[i].rev <= s[b].rev /\ o[i].rev \in Nat
      BY <1>6, <1>9, <2>1, <3>1
    <3>3. s[b].rev \in Nat /\ t[b].rev \in Nat /\ t[b].rev >= s[b].rev /\ b \in DOMAIN t
      BY <1>0, <3>2
    <3> QED BY <3>2, <3>3
  <2>2. CASE i \notin 1..m
    <3>1. PICK e \in E : p[i] = e
      BY <1>10, <2>2
    <3>2. e.rev \in Nat /\ e.rev <= e.rev
      BY <1>0 DEF Event
    <3> QED BY <1>0, <3>1, <3>2
  <2> QED BY <2>1, <2>2
<1>b. \A e \in E : \E k \in 1..n : q[k] = e
  BY ONLY <1>a, <1>5
<1>13. ASSUME NEW b \in DOMAIN t PROVE \E i \in 1..(m + n) : p[i] = Announcement(t, b)
  <2>1. CASE b \in DOMAIN s /\ t[b] = s[b]
    <3>1. Announcement(t, b) = Announcement(s, b)
      BY <2>1 DEF Announcement
    <3>2. PICK i \in 1..m : o[i] = Announcement(s, b)
      BY <1>5, <2>1 DEF Tells
    <3>3. i \in 1..(m + n)
      BY <1>1
    <3> QED BY <1>6, <3>1, <3>2, <3>3
  <2>2. CASE Announcement(t, b) \in E
    <3>1. PICK k \in 1..n : q[k] = Announcement(t, b)
      BY <1>b, <2>2
    <3>2. m + k \in 1..(m + n)
      BY <1>1
    <3> QED BY <1>7, <3>1, <3>2
  <2> QED BY <1>0, <2>1, <2>2
<1>14. Tells(p, t)
  BY <1>5, <1>11, <1>12, <1>13 DEF Tells
<1> QED BY <1>1, <1>3, <1>4, <1>14

LEMMA InsertedTells ==
  ASSUME StoreTypeOK, Tells(outbox, stored), NEW s, IsStore(s), Alike(stored, s), NEW doc, IsDoc(doc),
         NEW t, t = ApplyEvents(s, doc), outbox' = WithInserted(Events(s, t))
  PROVE  IsStore(t) /\ outbox' \in Seq(Event) /\ Len(outbox') >= Len(outbox) /\ Tells(outbox', t)
<1>1. PICK o \in Seq(Event) : o = outbox
  BY DEF StoreTypeOK
<1>2. PICK E : E = Events(s, t)
  OBVIOUS
<1>3. Tells(o, s)
  BY <1>1, AlikeTells
<1>4. IsNews(o, s, t, E) /\ {e \in E : \A i \in DOMAIN o : EventId(o[i]) # EventId(e)} = E
  BY <1>2, <1>3, FreshEvents
<1>5. PICK q : q = InOrder(E) /\ Lists(q, E)
  <2>0. IsFiniteSet(E) /\ OnePerBall(E)
    BY <1>4 DEF IsNews
  <2>1. InOrder(E) \in Seq(E)
    BY <2>0, InOrderOrders
  <2>2. \A i, j \in DOMAIN InOrder(E) : i < j => Before(InOrder(E)[i].ball, InOrder(E)[j].ball)
    BY <2>0, InOrderOrders DEF IsOrder
  <2>3. \A e \in E : \E i \in DOMAIN InOrder(E) : InOrder(E)[i] = e
    BY <2>0, InOrderCovers
  <2> QED BY <2>1, <2>2, <2>3 DEF Lists
<1>6. outbox' = o \o q
  <2>1. outbox' = outbox \o InOrder({e \in Events(s, t) : \A i \in DOMAIN outbox : EventId(outbox[i]) # EventId(e)})
    BY DEF WithInserted
  <2>2. outbox' = o \o InOrder({e \in E : \A i \in DOMAIN o : EventId(o[i]) # EventId(e)})
    BY ONLY <1>1, <1>2, <2>1, Zenon
  <2>3. outbox' = o \o InOrder(E)
    BY ONLY <1>4, <2>2, Zenon
  <2> QED BY ONLY <1>5, <2>3, Zenon
<1>7. o \o q \in Seq(Event) /\ Len(o \o q) >= Len(o) /\ Tells(o \o q, t)
  BY ONLY <1>3, <1>4, <1>5, BatchTells
<1> QED BY <1>1, <1>4, <1>6, <1>7 DEF IsNews

\* So Announced can be read off the outbox.
LEMMA TellsAnnounced ==
  ASSUME StoreTypeOK, Tells(outbox, stored)
  PROVE  Announced
<1> DEFINE said == {outbox[i] : i \in DOMAIN outbox}
<1>1. /\ \A i \in DOMAIN outbox : outbox[i] \in Event /\ outbox[i].rev \in Nat /\ i \in Nat
      /\ \A e \in said : e \in Event /\ e.rev \in Nat
  <2>1. \A i \in DOMAIN outbox : outbox[i] \in Event /\ i \in Nat
    BY DEF StoreTypeOK
  <2>2. \A e \in Event : e.rev \in Nat
    BY DEF Event
  <2> QED BY <2>1, <2>2
<1>2. \A b \in DOMAIN stored : Announcement(stored, b) \in said /\ Announcement(stored, b).ball = b
                              /\ Announcement(stored, b).rev = stored[b].rev
  BY DEF Tells, Announcement
<1>3. \A e \in said : e.ball \in DOMAIN stored /\ e.rev <= stored[e.ball].rev
  BY DEF Tells
<1>4. \A e, f \in said : e.ball = f.ball /\ e.rev = f.rev => e = f
  <2> SUFFICES ASSUME NEW i \in DOMAIN outbox, NEW j \in DOMAIN outbox,
                      outbox[i].ball = outbox[j].ball, outbox[i].rev = outbox[j].rev
               PROVE  outbox[i] = outbox[j]
    OBVIOUS
  <2>1. outbox[i].rev \in Nat /\ i \in Nat /\ j \in Nat
    BY <1>1
  <2>2. ~(i < j) /\ ~(j < i)
    BY <2>1 DEF Tells
  <2>3. i = j
    BY <2>1, <2>2
  <2> QED BY <2>3
<1>5. {e.ball : e \in said} = DOMAIN stored
  <2> HIDE DEF said
  <2>1. \A b \in DOMAIN stored : \E e \in said : e.ball = b
    BY <1>2
  <2> QED BY <1>3, <2>1
<1>6. ASSUME NEW b \in DOMAIN stored
      PROVE  (CHOOSE e \in said : e.ball = b /\ \A f \in said : f.ball = b => f.rev <= e.rev) = Announcement(stored, b)
  <2> DEFINE Best(e) == e.ball = b /\ \A f \in said : f.ball = b => f.rev <= e.rev
  <2> HIDE DEF said
  <2>1. Announcement(stored, b) \in said /\ Best(Announcement(stored, b))
    BY <1>2, <1>3
  <2>2. ASSUME NEW e \in said, Best(e) PROVE e = Announcement(stored, b)
    <3>1. stored[b].rev <= e.rev /\ e.rev <= stored[b].rev /\ e.rev \in Nat
      BY <1>1, <1>2, <1>3, <2>2
    <3>2. stored[b].rev \in Nat
      BY DEF StoreTypeOK, IsStore, Kept
    <3>3. e.rev = stored[b].rev
      BY <3>1, <3>2
    <3> QED BY <1>2, <1>4, <2>2, <3>3
  <2> DEFINE chosen == CHOOSE e \in said : Best(e)
  <2>3. chosen \in said /\ Best(chosen)
    <3> HIDE DEF Best
    <3> QED BY <2>1
  <2>4. chosen = Announcement(stored, b)
    <3> HIDE DEF chosen, Best
    <3> QED BY <2>2, <2>3
  <2> QED BY <2>4
<1>7. Told(DOMAIN outbox) = [b \in DOMAIN stored |-> Announcement(stored, b)]
  <2>1. Told(DOMAIN outbox) =
          [b \in {e.ball : e \in said} |->
             CHOOSE e \in said : e.ball = b /\ \A f \in said : f.ball = b => f.rev <= e.rev]
    BY DEF Told
  <2> HIDE DEF said
  <2> QED BY <1>5, <1>6, <2>1
<1> QED BY <1>7 DEF Announced, Tells

-----------------------------------------------------------------------------
(* Announced.                                                              *)

LEMMA MinOfTwo ==
  ASSUME NEW a \in Nat, NEW b \in Nat
  PROVE  Min({a, b}) = IF a <= b THEN a ELSE b
BY DEF Min

DeliveriesTyped == ProviderTypeOK /\ StoreTypeOK

\* A provider's step leaves the store alone.
LEMMA ProviderTyped ==
  ASSUME DeliveriesTyped,
         \/ \E c \in Contents : Bowl(c)
         \/ \E b \in (1..Overs) \X (1..Balls) : Withdraw(b) \/ (\E c \in Contents : Correct(b, c))
         \/ PhaseChange
  PROVE  ProviderTypeOK' /\ calm' = 0 /\ UNCHANGED storeVars
<1>1. /\ truth \in [1..Overs -> Seq(Contents)] /\ phase \in Statuses /\ IsDoc(earlier) /\ IsDoc(Shown)
      /\ Overs \in Nat
  BY ShownIsDoc, DeliveriesAssumption DEF DeliveriesTyped, ProviderTypeOK
<1>2. ASSUME NEW k, NEW u, k \in 1..Overs => u \in Seq(Contents), truth' = [truth EXCEPT ![k] = u]
      PROVE  truth' \in [1..Overs -> Seq(Contents)]
  BY <1>1, <1>2
<1>3. ASSUME truth' \in [1..Overs -> Seq(Contents)], Changed, UNCHANGED phase
      PROVE  ProviderTypeOK' /\ calm' = 0 /\ UNCHANGED storeVars
  BY <1>1, <1>3 DEF ProviderTypeOK, Changed, IsDoc
<1>4. ASSUME NEW c \in Contents, Bowl(c)
      PROVE  ProviderTypeOK' /\ calm' = 0 /\ UNCHANGED storeVars
  <2>1. PICK k : k = InPlay
    OBVIOUS
  <2>2. truth' = [truth EXCEPT ![k] = Append(truth[k], c)] /\ Changed /\ UNCHANGED phase
    BY <1>4, <2>1 DEF Bowl
  <2>3. k \in 1..Overs => Append(truth[k], c) \in Seq(Contents)
    BY <1>1
  <2> QED BY <1>2, <1>3, <2>2, <2>3
<1>5. ASSUME NEW b \in (1..Overs) \X (1..Balls), Withdraw(b)
      PROVE  ProviderTypeOK' /\ calm' = 0 /\ UNCHANGED storeVars
  <2>1. PICK o \in 1..Overs, i \in 1..Balls : b[1] = o /\ b[2] = i
    BY <1>5
  <2>2. truth' = [truth EXCEPT ![o] = RemoveAt(truth[o], i)] /\ Changed /\ UNCHANGED phase
    BY <1>5, <2>1 DEF Withdraw
  <2>3. PICK q \in Seq(Contents) : q = truth[o]
    BY <1>1
  <2>4. RemoveAt(q, i) \in Seq(Contents)
    <3>1. i <= Len(q)
      <4>1. b \in UNION {{<<p, j>> : j \in 1..Len(truth[p])} : p \in Recent}
        BY <1>5 DEF Withdraw, Shown
      <4>2. PICK p \in Recent : \E j \in 1..Len(truth[p]) : b = <<p, j>>
        BY <4>1
      <4>3. p = o /\ i \in 1..Len(truth[p])
        BY <2>1, <4>2
      <4>4. Len(q) \in Nat
        BY <2>3
      <4> QED BY <2>3, <4>3, <4>4
    <3>2. i \in Nat \ {0} /\ Len(q) \in Nat
      BY DeliveriesAssumption
    <3>3. SubSeq(q, 1, i - 1) \in Seq(Contents) /\ SubSeq(q, i + 1, Len(q)) \in Seq(Contents)
      BY <3>1, <3>2
    <3> QED BY <3>3 DEF RemoveAt
  <2> QED BY <1>2, <1>3, <2>2, <2>3, <2>4
<1>6. ASSUME NEW b \in (1..Overs) \X (1..Balls), NEW c \in Contents, Correct(b, c)
      PROVE  ProviderTypeOK' /\ calm' = 0 /\ UNCHANGED storeVars
  <2>1. PICK o \in 1..Overs, i \in 1..Balls : b[1] = o /\ b[2] = i
    BY <1>6
  <2>2. truth' = [truth EXCEPT ![o] = [truth[o] EXCEPT ![i] = c]] /\ Changed /\ UNCHANGED phase
    BY <1>6, <2>1 DEF Correct
  <2>3. PICK q \in Seq(Contents) : q = truth[o]
    BY <1>1
  <2>4. [q EXCEPT ![i] = c] \in Seq(Contents)
    <3>1. PICK n \in Nat : q \in [1..n -> Contents]
      BY <2>3
    <3>2. [q EXCEPT ![i] = c] \in [1..n -> Contents]
      BY <3>1
    <3> QED BY <3>2
  <2> QED BY <1>2, <1>3, <2>2, <2>3, <2>4
<1>7. ASSUME PhaseChange
      PROVE  ProviderTypeOK' /\ calm' = 0 /\ UNCHANGED storeVars
  <2>1. phase' \in Statuses
    BY <1>1, <1>7 DEF PhaseChange, Statuses
  <2> QED BY <1>1, <1>7, <2>1 DEF PhaseChange, ProviderTypeOK, IsDoc
<1> QED BY <1>4, <1>5, <1>6, <1>7

\* A poll keeps the types, and the outbox tells what it leaves in the store.
LEMMA PollTells ==
  ASSUME DeliveriesTyped, Tells(outbox, stored), calm' \in Nat, NEW doc, IsDoc(doc), Poll(doc)
  PROVE  DeliveriesTyped' /\ Tells(outbox, stored)' /\ Len(outbox') >= Len(outbox)
<1>1. ProviderTypeOK /\ StoreTypeOK
  BY DEF DeliveriesTyped
<1>2. PollOutcome(doc)
  BY <1>1, PollOutcomes
<1>3. ProviderTypeOK'
  BY <1>1, <1>2 DEF PollOutcome, provider, ProviderTypeOK, IsDoc
<1>4. IsStore(stored')
  BY <1>2 DEF PollOutcome
<1>5. CASE Alike(stored, stored') /\ UNCHANGED <<applied, outbox>> /\ polls' \in Nat
  <2>1. Tells(outbox', stored')
    BY <1>5, AlikeTells
  <2>2. StoreTypeOK'
    BY <1>1, <1>4, <1>5 DEF StoreTypeOK, IsDoc
  <2>3. Len(outbox) \in Nat
    BY <1>1 DEF StoreTypeOK
  <2> QED BY <1>3, <1>5, <2>1, <2>2, <2>3 DEF DeliveriesTyped
<1>6. CASE /\ polls' = 0 /\ applied' = <<doc, phase>>
           /\ \E s : /\ IsStore(s) /\ Alike(stored, s)
                     /\ stored' = ApplyEvents(s, doc) /\ outbox' = WithInserted(Events(s, stored'))
  <2>1. PICK s : /\ IsStore(s) /\ Alike(stored, s)
                 /\ stored' = ApplyEvents(s, doc) /\ outbox' = WithInserted(Events(s, stored'))
    BY <1>6
  <2>2. outbox' \in Seq(Event) /\ Len(outbox') >= Len(outbox) /\ Tells(outbox', stored')
    BY <1>1, <2>1, InsertedTells
  <2>3. applied'[1] = doc /\ applied' = <<applied'[1], applied'[2]>> /\ polls' \in Nat
    BY <1>6
  <2>4. StoreTypeOK'
    BY <1>4, <2>2, <2>3 DEF StoreTypeOK
  <2> QED BY <1>3, <2>2, <2>4 DEF DeliveriesTyped
<1>7. polls' = polls \/ polls' = polls + 1 => polls' \in Nat
  BY <1>1 DEF StoreTypeOK
<1> QED BY <1>2, <1>5, <1>6, <1>7 DEF PollOutcome

LEMMA DeliveriesTells ==
  ASSUME DeliveriesTyped, Tells(outbox, stored), DeliveriesNext
  PROVE  DeliveriesTyped' /\ Tells(outbox, stored)' /\ Len(outbox') >= Len(outbox)
<1>1. calm \in Nat /\ Len(outbox) \in Nat /\ IsDoc(Shown) /\ IsDoc(earlier) /\ IsDoc(NoBalls)
  BY ShownIsDoc, NoBallsShown DEF DeliveriesTyped, StoreTypeOK, ProviderTypeOK
<1>2. CASE ProviderTypeOK' /\ calm' = 0 /\ UNCHANGED storeVars
  BY <1>1, <1>2 DEF DeliveriesTyped, StoreTypeOK, storeVars, Tells, Announcement, IsStore, IsDoc
<1>3. CASE PollLatest
  <2>1. calm' \in Nat
    <3>1. PICK m \in Nat : m = MaxReconcilingPolls
      BY DeliveriesAssumption
    <3> QED BY <1>1, <1>3, <3>1, MinOfTwo DEF PollLatest
  <2>2. Poll(Shown)
    BY <1>3 DEF PollLatest
  <2> QED BY <1>1, <2>1, <2>2, PollTells
<1>4. CASE PollOdd
  <2>1. calm' \in Nat
    BY <1>4 DEF PollOdd
  <2>2. PICK doc \in {earlier, NoBalls} : Poll(doc)
    BY <1>4 DEF PollOdd
  <2>3. IsDoc(doc)
    BY <1>1
  <2> QED BY <2>1, <2>2, <2>3, PollTells
<1> QED BY <1>2, <1>3, <1>4, ProviderTyped DEF DeliveriesNext

-----------------------------------------------------------------------------
AnnouncedInv == DeliveriesTyped /\ Tells(outbox, stored)

LEMMA AnnouncedInit == Init => AnnouncedInv
<1> SUFFICES ASSUME Init PROVE AnnouncedInv
  OBVIOUS
<1> USE DEF Init, DeliveriesInit
<1>1. ProviderTypeOK
  <2>1. <<>> \in Seq(Contents) /\ "live" \in Statuses
    BY DEF Statuses
  <2> QED BY <2>1, NoBallsShown DEF ProviderTypeOK
<1>2. IsStore(stored)
  BY NoBallsShown, FS_EmptySet DEF IsStore, NoBalls
<1>3. StoreTypeOK
  BY <1>2, NoBallsShown DEF StoreTypeOK
<1>4. Tells(outbox, stored)
  BY NoBallsShown DEF Tells
<1> QED BY <1>1, <1>3, <1>4 DEF AnnouncedInv, DeliveriesTyped

LEMMA AnnouncedStep == AnnouncedInv /\ [Next]_vars => AnnouncedInv'
<1> SUFFICES ASSUME AnnouncedInv, [Next]_vars PROVE AnnouncedInv'
  OBVIOUS
<1>1. CASE DeliveriesNext
  BY <1>1, DeliveriesTells DEF AnnouncedInv
<1>2. CASE UNCHANGED <<provider, stored, polls, applied, calm, outbox>>
  BY <1>2 DEF AnnouncedInv, DeliveriesTyped, ProviderTypeOK, StoreTypeOK, Tells, Announcement,
              provider, IsStore, IsDoc
<1>3. CASE ReplicaStep
  <2>1. UNCHANGED outbox
    BY <1>3 DEF ReplicaStep, RealtimeNext, Deliver, Break, Open, Restart, Subscribe, Load, Receive, Leave
  <2> QED BY <1>2, <1>3, <2>1 DEF ReplicaStep
<1>4. CASE ReplayStep \/ UNCHANGED vars
  BY <1>2, <1>4 DEF ReplayStep, vars, feedVars, deliveryVars, provider, storeVars
<1> QED BY <1>1, <1>3, <1>4 DEF Next, FeedStep, PollerStep

(* The outbox tells the stored balls (apply.go, applyEvents): every change  *)
(* of a ball was published, each under a revision its earlier ones do not   *)
(* reach, whatever the provider corrected, withdrew or served out of order. *)
THEOREM AnnouncedHolds == Spec => []Announced
<1>1. AnnouncedInv => Announced
  BY TellsAnnounced DEF AnnouncedInv, DeliveriesTyped
<1> QED BY <1>1, AnnouncedInit, AnnouncedStep, PTL DEF Spec

-----------------------------------------------------------------------------
(* Converges.                                                              *)

LEMMA AlikeSettled ==
  ASSUME NEW s, NEW t, Alike(s, t), NEW doc, Settled(s, doc)
  PROVE  Settled(t, doc)
BY DEF Alike, Settled

LEMMA AppliedSettled ==
  ASSUME NEW s, IsStore(s), NEW doc, IsDoc(doc)
  PROVE  Settled(ApplyEvents(s, doc), doc)
<1>1. PICK t : t = ApplyEvents(s, doc)
  OBVIOUS
<1>2. AppliedTo(s, doc, t)
  BY <1>1, AppliedBalls
<1>3. Settled(t, doc)
  BY <1>2 DEF AppliedTo, Settled
<1> QED BY <1>1, <1>3

LEMMA SettledFaithful ==
  ASSUME IsDoc(Shown), Settled(stored, Shown)
  PROVE  Faithful
<1>1. \A b \in DOMAIN Shown : InWindow(Shown, b)
  <2>1. \A b \in Places : AtOrAfter(b, b)
    BY DEF AtOrAfter, Before, Places
  <2> QED BY <2>1 DEF InWindow, IsDoc
<1> QED BY <1>1 DEF Faithful, Settled

\* What is stored is what was applied last; of the polls of an unchanged
\* document either one has applied it or each one waited.
Catching ==
  /\ Settled(stored, applied[1])
  /\ polls \in 0..(MaxReconcilingPolls - 1) /\ calm \in 0..MaxReconcilingPolls
  /\ calm > 0 => Settled(stored, Shown) \/ polls >= calm

LEMMA PollCatches ==
  ASSUME DeliveriesTyped, Catching, NEW doc, IsDoc(doc), Poll(doc)
  PROVE  /\ Settled(stored', applied'[1]) /\ polls' \in 0..(MaxReconcilingPolls - 1)
         /\ Settled(stored', doc) \/ polls' = polls + 1
         /\ Settled(stored, doc) => Settled(stored', doc)
<1>1. ProviderTypeOK /\ StoreTypeOK /\ MaxReconcilingPolls \in Nat \ {0} /\ polls \in Nat
  BY DeliveriesAssumption DEF DeliveriesTyped, StoreTypeOK
<1>2. PollOutcome(doc)
  BY <1>1, PollOutcomes
<1>3. CASE /\ Alike(stored, stored') /\ UNCHANGED <<applied, outbox>>
           /\ \/ polls' = polls + 1 /\ polls < MaxReconcilingPolls - 1
              \/ polls' = polls /\ applied[1] = doc
  <2>1. Settled(stored', applied'[1])
    BY <1>3, AlikeSettled DEF Catching
  <2>2. Settled(stored, doc) => Settled(stored', doc)
    BY <1>3, AlikeSettled
  <2>3. CASE polls' = polls + 1 /\ polls < MaxReconcilingPolls - 1
    BY <1>1, <2>1, <2>2, <2>3
  <2>4. CASE polls' = polls /\ applied[1] = doc
    BY <1>3, <2>1, <2>2, <2>4 DEF Catching
  <2> QED BY <1>3, <2>3, <2>4
<1>4. CASE /\ polls' = 0 /\ applied' = <<doc, phase>>
           /\ \E s : IsStore(s) /\ stored' = ApplyEvents(s, doc)
  <2>1. Settled(stored', doc) /\ applied'[1] = doc
    BY <1>4, AppliedSettled
  <2> QED BY <1>1, <1>4, <2>1
<1> QED BY <1>2, <1>3, <1>4 DEF PollOutcome

LEMMA DeliveriesCatches ==
  ASSUME DeliveriesTyped, Catching, DeliveriesNext
  PROVE  Catching'
<1>1. /\ IsDoc(Shown) /\ IsDoc(earlier) /\ IsDoc(NoBalls) /\ MaxReconcilingPolls \in Nat \ {0}
      /\ calm \in Nat /\ polls \in Nat
  BY ShownIsDoc, NoBallsShown, DeliveriesAssumption DEF DeliveriesTyped, StoreTypeOK, ProviderTypeOK
<1>2. CASE calm' = 0 /\ UNCHANGED storeVars
  BY <1>1, <1>2 DEF Catching, storeVars, Settled
<1>3. CASE PollLatest
  <2>1. Poll(Shown)
    BY <1>3 DEF PollLatest
  <2>2. Shown' = Shown
    BY <2>1 DEF Poll, provider, Shown, Recent, Begun
  <2>3. /\ Settled(stored', applied'[1]) /\ polls' \in 0..(MaxReconcilingPolls - 1)
        /\ Settled(stored', Shown) \/ polls' = polls + 1
        /\ Settled(stored, Shown) => Settled(stored', Shown)
    BY <1>1, <2>1, PollCatches
  <2>4. calm' = (IF calm + 1 <= MaxReconcilingPolls THEN calm + 1 ELSE MaxReconcilingPolls)
    BY <1>1, <1>3, MinOfTwo DEF PollLatest
  <2>5. calm' \in 0..MaxReconcilingPolls /\ calm' <= calm + 1
    BY <1>1, <2>4
  <2>6. CASE Settled(stored', Shown)
    BY <2>2, <2>3, <2>5, <2>6 DEF Catching
  <2>7. CASE ~Settled(stored', Shown)
    <3>1. polls' = polls + 1 /\ (calm > 0 => polls >= calm)
      BY <2>3, <2>7 DEF Catching
    <3>2. polls' >= calm'
      BY <1>1, <2>5, <3>1
    <3> QED BY <2>3, <2>5, <3>2 DEF Catching
  <2> QED BY <2>6, <2>7
<1>4. CASE PollOdd
  <2>1. calm' = 0
    BY <1>4 DEF PollOdd
  <2>2. PICK doc \in {earlier, NoBalls} : Poll(doc)
    BY <1>4 DEF PollOdd
  <2>3. Settled(stored', applied'[1]) /\ polls' \in 0..(MaxReconcilingPolls - 1)
    BY <1>1, <2>2, PollCatches
  <2> QED BY <1>1, <2>1, <2>3 DEF Catching
<1> QED BY <1>2, <1>3, <1>4, ProviderTyped DEF DeliveriesNext

LEMMA CatchingInit == Init => Catching
<1> SUFFICES ASSUME Init PROVE Catching
  OBVIOUS
<1>1. Settled(stored, applied[1])
  BY NoBallsShown DEF Init, DeliveriesInit, Settled
<1> QED BY <1>1, DeliveriesAssumption DEF Init, DeliveriesInit, Catching

LEMMA CatchingStep == AnnouncedInv /\ Catching /\ [Next]_vars => Catching'
<1> SUFFICES ASSUME AnnouncedInv, Catching, [Next]_vars PROVE Catching'
  OBVIOUS
<1>1. CASE DeliveriesNext
  BY <1>1, DeliveriesCatches DEF AnnouncedInv
<1>2. CASE UNCHANGED <<truth, stored, polls, applied, calm>>
  <2>1. Shown' = Shown
    BY <1>2 DEF Shown, Recent, Begun
  <2>2. Settled(stored, applied[1])' <=> Settled(stored, applied[1])
    BY <1>2 DEF Settled
  <2>3. Settled(stored, Shown)' <=> Settled(stored, Shown)
    BY <1>2, <2>1 DEF Settled
  <2> QED BY <1>2, <2>2, <2>3 DEF Catching
<1>3. CASE ReplicaStep \/ ReplayStep \/ UNCHANGED vars
  BY <1>2, <1>3 DEF ReplicaStep, ReplayStep, vars, feedVars, deliveryVars, provider, storeVars
<1> QED BY <1>1, <1>3 DEF Next, FeedStep, PollerStep

(* After MaxReconcilingPolls polls of an unchanged document what is stored   *)
(* and not withdrawn is what the provider has (apply.go, applyProjection and *)
(* applyEvents), whatever came before: marks, refused corrections, odd       *)
(* documents and withdrawn balls.                                            *)
THEOREM ConvergesHolds == Spec => []Converges
<1>1. AnnouncedInv /\ Catching => Converges
  <2> SUFFICES ASSUME AnnouncedInv, Catching, calm = MaxReconcilingPolls PROVE Faithful
    BY DEF Converges
  <2>1. MaxReconcilingPolls \in Nat \ {0} /\ IsDoc(Shown)
    BY ShownIsDoc, DeliveriesAssumption DEF AnnouncedInv, DeliveriesTyped
  <2>2. Settled(stored, Shown)
    BY <2>1 DEF Catching
  <2> QED BY <2>1, <2>2, SettledFaithful
<1> QED BY <1>1, AnnouncedInit, AnnouncedStep, CatchingInit, CatchingStep, PTL DEF Spec

-----------------------------------------------------------------------------
(* NoHiddenGap.                                                            *)

Streams == [open : BOOLEAN, resumable : BOOLEAN, at : Nat]
Viewers == [on : BOOLEAN, loaded : BOOLEAN, seen : SUBSET Nat, queue : Seq(Nat), skipped : SUBSET Nat]

\* The positions a viewer knows of, has coming or was made to skip.
Known(v) == v.seen \cup {v.queue[i] : i \in DOMAIN v.queue} \cup v.skipped

\* v hides nothing of the events before n.
UpTo(v, n) == v \in Viewers /\ (v.loaded => v.on /\ 1..n \subseteq Known(v))

Following ==
  /\ stream \in Streams /\ stream.at <= Len(outbox) /\ Len(outbox) \in Nat
  /\ UpTo(viewer, stream.at)

LEMMA OffUpTo == ASSUME NEW n PROVE UpTo(Off, n) /\ Off \in Viewers /\ ~Off.loaded
<1>1. Off \in Viewers
  BY DEF Off, Viewers
<1> QED BY <1>1 DEF Off, UpTo

\* An event goes to the end of the queue, or the viewer is disconnected.
LEMMA SentUpTo ==
  ASSUME NEW n \in Nat, NEW v, UpTo(v, n)
  PROVE  UpTo(Sent(v, n + 1), n + 1)
<1>1. CASE Len(v.queue) < SendBuffer
  <2>1. PICK x \in Viewers : x = v
    BY DEF UpTo
  <2> DEFINE q == Append(x.queue, n + 1)
             y == [x EXCEPT !.queue = q]
  <2>2. q \in Seq(Nat) /\ {x.queue[i] : i \in DOMAIN x.queue} \subseteq {q[i] : i \in DOMAIN q}
        /\ n + 1 \in {q[i] : i \in DOMAIN q}
    <3>1. PICK z \in Seq(Nat) : z = x.queue
      BY DEF Viewers
    <3>2. PICK m \in Nat : m = Len(z)
      BY <3>1
    <3>3. DOMAIN z = 1..m /\ DOMAIN q = 1..(m + 1) /\ q[m + 1] = n + 1 /\ \A i \in 1..m : q[i] = z[i]
      BY <3>1, <3>2
    <3>4. m + 1 \in 1..(m + 1) /\ 1..m \subseteq 1..(m + 1)
      OBVIOUS
    <3>5. q \in Seq(Nat)
      BY <3>1
    <3> HIDE DEF q
    <3> QED BY <3>1, <3>3, <3>4, <3>5
  <2>3. y \in Viewers /\ y.loaded = x.loaded /\ y.on = x.on /\ y.seen = x.seen /\ y.queue = q /\ y.skipped = x.skipped
    <3> HIDE DEF q
    <3> QED BY <2>2 DEF Viewers
  <2>4. Known(x) \subseteq Known(y) /\ n + 1 \in Known(y)
    <3> HIDE DEF q, y
    <3> QED BY <2>2, <2>3 DEF Known
  <2>5. 1..(n + 1) = 1..n \cup {n + 1}
    OBVIOUS
  <2>6. Sent(v, n + 1) = y
    BY <1>1, <2>1, Zenon DEF Sent
  <2>7. UpTo(y, n + 1)
    <3> HIDE DEF q, y
    <3> QED BY <2>1, <2>3, <2>4, <2>5 DEF UpTo
  <2> QED BY <2>6, <2>7
<1>2. CASE ~(Len(v.queue) < SendBuffer)
  BY <1>2, OffUpTo DEF Sent
<1> QED BY <1>1, <1>2

\* A viewer who reads keeps what was read.
LEMMA ReceivedUpTo ==
  ASSUME NEW n, NEW x \in Viewers, UpTo(x, n), x.queue # <<>>,
         NEW y, y = [x EXCEPT !.seen = x.seen \cup {Head(x.queue)}, !.queue = Tail(x.queue)]
  PROVE  UpTo(y, n)
<1>1. PICK z \in Seq(Nat) : z = x.queue
  BY DEF Viewers
<1>2. PICK m \in Nat : m = Len(z) /\ m > 0
  BY <1>1
<1>3. PICK h \in Nat, r \in Seq(Nat) : h = Head(z) /\ r = Tail(z)
  <2>1. z # <<>>
    BY <1>1
  <2>2. Head(z) \in Nat /\ Tail(z) \in Seq(Nat)
    BY ONLY <1>1, <2>1
  <2> QED BY <2>2
<1>4. \A i \in 1..m : z[i] = h \/ \E j \in DOMAIN r : r[j] = z[i]
  <2>1. Len(r) = m - 1 /\ DOMAIN r = 1..(m - 1) /\ h = z[1] /\ \A j \in 1..(m - 1) : r[j] = z[j + 1]
    BY <1>1, <1>2, <1>3
  <2>2. \A i \in 1..m : i = 1 \/ (i - 1 \in 1..(m - 1) /\ (i - 1) + 1 = i)
    BY <1>2
  <2> QED BY <2>1, <2>2
<1>5. DOMAIN z = 1..m
  BY <1>1, <1>2
<1>6. PICK s \in SUBSET Nat : s = x.seen \cup {h}
  BY <1>3 DEF Viewers
<1>7. y = [x EXCEPT !.seen = s, !.queue = r]
  BY <1>1, <1>3, <1>6, Zenon
<1>8. /\ y \in Viewers /\ y.loaded = x.loaded /\ y.on = x.on /\ y.seen = s /\ y.queue = r
      /\ y.skipped = x.skipped
  BY <1>3, <1>7 DEF Viewers
<1>9. Known(x) \subseteq Known(y)
  <2>1. {x.queue[i] : i \in DOMAIN x.queue} \subseteq {h} \cup {r[j] : j \in DOMAIN r}
    BY ONLY <1>1, <1>4, <1>5
  <2>2. Known(y) = s \cup {r[j] : j \in DOMAIN r} \cup x.skipped
    BY ONLY <1>8 DEF Known
  <2> QED BY <1>6, <2>1, <2>2 DEF Known
<1> QED BY <1>8, <1>9 DEF UpTo

LEMMA RealtimeFollows ==
  ASSUME Following, outbox \in Seq(Event), RealtimeNext
  PROVE  Following'
<1>1. PICK s \in Streams, n \in Nat, v \in Viewers, l \in Nat :
        s = stream /\ n = stream.at /\ v = viewer /\ l = Len(outbox) /\ n <= l /\ UpTo(v, n)
  BY DEF Following, UpTo, Streams
<1>2. ASSUME UNCHANGED outbox, NEW t \in Streams, stream' = t, t.at <= l, UpTo(viewer', t.at)
      PROVE  Following'
  BY <1>1, <1>2 DEF Following
<1>3. /\ [s EXCEPT !.open = FALSE] \in Streams /\ [s EXCEPT !.open = FALSE].at = n
      /\ \A a \in Nat : /\ [s EXCEPT !.at = a, !.resumable = TRUE] \in Streams
                         /\ [s EXCEPT !.at = a, !.resumable = TRUE].at = a
                         /\ [s EXCEPT !.open = TRUE, !.at = a] \in Streams
                         /\ [s EXCEPT !.open = TRUE, !.at = a].at = a
  BY <1>1 DEF Streams
<1>4. CASE Deliver
  <2>1. n < l /\ n + 1 \in Nat /\ n + 1 <= l
    BY <1>1, <1>4 DEF Deliver
  <2>2. stream' = [s EXCEPT !.at = n + 1, !.resumable = TRUE] /\ UNCHANGED outbox
    <3>1. stream' = [stream EXCEPT !.at = stream.at + 1, !.resumable = TRUE] /\ UNCHANGED outbox
      BY <1>4, Zenon DEF Deliver
    <3> QED BY ONLY <1>1, <3>1, Zenon
  <2>3. viewer' = IF v.on THEN Sent(v, n + 1) ELSE v
    BY <1>1, <1>4, Zenon DEF Deliver
  <2>4. UpTo(viewer', n + 1)
    <3>1. CASE v.on
      BY <1>1, <2>3, <3>1, SentUpTo
    <3>2. CASE ~v.on
      BY <1>1, <2>3, <3>2 DEF UpTo
    <3> QED BY <3>1, <3>2
  <2>5. [s EXCEPT !.at = n + 1, !.resumable = TRUE] \in Streams
        /\ [s EXCEPT !.at = n + 1, !.resumable = TRUE].at = n + 1
    BY <1>3, <2>1
  <2> QED BY <1>2, <2>1, <2>2, <2>4, <2>5
<1>5. CASE Break
  <2>1. stream' = [s EXCEPT !.open = FALSE] /\ UNCHANGED <<outbox, viewer>>
    BY <1>1, <1>5, Zenon DEF Break
  <2> QED BY <1>1, <1>2, <1>3, <2>1
<1>6. CASE Open
  <2>1. /\ stream' = [s EXCEPT !.open = TRUE, !.at = ResumePoint] /\ UNCHANGED outbox
        /\ viewer' = IF v.loaded /\ ~s.resumable
                     THEN [v EXCEPT !.skipped = v.skipped \cup (n + 1)..l] ELSE v
    <3>1. /\ stream' = [stream EXCEPT !.open = TRUE, !.at = ResumePoint] /\ UNCHANGED outbox
          /\ viewer' = IF viewer.loaded /\ ~stream.resumable
                       THEN [viewer EXCEPT !.skipped = viewer.skipped \cup (stream.at + 1)..Len(outbox)] ELSE viewer
      BY <1>6, Zenon DEF Open
    <3> QED BY ONLY <1>1, <3>1, Zenon
  <2>2. CASE s.resumable
    <3>1. ResumePoint = n
      BY <1>1, <2>2 DEF ResumePoint
    <3>2. viewer' = v /\ stream' = [s EXCEPT !.open = TRUE, !.at = n]
      BY <2>1, <2>2, <3>1
    <3>3. [s EXCEPT !.open = TRUE, !.at = n] \in Streams /\ [s EXCEPT !.open = TRUE, !.at = n].at = n
      BY <1>3
    <3> QED BY <1>1, <1>2, <2>1, <3>2, <3>3
  <2>3. CASE ~s.resumable
    <3>1. ResumePoint = l
      BY <1>1, <2>3 DEF ResumePoint
    <3>2. UpTo(viewer', l)
      <4>1. CASE v.loaded
        <5>1. PICK k \in SUBSET Nat : k = v.skipped \cup (n + 1)..l
          <6>1. (n + 1)..l \subseteq Nat /\ v.skipped \subseteq Nat
            BY DEF Viewers
          <6> QED BY <6>1
        <5>2. viewer' = [v EXCEPT !.skipped = k]
          BY <2>1, <2>3, <4>1, <5>1
        <5>3. /\ viewer' \in Viewers /\ viewer'.loaded = v.loaded /\ viewer'.on = v.on
              /\ viewer'.seen = v.seen /\ viewer'.queue = v.queue /\ viewer'.skipped = k
          BY <5>2 DEF Viewers
        <5>4. 1..l \subseteq 1..n \cup (n + 1)..l
          BY <1>1
        <5> QED BY <1>1, <4>1, <5>1, <5>3, <5>4 DEF UpTo, Known
      <4>2. CASE ~v.loaded
        BY <1>1, <2>1, <4>2 DEF UpTo
      <4> QED BY <4>1, <4>2
    <3>3. [s EXCEPT !.open = TRUE, !.at = l] \in Streams /\ [s EXCEPT !.open = TRUE, !.at = l].at = l
      BY <1>3
    <3>4. l <= l /\ stream' = [s EXCEPT !.open = TRUE, !.at = l]
      BY <2>1, <3>1
    <3> QED BY <1>2, <2>1, <3>2, <3>3, <3>4
  <2> QED BY <2>2, <2>3
<1>7. CASE Restart
  <2>1. stream' = [open |-> FALSE, resumable |-> FALSE, at |-> 0] /\ viewer' = Off /\ UNCHANGED outbox
    BY <1>7 DEF Restart
  <2>2. [open |-> FALSE, resumable |-> FALSE, at |-> 0] \in Streams
    BY DEF Streams
  <2>3. 0 <= l /\ [open |-> FALSE, resumable |-> FALSE, at |-> 0].at = 0
    BY <1>1
  <2> QED BY <1>2, <2>1, <2>2, <2>3, OffUpTo
<1>8. ASSUME UNCHANGED <<outbox, stream>>, UpTo(viewer', n)
      PROVE  Following'
  BY <1>1, <1>2, <1>8
<1>9. CASE Subscribe
  <2>1. [Off EXCEPT !.on = TRUE] \in Viewers /\ ~[Off EXCEPT !.on = TRUE].loaded
    <3>1. PICK x \in Viewers : x = Off /\ ~x.loaded
      BY OffUpTo
    <3>2. [x EXCEPT !.on = TRUE] \in Viewers /\ ~[x EXCEPT !.on = TRUE].loaded
      BY <3>1 DEF Viewers
    <3> QED BY <3>1, <3>2
  <2>2. UpTo([Off EXCEPT !.on = TRUE], n)
    BY <2>1 DEF UpTo
  <2> QED BY <1>8, <1>9, <2>2 DEF Subscribe
<1>10. CASE Load
  <2>1. PICK k \in SUBSET Nat : k = v.seen \cup 1..l
    <3>1. 1..l \subseteq Nat /\ v.seen \subseteq Nat
      BY DEF Viewers
    <3> QED BY <3>1
  <2>2. DOMAIN outbox = 1..l
    BY <1>1
  <2>3. v.on /\ viewer' = [v EXCEPT !.loaded = TRUE, !.seen = k] /\ UNCHANGED <<outbox, stream>>
    <3>1. /\ viewer.on /\ viewer' = [viewer EXCEPT !.loaded = TRUE, !.seen = viewer.seen \cup DOMAIN outbox]
          /\ UNCHANGED <<outbox, stream>>
      BY <1>10, Zenon DEF Load
    <3> QED BY ONLY <1>1, <2>1, <2>2, <3>1, Zenon
  <2>4. viewer' \in Viewers /\ viewer'.on = v.on /\ viewer'.seen = k
    BY <2>3 DEF Viewers
  <2>5. 1..n \subseteq 1..l
    BY <1>1
  <2> QED BY <1>8, <2>1, <2>3, <2>4, <2>5 DEF UpTo, Known
<1>11. CASE Receive
  <2>1. /\ viewer.queue # <<>> /\ UNCHANGED <<outbox, stream>>
        /\ viewer' = [viewer EXCEPT !.seen = viewer.seen \cup {Head(viewer.queue)}, !.queue = Tail(viewer.queue)]
    BY <1>11, Zenon DEF Receive
  <2>2. /\ v.queue # <<>>
        /\ viewer' = [v EXCEPT !.seen = v.seen \cup {Head(v.queue)}, !.queue = Tail(v.queue)]
    BY ONLY <1>1, <2>1, Zenon
  <2>3. UpTo(viewer', n)
    BY <1>1, <2>2, ReceivedUpTo
  <2> QED BY <1>8, <2>1, <2>3
<1>12. CASE Leave
  BY <1>8, <1>12, OffUpTo DEF Leave
<1> QED BY <1>4, <1>5, <1>6, <1>7, <1>9, <1>10, <1>11, <1>12 DEF RealtimeNext

LEMMA FollowingInit == Init => Following
<1> SUFFICES ASSUME Init PROVE Following
  OBVIOUS
<1>1. stream \in Streams /\ stream.at = 0
  BY DEF Init, RealtimeInit, Streams
<1>2. Len(outbox) = 0
  BY DEF Init, DeliveriesInit
<1> QED BY <1>1, <1>2, OffUpTo DEF Init, RealtimeInit, Following

LEMMA FollowingStep == AnnouncedInv /\ Following /\ [Next]_vars => Following'
<1> SUFFICES ASSUME AnnouncedInv, Following, [Next]_vars PROVE Following'
  OBVIOUS
<1>1. CASE PollerStep
  <2>1. UNCHANGED <<stream, viewer>>
    BY <1>1 DEF PollerStep, realtimeVars
  <2>2. Len(outbox') >= Len(outbox) /\ Len(outbox') \in Nat
    <3>1. outbox' \in Seq(Event) /\ Len(outbox') >= Len(outbox)
      BY <1>1, DeliveriesTells DEF AnnouncedInv, PollerStep, DeliveriesTyped, StoreTypeOK
    <3> QED BY <3>1
  <2> QED BY <2>1, <2>2 DEF Following, Streams
<1>2. CASE ReplicaStep
  BY <1>2, RealtimeFollows DEF ReplicaStep, AnnouncedInv, DeliveriesTyped, StoreTypeOK
<1>3. CASE ReplayStep \/ UNCHANGED vars
  BY <1>3 DEF Following, ReplayStep, vars, feedVars, deliveryVars, storeVars, realtimeVars
<1> QED BY <1>1, <1>2, <1>3 DEF Next, FeedStep

(* A viewer that has loaded the balls is never behind the stream without     *)
(* being told (realtime, hub and change stream): what the stream passed was  *)
(* read, waits in the buffer, or was passed over by a watch without a token. *)
THEOREM NoHiddenGapHolds == Spec => []NoHiddenGap
<1>1. Following => NoHiddenGap
  BY DEF Following, UpTo, Known, NoHiddenGap
<1> QED BY <1>1, AnnouncedInit, AnnouncedStep, FollowingInit, FollowingStep, PTL DEF Spec

-----------------------------------------------------------------------------
(* ReplaysOnce.                                                            *)

Matches == [status : {"live", "completed"}, innings : 1..2, score : Nat]
Replaying == {"resume", "wait", "ball", "update", "append"}
Steps == Replaying \cup {"idle", "gone", "plan", "clear", "reset", "align", "turn", "turning",
                         "finish", "finishing"}
Workers == [inst : Instances \cup {NoOne}, step : Steps, mode : {"start", "reset"}, stopped : BOOLEAN,
            innings : 1..2, cursor : Nat, old : Matches]
Locks == [owner : Instances \cup {NoOne}, token : 0..MaxStarts, live : BOOLEAN]

ReplayTyped ==
  /\ match \in Matches /\ events \in [1..2 -> Seq((1..2) \X Nat)] /\ lock \in Locks
  /\ worker \in [1..MaxStarts -> Workers] /\ clean \in BOOLEAN

\* The history is a beginning of the recording, and the match is in the
\* second innings only after the first one, unless nothing is recorded.
Recorded(m, ev) ==
  /\ \A i \in 1..2 : Len(ev[i]) <= Rows /\ \A n \in 1..Len(ev[i]) : ev[i][n] = <<i, n>>
  /\ ev[2] # <<>> => Len(ev[1]) = Rows
  /\ m.innings = 2 => Len(ev[1]) = Rows \/ (ev[1] = <<>> /\ ev[2] = <<>>)

\* A worker is at its place in the recording.
Placed(w, ev, n) ==
  /\ w.cursor < Rows /\ Len(ev[w.innings]) = n
  /\ w.innings = 2 => Len(ev[1]) = Rows
  /\ w.innings = 1 => ev[2] = <<>>

\* What the holder of the lock relies on, by its step.
InStep(w, m, ev) ==
  /\ w.step = "reset" => ev[1] = <<>> /\ ev[2] = <<>>
  /\ w.step \in Replaying => Placed(w, ev, w.cursor)
  /\ w.step = "resume" =>
       /\ w.old = m /\ (m.innings = 2 => m.score < Rows) /\ (m.innings # w.innings => w.innings = 2)
       /\ w.cursor = 0 => w.innings = 2
  /\ w.step \in {"wait", "ball", "update"} =>
       m.innings = w.innings /\ m.score < Rows /\ (w.cursor > 0 => m.score = w.cursor)
  /\ w.step = "update" => w.old = m
  /\ w.step \in {"append", "align"} =>
       w.old.innings = w.innings /\ m.status = w.old.status /\ m.innings = w.old.innings /\ m.score = w.old.score + 1
  /\ w.step = "align" => Placed(w, ev, w.cursor + 1)
  /\ w.step \in {"turn", "turning"} => Len(ev[1]) = Rows /\ ev[2] = <<>>

ReplayInv ==
  /\ ReplayTyped
  /\ clean => Recorded(match, events) /\ (lock.token # 0 => InStep(worker[lock.token], match, events))

\* A worker as another but for being stopped, or gone.
Same(v, w) ==
  v.step = "gone" \/ (v.step = w.step /\ v.innings = w.innings /\ v.cursor = w.cursor /\ v.old = w.old)

LEMMA SameInStep ==
  ASSUME NEW v, NEW w, Same(v, w), NEW m, NEW ev, InStep(w, m, ev)
  PROVE  InStep(v, m, ev)
<1>1. CASE v.step = "gone"
  BY <1>1 DEF InStep, Replaying
<1>2. CASE v.step = w.step /\ v.innings = w.innings /\ v.cursor = w.cursor /\ v.old = w.old
  BY <1>2 DEF InStep, Placed
<1> QED BY <1>1, <1>2 DEF Same

\* A step of worker t: the lock is kept or given up, the other workers are as
\* before, and what is written counts only if t holds the lock.
LEMMA StepOfWorker ==
  ASSUME ReplayInv, ReplayTyped', NEW t \in 1..MaxStarts,
         lock' = lock \/ (lock.token = t /\ lock' = Unlocked),
         \A s \in 1..MaxStarts : s # t => Same(worker'[s], worker[s]),
         clean' => lock.token = t \/ (clean /\ UNCHANGED <<match, events>>),
         clean' /\ lock.token = t => Recorded(match', events') /\ InStep(worker'[t], match', events')
  PROVE  ReplayInv'
<1> SUFFICES ASSUME clean'
             PROVE  Recorded(match', events') /\ (lock'.token # 0 => InStep(worker'[lock'.token], match', events'))
  BY DEF ReplayInv
<1>1. CASE lock.token = t
  <2>1. lock'.token = t \/ lock'.token = 0
    BY <1>1 DEF Unlocked
  <2> QED BY <1>1, <2>1
<1>2. CASE lock.token # t
  <2>1. clean /\ UNCHANGED <<match, events>> /\ lock' = lock
    BY <1>2
  <2>2. Recorded(match, events) /\ (lock.token # 0 => InStep(worker[lock.token], match, events))
    BY <2>1 DEF ReplayInv
  <2>3. lock.token # 0 => lock.token \in 1..MaxStarts
    BY ReplayAssumption DEF ReplayInv, ReplayTyped, Locks
  <2>4. lock.token # 0 => InStep(worker'[lock.token], match, events)
    BY <1>2, <2>2, <2>3, SameInStep
  <2> QED BY <2>1, <2>2, <2>4
<1> QED BY <1>1, <1>2

\* A step that writes nothing and leaves the holder of the lock alone, or
\* has a new one.
LEMMA StepAside ==
  ASSUME ReplayInv, ReplayTyped', UNCHANGED <<match, events, clean>>,
         \/ lock'.token = lock.token /\ \A s \in 1..MaxStarts : Same(worker'[s], worker[s])
         \/ lock'.token # 0 => worker'[lock'.token].step \in {"clear", "plan"}
  PROVE  ReplayInv'
<1> SUFFICES ASSUME clean'
             PROVE  Recorded(match', events') /\ (lock'.token # 0 => InStep(worker'[lock'.token], match', events'))
  BY DEF ReplayInv
<1>1. Recorded(match, events) /\ (lock.token # 0 => InStep(worker[lock.token], match, events))
  BY DEF ReplayInv
<1>2. CASE lock'.token = lock.token /\ \A s \in 1..MaxStarts : Same(worker'[s], worker[s])
  <2>1. lock.token # 0 => lock.token \in 1..MaxStarts
    BY ReplayAssumption DEF ReplayInv, ReplayTyped, Locks
  <2>2. lock.token # 0 => InStep(worker'[lock.token], match, events)
    BY <1>1, <1>2, <2>1, SameInStep
  <2> QED BY <1>1, <1>2, <2>2
<1>3. CASE lock'.token # 0 => worker'[lock'.token].step \in {"clear", "plan"}
  <2>1. \A w : w.step \in {"clear", "plan"} => InStep(w, match, events)
    BY DEF InStep, Replaying
  <2> QED BY <1>1, <1>3, <2>1
<1> QED BY <1>2, <1>3

LEMMA UnlockedTyped == Unlocked \in Locks
BY ReplayAssumption DEF Unlocked, Locks

LEMMA StoppedSame ==
  ASSUME NEW w \in [1..MaxStarts -> Workers], NEW i
  PROVE  /\ WithStopped(w, i) \in [1..MaxStarts -> Workers]
         /\ \A s \in 1..MaxStarts : Same(WithStopped(w, i)[s], w[s])
<1>1. PICK c : c = current[i]
  OBVIOUS
<1>2. CASE c = 0
  BY <1>1, <1>2 DEF WithStopped, Same
<1>3. CASE c # 0
  <2>1. WithStopped(w, i) = [w EXCEPT ![c].stopped = TRUE]
    BY <1>1, <1>3 DEF WithStopped
  <2>2. \A x \in Workers : [x EXCEPT !.stopped = TRUE] \in Workers /\ Same([x EXCEPT !.stopped = TRUE], x)
    BY DEF Workers, Same
  <2>3. \A s \in 1..MaxStarts : WithStopped(w, i)[s] = IF s = c THEN [w[s] EXCEPT !.stopped = TRUE] ELSE w[s]
    BY <2>1
  <2>4. \A s \in 1..MaxStarts : w[s] \in Workers /\ Same(w[s], w[s])
    BY DEF Same
  <2>5. WithStopped(w, i) = [s \in 1..MaxStarts |-> WithStopped(w, i)[s]]
    BY <2>1
  <2>6. \A s \in 1..MaxStarts : WithStopped(w, i)[s] \in Workers /\ Same(WithStopped(w, i)[s], w[s])
    BY <2>2, <2>3, <2>4
  <2> HIDE DEF WithStopped
  <2> QED BY <2>5, <2>6
<1> QED BY <1>2, <1>3

\* One worker becomes x.
LEMMA WorkerBecomes ==
  ASSUME ReplayTyped, NEW t \in 1..MaxStarts, NEW x \in Workers,
         NEW i, worker' = [worker EXCEPT ![t] = x] \/ worker' = [WithStopped(worker, i) EXCEPT ![t] = x]
  PROVE  /\ worker' \in [1..MaxStarts -> Workers] /\ worker'[t] = x
         /\ \A s \in 1..MaxStarts : s # t => Same(worker'[s], worker[s])
<1>1. PICK w : w \in [1..MaxStarts -> Workers] /\ worker' = [w EXCEPT ![t] = x]
               /\ \A s \in 1..MaxStarts : Same(w[s], worker[s])
  <2>1. worker \in [1..MaxStarts -> Workers] /\ \A s \in 1..MaxStarts : Same(worker[s], worker[s])
    BY DEF ReplayTyped, Same
  <2> QED BY <2>1, StoppedSame
<1> QED BY <1>1

LEMMA GoneTyped == \A b \in BOOLEAN : Gone(b) \in Workers /\ Gone(b).step = "gone"
<1>1. [status |-> "live", innings |-> 1, score |-> 0] \in Matches /\ {"idle", "gone"} \subseteq Steps
  BY DEF Matches, Steps
<1>2. PICK w \in Workers : w = Idle
  <2>1. Idle \in Workers
    BY <1>1 DEF Idle, Workers
  <2> QED BY <2>1
<1>3. \A b \in BOOLEAN : /\ [w EXCEPT !.step = "gone", !.stopped = b] \in Workers
                        /\ [w EXCEPT !.step = "gone", !.stopped = b].step = "gone"
  BY <1>1 DEF Workers
<1>4. \A b \in BOOLEAN : Gone(b) = [w EXCEPT !.step = "gone", !.stopped = b]
  BY <1>2 DEF Gone
<1> QED BY <1>3, <1>4

LEMMA FreshTyped == /\ Fresh \in Matches /\ Fresh.innings = 1 /\ Fresh.score = 0
                    /\ [Fresh EXCEPT !.innings = 2] \in Matches /\ [Fresh EXCEPT !.innings = 2].innings = 2
                    /\ [Fresh EXCEPT !.innings = 2].score = 0
BY DEF Fresh, Matches

LEMMA ExitOf ==
  ASSUME ReplayTyped, NEW t \in 1..MaxStarts, NEW b \in BOOLEAN, Exit(t, b)
  PROVE  /\ lock' \in Locks /\ (lock' = lock \/ (lock.token = t /\ lock' = Unlocked))
         /\ worker' \in [1..MaxStarts -> Workers] /\ worker'[t].step = "gone"
         /\ \A s \in 1..MaxStarts : s # t => Same(worker'[s], worker[s])
<1>1. worker' = [worker EXCEPT ![t] = Gone(b)] /\ Gone(b) \in Workers /\ Gone(b).step = "gone"
  BY GoneTyped DEF Exit
<1>2. lock' = IF lock.token = t THEN Unlocked ELSE lock
  BY DEF Exit
<1> QED BY <1>1, <1>2, WorkerBecomes, UnlockedTyped DEF ReplayTyped

\* A worker that only goes to another step.
LEMMA GotoOf ==
  ASSUME ReplayTyped, NEW t \in 1..MaxStarts, NEW step \in Steps, Goto(t, step)
  PROVE  /\ worker' \in [1..MaxStarts -> Workers] /\ worker'[t].step = step
         /\ worker'[t].innings = worker[t].innings /\ worker'[t].cursor = worker[t].cursor
         /\ worker'[t].old = worker[t].old
         /\ \A s \in 1..MaxStarts : s # t => Same(worker'[s], worker[s])
<1>1. PICK w \in Workers : w = worker[t]
  BY DEF ReplayTyped
<1>2. PICK x \in Workers : x = [w EXCEPT !.step = step] /\ x.step = step
                           /\ x.innings = w.innings /\ x.cursor = w.cursor /\ x.old = w.old
  <2>1. [w EXCEPT !.step = step] \in Workers /\ [w EXCEPT !.step = step].step = step
        /\ [w EXCEPT !.step = step].innings = w.innings /\ [w EXCEPT !.step = step].cursor = w.cursor
        /\ [w EXCEPT !.step = step].old = w.old
    BY DEF Workers
  <2> QED BY <2>1
<1>3. worker' = [worker EXCEPT ![t] = x]
  BY <1>1, <1>2 DEF Goto
<1>4. worker' \in [1..MaxStarts -> Workers] /\ worker'[t] = x
      /\ \A s \in 1..MaxStarts : s # t => Same(worker'[s], worker[s])
  BY <1>3, WorkerBecomes
<1> QED BY <1>1, <1>2, <1>4

\* Worker t is at a step, with its place in the recording and what it read.
Moved(t, step, i, c, m) ==
  /\ worker' \in [1..MaxStarts -> Workers]
  /\ worker'[t].step = step /\ worker'[t].innings = i /\ worker'[t].cursor = c /\ worker'[t].old = m
  /\ \A s \in 1..MaxStarts : s # t => Same(worker'[s], worker[s])

Going(w, step, i, c, m) == [w EXCEPT !.step = step, !.innings = i, !.cursor = c, !.old = m]

LEMMA GoingTyped ==
  ASSUME NEW w \in Workers, NEW step \in Steps, NEW i \in 1..2, NEW c \in Nat, NEW m \in Matches
  PROVE  /\ Going(w, step, i, c, m) \in Workers
         /\ Going(w, step, i, c, m).step = step /\ Going(w, step, i, c, m).innings = i
         /\ Going(w, step, i, c, m).cursor = c /\ Going(w, step, i, c, m).old = m
BY DEF Going, Workers

LEMMA GoingMoved ==
  ASSUME ReplayTyped, NEW t \in 1..MaxStarts, NEW w \in Workers,
         NEW step \in Steps, NEW i \in 1..2, NEW c \in Nat, NEW m \in Matches,
         worker' = [worker EXCEPT ![t] = Going(w, step, i, c, m)]
  PROVE  Moved(t, step, i, c, m)
<1>1. PICK x \in Workers : /\ x = Going(w, step, i, c, m)
                          /\ x.step = step /\ x.innings = i /\ x.cursor = c /\ x.old = m
  BY GoingTyped
<1>2. /\ worker' \in [1..MaxStarts -> Workers] /\ worker'[t] = x
      /\ \A s \in 1..MaxStarts : s # t => Same(worker'[s], worker[s])
  BY <1>1, WorkerBecomes
<1> QED BY <1>1, <1>2 DEF Moved

\* Steps at which a worker relies on nothing.
LEMMA FreeStep ==
  ASSUME NEW w, w.step \in {"idle", "gone", "plan", "clear", "finish", "finishing"}, NEW m, NEW ev
  PROVE  InStep(w, m, ev)
BY DEF InStep, Replaying

LEMMA HolderInStep ==
  ASSUME ReplayInv, NEW t \in 1..MaxStarts, clean, lock.token = t
  PROVE  Recorded(match, events) /\ InStep(worker[t], match, events)
BY DEF ReplayInv

LEMMA RecordedKept ==
  ASSUME NEW m, NEW ev, Recorded(m, ev), NEW n, n.innings = m.innings
  PROVE  Recorded(n, ev)
BY DEF Recorded

LEMMA BeginKeeps ==
  ASSUME ReplayInv, NEW t \in 1..MaxStarts, NEW i \in Instances,
         BeginResume(i, t) \/ Begin(i, t, "start") \/ Begin(i, t, "reset")
  PROVE  ReplayInv'
<1>1. ReplayTyped /\ {"clear", "plan"} \subseteq Steps
  BY DEF ReplayInv, Steps
<1>2. lock' \in Locks /\ lock'.token = t /\ UNCHANGED <<match, events, clean>>
  <2>1. lock' = [owner |-> i, token |-> t, live |-> TRUE] /\ UNCHANGED <<match, events, clean>>
    BY DEF BeginResume, Begin, Acquire
  <2> QED BY <2>1 DEF Locks
<1>3. CASE BeginResume(i, t)
  <2>1. PICK w \in Workers : w = worker[t]
    BY <1>1 DEF ReplayTyped
  <2>2. PICK x \in Workers : x = [w EXCEPT !.inst = i, !.step = "plan"] /\ x.step = "plan"
    <3>1. [w EXCEPT !.inst = i, !.step = "plan"] \in Workers /\ [w EXCEPT !.inst = i, !.step = "plan"].step = "plan"
      BY <1>1 DEF Workers
    <3> QED BY <3>1
  <2>3. worker' = [worker EXCEPT ![t] = x]
    BY <1>1, <1>3, <2>1, <2>2 DEF BeginResume, ReplayTyped
  <2>4. worker' \in [1..MaxStarts -> Workers] /\ worker'[t].step = "plan"
    BY <1>1, <2>2, <2>3, WorkerBecomes
  <2> QED BY <1>1, <1>2, <2>4, StepAside DEF ReplayTyped
<1>4. ASSUME NEW mode \in {"start", "reset"}, Begin(i, t, mode)
      PROVE  ReplayInv'
  <2>1. PICK b \in [1..MaxStarts -> Workers] : b = WithStopped(worker, i)
    BY <1>1, StoppedSame DEF ReplayTyped
  <2>2. PICK w \in Workers : w = b[t]
    OBVIOUS
  <2>3. PICK x \in Workers : x = [w EXCEPT !.inst = i, !.step = "clear", !.mode = mode] /\ x.step = "clear"
    <3>1. /\ [w EXCEPT !.inst = i, !.step = "clear", !.mode = mode] \in Workers
          /\ [w EXCEPT !.inst = i, !.step = "clear", !.mode = mode].step = "clear"
      BY <1>1 DEF Workers
    <3> QED BY <3>1
  <2>4. worker' = [b EXCEPT ![t] = x]
    BY <1>4, <2>1, <2>2, <2>3 DEF Begin
  <2>5. worker' \in [1..MaxStarts -> Workers] /\ worker'[t].step = "clear"
    BY <2>3, <2>4
  <2> QED BY <1>1, <1>2, <2>5, StepAside DEF ReplayTyped
<1> QED BY <1>3, <1>4

LEMMA AlignedTyped ==
  ASSUME NEW m \in Matches, NEW c \in Nat
  PROVE  /\ Aligned(m, c) \in Matches /\ Aligned(m, c).innings = m.innings /\ Aligned(m, c).status = m.status
         /\ Aligned(m, c).score = IF c = 0 THEN m.score ELSE c
BY DEF Aligned, Matches

LEMMA PlanSkipKeeps ==
  ASSUME ReplayInv, NEW t \in 1..MaxStarts, PlanSkip(t)
  PROVE  ReplayInv'
<1>1. ReplayTyped /\ Exit(t, TRUE) /\ UNCHANGED events
  BY DEF ReplayInv, PlanSkip
<1>2. /\ lock' \in Locks /\ (lock' = lock \/ (lock.token = t /\ lock' = Unlocked))
      /\ worker' \in [1..MaxStarts -> Workers] /\ worker'[t].step = "gone"
      /\ \A s \in 1..MaxStarts : s # t => Same(worker'[s], worker[s])
  BY <1>1, ExitOf
<1>3. match' \in Matches /\ match'.innings = match.innings /\ clean' = (clean /\ lock.token = t)
  <2>1. PICK c \in Nat : c = Len(events[match.innings])
    <3>1. match.innings \in 1..2
      BY <1>1 DEF ReplayTyped, Matches
    <3>2. events[match.innings] \in Seq((1..2) \X Nat)
      BY <1>1, <3>1 DEF ReplayTyped
    <3> QED BY <3>2
  <2>2. match' = Aligned(match, c) /\ clean' = (clean /\ lock.token = t)
    BY <2>1 DEF PlanSkip, Written
  <2> QED BY <1>1, <2>2, AlignedTyped DEF ReplayTyped
<1>4. ReplayTyped'
  BY <1>1, <1>2, <1>3 DEF ReplayTyped
<1>5. clean' /\ lock.token = t => Recorded(match', events') /\ InStep(worker'[t], match', events')
  <2> SUFFICES ASSUME clean', lock.token = t PROVE Recorded(match', events') /\ InStep(worker'[t], match', events')
    OBVIOUS
  <2>1. Recorded(match, events)
    BY <1>3, HolderInStep
  <2>2. Recorded(match', events')
    BY <1>1, <1>3, <2>1, RecordedKept
  <2> QED BY <1>2, <2>2, FreeStep
<1> QED BY <1>2, <1>3, <1>4, <1>5, StepOfWorker

LEMMA PlanKeeps ==
  ASSUME ReplayInv, NEW t \in 1..MaxStarts, Plan(t)
  PROVE  ReplayInv'
<1> DEFINE step == IF Unplayed THEN "clear" ELSE "resume"
<1>1. ReplayTyped /\ UNCHANGED <<match, events, lock, clean>> /\ step \in Steps
  BY DEF ReplayInv, Plan, Steps, Replaying
<1>2. PICK i \in 1..2, c \in Nat : i = PlannedInnings /\ c = PlannedCursor(i) /\ c = Len(events[i])
  <2>1. PlannedInnings \in 1..2
    BY <1>1 DEF PlannedInnings, ReplayTyped, Matches
  <2>2. \A i \in 1..2 : PlannedCursor(i) = Len(events[i]) /\ Len(events[i]) \in Nat
    BY <1>1 DEF PlannedCursor, ReplayTyped
  <2> QED BY <2>1, <2>2
<1>3. Moved(t, step, i, c, match)
  <2>1. PICK b \in [1..MaxStarts -> Workers] :
          b = WithStopped(worker, worker[t].inst) /\ \A s \in 1..MaxStarts : Same(b[s], worker[s])
    BY <1>1, StoppedSame DEF ReplayTyped
  <2>2. worker' = [b EXCEPT ![t].step = step, ![t].innings = i, ![t].cursor = c, ![t].old = match]
    BY <1>2, <2>1 DEF Plan
  <2>3. PICK w \in Workers : w = b[t]
    OBVIOUS
  <2>4. worker' = [b EXCEPT ![t] = Going(w, step, i, c, match)]
    <3> HIDE DEF step
    <3> QED BY <2>2, <2>3 DEF Going
  <2>5. PICK x \in Workers : /\ x = Going(w, step, i, c, match)
                            /\ x.step = step /\ x.innings = i /\ x.cursor = c /\ x.old = match
    <3>1. match \in Matches
      BY <1>1 DEF ReplayTyped
    <3> HIDE DEF step
    <3>2. /\ Going(w, step, i, c, match) \in Workers
          /\ Going(w, step, i, c, match).step = step /\ Going(w, step, i, c, match).innings = i
          /\ Going(w, step, i, c, match).cursor = c /\ Going(w, step, i, c, match).old = match
      BY <1>1, <3>1, GoingTyped
    <3> QED BY ONLY <3>2
  <2> HIDE DEF step
  <2>6. worker' = [b EXCEPT ![t] = x]
    BY <2>4, <2>5
  <2>7. /\ worker' \in [1..MaxStarts -> Workers] /\ worker'[t] = x
        /\ \A s \in 1..MaxStarts : s # t => worker'[s] = b[s]
    BY <2>6
  <2> QED BY <2>1, <2>5, <2>7 DEF Moved
<1>4. ReplayTyped'
  BY <1>1, <1>3 DEF ReplayTyped, Moved
<1>5. ASSUME clean, lock.token = t PROVE InStep(worker'[t], match, events)
  <2>1. Recorded(match, events)
    BY <1>5, HolderInStep
  <2>2. CASE Unplayed
    BY <1>3, <2>2, FreeStep DEF Moved
  <2>3. CASE ~Unplayed
    <3>1. PICK w : w = worker'[t] /\ w.step = "resume" /\ w.innings = i /\ w.cursor = c /\ w.old = match
      BY <1>3, <2>3 DEF Moved
    <3>2. /\ match.innings \in 1..2 /\ match.score \in Nat /\ Len(events[1]) \in Nat /\ Len(events[2]) \in Nat
          /\ Rows \in Nat \ {0}
      BY <1>1, ReplayAssumption DEF ReplayTyped, Matches
    <3>3. /\ c < Rows /\ (match.innings = 2 => match.score < Rows)
      BY <1>2, <2>3, <3>2 DEF Plan, Skips
    <3>4. i = IF match.innings = 1 /\ Len(events[1]) >= Rows THEN 2 ELSE match.innings
      BY <1>2 DEF PlannedInnings
    <3>5. events[1] # <<>> \/ events[2] # <<>>
      BY <2>3 DEF Unplayed
    <3>6. /\ Len(events[1]) <= Rows /\ (events[2] # <<>> => Len(events[1]) = Rows)
          /\ (match.innings = 2 => Len(events[1]) = Rows)
      BY <2>1, <3>5 DEF Recorded
    <3>7. c = 0 => events[i] = <<>>
      <4>1. PICK q \in Seq((1..2) \X Nat) : q = events[i]
        BY <1>1 DEF ReplayTyped
      <4>2. Len(q) = 0 => q = <<>>
        OBVIOUS
      <4> QED BY <1>2, <4>1, <4>2
    <3>8. (i = 2 => Len(events[1]) = Rows) /\ (i = 1 => events[2] = <<>>)
      BY <1>2, <3>2, <3>3, <3>4, <3>6
    <3>9. (c = 0 => i = 2) /\ (match.innings # i => i = 2)
      BY <1>2, <3>2, <3>4, <3>5, <3>7, <3>8
    <3>10. Placed(w, events, c)
      BY <1>2, <3>1, <3>3, <3>8 DEF Placed
    <3>11. InStep(w, match, events)
      BY <3>1, <3>3, <3>9, <3>10 DEF InStep, Replaying
    <3> QED BY <3>1, <3>11
  <2> QED BY <2>2, <2>3
<1>6. clean' /\ lock.token = t => Recorded(match', events') /\ InStep(worker'[t], match', events')
  BY <1>1, <1>5, HolderInStep
<1> HIDE DEF step
<1> QED BY <1>1, <1>3, <1>4, <1>6, StepOfWorker DEF Moved

LEMMA ResumeKeeps ==
  ASSUME ReplayInv, NEW t \in 1..MaxStarts, Resume(t)
  PROVE  ReplayInv'
<1>1. ReplayTyped /\ UNCHANGED <<events, lock>> /\ "wait" \in Steps
  BY DEF ReplayInv, Resume, Steps, Replaying
<1>2. PICK w \in Workers : w = worker[t] /\ w.innings \in 1..2 /\ w.cursor \in Nat /\ w.old \in Matches /\ w.step = "resume"
  BY <1>1 DEF ReplayTyped, Workers, Resume, At
<1>3. PICK turned \in Matches : turned = IF w.innings # w.old.innings THEN [Fresh EXCEPT !.innings = 2] ELSE w.old
  BY <1>2, FreshTyped
<1>4. PICK m \in Matches : /\ m = Aligned(turned, w.cursor) /\ m.innings = turned.innings
                          /\ m.score = IF w.cursor = 0 THEN turned.score ELSE w.cursor
  BY <1>2, AlignedTyped
<1>5. /\ match' = (IF m = w.old THEN match ELSE m) /\ clean' = (clean /\ lock.token = t)
      /\ worker' = [worker EXCEPT ![t].step = "wait", ![t].old = Fresh]
  BY <1>2, <1>3, <1>4 DEF Resume, Written
<1>6. Moved(t, "wait", w.innings, w.cursor, Fresh)
  <2>1. Going(w, "wait", w.innings, w.cursor, Fresh) = [w EXCEPT !.step = "wait", !.old = Fresh]
    BY <1>2 DEF Going, Workers
  <2>2. worker' = [worker EXCEPT ![t] = Going(w, "wait", w.innings, w.cursor, Fresh)]
    BY <1>2, <1>5, <2>1
  <2> QED BY <1>1, <1>2, <2>2, GoingMoved, FreshTyped
<1>7. ReplayTyped'
  BY <1>1, <1>5, <1>6 DEF ReplayTyped, Moved
<1>8. ASSUME clean', lock.token = t PROVE Recorded(match', events') /\ InStep(worker'[t], match', events')
  <2>1. clean /\ Recorded(match, events) /\ InStep(w, match, events)
    BY <1>2, <1>5, <1>8, HolderInStep
  <2>2. /\ Placed(w, events, w.cursor) /\ w.old = match /\ (match.innings = 2 => match.score < Rows)
        /\ (match.innings # w.innings => w.innings = 2) /\ (w.cursor = 0 => w.innings = 2)
    BY <1>2, <2>1 DEF InStep, Replaying
  <2>3. match' = m
    BY <1>5, <2>2
  <2>4. turned.innings = w.innings /\ (w.innings = 2 => turned.score < Rows) /\ w.cursor < Rows
    BY <1>2, <1>3, <2>2, FreshTyped, ReplayAssumption DEF Placed
  <2>5. m.innings = w.innings /\ m.score < Rows /\ (w.cursor > 0 => m.score = w.cursor)
    BY <1>2, <1>4, <2>2, <2>4
  <2>6. PICK x : x = worker'[t] /\ x.step = "wait" /\ x.innings = w.innings /\ x.cursor = w.cursor
    BY <1>6 DEF Moved
  <2>7. InStep(x, m, events)
    <3>1. Placed(x, events, x.cursor)
      BY <2>2, <2>6 DEF Placed
    <3> QED BY <2>5, <2>6, <3>1 DEF InStep
  <2>8. Recorded(m, events)
    BY <2>1, <2>2, <2>5 DEF Recorded, Placed
  <2> QED BY <1>1, <2>3, <2>6, <2>7, <2>8
<1> QED BY <1>1, <1>5, <1>6, <1>7, <1>8, StepOfWorker DEF Moved

LEMMA ClearKeeps ==
  ASSUME ReplayInv, NEW t \in 1..MaxStarts, Clear(t)
  PROVE  ReplayInv'
<1>1. ReplayTyped /\ UNCHANGED <<match, lock>> /\ Goto(t, "reset") /\ "reset" \in Steps
  BY DEF ReplayInv, Clear, Steps
<1>2. /\ worker' \in [1..MaxStarts -> Workers] /\ worker'[t].step = "reset"
      /\ \A s \in 1..MaxStarts : s # t => Same(worker'[s], worker[s])
  BY <1>1, GotoOf
<1>3. (events' = NoEvents /\ clean' = (lock.token = t)) \/ (UNCHANGED events /\ clean' = FALSE)
  BY DEF Clear
<1>4. ReplayTyped'
  <2>1. NoEvents \in [1..2 -> Seq((1..2) \X Nat)]
    BY DEF NoEvents
  <2> QED BY <1>1, <1>2, <1>3, <2>1 DEF ReplayTyped
<1>5. ASSUME clean', lock.token = t PROVE Recorded(match', events') /\ InStep(worker'[t], match', events')
  <2>1. events' = NoEvents /\ NoEvents[1] = <<>> /\ NoEvents[2] = <<>>
    BY <1>3, <1>5 DEF NoEvents
  <2>2. Recorded(match', events')
    BY <2>1, ReplayAssumption DEF Recorded
  <2>3. PICK x : x = worker'[t] /\ x.step = "reset"
    BY <1>2
  <2>4. InStep(x, match', events')
    BY <2>1, <2>3 DEF InStep, Replaying
  <2> QED BY <2>2, <2>3, <2>4
<1> QED BY <1>1, <1>2, <1>3, <1>4, <1>5, StepOfWorker

LEMMA ResetKeeps ==
  ASSUME ReplayInv, NEW t \in 1..MaxStarts, Reset(t)
  PROVE  ReplayInv'
<1>1. ReplayTyped /\ match' = Fresh /\ clean' = (clean /\ lock.token = t) /\ UNCHANGED events
      /\ "wait" \in Steps /\ Fresh \in Matches
  BY FreshTyped DEF ReplayInv, Reset, Written, Steps, Replaying
<1>2. PICK w \in Workers : w = worker[t] /\ w.step = "reset" /\ w.old \in Matches
  BY <1>1 DEF ReplayTyped, Workers, Reset, At
<1>3. CASE Exit(t, TRUE)
  <2>1. /\ lock' \in Locks /\ (lock' = lock \/ (lock.token = t /\ lock' = Unlocked))
        /\ worker' \in [1..MaxStarts -> Workers] /\ worker'[t].step = "gone"
        /\ \A s \in 1..MaxStarts : s # t => Same(worker'[s], worker[s])
    BY <1>1, <1>3, ExitOf
  <2>2. ReplayTyped'
    BY <1>1, <2>1 DEF ReplayTyped
  <2>3. ASSUME clean', lock.token = t PROVE Recorded(match', events') /\ InStep(worker'[t], match', events')
    <3>1. Recorded(match, events) /\ events[1] = <<>> /\ events[2] = <<>>
      BY <1>1, <1>2, <2>3, HolderInStep DEF InStep
    <3>2. Recorded(match', events')
      BY <1>1, <3>1 DEF Recorded
    <3> QED BY <2>1, <3>2, FreeStep
  <2> QED BY <1>1, <2>1, <2>2, <2>3, StepOfWorker
<1>4. CASE UNCHANGED lock /\ worker' = [worker EXCEPT ![t].step = "wait", ![t].innings = 1, ![t].cursor = 0]
  <2>1. Moved(t, "wait", 1, 0, w.old)
    <3>1. Going(w, "wait", 1, 0, w.old) = [w EXCEPT !.step = "wait", !.innings = 1, !.cursor = 0]
      BY <1>2 DEF Going, Workers
    <3>2. worker' = [worker EXCEPT ![t] = Going(w, "wait", 1, 0, w.old)]
      BY <1>2, <1>4, <3>1
    <3>3. 0 \in Nat /\ 1 \in 1..2
      OBVIOUS
    <3> QED BY <1>1, <1>2, <3>2, <3>3, GoingMoved
  <2>2. ReplayTyped'
    BY <1>1, <1>4, <2>1 DEF ReplayTyped, Moved
  <2>3. ASSUME clean', lock.token = t PROVE Recorded(match', events') /\ InStep(worker'[t], match', events')
    <3>1. Recorded(match, events) /\ events[1] = <<>> /\ events[2] = <<>>
      BY <1>1, <1>2, <2>3, HolderInStep DEF InStep
    <3>2. Recorded(match', events')
      BY <1>1, <3>1 DEF Recorded
    <3>3. PICK x : x = worker'[t] /\ x.step = "wait" /\ x.innings = 1 /\ x.cursor = 0
      BY <2>1 DEF Moved
    <3>4. Placed(x, events, x.cursor)
      BY <3>1, <3>3, ReplayAssumption DEF Placed
    <3>5. InStep(x, Fresh, events)
      BY <3>3, <3>4, FreshTyped, ReplayAssumption DEF InStep
    <3> QED BY <1>1, <3>2, <3>3, <3>5
  <2> QED BY <1>1, <1>4, <2>1, <2>2, <2>3, StepOfWorker DEF Moved
<1> QED BY <1>3, <1>4 DEF Reset

\* A worker that leaves, or goes to another step, and writes nothing.
LEMMA ExitKeeps ==
  ASSUME ReplayInv, NEW t \in 1..MaxStarts, NEW b \in BOOLEAN, Exit(t, b), UNCHANGED <<match, events, clean>>
  PROVE  ReplayInv'
<1>1. ReplayTyped
  BY DEF ReplayInv
<1>2. /\ lock' \in Locks /\ (lock' = lock \/ (lock.token = t /\ lock' = Unlocked))
      /\ worker' \in [1..MaxStarts -> Workers] /\ worker'[t].step = "gone"
      /\ \A s \in 1..MaxStarts : s # t => Same(worker'[s], worker[s])
  BY <1>1, ExitOf
<1>3. ReplayTyped'
  BY <1>1, <1>2 DEF ReplayTyped
<1>4. clean' /\ lock.token = t => Recorded(match', events') /\ InStep(worker'[t], match', events')
  BY <1>2, HolderInStep, FreeStep
<1> QED BY <1>2, <1>3, <1>4, StepOfWorker

LEMMA GotoKeeps ==
  ASSUME ReplayInv, NEW t \in 1..MaxStarts, NEW step \in Steps, Goto(t, step),
         UNCHANGED <<match, events, lock, clean>>,
         \A v : /\ InStep(worker[t], match, events) /\ v.step = step /\ v.old = worker[t].old
                /\ v.innings = worker[t].innings /\ v.cursor = worker[t].cursor
                => InStep(v, match, events)
  PROVE  ReplayInv'
<1>1. ReplayTyped
  BY DEF ReplayInv
<1>2. /\ worker' \in [1..MaxStarts -> Workers] /\ worker'[t].step = step
      /\ worker'[t].innings = worker[t].innings /\ worker'[t].cursor = worker[t].cursor
      /\ worker'[t].old = worker[t].old
      /\ \A s \in 1..MaxStarts : s # t => Same(worker'[s], worker[s])
  BY <1>1, GotoOf
<1>3. ReplayTyped'
  BY <1>1, <1>2 DEF ReplayTyped
<1>4. clean' /\ lock.token = t => Recorded(match', events') /\ InStep(worker'[t], match', events')
  BY <1>2, HolderInStep
<1> QED BY <1>2, <1>3, <1>4, StepOfWorker

LEMMA WakeKeeps ==
  ASSUME ReplayInv, NEW t \in 1..MaxStarts, Wake(t)
  PROVE  ReplayInv'
<1>1. ReplayTyped /\ UNCHANGED <<match, events, clean>> /\ "ball" \in Steps /\ worker[t].step = "wait"
  BY DEF ReplayInv, Wake, Steps, Replaying, At
<1>2. CASE Exit(t, worker[t].stopped \/ worker[t].cursor < Rows)
  <2>1. PICK b \in BOOLEAN : b = (worker[t].stopped \/ worker[t].cursor < Rows)
    OBVIOUS
  <2> QED BY <1>1, <1>2, <2>1, ExitKeeps
<1>3. CASE Goto(t, "ball") /\ UNCHANGED lock
  <2>1. ASSUME NEW v, InStep(worker[t], match, events), v.step = "ball", v.old = worker[t].old,
               v.innings = worker[t].innings, v.cursor = worker[t].cursor
        PROVE  InStep(v, match, events)
    BY <1>1, <2>1 DEF InStep, Placed, Replaying
  <2> QED BY <1>1, <1>3, <2>1, GotoKeeps
<1> QED BY <1>2, <1>3 DEF Wake

LEMMA WriteFailsKeeps ==
  ASSUME ReplayInv, NEW t \in 1..MaxStarts, WriteFails(t)
  PROVE  ReplayInv'
BY ExitKeeps DEF WriteFails

LEMMA RenewedKeeps ==
  ASSUME ReplayInv, NEW t \in 1..MaxStarts, Turn(t) \/ Finish(t)
  PROVE  ReplayInv'
<1>1. {"turning", "finishing"} \subseteq Steps
  BY DEF Steps
<1>2. CASE Exit(t, TRUE) /\ UNCHANGED <<match, events, clean>>
  BY <1>2, ExitKeeps
<1>3. CASE worker[t].step = "turn" /\ Goto(t, "turning") /\ UNCHANGED <<match, events, lock, clean>>
  <2>1. ASSUME NEW v, InStep(worker[t], match, events), v.step = "turning"
        PROVE  InStep(v, match, events)
    BY <1>3, <2>1 DEF InStep, Replaying
  <2> QED BY <1>1, <1>3, <2>1, GotoKeeps
<1>4. CASE Goto(t, "finishing") /\ UNCHANGED <<match, events, lock, clean>>
  <2>1. \A v : v.step = "finishing" => InStep(v, match, events)
    BY FreeStep
  <2> QED BY <1>1, <1>4, <2>1, GotoKeeps
<1> QED BY <1>2, <1>3, <1>4 DEF Turn, Finish, RenewedTo, At

LEMMA ReadKeeps ==
  ASSUME ReplayInv, NEW t \in 1..MaxStarts, Read(t)
  PROVE  ReplayInv'
<1>1. ReplayTyped /\ UNCHANGED <<match, events, lock, clean>> /\ {"finish", "turn", "update"} \subseteq Steps
  BY DEF ReplayInv, Read, Steps, Replaying
<1>2. PICK w \in Workers : w = worker[t] /\ w.step = "ball" /\ w.innings \in 1..2 /\ w.cursor \in Nat
  BY <1>1 DEF ReplayTyped, Workers, Read, At
<1>3. PICK step \in Steps :
        /\ step = IF match.status # "live" THEN "finish"
                  ELSE IF match.score >= Rows THEN AfterLast(w.innings) ELSE "update"
        /\ match.score < Rows => step \in {"finish", "update"}
  <2>1. AfterLast(w.innings) \in {"turn", "finish"} /\ match.score \in Nat /\ Rows \in Nat
    BY <1>1, ReplayAssumption DEF AfterLast, ReplayTyped, Matches
  <2> QED BY <1>1, <2>1
<1>4. Moved(t, step, w.innings, w.cursor, match)
  <2>1. worker' = [worker EXCEPT ![t].old = match, ![t].step = step]
    BY <1>2, <1>3 DEF Read
  <2>2. Going(w, step, w.innings, w.cursor, match) = [w EXCEPT !.old = match, !.step = step]
    BY <1>2 DEF Going, Workers
  <2>3. worker' = [worker EXCEPT ![t] = Going(w, step, w.innings, w.cursor, match)]
    BY <1>2, <2>1, <2>2
  <2>4. match \in Matches
    BY <1>1 DEF ReplayTyped
  <2> QED BY <1>1, <1>2, <2>3, <2>4, GoingMoved
<1>5. ReplayTyped'
  BY <1>1, <1>4 DEF ReplayTyped, Moved
<1>6. ASSUME clean', lock.token = t PROVE Recorded(match', events') /\ InStep(worker'[t], match', events')
  <2>1. Recorded(match, events) /\ InStep(w, match, events)
    BY <1>1, <1>2, <1>6, HolderInStep
  <2>2. /\ Placed(w, events, w.cursor) /\ match.innings = w.innings /\ match.score < Rows
        /\ (w.cursor > 0 => match.score = w.cursor)
    BY <1>2, <2>1 DEF InStep, Replaying
  <2>3. PICK x : x = worker'[t] /\ x.step = step /\ x.innings = w.innings /\ x.cursor = w.cursor /\ x.old = match
    BY <1>4 DEF Moved
  <2>4. CASE step = "finish"
    BY <1>1, <2>1, <2>3, <2>4, FreeStep
  <2>5. CASE step = "update"
    <3>1. Placed(x, events, x.cursor)
      BY <2>2, <2>3 DEF Placed
    <3>2. InStep(x, match, events)
      BY <2>2, <2>3, <2>5, <3>1 DEF InStep
    <3> QED BY <1>1, <2>1, <2>3, <3>2
  <2> QED BY <1>3, <2>2, <2>4, <2>5
<1> QED BY <1>1, <1>4, <1>5, <1>6, StepOfWorker DEF Moved

LEMMA SkipRowKeeps ==
  ASSUME ReplayInv, NEW t \in 1..MaxStarts, SkipRow(t)
  PROVE  ReplayInv'
<1>1. ReplayTyped /\ UNCHANGED <<match, events, lock>> /\ clean' = FALSE /\ "wait" \in Steps
  BY DEF ReplayInv, SkipRow, Steps, Replaying
<1>2. PICK w \in Workers : w = worker[t] /\ w.innings \in 1..2 /\ w.cursor + 1 \in Nat
  BY <1>1 DEF ReplayTyped, Workers
<1>3. PICK c \in Nat : c = w.cursor + 1
  BY <1>2
<1>4. Moved(t, "wait", w.innings, c, Fresh)
  <2>1. Going(w, "wait", w.innings, c, Fresh) = [w EXCEPT !.step = "wait", !.cursor = c, !.old = Fresh]
    BY <1>2 DEF Going, Workers
  <2>2. worker' = [worker EXCEPT ![t] = Going(w, "wait", w.innings, c, Fresh)]
    <3>1. worker' = [worker EXCEPT ![t].step = "wait", ![t].cursor = worker[t].cursor + 1, ![t].old = Fresh]
      BY DEF SkipRow
    <3> QED BY <1>2, <1>3, <2>1, <3>1
  <2> QED BY <1>1, <1>2, <2>2, GoingMoved, FreshTyped
<1>5. ReplayTyped'
  BY <1>1, <1>4 DEF ReplayTyped, Moved
<1> QED BY <1>1, <1>4, <1>5, StepOfWorker DEF Moved

LEMMA UpdateKeeps ==
  ASSUME ReplayInv, NEW t \in 1..MaxStarts, Update(t)
  PROVE  ReplayInv'
<1>1. ReplayTyped /\ UNCHANGED <<events, lock>> /\ Goto(t, "append") /\ "append" \in Steps
      /\ clean' = (clean /\ lock.token = t)
  BY DEF ReplayInv, Update, Written, Steps, Replaying
<1>2. PICK w \in Workers : w = worker[t] /\ w.step = "update" /\ w.old \in Matches
  BY <1>1 DEF ReplayTyped, Workers, Update, At
<1>3. /\ worker' \in [1..MaxStarts -> Workers] /\ worker'[t].step = "append"
      /\ worker'[t].innings = w.innings /\ worker'[t].cursor = w.cursor /\ worker'[t].old = w.old
      /\ \A s \in 1..MaxStarts : s # t => Same(worker'[s], worker[s])
  BY <1>1, <1>2, GotoOf
<1>4. /\ match' \in Matches /\ match'.innings = w.old.innings /\ match'.status = w.old.status
      /\ match'.score = w.old.score + 1
  <2>1. PICK m \in Matches, n \in Nat : m = w.old /\ n = m.score + 1
    BY <1>2 DEF Matches
  <2>2. match' = [m EXCEPT !.score = n]
    <3>1. match' = [worker[t].old EXCEPT !.score = worker[t].old.score + 1]
      BY DEF Update, Written
    <3> QED BY <1>2, <2>1, <3>1
  <2> QED BY <2>1, <2>2 DEF Matches
<1>5. ReplayTyped'
  BY <1>1, <1>3, <1>4 DEF ReplayTyped
<1>6. ASSUME clean', lock.token = t PROVE Recorded(match', events') /\ InStep(worker'[t], match', events')
  <2>1. Recorded(match, events) /\ InStep(w, match, events)
    BY <1>1, <1>2, <1>6, HolderInStep
  <2>2. Placed(w, events, w.cursor) /\ match.innings = w.innings /\ w.old = match
    BY <1>2, <2>1 DEF InStep, Replaying
  <2>3. Recorded(match', events')
    BY <1>1, <1>4, <2>1, <2>2, RecordedKept
  <2>4. PICK x : x = worker'[t] /\ x.step = "append" /\ x.innings = w.innings /\ x.cursor = w.cursor /\ x.old = w.old
    BY <1>3
  <2>5. Placed(x, events, x.cursor)
    BY <2>2, <2>4 DEF Placed
  <2>6. InStep(x, match', events)
    BY <1>4, <2>2, <2>4, <2>5 DEF InStep
  <2> QED BY <1>1, <2>3, <2>4, <2>6
<1> QED BY <1>1, <1>3, <1>5, <1>6, StepOfWorker

\* The next row of the recording goes to the end of the history.
LEMMA AppendRecorded ==
  ASSUME events \in [1..2 -> Seq((1..2) \X Nat)], NEW m, Recorded(m, events), NEW w \in Workers,
         Placed(w, events, w.cursor), m.innings = w.innings,
         NEW ev, ev = [events EXCEPT ![w.innings] = Append(events[w.innings], <<w.innings, w.cursor + 1>>)]
  PROVE  Recorded(m, ev) /\ Placed(w, ev, w.cursor + 1)
<1>a. PICK i \in 1..2, c \in Nat : i = w.innings /\ c = w.cursor
  BY DEF Workers
<1>b. /\ c < Rows /\ Len(events[i]) = c /\ m.innings = i
      /\ i = 2 => Len(events[1]) = Rows
      /\ i = 1 => events[2] = <<>>
  BY <1>a DEF Placed
<1>c. ev = [events EXCEPT ![i] = Append(events[i], <<i, c + 1>>)]
  BY <1>a
<1>1. PICK q \in Seq((1..2) \X Nat) : q = events[i]
  OBVIOUS
<1>2. PICK r \in Seq((1..2) \X Nat) : r = Append(q, <<i, c + 1>>)
  <2>1. <<i, c + 1>> \in (1..2) \X Nat
    OBVIOUS
  <2>2. Append(q, <<i, c + 1>>) \in Seq((1..2) \X Nat)
    BY <2>1
  <2> QED BY <2>2
<1>3. Len(q) = c /\ Len(r) = c + 1 /\ r[c + 1] = <<i, c + 1>> /\ \A n \in 1..c : r[n] = q[n]
  BY <1>1, <1>2, <1>b
<1>4. \A n \in 1..c : q[n] = <<i, n>>
  BY <1>1, <1>3 DEF Recorded
<1>5. \A n \in 1..(c + 1) : r[n] = <<i, n>>
  <2>1. \A n \in 1..(c + 1) : n = c + 1 \/ n \in 1..c
    OBVIOUS
  <2> QED BY <1>3, <1>4, <2>1
<1>6. c + 1 <= Rows /\ Rows \in Nat
  BY <1>b, ReplayAssumption
<1>7. ev[i] = r /\ \A j \in 1..2 : j # i => ev[j] = events[j]
  BY <1>1, <1>2, <1>c
<1>8. ASSUME NEW j \in 1..2 PROVE Len(ev[j]) <= Rows /\ \A n \in 1..Len(ev[j]) : ev[j][n] = <<j, n>>
  <2>1. Len(r) <= Rows /\ \A n \in 1..Len(r) : r[n] = <<i, n>>
    BY ONLY <1>3, <1>5, <1>6
  <2>2. CASE j = i
    BY ONLY <1>7, <2>1, <2>2
  <2>3. CASE j # i
    <3>1. Len(events[j]) <= Rows /\ \A n \in 1..Len(events[j]) : events[j][n] = <<j, n>>
      BY DEF Recorded
    <3> QED BY ONLY <1>7, <2>3, <3>1, j \in 1..2
  <2> QED BY <2>2, <2>3
<1>9. (i = 2 => Len(ev[1]) = Rows) /\ (i = 1 => ev[2] = <<>>)
  BY <1>7, <1>b
<1>10. (ev[2] # <<>> => Len(ev[1]) = Rows) /\ (m.innings = 2 => Len(ev[1]) = Rows)
  BY <1>9, <1>b
<1> QED BY <1>3, <1>7, <1>8, <1>9, <1>10, <1>a, <1>b DEF Recorded, Placed

LEMMA AppendKeeps ==
  ASSUME ReplayInv, NEW t \in 1..MaxStarts, AppendBall(t)
  PROVE  ReplayInv'
<1>1. ReplayTyped /\ UNCHANGED <<match, lock>> /\ Goto(t, "align") /\ "align" \in Steps
  BY DEF ReplayInv, AppendBall, Steps
<1>2. PICK w \in Workers : w = worker[t] /\ w.step = "append" /\ w.old \in Matches /\ w.innings \in 1..2 /\ w.cursor \in Nat
                           /\ w.old.innings \in 1..2
  BY <1>1 DEF ReplayTyped, Workers, Matches, AppendBall, At
<1>3. /\ worker' \in [1..MaxStarts -> Workers] /\ worker'[t].step = "align"
      /\ worker'[t].innings = w.innings /\ worker'[t].cursor = w.cursor /\ worker'[t].old = w.old
      /\ \A s \in 1..MaxStarts : s # t => Same(worker'[s], worker[s])
  BY <1>1, <1>2, GotoOf
<1>4. \/ /\ events' = [events EXCEPT ![w.old.innings] = Append(events[w.old.innings], <<w.innings, w.cursor + 1>>)]
         /\ clean' = (clean /\ lock.token = t)
      \/ UNCHANGED events /\ clean' = FALSE
  BY <1>2 DEF AppendBall
<1>5. ReplayTyped'
  <2>1. <<w.innings, w.cursor + 1>> \in (1..2) \X Nat
    BY <1>2
  <2>2. Append(events[w.old.innings], <<w.innings, w.cursor + 1>>) \in Seq((1..2) \X Nat)
    BY <1>1, <1>2, <2>1 DEF ReplayTyped
  <2>3. events' \in [1..2 -> Seq((1..2) \X Nat)] /\ clean' \in BOOLEAN
    BY <1>1, <1>4, <2>2 DEF ReplayTyped
  <2> QED BY <1>1, <1>3, <2>3 DEF ReplayTyped
<1>6. ASSUME clean', lock.token = t PROVE Recorded(match', events') /\ InStep(worker'[t], match', events')
  <2>1. clean /\ Recorded(match, events) /\ InStep(w, match, events)
    BY <1>2, <1>4, <1>6, HolderInStep
  <2>2. /\ Placed(w, events, w.cursor) /\ w.old.innings = w.innings /\ match.status = w.old.status
        /\ match.innings = w.old.innings /\ match.score = w.old.score + 1
    BY <1>2, <2>1 DEF InStep, Replaying
  <2>3. events' = [events EXCEPT ![w.innings] = Append(events[w.innings], <<w.innings, w.cursor + 1>>)]
    BY <1>4, <1>6, <2>2
  <2>4. Recorded(match, events') /\ Placed(w, events', w.cursor + 1)
    BY <1>1, <2>1, <2>2, <2>3, AppendRecorded DEF ReplayTyped
  <2>5. PICK x : x = worker'[t] /\ x.step = "align" /\ x.innings = w.innings /\ x.cursor = w.cursor /\ x.old = w.old
    BY <1>3
  <2>6. Placed(x, events', x.cursor + 1)
    BY <2>4, <2>5 DEF Placed
  <2>7. InStep(x, match, events')
    BY <2>2, <2>5, <2>6 DEF InStep, Replaying
  <2> QED BY <1>1, <2>4, <2>5, <2>7
<1>7. clean' => lock.token = t
  BY <1>4
<1> QED BY <1>1, <1>3, <1>5, <1>6, <1>7, StepOfWorker

LEMMA AlignKeeps ==
  ASSUME ReplayInv, NEW t \in 1..MaxStarts, Align(t)
  PROVE  ReplayInv'
<1>1. ReplayTyped /\ UNCHANGED <<events, lock>> /\ {"wait", "turn", "finish"} \subseteq Steps /\ Rows \in Nat
  BY ReplayAssumption DEF ReplayInv, Align, Steps, Replaying
<1>2. PICK w \in Workers : w = worker[t] /\ w.step = "align" /\ w.innings \in 1..2 /\ w.cursor \in Nat /\ w.old \in Matches
  BY <1>1 DEF ReplayTyped, Workers, Align, At
<1>3. PICK c \in Nat : c = w.cursor + 1 /\ c # 0
  BY <1>2
<1>4. PICK after \in Matches : /\ after = [w.old EXCEPT !.score = w.old.score + 1]
                              /\ after.innings = w.old.innings /\ after.status = w.old.status
                              /\ after.score = w.old.score + 1
  <2>1. PICK m \in Matches, n \in Nat : m = w.old /\ n = m.score + 1
    BY <1>2 DEF Matches
  <2>2. [m EXCEPT !.score = n] \in Matches /\ [m EXCEPT !.score = n].innings = m.innings
        /\ [m EXCEPT !.score = n].status = m.status /\ [m EXCEPT !.score = n].score = n
    BY DEF Matches
  <2>3. [m EXCEPT !.score = n] = [w.old EXCEPT !.score = w.old.score + 1]
    BY <2>1
  <2> QED BY <2>1, <2>2, <2>3
<1>5. PICK m \in Matches : /\ m = Aligned(after, c) /\ m.innings = after.innings /\ m.status = after.status
                          /\ m.score = c
  BY <1>3, AlignedTyped
<1>6. PICK step \in Steps : /\ step = AfterBall(w)
                           /\ (c = Rows => step = IF w.innings = 1 THEN "turn" ELSE "finish")
                           /\ (c # Rows => step = "wait")
  BY <1>1, <1>3 DEF AfterBall, AfterLast
<1>7. /\ match' = (IF m = after THEN match ELSE m) /\ clean' = (clean /\ lock.token = t)
      /\ worker' = [worker EXCEPT ![t].cursor = worker[t].cursor + 1, ![t].old = Fresh, ![t].step = AfterBall(w)]
  BY <1>2, <1>3, <1>4, <1>5 DEF Align, Written
<1>8. Moved(t, step, w.innings, c, Fresh)
  <2>1. Going(w, step, w.innings, c, Fresh) = [w EXCEPT !.cursor = c, !.old = Fresh, !.step = step]
    BY <1>2 DEF Going, Workers
  <2>2. worker' = [worker EXCEPT ![t] = Going(w, step, w.innings, c, Fresh)]
    BY <1>2, <1>3, <1>6, <1>7, <2>1
  <2> QED BY <1>1, <1>2, <2>2, GoingMoved, FreshTyped
<1>9. ReplayTyped'
  BY <1>1, <1>7, <1>8 DEF ReplayTyped, Moved
<1>10. ASSUME clean', lock.token = t PROVE Recorded(match', events') /\ InStep(worker'[t], match', events')
  <2>1. clean /\ Recorded(match, events) /\ InStep(w, match, events)
    BY <1>2, <1>7, <1>10, HolderInStep
  <2>2. /\ Placed(w, events, c) /\ w.old.innings = w.innings /\ match.innings = w.innings
        /\ match.score = w.old.score + 1
    BY <1>2, <1>3, <2>1 DEF InStep, Replaying
  <2>3. match'.innings = w.innings /\ match'.score = c
    BY <1>4, <1>5, <1>7, <2>2
  <2>4. Recorded(match', events')
    BY <1>1, <2>1, <2>2, <2>3, RecordedKept
  <2>5. PICK x : x = worker'[t] /\ x.step = step /\ x.innings = w.innings /\ x.cursor = c
    BY <1>8 DEF Moved
  <2>6. Len(events[w.innings]) = c /\ c <= Rows /\ (w.innings = 1 => events[2] = <<>>)
        /\ (w.innings = 2 => Len(events[1]) = Rows)
    BY <1>2, <1>3, <1>1, <2>2 DEF Placed
  <2>7. CASE c # Rows
    <3>1. Placed(x, events, x.cursor)
      BY <1>1, <2>5, <2>6, <2>7 DEF Placed
    <3>2. InStep(x, match', events)
      BY <1>1, <1>6, <2>3, <2>5, <2>6, <2>7, <3>1 DEF InStep
    <3> QED BY <1>1, <2>4, <2>5, <3>2
  <2>8. CASE c = Rows /\ w.innings = 1
    <3>1. InStep(x, match', events)
      BY <1>6, <2>5, <2>6, <2>8 DEF InStep, Replaying
    <3> QED BY <1>1, <2>4, <2>5, <3>1
  <2>9. CASE c = Rows /\ w.innings # 1
    BY <1>6, <2>4, <2>5, <2>9, FreeStep
  <2> QED BY <2>7, <2>8, <2>9
<1> QED BY <1>1, <1>7, <1>8, <1>9, <1>10, StepOfWorker DEF Moved

LEMMA BeginInnings2Keeps ==
  ASSUME ReplayInv, NEW t \in 1..MaxStarts, BeginInnings2(t)
  PROVE  ReplayInv'
<1>1. ReplayTyped /\ UNCHANGED <<events, lock>> /\ "wait" \in Steps /\ clean' = (clean /\ lock.token = t)
  BY DEF ReplayInv, BeginInnings2, Written, Steps, Replaying
<1>2. PICK w \in Workers : w = worker[t] /\ w.step = "turning" /\ w.old \in Matches
  BY <1>1 DEF ReplayTyped, Workers, BeginInnings2, At
<1>3. match' \in Matches /\ match'.innings = 2 /\ match'.score = 0
  BY FreshTyped DEF BeginInnings2, Written
<1>4. Moved(t, "wait", 2, 0, w.old)
  <2>1. Going(w, "wait", 2, 0, w.old) = [w EXCEPT !.step = "wait", !.innings = 2, !.cursor = 0]
    BY <1>2 DEF Going, Workers
  <2>2. worker' = [worker EXCEPT ![t] = Going(w, "wait", 2, 0, w.old)]
    BY <1>2, <2>1 DEF BeginInnings2
  <2>3. 0 \in Nat /\ 2 \in 1..2
    OBVIOUS
  <2> QED BY <1>1, <1>2, <2>2, <2>3, GoingMoved
<1>5. ReplayTyped'
  BY <1>1, <1>3, <1>4 DEF ReplayTyped, Moved
<1>6. ASSUME clean', lock.token = t PROVE Recorded(match', events') /\ InStep(worker'[t], match', events')
  <2>1. Recorded(match, events) /\ Len(events[1]) = Rows /\ events[2] = <<>>
    BY <1>1, <1>2, <1>6, HolderInStep DEF InStep
  <2>2. Recorded(match', events')
    BY <1>1, <2>1 DEF Recorded
  <2>3. PICK x : x = worker'[t] /\ x.step = "wait" /\ x.innings = 2 /\ x.cursor = 0
    BY <1>4 DEF Moved
  <2>4. Placed(x, events, x.cursor)
    BY <2>1, <2>3, ReplayAssumption DEF Placed
  <2>5. InStep(x, match', events)
    BY <1>3, <2>3, <2>4, ReplayAssumption DEF InStep
  <2> QED BY <1>1, <2>2, <2>3, <2>5
<1> QED BY <1>1, <1>4, <1>5, <1>6, StepOfWorker DEF Moved

LEMMA CompleteKeeps ==
  ASSUME ReplayInv, NEW t \in 1..MaxStarts, CompleteMatch(t)
  PROVE  ReplayInv'
<1>1. ReplayTyped /\ UNCHANGED events /\ "clear" \in Steps
  BY DEF ReplayInv, CompleteMatch, Steps
<1>2. /\ match' \in Matches /\ match'.innings = match.innings /\ clean' \in BOOLEAN
      /\ clean' => clean /\ (lock.token = t \/ UNCHANGED match)
  <2>1. PICK m \in Matches : m = match
    BY <1>1 DEF ReplayTyped
  <2>2. [m EXCEPT !.status = "completed"] \in Matches /\ [m EXCEPT !.status = "completed"].innings = m.innings
    BY DEF Matches
  <2>3. clean \in BOOLEAN
    BY <1>1 DEF ReplayTyped
  <2>4. \/ match' = [m EXCEPT !.status = "completed"] /\ clean' = (clean /\ lock.token = t)
        \/ UNCHANGED <<match, clean>>
    BY <2>1 DEF CompleteMatch, Written
  <2>5. match' \in Matches /\ match'.innings = match.innings
    BY <2>1, <2>2, <2>4
  <2>6. clean' \in BOOLEAN /\ (clean' => clean /\ (lock.token = t \/ UNCHANGED match))
    <3>1. CASE clean' = (clean /\ lock.token = t)
      BY ONLY <3>1
    <3>2. CASE clean' = clean /\ match' = match
      BY ONLY <2>3, <3>2
    <3> QED BY ONLY <2>4, <3>1, <3>2
  <2> QED BY <2>5, <2>6
<1>3. /\ lock' \in Locks /\ (lock' = lock \/ (lock.token = t /\ lock' = Unlocked))
      /\ worker' \in [1..MaxStarts -> Workers] /\ worker'[t].step \in {"gone", "clear"}
      /\ \A s \in 1..MaxStarts : s # t => Same(worker'[s], worker[s])
  <2>1. CASE Exit(t, FALSE)
    BY <1>1, <2>1, ExitOf
  <2>2. CASE Goto(t, "clear") /\ UNCHANGED lock
    BY <1>1, <2>2, GotoOf DEF ReplayTyped
  <2> QED BY <2>1, <2>2 DEF CompleteMatch
<1>4. ReplayTyped'
  BY <1>1, <1>2, <1>3 DEF ReplayTyped
<1>5. ASSUME clean', lock.token = t PROVE Recorded(match', events') /\ InStep(worker'[t], match', events')
  <2>1. Recorded(match, events)
    BY <1>2, <1>5, HolderInStep
  <2>2. Recorded(match', events')
    BY <1>1, <1>2, <2>1, RecordedKept
  <2> QED BY <1>3, <2>2, FreeStep
<1> QED BY <1>1, <1>2, <1>3, <1>4, <1>5, StepOfWorker

LEMMA StopOrCrashKeeps ==
  ASSUME ReplayInv, NEW i \in Instances, StopMatch(i) \/ Crash(i)
  PROVE  ReplayInv'
<1>1. ReplayTyped /\ UNCHANGED <<match, events, lock, clean>> /\ lock'.token = lock.token
  BY DEF ReplayInv, StopMatch, Crash
<1>2. worker' \in [1..MaxStarts -> Workers] /\ \A s \in 1..MaxStarts : Same(worker'[s], worker[s])
  <2>1. CASE StopMatch(i)
    BY <1>1, <2>1, StoppedSame DEF StopMatch, ReplayTyped
  <2>2. CASE Crash(i)
    <3>1. worker' = [s \in 1..MaxStarts |-> IF worker[s].inst = i THEN Gone(TRUE) ELSE worker[s]]
      BY <1>1, <2>2 DEF Crash, ReplayTyped
    <3>2. Gone(TRUE) \in Workers /\ Gone(TRUE).step = "gone"
      BY GoneTyped
    <3> QED BY <1>1, <3>1, <3>2 DEF ReplayTyped, Same
  <2> QED BY <2>1, <2>2
<1>3. ReplayTyped'
  BY <1>1, <1>2 DEF ReplayTyped
<1> QED BY <1>1, <1>2, <1>3, StepAside

LEMMA ExpireKeeps ==
  ASSUME ReplayInv, Expire
  PROVE  ReplayInv'
<1>1. ReplayTyped /\ UNCHANGED <<match, events, worker, clean>>
  BY DEF ReplayInv, Expire
<1>2. PICK l \in Locks : l = lock
  BY <1>1 DEF ReplayTyped
<1>3. lock' = [l EXCEPT !.live = FALSE]
  BY <1>2 DEF Expire
<1>4. lock' \in Locks /\ lock'.token = lock.token
  BY <1>2, <1>3 DEF Locks
<1>5. ReplayTyped' /\ \A s \in 1..MaxStarts : Same(worker'[s], worker[s])
  BY <1>1, <1>4 DEF ReplayTyped, Same
<1> QED BY <1>1, <1>4, <1>5, StepAside

LEMMA ReplayKeeps ==
  ASSUME ReplayInv, ReplayNext
  PROVE  ReplayInv'
BY BeginKeeps, PlanSkipKeeps, PlanKeeps, ResumeKeeps, ClearKeeps, ResetKeeps, WakeKeeps, ReadKeeps,
   SkipRowKeeps, WriteFailsKeeps, UpdateKeeps, AppendKeeps, AlignKeeps, RenewedKeeps, BeginInnings2Keeps,
   CompleteKeeps, StopOrCrashKeeps, ExpireKeeps DEF ReplayNext

LEMMA ReplayInitial == Init => ReplayInv
<1> SUFFICES ASSUME Init PROVE ReplayInv
  OBVIOUS
<1> USE DEF Init, ReplayInit
<1>1. match \in Matches /\ lock \in Locks /\ lock.token = 0 /\ match.innings = 1 /\ clean \in BOOLEAN
  BY FreshTyped, UnlockedTyped DEF Unlocked
<1>2. events \in [1..2 -> Seq((1..2) \X Nat)] /\ events[1] = <<>> /\ events[2] = <<>>
  BY DEF NoEvents
<1>3. worker \in [1..MaxStarts -> Workers]
  <2>1. [status |-> "live", innings |-> 1, score |-> 0] \in Matches /\ "idle" \in Steps
    BY DEF Matches, Steps
  <2>2. Idle \in Workers
    BY <2>1 DEF Idle, Workers
  <2> QED BY <2>2
<1>4. Recorded(match, events)
  BY <1>1, <1>2, ReplayAssumption DEF Recorded
<1> QED BY <1>1, <1>2, <1>3, <1>4 DEF ReplayInv, ReplayTyped

LEMMA ReplayStepKeeps == ReplayInv /\ [Next]_vars => ReplayInv'
<1> SUFFICES ASSUME ReplayInv, [Next]_vars PROVE ReplayInv'
  OBVIOUS
<1>1. CASE ReplayStep
  BY <1>1, ReplayKeeps DEF ReplayStep
<1>2. CASE UNCHANGED replayVars
  BY <1>2 DEF replayVars, ReplayInv, ReplayTyped
<1> QED BY <1>1, <1>2 DEF Next, FeedStep, vars

(* While only holders of the lock wrote, the history of a simulated match is *)
(* the recording so far, each ball once and in order, and a holder about to  *)
(* bowl meets the score of the balls before (modules/simulator), whatever    *)
(* crashes, expired leases, resumptions and restarts lie between.            *)
THEOREM ReplaysOnceHolds == Spec => []ReplaysOnce
<1>1. ReplayInv => ReplaysOnce
  <2> SUFFICES ASSUME ReplayInv, clean
               PROVE  /\ \A i \in 1..2 : events[i] = [n \in 1..Len(events[i]) |-> <<i, n>>]
                      /\ events[2] # <<>> => Len(events[1]) = Rows
                      /\ \A t \in 1..MaxStarts :
                           At(t, "wait") /\ Held(t) /\ worker[t].cursor > 0 =>
                             match.score = worker[t].cursor /\ match.innings = worker[t].innings
    BY DEF ReplaysOnce
  <2>1. Recorded(match, events) /\ ReplayTyped
    BY DEF ReplayInv
  <2>2. ASSUME NEW i \in 1..2 PROVE events[i] = [n \in 1..Len(events[i]) |-> <<i, n>>]
    <3>1. PICK q \in Seq((1..2) \X Nat) : q = events[i]
      BY <2>1 DEF ReplayTyped
    <3>2. \A n \in 1..Len(q) : q[n] = <<i, n>>
      BY <2>1, <3>1 DEF Recorded
    <3>3. q = [n \in 1..Len(q) |-> q[n]]
      OBVIOUS
    <3> QED BY <3>1, <3>2, <3>3
  <2>3. ASSUME NEW t \in 1..MaxStarts, At(t, "wait"), Held(t), worker[t].cursor > 0
        PROVE  match.score = worker[t].cursor /\ match.innings = worker[t].innings
    <3>1. InStep(worker[t], match, events)
      BY <2>3, HolderInStep DEF Held
    <3> QED BY <2>3, <3>1 DEF At, InStep
  <2>4. events[2] # <<>> => Len(events[1]) = Rows
    BY <2>1 DEF Recorded
  <2> QED BY <2>2, <2>3, <2>4
<1> QED BY <1>1, ReplayInitial, ReplayStepKeeps, PTL DEF Spec
=============================================================================
