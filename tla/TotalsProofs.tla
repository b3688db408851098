---------------------------- MODULE TotalsProofs ---------------------------
(***************************************************************************)
(* Facts about Total, proved by least counterexample.                      *)
(***************************************************************************)
EXTENDS Totals, TLAPS, NaturalsInduction, WellFoundedInduction

\* A non-empty set of naturals has a least element.
LEMMA LeastNatural ==
  ASSUME NEW T, T \subseteq Nat, T # {}
  PROVE  \E x \in T : \A y \in T : x <= y
<1> DEFINE R == OpToRel(<, Nat)
<1>1. IsWellFoundedOn(R, Nat)
  BY NatLessThanWellFounded
<1>2. \E x \in T : \A y \in T : <<y, x>> \notin R
  <2> HIDE DEF R
  <2> QED BY <1>1, WFMin
<1>3. ASSUME NEW x \in T, NEW y \in T, <<y, x>> \notin R PROVE x <= y
  BY <1>3 DEF OpToRel
<1> QED BY <1>2, <1>3

\* The partial sums exist: they satisfy their recursive equation.
IsPartialSums(s, f, n) ==
  s = [i \in 0 .. n |-> IF i = 0 THEN 0 ELSE s[i - 1] + f[i]]

LEMMA PartialSumsExist ==
  ASSUME NEW n \in Nat, NEW f
  PROVE  \E s : IsPartialSums(s, f, n)
<1> DEFINE Bad == {k \in Nat : ~ \E s : IsPartialSums(s, f, k)}
<1>1. SUFFICES ASSUME Bad # {} PROVE FALSE
  OBVIOUS
<1>2. PICK k \in Bad : \A j \in Bad : k <= j
  BY <1>1, LeastNatural
<1>3. CASE k = 0
  <2> DEFINE s == [i \in 0 .. 0 |-> 0]
  <2>1. IsPartialSums(s, f, 0)
    BY DEF IsPartialSums
  <2> QED BY <2>1, <1>3, <1>2
<1>4. CASE k # 0
  <2>1. k - 1 \in Nat /\ k - 1 \notin Bad
    BY <1>2, <1>4
  <2>2. PICK s : IsPartialSums(s, f, k - 1)
    BY <2>1
  <2> DEFINE t == [i \in 0 .. k |-> IF i = k THEN s[k - 1] + f[k] ELSE s[i]]
  <2>3. ASSUME NEW i \in 0 .. k
        PROVE  t[i] = IF i = 0 THEN 0 ELSE t[i - 1] + f[i]
    <3>1. CASE i = k
      BY <3>1, <1>4, <2>1
    <3>2. CASE i # k
      <4>1. i \in 0 .. k - 1
        BY <3>2, <1>2
      <4>2. s[i] = IF i = 0 THEN 0 ELSE s[i - 1] + f[i]
        BY <4>1, <2>2 DEF IsPartialSums
      <4> QED BY <4>1, <4>2, <3>2, <1>2
    <3> QED BY <3>1, <3>2
  <2>4. t = [i \in 0 .. k |-> IF i = 0 THEN 0 ELSE t[i - 1] + f[i]]
    BY <2>3
  <2>5. IsPartialSums(t, f, k)
    BY <2>4 DEF IsPartialSums
  <2> QED BY <2>5, <1>2
<1> QED BY <1>3, <1>4

LEMMA PartialSumsEquation ==
  ASSUME NEW n \in Nat, NEW f
  PROVE  /\ PartialSums(f, n)[0] = 0
         /\ \A i \in 1 .. n :
              PartialSums(f, n)[i] = PartialSums(f, n)[i - 1] + f[i]
<1>1. PartialSums(f, n) = CHOOSE t : IsPartialSums(t, f, n)
  BY DEF PartialSums, IsPartialSums
<1>2. IsPartialSums(PartialSums(f, n), f, n)
  BY <1>1, PartialSumsExist
<1>3. PICK s : s = PartialSums(f, n)
  OBVIOUS
<1>4. s = [i \in 0 .. n |-> IF i = 0 THEN 0 ELSE s[i - 1] + f[i]]
  BY <1>2, <1>3 DEF IsPartialSums
<1>5. s[0] = 0 /\ \A i \in 1 .. n : s[i] = s[i - 1] + f[i]
  BY <1>4
<1> QED BY <1>3, <1>5

\* Sums of integers are integers.
LEMMA PartialSumsInt ==
  ASSUME NEW n \in Nat, NEW f, \A i \in 1 .. n : f[i] \in Int
  PROVE  \A i \in 0 .. n : PartialSums(f, n)[i] \in Int
<1> DEFINE Bad == {i \in 0 .. n : PartialSums(f, n)[i] \notin Int}
<1>1. SUFFICES ASSUME Bad # {} PROVE FALSE
  OBVIOUS
<1>2. PICK k \in Bad : \A j \in Bad : k <= j
  <2>1. Bad \subseteq Nat
    OBVIOUS
  <2> QED BY <2>1, <1>1, LeastNatural
<1>3. k # 0
  BY <1>2, PartialSumsEquation
<1>4. k - 1 \in 0 .. n /\ k - 1 \notin Bad /\ k \in 1 .. n
  BY <1>2, <1>3
<1>5. PartialSums(f, n)[k] = PartialSums(f, n)[k - 1] + f[k]
  BY <1>4, PartialSumsEquation
<1> QED BY <1>2, <1>4, <1>5

LEMMA TotalInt ==
  ASSUME NEW n \in Nat, NEW f, \A i \in 1 .. n : f[i] \in Int
  PROVE  Total(f, n) \in Int
BY PartialSumsInt DEF Total

\* Changing one value changes the total by the difference.
LEMMA TotalUpdate ==
  ASSUME NEW n \in Nat, NEW f, NEW g, NEW k \in 1 .. n,
         \A i \in 1 .. n : f[i] \in Int /\ g[i] \in Int,
         \A i \in 1 .. n : i # k => g[i] = f[i]
  PROVE  Total(g, n) = Total(f, n) + g[k] - f[k]
<1> DEFINE P == PartialSums(f, n)
           Q == PartialSums(g, n)
           Gap(i) == IF i < k THEN 0 ELSE g[k] - f[k]
           Bad == {i \in 0 .. n : Q[i] # P[i] + Gap(i)}
<1>1. /\ P[0] = 0 /\ \A i \in 1 .. n : P[i] = P[i - 1] + f[i]
      /\ Q[0] = 0 /\ \A i \in 1 .. n : Q[i] = Q[i - 1] + g[i]
  BY PartialSumsEquation
<1>2. \A i \in 0 .. n : P[i] \in Int /\ Q[i] \in Int
  BY PartialSumsInt
<1> HIDE DEF P, Q
<1>3. Bad = {}
  <2>1. SUFFICES ASSUME Bad # {} PROVE FALSE
    OBVIOUS
  <2>2. PICK m \in Bad : \A j \in Bad : m <= j
    <3>1. Bad \subseteq Nat
      OBVIOUS
    <3> QED BY <3>1, <2>1, LeastNatural
  <2>3. m # 0
    BY <1>1, <2>2
  <2>4. m \in 1 .. n /\ m - 1 \in 0 .. n /\ m - 1 \notin Bad
    BY <2>2, <2>3
  <2>5. Q[m - 1] = P[m - 1] + Gap(m - 1)
    BY <2>4
  <2>6. Q[m] = P[m] + Gap(m)
    <3>1. g[m] = IF m = k THEN g[k] ELSE f[m]
      BY <2>4
    <3> QED BY <1>1, <1>2, <2>4, <2>5, <3>1
  <2> QED BY <2>2, <2>6
<1>4. Q[n] = P[n] + Gap(n)
  BY <1>3
<1>5. Gap(n) = g[k] - f[k]
  OBVIOUS
<1> QED BY <1>2, <1>4, <1>5 DEF Total, P, Q

\* Totals of functions that agree on 1 .. n agree.
LEMMA TotalSame ==
  ASSUME NEW n \in Nat \ {0}, NEW f, NEW g,
         \A i \in 1 .. n : f[i] \in Int /\ g[i] = f[i]
  PROVE  Total(g, n) = Total(f, n)
<1>1. 1 \in 1 .. n /\ n \in Nat
  OBVIOUS
<1>2. Total(g, n) = Total(f, n) + g[1] - f[1]
  BY <1>1, TotalUpdate
<1> QED BY <1>1, <1>2, TotalInt

\* One value more adds itself to the total.
LEMMA TotalAppend ==
  ASSUME NEW n \in Nat, NEW f, NEW g,
         \A i \in 1 .. n : f[i] \in Int /\ g[i] = f[i]
  PROVE  Total(g, n + 1) = Total(f, n) + g[n + 1]
<1> DEFINE P == PartialSums(f, n)
           Q == PartialSums(g, n + 1)
           Bad == {i \in 0 .. n : Q[i] # P[i]}
<1>1. /\ P[0] = 0 /\ \A i \in 1 .. n : P[i] = P[i - 1] + f[i]
      /\ Q[0] = 0 /\ \A i \in 1 .. n + 1 : Q[i] = Q[i - 1] + g[i]
  <2>1. n + 1 \in Nat
    OBVIOUS
  <2> QED BY <2>1, PartialSumsEquation
<1> HIDE DEF P, Q
<1>2. Bad = {}
  <2>1. SUFFICES ASSUME Bad # {} PROVE FALSE
    OBVIOUS
  <2>2. PICK m \in Bad : \A j \in Bad : m <= j
    <3>1. Bad \subseteq Nat
      OBVIOUS
    <3> QED BY <3>1, <2>1, LeastNatural
  <2>3. m # 0
    BY <1>1, <2>2
  <2>4. m \in 1 .. n /\ m \in 1 .. n + 1 /\ m - 1 \in 0 .. n /\ m - 1 \notin Bad
    BY <2>2, <2>3
  <2>5. Q[m - 1] = P[m - 1]
    BY <2>4
  <2> QED BY <1>1, <2>2, <2>4, <2>5
<1>3. n + 1 \in 1 .. n + 1 /\ n \in 0 .. n /\ n + 1 - 1 = n
  OBVIOUS
<1>4. Q[n] = P[n]
  BY <1>2, <1>3
<1>5. Q[n + 1] = Q[n] + g[n + 1]
  BY <1>1, <1>3
<1> QED BY <1>4, <1>5 DEF Total, P, Q

\* The total of zeros is zero.
LEMMA TotalZero ==
  ASSUME NEW n \in Nat, NEW f, \A i \in 1 .. n : f[i] = 0
  PROVE  Total(f, n) = 0
<1> DEFINE P == PartialSums(f, n)
           Bad == {i \in 0 .. n : P[i] # 0}
<1>1. P[0] = 0 /\ \A i \in 1 .. n : P[i] = P[i - 1] + f[i]
  BY PartialSumsEquation
<1> HIDE DEF P
<1>2. SUFFICES ASSUME Bad # {} PROVE FALSE
  BY DEF Total, P
<1>3. PICK m \in Bad : \A j \in Bad : m <= j
  <2>1. Bad \subseteq Nat
    OBVIOUS
  <2> QED BY <2>1, <1>2, LeastNatural
<1>4. m \in 1 .. n /\ m - 1 \in 0 .. n /\ m - 1 \notin Bad
  BY <1>1, <1>3
<1> QED BY <1>1, <1>3, <1>4

LEMMA TotalNonNegative ==
  ASSUME NEW n \in Nat, NEW f, \A i \in 1 .. n : f[i] \in Nat
  PROVE  Total(f, n) \in Nat
<1> DEFINE P == PartialSums(f, n)
           Bad == {i \in 0 .. n : P[i] \notin Nat}
<1>1. P[0] = 0 /\ \A i \in 1 .. n : P[i] = P[i - 1] + f[i]
  BY PartialSumsEquation
<1> HIDE DEF P
<1>2. SUFFICES ASSUME Bad # {} PROVE FALSE
  BY DEF Total, P
<1>3. PICK m \in Bad : \A j \in Bad : m <= j
  <2>1. Bad \subseteq Nat
    OBVIOUS
  <2> QED BY <2>1, <1>2, LeastNatural
<1>4. m \in 1 .. n /\ m - 1 \in 0 .. n /\ m - 1 \notin Bad
  BY <1>1, <1>3
<1> QED BY <1>1, <1>3, <1>4

\* A total of naturals is at least each of them.
LEMMA TotalAtLeast ==
  ASSUME NEW n \in Nat, NEW f, \A i \in 1 .. n : f[i] \in Nat, NEW k \in 1 .. n
  PROVE  Total(f, n) >= f[k]
<1> DEFINE g == [i \in 1 .. n |-> IF i = k THEN 0 ELSE f[i]]
<1>1. (\A i \in 1 .. n : g[i] \in Nat) /\ g[k] = 0
      /\ \A i \in 1 .. n : i # k => g[i] = f[i]
  OBVIOUS
<1> HIDE DEF g
<1>2. Total(g, n) \in Nat
  BY <1>1, TotalNonNegative
<1>3. Total(g, n) = Total(f, n) + g[k] - f[k]
  <2>1. \A i \in 1 .. n : f[i] \in Int /\ g[i] \in Int
    BY <1>1
  <2>2. \A i \in 1 .. n : i # k => g[i] = f[i]
    BY <1>1
  <2> QED BY <2>1, <2>2, TotalUpdate, Zenon
<1>4. Total(f, n) \in Int
  BY TotalInt
<1> QED BY <1>1, <1>2, <1>3, <1>4

\* Every partial sum of nothing is nothing.
LEMMA TotalNothing ==
  ASSUME NEW n \in Nat, NEW f, \A i \in 1 .. n : f[i] = 0
  PROVE  Total(f, n) = 0
<1> DEFINE Bad == {i \in 0 .. n : PartialSums(f, n)[i] # 0}
<1>1. Bad = {}
  <2>1. SUFFICES ASSUME Bad # {} PROVE FALSE
    OBVIOUS
  <2>2. PICK k \in Bad : \A j \in Bad : k <= j
    <3>1. Bad \subseteq Nat
      OBVIOUS
    <3> QED BY <2>1, <3>1, LeastNatural
  <2>3. k # 0
    BY <2>2, PartialSumsEquation
  <2>4. k - 1 \in 0 .. n /\ k - 1 \notin Bad /\ k \in 1 .. n
    BY <2>2, <2>3
  <2>5. PartialSums(f, n)[k] = PartialSums(f, n)[k - 1] + f[k]
    BY <2>4, PartialSumsEquation
  <2> QED BY <2>2, <2>4, <2>5
<1>2. n \in 0 .. n
  OBVIOUS
<1> QED BY <1>1, <1>2 DEF Total
=============================================================================
