---------------------------- MODULE RowSumProofs ----------------------------
(***************************************************************************)
(* What SumRows computes, for every number of rows and every column.  The  *)
(* library's induction theorems take a predicate operator as a parameter,  *)
(* so the lemmas here induct over a set instead: the least element of a    *)
(* set of counterexamples, from the well-foundedness of < on Nat.          *)
(***************************************************************************)
EXTENDS RowSum, WellFoundedInduction, TLAPS

LessThanOnNat == {pair \in Nat \X Nat : pair[1] < pair[2]}

\* < on the naturals is well founded, with the relation written as a set.
LEMMA LessThanWellFounded == IsWellFoundedOn(LessThanOnNat, Nat)
BY NatLessThanWellFounded, Zenon DEF OpToRel, LessThanOnNat

\* Every non-empty set of naturals has a least element.
LEMMA LeastElement ==
  ASSUME NEW T \in SUBSET Nat, T # {}
  PROVE  \E m \in T : \A k \in T : m <= k
<1>1. PICK m \in T : \A k \in T : <<k, m>> \notin LessThanOnNat
  BY LessThanWellFounded, WFMin
<1>2. ASSUME NEW k \in T PROVE m <= k
  <2>1. m \in Nat /\ k \in Nat
    OBVIOUS
  <2>2. ~ (k < m)
    BY <1>1, <2>1 DEF LessThanOnNat
  <2> QED
    BY <2>1, <2>2
<1> QED
  BY <1>2

\* Induction over 0 .. n for a set: what holds of 0 and is passed from k to
\* k+1 holds of the whole interval.
LEMMA IntervalInduction ==
  ASSUME NEW n \in Nat, NEW S,
         0 \in S,
         \A k \in 0..n : k < n /\ k \in S => k + 1 \in S
  PROVE  \A k \in 0..n : k \in S
<1> DEFINE Missing == {k \in 0..n : k \notin S}
<1>1. SUFFICES ASSUME Missing # {} PROVE FALSE
  OBVIOUS
<1>2. Missing \in SUBSET Nat
  OBVIOUS
<1>3. PICK m \in Missing : \A k \in Missing : m <= k
  BY <1>1, <1>2, LeastElement
<1>4. m \in 0..n /\ m \notin S /\ m # 0
  BY <1>3
<1>5. m - 1 \in 0..n /\ m - 1 < n /\ (m - 1) + 1 = m
  BY <1>4
<1>6. m - 1 \in S
  BY <1>3, <1>4, <1>5
<1> QED
  BY <1>4, <1>5, <1>6

\* The recursion of RunningTotal defines a function: for every number of
\* rows some function satisfies the equation.
LEMMA RunningTotalExists ==
  ASSUME NEW n \in Nat, NEW f
  PROVE  \E s : s = [k \in 0..n |-> IF k = 0 THEN 0 ELSE s[k-1] + f[k]]
<1> DEFINE Good(m, s) == s = [k \in 0..m |-> IF k = 0 THEN 0 ELSE s[k-1] + f[k]]
           S == {m \in 0..n : \E s : Good(m, s)}
<1>1. 0 \in S
  <2>1. Good(0, [k \in 0..0 |-> 0])
    OBVIOUS
  <2>2. 0 \in 0..n
    OBVIOUS
  <2> HIDE DEF Good
  <2> QED
    BY <2>1, <2>2
<1>2. ASSUME NEW m \in 0..n, m < n, m \in S PROVE m + 1 \in S
  <2>1. PICK s : Good(m, s)
    BY <1>2
  <2> DEFINE t == [k \in 0..(m+1) |-> IF k = m + 1 THEN s[m] + f[m+1] ELSE s[k]]
  <2>2. ASSUME NEW k \in 0..(m+1)
        PROVE  t[k] = IF k = 0 THEN 0 ELSE t[k-1] + f[k]
    <3>1. CASE k = m + 1
      <4>1. k # 0 /\ k - 1 = m /\ k - 1 \in 0..(m+1) /\ k - 1 # m + 1
        BY <3>1
      <4>2. t[k-1] = s[m]
        BY <4>1
      <4> QED
        BY <3>1, <4>1, <4>2
    <3>2. CASE k # m + 1
      <4>1. k \in 0..m
        BY <3>2
      <4>2. s[k] = IF k = 0 THEN 0 ELSE s[k-1] + f[k]
        BY <4>1, <2>1
      <4>3. k # 0 => k - 1 \in 0..(m+1) /\ k - 1 # m + 1
        BY <4>1
      <4> QED
        BY <3>2, <4>2, <4>3
    <3> QED
      BY <3>1, <3>2
  <2>3. Good(m + 1, t)
    BY <2>2
  <2>4. m + 1 \in 0..n
    BY <1>2
  <2> HIDE DEF Good
  <2> QED
    BY <2>3, <2>4
<1> HIDE DEF S
<1>3. \A m \in 0..n : m \in S
  BY <1>1, <1>2, IntervalInduction
<1>4. n \in S
  BY <1>3
<1> QED
  BY <1>4 DEF S

\* RunningTotal satisfies its recursion equation.
LEMMA RunningTotalDef ==
  ASSUME NEW n \in Nat, NEW f
  PROVE  \A k \in 0..n :
           RunningTotal(f, n)[k] =
             IF k = 0 THEN 0 ELSE RunningTotal(f, n)[k-1] + f[k]
<1> DEFINE Equation(s) ==
             s = [k \in 0..n |-> IF k = 0 THEN 0 ELSE s[k-1] + f[k]]
<1>1. \E s : Equation(s)
  BY RunningTotalExists
<1>2. Equation(CHOOSE s : Equation(s))
  BY <1>1, Zenon
<1>3. RunningTotal(f, n) = CHOOSE s : Equation(s)
  BY DEF RunningTotal
<1>4. Equation(RunningTotal(f, n))
  BY <1>2, <1>3, Zenon
<1> QED
  BY <1>4, Zenon

\* Every running total of a column of naturals is a natural.
LEMMA RunningTotalType ==
  ASSUME NEW n \in Nat, NEW f \in [1..n -> Nat]
  PROVE  \A k \in 0..n : RunningTotal(f, n)[k] \in Nat
<1> DEFINE S == {k \in 0..n : RunningTotal(f, n)[k] \in Nat}
<1>1. 0 \in S
  BY RunningTotalDef
<1>2. ASSUME NEW k \in 0..n, k < n, k \in S PROVE k + 1 \in S
  <2>1. k + 1 \in 0..n /\ k + 1 # 0 /\ (k + 1) - 1 = k /\ k + 1 \in 1..n
    BY <1>2
  <2>2. RunningTotal(f, n)[k+1] = RunningTotal(f, n)[k] + f[k+1]
    BY <2>1, RunningTotalDef
  <2> QED
    BY <1>2, <2>1, <2>2
<1> HIDE DEF S
<1>3. \A k \in 0..n : k \in S
  BY <1>1, <1>2, IntervalInduction
<1> QED
  BY <1>3 DEF S

\* The sum of a column of naturals is a natural.
LEMMA SumRowsType ==
  ASSUME NEW n \in Nat, NEW f \in [1..n -> Nat]
  PROVE  SumRows(f, n) \in Nat
BY RunningTotalType DEF SumRows

\* Changing row i only moves the sum by the difference of that row's values.
LEMMA SumRowsUpdate ==
  ASSUME NEW n \in Nat, NEW f \in [1..n -> Nat], NEW g \in [1..n -> Nat],
         NEW i \in 1..n, \A k \in 1..n : k # i => g[k] = f[k]
  PROVE  SumRows(g, n) = (SumRows(f, n) - f[i]) + g[i]
<1> DEFINE F == RunningTotal(f, n)
           G == RunningTotal(g, n)
           S == {k \in 0..n : G[k] = IF k < i THEN F[k] ELSE (F[k] - f[i]) + g[i]}
<1>0. /\ \A k \in 0..n : F[k] = IF k = 0 THEN 0 ELSE F[k-1] + f[k]
      /\ \A k \in 0..n : G[k] = IF k = 0 THEN 0 ELSE G[k-1] + g[k]
      /\ \A k \in 0..n : F[k] \in Nat /\ G[k] \in Nat
  BY RunningTotalDef, RunningTotalType
<1> HIDE DEF F, G
<1>1. 0 \in S
  BY <1>0
<1>2. ASSUME NEW k \in 0..n, k < n, k \in S PROVE k + 1 \in S
  <2>1. k + 1 \in 0..n /\ k + 1 # 0 /\ (k + 1) - 1 = k /\ k + 1 \in 1..n
    BY <1>2
  <2>2. F[k+1] = F[k] + f[k+1] /\ G[k+1] = G[k] + g[k+1]
    BY <2>1, <1>0
  <2>3. f[k+1] \in Nat /\ g[k+1] \in Nat /\ f[i] \in Nat /\ g[i] \in Nat
    BY <2>1
  <2>4. F[k] \in Nat /\ G[k] \in Nat
    BY <1>0
  <2>5. G[k] = IF k < i THEN F[k] ELSE (F[k] - f[i]) + g[i]
    BY <1>2
  <2>6. k + 1 \in S <=> G[k+1] = IF k + 1 < i THEN F[k+1] ELSE (F[k+1] - f[i]) + g[i]
    BY <2>1
  <2> HIDE DEF S
  <2>7. G[k+1] = IF k + 1 < i THEN F[k+1] ELSE (F[k+1] - f[i]) + g[i]
    <3>1. CASE k + 1 = i
      <4>1. k < i /\ ~ (k + 1 < i) /\ f[k+1] = f[i] /\ g[k+1] = g[i]
        BY <3>1
      <4> QED
        BY <2>2, <2>3, <2>4, <2>5, <4>1
    <3>2. CASE k + 1 # i
      <4>1. g[k+1] = f[k+1] /\ (k < i <=> k + 1 < i)
        BY <2>1, <3>2
      <4>2. CASE k < i
        BY <2>2, <2>5, <4>1, <4>2
      <4>3. CASE ~ (k < i)
        <5>1. G[k+1] = ((F[k] - f[i]) + g[i]) + f[k+1]
          BY <2>2, <2>5, <4>1, <4>3
        <5>2. F[k+1] = F[k] + f[k+1] /\ ~ (k + 1 < i)
          BY <2>2, <4>1, <4>3
        <5> DEFINE a == F[k]  b == f[i]  c == g[i]  d == f[k+1]
        <5>3. a \in Nat /\ b \in Nat /\ c \in Nat /\ d \in Nat
          BY <2>3, <2>4
        <5> HIDE DEF a, b, c, d
        <5>4. ((a - b) + c) + d = ((a + d) - b) + c
          BY ONLY <5>3
        <5> QED
          BY ONLY <5>1, <5>2, <5>4 DEF a, b, c, d
      <4> QED
        BY <4>2, <4>3
    <3> QED
      BY <3>1, <3>2
  <2> QED
    BY <2>6, <2>7
<1> HIDE DEF S
<1>3. \A k \in 0..n : k \in S
  BY <1>1, <1>2, IntervalInduction
<1>4. n \in S /\ ~ (n < i)
  BY <1>3
<1> QED
  BY <1>4 DEF S, SumRows, F, G

\* A row more adds its value to the sum.
LEMMA SumRowsExtend ==
  ASSUME NEW n \in Nat, NEW f \in [1..n -> Nat], NEW g \in [1..(n+1) -> Nat],
         \A k \in 1..n : g[k] = f[k]
  PROVE  SumRows(g, n + 1) = SumRows(f, n) + g[n+1]
<1> DEFINE F == RunningTotal(f, n)
           G == RunningTotal(g, n + 1)
           S == {k \in 0..n : G[k] = F[k]}
<1>0. /\ \A k \in 0..n : F[k] = IF k = 0 THEN 0 ELSE F[k-1] + f[k]
      /\ \A k \in 0..(n+1) : G[k] = IF k = 0 THEN 0 ELSE G[k-1] + g[k]
  <2>1. n + 1 \in Nat
    OBVIOUS
  <2> QED
    BY <2>1, RunningTotalDef
<1> HIDE DEF F, G
<1>1. 0 \in S
  BY <1>0
<1>2. ASSUME NEW k \in 0..n, k < n, k \in S PROVE k + 1 \in S
  <2>1. k + 1 \in 0..n /\ k + 1 \in 1..n /\ k + 1 # 0 /\ (k + 1) - 1 = k
    BY <1>2
  <2>2. k + 1 \in 0..(n+1)
    BY <2>1
  <2>3. G[k+1] = F[k+1]
    BY <1>0, <1>2, <2>1, <2>2
  <2> QED
    BY <2>1, <2>3
<1> HIDE DEF S
<1>3. \A k \in 0..n : k \in S
  BY <1>1, <1>2, IntervalInduction
<1>4. G[n] = F[n]
  BY <1>3 DEF S
<1>5. n + 1 \in 0..(n+1) /\ n + 1 # 0 /\ (n + 1) - 1 = n
  OBVIOUS
<1>6. G[n+1] = F[n] + g[n+1]
  BY <1>0, <1>4, <1>5
<1> QED
  BY <1>6 DEF SumRows, F, G
=============================================================================
