------------------------- MODULE CapacityMoneyProofs ------------------------
(***************************************************************************)
(* Proofs about decimal-math.ts and about CapacityMoney, for strings of any *)
(* length, any rates and any number of reservations.  A string that was     *)
(* formatted reads back as the same number, the one rounding returns the    *)
(* nearest unit, and the capacity check on strings decides as the integers  *)
(* of CapacityService do.                                                  *)
(***************************************************************************)
EXTENDS CapacityMoney, RowSumProofs, SequenceTheorems

-----------------------------------------------------------------------------
(* Recursion over the naturals *)

\* A recursion that gives values in V: below base from start, and from there
\* on by step from the value at a smaller number.
IsRecursion(V, base, start, prev, step) ==
  /\ base \in Nat
  /\ start \in [Nat -> V]
  /\ prev \in [Nat -> Nat]
  /\ step \in [Nat \X V -> V]
  /\ \A n \in Nat : n >= base => prev[n] < n

Solves(f, V, base, start, prev, step) ==
  /\ f \in [Nat -> V]
  /\ \A n \in Nat :
       f[n] = IF n < base THEN start[n] ELSE step[<<n, f[prev[n]]>>]

\* Such a recursion defines a function.
LEMMA RecursionOnNat ==
  ASSUME NEW V, NEW base, NEW start, NEW prev, NEW step,
         IsRecursion(V, base, start, prev, step)
  PROVE  \E f : Solves(f, V, base, start, prev, step)
<1> USE DEF IsRecursion
<1> DEFINE At(n, f) == IF n < base THEN start[n] ELSE step[<<n, f[prev[n]]>>]
           Good(m, f) == f \in [0..m -> V] /\ \A n \in 0..m : f[n] = At(n, f)
<1>1. ASSUME NEW n \in Nat, NEW f, NEW g, n < base \/ f[prev[n]] = g[prev[n]]
      PROVE  At(n, f) = At(n, g)
  BY <1>1
<1>2. ASSUME NEW n \in Nat, NEW f, n < base \/ f[prev[n]] \in V
      PROVE  At(n, f) \in V
  BY <1>2
<1>3. ASSUME NEW n \in Nat, ~ (n < base)
      PROVE  prev[n] \in Nat /\ prev[n] < n
  BY <1>3
<1> HIDE DEF At
<1>4. ASSUME NEW m \in Nat PROVE \E f : Good(m, f)
  <2> DEFINE S == {k \in 0..m : \E f : Good(k, f)}
  <2>1. 0 \in S
    <3> DEFINE g == [n \in 0..0 |-> start[0]]
    <3>1. 0 < base
      BY <1>3
    <3>2. g \in [0..0 -> V] /\ At(0, g) = start[0]
      BY <3>1 DEF At
    <3>3. Good(0, g)
      BY <3>2
    <3> HIDE DEF Good
    <3> QED
      BY <3>3
  <2>2. ASSUME NEW k \in 0..m, k < m, k \in S PROVE k + 1 \in S
    <3>1. PICK f : Good(k, f)
      BY <2>2
    <3> DEFINE g == [n \in 0..(k+1) |-> IF n = k + 1 THEN At(n, f) ELSE f[n]]
    <3>2. ASSUME NEW n \in 0..(k+1)
          PROVE  /\ n \in Nat
                 /\ n < base \/ (prev[n] \in 0..k /\ g[prev[n]] = f[prev[n]])
      BY <1>3
    <3>3. ASSUME NEW n \in 0..(k+1)
          PROVE  At(n, g) = At(n, f) /\ At(n, f) \in V
      <4>1. n < base \/ f[prev[n]] \in V
        BY <3>1, <3>2
      <4> HIDE DEF g
      <4> QED
        BY <4>1, <3>2, <1>1, <1>2
    <3>4. ASSUME NEW n \in 0..(k+1) PROVE g[n] = At(n, f)
      BY <3>1
    <3>5. g \in [0..(k+1) -> V]
      BY <3>3, <3>4
    <3> HIDE DEF g
    <3>6. Good(k + 1, g)
      BY <3>3, <3>4, <3>5
    <3> HIDE DEF Good
    <3>7. k + 1 \in 0..m
      BY <2>2
    <3> QED
      BY <3>6, <3>7
  <2> HIDE DEF S
  <2>3. \A k \in 0..m : k \in S
    BY <2>1, <2>2, IntervalInduction
  <2>4. m \in S
    BY <2>3
  <2> QED
    BY <2>4 DEF S
<1>5. ASSUME NEW l \in Nat, NEW m \in Nat, NEW f, NEW g, Good(l, f), Good(m, g),
             NEW k \in Nat, k <= l, k <= m
      PROVE  f[k] = g[k]
  <2> DEFINE Differs == {n \in 0..k : f[n] # g[n]}
  <2>1. SUFFICES ASSUME Differs # {} PROVE FALSE
    OBVIOUS
  <2>2. PICK n \in Differs : \A i \in Differs : n <= i
    <3>1. Differs \in SUBSET Nat
      OBVIOUS
    <3> HIDE DEF Differs
    <3> QED
      BY <2>1, <3>1, LeastElement
  <2>3. n \in Nat /\ n \in 0..l /\ n \in 0..m
    BY <1>5
  <2>4. f[n] = At(n, f) /\ g[n] = At(n, g)
    BY <1>5, <2>3
  <2>5. At(n, f) # At(n, g)
    BY <2>4
  <2>6. ~ (n < base) /\ f[prev[n]] # g[prev[n]]
    BY <1>1, <2>3, <2>5
  <2>7. prev[n] \in 0..k /\ prev[n] < n
    BY <1>3, <2>3, <2>6
  <2>8. prev[n] \in Differs
    BY <2>6, <2>7
  <2> QED
    BY <2>2, <2>3, <2>7, <2>8
<1> DEFINE Upto(m) == CHOOSE f : Good(m, f)
           h == [n \in Nat |-> Upto(n)[n]]
<1>6. ASSUME NEW m \in Nat PROVE Good(m, Upto(m))
  BY <1>4, Zenon
<1> HIDE DEF Upto
<1>7. ASSUME NEW n \in Nat PROVE h[n] \in V /\ h[n] = At(n, h)
  <2>1. Good(n, Upto(n)) /\ h[n] = Upto(n)[n]
    BY <1>6
  <2>2. Upto(n)[n] \in V /\ Upto(n)[n] = At(n, Upto(n))
    BY <2>1
  <2>3. ASSUME ~ (n < base) PROVE h[prev[n]] = Upto(n)[prev[n]]
    <3>1. prev[n] \in Nat /\ prev[n] <= n /\ prev[n] <= prev[n]
      BY <1>3, <2>3
    <3>2. Good(prev[n], Upto(prev[n])) /\ h[prev[n]] = Upto(prev[n])[prev[n]]
      BY <1>6, <3>1
    <3> HIDE DEF Good, h
    <3> QED
      BY <1>5, <2>1, <3>1, <3>2
  <2> HIDE DEF h, Good
  <2>4. At(n, h) = At(n, Upto(n))
    BY <1>1, <2>3
  <2> QED
    BY <2>1, <2>2, <2>4
<1> HIDE DEF Upto
<1>8. h \in [Nat -> V]
  BY <1>7
<1> HIDE DEF h
<1>9. Solves(h, V, base, start, prev, step)
  BY <1>7, <1>8 DEF At, Solves
<1> QED
  BY <1>9

\* What holds of 0 and is passed from k to k+1 holds of every natural.
LEMMA InductionOnNat ==
  ASSUME NEW S, 0 \in S, \A k \in Nat : k \in S => k + 1 \in S
  PROVE  \A k \in Nat : k \in S
<1>1. ASSUME NEW n \in Nat PROVE n \in S
  <2>1. \A k \in 0..n : k \in S
    BY IntervalInduction
  <2> QED
    BY <2>1
<1> QED
  BY <1>1

-----------------------------------------------------------------------------
(* Powers of ten *)

\* 10n ** BigInt(n).
LEMMA Pow10Def ==
  /\ Pow10[0] = 1
  /\ \A n \in Nat : Pow10[n+1] = 10 * Pow10[n]
<1> DEFINE Equation(f) == f = [n \in Nat |-> IF n = 0 THEN 1 ELSE 10 * f[n-1]]
           start == [n \in Nat |-> 1]
           prev == [n \in Nat |-> IF n = 0 THEN 0 ELSE n - 1]
           step == [p \in Nat \X Nat |-> 10 * p[2]]
<1>1. \E f : Equation(f)
  <2>1. IsRecursion(Nat, 1, start, prev, step)
    BY DEF IsRecursion
  <2> HIDE DEF start, prev, step
  <2>2. PICK f : Solves(f, Nat, 1, start, prev, step)
    BY <2>1, RecursionOnNat
  <2>3. ASSUME NEW n \in Nat PROVE f[n] = IF n = 0 THEN 1 ELSE 10 * f[n-1]
    <3>1. CASE n = 0
      <4>1. n < 1 /\ start[n] = 1
        BY <3>1 DEF start
      <4>2. f[n] = start[n]
        BY <2>2, <4>1, Zenon DEF Solves
      <4> QED
        BY <3>1, <4>1, <4>2
    <3>2. CASE n # 0
      <4>1. prev[n] = n - 1 /\ n - 1 \in Nat /\ ~ (n < 1)
        BY <3>2 DEF prev
      <4>2. <<n, f[n-1]>> \in Nat \X Nat
        BY <2>2, <4>1 DEF Solves
      <4>3. step[<<n, f[n-1]>>] = 10 * f[n-1]
        BY <4>2 DEF step
      <4> QED
        BY <2>2, <3>2, <4>1, <4>3 DEF Solves
    <3> QED
      BY <3>1, <3>2
  <2>4. Equation(f)
    <3>1. f = [n \in Nat |-> f[n]]
      BY <2>2 DEF Solves
    <3> QED
      BY <2>3, <3>1, Zenon
  <2> HIDE DEF Equation
  <2> QED
    BY <2>4
<1>2. Equation(CHOOSE f : Equation(f))
  BY <1>1, Zenon
<1>3. Pow10 = CHOOSE f : Equation(f)
  BY DEF Pow10
<1>4. Equation(Pow10)
  BY <1>2, <1>3, Zenon
<1> HIDE DEF start, prev, step
<1>5. \A n \in Nat : Pow10[n] = IF n = 0 THEN 1 ELSE 10 * Pow10[n-1]
  BY <1>4, Zenon
<1>6. ASSUME NEW n \in Nat PROVE Pow10[n+1] = 10 * Pow10[n]
  <2>1. n + 1 \in Nat /\ n + 1 # 0 /\ (n + 1) - 1 = n
    OBVIOUS
  <2> QED
    BY <1>5, <2>1
<1> QED
  BY <1>5, <1>6

LEMMA Pow10Type == \A n \in Nat : Pow10[n] \in Nat \ {0}
<1> DEFINE S == {n \in Nat : Pow10[n] \in Nat \ {0}}
<1>1. 0 \in S
  BY Pow10Def
<1>2. ASSUME NEW k \in Nat, k \in S PROVE k + 1 \in S
  BY <1>2, Pow10Def
<1> HIDE DEF S
<1>3. \A k \in Nat : k \in S
  BY <1>1, <1>2, InductionOnNat
<1> QED
  BY <1>3 DEF S

\* scaleBigIntToString halves its divisor, which is even.
LEMMA Pow10Even ==
  ASSUME NEW n \in Nat \ {0}
  PROVE  \E half \in Nat \ {0} : Pow10[n] = 2 * half
<1>1. n - 1 \in Nat /\ (n - 1) + 1 = n
  OBVIOUS
<1>2. Pow10[n] = 10 * Pow10[n-1] /\ Pow10[n-1] \in Nat \ {0}
  BY <1>1, Pow10Def, Pow10Type
<1>3. 5 * Pow10[n-1] \in Nat \ {0} /\ Pow10[n] = 2 * (5 * Pow10[n-1])
  BY <1>2
<1> QED
  BY <1>3

-----------------------------------------------------------------------------
(* Digits to numbers *)

\* BigIntOf's reading of the first k digits.
Reading(digits) ==
  CHOOSE f : f = [k \in 0..Len(digits) |->
                    IF k = 0 THEN 0 ELSE 10 * f[k-1] + digits[k]]

LEMMA BigIntIsReading ==
  ASSUME NEW digits
  PROVE  BigIntOf(digits) = Reading(digits)[Len(digits)]
BY DEF BigIntOf, Reading

LEMMA ReadingDef ==
  ASSUME NEW digits \in Seq(Nat)
  PROVE  \A k \in 0..Len(digits) :
           /\ Reading(digits)[k] \in Nat
           /\ Reading(digits)[k] =
                IF k = 0 THEN 0 ELSE 10 * Reading(digits)[k-1] + digits[k]
<1> DEFINE n == Len(digits)
           At(f, k) == IF k = 0 THEN 0 ELSE 10 * f[k-1] + digits[k]
           Equation(f) == f = [k \in 0..n |-> At(f, k)]
           start == [k \in Nat |-> 0]
           prev == [k \in Nat |-> IF k = 0 THEN 0 ELSE k - 1]
           step == [p \in Nat \X Nat |->
                      10 * p[2] + (IF p[1] \in 1..n THEN digits[p[1]] ELSE 0)]
<1>0. n \in Nat /\ \A k \in 1..n : digits[k] \in Nat
  OBVIOUS
<1> HIDE DEF n
<1>1. \E f : Equation(f)
  <2>1. IsRecursion(Nat, 1, start, prev, step)
    <3>1. ASSUME NEW p \in Nat \X Nat
          PROVE  10 * p[2] + (IF p[1] \in 1..n THEN digits[p[1]] ELSE 0) \in Nat
      <4> DEFINE a == p[2]
                 b == IF p[1] \in 1..n THEN digits[p[1]] ELSE 0
      <4>1. a \in Nat /\ b \in Nat
        BY <1>0
      <4> HIDE DEF a, b
      <4>2. 10 * a + b \in Nat
        BY <4>1
      <4> QED
        BY <4>2 DEF a, b
    <3>2. step \in [Nat \X Nat -> Nat]
      BY <3>1
    <3> HIDE DEF step
    <3> QED
      BY <3>2 DEF IsRecursion
  <2> HIDE DEF start, prev, step
  <2>2. PICK f : Solves(f, Nat, 1, start, prev, step)
    BY <2>1, RecursionOnNat
  <2> DEFINE g == [k \in 0..n |-> f[k]]
  <2>3. ASSUME NEW k \in 0..n PROVE g[k] = At(g, k)
    <3>1. CASE k = 0
      <4>1. k < 1 /\ start[k] = 0 /\ k \in Nat
        BY <3>1 DEF start
      <4>2. f[k] = start[k]
        BY <2>2, <4>1, Zenon DEF Solves
      <4>3. g[k] = f[k]
        OBVIOUS
      <4> QED
        BY <3>1, <4>1, <4>2, <4>3
    <3>2. CASE k # 0
      <4>1. prev[k] = k - 1 /\ k - 1 \in 0..n /\ k - 1 \in Nat /\ ~ (k < 1) /\ k \in 1..n /\ k \in Nat
        BY <1>0, <3>2 DEF prev
      <4>2. <<k, f[k-1]>> \in Nat \X Nat
        BY <2>2, <4>1 DEF Solves
      <4>3. step[<<k, f[k-1]>>] = 10 * f[k-1] + digits[k]
        BY <4>1, <4>2 DEF step
      <4>4. f[k] = 10 * f[k-1] + digits[k]
        BY <2>2, <4>1, <4>3 DEF Solves
      <4>5. g[k] = f[k] /\ g[k-1] = f[k-1]
        BY <4>1
      <4> QED
        BY <3>2, <4>4, <4>5
    <3> QED
      BY <3>1, <3>2
  <2>4. Equation(g)
    <3> HIDE DEF At
    <3> QED
      BY <2>3
  <2> HIDE DEF Equation
  <2> QED
    BY <2>4
<1>2. Equation(CHOOSE f : Equation(f))
  BY <1>1, Zenon
<1>3. Reading(digits) = CHOOSE f : Equation(f)
  BY DEF Reading, n
<1>4. Equation(Reading(digits))
  BY <1>2, <1>3, Zenon
<1>5. \A k \in 0..n : Reading(digits)[k] = At(Reading(digits), k)
  BY <1>4, Zenon
<1> DEFINE S == {k \in 0..n : Reading(digits)[k] \in Nat}
<1> HIDE DEF start, prev, step, Equation
<1>6. 0 \in S
  BY <1>0, <1>5
<1>7. ASSUME NEW k \in 0..n, k < n, k \in S PROVE k + 1 \in S
  <2>1. k + 1 \in 0..n /\ k + 1 \in 1..n /\ k + 1 # 0 /\ (k + 1) - 1 = k
    BY <1>0, <1>7
  <2>2. Reading(digits)[k+1] = 10 * Reading(digits)[k] + digits[k+1]
    BY <1>5, <2>1
  <2>3. Reading(digits)[k] \in Nat /\ digits[k+1] \in Nat
    BY <1>0, <1>7, <2>1
  <2> DEFINE before == Reading(digits)[k]
             d == digits[k+1]
  <2>4. 10 * before + d \in Nat
    <3> HIDE DEF before, d
    <3>1. before \in Nat /\ d \in Nat
      BY <2>3 DEF before, d
    <3> QED
      BY <3>1
  <2>5. Reading(digits)[k+1] \in Nat
    BY <2>2, <2>4, Zenon
  <2> QED
    BY <2>1, <2>5
<1> HIDE DEF S
<1>8. \A k \in 0..n : k \in S
  BY <1>0, <1>6, <1>7, IntervalInduction
<1> QED
  BY <1>5, <1>8 DEF S, n

\* The reading of a number is a number.
LEMMA BigIntType ==
  ASSUME NEW digits \in Seq(Nat)
  PROVE  BigIntOf(digits) \in Nat
BY BigIntIsReading, ReadingDef

\* One more digit on the right.
LEMMA BigIntAppend ==
  ASSUME NEW digits \in Seq(Nat), NEW d \in Nat
  PROVE  BigIntOf(Append(digits, d)) = 10 * BigIntOf(digits) + d
<1> DEFINE n == Len(digits)
           longer == Append(digits, d)
           S == {k \in 0..n : Reading(longer)[k] = Reading(digits)[k]}
<1>1. /\ n \in Nat /\ longer \in Seq(Nat) /\ Len(longer) = n + 1
      /\ longer[n+1] = d /\ \A k \in 1..n : longer[k] = digits[k]
  OBVIOUS
<1>2. /\ \A k \in 0..n : Reading(digits)[k] =
           IF k = 0 THEN 0 ELSE 10 * Reading(digits)[k-1] + digits[k]
      /\ \A k \in 0..(n+1) : Reading(longer)[k] =
           IF k = 0 THEN 0 ELSE 10 * Reading(longer)[k-1] + longer[k]
  BY <1>1, ReadingDef
<1> HIDE DEF n, longer
<1>3. 0 \in S
  BY <1>1, <1>2
<1>4. ASSUME NEW k \in 0..n, k < n, k \in S PROVE k + 1 \in S
  <2>1. /\ k + 1 \in 0..n /\ k + 1 \in 0..(n+1) /\ k + 1 \in 1..n
        /\ k + 1 # 0 /\ (k + 1) - 1 = k
    BY <1>1, <1>4
  <2>2. Reading(longer)[k+1] = Reading(digits)[k+1]
    BY <1>1, <1>2, <1>4, <2>1
  <2> QED
    BY <2>1, <2>2
<1> HIDE DEF S
<1>5. \A k \in 0..n : k \in S
  BY <1>1, <1>3, <1>4, IntervalInduction
<1>6. Reading(longer)[n] = Reading(digits)[n]
  BY <1>1, <1>5 DEF S
<1>7. n + 1 \in 0..(n+1) /\ n + 1 # 0 /\ (n + 1) - 1 = n
  BY <1>1
<1>8. Reading(longer)[n+1] = 10 * Reading(digits)[n] + d
  BY <1>1, <1>2, <1>6, <1>7
<1> QED
  BY <1>1, <1>8, BigIntIsReading DEF n, longer

\* padStart: zeros on the left change no number.
LEMMA BigIntPadded ==
  ASSUME NEW padding \in Seq({0}), NEW digits \in Seq(Nat)
  PROVE  BigIntOf(padding \o digits) = BigIntOf(digits)
<1> DEFINE m == Len(padding)
           n == Len(digits)
           padded == padding \o digits
           Z == {k \in 0..m : Reading(padded)[k] = 0}
           S == {k \in 0..n : Reading(padded)[m+k] = Reading(digits)[k]}
<1>1. /\ m \in Nat /\ n \in Nat /\ padded \in Seq(Nat) /\ Len(padded) = m + n
      /\ \A k \in 1..m : padded[k] = 0
      /\ \A k \in 1..n : padded[m+k] = digits[k]
  <2>1. padding \in Seq(Nat) /\ \A k \in 1..m : padding[k] = 0
    OBVIOUS
  <2>2. m \in Nat /\ n \in Nat
    BY LenProperties
  <2>3. /\ padded \in Seq(Nat) /\ Len(padded) = m + n
        /\ \A k \in 1..(m+n) : padded[k] = IF k <= m THEN padding[k] ELSE digits[k-m]
    BY <2>1, ConcatProperties
  <2> HIDE DEF m, n, padded
  <2>4. ASSUME NEW k \in 1..m PROVE padded[k] = 0
    <3>1. k \in 1..(m+n) /\ k <= m
      BY <2>2
    <3> QED
      BY <2>1, <2>3, <3>1
  <2>5. ASSUME NEW k \in 1..n PROVE padded[m+k] = digits[k]
    <3>1. m + k \in 1..(m+n) /\ ~ (m + k <= m) /\ (m + k) - m = k
      BY <2>2
    <3> QED
      BY <2>3, <3>1
  <2> QED
    BY <2>2, <2>3, <2>4, <2>5
<1>2. /\ \A k \in 0..n : Reading(digits)[k] =
           IF k = 0 THEN 0 ELSE 10 * Reading(digits)[k-1] + digits[k]
      /\ \A k \in 0..(m+n) : Reading(padded)[k] =
           IF k = 0 THEN 0 ELSE 10 * Reading(padded)[k-1] + padded[k]
  BY <1>1, ReadingDef
<1> HIDE DEF m, n, padded
<1>3. 0 \in Z
  BY <1>1, <1>2
<1>4. ASSUME NEW k \in 0..m, k < m, k \in Z PROVE k + 1 \in Z
  <2>1. /\ k + 1 \in 0..m /\ k + 1 \in 0..(m+n) /\ k + 1 \in 1..m
        /\ k + 1 # 0 /\ (k + 1) - 1 = k
    BY <1>1, <1>4
  <2>2. Reading(padded)[k+1] = 0
    BY <1>1, <1>2, <1>4, <2>1
  <2> QED
    BY <2>1, <2>2
<1> HIDE DEF Z
<1>5. \A k \in 0..m : k \in Z
  BY <1>1, <1>3, <1>4, IntervalInduction
<1>6. Reading(padded)[m] = 0
  BY <1>1, <1>5 DEF Z
<1>7. 0 \in S
  BY <1>1, <1>2, <1>6
<1>8. ASSUME NEW k \in 0..n, k < n, k \in S PROVE k + 1 \in S
  <2>1. /\ k + 1 \in 0..n /\ m + (k + 1) \in 0..(m+n) /\ k + 1 \in 1..n
        /\ k + 1 # 0 /\ (k + 1) - 1 = k /\ m + (k + 1) # 0
        /\ (m + (k + 1)) - 1 = m + k
    BY <1>1, <1>8
  <2>2. Reading(padded)[m + (k+1)] = 10 * Reading(padded)[m+k] + digits[k+1]
    BY <1>1, <1>2, <2>1
  <2>3. Reading(digits)[k+1] = 10 * Reading(digits)[k] + digits[k+1]
    BY <1>2, <2>1
  <2>4. Reading(padded)[m + (k+1)] = Reading(digits)[k+1]
    BY <1>8, <2>2, <2>3
  <2> QED
    BY <2>1, <2>4
<1> HIDE DEF S
<1>9. \A k \in 0..n : k \in S
  BY <1>1, <1>7, <1>8, IntervalInduction
<1>10. Reading(padded)[m+n] = Reading(digits)[n]
  BY <1>1, <1>9 DEF S
<1> QED
  BY <1>1, <1>10, BigIntIsReading DEF n, padded

LEMMA BigIntOfOne ==
  ASSUME NEW d \in Nat
  PROVE  BigIntOf(<<d>>) = d
<1>1. <<>> \in Seq(Nat) /\ Len(<<>>) = 0 /\ Append(<<>>, d) = <<d>>
  OBVIOUS
<1>2. BigIntOf(<<>>) = 0
  <2>1. 0 \in 0..0
    OBVIOUS
  <2>2. Reading(<<>>)[0] = 0
    BY <1>1, <2>1, ReadingDef
  <2> QED
    BY <1>1, <2>2, BigIntIsReading
<1>3. BigIntOf(Append(<<>>, d)) = 10 * BigIntOf(<<>>) + d
  BY <1>1, BigIntAppend, Zenon
<1>4. 10 * 0 + d = d
  OBVIOUS
<1> QED
  BY <1>1, <1>2, <1>3, <1>4, Zenon

-----------------------------------------------------------------------------
(* Numbers to digits *)

LEMMA DigitsOfDef ==
  ASSUME NEW v \in Nat
  PROVE  DigitsOf[v] =
           IF v < 10 THEN <<v>> ELSE Append(DigitsOf[v \div 10], v % 10)
<1> DEFINE At(f, n) == IF n < 10 THEN <<n>> ELSE Append(f[n \div 10], n % 10)
           Equation(f) == f = [n \in Nat |-> At(f, n)]
           V == Seq(Digits)
           start == [n \in Nat |-> <<n % 10>>]
           prev == [n \in Nat |-> n \div 10]
           step == [p \in Nat \X V |-> Append(p[2], p[1] % 10)]
<1>0. \A n \in Nat : n % 10 \in Digits /\ n \div 10 \in Nat
  BY DEF Digits
<1>1. \E f : Equation(f)
  <2>1. IsRecursion(V, 10, start, prev, step)
    <3>1. start \in [Nat -> V]
      BY <1>0
    <3>2. prev \in [Nat -> Nat]
      BY <1>0
    <3>3. \A n \in Nat : n >= 10 => prev[n] < n
      OBVIOUS
    <3>4. step \in [Nat \X V -> V]
      BY <1>0
    <3> HIDE DEF start, prev, step, V
    <3> QED
      BY <3>1, <3>2, <3>3, <3>4 DEF IsRecursion
  <2> HIDE DEF start, prev, step, V
  <2>2. PICK f : Solves(f, V, 10, start, prev, step)
    BY <2>1, RecursionOnNat
  <2>3. ASSUME NEW n \in Nat PROVE f[n] = At(f, n)
    <3>1. CASE n < 10
      <4>1. start[n] = <<n>>
        BY <3>1 DEF start
      <4>2. f[n] = start[n]
        BY <2>2, <3>1, Zenon DEF Solves
      <4> QED
        BY <3>1, <4>1, <4>2
    <3>2. CASE ~ (n < 10)
      <4>1. n \div 10 \in Nat /\ prev[n] = n \div 10
        BY <1>0 DEF prev
      <4>2. <<n, f[n \div 10]>> \in Nat \X V
        BY <2>2, <4>1 DEF Solves
      <4>3. step[<<n, f[n \div 10]>>] = Append(f[n \div 10], n % 10)
        BY <4>2 DEF step
      <4>4. f[n] = step[<<n, f[prev[n]]>>]
        BY <2>2, <3>2, Zenon DEF Solves
      <4> QED
        BY <3>2, <4>1, <4>3, <4>4, Zenon
    <3> QED
      BY <3>1, <3>2
  <2> HIDE DEF At
  <2>4. Equation(f)
    <3>1. f = [n \in Nat |-> f[n]]
      BY <2>2 DEF Solves
    <3> QED
      BY <2>3, <3>1, Zenon
  <2> HIDE DEF Equation
  <2> QED
    BY <2>4
<1>2. Equation(CHOOSE f : Equation(f))
  BY <1>1, Zenon
<1>3. DigitsOf = CHOOSE f : Equation(f)
  BY DEF DigitsOf
<1>4. Equation(DigitsOf)
  BY <1>2, <1>3, Zenon
<1> HIDE DEF start, prev, step, V
<1> QED
  BY <1>4, Zenon

\* BigInt(text) undoes toString().
LEMMA DigitsReadBack ==
  ASSUME NEW v \in Nat
  PROVE  /\ DigitsOf[v] \in Seq(Digits)
         /\ Len(DigitsOf[v]) \in Nat \ {0}
         /\ BigIntOf(DigitsOf[v]) = v
<1> DEFINE Good(n) == /\ DigitsOf[n] \in Seq(Digits)
                      /\ Len(DigitsOf[n]) \in Nat \ {0}
                      /\ BigIntOf(DigitsOf[n]) = n
           Bad == {n \in Nat : ~ Good(n)}
<1>1. SUFFICES ASSUME Bad # {} PROVE FALSE
  OBVIOUS
<1>2. PICK n \in Bad : \A k \in Bad : n <= k
  <2>1. Bad \in SUBSET Nat
    OBVIOUS
  <2> HIDE DEF Bad
  <2> QED
    BY <1>1, <2>1, LeastElement
<1>3. n \in Nat /\ ~ Good(n)
  BY <1>2
<1>4. CASE n < 10
  <2>1. n \in Digits
    BY <1>3, <1>4 DEF Digits
  <2>2. <<n>> \in Seq(Digits) /\ Len(<<n>>) = 1
    BY <2>1
  <2>3. DigitsOf[n] = <<n>>
    BY <1>3, <1>4, DigitsOfDef, Zenon
  <2>4. BigIntOf(<<n>>) = n
    BY <1>3, BigIntOfOne
  <2> QED
    BY <1>3, <2>2, <2>3, <2>4
<1>5. CASE ~ (n < 10)
  <2> DEFINE m == n \div 10
             d == n % 10
  <2>1. m \in Nat /\ m < n /\ d \in Nat /\ d \in Digits /\ n = 10 * m + d
    BY <1>3, <1>5 DEF Digits
  <2>2. DigitsOf[n] = Append(DigitsOf[m], d)
    BY <1>3, <1>5, DigitsOfDef
  <2> HIDE DEF m, d
  <2>3. m \notin Bad
    BY <1>2, <1>3, <2>1
  <2>4. Good(m)
    BY <2>1, <2>3
  <2>5. DigitsOf[m] \in Seq(Nat)
    BY <2>4 DEF Digits
  <2>6. /\ Append(DigitsOf[m], d) \in Seq(Digits)
        /\ Len(Append(DigitsOf[m], d)) \in Nat \ {0}
    BY <2>1, <2>4
  <2>7. BigIntOf(Append(DigitsOf[m], d)) = 10 * m + d
    BY <2>1, <2>4, <2>5, BigIntAppend
  <2> QED
    BY <1>3, <2>1, <2>2, <2>6, <2>7
<1> QED
  BY <1>4, <1>5

\* What is written with `scale` decimals reads back as the same number: the
\* database, the summary and the capacity check lose nothing between them.
THEOREM FormatReadsBack ==
  ASSUME NEW value \in Nat, NEW scale \in Nat
  PROVE  /\ formatBigIntWithScale(value, scale) \in DecimalString
         /\ Len(formatBigIntWithScale(value, scale).fraction) = scale
         /\ toDigitsWithScale(formatBigIntWithScale(value, scale)) =
              [digits |-> value, scale |-> scale]
<1> DEFINE shown == DigitsOf[value]
           missing == Larger(scale + 1 - Len(shown), 0)
           padding == [i \in 1..missing |-> 0]
           digits == padding \o shown
           point == Len(digits) - scale
           whole == SubSeq(digits, 1, point)
           fraction == SubSeq(digits, point + 1, Len(digits))
<1>1. /\ shown \in Seq(Digits) /\ Len(shown) \in Nat \ {0}
      /\ BigIntOf(shown) = value
  BY DigitsReadBack
<1> HIDE DEF shown
<1>2. missing \in Nat /\ missing + Len(shown) >= scale + 1
  BY <1>1 DEF Larger
<1> HIDE DEF missing
<1>3. padding \in Seq({0}) /\ Len(padding) = missing
  BY <1>2
<1>4. padding \in Seq(Digits) /\ padding \in Seq(Nat) /\ shown \in Seq(Nat)
  BY <1>1, <1>3 DEF Digits
<1> HIDE DEF padding
<1>5. /\ digits \in Seq(Digits)
      /\ Len(digits) = missing + Len(shown)
  BY <1>1, <1>3, <1>4, ConcatProperties
<1>6. BigIntOf(digits) = value
  BY <1>1, <1>3, <1>4, BigIntPadded
<1> HIDE DEF digits
<1>7. /\ Len(digits) \in Nat /\ point \in 1..Len(digits)
      /\ Len(digits) - (point + 1) + 1 = scale
      /\ \A i \in 1..Len(digits) : digits[i] \in Digits
  BY <1>1, <1>2, <1>5
<1> HIDE DEF point
<1>8. whole \in Seq(Digits) /\ Len(whole) = point
  BY <1>7, SubSeqProperties
<1>9. fraction \in Seq(Digits) /\ Len(fraction) = scale
  <2>1. \A i \in (point+1)..Len(digits) : digits[i] \in Digits
    BY <1>7
  <2>2. /\ fraction \in Seq(Digits)
        /\ Len(fraction) = IF point + 1 <= Len(digits)
                             THEN Len(digits) - (point + 1) + 1 ELSE 0
    BY <1>7, <2>1, SubSeqProperties
  <2> QED
    BY <1>7, <2>2
<1>10. whole \o fraction = digits
  <2>1. /\ 1 \in 1..(Len(digits) + 1)
        /\ point \in (1-1)..Len(digits)
        /\ Len(digits) \in point..Len(digits)
    BY <1>7
  <2>2. whole \o fraction = SubSeq(digits, 1, Len(digits))
    BY <1>5, <2>1, ConcatAdjacentSubSeq
  <2> QED
    BY <1>5, <2>2, SubSeqFull
<1>11. formatBigIntWithScale(value, scale) = [whole |-> whole, fraction |-> fraction]
  BY DEF formatBigIntWithScale, shown, missing, padding, digits, point
<1> HIDE DEF whole, fraction
<1>12. whole # <<>>
  BY <1>7, <1>8
<1> DEFINE s == [whole |-> whole, fraction |-> fraction]
<1>13. s \in DecimalString /\ Len(s.fraction) = scale
  BY <1>8, <1>9, <1>12 DEF DecimalString
<1>14. toDigitsWithScale(s) = [digits |-> value, scale |-> scale]
  BY <1>6, <1>9, <1>10 DEF toDigitsWithScale
<1> HIDE DEF s
<1>15. formatBigIntWithScale(value, scale) = s
  BY <1>11 DEF s
<1> QED
  BY <1>13, <1>14, <1>15, Zenon

\* The number that a string stands for.
LEMMA StringReads ==
  ASSUME NEW s \in DecimalString
  PROVE  /\ toDigitsWithScale(s).digits \in Nat
         /\ toDigitsWithScale(s).scale = Len(s.fraction)
         /\ Len(s.fraction) \in Nat
<1>1. s.whole \in Seq(Nat) /\ s.fraction \in Seq(Nat)
  BY DEF DecimalString, Digits
<1>2. s.whole \o s.fraction \in Seq(Nat)
  BY <1>1
<1> QED
  BY <1>1, <1>2, BigIntType, LenProperties DEF toDigitsWithScale

-----------------------------------------------------------------------------
(* The one rounding *)

\* BigInt division of naturals: the quotient q with d*q <= n < d*(q+1).
LEMMA BigIntDivision ==
  ASSUME NEW n \in Nat, NEW d \in Nat \ {0}
  PROVE  /\ n \div d \in Nat
         /\ d * (n \div d) <= n
         /\ n < d * (n \div d) + d
OBVIOUS

\* HalfUp(value, divisor) is the integer nearest to value / divisor, and the
\* upper one of two that are equally near: scaleBigIntToString's rounding.
THEOREM HalfUpIsNearest ==
  ASSUME NEW value \in Nat, NEW half \in Nat \ {0}
  PROVE  LET q == HalfUp(value, 2 * half) IN
         /\ q \in Nat
         /\ value - half < 2 * half * q
         /\ 2 * half * q <= value + half
<1>1. 2 * half \in Nat \ {0} /\ (2 * half) \div 2 = half
  OBVIOUS
<1>2. value + half \in Nat
  OBVIOUS
<1> DEFINE q == (value + half) \div (2 * half)
<1>3. HalfUp(value, 2 * half) = q
  BY <1>1 DEF HalfUp
<1>4. /\ q \in Nat
      /\ (2 * half) * q <= value + half
      /\ value + half < (2 * half) * q + 2 * half
  BY <1>1, <1>2, BigIntDivision
<1> HIDE DEF q
<1> QED
  BY <1>3, <1>4

\* If the exact price is within the available units, so is the rounded one:
\* the order of rounding and checking in ReservationsService.create is safe.
THEOREM RoundingKeepsFit ==
  ASSUME NEW value \in Nat, NEW half \in Nat \ {0}, NEW units \in Nat,
         value <= 2 * half * units
  PROVE  HalfUp(value, 2 * half) <= units
<1> DEFINE q == HalfUp(value, 2 * half)
           fits == 2 * half * units
           rounded == 2 * half * q
<1>1. q \in Nat /\ rounded <= value + half
  BY HalfUpIsNearest
<1> SUFFICES ASSUME ~ (q <= units) PROVE FALSE
  OBVIOUS
<1> HIDE DEF q
<1>2. units + 1 <= q
  BY <1>1
<1>3. 2 * half * (units + 1) <= rounded
  <2>1. q - (units + 1) \in Nat
    BY <1>1, <1>2
  <2>2. 2 * half * (q - (units + 1)) \in Nat
    BY <2>1
  <2>3. rounded = 2 * half * (units + 1) + 2 * half * (q - (units + 1))
    BY <1>1
  <2> QED
    BY <2>2, <2>3, <1>1
<1>4. 2 * half * (units + 1) = fits + 2 * half
  OBVIOUS
<1>5. fits \in Nat /\ rounded \in Nat
  BY <1>1
<1> HIDE DEF fits, rounded
<1>6. fits + 2 * half <= fits + half
  <2>1. value <= fits
    BY DEF fits
  <2> QED
    BY <1>1, <1>3, <1>4, <1>5, <2>1
<1> QED
  BY <1>5, <1>6

\* The number scaleBigIntToString formats.
Rescaled(value, from, to) ==
  IF from <= to THEN value * Pow10[to - from]
                ELSE HalfUp(value, Pow10[from - to])

LEMMA RescaledFormat ==
  ASSUME NEW value \in Nat, NEW from \in Nat, NEW to \in Nat
  PROVE  /\ scaleBigIntToString(value, from, to) =
              formatBigIntWithScale(Rescaled(value, from, to), to)
         /\ Rescaled(value, from, to) \in Nat
         /\ from = to => Rescaled(value, from, to) = value
<1>1. scaleBigIntToString(value, from, to) =
        formatBigIntWithScale(Rescaled(value, from, to), to)
  BY DEF scaleBigIntToString, Rescaled
<1>2. CASE from <= to
  <2>1. to - from \in Nat /\ Pow10[to - from] \in Nat
    BY <1>2, Pow10Type
  <2>2. Rescaled(value, from, to) = value * Pow10[to - from]
    BY <1>2 DEF Rescaled
  <2>3. from = to => Pow10[to - from] = 1
    BY Pow10Def
  <2> QED
    BY <1>1, <2>1, <2>2, <2>3
<1>3. CASE ~ (from <= to)
  <2>1. from - to \in Nat \ {0} /\ from # to
    BY <1>3
  <2>2. PICK half \in Nat \ {0} : Pow10[from - to] = 2 * half
    BY <2>1, Pow10Even
  <2>3. Rescaled(value, from, to) = HalfUp(value, 2 * half)
    BY <1>3, <2>2 DEF Rescaled
  <2> QED
    BY <1>1, <2>1, <2>3, HalfUpIsNearest
<1> QED
  BY <1>2, <1>3

-----------------------------------------------------------------------------
(* Columns and prices *)

\* What a column of NUMERIC(19,scale) keeps of a string.
LEMMA ColumnKeeps ==
  ASSUME NEW s \in DecimalString, NEW scale \in Nat
  PROVE  /\ Numeric(s, scale) \in DecimalString
         /\ Len(Numeric(s, scale).fraction) = scale
         /\ toDigitsWithScale(Numeric(s, scale)) =
              [digits |-> Rescaled(toDigitsWithScale(s).digits, Len(s.fraction), scale),
               scale |-> scale]
<1> DEFINE digits == toDigitsWithScale(s).digits
           from == Len(s.fraction)
           u == Rescaled(digits, from, scale)
<1>1. /\ digits \in Nat /\ from \in Nat
      /\ Numeric(s, scale) = scaleBigIntToString(digits, from, scale)
  BY StringReads DEF Numeric
<1> HIDE DEF digits, from
<1>2. u \in Nat /\ Numeric(s, scale) = formatBigIntWithScale(u, scale)
  BY <1>1, RescaledFormat
<1> HIDE DEF u
<1>3. /\ Numeric(s, scale) \in DecimalString
      /\ Len(Numeric(s, scale).fraction) = scale
      /\ toDigitsWithScale(Numeric(s, scale)) = [digits |-> u, scale |-> scale]
  BY <1>2, FormatReadsBack
<1> QED
  BY <1>3 DEF u, digits, from

\* Units reads a string with four decimals as it stands, any other one after
\* the rounding of its column.
LEMMA UnitsRead ==
  ASSUME NEW s \in DecimalString
  PROVE  /\ Units(s) = Rescaled(toDigitsWithScale(s).digits, Len(s.fraction), 4)
         /\ Units(s) \in Nat
         /\ Len(s.fraction) = 4 => toDigitsWithScale(s).digits = Units(s)
         /\ Units(Numeric(s, 4)) = Units(s)
<1>1. /\ toDigitsWithScale(s).digits \in Nat /\ Len(s.fraction) \in Nat /\ 4 \in Nat
  BY StringReads
<1> DEFINE u == Rescaled(toDigitsWithScale(s).digits, Len(s.fraction), 4)
<1>2. u \in Nat /\ (Len(s.fraction) = 4 => toDigitsWithScale(s).digits = u)
  BY <1>1, RescaledFormat
<1>3. /\ Numeric(s, 4) \in DecimalString
      /\ Len(Numeric(s, 4).fraction) = 4
      /\ toDigitsWithScale(Numeric(s, 4)) = [digits |-> u, scale |-> 4]
  BY <1>1, ColumnKeeps
<1> HIDE DEF u
<1>4. Units(s) = u
  BY <1>3 DEF Units, USD_DECIMAL_SCALE
<1>5. Units(Numeric(s, 4)) = u
  <2>1. toDigitsWithScale(Numeric(Numeric(s, 4), 4)).digits = Rescaled(u, 4, 4)
    BY <1>1, <1>3, ColumnKeeps
  <2>2. Rescaled(u, 4, 4) = u
    BY <1>1, <1>2, RescaledFormat
  <2> QED
    BY <2>1, <2>2 DEF Units, USD_DECIMAL_SCALE
<1> QED
  BY <1>2, <1>4, <1>5 DEF u

\* multiplyDecimal at four decimals: the units of the exact product, rounded.
LEMMA ProductKeeps ==
  ASSUME NEW a \in DecimalString, NEW b \in DecimalString
  PROVE  /\ multiplyDecimal(a, b, 4) \in DecimalString
         /\ Len(multiplyDecimal(a, b, 4).fraction) = 4
         /\ Units(multiplyDecimal(a, b, 4)) =
              Rescaled(toDigitsWithScale(a).digits * toDigitsWithScale(b).digits,
                       Len(a.fraction) + Len(b.fraction), 4)
<1> DEFINE x == toDigitsWithScale(a)
           y == toDigitsWithScale(b)
           u == Rescaled(x.digits * y.digits, Len(a.fraction) + Len(b.fraction), 4)
<1>1. /\ x.digits \in Nat /\ y.digits \in Nat
      /\ x.scale = Len(a.fraction) /\ y.scale = Len(b.fraction)
      /\ Len(a.fraction) \in Nat /\ Len(b.fraction) \in Nat
  BY StringReads
<1>2. multiplyDecimal(a, b, 4) =
        scaleBigIntToString(x.digits * y.digits, Len(a.fraction) + Len(b.fraction), 4)
  BY <1>1 DEF multiplyDecimal
<1> HIDE DEF x, y
<1>3. /\ x.digits * y.digits \in Nat /\ 4 \in Nat
      /\ Len(a.fraction) + Len(b.fraction) \in Nat
  <2>1. \A i, j \in Nat : i * j \in Nat /\ i + j \in Nat
    OBVIOUS
  <2> QED
    BY <1>1, <2>1, Zenon
<1>4. u \in Nat /\ multiplyDecimal(a, b, 4) = formatBigIntWithScale(u, 4)
  BY <1>2, <1>3, RescaledFormat
<1> HIDE DEF u
<1>5. /\ multiplyDecimal(a, b, 4) \in DecimalString
      /\ Len(multiplyDecimal(a, b, 4).fraction) = 4
      /\ toDigitsWithScale(multiplyDecimal(a, b, 4)) = [digits |-> u, scale |-> 4]
  BY <1>3, <1>4, FormatReadsBack
<1>6. Units(multiplyDecimal(a, b, 4)) = u
  BY <1>5, UnitsRead
<1> QED
  BY <1>5, <1>6 DEF u, x, y

\* scaleBigIntToString rounds a product to the unit NearestUnits defines.
LEMMA RescaledIsNearest ==
  ASSUME NEW value \in Nat, NEW from \in Nat
  PROVE  LET n == value * Pow10[Larger(4 - from, 0)]
             d == Pow10[Larger(from - 4, 0)]
             Nearest(u) == 2 * n - d < 2 * u * d /\ 2 * u * d <= 2 * n + d
         IN (CHOOSE u \in (n \div d)..(n \div d + 1) : Nearest(u)) =
              Rescaled(value, from, 4)
<1> DEFINE n == value * Pow10[Larger(4 - from, 0)]
           d == Pow10[Larger(from - 4, 0)]
           Nearest(u) == 2 * n - d < 2 * u * d /\ 2 * u * d <= 2 * n + d
           r == Rescaled(value, from, 4)
<1>1. n \in Nat /\ d \in Nat \ {0}
  <2>1. Larger(4 - from, 0) \in Nat /\ Larger(from - 4, 0) \in Nat
    BY DEF Larger
  <2>2. Pow10[Larger(4 - from, 0)] \in Nat
    BY <2>1, Pow10Type
  <2> QED
    BY <2>1, <2>2, Pow10Type
<1>2. r \in (n \div d)..(n \div d + 1) /\ Nearest(r)
  <2>1. CASE from <= 4
    <3>1. Larger(4 - from, 0) = 4 - from /\ Larger(from - 4, 0) = 0
      BY <2>1 DEF Larger
    <3>2. d = 1 /\ r = n
      BY <2>1, <3>1, Pow10Def DEF Rescaled
    <3> HIDE DEF n, d, r
    <3>3. n \div 1 = n
      BY <1>1
    <3> QED
      BY <1>1, <3>2, <3>3
  <2>2. CASE ~ (from <= 4)
    <3>1. Larger(4 - from, 0) = 0 /\ Larger(from - 4, 0) = from - 4
          /\ from - 4 \in Nat \ {0}
      BY <2>2 DEF Larger
    <3>2. PICK half \in Nat \ {0} : d = 2 * half
      BY <3>1, Pow10Even
    <3>3. n = value
      BY <3>1, Pow10Def
    <3>4. r = HalfUp(n, 2 * half)
      BY <2>2, <3>1, <3>2, <3>3 DEF Rescaled
    <3> HIDE DEF n, d, r
    <3>5. r \in Nat /\ n - half < 2 * half * r /\ 2 * half * r <= n + half
      BY <1>1, <3>4, HalfUpIsNearest
    <3> DEFINE q == n \div d
               dr == half * r
    <3>6. q \in Nat /\ d * q <= n /\ n < d * q + d
      BY <1>1, BigIntDivision
    <3>7. 2 * half * r = 2 * dr /\ dr \in Nat /\ 2 * r * d = 4 * dr
      BY <3>2, <3>5
    <3>8. Nearest(r)
      <4> HIDE DEF dr
      <4> QED
        BY <1>1, <3>2, <3>5, <3>7
    <3>9. q <= r
      <4>1. SUFFICES ASSUME r + 1 <= q PROVE FALSE
        BY <3>5, <3>6
      <4> HIDE DEF q
      <4>2. d * q = d * (r + 1) + d * (q - (r + 1)) /\ d * (q - (r + 1)) \in Nat
        BY <1>1, <3>5, <3>6, <4>1
      <4>3. d * (r + 1) = 2 * dr + 2 * half /\ d * (r + 1) \in Nat
        BY <3>2, <3>5
      <4> HIDE DEF dr
      <4> QED
        BY <1>1, <3>5, <3>6, <3>7, <4>2, <4>3
    <3>10. r <= q + 1
      <4>1. SUFFICES ASSUME q + 2 <= r PROVE FALSE
        BY <3>5, <3>6
      <4> HIDE DEF q
      <4>2. 2 * dr = d * (q + 2) + d * (r - (q + 2)) /\ d * (r - (q + 2)) \in Nat
        BY <3>2, <3>5, <3>6, <4>1
      <4>3. d * (q + 2) = d * q + 2 * d /\ d * q \in Nat
        BY <1>1, <3>6
      <4> HIDE DEF dr
      <4> QED
        BY <1>1, <3>2, <3>5, <3>6, <3>7, <4>2, <4>3
    <3> QED
      BY <3>5, <3>6, <3>8, <3>9, <3>10
  <2> QED
    BY <2>1, <2>2
<1>3. ASSUME NEW u \in (n \div d)..(n \div d + 1), Nearest(u)
      PROVE  u = r
  <2>1. u \in Int /\ r \in Int
    BY <1>1, <1>2
  <2> HIDE DEF n, d, r
  <2>2. ASSUME NEW a \in Int, NEW b \in Int, Nearest(a), Nearest(b) PROVE ~ (a + 1 <= b)
    <3>1. SUFFICES ASSUME a + 1 <= b PROVE FALSE
      OBVIOUS
    <3>2. 2 * b * d = 2 * a * d + 2 * d + 2 * ((b - (a + 1)) * d)
      BY <1>1
    <3>3. (b - (a + 1)) * d \in Nat
      BY <1>1, <3>1
    <3>4. 2 * a * d \in Int
      BY <1>1
    <3> QED
      BY <1>1, <2>2, <3>2, <3>3, <3>4
  <2> QED
    BY <1>2, <1>3, <2>1, <2>2
<1> HIDE DEF n, d, r
<1>4. (CHOOSE u \in (n \div d)..(n \div d + 1) : Nearest(u)) = r
  BY <1>2, <1>3
<1> QED
  BY <1>4 DEF n, d, r

\* A rate reads as a number of its own scale, the rate '1' of USD included.
LEMMA PriceReads ==
  ASSUME NEW p \in Prices
  PROVE  /\ p.usd \in BOOLEAN
         /\ p.rate \in DecimalString
         /\ p.usd => /\ toDigitsWithScale(p.rate).digits = 1
                     /\ Len(p.rate.fraction) = 0
<1>1. CASE p = Usd
  <2>1. /\ p.usd = TRUE /\ p.rate.whole = <<1>> /\ p.rate.fraction = <<>>
        /\ p.rate = [whole |-> <<1>>, fraction |-> <<>>]
    BY <1>1 DEF Usd
  <2>2. /\ 1 \in Digits /\ <<1>> \in Seq(Digits) /\ <<>> \in Seq(Digits)
        /\ <<1>> # <<>> /\ Len(<<>>) = 0 /\ <<1>> \o <<>> = <<1>>
    BY DEF Digits
  <2>3. p.rate \in DecimalString
    BY <2>1, <2>2 DEF DecimalString
  <2>4. toDigitsWithScale(p.rate).digits = 1
    BY <2>1, <2>2, BigIntOfOne DEF toDigitsWithScale
  <2> QED
    BY <2>1, <2>2, <2>3, <2>4
<1>2. CASE p # Usd
  <2>1. PICK r \in Responses : p.usd = FALSE /\ p.rate = formatBigIntWithScale(r.digits, r.scale)
    BY <1>2 DEF Prices, Rates
  <2>2. r.digits \in Nat /\ r.scale \in Nat
    BY MoneyAssumption
  <2>3. p.rate \in DecimalString
    BY <2>1, <2>2, FormatReadsBack
  <2> QED
    BY <2>1, <2>3
<1> QED
  BY <1>1, <1>2

\* convertToUsd prices an amount to the nearest unit, whatever its decimals.
LEMMA ConversionIsNearest ==
  ASSUME NEW amount \in DecimalString, NEW p \in Prices
  PROVE  /\ convertToUsd(amount, p).converted \in DecimalString
         /\ Len(amount.fraction) = 4 => Len(convertToUsd(amount, p).converted.fraction) = 4
         /\ Units(convertToUsd(amount, p).converted) = NearestUnits(amount, p)
<1> DEFINE x == toDigitsWithScale(amount)
           y == toDigitsWithScale(p.rate)
           c == convertToUsd(amount, p).converted
<1>1. /\ x.digits \in Nat /\ x.scale = Len(amount.fraction) /\ Len(amount.fraction) \in Nat
      /\ y.digits \in Nat /\ y.scale = Len(p.rate.fraction) /\ Len(p.rate.fraction) \in Nat
  BY PriceReads, StringReads
<1> HIDE DEF x, y
<1>2. x.digits * y.digits \in Nat /\ Len(amount.fraction) + Len(p.rate.fraction) \in Nat
  <2>1. \A i, j \in Nat : i * j \in Nat /\ i + j \in Nat
    OBVIOUS
  <2> QED
    BY <1>1, <2>1, Zenon
<1>3. NearestUnits(amount, p) =
        Rescaled(x.digits * y.digits, Len(amount.fraction) + Len(p.rate.fraction), 4)
  <2> DEFINE value == x.digits * y.digits
             from == Len(amount.fraction) + Len(p.rate.fraction)
  <2>1. value \in Nat /\ from \in Nat
    BY <1>2
  <2>2. x.scale + y.scale = from
    BY <1>1
  <2> HIDE DEF value, from
  <2>3. NearestUnits(amount, p) =
          CHOOSE u \in ((value * Pow10[Larger(4 - from, 0)]) \div Pow10[Larger(from - 4, 0)])..
                       ((value * Pow10[Larger(4 - from, 0)]) \div Pow10[Larger(from - 4, 0)] + 1) :
            /\ 2 * (value * Pow10[Larger(4 - from, 0)]) - Pow10[Larger(from - 4, 0)]
                 < 2 * u * Pow10[Larger(from - 4, 0)]
            /\ 2 * u * Pow10[Larger(from - 4, 0)]
                 <= 2 * (value * Pow10[Larger(4 - from, 0)]) + Pow10[Larger(from - 4, 0)]
    BY <2>2 DEF NearestUnits, USD_DECIMAL_SCALE, x, y, value
  <2>4. NearestUnits(amount, p) = Rescaled(value, from, 4)
    BY <2>1, <2>3, RescaledIsNearest
  <2> QED
    BY <2>4 DEF value, from
<1>4. CASE p.usd
  <2>1. c = amount
    BY <1>4 DEF convertToUsd
  <2>2. y.digits = 1 /\ Len(p.rate.fraction) = 0
    BY <1>4, PriceReads DEF y
  <2>3. x.digits * y.digits = x.digits
        /\ Len(amount.fraction) + Len(p.rate.fraction) = Len(amount.fraction)
    BY <1>1, <2>2
  <2>4. Units(amount) = Rescaled(x.digits, Len(amount.fraction), 4)
    BY UnitsRead DEF x
  <2> QED
    BY <1>3, <2>1, <2>3, <2>4
<1>5. CASE ~ p.usd
  <2>1. c = multiplyDecimal(amount, p.rate, 4)
    BY <1>5 DEF convertToUsd, USD_DECIMAL_SCALE
  <2>2. p.rate \in DecimalString
    BY PriceReads
  <2> HIDE DEF c
  <2>3. /\ c \in DecimalString /\ Len(c.fraction) = 4
        /\ Units(c) = Rescaled(x.digits * y.digits,
                               Len(amount.fraction) + Len(p.rate.fraction), 4)
    BY <2>1, <2>2, ProductKeeps, Zenon DEF x, y
  <2> QED
    BY <1>3, <2>3 DEF c
<1> QED
  BY <1>4, <1>5

-----------------------------------------------------------------------------
(* The inductive invariant *)

Money == {s \in DecimalString : Len(s.fraction) = USD_DECIMAL_SCALE}

Rows == [original: Money, usd: BOOLEAN, converted: Money,
         rate: {s \in DecimalString : Len(s.fraction) = RATE_SCALE}]

\* The columns hold what columns can hold, and an open invoice is what was
\* made of the amount and the rate it was created with.
MoneyInv ==
  /\ total \in Money
  /\ answer \in Answers
  /\ rows \in Seq(Rows)
  /\ Len(rows) <= MaxRows
  /\ invoice = NoInvoice \/
       /\ invoice.sent \in DecimalString
       /\ invoice.price \in Prices
       /\ invoice.row = Stored(convertToUsd(invoice.sent, invoice.price))

LEMMA NumericIsMoney ==
  ASSUME NEW s \in DecimalString
  PROVE  Numeric(s, USD_DECIMAL_SCALE) \in Money
BY ColumnKeeps DEF Money, USD_DECIMAL_SCALE

\* What a conversion leaves in a row.
LEMMA StoredIsRow ==
  ASSUME NEW amount \in DecimalString, NEW p \in Prices
  PROVE  /\ Stored(convertToUsd(amount, p)) \in Rows
         /\ Stored(convertToUsd(amount, p)).original = Numeric(amount, USD_DECIMAL_SCALE)
         /\ Units(Stored(convertToUsd(amount, p)).converted) = NearestUnits(amount, p)
<1> DEFINE c == convertToUsd(amount, p)
<1>1. /\ c.original = amount /\ c.usd = p.usd /\ c.rate = p.rate
      /\ c.converted \in DecimalString
      /\ Units(c.converted) = NearestUnits(amount, p)
  BY ConversionIsNearest DEF convertToUsd
<1> HIDE DEF c
<1>2. /\ Numeric(amount, USD_DECIMAL_SCALE) \in Money
      /\ Numeric(c.converted, USD_DECIMAL_SCALE) \in Money
      /\ Numeric(p.rate, RATE_SCALE) \in {s \in DecimalString : Len(s.fraction) = RATE_SCALE}
      /\ p.usd \in BOOLEAN
  BY <1>1, NumericIsMoney, PriceReads, ColumnKeeps DEF RATE_SCALE
<1>3. Units(Numeric(c.converted, USD_DECIMAL_SCALE)) = NearestUnits(amount, p)
  BY <1>1, UnitsRead DEF USD_DECIMAL_SCALE
<1>4. Stored(c) = [original |-> Numeric(amount, USD_DECIMAL_SCALE), usd |-> p.usd,
                   converted |-> Numeric(c.converted, USD_DECIMAL_SCALE),
                   rate |-> Numeric(p.rate, RATE_SCALE)]
  BY <1>1 DEF Stored
<1>5. Stored(c) \in Rows
  BY <1>2, <1>4 DEF Rows
<1> QED
  BY <1>3, <1>4, <1>5 DEF c

\* Every step keeps the invariant.
LEMMA MoneyNext ==
  ASSUME MoneyInv, [Next]_vars
  PROVE  MoneyInv'
<1> USE DEF MoneyInv
<1>1. ASSUME NEW t \in Totals, ApplySnapshot(t) PROVE MoneyInv'
  <2>1. Numeric(t, USD_DECIMAL_SCALE) \in Money
    BY NumericIsMoney, MoneyAssumption
  <2> QED
    BY <1>1, <2>1 DEF ApplySnapshot
<1>2. ASSUME NEW a \in Amounts, NEW p \in Prices, CreateInvoice(a, p) PROVE MoneyInv'
  <2>1. a \in DecimalString
    BY MoneyAssumption
  <2>2. /\ invoice'.sent = a /\ invoice'.price = p
        /\ invoice'.row = Stored(convertToUsd(a, p))
        /\ UNCHANGED <<total, rows, answer>>
    BY <1>2 DEF CreateInvoice
  <2> QED
    BY <2>1, <2>2
<1>3. ASSUME NEW p \in Prices, Reserve(p) PROVE MoneyInv'
  <2>1. total' = total /\ answer' \in Answers
    BY <1>3 DEF Reserve, Answers
  <2>2. CASE UNCHANGED <<invoice, rows>>
    BY <2>1, <2>2
  <2>3. CASE ~ UNCHANGED <<invoice, rows>>
    <3>1. /\ invoice # NoInvoice /\ Len(rows) < MaxRows
          /\ rows' = Append(rows, Stored(convertToUsd(invoice.row.original, p)))
          /\ invoice' = NoInvoice
      BY <1>3, <2>3 DEF Reserve
    <3>2. invoice.row.original \in DecimalString
      BY <3>1, StoredIsRow, NumericIsMoney DEF Money
    <3>3. Stored(convertToUsd(invoice.row.original, p)) \in Rows
      BY <3>2, StoredIsRow
    <3>4. rows' \in Seq(Rows) /\ Len(rows') = Len(rows) + 1
      BY <3>1, <3>3
    <3>5. Len(rows') <= MaxRows
      BY <3>1, <3>4, MoneyAssumption
    <3> QED
      BY <2>1, <3>1, <3>4, <3>5
  <2> QED
    BY <2>2, <2>3
<1>4. ASSUME NEW k \in 1..Len(rows), Release(k) PROVE MoneyInv'
  <2> DEFINE before == SubSeq(rows, 1, k - 1)
             after == SubSeq(rows, k + 1, Len(rows))
  <2>1. Len(rows) \in Nat /\ \A i \in 1..Len(rows) : rows[i] \in Rows
    OBVIOUS
  <2>2. before \in Seq(Rows) /\ Len(before) = k - 1
    BY <2>1, SubSeqProperties
  <2>3. after \in Seq(Rows) /\ Len(after) = Len(rows) - k
    BY <2>1, SubSeqProperties
  <2> HIDE DEF before, after
  <2>4. before \o after \in Seq(Rows) /\ Len(before \o after) = Len(rows) - 1
    BY <2>1, <2>2, <2>3, ConcatProperties
  <2>5. rows' = before \o after /\ UNCHANGED <<total, invoice, answer>>
    BY <1>4 DEF Release, RemoveAt, before, after
  <2>6. Len(rows') <= MaxRows
    BY <2>1, <2>4, <2>5, MoneyAssumption
  <2> QED
    BY <2>4, <2>5, <2>6
<1>5. CASE UNCHANGED vars
  BY <1>5 DEF vars
<1> QED
  BY <1>1, <1>2, <1>3, <1>4, <1>5 DEF Next

LEMMA MoneyInit == Init => MoneyInv
<1> SUFFICES ASSUME Init PROVE MoneyInv
  OBVIOUS
<1>1. total \in Money
  BY NumericIsMoney, MoneyAssumption DEF Init
<1>2. rows \in Seq(Rows) /\ Len(rows) <= MaxRows
  BY MoneyAssumption DEF Init
<1> QED
  BY <1>1, <1>2 DEF Init, MoneyInv, Answers

\* The inductive invariant holds in every behaviour.
THEOREM MoneyInvariant == Spec => []MoneyInv
  BY MoneyInit, MoneyNext, PTL DEF Spec

-----------------------------------------------------------------------------
(* The capacity check in units *)

\* The sum of the ACTIVE rows, and what an inserted row adds to it.
LEMMA SumUnitsType ==
  ASSUME NEW s \in Seq(Rows)
  PROVE  SumUnits(s) \in Nat
<1> DEFINE f == [k \in 1..Len(s) |-> Units(s[k].converted)]
<1>1. Len(s) \in Nat
  OBVIOUS
<1>2. ASSUME NEW k \in 1..Len(s) PROVE Units(s[k].converted) \in Nat
  <2>1. s[k] \in Rows
    OBVIOUS
  <2>2. s[k].converted \in DecimalString
    BY <2>1 DEF Rows, Money
  <2> QED
    BY <2>2, UnitsRead
<1>3. f \in [1..Len(s) -> Nat]
  BY <1>2
<1> HIDE DEF f
<1> QED
  BY <1>1, <1>3, SumRowsType DEF SumUnits, f

LEMMA SumUnitsAppend ==
  ASSUME NEW s \in Seq(Rows), NEW row \in Rows
  PROVE  SumUnits(Append(s, row)) = SumUnits(s) + Units(row.converted)
<1> DEFINE n == Len(s)
           t == Append(s, row)
           f == [k \in 1..n |-> Units(s[k].converted)]
           g == [k \in 1..(n+1) |-> Units(t[k].converted)]
<1>1. /\ n \in Nat /\ Len(t) = n + 1 /\ t \in Seq(Rows) /\ t[n+1] = row
      /\ \A k \in 1..n : t[k] = s[k]
      /\ \A k \in 1..(n+1) : t[k] \in Rows
      /\ n + 1 \in 1..(n+1)
  BY AppendProperties
<1> HIDE DEF n, t
<1>2. ASSUME NEW k \in 1..(n+1) PROVE Units(t[k].converted) \in Nat
  <2>1. t[k].converted \in DecimalString
    BY <1>1 DEF Rows, Money
  <2> QED
    BY <2>1, UnitsRead
<1>3. g \in [1..(n+1) -> Nat]
  BY <1>2
<1>4. ASSUME NEW k \in 1..n PROVE f[k] \in Nat /\ g[k] = f[k]
  <2>1. k \in 1..(n+1) /\ t[k] = s[k]
    BY <1>1
  <2> QED
    BY <1>2, <2>1
<1>5. f \in [1..n -> Nat]
  BY <1>4
<1>6. g[n+1] = Units(row.converted)
  BY <1>1
<1> HIDE DEF f, g
<1>7. SumRows(g, n + 1) = SumRows(f, n) + g[n+1]
  BY <1>1, <1>3, <1>4, <1>5, SumRowsExtend
<1>8. SumUnits(t) = SumRows(g, n + 1) /\ SumUnits(s) = SumRows(f, n)
  BY <1>1 DEF SumUnits, f, g, n
<1> QED
  BY <1>6, <1>7, <1>8 DEF t

\* COALESCE's zero and SUM's string are money that reads as the sum.
LEMMA SumIsMoney ==
  ASSUME rows \in Seq(Rows)
  PROVE  /\ sumActiveByProgram \in Money
         /\ Units(sumActiveByProgram) = SumUnits(rows)
<1>1. CASE rows = <<>>
  <2> DEFINE zero == ZERO_AT_USD_SCALE
             zeros == zero.whole \o zero.fraction
  <2>1. /\ zero.whole \in Seq({0}) /\ zero.whole # <<>>
        /\ zero.fraction \in Seq({0}) /\ Len(zero.fraction) = 4
        /\ zero = [whole |-> zero.whole, fraction |-> zero.fraction]
    BY DEF ZERO_AT_USD_SCALE, USD_DECIMAL_SCALE
  <2> HIDE DEF zero
  <2>2. zero.whole \in Seq(Digits) /\ zero.fraction \in Seq(Digits)
    BY <2>1 DEF Digits
  <2>3. zero \in Money
    BY <2>1, <2>2 DEF Money, DecimalString, USD_DECIMAL_SCALE
  <2>4. BigIntOf(zeros) = 0
    <3>1. zeros \in Seq({0}) /\ <<>> \in Seq(Nat) /\ Len(<<>>) = 0
      BY <2>1
    <3>2. zeros \o <<>> = zeros
      BY <3>1, ConcatEmptySeq
    <3>3. Reading(<<>>)[0] = 0
      <4>1. 0 \in 0..Len(<<>>)
        BY <3>1
      <4> QED
        BY <3>1, <4>1, ReadingDef
    <3> QED
      BY <3>1, <3>2, <3>3, BigIntPadded, BigIntIsReading
  <2>5. Units(zero) = 0
    BY <2>1, <2>3, <2>4, UnitsRead DEF Money, toDigitsWithScale
  <2>6. SumUnits(rows) = 0
    <3>1. Len(rows) = 0 /\ 0 \in Nat /\ 0 \in 0..0
      BY <1>1
    <3> QED
      BY <3>1, RunningTotalDef DEF SumUnits, SumRows
  <2> QED
    BY <1>1, <2>3, <2>5, <2>6 DEF sumActiveByProgram, zero
<1>2. CASE rows # <<>>
  <2>1. sumActiveByProgram = formatBigIntWithScale(SumUnits(rows), 4)
    BY <1>2 DEF sumActiveByProgram, USD_DECIMAL_SCALE
  <2>2. SumUnits(rows) \in Nat
    BY SumUnitsType
  <2> HIDE DEF sumActiveByProgram
  <2>3. /\ sumActiveByProgram \in DecimalString
        /\ Len(sumActiveByProgram.fraction) = 4
        /\ toDigitsWithScale(sumActiveByProgram) = [digits |-> SumUnits(rows), scale |-> 4]
    BY <2>1, <2>2, FormatReadsBack
  <2>4. Units(sumActiveByProgram) = SumUnits(rows)
    BY <2>3, UnitsRead
  <2> QED
    BY <2>3, <2>4 DEF Money, USD_DECIMAL_SCALE
<1> QED
  BY <1>1, <1>2

\* On money, subtractDecimal and compareDecimalStrings are those of the units.
LEMMA MoneyIsUnits ==
  ASSUME NEW a \in Money, NEW b \in Money
  PROVE  /\ Units(a) \in Nat /\ Units(b) \in Nat
         /\ subtractDecimal(a, b, USD_DECIMAL_SCALE) =
              IF Units(a) < Units(b) THEN RangeError
                ELSE formatBigIntWithScale(Units(a) - Units(b), 4)
         /\ compareDecimalStrings(a, b) > 0 <=> Units(a) > Units(b)
<1> DEFINE x == toDigitsWithScale(a)
           y == toDigitsWithScale(b)
           i == Units(a)
           j == Units(b)
<1>1. /\ i \in Nat /\ j \in Nat
      /\ x.digits = i /\ x.scale = 4 /\ y.digits = j /\ y.scale = 4
  BY UnitsRead, StringReads DEF Money, USD_DECIMAL_SCALE
<1>2. Larger(4, 4) = 4 /\ 4 - 4 = 0 /\ Pow10[0] = 1
  BY Pow10Def DEF Larger
<1> HIDE DEF i, j, x, y
<1>3. Aligned(x, 4) = i /\ Aligned(y, 4) = j
  BY <1>1, <1>2 DEF Aligned
<1>4. subtractDecimal(a, b, USD_DECIMAL_SCALE) =
        IF i - j < 0 THEN RangeError ELSE scaleBigIntToString(i - j, 4, 4)
  BY <1>1, <1>2, <1>3 DEF subtractDecimal, USD_DECIMAL_SCALE, x, y
<1>5. ASSUME ~ (i < j)
      PROVE  scaleBigIntToString(i - j, 4, 4) = formatBigIntWithScale(i - j, 4)
  <2> DEFINE difference == i - j
  <2>1. difference \in Nat /\ 4 \in Nat
    BY <1>1, <1>5
  <2> HIDE DEF difference
  <2>2. scaleBigIntToString(difference, 4, 4) = formatBigIntWithScale(difference, 4)
    BY <2>1, RescaledFormat
  <2> QED
    BY <2>2 DEF difference
<1>6. subtractDecimal(a, b, USD_DECIMAL_SCALE) =
        IF i < j THEN RangeError ELSE formatBigIntWithScale(i - j, 4)
  BY <1>1, <1>4, <1>5
<1>7. compareDecimalStrings(a, b) = IF i < j THEN -1 ELSE IF i > j THEN 1 ELSE 0
  BY <1>1, <1>2, <1>3 DEF compareDecimalStrings, x, y
<1>8. compareDecimalStrings(a, b) > 0 <=> i > j
  BY <1>1, <1>7
<1> QED
  BY <1>1, <1>6, <1>8 DEF i, j

\* What is available, in units.
LEMMA AvailableInUnits ==
  ASSUME MoneyInv
  PROVE  /\ Units(total) \in Nat /\ SumUnits(rows) \in Nat
         /\ SumUnits(rows) > Units(total) => Available = RangeError
         /\ SumUnits(rows) <= Units(total) =>
              /\ Available \in Money
              /\ Available # RangeError
              /\ Units(Available) = Units(total) - SumUnits(rows)
<1>1. /\ total \in Money /\ sumActiveByProgram \in Money
      /\ Units(sumActiveByProgram) = SumUnits(rows)
  BY SumIsMoney DEF MoneyInv
<1>2. Units(total) \in Nat /\ SumUnits(rows) \in Nat
  BY <1>1, MoneyIsUnits
<1>3. Available = IF Units(total) < SumUnits(rows) THEN RangeError
                  ELSE formatBigIntWithScale(Units(total) - SumUnits(rows), 4)
  BY <1>1, MoneyIsUnits DEF Available
<1>4. ASSUME SumUnits(rows) <= Units(total)
      PROVE  /\ Available \in Money
             /\ Available # RangeError
             /\ Units(Available) = Units(total) - SumUnits(rows)
  <2> DEFINE left == Units(total) - SumUnits(rows)
  <2>1. left \in Nat /\ Available = formatBigIntWithScale(left, 4)
    BY <1>2, <1>3, <1>4
  <2> HIDE DEF left
  <2>2. /\ Available \in DecimalString
        /\ Len(Available.fraction) = 4
        /\ toDigitsWithScale(Available) = [digits |-> left, scale |-> 4]
    BY <2>1, FormatReadsBack
  <2>3. Units(Available) = left
    BY <2>2, UnitsRead
  <2>4. Available # RangeError
    BY <2>2 DEF DecimalString, RangeError
  <2> QED
    BY <2>2, <2>3, <2>4 DEF Money, USD_DECIMAL_SCALE, left
<1> QED
  BY <1>2, <1>3, <1>4

-----------------------------------------------------------------------------
(* Theorems *)

\* Totals, answers and reservation rows keep their types and their decimals.
THEOREM MoneyTypes == Spec => []MoneyTypeOK
<1>1. ASSUME MoneyInv PROVE MoneyTypeOK
  <2>1. \A s \in Money : IsUsd(s)
    BY DEF Money, IsUsd, DecimalString
  <2>2. ASSUME NEW k \in 1..Len(rows)
        PROVE  /\ IsUsd(rows[k].original) /\ IsUsd(rows[k].converted)
               /\ Len(rows[k].rate.fraction) = RATE_SCALE
    <3>1. rows[k] \in Rows
      BY <1>1 DEF MoneyInv
    <3> QED
      BY <2>1, <3>1 DEF Rows
  <2> QED
    BY <1>1, <2>1, <2>2 DEF MoneyInv, MoneyTypeOK
<1>2. QED
  BY <1>1, MoneyInvariant, PTL

\* A stored invoice holds the nearest unit of what was sent at its rate.
THEOREM InvoicesPricedOnce == Spec => []InvoicePricedToNearestUnit
<1>1. MoneyInv => InvoicePricedToNearestUnit
  BY StoredIsRow DEF MoneyInv, InvoicePricedToNearestUnit
<1>2. QED
  BY <1>1, MoneyInvariant, PTL

\* A summary shows exactly the total less the reserved sum, and fails only
\* when that would be negative.
THEOREM SummaryExact == Spec => []AvailableShownExactly
<1>1. ASSUME MoneyInv PROVE AvailableShownExactly
  <2>1. \A s \in Money : IsUsd(s)
    BY DEF Money, IsUsd, DecimalString
  <2>2. Units(total) \in Nat /\ SumUnits(rows) \in Nat
    BY <1>1, AvailableInUnits
  <2>3. CASE SumUnits(rows) > Units(total)
    BY <1>1, <2>3, AvailableInUnits DEF AvailableShownExactly
  <2>4. CASE ~ (SumUnits(rows) > Units(total))
    <3>1. SumUnits(rows) <= Units(total)
      BY <2>2, <2>4
    <3> QED
      BY <1>1, <2>1, <2>4, <3>1, AvailableInUnits DEF AvailableShownExactly
  <2> QED
    BY <2>3, <2>4
<1>2. QED
  BY <1>1, MoneyInvariant, PTL

\* compareDecimalStrings puts an amount above the total exactly when
\* subtractDecimal throws for it, with whatever decimals it is written.
THEOREM ComparisonAgreesWithSubtraction == Spec => []ComparisonMatchesSubtraction
<1>1. ASSUME MoneyInv, NEW a \in Amounts
      PROVE  compareDecimalStrings(total, a) < 0 <=>
               subtractDecimal(total, a, USD_DECIMAL_SCALE) = RangeError
  <2> DEFINE x == toDigitsWithScale(total)
             y == toDigitsWithScale(a)
             common == Larger(4, y.scale)
             i == Aligned(x, common)
             j == Aligned(y, common)
  <2>1. /\ x.digits \in Nat /\ x.scale = 4
        /\ y.digits \in Nat /\ y.scale \in Nat
    BY <1>1, StringReads, MoneyAssumption DEF MoneyInv, Money, USD_DECIMAL_SCALE
  <2>2. /\ Larger(x.scale, y.scale) = common
        /\ Larger(Larger(x.scale, y.scale), 4) = common
        /\ common \in Nat /\ common - x.scale \in Nat /\ common - y.scale \in Nat
    BY <2>1 DEF Larger
  <2> HIDE DEF x, y, common
  <2>3. i \in Nat /\ j \in Nat
    BY <2>1, <2>2, Pow10Type DEF Aligned
  <2>4. compareDecimalStrings(total, a) = IF i < j THEN -1 ELSE IF i > j THEN 1 ELSE 0
    BY <2>2, <2>3 DEF compareDecimalStrings, x, y
  <2>5. subtractDecimal(total, a, USD_DECIMAL_SCALE) =
          IF i - j < 0 THEN RangeError ELSE scaleBigIntToString(i - j, common, 4)
    BY <2>2 DEF subtractDecimal, USD_DECIMAL_SCALE, x, y
  <2> HIDE DEF i, j
  <2>6. ASSUME ~ (i < j) PROVE scaleBigIntToString(i - j, common, 4) # RangeError
    <3>1. i - j \in Nat /\ 4 \in Nat
      BY <2>3, <2>6
    <3> DEFINE difference == i - j
               u == Rescaled(difference, common, 4)
    <3> HIDE DEF difference
    <3>2. /\ u \in Nat
          /\ scaleBigIntToString(difference, common, 4) = formatBigIntWithScale(u, 4)
      BY <2>2, <3>1, RescaledFormat DEF difference
    <3> HIDE DEF u
    <3>3. formatBigIntWithScale(u, 4) \in DecimalString
      BY <3>1, <3>2, FormatReadsBack
    <3> QED
      BY <3>2, <3>3 DEF DecimalString, RangeError, difference
  <2> QED
    BY <2>3, <2>4, <2>5, <2>6
<1>2. MoneyInv => ComparisonMatchesSubtraction
  BY <1>1 DEF ComparisonMatchesSubtraction
<1>3. QED
  BY <1>2, MoneyInvariant, PTL

\* A reservation is refused if and only if the units do not fit, and an
\* accepted one adds exactly its nearest price to the reserved sum.
THEOREM StringsDecideAsUnits == Spec => DecidesInUnits
<1>1. ASSUME MoneyInv, NEW p \in Prices, Reserve(p)
      PROVE  LET price == NearestUnits(invoice.row.original, p)
                 reserved == SumUnits(rows)
             IN
             /\ answer' = IF reserved > Units(total) THEN "CapacityUnderflow"
                          ELSE IF reserved + price > Units(total)
                                 THEN "InsufficientCapacity" ELSE "Created"
             /\ SumUnits(rows') = IF answer' = "Created" THEN reserved + price
                                                         ELSE reserved
  <2> DEFINE original == invoice.row.original
             conversion == convertToUsd(original, p)
             price == NearestUnits(original, p)
             reserved == SumUnits(rows)
             units == Units(total)
             exceeds == compareDecimalStrings(conversion.converted, Available) > 0
  <2>1. original \in Money /\ original \in DecimalString /\ Len(original.fraction) = 4
    <3>1. invoice # NoInvoice
      BY <1>1 DEF Reserve
    <3>2. original \in Money
      BY <1>1, <3>1, StoredIsRow, NumericIsMoney DEF MoneyInv
    <3> QED
      BY <3>2 DEF Money, USD_DECIMAL_SCALE
  <2>2. \/ /\ Available = RangeError /\ answer' = "CapacityUnderflow"
           /\ rows' = rows
        \/ /\ Available # RangeError /\ exceeds /\ answer' = "InsufficientCapacity"
           /\ rows' = rows
        \/ /\ Available # RangeError /\ ~ exceeds /\ answer' = "Created"
           /\ rows' = Append(rows, Stored(conversion))
    BY <1>1 DEF Reserve
  <2> HIDE DEF original
  <2>3. conversion.converted \in Money /\ Units(conversion.converted) = price
    BY <2>1, ConversionIsNearest DEF Money, USD_DECIMAL_SCALE
  <2>4. SumUnits(Append(rows, Stored(conversion))) = reserved + price
    BY <1>1, <2>1, StoredIsRow, SumUnitsAppend DEF MoneyInv
  <2>5. price \in Nat
    BY <2>3, MoneyIsUnits
  <2>6. /\ units \in Nat /\ reserved \in Nat
        /\ reserved > units => Available = RangeError
        /\ reserved <= units => /\ Available # RangeError
                                /\ exceeds <=> price > units - reserved
    BY <1>1, <2>3, AvailableInUnits, MoneyIsUnits
  <2> HIDE DEF price, reserved, units, exceeds, conversion
  <2>7. CASE reserved > units
    BY <2>2, <2>6, <2>7 DEF price, reserved, units, original
  <2>8. CASE reserved <= units
    <3>1. exceeds <=> reserved + price > units
      BY <2>5, <2>6, <2>8
    <3>2. ~ (reserved > units) /\ Available # RangeError
      BY <2>6, <2>8
    <3>3. CASE exceeds
      BY <2>2, <3>1, <3>2, <3>3 DEF price, reserved, units, original
    <3>4. CASE ~ exceeds
      BY <2>2, <2>4, <3>1, <3>2, <3>4 DEF price, reserved, units, original
    <3> QED
      BY <3>3, <3>4
  <2> QED
    BY <2>6, <2>7, <2>8
<1>2. MoneyInv /\ [Next]_vars => [\A p \in Prices : Reserve(p) =>
       LET price == NearestUnits(invoice.row.original, p)
           reserved == SumUnits(rows)
       IN
       /\ answer' = IF reserved > Units(total) THEN "CapacityUnderflow"
                    ELSE IF reserved + price > Units(total)
                           THEN "InsufficientCapacity" ELSE "Created"
       /\ SumUnits(rows') = IF answer' = "Created" THEN reserved + price
                                                   ELSE reserved]_vars
  BY <1>1
<1>3. QED
  BY <1>2, MoneyInvariant, PTL DEF Spec, DecidesInUnits
=============================================================================
