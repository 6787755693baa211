---------------------------- MODULE DecimalMath ----------------------------
(***************************************************************************)
(* The arithmetic on decimal strings of decimal-math.ts.  A string is its  *)
(* digits before and after the point; a BigInt is an integer; an exact     *)
(* decimal in between is an integer with the number of its decimals.       *)
(***************************************************************************)
EXTENDS Integers, Sequences

Digits == 0..9
DecimalString == [whole: Seq(Digits) \ {<<>>}, fraction: Seq(Digits)]

\* What subtractDecimal throws instead of returning a string.
RangeError == [whole |-> <<>>, fraction |-> <<>>]

Larger(m, n) == IF m >= n THEN m ELSE n

Pow10[n \in Nat] == IF n = 0 THEN 1 ELSE 10 * Pow10[n - 1]

\* BigInt(text), digit by digit from the left, and its inverse toString().
BigIntOf(digits) ==
  LET value[k \in 0..Len(digits)] ==
        IF k = 0 THEN 0 ELSE 10 * value[k-1] + digits[k]
  IN  value[Len(digits)]
DigitsOf[value \in Nat] ==
  IF value < 10 THEN <<value>> ELSE Append(DigitsOf[value \div 10], value % 10)

toDigitsWithScale(s) ==
  [digits |-> BigIntOf(s.whole \o s.fraction), scale |-> Len(s.fraction)]

-----------------------------------------------------------------------------
(* Back to a string *)

\* Mutant: no leading zeros, so that an amount below one loses its place.
FormatUnpadded(value, scale) ==
  LET digits == DigitsOf[value]
      point == IF Len(digits) > scale THEN Len(digits) - scale ELSE 0
  IN [whole |-> IF point = 0 THEN <<0>> ELSE SubSeq(digits, 1, point),
      fraction |-> SubSeq(digits, point + 1, Len(digits))]

\* padStart(scale + 1, '0') leaves a digit before the point.
formatBigIntWithScale(value, scale) ==
  LET shown == DigitsOf[value]
      padding == [i \in 1..Larger(scale + 1 - Len(shown), 0) |-> 0]
      digits == padding \o shown
      point == Len(digits) - scale
  IN [whole |-> SubSeq(digits, 1, point),
      fraction |-> SubSeq(digits, point + 1, Len(digits))]

HalfUp(value, divisor) == (value + divisor \div 2) \div divisor

\* Mutant: the dropped decimals are cut off.
Truncate(value, from, to) ==
  formatBigIntWithScale(
    IF from <= to THEN value * Pow10[to - from] ELSE value \div Pow10[from - to], to)

scaleBigIntToString(value, from, to) ==
  formatBigIntWithScale(
    IF from <= to THEN value * Pow10[to - from]
                  ELSE HalfUp(value, Pow10[from - to]), to)

-----------------------------------------------------------------------------
(* The three operations *)

multiplyDecimal(a, b, scale) ==
  LET x == toDigitsWithScale(a)
      y == toDigitsWithScale(b)
  IN scaleBigIntToString(x.digits * y.digits, x.scale + y.scale, scale)

\* x as an integer at a scale no smaller than its own.
Aligned(x, scale) == x.digits * Pow10[scale - x.scale]

subtractDecimal(a, b, scale) ==
  LET x == toDigitsWithScale(a)
      y == toDigitsWithScale(b)
      common == Larger(Larger(x.scale, y.scale), scale)
      difference == Aligned(x, common) - Aligned(y, common)
  IN IF difference < 0 THEN RangeError
                       ELSE scaleBigIntToString(difference, common, scale)

\* Mutant: the digits are compared without a common scale.
CompareDigits(a, b) ==
  LET x == toDigitsWithScale(a).digits
      y == toDigitsWithScale(b).digits
  IN IF x < y THEN -1 ELSE IF x > y THEN 1 ELSE 0

compareDecimalStrings(a, b) ==
  LET x == toDigitsWithScale(a)
      y == toDigitsWithScale(b)
      common == Larger(x.scale, y.scale)
  IN CASE Aligned(x, common) < Aligned(y, common) -> -1
       [] Aligned(x, common) > Aligned(y, common) -> 1
       [] OTHER -> 0
=============================================================================
