--------------------------- MODULE CapacityMoney ---------------------------
(***************************************************************************)
(* How money goes through the capacity API as decimal strings: one program,*)
(* an invoice priced when it is created, and reservations that are priced  *)
(* again when they are made.  CapacityService counts the same money in      *)
(* integer units of NUMERIC(19,4)'s last digit; DecidesInUnits says that   *)
(* this changes no answer.                                                 *)
(***************************************************************************)
EXTENDS DecimalMath, RowSum, SequencesExt

CONSTANTS
  Totals,     \* total capacities the treasury sends, as strings
  Amounts,    \* invoice amounts clients send, as strings
  Responses,  \* rates the provider answers: [digits, scale], digits/10^scale
  MaxRows     \* bound: ACTIVE reservations

ASSUME MoneyAssumption ==
  /\ Totals \subseteq DecimalString
  /\ Amounts \subseteq DecimalString
  /\ Responses \subseteq [digits: Nat, scale: Nat]
  /\ \A r \in Responses :
       r.digits = 0 \/ r.digits * Pow10[6] >= Pow10[r.scale]  \* at least 10^-6
  /\ MaxRows \in Nat

USD_DECIMAL_SCALE == 4
RATE_SCALE == 6   \* conversion_rate NUMERIC(19,6)

VARIABLES
  total,    \* programs.total_capacity_usd_amount
  invoice,  \* the newest invoice, still OPEN, or NoInvoice
  rows,     \* the ACTIVE reservations of the program
  answer    \* what the last reservation request was answered

vars == <<total, invoice, rows, answer>>

NoInvoice == [sent |-> RangeError]
Answers == {"None", "Created", "InsufficientCapacity", "CapacityUnderflow"}

\* A NUMERIC(19,scale) column rounds what is written to it, half away from
\* zero, and reads it back with all its decimals.
Numeric(s, scale) ==
  LET x == toDigitsWithScale(s) IN scaleBigIntToString(x.digits, x.scale, scale)

Units(s) == toDigitsWithScale(Numeric(s, USD_DECIMAL_SCALE)).digits

ZERO_AT_USD_SCALE ==
  [whole |-> <<0>>, fraction |-> [i \in 1..USD_DECIMAL_SCALE |-> 0]]

-----------------------------------------------------------------------------
(* Conversion *)

\* getRate accepts a positive number, and toString() of one that is at least
\* 10^-6 has no exponent.
Rates == {formatBigIntWithScale(r.digits, r.scale) :
            r \in {x \in Responses : x.digits > 0}}

\* A USD amount keeps its string, and its rate is '1'.
Usd == [usd |-> TRUE, rate |-> [whole |-> <<1>>, fraction |-> <<>>]]
Prices == {Usd} \cup [usd: {FALSE}, rate: Rates]

convertToUsd(amount, price) ==
  [original |-> amount,
   usd |-> price.usd,
   rate |-> price.rate,
   converted |-> IF price.usd THEN amount
                 ELSE multiplyDecimal(amount, price.rate, USD_DECIMAL_SCALE)]

\* The money columns of an invoices or a reservations row.
Stored(conversion) ==
  [original |-> Numeric(conversion.original, USD_DECIMAL_SCALE),
   usd |-> conversion.usd,
   converted |-> Numeric(conversion.converted, USD_DECIMAL_SCALE),
   rate |-> Numeric(conversion.rate, RATE_SCALE)]

-----------------------------------------------------------------------------
(* The commands *)

SumUnits(s) == SumRows([k \in 1..Len(s) |-> Units(s[k].converted)], Len(s))

\* SUM over NUMERIC(19,4) rows; COALESCE gives the zero of an empty set.
sumActiveByProgram ==
  IF rows = <<>> THEN ZERO_AT_USD_SCALE
                 ELSE formatBigIntWithScale(SumUnits(rows), USD_DECIMAL_SCALE)

Available == subtractDecimal(total, sumActiveByProgram, USD_DECIMAL_SCALE)

Init ==
  /\ \E t \in Totals : total = Numeric(t, USD_DECIMAL_SCALE)
  /\ invoice = NoInvoice
  /\ rows = <<>>
  /\ answer = "None"

ApplySnapshot(t) ==
  /\ total' = Numeric(t, USD_DECIMAL_SCALE)
  /\ UNCHANGED <<invoice, rows, answer>>

\* sent and price are history: what the client and the provider said.
CreateInvoice(amount, price) ==
  /\ invoice' = [sent |-> amount, price |-> price,
                 row |-> Stored(convertToUsd(amount, price))]
  /\ UNCHANGED <<total, rows, answer>>

\* Mutant: the check uses the price the invoice was created with.
ReserveAtInvoicePrice(price) ==
  /\ invoice # NoInvoice
  /\ price.usd = invoice.price.usd
  /\ Len(rows) < MaxRows
  /\ \/ Available = RangeError /\ answer' = "CapacityUnderflow"
        /\ UNCHANGED <<invoice, rows>>
     \/ /\ Available # RangeError
        /\ IF compareDecimalStrings(invoice.row.converted, Available) > 0
             THEN answer' = "InsufficientCapacity" /\ UNCHANGED <<invoice, rows>>
             ELSE /\ answer' = "Created"
                  /\ rows' = Append(rows, Stored(convertToUsd(invoice.row.original, price)))
                  /\ invoice' = NoInvoice
  /\ UNCHANGED total

\* The stored amount is priced again, at the rate of the day.
Reserve(price) ==
  LET conversion == convertToUsd(invoice.row.original, price)
      exceeds == compareDecimalStrings(conversion.converted, Available) > 0
  IN
  /\ invoice # NoInvoice
  /\ price.usd = invoice.price.usd
  /\ Len(rows) < MaxRows
  /\ \/ /\ Available = RangeError
        /\ answer' = "CapacityUnderflow"
        /\ UNCHANGED <<invoice, rows>>
     \/ /\ Available # RangeError /\ exceeds
        /\ answer' = "InsufficientCapacity"
        /\ UNCHANGED <<invoice, rows>>
     \/ /\ Available # RangeError /\ ~ exceeds
        /\ answer' = "Created"
        /\ rows' = Append(rows, Stored(conversion))
        /\ invoice' = NoInvoice
  /\ UNCHANGED total

\* Any reservation may be released, which takes it out of the sum.
Release(k) ==
  /\ rows' = RemoveAt(rows, k)
  /\ UNCHANGED <<total, invoice, answer>>

Next ==
  \/ \E t \in Totals : ApplySnapshot(t)
  \/ \E a \in Amounts, p \in Prices : CreateInvoice(a, p)
  \/ \E p \in Prices : Reserve(p)
  \/ \E k \in 1..Len(rows) : Release(k)

Spec == Init /\ [][Next]_vars

-----------------------------------------------------------------------------
(* Properties *)

\* The reference: amount * price in units of 10^-4, rounded to the nearest
\* integer, a tie upwards.
NearestUnits(amount, price) ==
  LET x == toDigitsWithScale(amount)
      y == toDigitsWithScale(price.rate)
      decimals == x.scale + y.scale
      n == x.digits * y.digits * Pow10[Larger(USD_DECIMAL_SCALE - decimals, 0)]
      d == Pow10[Larger(decimals - USD_DECIMAL_SCALE, 0)]
  IN CHOOSE u \in (n \div d)..(n \div d + 1) :
       2 * n - d < 2 * u * d /\ 2 * u * d <= 2 * n + d

IsUsd(s) == s.whole # <<>> /\ Len(s.fraction) = USD_DECIMAL_SCALE

MoneyTypeOK ==
  /\ IsUsd(total)
  /\ answer \in Answers
  /\ Len(rows) <= MaxRows
  /\ \A k \in 1..Len(rows) : /\ IsUsd(rows[k].original)
                             /\ IsUsd(rows[k].converted)
                             /\ Len(rows[k].rate.fraction) = RATE_SCALE

\* The strings decide as CapacityService's integers do: a request is refused
\* if and only if the reserved units and the nearest price in units exceed the
\* total, and an accepted one adds exactly that price to the reserved units.
DecidesInUnits ==
  [][\A p \in Prices : Reserve(p) =>
       LET price == NearestUnits(invoice.row.original, p)
           reserved == SumUnits(rows)
       IN
       /\ answer' = IF reserved > Units(total) THEN "CapacityUnderflow"
                    ELSE IF reserved + price > Units(total)
                           THEN "InsufficientCapacity" ELSE "Created"
       /\ SumUnits(rows') = IF answer' = "Created" THEN reserved + price
                                                   ELSE reserved]_vars

\* An invoice is priced once from what was sent, not from what was stored,
\* and no digit is lost before the one rounding.
InvoicePricedToNearestUnit ==
  invoice # NoInvoice =>
    Units(invoice.row.converted) = NearestUnits(invoice.sent, invoice.price)

\* What a summary shows as available reads back as exactly the total less the
\* reserved sum, and it is shown whenever nothing is oversubscribed.
AvailableShownExactly ==
  IF SumUnits(rows) > Units(total)
    THEN Available = RangeError
    ELSE /\ IsUsd(Available)
         /\ Units(Available) = Units(total) - SumUnits(rows)

\* compareDecimalStrings and subtractDecimal order any two strings alike,
\* whatever their decimals.  The service compares only strings with four, and
\* does not compare before it subtracts; this is of the two functions, which
\* align their operands each in its own way.
ComparisonMatchesSubtraction ==
  \A a \in Amounts :
    compareDecimalStrings(total, a) < 0 <=>
      subtractDecimal(total, a, USD_DECIMAL_SCALE) = RangeError

\* money-conversion.ts:4-5: a stored conversion "represents the exact provider
\* rate snapshot used at the time", so its columns give its converted amount.
SnapshotExact ==
  \A k \in 1..Len(rows) : ~ rows[k].usd =>
    rows[k].converted =
      multiplyDecimal(rows[k].original, rows[k].rate, USD_DECIMAL_SCALE)
=============================================================================
