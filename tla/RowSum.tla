------------------------------- MODULE RowSum -------------------------------
(***************************************************************************)
(* PostgreSQL's COALESCE(SUM(column), 0) over the rows numbered 1 .. n of a *)
(* table: row k contributes f[k], a row the WHERE clause drops contributes *)
(* 0 and an empty table sums to 0.  The sum is a recursive function, not a *)
(* RECURSIVE operator, so that the proofs can reason about it.             *)
(***************************************************************************)
EXTENDS Integers

\* RunningTotal(f, n)[k] is the sum of the first k rows.
RunningTotal(f, n) ==
  LET total[k \in 0..n] == IF k = 0 THEN 0 ELSE total[k-1] + f[k]
  IN  total

SumRows(f, n) == RunningTotal(f, n)[n]
=============================================================================
