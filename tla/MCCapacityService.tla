------------------------- MODULE MCCapacityService --------------------------
(* Small instances of CapacityService. *)
EXTENDS CapacityService, TLC

CONSTANTS p1, p2, i1, i2, b1, b2, w1, w2, w3

OneProgramQuotes == (i1 :> {1, 2}) @@ (i2 :> {1})

\* A lower snapshot of p1, another batch that disagrees on its version, and a
\* newer one.
OneProgramEntries ==
  {[batch |-> b1, program |-> p1, version |-> 1, total |-> 1],
   [batch |-> b2, program |-> p1, version |-> 1, total |-> 3],
   [batch |-> b2, program |-> p1, version |-> 2, total |-> 2]}

\* Every invoice is worth one unit, so that a program of one unit holds one.
UnitQuotes == [i \in Invoices |-> {1}]

OneEntry == {[batch |-> b1, program |-> p1, version |-> 1, total |-> 2]}

WorkerSymmetry == Permutations(Workers)
=============================================================================
