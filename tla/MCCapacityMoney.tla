-------------------------- MODULE MCCapacityMoney --------------------------
(* Small amounts and rates for CapacityMoney. *)
EXTENDS CapacityMoney

\* 0.0003, 0.0012 and 1
MCTotals == {[whole |-> <<0>>, fraction |-> <<0, 0, 0, 3>>],
             [whole |-> <<0>>, fraction |-> <<0, 0, 1, 2>>],
             [whole |-> <<1>>, fraction |-> <<>>]}

\* 0, 0.00025, 0.99995, 6.3 and 7.5
MCAmounts == {[whole |-> <<0>>, fraction |-> <<>>],
              [whole |-> <<0>>, fraction |-> <<0, 0, 0, 2, 5>>],
              [whole |-> <<0>>, fraction |-> <<9, 9, 9, 9, 5>>],
              [whole |-> <<7>>, fraction |-> <<5>>],
              [whole |-> <<6>>, fraction |-> <<3>>]}

\* 0, which is refused, 1.5, 0.02 and 0.0000235
MCResponses == {[digits |-> 0, scale |-> 0], [digits |-> 15, scale |-> 1],
                [digits |-> 2, scale |-> 2],
                [digits |-> 235, scale |-> 7]}
=============================================================================
