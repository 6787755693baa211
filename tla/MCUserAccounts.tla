--------------------------- MODULE MCUserAccounts ---------------------------
(* Two addresses, one of them typed with a capital letter. *)
EXTENDS UserAccounts, TLC

CONSTANTS w1, w2

MCNormal == [e \in Emails |-> IF e = "Ann" THEN "ann" ELSE e]

WorkerSymmetry == Permutations(Workers)
=============================================================================
