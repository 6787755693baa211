------------------------ MODULE MCBulkReconciliation ------------------------
(* Three messages for two programs. *)
EXTENDS BulkReconciliation

CONSTANTS p1, p2, b1, b2

MCEntries ==
  {[batch |-> b1, program |-> p1, version |-> 2, total |-> 1],
   [batch |-> b1, program |-> p2, version |-> 1, total |-> 2],
   [batch |-> b2, program |-> p1, version |-> 1, total |-> 2]}

\* Snapshots of both programs, an older one of p1, and a malformed message.
MCMessages ==
  [m \in 0..(MaxOffset - 1) |->
     CASE m = 0 -> <<[batch |-> b1, program |-> p2, version |-> 1, total |-> 2],
                     [batch |-> b1, program |-> p1, version |-> 2, total |-> 1]>>
       [] m = 1 -> <<[batch |-> b2, program |-> p1, version |-> 1, total |-> 2]>>
       [] OTHER -> Rejected]

NoQuotes == [i \in {} |-> {}]
=============================================================================
