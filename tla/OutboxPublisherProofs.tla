------------------------ MODULE OutboxPublisherProofs -----------------------
(***************************************************************************)
(* Proofs about OutboxPublisher, for any rows, keys, batch size and refused *)
(* keys: types, delivery after commit, and the order of events per key.     *)
(***************************************************************************)
EXTENDS OutboxPublisher, FiniteSetTheorems, TLAPS

-----------------------------------------------------------------------------
(* The inductive invariant *)

\* created_at is taken in row order, a row is written with its key, and the
\* history of a row names older committed rows.
RowsOK ==
  /\ \A m, n \in Rows : m < n /\ status[m] = "none" => status[n] = "none"
  /\ \A n \in Rows : status[n] # "none" => key[n] \in Keys
  /\ \A m \in Rows : \A n \in earlier[m] : n < m /\ status[n] = "committed"

\* The poll works on unpublished rows, and on each one after what it did to it.
PollOK ==
  /\ batch \subseteq Unpublished
  /\ step \in {"attempt", "produce", "appended", "mark"} <=> batch # {}
  /\ step \in {"appended", "mark"} => \A n \in batch : Current(n) => n \in delivered
  /\ step \in {"produce", "appended", "mark"} =>
       \A n \in batch : Current(n) => key[n] \notin blockedKeys

\* What holds an older event of a key back holds the younger ones back too.
OrderOK ==
  /\ \A m \in batch : \A n \in earlier[m] :
       key[n] = key[m] => \/ n \in published
                          \/ n \in batch
                          \/ key[m] \in blockedKeys
  /\ \A m \in delivered : \A n \in earlier[m] :
       key[n] = key[m] => n \in published

PublisherInv ==
  PublisherTypeOK /\ DeliveryFollowsCommit /\ RowsOK /\ PollOK /\ OrderOK

-----------------------------------------------------------------------------
(* Types *)

\* The rows of a poll are rows.
LEMMA BatchOfRows == OldestUnpublished \subseteq Rows
  BY DEF OldestUnpublished, Unpublished, Committed

\* Every step keeps the types.
LEMMA PublisherTypeNext ==
  ASSUME PublisherTypeOK, RowsOK, PollOK, [Next]_vars
  PROVE  PublisherTypeOK'
<1>1. ASSUME NEW n \in Rows, NEW k \in Keys, TakeCreatedAt(n, k)
     PROVE  PublisherTypeOK'
  BY <1>1 DEF TakeCreatedAt, rowVars, kafkaVars, pollVars, PublisherTypeOK, Rows, NoRow, Committed
<1>2. ASSUME NEW n \in Rows, NEW outcome \in {"committed", "rolledBack"},
              EndTransaction(n, outcome)
     PROVE  PublisherTypeOK'
  BY <1>2 DEF EndTransaction, rowVars, kafkaVars, pollVars, PublisherTypeOK, Rows, NoRow
<1>3. ASSUME NEW n \in Rows, Skip(n)
     PROVE  PublisherTypeOK'
  BY <1>3 DEF Skip, Advance, rowVars, kafkaVars, pollVars, PublisherTypeOK, Rows, NoRow
<1>4. ASSUME NEW n \in Rows, IncrementAttempts(n)
     PROVE  PublisherTypeOK'
  BY <1>4 DEF IncrementAttempts, rowVars, kafkaVars, pollVars, PublisherTypeOK, Rows, NoRow
<1>5. ASSUME NEW n \in Rows, Append(n)
     PROVE  PublisherTypeOK'
  BY <1>5 DEF Append, rowVars, kafkaVars, pollVars, PublisherTypeOK, Rows, NoRow
<1>6. ASSUME NEW n \in Rows, Acknowledge(n)
     PROVE  PublisherTypeOK'
  BY <1>6 DEF Acknowledge, rowVars, kafkaVars, pollVars, PublisherTypeOK, Rows, NoRow
<1>7. ASSUME NEW n \in Rows, MarkPublished(n)
     PROVE  PublisherTypeOK'
  BY <1>7 DEF MarkPublished, Advance, rowVars, kafkaVars, pollVars, PublisherTypeOK, Rows, NoRow
<1>8. ASSUME NEW n \in Rows, Fail(n)
     PROVE  PublisherTypeOK'
  <2>1. key[n] \in Keys
    BY <1>8 DEF Fail, Current, PollOK, RowsOK, Unpublished, Committed
  <2>2. QED
    BY <1>8, <2>1 DEF Fail, GiveUp, Advance, rowVars, kafkaVars, PublisherTypeOK
<1>9. CASE Poll
  BY <1>9, BatchOfRows DEF Poll, rowVars, kafkaVars, pollVars, PublisherTypeOK
<1>10. CASE Stop
  BY <1>10 DEF Stop, rowVars, kafkaVars, pollVars, PublisherTypeOK, Rows, NoRow
<1>11. CASE Exit
  BY <1>11 DEF Exit, rowVars, kafkaVars, pollVars, PublisherTypeOK, Rows, NoRow
<1>12. CASE Restart
  BY <1>12 DEF Restart, rowVars, kafkaVars, pollVars, PublisherTypeOK, Rows, NoRow
<1>13. CASE UNCHANGED vars
  BY <1>13 DEF vars, rowVars, kafkaVars, pollVars, PublisherTypeOK, Rows, NoRow
<1>14. QED BY <1>1, <1>2, <1>3, <1>4, <1>5, <1>6, <1>7, <1>8, <1>9, <1>10, <1>11, <1>12, <1>13 DEF Next, CallReturns

-----------------------------------------------------------------------------
(* Rows, the poll, delivery *)

\* Rows are written in the order of created_at and commits are final.
LEMMA RowsNext ==
  ASSUME PublisherTypeOK, RowsOK, [Next]_vars
  PROVE  RowsOK'
<1>1. ASSUME NEW n \in Rows, NEW k \in Keys, TakeCreatedAt(n, k)
     PROVE  RowsOK'
  BY <1>1 DEF TakeCreatedAt, rowVars, kafkaVars, pollVars, RowsOK, PublisherTypeOK, Rows, Committed
<1>2. ASSUME NEW n \in Rows, NEW outcome \in {"committed", "rolledBack"},
              EndTransaction(n, outcome)
     PROVE  RowsOK'
  BY <1>2 DEF EndTransaction, rowVars, kafkaVars, pollVars, RowsOK, PublisherTypeOK, Rows, Committed
<1>3. ASSUME NEW n \in Rows, Skip(n)
     PROVE  RowsOK'
  BY <1>3 DEF Skip, Advance, rowVars, kafkaVars, pollVars, RowsOK, PublisherTypeOK, Rows, Committed
<1>4. ASSUME NEW n \in Rows, IncrementAttempts(n)
     PROVE  RowsOK'
  BY <1>4 DEF IncrementAttempts, rowVars, kafkaVars, pollVars, RowsOK, PublisherTypeOK, Rows, Committed
<1>5. ASSUME NEW n \in Rows, Append(n)
     PROVE  RowsOK'
  BY <1>5 DEF Append, rowVars, kafkaVars, pollVars, RowsOK, PublisherTypeOK, Rows, Committed
<1>6. ASSUME NEW n \in Rows, Acknowledge(n)
     PROVE  RowsOK'
  BY <1>6 DEF Acknowledge, rowVars, kafkaVars, pollVars, RowsOK, PublisherTypeOK, Rows, Committed
<1>7. ASSUME NEW n \in Rows, MarkPublished(n)
     PROVE  RowsOK'
  BY <1>7 DEF MarkPublished, Advance, rowVars, kafkaVars, pollVars, RowsOK, PublisherTypeOK, Rows, Committed
<1>8. ASSUME NEW n \in Rows, Fail(n)
     PROVE  RowsOK'
  BY <1>8 DEF Fail, GiveUp, Advance, rowVars, kafkaVars, pollVars, RowsOK, PublisherTypeOK, Rows, Committed
<1>9. CASE Poll
  BY <1>9 DEF Poll, rowVars, kafkaVars, pollVars, RowsOK, PublisherTypeOK, Rows, Committed
<1>10. CASE Stop
  BY <1>10 DEF Stop, rowVars, kafkaVars, pollVars, RowsOK, PublisherTypeOK, Rows, Committed
<1>11. CASE Exit
  BY <1>11 DEF Exit, rowVars, kafkaVars, pollVars, RowsOK, PublisherTypeOK, Rows, Committed
<1>12. CASE Restart
  BY <1>12 DEF Restart, rowVars, kafkaVars, pollVars, RowsOK, PublisherTypeOK, Rows, Committed
<1>13. CASE UNCHANGED vars
  BY <1>13 DEF vars, rowVars, kafkaVars, pollVars, RowsOK, PublisherTypeOK, Rows, Committed
<1>14. QED BY <1>1, <1>2, <1>3, <1>4, <1>5, <1>6, <1>7, <1>8, <1>9, <1>10, <1>11, <1>12, <1>13 DEF Next, CallReturns

\* The loop handles unpublished rows in order.
LEMMA PollNext ==
  ASSUME PublisherTypeOK, DeliveryFollowsCommit, PollOK, [Next]_vars
  PROVE  PollOK'
<1>1. ASSUME NEW n \in Rows, NEW k \in Keys, TakeCreatedAt(n, k)
     PROVE  PollOK'
  BY <1>1 DEF TakeCreatedAt, rowVars, kafkaVars, pollVars, PollOK, PublisherTypeOK, Rows, Current, Unpublished, Committed, OldestUnpublished
<1>2. ASSUME NEW n \in Rows, NEW outcome \in {"committed", "rolledBack"},
              EndTransaction(n, outcome)
     PROVE  PollOK'
  BY <1>2 DEF EndTransaction, rowVars, kafkaVars, pollVars, PollOK, PublisherTypeOK, Rows, Current, Unpublished, Committed, OldestUnpublished
<1>3. ASSUME NEW n \in Rows, Skip(n)
     PROVE  PollOK'
  BY <1>3 DEF Skip, Advance, rowVars, kafkaVars, pollVars, PollOK, PublisherTypeOK, Rows, Current, Unpublished, Committed, OldestUnpublished
<1>4. ASSUME NEW n \in Rows, IncrementAttempts(n)
     PROVE  PollOK'
  BY <1>4 DEF IncrementAttempts, rowVars, kafkaVars, pollVars, PollOK, PublisherTypeOK, Rows, Current, Unpublished, Committed, OldestUnpublished
<1>5. ASSUME NEW n \in Rows, Append(n)
     PROVE  PollOK'
  BY <1>5 DEF Append, rowVars, kafkaVars, pollVars, PollOK, PublisherTypeOK, Rows, Current, Unpublished, Committed, OldestUnpublished
<1>6. ASSUME NEW n \in Rows, Acknowledge(n)
     PROVE  PollOK'
  BY <1>6 DEF Acknowledge, rowVars, kafkaVars, pollVars, PollOK, PublisherTypeOK, Rows, Current, Unpublished, Committed, OldestUnpublished
<1>7. ASSUME NEW n \in Rows, MarkPublished(n)
     PROVE  PollOK'
  BY <1>7 DEF MarkPublished, Advance, rowVars, kafkaVars, pollVars, PollOK, PublisherTypeOK, Rows, Current, Unpublished, Committed, OldestUnpublished
<1>8. ASSUME NEW n \in Rows, Fail(n)
     PROVE  PollOK'
  BY <1>8 DEF Fail, GiveUp, Advance, rowVars, kafkaVars, pollVars, PollOK, PublisherTypeOK, Rows, Current, Unpublished, Committed, OldestUnpublished
<1>9. CASE Poll
  BY <1>9 DEF Poll, rowVars, kafkaVars, pollVars, PollOK, PublisherTypeOK, Rows, Current, Unpublished, Committed, OldestUnpublished
<1>10. CASE Stop
  BY <1>10 DEF Stop, rowVars, kafkaVars, pollVars, PollOK, PublisherTypeOK, Rows, Current, Unpublished, Committed, OldestUnpublished
<1>11. CASE Exit
  BY <1>11 DEF Exit, rowVars, kafkaVars, pollVars, PollOK, PublisherTypeOK, Rows, Current, Unpublished, Committed, OldestUnpublished
<1>12. CASE Restart
  BY <1>12 DEF Restart, rowVars, kafkaVars, pollVars, PollOK, PublisherTypeOK, Rows, Current, Unpublished, Committed, OldestUnpublished
<1>13. CASE UNCHANGED vars
  BY <1>13 DEF vars, rowVars, kafkaVars, pollVars, PollOK, PublisherTypeOK, Rows, Current, Unpublished, Committed, OldestUnpublished
<1>14. QED BY <1>1, <1>2, <1>3, <1>4, <1>5, <1>6, <1>7, <1>8, <1>9, <1>10, <1>11, <1>12, <1>13 DEF Next, CallReturns

\* Rows are delivered after they commit and marked after they are delivered.
LEMMA DeliveryNext ==
  ASSUME PublisherTypeOK, PollOK, DeliveryFollowsCommit, [Next]_vars
  PROVE  DeliveryFollowsCommit'
<1>1. ASSUME NEW n \in Rows, NEW k \in Keys, TakeCreatedAt(n, k)
     PROVE  DeliveryFollowsCommit'
  BY <1>1 DEF TakeCreatedAt, rowVars, kafkaVars, pollVars, DeliveryFollowsCommit, PollOK, PublisherTypeOK, Rows, Current, Unpublished, Committed
<1>2. ASSUME NEW n \in Rows, NEW outcome \in {"committed", "rolledBack"},
              EndTransaction(n, outcome)
     PROVE  DeliveryFollowsCommit'
  BY <1>2 DEF EndTransaction, rowVars, kafkaVars, pollVars, DeliveryFollowsCommit, PollOK, PublisherTypeOK, Rows, Current, Unpublished, Committed
<1>3. ASSUME NEW n \in Rows, Skip(n)
     PROVE  DeliveryFollowsCommit'
  BY <1>3 DEF Skip, Advance, rowVars, kafkaVars, pollVars, DeliveryFollowsCommit, PollOK, PublisherTypeOK, Rows, Current, Unpublished, Committed
<1>4. ASSUME NEW n \in Rows, IncrementAttempts(n)
     PROVE  DeliveryFollowsCommit'
  BY <1>4 DEF IncrementAttempts, rowVars, kafkaVars, pollVars, DeliveryFollowsCommit, PollOK, PublisherTypeOK, Rows, Current, Unpublished, Committed
<1>5. ASSUME NEW n \in Rows, Append(n)
     PROVE  DeliveryFollowsCommit'
  BY <1>5 DEF Append, rowVars, kafkaVars, pollVars, DeliveryFollowsCommit, PollOK, PublisherTypeOK, Rows, Current, Unpublished, Committed
<1>6. ASSUME NEW n \in Rows, Acknowledge(n)
     PROVE  DeliveryFollowsCommit'
  BY <1>6 DEF Acknowledge, rowVars, kafkaVars, pollVars, DeliveryFollowsCommit, PollOK, PublisherTypeOK, Rows, Current, Unpublished, Committed
<1>7. ASSUME NEW n \in Rows, MarkPublished(n)
     PROVE  DeliveryFollowsCommit'
  BY <1>7 DEF MarkPublished, Advance, rowVars, kafkaVars, pollVars, DeliveryFollowsCommit, PollOK, PublisherTypeOK, Rows, Current, Unpublished, Committed
<1>8. ASSUME NEW n \in Rows, Fail(n)
     PROVE  DeliveryFollowsCommit'
  BY <1>8 DEF Fail, GiveUp, Advance, rowVars, kafkaVars, pollVars, DeliveryFollowsCommit, PollOK, PublisherTypeOK, Rows, Current, Unpublished, Committed
<1>9. CASE Poll
  BY <1>9 DEF Poll, rowVars, kafkaVars, pollVars, DeliveryFollowsCommit, PollOK, PublisherTypeOK, Rows, Current, Unpublished, Committed
<1>10. CASE Stop
  BY <1>10 DEF Stop, rowVars, kafkaVars, pollVars, DeliveryFollowsCommit, PollOK, PublisherTypeOK, Rows, Current, Unpublished, Committed
<1>11. CASE Exit
  BY <1>11 DEF Exit, rowVars, kafkaVars, pollVars, DeliveryFollowsCommit, PollOK, PublisherTypeOK, Rows, Current, Unpublished, Committed
<1>12. CASE Restart
  BY <1>12 DEF Restart, rowVars, kafkaVars, pollVars, DeliveryFollowsCommit, PollOK, PublisherTypeOK, Rows, Current, Unpublished, Committed
<1>13. CASE UNCHANGED vars
  BY <1>13 DEF vars, rowVars, kafkaVars, pollVars, DeliveryFollowsCommit, PollOK, PublisherTypeOK, Rows, Current, Unpublished, Committed
<1>14. QED BY <1>1, <1>2, <1>3, <1>4, <1>5, <1>6, <1>7, <1>8, <1>9, <1>10, <1>11, <1>12, <1>13 DEF Next, CallReturns

-----------------------------------------------------------------------------
(* Order *)

\* The batch is closed downwards: a poll that takes a row takes every older
\* unpublished row too.
LEMMA BatchDownClosed ==
  ASSUME NEW m \in OldestUnpublished, NEW n \in Unpublished, n < m
  PROVE  n \in OldestUnpublished
<1> DEFINE Older(r) == {q \in Unpublished : q < r}
<1>1. Older(n) \subseteq Older(m) /\ Older(m) \subseteq 1..MaxRows
  BY DEF OldestUnpublished, Unpublished, Committed, Rows
<1>2. IsFiniteSet(Older(m))
  BY <1>1, FS_Interval, FS_Subset, OutboxAssumption
<1>3. Cardinality(Older(n)) <= Cardinality(Older(m)) /\ IsFiniteSet(Older(n))
  BY <1>1, <1>2, FS_Subset
<1>4. Cardinality(Older(n)) \in Nat /\ Cardinality(Older(m)) \in Nat
  BY <1>2, <1>3, FS_CardinalityType
<1>5. Cardinality(Older(m)) < BatchSize
  BY DEF OldestUnpublished
<1>6. QED
  BY <1>3, <1>4, <1>5, OutboxAssumption DEF OldestUnpublished

\* An older committed event is never overtaken.
LEMMA OrderNext ==
  ASSUME PublisherTypeOK, DeliveryFollowsCommit, RowsOK, PollOK, OrderOK, [Next]_vars
  PROVE  OrderOK'
<1>1. ASSUME NEW n \in Rows, NEW k \in Keys, TakeCreatedAt(n, k)
     PROVE  OrderOK'
  BY <1>1 DEF TakeCreatedAt, rowVars, kafkaVars, pollVars, OrderOK, RowsOK, PollOK, DeliveryFollowsCommit, PublisherTypeOK, Rows, Unpublished, Committed
<1>2. ASSUME NEW n \in Rows, NEW outcome \in {"committed", "rolledBack"},
              EndTransaction(n, outcome)
     PROVE  OrderOK'
  BY <1>2 DEF EndTransaction, rowVars, kafkaVars, pollVars, OrderOK, RowsOK, PollOK, DeliveryFollowsCommit, PublisherTypeOK, Rows, Unpublished, Committed
<1>3. ASSUME NEW n \in Rows, Skip(n)
     PROVE  OrderOK'
  BY <1>3 DEF Skip, Advance, rowVars, kafkaVars, pollVars, OrderOK, RowsOK, PollOK, DeliveryFollowsCommit, PublisherTypeOK, Rows, Unpublished, Committed, Current
<1>4. ASSUME NEW n \in Rows, IncrementAttempts(n)
     PROVE  OrderOK'
  BY <1>4 DEF IncrementAttempts, rowVars, kafkaVars, pollVars, OrderOK, RowsOK, PollOK, DeliveryFollowsCommit, PublisherTypeOK, Rows, Unpublished, Committed
<1>5. ASSUME NEW n \in Rows, Append(n)
     PROVE  OrderOK'
  BY <1>5 DEF Append, rowVars, kafkaVars, pollVars, OrderOK, RowsOK, PollOK, DeliveryFollowsCommit, PublisherTypeOK, Rows, Unpublished, Committed, Current
<1>6. ASSUME NEW n \in Rows, Acknowledge(n)
     PROVE  OrderOK'
  BY <1>6 DEF Acknowledge, rowVars, kafkaVars, pollVars, OrderOK, RowsOK, PollOK, DeliveryFollowsCommit, PublisherTypeOK, Rows, Unpublished, Committed
<1>7. ASSUME NEW n \in Rows, MarkPublished(n)
     PROVE  OrderOK'
  BY <1>7 DEF MarkPublished, Advance, rowVars, kafkaVars, pollVars, OrderOK, RowsOK, PollOK, DeliveryFollowsCommit, PublisherTypeOK, Rows, Unpublished, Committed, Current
<1>8. ASSUME NEW n \in Rows, Fail(n)
     PROVE  OrderOK'
  BY <1>8 DEF Fail, GiveUp, Advance, rowVars, kafkaVars, pollVars, OrderOK, RowsOK, PollOK, DeliveryFollowsCommit, PublisherTypeOK, Rows, Unpublished, Committed, Current
<1>9. CASE Poll
  BY <1>9, BatchDownClosed, BatchOfRows DEF Poll, rowVars, kafkaVars, pollVars, OrderOK, RowsOK, PollOK, DeliveryFollowsCommit, PublisherTypeOK, Rows, Unpublished, Committed
<1>10. CASE Stop
  BY <1>10 DEF Stop, rowVars, kafkaVars, pollVars, OrderOK, RowsOK, PollOK, DeliveryFollowsCommit, PublisherTypeOK, Rows, Unpublished, Committed
<1>11. CASE Exit
  BY <1>11 DEF Exit, rowVars, kafkaVars, pollVars, OrderOK, RowsOK, PollOK, DeliveryFollowsCommit, PublisherTypeOK, Rows, Unpublished, Committed
<1>12. CASE Restart
  BY <1>12 DEF Restart, rowVars, kafkaVars, pollVars, OrderOK, RowsOK, PollOK, DeliveryFollowsCommit, PublisherTypeOK, Rows, Unpublished, Committed
<1>13. CASE UNCHANGED vars
  BY <1>13 DEF vars, rowVars, kafkaVars, pollVars, OrderOK, RowsOK, PollOK, DeliveryFollowsCommit, PublisherTypeOK, Rows, Unpublished, Committed
<1>14. QED BY <1>1, <1>2, <1>3, <1>4, <1>5, <1>6, <1>7, <1>8, <1>9, <1>10, <1>11, <1>12, <1>13 DEF Next, CallReturns

\* The inductive invariant holds in every reachable state.
THEOREM PublisherInvariant == Spec => []PublisherInv
<1>1. Init => PublisherInv
  <2>1. Init => PublisherTypeOK
    BY DEF Init, PublisherTypeOK, Rows, NoRow
  <2>2. Init => RowsOK
    BY DEF Init, RowsOK, Rows, NoRow
  <2>3. Init => DeliveryFollowsCommit /\ PollOK /\ OrderOK
    BY DEF Init, DeliveryFollowsCommit, PollOK, OrderOK
  <2>4. QED BY <2>1, <2>2, <2>3 DEF PublisherInv
<1>2. PublisherInv /\ [Next]_vars => PublisherInv'
  BY PublisherTypeNext, DeliveryNext, RowsNext, PollNext, OrderNext DEF PublisherInv
<1>3. QED
  BY <1>1, <1>2, PTL DEF Spec

\* PublisherTypeOK: every variable of the publisher keeps its type.
THEOREM PublisherTypeCorrect == Spec => []PublisherTypeOK
<1>1. PublisherInv => PublisherTypeOK
  BY DEF PublisherInv
<1>2. QED
  BY <1>1, PublisherInvariant, PTL

\* DeliveryFollowsCommit: no event is lost between its row and Kafka, and
\* none is sent for a transaction that did not commit.
THEOREM NoEventLostOrInvented == Spec => []DeliveryFollowsCommit
<1>1. PublisherInv => DeliveryFollowsCommit
  BY DEF PublisherInv
<1>2. QED
  BY <1>1, PublisherInvariant, PTL

\* OrderedPerKey: whatever fails, is sent twice or restarts, Kafka appends the
\* events of one program in order.
THEOREM EventsOrderedPerKey == Spec => OrderedPerKey
<1> DEFINE Ordered == \A k \in Keys :
       last'[k] # last[k] =>
         \A m \in delivered : key[m] = k => last'[k] \notin earlier[m]
<1>1. PublisherInv /\ [Next]_vars => [Ordered]_vars
  <2> SUFFICES ASSUME PublisherInv, Next, NEW k \in Keys, last'[k] # last[k],
                      NEW m \in delivered, key[m] = k, last'[k] \in earlier[m]
               PROVE  FALSE
    OBVIOUS
  <2>1. PICK n \in Rows : Append(n)
    BY DEF Next, CallReturns, TakeCreatedAt, EndTransaction, Skip,
           IncrementAttempts, Acknowledge, MarkPublished, Fail, Poll, Stop, Exit,
           Restart, kafkaVars
  <2>2. key[n] = k /\ last'[k] = n
    BY <2>1 DEF Append, PublisherInv, PublisherTypeOK
  <2>3. n \notin published
    BY <2>1 DEF Append, Current, PublisherInv, PollOK, Unpublished
  <2>4. QED
    BY <2>2, <2>3 DEF PublisherInv, OrderOK
<1>2. QED
  BY <1>1, PublisherInvariant, PTL DEF Spec, OrderedPerKey
=============================================================================
