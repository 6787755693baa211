--------------------------- MODULE OutboxPublisher --------------------------
(***************************************************************************)
(* The transactional outbox and OutboxPublisherService: committed           *)
(* outbox_events rows are polled oldest first, sent to Kafka and marked     *)
(* published, one row after the other, by one process that may stop or      *)
(* crash anywhere.                                                          *)
(*                                                                         *)
(* Row n carries the n-th created_at.  A writer takes created_at before it  *)
(* waits for its locks and commits, so rows become visible in another       *)
(* order than they are sorted by.                                           *)
(***************************************************************************)
EXTENDS Integers, FiniteSets

CONSTANTS
  Keys,         \* message keys: the program ids
  NoKey,        \* the key of a row that is not written yet
  MaxRows,      \* bound: rows the table may hold
  BatchSize,    \* OutboxConfig.batchSize
  BrokenKeys    \* keys whose messages Kafka refuses for ever

ASSUME OutboxAssumption ==
  /\ NoKey \notin Keys
  /\ MaxRows \in Nat
  /\ BatchSize \in Nat \ {0}
  /\ BrokenKeys \subseteq Keys

VARIABLES
  key,         \* outbox_events.message_key
  status,      \* "none", "open" while its transaction runs, or how that ended
  earlier,     \* history: the rows committed when the row's created_at was taken
  published,   \* rows whose published_at is set
  delivered,   \* rows Kafka has appended, once or more
  last,        \* the row Kafka appended last, by key
  step,        \* what pollOnce does next
  batch,       \* the rows of this poll that are still to be handled
  blockedKeys, \* keys of rows that failed in this poll
  stopped      \* onModuleDestroy has been called

rowVars == <<key, status, earlier>>
kafkaVars == <<delivered, last>>
pollVars == <<step, batch, blockedKeys>>
vars == <<rowVars, published, kafkaVars, pollVars, stopped>>

Rows == 1..MaxRows
NoRow == 0

Committed == {n \in Rows : status[n] = "committed"}
Unpublished == Committed \ published

\* ORDER BY created_at LIMIT batchSize.
OldestUnpublished ==
  {n \in Unpublished : Cardinality({m \in Unpublished : m < n}) < BatchSize}

Init ==
  /\ key = [n \in Rows |-> NoKey]
  /\ status = [n \in Rows |-> "none"]
  /\ earlier = [n \in Rows |-> {}]
  /\ published = {}
  /\ delivered = {}
  /\ last = [k \in Keys |-> NoRow]
  /\ step = "idle"
  /\ batch = {}
  /\ blockedKeys = {}
  /\ stopped = FALSE

-----------------------------------------------------------------------------
(* The domain transactions that write rows *)

\* now = new Date(), before the transaction locks anything.
TakeCreatedAt(n, k) ==
  /\ status[n] = "none"
  /\ \A m \in 1..(n-1) : status[m] # "none"
  /\ key' = [key EXCEPT ![n] = k]
  /\ status' = [status EXCEPT ![n] = "open"]
  /\ earlier' = [earlier EXCEPT ![n] = Committed]
  /\ UNCHANGED <<published, kafkaVars, pollVars, stopped>>

EndTransaction(n, outcome) ==
  /\ status[n] = "open"
  /\ status' = [status EXCEPT ![n] = outcome]
  /\ UNCHANGED <<key, earlier, published, kafkaVars, pollVars, stopped>>

-----------------------------------------------------------------------------
(* pollOnce *)

\* Mutant of Poll: blockedKeys outlives its poll.
PollStillBlocked ==
  /\ step = "idle"
  /\ ~ stopped
  /\ OldestUnpublished # {}
  /\ batch' = OldestUnpublished
  /\ step' = "attempt"
  /\ UNCHANGED <<rowVars, published, kafkaVars, blockedKeys, stopped>>

\* A poll that fails to read, or finds nothing, changes nothing.
Poll ==
  /\ step = "idle"
  /\ ~ stopped
  /\ OldestUnpublished # {}
  /\ batch' = OldestUnpublished
  /\ blockedKeys' = {}
  /\ step' = "attempt"
  /\ UNCHANGED <<rowVars, published, kafkaVars, stopped>>

\* n is the row the loop is at.
Current(n) == n \in batch /\ \A m \in batch : n <= m

\* On to the next row of the batch, or to the next poll.
Advance(n) ==
  /\ batch' = batch \ {n}
  /\ step' = IF batch' = {} THEN "idle" ELSE "attempt"

\* Mutants of GiveUp: the key is not blocked, or the row is blocked instead.
GiveUpWithoutBlocking(n) == Advance(n) /\ UNCHANGED blockedKeys
GiveUpBlockingRow(n) == Advance(n) /\ blockedKeys' = blockedKeys \cup {n}

\* publishOne returned false: later rows of this key wait for the next poll.
GiveUp(n) == Advance(n) /\ blockedKeys' = blockedKeys \cup {key[n]}

Skip(n) ==
  /\ step = "attempt"
  /\ Current(n)
  /\ key[n] \in blockedKeys
  /\ Advance(n)
  /\ UNCHANGED <<rowVars, published, kafkaVars, blockedKeys, stopped>>

\* Mutant of IncrementAttempts: produce is not awaited.
IncrementAttemptsUnawaited(n) ==
  /\ step = "attempt"
  /\ Current(n)
  /\ key[n] \notin blockedKeys
  /\ step' = "mark"
  /\ UNCHANGED <<rowVars, published, kafkaVars, batch, blockedKeys, stopped>>

IncrementAttempts(n) ==
  /\ step = "attempt"
  /\ Current(n)
  /\ key[n] \notin blockedKeys
  /\ step' = "produce"
  /\ UNCHANGED <<rowVars, published, kafkaVars, batch, blockedKeys, stopped>>

\* Kafka appends the message; the publisher does not know it yet.
Append(n) ==
  /\ step = "produce"
  /\ Current(n)
  /\ key[n] \notin BrokenKeys
  /\ delivered' = delivered \cup {n}
  /\ last' = [last EXCEPT ![key[n]] = n]
  /\ step' = "appended"
  /\ UNCHANGED <<rowVars, published, batch, blockedKeys, stopped>>

Acknowledge(n) ==
  /\ step = "appended"
  /\ Current(n)
  /\ step' = "mark"
  /\ UNCHANGED <<rowVars, published, kafkaVars, batch, blockedKeys, stopped>>

MarkPublished(n) ==
  /\ step = "mark"
  /\ Current(n)
  /\ published' = published \cup {n}
  /\ Advance(n)
  /\ UNCHANGED <<rowVars, kafkaVars, blockedKeys, stopped>>

\* A statement or the produce call throws: before the message is sent, after
\* Kafka has it (the acknowledgement is lost), or when the row is marked,
\* where the UPDATE may have been committed all the same.
Fail(n) ==
  /\ \/ step = "attempt" /\ key[n] \notin blockedKeys
     \/ step \in {"produce", "appended", "mark"}
  /\ Current(n)
  /\ \/ UNCHANGED published
     \/ step = "mark" /\ published' = published \cup {n}
  /\ GiveUp(n)
  /\ UNCHANGED <<rowVars, kafkaVars, stopped>>

CallReturns(n) ==
  \/ IncrementAttempts(n)
  \/ Append(n)
  \/ Acknowledge(n)
  \/ MarkPublished(n)
  \/ Fail(n)

-----------------------------------------------------------------------------
(* The process *)

\* onModuleDestroy lets the poll in flight finish and starts no other.
Stop ==
  /\ step # "down"
  /\ ~ stopped
  /\ stopped' = TRUE
  /\ UNCHANGED <<rowVars, published, kafkaVars, pollVars>>

\* The process ends: in order once the last poll is over, or by a crash.
Exit ==
  /\ step # "down"
  /\ step' = "down"
  /\ batch' = {}
  /\ blockedKeys' = {}
  /\ UNCHANGED <<rowVars, published, kafkaVars, stopped>>

Restart ==
  /\ step = "down"
  /\ step' = "idle"
  /\ stopped' = FALSE
  /\ UNCHANGED <<rowVars, published, kafkaVars, batch, blockedKeys>>

-----------------------------------------------------------------------------
Next ==
  \/ \E n \in Rows :
       \/ \E k \in Keys : TakeCreatedAt(n, k)
       \/ \E outcome \in {"committed", "rolledBack"} : EndTransaction(n, outcome)
       \/ Skip(n)
       \/ CallReturns(n)
  \/ Poll
  \/ Stop
  \/ Exit
  \/ Restart

Spec == Init /\ [][Next]_vars

\* The timer fires, every call returns or throws, the loop moves on, a stopped
\* process ends and one that is down is restarted.
Scheduled ==
  /\ WF_vars(Poll)
  /\ WF_vars(\E n \in Rows : Skip(n))
  /\ WF_vars(\E n \in Rows : CallReturns(n))
  /\ WF_vars(stopped /\ step = "idle" /\ Exit)
  /\ WF_vars(Restart)

AcceptedRows == {n \in Rows : key[n] \in Keys \ BrokenKeys}

\* A call made again and again for a key Kafka accepts does not fail each time.
CallsSucceed ==
  /\ SF_vars(\E n \in AcceptedRows : IncrementAttempts(n))
  /\ SF_vars(\E n \in AcceptedRows : Append(n))
  /\ SF_vars(\E n \in AcceptedRows : Acknowledge(n))
  /\ SF_vars(\E n \in AcceptedRows : MarkPublished(n))

\* A crash may happen any number of times, but not for ever.
StaysUp == <>[](step # "down")

FairSpec == Spec /\ Scheduled /\ CallsSucceed /\ StaysUp

-----------------------------------------------------------------------------
(* Properties *)

PublisherTypeOK ==
  /\ key \in [Rows -> Keys \cup {NoKey}]
  /\ status \in [Rows -> {"none", "open", "committed", "rolledBack"}]
  /\ earlier \in [Rows -> SUBSET Rows]
  /\ published \subseteq Rows
  /\ delivered \subseteq Rows
  /\ last \in [Keys -> Rows \cup {NoRow}]
  /\ step \in {"idle", "attempt", "produce", "appended", "mark", "down"}
  /\ batch \subseteq Rows
  /\ blockedKeys \subseteq Keys
  /\ stopped \in BOOLEAN

\* Nothing is lost and nothing is invented: a row is marked published only
\* after Kafka has it, and Kafka only ever gets rows that were committed.
DeliveryFollowsCommit ==
  /\ published \subseteq delivered
  /\ delivered \subseteq Committed

\* Per-key order: Kafka never appends an event of a program after an event
\* that was created when the first was already committed, through failures,
\* lost acknowledgements, re-sends and restarts.
OrderedPerKey ==
  [][\A k \in Keys :
       last'[k] # last[k] =>
         \A m \in delivered : key[m] = k => last'[k] \notin earlier[m]]_vars

\* Every committed row of a key that Kafka accepts is published in the end,
\* through failed calls, crashes and restarts, as long as the rows of refused
\* keys, which are polled again each time, do not fill a whole batch.
PublishedUnlessCrowdedOut ==
  \A n \in Rows :
    status[n] = "committed" /\ key[n] \notin BrokenKeys
      ~> \/ n \in published
         \/ Cardinality({m \in Committed : key[m] \in BrokenKeys}) >= BatchSize

\* outbox-publisher.service.ts:112: "Rows for a different key are unaffected
\* and keep progressing independently" of a key whose rows fail.
KeysProgressIndependently ==
  \A n \in Rows :
    status[n] = "committed" /\ key[n] \notin BrokenKeys ~> n \in published
=============================================================================
