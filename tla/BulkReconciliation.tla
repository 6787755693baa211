------------------------- MODULE BulkReconciliation -------------------------
(***************************************************************************)
(* The treasury's bulk reconciliation messages from Kafka to the tables:    *)
(* KafkaConsumer's runner with a single-message handler, and reconcileBulk  *)
(* as that handler, which gives every program entry of the message its own *)
(* transaction and throws at the end if any of them failed.                *)
(*                                                                         *)
(* CapacityService shows that an entry's transaction acts as one step among *)
(* other commands; here it is one step, and the interleavings are those of *)
(* the entries with retries, crashes, rebalances and HTTP commands.        *)
(***************************************************************************)
EXTENDS CapacityTables, Sequences

CONSTANTS
  MaxOffset,        \* bound: messages the treasury sends
  MaxAttempts,      \* KafkaRetryOptions.attempts
  FirstCommitted,   \* the group's committed offset at first
  Messages          \* Messages[m]: the entries of message m, or Rejected

Rejected == <<>>    \* a message mapBulkReconciliationMessage throws for

VARIABLES
  kind, end, committed, step, position, begun, fetched, attempt, stale,
  stopping, handled, deadLettered, abandoned, skipped,  \* as in KafkaConsumer
  next,       \* the entry reconcileBulk works on next
  failures    \* indices of the entries that failed in this call

\* Any dead letter may fail here, so none is refused for its key.
Consumer ==
  INSTANCE KafkaConsumer WITH Kinds <- {"single"}, ChunkSize <- 1, BlankKeys <- {}

ASSUME BulkAssumption ==
  /\ MaxOffset \in Nat
  /\ MaxAttempts \in Nat \ {0}
  /\ FirstCommitted \in {Consumer!NoOffset, 0}
  /\ Messages \in [0..(MaxOffset - 1) -> Seq(Entries)]

consumerVars == <<kind, end, committed, step, position, begun, fetched, attempt,
                  stale, stopping, handled, deadLettered, abandoned, skipped>>
loopVars == <<next, failures>>
vars == <<consumerVars, tables, loopVars>>

Message == Messages[position]

\* programsService.findByIdForUpdate finds a row.
Exists(p) == programState[p] = "LIVE"

Init ==
  /\ Consumer!Init
  /\ TablesInit
  /\ next = 1
  /\ failures = {}

-----------------------------------------------------------------------------
(* One entry *)

\* Mutant: an entry is not looked up in the inbox.
CommitEntryAgain(e) ==
  /\ Exists(e.program)
  /\ CommitReconciliation(e, IF e.version <= version[e.program]
                               THEN "IGNORED_STALE" ELSE "APPLIED")

\* runReconcileTransaction: the inbox ends an entry that was processed before.
CommitEntry(e) ==
  /\ ExternalEventId(e) \notin inbox
  /\ Exists(e.program)
  /\ CommitReconciliation(e, IF e.version <= version[e.program]
                               THEN "IGNORED_STALE" ELSE "APPLIED")

InLoop(k) == step = "invoke" /\ next = k

\* Processed, now or before.
EntryReturns(k) ==
  /\ InLoop(k)
  /\ \/ CommitEntry(Message[k])
     \/ ExternalEventId(Message[k]) \in inbox /\ UNCHANGED tables
  /\ next' = k + 1
  /\ UNCHANGED <<failures, consumerVars>>

\* Mutant: the first failure ends the loop.
EntryThrowsBreaks(k) ==
  /\ InLoop(k)
  /\ UNCHANGED tables \/ CommitEntry(Message[k])
  /\ next' = Len(Message) + 1
  /\ failures' = failures \cup {k}
  /\ UNCHANGED consumerVars

\* ProgramNotFound, or a statement fails; when it is the COMMIT whose answer is
\* lost, the rows are there all the same.  The loop goes on.
EntryThrows(k) ==
  /\ InLoop(k)
  /\ UNCHANGED tables \/ CommitEntry(Message[k])
  /\ next' = k + 1
  /\ failures' = failures \cup {k}
  /\ UNCHANGED consumerVars

-----------------------------------------------------------------------------
(* The handler's call *)

\* Mutant: failures are logged only.
CallSucceedsAlways == Message # Rejected
CallSucceeds == Message # Rejected /\ failures = {}

\* Mutant: the array of failures outlives the call.
LeaveLoopOnly == next' = 1 /\ UNCHANGED failures
LeaveLoop == next' = 1 /\ failures' = {}

CallEnds ==
  /\ step = "invoke"
  /\ next > Len(Message)
  /\ IF CallSucceeds THEN Consumer!InvokeSucceeds ELSE Consumer!InvokeThrows
  /\ LeaveLoop
  /\ UNCHANGED tables

-----------------------------------------------------------------------------
(* The runner, and what happens around it *)

RunnerStep ==
  /\ \/ Consumer!DeadLetterSucceeds
     \/ Consumer!DeadLetterThrows
     \/ Consumer!Commit
     \/ Consumer!CommitThrows
     \/ Consumer!CommitDead
     \/ Consumer!LastCommitThrows
     \/ next = 1 /\ Consumer!HeartbeatThrows   \* before the next attempt's call
  /\ UNCHANGED <<tables, loopVars>>

GroupStep ==
  /\ \/ Consumer!Produce
     \/ \E n \in 1..MaxOffset : Consumer!Fetch(n)
     \/ Consumer!Rebalance
     \/ Consumer!Rejoin
     \/ Consumer!Stop
     \/ Consumer!Start
  /\ UNCHANGED <<tables, loopVars>>

\* A crash rolls back the entry's transaction and forgets the loop.
Exit == Consumer!Exit /\ LeaveLoop /\ UNCHANGED tables

\* After a rebalance another member of the group works on the same messages.
OtherMember(m, k) ==
  /\ stale
  /\ committed <= m /\ m < end
  /\ CommitEntry(Messages[m][k])
  /\ UNCHANGED <<loopVars, consumerVars>>

CreateProgram(p, t) ==
  /\ programState[p] = "ABSENT"
  /\ CommitProgram(p, t)
  /\ UNCHANGED <<loopVars, consumerVars>>

DeleteProgram(p) ==
  /\ Exists(p)
  /\ ~ Referenced(p)
  /\ CommitDelete(p)
  /\ UNCHANGED <<loopVars, consumerVars>>

-----------------------------------------------------------------------------
EntryIndices(m) == IF m \in DOMAIN Messages THEN 1..Len(Messages[m]) ELSE {}

Next ==
  \/ \E k \in EntryIndices(position) : EntryReturns(k) \/ EntryThrows(k)
  \/ CallEnds
  \/ RunnerStep
  \/ GroupStep
  \/ Exit
  \/ \E m \in DOMAIN Messages : \E k \in EntryIndices(m) : OtherMember(m, k)
  \/ \E p \in Programs : DeleteProgram(p) \/ \E t \in Totals : CreateProgram(p, t)

Spec == Init /\ [][Next]_vars

-----------------------------------------------------------------------------
(* Properties *)

Recorded(e) == ExternalEventId(e) \in inbox

BulkTypeOK ==
  /\ Consumer!ConsumerTypeOK
  /\ TablesTypeOK
  /\ next \in Nat \ {0}
  /\ step # "invoke" => next = 1
  /\ failures \subseteq 1..(next - 1)

\* Success means done: when the handler has returned for a message, every entry
\* of it is recorded and its program is at the entry's version or a newer one,
\* whatever was tried, lost or done by another member before.
HandledMeansRecorded ==
  \A m \in handled :
    /\ Messages[m] # Rejected
    /\ \A k \in EntryIndices(m) :
         /\ Recorded(Messages[m][k])
         /\ version[Messages[m][k].program] >= Messages[m][k].version

\* reconciliations.service.ts:71-72: "unrelated Programs in the same message
\* are not blocked" by an entry that fails: when the last attempt gives a
\* message up, each of its entries is recorded or failed in that attempt.
GivenUpEntriesTried ==
  [][step = "invoke" /\ step' = "deadLetter" =>
       \A k \in EntryIndices(position) :
         Recorded(Messages[position][k]) \/ k \in failures]_vars

\* reconciliations.service.ts:73-74: a message that was handled and comes again,
\* after a lost commit, a rebalance or a crash and after whatever else happened
\* since, changes no table.
RedeliveryHarmless ==
  [][step = "invoke" /\ position \in handled /\ next' # next =>
       UNCHANGED tables]_vars
=============================================================================
