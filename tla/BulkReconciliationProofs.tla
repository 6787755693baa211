---------------------- MODULE BulkReconciliationProofs ----------------------
(***************************************************************************)
(* Proofs about BulkReconciliation, for any messages, entries, programs and *)
(* number of attempts: its runner is a KafkaConsumer, a message that was    *)
(* handled has all its entries recorded, one that is given up had each of   *)
(* them tried, and one that comes again changes nothing.                   *)
(***************************************************************************)
EXTENDS BulkReconciliation, FiniteSetTheorems, TLAPS

\* What is proved about KafkaConsumer, for the runner's parameters.
Runner == INSTANCE KafkaConsumerProofs
            WITH Kinds <- {"single"}, ChunkSize <- 1, BlankKeys <- {}

-----------------------------------------------------------------------------
(* The runner is a KafkaConsumer *)

\* The parameters are as KafkaConsumer assumes them.
LEMMA RunnerAssumption == Runner!ConsumerAssumption
  BY BulkAssumption DEF Runner!ConsumerAssumption, Runner!NoOffset, Consumer!NoOffset

\* Runner's definitions are those of Consumer: the two name one system.
LEMMA SameConsumer ==
  /\ Consumer!Init <=> Runner!Init
  /\ [Consumer!Next]_(Consumer!vars) <=> [Runner!Next]_(Runner!vars)
  /\ Consumer!ConsumerTypeOK <=> Runner!ConsumerTypeOK
  /\ Consumer!PassedMessagesDone <=> Runner!PassedMessagesDone
<1> USE DEF Consumer!brokerVars, Runner!brokerVars, Consumer!batchVars,
        Runner!batchVars, Consumer!processVars, Runner!processVars,
        Consumer!historyVars, Runner!historyVars
<1>0. /\ Consumer!Offsets = Runner!Offsets
      /\ Consumer!NoOffset = Runner!NoOffset
      /\ Consumer!Chunk = Runner!Chunk
      /\ Consumer!AfterChunk = Runner!AfterChunk
  <2>1. /\ Consumer!Offsets = Runner!Offsets
        /\ Consumer!NoOffset = Runner!NoOffset
    BY DEF Consumer!Offsets, Runner!Offsets, Consumer!NoOffset, Runner!NoOffset
  <2>2. Consumer!Chunk = Runner!Chunk
    BY <2>1 DEF Consumer!Chunk, Runner!Chunk
  <2> QED
    BY <2>1, <2>2 DEF Consumer!AfterChunk, Runner!AfterChunk, Consumer!Cardinality,
       Runner!Cardinality
<1>1. /\ Consumer!InvokeSucceeds <=> Runner!InvokeSucceeds
      /\ Consumer!InvokeThrows <=> Runner!InvokeThrows
      /\ Consumer!HeartbeatThrows <=> Runner!HeartbeatThrows
  BY <1>0 DEF Consumer!InvokeSucceeds, Runner!InvokeSucceeds, Consumer!InvokeThrows,
     Runner!InvokeThrows, Consumer!HeartbeatThrows, Runner!HeartbeatThrows,
     Consumer!NextChunk, Runner!NextChunk, Consumer!Retry, Runner!Retry
<1>2. /\ Consumer!DeadLetterSucceeds <=> Runner!DeadLetterSucceeds
      /\ Consumer!DeadLetterThrows <=> Runner!DeadLetterThrows
  BY <1>0 DEF Consumer!DeadLetterSucceeds, Runner!DeadLetterSucceeds,
     Consumer!DeadLetterThrows, Runner!DeadLetterThrows, Consumer!NextChunk,
     Runner!NextChunk, Consumer!Resolve, Runner!Resolve, Consumer!Refused,
     Runner!Refused
<1>3. /\ Consumer!Commit <=> Runner!Commit
      /\ Consumer!CommitThrows <=> Runner!CommitThrows
      /\ Consumer!CommitDead <=> Runner!CommitDead
      /\ Consumer!CommitBatch <=> Runner!CommitBatch
      /\ Consumer!LastCommitThrows <=> Runner!LastCommitThrows
  BY <1>0 DEF Consumer!Commit, Runner!Commit, Consumer!CommitThrows, Runner!CommitThrows,
     Consumer!CommitDead, Runner!CommitDead, Consumer!CommitBatch,
     Runner!CommitBatch, Consumer!LastCommitThrows, Runner!LastCommitThrows,
     Consumer!CommitsAt, Runner!CommitsAt, Consumer!Resolve, Runner!Resolve,
     Consumer!Retry, Runner!Retry
<1>4. /\ Consumer!Produce <=> Runner!Produce
      /\ \A n \in 1..MaxOffset : Consumer!Fetch(n) <=> Runner!Fetch(n)
      /\ Consumer!Rebalance <=> Runner!Rebalance
      /\ Consumer!Rejoin <=> Runner!Rejoin
      /\ Consumer!Stop <=> Runner!Stop
      /\ Consumer!Exit <=> Runner!Exit
      /\ Consumer!Start <=> Runner!Start
  BY <1>0 DEF Consumer!Produce, Runner!Produce, Consumer!Fetch, Runner!Fetch,
     Consumer!Rebalance, Runner!Rebalance, Consumer!Rejoin, Runner!Rejoin,
     Consumer!Stop, Runner!Stop, Consumer!Exit, Runner!Exit, Consumer!Start,
     Runner!Start, Consumer!FetchFromCommitted, Runner!FetchFromCommitted
<1>5. [Consumer!Next]_(Consumer!vars) <=> [Runner!Next]_(Runner!vars)
  BY <1>1, <1>2, <1>3, <1>4 DEF Consumer!Next, Runner!Next, Consumer!CallReturns, Runner!CallReturns,
     Consumer!vars, Runner!vars
<1>6. Consumer!Init <=> Runner!Init
  BY DEF Consumer!Init, Runner!Init
<1>7. /\ Consumer!ConsumerTypeOK <=> Runner!ConsumerTypeOK
      /\ Consumer!PassedMessagesDone <=> Runner!PassedMessagesDone
  BY <1>0 DEF Consumer!ConsumerTypeOK, Runner!ConsumerTypeOK, Consumer!PassedMessagesDone,
     Runner!PassedMessagesDone, Consumer!Steps, Runner!Steps, Consumer!Done,
     Runner!Done
<1> QED
  BY <1>5, <1>6, <1>7

\* A step of the composition is a step of its runner, or leaves it alone.
LEMMA StepsRun ==
  ASSUME [Next]_vars
  PROVE  [Consumer!Next]_(Consumer!vars)
<1>1. ASSUME UNCHANGED consumerVars PROVE UNCHANGED Consumer!vars
  BY <1>1 DEF consumerVars, Consumer!vars, Consumer!brokerVars, Consumer!batchVars,
     Consumer!processVars, Consumer!historyVars
<1>2. ASSUME NEW k, EntryReturns(k) \/ EntryThrows(k) PROVE UNCHANGED consumerVars
  BY <1>2 DEF EntryReturns, EntryThrows
<1>3. ASSUME CallEnds PROVE Consumer!Next
  BY <1>3 DEF CallEnds, Consumer!Next, Consumer!CallReturns
<1>4. ASSUME RunnerStep PROVE Consumer!Next
  BY <1>4 DEF RunnerStep, Consumer!Next, Consumer!CallReturns
<1>5. ASSUME GroupStep \/ Exit PROVE Consumer!Next
  BY <1>5 DEF GroupStep, Exit, Consumer!Next
<1>6. ASSUME NEW m, NEW k, OtherMember(m, k) PROVE UNCHANGED consumerVars
  BY <1>6 DEF OtherMember
<1>7. ASSUME NEW p, NEW t, DeleteProgram(p) \/ CreateProgram(p, t)
      PROVE  UNCHANGED consumerVars
  BY <1>7 DEF DeleteProgram, CreateProgram
<1>8. ASSUME UNCHANGED vars PROVE UNCHANGED consumerVars
  BY <1>8 DEF vars
<1>9. CASE Next
  <2>1. CASE \E p \in Programs : DeleteProgram(p) \/ \E t \in Totals : CreateProgram(p, t)
    <3>1. PICK p \in Programs : DeleteProgram(p) \/ \E t \in Totals : CreateProgram(p, t)
      BY <2>1
    <3> QED
      BY <1>1, <1>7, <3>1
  <2> QED
    BY <1>1, <1>2, <1>3, <1>4, <1>5, <1>6, <1>9, <2>1 DEF Next
<1> QED
  BY <1>1, <1>8, <1>9

\* reconcileBulk's runner behaves as KafkaConsumerRunnerService does for any
\* handler, so what is proved of KafkaConsumer holds here.
THEOREM RunsAsConsumer == Spec => Consumer!Spec
<1>1. Init => Consumer!Init
  BY DEF Init
<1>2. [Next]_vars => [Consumer!Next]_(Consumer!vars)
  BY StepsRun
<1>3. QED
  BY <1>1, <1>2, PTL DEF Spec, Consumer!Spec

\* While the handler is called the runner works on one message.
LEMMA OneMessage ==
  ASSUME Runner!ConsumerInv, step = "invoke"
  PROVE  Consumer!Chunk = {position} /\ position \in DOMAIN Messages
<1>1. /\ Runner!AfterChunk \in Int
      /\ Runner!Chunk = position..(Runner!AfterChunk - 1)
      /\ Runner!Chunk \subseteq Runner!Offsets
      /\ kind = "single" => Runner!AfterChunk = position + 1
  BY RunnerAssumption, Runner!ChunkIsInterval DEF Runner!ConsumerInv, Runner!Working
<1>2. kind = "single" /\ position \in Int
  BY BulkAssumption DEF Runner!ConsumerInv, Runner!ConsumerTypeOK
<1>3. Runner!Chunk = {position}
  BY <1>1, <1>2
<1>4. position \in 0..(MaxOffset - 1)
  BY <1>1, <1>3 DEF Runner!Offsets
<1> QED
  BY <1>3, <1>4, BulkAssumption DEF Consumer!Chunk, Runner!Chunk, Consumer!Offsets,
     Runner!Offsets

-----------------------------------------------------------------------------
(* The inductive invariant *)

\* A recorded entry's program is at the entry's version or a newer one, and the
\* audit row keeps it from being deleted.
RecordedNewest ==
  \A e \in Entries : Recorded(e) =>
    /\ version[e.program] >= e.version
    /\ \E x \in reconciliations : x.program = e.program

\* The loop of reconcileBulk: what it has behind it is recorded, or noted as failed.
LoopOK ==
  /\ next \in Nat \ {0}
  /\ step # "invoke" => next = 1
  /\ failures \subseteq 1..(next - 1)
  /\ \A k \in EntryIndices(position) :
       k < next => k \in failures \/ Recorded(Message[k])

BulkInv ==
  /\ Runner!ConsumerInv
  /\ TablesTypeOK
  /\ RecordedNewest
  /\ LoopOK
  /\ HandledMeansRecorded

-----------------------------------------------------------------------------
(* The tables *)

\* An entry of a message is one of Entries.
LEMMA EntryOfMessage ==
  ASSUME NEW m \in DOMAIN Messages, NEW k \in EntryIndices(m)
  PROVE  Messages[m][k] \in Entries
<1>1. Messages[m] \in Seq(Entries)
  BY BulkAssumption
<1>2. k \in 1..Len(Messages[m])
  BY DEF EntryIndices
<1> QED
  BY <1>1, <1>2

\* What is left of the tables' invariants when an entry's transaction commits.
LEMMA EntryCommits ==
  ASSUME TablesTypeOK, RecordedNewest, NEW e \in Entries, CommitEntry(e)
  PROVE  TablesTypeOK' /\ RecordedNewest' /\ inbox \subseteq inbox'
<1> DEFINE p == e.program
<1>1. /\ e.program \in Programs /\ e.version \in Nat /\ e.total \in Nat
      /\ \A x \in Entries : x.program \in Programs /\ x.version \in Nat
      /\ ExternalEventId(e) \in {ExternalEventId(x) : x \in Entries}
  BY TablesAssumption
<1>2. PICK status \in {"APPLIED", "IGNORED_STALE"} :
        /\ status = IF e.version <= version[p] THEN "IGNORED_STALE" ELSE "APPLIED"
        /\ CommitReconciliation(e, status)
  BY DEF CommitEntry
<1>3. /\ inbox' = inbox \cup {ExternalEventId(e)}
      /\ reconciliations' = reconciliations \cup {ReconciliationRow(e, status)}
      /\ ReconciliationRow(e, status).program = p
      /\ UNCHANGED <<programState, invoice, reservation, releases>>
  BY <1>2 DEF CommitReconciliation, ReconciliationRow
<1>4. /\ version' \in [Programs -> Nat] /\ total' \in [Programs -> Nat]
      /\ version'[p] >= e.version
      /\ \A q \in Programs : version'[q] >= version[q]
  <2>1. CASE status = "APPLIED"
    <3>1. /\ version' = [version EXCEPT ![p] = e.version]
          /\ total' = [total EXCEPT ![p] = e.total]
          /\ ~ (e.version <= version[p])
      BY <1>2, <2>1 DEF CommitReconciliation
    <3> QED
      BY <1>1, <3>1 DEF TablesTypeOK
  <2>2. CASE status # "APPLIED"
    <3>1. version' = version /\ total' = total /\ e.version <= version[p]
      BY <1>2, <2>2 DEF CommitReconciliation
    <3> QED
      BY <1>1, <3>1 DEF TablesTypeOK
  <2> QED
    BY <2>1, <2>2
<1>5. TablesTypeOK'
  <2> HIDE DEF ExternalEventId
  <2>1. /\ ReconciliationApplied(e) \in
             [id: Nat, topic: {"reservations.events", "releases.events",
                               "reconciliations.events"}, key: Programs, ref: Nat]
        /\ IsFiniteSet(outbox \cup {ReconciliationApplied(e)})
    <3>1. IsFiniteSet(outbox)
      BY DEF TablesTypeOK
    <3>2. IsFiniteSet(EventsOf("reconciliations.events", p, e.version))
      BY <3>1, FS_Subset DEF EventsOf
    <3>3. NextId(EventsOf("reconciliations.events", p, e.version)) \in Nat
      BY <3>2, FS_CardinalityType DEF NextId
    <3>4. IsFiniteSet(outbox \cup {ReconciliationApplied(e)})
      BY <3>1, FS_AddElement
    <3> QED
      BY <1>1, <3>3, <3>4 DEF ReconciliationApplied, OutboxRow
  <2>2. ReconciliationRow(e, status) \in
          [id: {ExternalEventId(x) : x \in Entries}, program: Programs,
           version: Nat, total: Nat, status: {"APPLIED", "IGNORED_STALE"}]
    BY <1>1 DEF ReconciliationRow
  <2> HIDE DEF ReconciliationApplied, ReconciliationRow
  <2>3. outbox' \in {outbox, outbox \cup {ReconciliationApplied(e)}}
    BY <1>2 DEF CommitReconciliation
  <2> QED
    BY <1>1, <1>3, <1>4, <2>1, <2>2, <2>3 DEF TablesTypeOK
<1>6. ASSUME NEW x \in Entries, Recorded(x)'
      PROVE  /\ version'[x.program] >= x.version
             /\ \E y \in reconciliations' : y.program = x.program
  <2>1. CASE Recorded(x)
    <3>1. version[x.program] >= x.version /\ \E y \in reconciliations : y.program = x.program
      BY <2>1 DEF RecordedNewest
    <3>2. version[x.program] \in Nat /\ version'[x.program] \in Nat
          /\ version'[x.program] >= version[x.program]
      BY <1>1, <1>4 DEF TablesTypeOK
    <3> QED
      BY <1>1, <1>3, <3>1, <3>2
  <2>2. CASE ~ Recorded(x)
    <3>1. ExternalEventId(x) = ExternalEventId(e)
      BY <1>3, <1>6, <2>2 DEF Recorded
    <3>2. x.program = p /\ x.version = e.version
      BY <3>1 DEF ExternalEventId
    <3> QED
      BY <1>3, <1>4, <3>2
  <2> QED
    BY <2>1, <2>2
<1> QED
  BY <1>3, <1>5, <1>6 DEF RecordedNewest

\* A program is created before anything refers to it, and deleted only when
\* nothing does: no recorded entry is forgotten.
LEMMA ProgramsCommit ==
  ASSUME TablesTypeOK, RecordedNewest, NEW p \in Programs,
         DeleteProgram(p) \/ \E t \in Totals : CreateProgram(p, t)
  PROVE  TablesTypeOK' /\ RecordedNewest' /\ inbox' = inbox
<1>1. CASE DeleteProgram(p)
  <2>1. /\ programState' = [programState EXCEPT ![p] = "DELETED"]
        /\ total' = [total EXCEPT ![p] = 0]
        /\ version' = [version EXCEPT ![p] = 0]
        /\ UNCHANGED <<invoice, reservation, releases, reconciliations, inbox, outbox>>
        /\ \A x \in reconciliations : x.program # p
    BY <1>1 DEF DeleteProgram, CommitDelete, Referenced
  <2>2. TablesTypeOK'
    BY <2>1 DEF TablesTypeOK
  <2>3. \A e \in Entries : Recorded(e)' => e.program # p /\ version'[e.program] = version[e.program]
    <3> SUFFICES ASSUME NEW e \in Entries, Recorded(e)
                 PROVE  e.program # p /\ version'[e.program] = version[e.program]
      BY <2>1 DEF Recorded
    <3>1. e.program \in Programs /\ e.program # p
      BY <2>1, TablesAssumption DEF RecordedNewest
    <3> QED
      BY <2>1, <3>1 DEF TablesTypeOK
  <2> QED
    BY <2>1, <2>2, <2>3 DEF RecordedNewest, Recorded
<1>2. ASSUME NEW t \in Totals, CreateProgram(p, t)
      PROVE  TablesTypeOK' /\ RecordedNewest' /\ inbox' = inbox
  <2>1. t \in Nat
    BY TablesAssumption
  <2> QED
    BY <1>2, <2>1 DEF CreateProgram, CommitProgram, TablesTypeOK, RecordedNewest, Recorded
<1> QED
  BY <1>1, <1>2

\* No step makes an entry unrecorded, or lets its program fall behind it.
LEMMA TablesNext ==
  ASSUME BulkInv, [Next]_vars
  PROVE  TablesTypeOK' /\ RecordedNewest' /\ inbox \subseteq inbox'
<1> USE DEF BulkInv
<1>1. ASSUME UNCHANGED tables PROVE TablesTypeOK' /\ RecordedNewest' /\ inbox' = inbox
  BY <1>1 DEF tables, programVars, TablesTypeOK, RecordedNewest, Recorded
<1>2. ASSUME NEW k \in EntryIndices(position), EntryReturns(k) \/ EntryThrows(k)
      PROVE  UNCHANGED tables \/ (CommitEntry(Message[k]) /\ Message[k] \in Entries)
  <2>1. position \in DOMAIN Messages
    BY <1>2, OneMessage DEF EntryReturns, EntryThrows, InLoop
  <2> QED
    BY <1>2, <2>1, EntryOfMessage DEF EntryReturns, EntryThrows, Message
<1>3. ASSUME NEW m \in DOMAIN Messages, NEW k \in EntryIndices(m), OtherMember(m, k)
      PROVE  CommitEntry(Messages[m][k]) /\ Messages[m][k] \in Entries
  BY <1>3, EntryOfMessage DEF OtherMember
<1>4. CASE CallEnds \/ RunnerStep \/ GroupStep \/ Exit \/ UNCHANGED vars
  BY <1>1, <1>4 DEF CallEnds, RunnerStep, GroupStep, Exit, vars
<1> QED
  BY <1>1, <1>2, <1>3, <1>4, EntryCommits, ProgramsCommit DEF Next

-----------------------------------------------------------------------------
(* The loop *)

\* What happens to the runner between two steps of the loop leaves the loop's
\* message and progress alone.
LEMMA RunnerAside ==
  ASSUME LoopOK, RunnerStep \/ GroupStep
  PROVE  /\ UNCHANGED <<tables, next, failures, handled>>
         /\ next # 1 => UNCHANGED <<step, position>>
         /\ ~ (step = "invoke" /\ step' = "deadLetter")
<1>1. CASE RunnerStep
  <2>1. next = 1
    BY <1>1 DEF RunnerStep, LoopOK, Consumer!DeadLetterSucceeds, Consumer!DeadLetterThrows,
       Consumer!Commit, Consumer!CommitThrows, Consumer!CommitDead, Consumer!CommitsAt,
       Consumer!LastCommitThrows
  <2> QED
    BY <1>1, <2>1 DEF RunnerStep, loopVars, Consumer!historyVars,
       Consumer!DeadLetterSucceeds, Consumer!DeadLetterThrows, Consumer!Commit,
       Consumer!CommitThrows, Consumer!CommitDead, Consumer!CommitsAt,
       Consumer!LastCommitThrows, Consumer!HeartbeatThrows
<1>2. CASE GroupStep
  BY <1>2 DEF GroupStep, loopVars, LoopOK, Consumer!historyVars, Consumer!batchVars,
     Consumer!Produce, Consumer!Fetch, Consumer!Rebalance, Consumer!Rejoin,
     Consumer!Stop, Consumer!Start, Consumer!FetchFromCommitted
<1> QED
  BY <1>1, <1>2

\* The loop goes on to the next entry, or starts anew with the next call.
LEMMA LoopNext ==
  ASSUME BulkInv, [Next]_vars
  PROVE  LoopOK'
<1> USE DEF BulkInv
<1>1. inbox \subseteq inbox'
  BY TablesNext
<1>2. ASSUME NEW k \in EntryIndices(position), EntryReturns(k) \/ EntryThrows(k)
      PROVE  LoopOK'
  <2>1. /\ step = "invoke" /\ next = k /\ next' = k + 1
        /\ UNCHANGED <<step, position>>
        /\ failures' \in {failures, failures \cup {k}}
        /\ k \in failures' \/ ExternalEventId(Message[k]) \in inbox'
    <3>1. ASSUME CommitEntry(Message[k]) PROVE ExternalEventId(Message[k]) \in inbox'
      BY <3>1 DEF CommitEntry, CommitReconciliation
    <3>2. ASSUME UNCHANGED tables PROVE inbox' = inbox
      BY <3>2 DEF tables
    <3>3. CASE EntryReturns(k)
      BY <3>1, <3>2, <3>3 DEF EntryReturns, InLoop, consumerVars
    <3>4. CASE EntryThrows(k)
      BY <3>4 DEF EntryThrows, InLoop, consumerVars
    <3> QED
      BY <1>2, <3>3, <3>4
  <2>2. next' \in Nat \ {0} /\ failures' \subseteq 1..(next' - 1)
    BY <2>1 DEF LoopOK
  <2>3. ASSUME NEW n \in EntryIndices(position), n < next'
        PROVE  n \in failures' \/ ExternalEventId(Message[n]) \in inbox'
    <3>1. n \in Int /\ k \in Int
      BY <2>1 DEF EntryIndices, LoopOK
    <3>2. n = k \/ n < next
      BY <2>1, <2>3, <3>1
    <3> QED
      BY <1>1, <2>1, <3>2 DEF LoopOK, Recorded
  <2> QED
    BY <2>1, <2>2, <2>3 DEF LoopOK, Recorded, Message
<1>3. CASE CallEnds \/ Exit
  BY <1>3 DEF CallEnds, Exit, LeaveLoop, LoopOK, EntryIndices
<1>4. CASE RunnerStep \/ GroupStep
  <2>1. /\ UNCHANGED <<next, failures>>
        /\ next # 1 => UNCHANGED <<step, position>>
    BY <1>4, RunnerAside
  <2>2. CASE next = 1
    BY <2>1, <2>2 DEF LoopOK, EntryIndices
  <2>3. CASE next # 1
    BY <1>1, <2>1, <2>3 DEF LoopOK, Recorded, Message
  <2> QED
    BY <2>2, <2>3
<1>5. ASSUME UNCHANGED <<step, position, next, failures>>
      PROVE  LoopOK'
  BY <1>1, <1>5 DEF LoopOK, Recorded, Message
<1>6. ASSUME NEW m, NEW k, OtherMember(m, k) PROVE LoopOK'
  BY <1>5, <1>6 DEF OtherMember, consumerVars, loopVars
<1>7. ASSUME NEW p, NEW t, DeleteProgram(p) \/ CreateProgram(p, t) PROVE LoopOK'
  BY <1>5, <1>7 DEF DeleteProgram, CreateProgram, consumerVars, loopVars
<1>8. CASE UNCHANGED vars
  BY <1>5, <1>8 DEF vars, consumerVars, loopVars
<1>9. CASE Next
  <2>1. CASE \E p \in Programs : DeleteProgram(p) \/ \E t \in Totals : CreateProgram(p, t)
    <3>1. PICK p \in Programs : DeleteProgram(p) \/ \E t \in Totals : CreateProgram(p, t)
      BY <2>1
    <3> QED
      BY <1>7, <3>1
  <2> QED
    BY <1>2, <1>3, <1>4, <1>6, <1>9, <2>1 DEF Next
<1> QED
  BY <1>8, <1>9

-----------------------------------------------------------------------------
(* Handled messages *)

\* A message becomes handled only when its loop has come to its end with no
\* entry failed.
LEMMA NewlyHandled ==
  ASSUME BulkInv, [Next]_vars, NEW m \in handled', m \notin handled
  PROVE  /\ m = position /\ m \in DOMAIN Messages
         /\ Message # Rejected
         /\ \A k \in EntryIndices(m) : Recorded(Message[k])
<1> USE DEF BulkInv
<1>1. CallEnds /\ CallSucceeds
  <2>1. ASSUME NEW k, EntryReturns(k) \/ EntryThrows(k) PROVE handled' = handled
    BY <2>1 DEF EntryReturns, EntryThrows, consumerVars
  <2>2. ASSUME NEW n, NEW k, OtherMember(n, k) PROVE handled' = handled
    BY <2>2 DEF OtherMember, consumerVars
  <2>3. ASSUME NEW p, NEW t, DeleteProgram(p) \/ CreateProgram(p, t)
        PROVE  handled' = handled
    BY <2>3 DEF DeleteProgram, CreateProgram, consumerVars
  <2>4. ASSUME CallEnds, ~ CallSucceeds PROVE handled' = handled
    BY <2>4 DEF CallEnds, Consumer!InvokeThrows, Consumer!historyVars
  <2>5. ASSUME Exit \/ UNCHANGED vars PROVE handled' = handled
    BY <2>5 DEF Exit, Consumer!Exit, Consumer!historyVars, vars, consumerVars
  <2>6. ASSUME RunnerStep \/ GroupStep PROVE handled' = handled
    BY <2>6, RunnerAside
  <2> QED
    BY <2>1, <2>2, <2>3, <2>4, <2>5, <2>6 DEF Next
<1>2. /\ step = "invoke" /\ next > Len(Message)
      /\ Message # Rejected /\ failures = {}
      /\ handled' = handled \cup Consumer!Chunk
  BY <1>1 DEF CallEnds, CallSucceeds, Consumer!InvokeSucceeds
<1>3. m = position /\ m \in DOMAIN Messages
  BY <1>2, OneMessage
<1>4. \A k \in EntryIndices(m) : k < next
  <2>1. Len(Message) \in Nat /\ next \in Nat
    <3>1. Message \in Seq(Entries)
      BY <1>3, BulkAssumption DEF Message
    <3> QED
      BY <3>1 DEF LoopOK
  <2> QED
    BY <1>2, <1>3, <2>1 DEF EntryIndices, Message
<1> QED
  BY <1>2, <1>3, <1>4 DEF LoopOK

\* The invariant of every step.
LEMMA BulkNext ==
  ASSUME BulkInv, [Next]_vars
  PROVE  BulkInv'
<1> USE DEF BulkInv
<1>1. Runner!ConsumerInv'
  BY StepsRun, SameConsumer, RunnerAssumption, Runner!ConsumerNext DEF Runner!Kept
<1>2. TablesTypeOK' /\ RecordedNewest' /\ inbox \subseteq inbox'
  BY TablesNext
<1>3. ASSUME NEW m \in handled'
      PROVE  /\ m \in DOMAIN Messages
             /\ Messages[m] # Rejected
             /\ \A k \in EntryIndices(m) : Recorded(Messages[m][k])
  <2>1. CASE m \in handled
    <3>1. m \in DOMAIN Messages
      BY <2>1, BulkAssumption DEF Runner!ConsumerInv, Runner!ConsumerTypeOK, Runner!Offsets
    <3> QED
      BY <2>1, <3>1 DEF HandledMeansRecorded
  <2>2. CASE m \notin handled
    BY <1>3, <2>2, NewlyHandled DEF Message
  <2> QED
    BY <2>1, <2>2
<1>4. HandledMeansRecorded'
  <2>1. ASSUME NEW m \in handled', NEW k \in EntryIndices(m)
        PROVE  Recorded(Messages[m][k])' /\ version'[Messages[m][k].program] >= Messages[m][k].version
    <3>1. Messages[m][k] \in Entries
      BY <1>3, EntryOfMessage
    <3>2. Recorded(Messages[m][k])'
      BY <1>2, <1>3 DEF Recorded
    <3> QED
      BY <1>2, <3>1, <3>2 DEF RecordedNewest
  <2> QED
    BY <1>3, <2>1 DEF HandledMeansRecorded
<1> QED
  BY <1>1, <1>2, <1>4, LoopNext

LEMMA BulkInit == Init => BulkInv
<1> SUFFICES ASSUME Init PROVE BulkInv
  OBVIOUS
<1>1. Runner!ConsumerInv
  BY SameConsumer, RunnerAssumption, Runner!InitInvariant DEF Init
<1>2. TablesTypeOK /\ RecordedNewest
  BY FS_EmptySet DEF Init, TablesInit, TablesTypeOK, RecordedNewest, Recorded
<1>3. LoopOK /\ HandledMeansRecorded
  BY DEF Init, Consumer!Init, LoopOK, HandledMeansRecorded, EntryIndices
<1> QED
  BY <1>1, <1>2, <1>3 DEF BulkInv

-----------------------------------------------------------------------------
(* Theorems *)

\* The inductive invariant holds in every behaviour.
THEOREM BulkInvariant == Spec => []BulkInv
  BY BulkInit, BulkNext, PTL DEF Spec

\* Offsets, attempts and tables keep their types, and the loop its bounds.
THEOREM BulkTypes == Spec => []BulkTypeOK
<1>1. BulkInv => BulkTypeOK
  BY SameConsumer DEF BulkInv, BulkTypeOK, LoopOK, Runner!ConsumerInv
<1>2. QED
  BY <1>1, BulkInvariant, PTL

\* When reconcileBulk has returned for a message, every entry of it is recorded
\* and its program at the entry's version or a newer one.
THEOREM HandledAreRecorded == Spec => []HandledMeansRecorded
<1>1. BulkInv => HandledMeansRecorded
  BY DEF BulkInv
<1>2. QED
  BY <1>1, BulkInvariant, PTL

\* When the last attempt gives a message up, each of its entries is recorded
\* or failed in that attempt: none was blocked by another one's failure.
THEOREM EveryEntryTried == Spec => GivenUpEntriesTried
<1>1. ASSUME BulkInv, [Next]_vars, step = "invoke", step' = "deadLetter",
             NEW k \in EntryIndices(position)
      PROVE  Recorded(Messages[position][k]) \/ k \in failures
  <2>1. CallEnds
    <3>1. ASSUME NEW n, EntryReturns(n) \/ EntryThrows(n) PROVE step' = step
      BY <3>1 DEF EntryReturns, EntryThrows, consumerVars
    <3>2. ASSUME NEW m, NEW n, OtherMember(m, n) PROVE step' = step
      BY <3>2 DEF OtherMember, consumerVars
    <3>3. ASSUME NEW p, NEW t, DeleteProgram(p) \/ CreateProgram(p, t) PROVE step' = step
      BY <3>3 DEF DeleteProgram, CreateProgram, consumerVars
    <3>4. ASSUME Exit PROVE step' = "down"
      BY <3>4 DEF Exit, Consumer!Exit
    <3>5. ~ (RunnerStep \/ GroupStep)
      BY <1>1, RunnerAside DEF BulkInv
    <3> QED
      BY <1>1, <3>1, <3>2, <3>3, <3>4, <3>5 DEF Next, vars, consumerVars
  <2>2. Message \in Seq(Entries) /\ next > Len(Message)
    BY <1>1, <2>1, OneMessage, BulkAssumption DEF BulkInv, CallEnds, Message
  <2>3. k < next
    BY <1>1, <2>2 DEF EntryIndices, Message, BulkInv, LoopOK
  <2> QED
    BY <1>1, <2>3 DEF BulkInv, LoopOK, Message
<1>2. BulkInv /\ [Next]_vars =>
        [step = "invoke" /\ step' = "deadLetter" =>
           \A k \in EntryIndices(position) :
             Recorded(Messages[position][k]) \/ k \in failures]_vars
  BY <1>1
<1>3. QED
  BY <1>2, BulkInvariant, PTL DEF Spec, GivenUpEntriesTried

\* A message that was handled and comes again changes no table.
THEOREM RedeliveryChangesNothing == Spec => RedeliveryHarmless
<1>1. ASSUME BulkInv, [Next]_vars, step = "invoke", position \in handled, next' # next
      PROVE  UNCHANGED tables
  <2>1. ASSUME NEW k \in EntryIndices(position), EntryReturns(k) \/ EntryThrows(k)
        PROVE  UNCHANGED tables
    <3>1. ExternalEventId(Message[k]) \in inbox
      BY <1>1, <2>1 DEF BulkInv, HandledMeansRecorded, Recorded, Message
    <3> QED
      BY <2>1, <3>1 DEF EntryReturns, EntryThrows, CommitEntry
  <2>2. CASE CallEnds \/ RunnerStep \/ GroupStep \/ Exit
    BY <2>2 DEF CallEnds, RunnerStep, GroupStep, Exit
  <2>3. ASSUME NEW m, NEW k, OtherMember(m, k) PROVE next' = next
    BY <2>3 DEF OtherMember, loopVars
  <2>4. ASSUME NEW p, NEW t, DeleteProgram(p) \/ CreateProgram(p, t) PROVE next' = next
    BY <2>4 DEF DeleteProgram, CreateProgram, loopVars
  <2> QED
    BY <1>1, <2>1, <2>2, <2>3, <2>4 DEF Next, vars, loopVars
<1>2. BulkInv /\ [Next]_vars =>
        [step = "invoke" /\ position \in handled /\ next' # next => UNCHANGED tables]_vars
  BY <1>1
<1>3. QED
  BY <1>2, BulkInvariant, PTL DEF Spec, RedeliveryHarmless

\* No treasury entry is dropped in silence: whatever threw, crashed or was
\* redelivered, each entry of a message that an offset has passed is recorded,
\* unless the message is in the dead letter topic, its dead letter failed, or a
\* start from the end skipped the message.
PassedMeansRecorded ==
  \A m \in Consumer!Offsets \ skipped :
    m < committed \/ m < position =>
      \/ m \in deadLettered \cup abandoned
      \/ \A k \in EntryIndices(m) : Recorded(Messages[m][k])

\* NothingPassedOver of the runner and HandledMeansRecorded of the loop together
\* say what the committed offset of the treasury topic stands for.
THEOREM PassedAreAccounted == Spec => []PassedMeansRecorded
<1>1. BulkInv => PassedMeansRecorded
  <2> SUFFICES ASSUME BulkInv, NEW m \in Consumer!Offsets \ skipped,
                      m < committed \/ m < position,
                      m \notin deadLettered \cup abandoned
               PROVE  \A k \in EntryIndices(m) : Recorded(Messages[m][k])
    BY DEF PassedMeansRecorded
  <2>1. Consumer!PassedMessagesDone
    BY SameConsumer DEF BulkInv, Runner!ConsumerInv
  <2>2. m \in handled
    BY <2>1 DEF Consumer!PassedMessagesDone, Consumer!Done
  <2> QED
    BY <2>2 DEF BulkInv, HandledMeansRecorded
<1>2. QED
  BY <1>1, BulkInvariant, PTL
=============================================================================
