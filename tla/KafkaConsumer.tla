---------------------------- MODULE KafkaConsumer ---------------------------
(***************************************************************************)
(* KafkaConsumerRunnerService on one partition: a handler is tried a        *)
(* bounded number of times, then its messages go to the dead-letter topic,  *)
(* and offsets are committed by hand, one message at a time ("single") or   *)
(* in chunks of a fetched batch ("batch").  The consumer may lose its group *)
(* generation, stop or crash at any point.                                  *)
(*                                                                         *)
(* kafkajs and the broker are modelled as the runner uses them: kafkajs     *)
(* fetches on from the position of the last resolved message, a message is  *)
(* resolved when eachMessage returns or resolveOffset is called, and after  *)
(* a start or a rebalance it fetches from the committed offset.             *)
(***************************************************************************)
EXTENDS Integers, FiniteSets

CONSTANTS
  Kinds,           \* handler registrations considered: "single", "batch"
  MaxOffset,       \* bound: messages the partition may get
  ChunkSize,       \* batchSize of @ConsumeBatch
  MaxAttempts,     \* KafkaRetryOptions.attempts
  FirstCommitted,  \* the group's committed offset at first, or NoOffset
  BlankKeys        \* messages whose key is there but blank

NoOffset == -1

ASSUME ConsumerAssumption ==
  /\ Kinds \subseteq {"single", "batch"}
  /\ MaxOffset \in Nat
  /\ ChunkSize \in Nat \ {0}
  /\ MaxAttempts \in Nat \ {0}
  /\ FirstCommitted \in {NoOffset, 0}
  /\ BlankKeys \subseteq Nat

VARIABLES
  kind,          \* registration.kind
  end,           \* the partition's end offset
  committed,     \* the group's committed offset, as the broker has it
  step,          \* what the runner does next
  position,      \* the first message that is not resolved
  begun,         \* the first message of the fetched batch
  fetched,       \* the offset after the last message of the fetched batch
  attempt,       \* attempts made at the current message or chunk
  stale,         \* the group has rebalanced since the consumer joined it
  stopping,      \* disconnect has been called
  handled,       \* messages a handler call returned for
  deadLettered,  \* messages in the dead-letter topic
  abandoned,     \* messages whose dead letter failed
  skipped        \* history: messages a start from the end passed over

brokerVars == <<end, committed, deadLettered>>
batchVars == <<position, begun, fetched>>
processVars == <<stale, stopping>>
historyVars == <<handled, abandoned, skipped>>
vars == <<kind, brokerVars, step, batchVars, attempt, processVars, historyVars>>

Offsets == 0..(MaxOffset - 1)
Steps == {"down", "idle", "invoke", "commit", "deadLetter", "commitDead",
          "commitBatch"}

\* The chunk the runner works on; a single message is a chunk of its own.
Chunk == {m \in Offsets : position <= m /\ m < fetched /\ m < position + ChunkSize}
AfterChunk == position + Cardinality(Chunk)

Done == handled \cup deadLettered

\* A dead letter keeps the key, and the producer refuses a blank one, and with
\* it the batch, before anything is sent.
Refused == Chunk \cap BlankKeys # {}

Init ==
  /\ kind \in Kinds
  /\ end = 0
  /\ committed = FirstCommitted
  /\ step = "down"
  /\ position = 0
  /\ begun = 0
  /\ fetched = 0
  /\ attempt = 0
  /\ stale = FALSE
  /\ stopping = FALSE
  /\ handled = {}
  /\ deadLettered = {}
  /\ abandoned = {}
  /\ skipped = {}

Produce ==
  /\ end < MaxOffset
  /\ end' = end + 1
  /\ UNCHANGED <<kind, committed, deadLettered, step, batchVars, attempt,
                 processVars, historyVars>>

\* kafkajs hands over one message, or a batch of all it has fetched.
Fetch(n) ==
  /\ step = "idle"
  /\ ~ stopping
  /\ position < n /\ n <= end
  /\ kind = "single" => n = position + 1
  /\ begun' = position
  /\ fetched' = n
  /\ attempt' = 1
  /\ step' = "invoke"
  /\ UNCHANGED <<kind, brokerVars, position, processVars, historyVars>>

-----------------------------------------------------------------------------
(* What both handlers share *)

\* Mutants of Retry: one attempt too many, and no limit at all.
RetryOnceMore ==
  IF attempt <= MaxAttempts
    THEN attempt' = attempt + 1 /\ step' = "invoke"
    ELSE step' = "deadLetter" /\ UNCHANGED attempt
RetryForever == step' = "invoke" /\ UNCHANGED attempt

\* An attempt threw; the last one sends the messages to the dead letters.
Retry ==
  IF attempt < MaxAttempts
    THEN attempt' = attempt + 1 /\ step' = "invoke"
    ELSE step' = "deadLetter" /\ UNCHANGED attempt

\* eachMessage or eachBatch has returned, with position resolved.
Resolve(offset) ==
  /\ position' = offset
  /\ step' = "idle"
  /\ UNCHANGED <<begun, fetched, attempt>>

\* The chunk is terminal: on to the next one, unless isRunning() says no.
NextChunk ==
  /\ position' = AfterChunk
  /\ attempt' = 1
  /\ step' = IF position' < fetched /\ ~ stopping THEN "invoke" ELSE "commitBatch"
  /\ UNCHANGED <<begun, fetched>>

InvokeSucceeds ==
  /\ step = "invoke"
  /\ handled' = handled \cup Chunk
  /\ \/ kind = "single" /\ step' = "commit" /\ UNCHANGED <<batchVars, attempt>>
     \/ kind = "batch" /\ NextChunk
  /\ UNCHANGED <<kind, brokerVars, processVars, abandoned, skipped>>

InvokeThrows ==
  /\ step = "invoke"
  /\ Retry
  /\ UNCHANGED <<kind, brokerVars, batchVars, processVars, historyVars>>

\* heartbeat(), called between two attempts, throws out of the handler after
\* a rebalance; kafkajs resolves nothing.
HeartbeatThrows ==
  /\ step = "invoke"
  /\ attempt > 1
  /\ stale
  /\ step' = "idle"
  /\ UNCHANGED <<kind, brokerVars, batchVars, attempt, processVars, historyVars>>

DeadLetterSucceeds ==
  /\ step = "deadLetter"
  /\ ~ Refused
  /\ deadLettered' = deadLettered \cup Chunk
  /\ \/ kind = "single" /\ step' = "commitDead" /\ UNCHANGED <<batchVars, attempt>>
     \/ kind = "batch" /\ NextChunk
  /\ UNCHANGED <<kind, end, committed, processVars, historyVars>>

\* Mutant: the batch goes on behind a chunk that is neither handled nor dead.
DeadLetterThrowsSkipsChunk ==
  /\ step = "deadLetter"
  /\ abandoned' = abandoned \cup Chunk
  /\ \/ kind = "single" /\ Resolve(AfterChunk)
     \/ kind = "batch" /\ NextChunk
  /\ UNCHANGED <<kind, brokerVars, processVars, handled, skipped>>

\* produce throws, though Kafka may have what was sent all the same.  The
\* single handler returns, which resolves the message; the batch breaks off.
DeadLetterThrows ==
  /\ step = "deadLetter"
  /\ deadLettered' \in {deadLettered} \cup
       (IF Refused THEN {} ELSE {deadLettered \cup Chunk})
  /\ abandoned' = abandoned \cup Chunk
  /\ \/ kind = "single" /\ Resolve(AfterChunk)
     \/ kind = "batch" /\ step' = "commitBatch" /\ UNCHANGED <<batchVars, attempt>>
  /\ UNCHANGED <<kind, end, committed, processVars, handled, skipped>>

-----------------------------------------------------------------------------
(* Offset commits: refused once the generation is stale *)

CommitsAt(s) == step = s /\ ~ stale

\* handleSingleMessage, inside the retried block.
Commit ==
  /\ CommitsAt("commit")
  /\ committed' = AfterChunk
  /\ Resolve(AfterChunk)
  /\ UNCHANGED <<kind, end, deadLettered, processVars, historyVars>>

\* The commit is refused, or its answer is lost: that counts as an attempt.
CommitThrows ==
  /\ step = "commit"
  /\ committed' \in {committed} \cup (IF stale THEN {} ELSE {AfterChunk})
  /\ Retry
  /\ UNCHANGED <<kind, end, deadLettered, batchVars, processVars, historyVars>>

CommitDead ==
  /\ CommitsAt("commitDead")
  /\ committed' = AfterChunk
  /\ Resolve(AfterChunk)
  /\ UNCHANGED <<kind, end, deadLettered, processVars, historyVars>>

\* Mutant: the offset of the batch's last message is committed.
CommitBatchToEnd ==
  /\ CommitsAt("commitBatch")
  /\ committed' = fetched
  /\ Resolve(position)
  /\ UNCHANGED <<kind, end, deadLettered, processVars, historyVars>>

\* The offset after the last terminal chunk; no commit without one.
CommitBatch ==
  /\ CommitsAt("commitBatch") \/ (step = "commitBatch" /\ position = begun)
  /\ committed' = IF position > begun THEN position ELSE committed
  /\ Resolve(position)
  /\ UNCHANGED <<kind, end, deadLettered, processVars, historyVars>>

\* Outside the retried block a commit that throws ends the handler; kafkajs
\* resolves nothing more and fetches again from its position.
LastCommitThrows ==
  /\ \/ step = "commitDead"
     \/ step = "commitBatch" /\ position > begun
  /\ committed' \in {committed} \cup
       (IF stale THEN {} ELSE {IF kind = "single" THEN AfterChunk ELSE position})
  /\ step' = "idle"
  /\ UNCHANGED <<kind, end, deadLettered, batchVars, attempt, processVars,
                 historyVars>>

-----------------------------------------------------------------------------
(* The group and the process *)

Rebalance ==
  /\ step # "down"
  /\ ~ stale
  /\ stale' = TRUE
  /\ UNCHANGED <<kind, brokerVars, step, batchVars, attempt, stopping, historyVars>>

\* fromBeginning false: without a committed offset, from the end.
FetchFromCommitted ==
  /\ stale' = FALSE
  /\ position' = IF committed = NoOffset THEN end ELSE committed
  /\ skipped' = IF committed = NoOffset THEN skipped \cup 0..(end-1) ELSE skipped
  /\ UNCHANGED <<begun, fetched, attempt, handled, abandoned>>

\* kafkajs joins the group again between two handler calls.
Rejoin ==
  /\ step = "idle"
  /\ stale
  /\ FetchFromCommitted
  /\ UNCHANGED <<kind, brokerVars, step, stopping>>

Stop ==
  /\ step # "down"
  /\ ~ stopping
  /\ stopping' = TRUE
  /\ UNCHANGED <<kind, brokerVars, step, batchVars, attempt, stale, historyVars>>

\* A disconnect once no handler runs, or a crash at any point.
Exit ==
  /\ step # "down"
  /\ step' = "down"
  /\ UNCHANGED <<kind, brokerVars, batchVars, attempt, processVars, historyVars>>

Start ==
  /\ step = "down"
  /\ step' = "idle"
  /\ stopping' = FALSE
  /\ FetchFromCommitted
  /\ UNCHANGED <<kind, brokerVars>>

-----------------------------------------------------------------------------
\* A call of the handler, the producer or the broker that returns or throws.
CallReturns ==
  \/ InvokeSucceeds
  \/ InvokeThrows
  \/ DeadLetterSucceeds
  \/ DeadLetterThrows
  \/ Commit
  \/ CommitThrows
  \/ CommitDead
  \/ CommitBatch
  \/ LastCommitThrows

Next ==
  \/ Produce
  \/ \E n \in 1..MaxOffset : Fetch(n)
  \/ CallReturns
  \/ HeartbeatThrows
  \/ Rebalance
  \/ Rejoin
  \/ Stop
  \/ Exit
  \/ Start

Spec == Init /\ [][Next]_vars

\* Calls return, kafkajs keeps fetching, rejoins and is started again.
Scheduled ==
  /\ WF_vars(CallReturns)
  /\ WF_vars(\E n \in 1..MaxOffset : Fetch(n))
  /\ WF_vars(Rejoin)
  /\ WF_vars(Start)

\* A dead letter the producer takes, or its commit, that is tried again and
\* again does not fail each time.  Nothing is assumed of the handler: a message
\* may be poison.
BrokerRecovers ==
  /\ SF_vars(DeadLetterSucceeds)
  /\ SF_vars(CommitDead)

\* Crashes, stops and rebalances may happen often, but not for ever.
StaysMember == <>[](step # "down" /\ ~ stale /\ ~ stopping)

FairSpec == Spec /\ Scheduled /\ BrokerRecovers /\ StaysMember

-----------------------------------------------------------------------------
(* Properties *)

ConsumerTypeOK ==
  /\ kind \in Kinds
  /\ end \in 0..MaxOffset
  /\ committed \in {NoOffset} \cup 0..end
  /\ step \in Steps
  /\ position \in 0..end /\ begun \in 0..end /\ fetched \in 0..end
  /\ attempt \in 0..MaxAttempts
  /\ stale \in BOOLEAN /\ stopping \in BOOLEAN
  /\ handled \subseteq Offsets /\ deadLettered \subseteq Offsets
  /\ abandoned \subseteq Offsets /\ skipped \subseteq Offsets

\* No message is passed over, through throws, refused or unanswered commits,
\* rebalances, stops and crashes: what is behind the committed offset or
\* kafkajs's position was handled or dead-lettered.  The exceptions are a single
\* message whose dead letter failed, and the messages that were there when a
\* group that had never committed started from the end.
PassedMessagesDone ==
  \A m \in Offsets \ skipped :
    m < committed \/ m < position =>
      m \in Done \/ (kind = "single" /\ m \in abandoned)

\* The committed offset never moves back, so no handled message comes again
\* once its commit is in.
CommitNeverGoesBack == [][committed' >= committed]_vars

\* A poison message whose dead letter is refused for its key is ahead of m in
\* a batch, or may be in one chunk with it.
MayBeRefused(m) ==
  kind = "batch" /\ \E b \in BlankKeys : b < end /\ b < m + ChunkSize

\* INFRASTRUCTURE.md: "Poison messages MUST NOT block a partition forever."
\* Every message is handled or dead-lettered in the end, or is one of the
\* exceptions of PassedMessagesDone, whatever the handler does.  A batch handler
\* does stay for ever at a message with a blank key; it blocks no message before
\* its chunk.
PartitionNeverBlocked ==
  \A m \in Offsets :
    m < end ~> \/ m \in Done \cup skipped
               \/ kind = "single" /\ m \in abandoned
               \/ MayBeRefused(m)

\* ARCHITECTURE.md: "commit only through the highest contiguous successfully
\* processed offset"; a dead letter counts as processed.
CommitContiguous == \A m \in Offsets : m < committed => m \in Done
=============================================================================
