------------------------- MODULE KafkaConsumerProofs ------------------------
(***************************************************************************)
(* Proofs about KafkaConsumer, for both kinds of handler and any chunk      *)
(* size, number of attempts and length of the partition: types, no message  *)
(* passed over, and commits that never go back.                             *)
(***************************************************************************)
EXTENDS KafkaConsumer, FiniteSetTheorems, TLAPS

-----------------------------------------------------------------------------
(* The inductive invariant *)

\* The runner is inside a handler call.
Working == step \in {"invoke", "commit", "deadLetter", "commitDead"}

\* A call works on messages it has fetched; only single messages are committed
\* one by one, and only after what they were waiting for has happened.
CallOK ==
  /\ Working => begun <= position /\ position < fetched
  /\ Working /\ kind = "single" => fetched = position + 1
  /\ step \in {"commit", "commitDead"} => kind = "single"
  /\ step = "commit" => Chunk \subseteq handled
  /\ step = "commitDead" => Chunk \subseteq deadLettered
  /\ step = "commitBatch" => kind = "batch" /\ begun <= position

\* The committed offset is at most one message ahead of the position, when the
\* answer to the commit of a single message was lost.
CommitOK ==
  step # "down" =>
    committed <= position \/ (kind = "single" /\ committed = position + 1)

ConsumerInv == ConsumerTypeOK /\ PassedMessagesDone /\ CallOK /\ CommitOK

-----------------------------------------------------------------------------
(* Chunks *)

\* While a call runs its chunk is a run of messages from the position on, and
\* for a single message it is that message.
LEMMA ChunkIsInterval ==
  ASSUME ConsumerTypeOK, CallOK, Working
  PROVE  /\ AfterChunk \in Int
         /\ position < AfterChunk /\ AfterChunk <= fetched
         /\ Chunk = position..(AfterChunk - 1)
         /\ Chunk \subseteq Offsets
         /\ kind = "single" => AfterChunk = position + 1
<1> DEFINE last == IF fetched <= position + ChunkSize
                     THEN fetched - 1 ELSE position + ChunkSize - 1
<1>1. /\ position \in Int /\ fetched \in Int /\ last \in Int
      /\ 0 <= position /\ position < fetched /\ fetched <= MaxOffset
      /\ position <= last /\ last < fetched
      /\ kind = "single" => last = position
  BY ConsumerAssumption DEF ConsumerTypeOK, CallOK
<1> HIDE DEF last
<1>2. Chunk = position..last
  BY <1>1, ConsumerAssumption DEF Chunk, Offsets, last
<1>3. AfterChunk = last + 1
  <2>1. Cardinality(position..last) = last - position + 1
    BY <1>1, FS_Interval
  <2>2. QED
    BY <1>1, <1>2, <2>1 DEF AfterChunk
<1>4. Chunk \subseteq Offsets
  BY DEF Chunk
<1>5. QED
  BY <1>1, <1>2, <1>3, <1>4

-----------------------------------------------------------------------------
(* Steps *)

\* What every step keeps: the invariant, and the committed offset.
Kept == ConsumerInv' /\ committed' >= committed

\* A call of the handler that returns or throws keeps them.
LEMMA HandlerCallsKeep ==
  ASSUME ConsumerInv, InvokeSucceeds \/ InvokeThrows \/ HeartbeatThrows
  PROVE  Kept
<1> USE ConsumerAssumption DEF ConsumerInv, NoOffset
<1>1. CASE InvokeSucceeds
  <2>1. /\ step = "invoke"
        /\ UNCHANGED <<kind, end, committed, deadLettered, stale, stopping, abandoned, skipped>>
        /\ handled' = handled \cup Chunk
    BY <1>1 DEF InvokeSucceeds, brokerVars, processVars
  <2>2. /\ AfterChunk \in Int
        /\ position < AfterChunk /\ AfterChunk <= fetched
        /\ Chunk = position..(AfterChunk - 1)
        /\ Chunk \subseteq Offsets
        /\ kind = "single" => AfterChunk = position + 1
    BY <2>1, ChunkIsInterval DEF Working
  <2>3. CASE kind = "single" /\ step' = "commit" /\ UNCHANGED <<batchVars, attempt>>
    BY <2>1, <2>2, <2>3 DEF batchVars, Kept, ConsumerTypeOK, PassedMessagesDone, CallOK,
       CommitOK, Working, Chunk, Steps, Done
  <2>4. CASE kind = "batch" /\ NextChunk
    BY <2>1, <2>2, <2>4 DEF NextChunk, Kept, ConsumerTypeOK, PassedMessagesDone, CallOK,
       CommitOK, Working, Steps, Done, Offsets
  <2>5. QED
    BY <1>1, <2>3, <2>4 DEF InvokeSucceeds
<1>2. CASE InvokeThrows
  BY <1>2 DEF InvokeThrows, Retry, brokerVars, batchVars, processVars, historyVars, Kept,
     ConsumerTypeOK, PassedMessagesDone, CallOK, CommitOK, Working, Chunk, Steps, Done
<1>3. CASE HeartbeatThrows
  BY <1>3 DEF HeartbeatThrows, brokerVars, batchVars, processVars, historyVars, Kept,
     ConsumerTypeOK, PassedMessagesDone, CallOK, CommitOK, Working, Chunk, Steps, Done
<1>4. QED
  BY <1>1, <1>2, <1>3

\* A dead letter that is written, or fails, keeps them.
LEMMA DeadLettersKeep ==
  ASSUME ConsumerInv, DeadLetterSucceeds \/ DeadLetterThrows
  PROVE  Kept
<1> USE ConsumerAssumption DEF ConsumerInv, NoOffset
<1>1. step = "deadLetter"
  BY DEF DeadLetterSucceeds, DeadLetterThrows
<1>2. /\ AfterChunk \in Int
      /\ position < AfterChunk /\ AfterChunk <= fetched
      /\ Chunk = position..(AfterChunk - 1)
      /\ Chunk \subseteq Offsets
      /\ kind = "single" => AfterChunk = position + 1
  BY <1>1, ChunkIsInterval DEF Working
<1>3. CASE DeadLetterSucceeds
  <2>1. /\ UNCHANGED <<kind, end, committed, stale, stopping, handled, abandoned, skipped>>
        /\ deadLettered' = deadLettered \cup Chunk
    BY <1>3 DEF DeadLetterSucceeds, processVars, historyVars
  <2>2. CASE kind = "single" /\ step' = "commitDead" /\ UNCHANGED <<batchVars, attempt>>
    BY <1>1, <1>2, <2>1, <2>2 DEF batchVars, Kept, ConsumerTypeOK, PassedMessagesDone,
       CallOK, CommitOK, Working, Chunk, Steps, Done
  <2>3. CASE kind = "batch" /\ NextChunk
    BY <1>1, <1>2, <2>1, <2>3 DEF NextChunk, Kept, ConsumerTypeOK, PassedMessagesDone,
       CallOK, CommitOK, Working, Steps, Done, Offsets
  <2>4. QED
    BY <1>3, <2>2, <2>3 DEF DeadLetterSucceeds
<1>4. CASE DeadLetterThrows
  <2>1. /\ UNCHANGED <<kind, end, committed, stale, stopping, handled, skipped>>
        /\ deadLettered' \in {deadLettered, deadLettered \cup Chunk}
        /\ abandoned' = abandoned \cup Chunk
    BY <1>4 DEF DeadLetterThrows, processVars
  <2>2. CASE kind = "single" /\ Resolve(AfterChunk)
    BY <1>1, <1>2, <2>1, <2>2 DEF Resolve, Kept, ConsumerTypeOK, PassedMessagesDone,
       CallOK, CommitOK, Working, Steps, Done, Offsets
  <2>3. CASE kind = "batch" /\ step' = "commitBatch" /\ UNCHANGED <<batchVars, attempt>>
    BY <1>1, <1>2, <2>1, <2>3 DEF batchVars, Kept, ConsumerTypeOK, PassedMessagesDone,
       CallOK, CommitOK, Working, Steps, Done, Offsets
  <2>4. QED
    BY <1>4, <2>2, <2>3 DEF DeadLetterThrows
<1>5. QED
  BY <1>3, <1>4

\* So does an offset commit, whether it is made, refused or unanswered.
LEMMA CommitsKeep ==
  ASSUME ConsumerInv,
         Commit \/ CommitThrows \/ CommitDead \/ CommitBatch \/ LastCommitThrows
  PROVE  Kept
<1> USE ConsumerAssumption DEF ConsumerInv, NoOffset
<1>1. ASSUME step \in {"commit", "commitDead"}
      PROVE  /\ kind = "single"
             /\ AfterChunk = position + 1
             /\ position < fetched
             /\ Chunk = position..position
             /\ position \in Done
  BY <1>1, ChunkIsInterval DEF Working, CallOK, Done, ConsumerTypeOK
<1>2. CASE Commit
  BY <1>1, <1>2 DEF Commit, CommitsAt, Resolve, processVars, historyVars, Kept,
     ConsumerTypeOK, PassedMessagesDone, CallOK, CommitOK, Working, Steps, Done, Offsets
<1>3. CASE CommitDead
  BY <1>1, <1>3 DEF CommitDead, CommitsAt, Resolve, processVars, historyVars, Kept,
     ConsumerTypeOK, PassedMessagesDone, CallOK, CommitOK, Working, Steps, Done, Offsets
<1>4. CASE CommitThrows
  BY <1>1, <1>4 DEF CommitThrows, Retry, batchVars, processVars, historyVars, Kept,
     ConsumerTypeOK, PassedMessagesDone, CallOK, CommitOK, Working, Chunk, Steps, Done, Offsets
<1>5. CASE CommitBatch
  BY <1>5 DEF CommitBatch, CommitsAt, Resolve, processVars, historyVars, Kept,
     ConsumerTypeOK, PassedMessagesDone, CallOK, CommitOK, Working, Steps, Done, Offsets
<1>6. CASE LastCommitThrows
  BY <1>1, <1>6 DEF LastCommitThrows, batchVars, processVars, historyVars, Kept,
     ConsumerTypeOK, PassedMessagesDone, CallOK, CommitOK, Working, Steps, Done, Offsets
<1>7. QED
  BY <1>2, <1>3, <1>4, <1>5, <1>6

\* Fetching from the committed offset passes over no message but those that a
\* group without a committed offset skips.
LEMMA StartsKeep ==
  ASSUME ConsumerInv, Rejoin \/ Start
  PROVE  Kept
<1>1. /\ step' = "idle"
      /\ UNCHANGED <<kind, end, committed, deadLettered, begun, fetched, attempt, handled,
                     abandoned>>
      /\ stale' \in BOOLEAN /\ stopping' \in BOOLEAN
  <2>1. CASE Rejoin
    BY <2>1 DEF Rejoin, FetchFromCommitted, brokerVars, ConsumerInv, ConsumerTypeOK
  <2>2. CASE Start
    BY <2>2 DEF Start, FetchFromCommitted, brokerVars
  <2>3. QED
    BY <2>1, <2>2
<1>2. /\ committed = NoOffset => position' = end /\ skipped' = skipped \cup 0..(end - 1)
      /\ committed # NoOffset => position' = committed /\ skipped' = skipped
  BY DEF Rejoin, Start, FetchFromCommitted
<1>3. /\ committed \in Int /\ NoOffset = -1 /\ NoOffset \in Int
      /\ committed # NoOffset => committed \in 0..end
      /\ end \in 0..MaxOffset /\ skipped \subseteq Offsets /\ Offsets = 0..(MaxOffset - 1)
      /\ MaxOffset \in Nat
  BY ConsumerAssumption DEF ConsumerInv, ConsumerTypeOK, NoOffset, Offsets
<1>4. /\ position' \in 0..end /\ committed <= position'
      /\ skipped \subseteq skipped' /\ skipped' \subseteq Offsets
      /\ \A m \in Offsets \ skipped' : m < position' => m < committed
  <2>1. CASE committed = NoOffset
    <3>1. 0..(end - 1) \subseteq Offsets
      BY <1>3
    <3>2. skipped' \subseteq Offsets
      BY <1>2, <1>3, <2>1, <3>1
    <3>3. QED
      BY <1>2, <1>3, <2>1, <3>2
  <2>2. CASE committed # NoOffset
    <3>1. position' = committed /\ skipped' = skipped
      BY <1>2, <2>2
    <3>2. QED
      BY <1>3, <2>2, <3>1
  <2>3. QED
    BY <2>1, <2>2
<1>5. ConsumerTypeOK'
  BY <1>1, <1>4 DEF ConsumerInv, ConsumerTypeOK, Steps, Offsets
<1>6. PassedMessagesDone'
  BY <1>1, <1>4 DEF ConsumerInv, PassedMessagesDone, Done, Offsets
<1>7. CallOK' /\ CommitOK'
  BY <1>1, <1>4 DEF CallOK, CommitOK, Working
<1>8. QED
  BY <1>1, <1>3, <1>5, <1>6, <1>7 DEF Kept, ConsumerInv

\* The producers, kafkajs, the group and the process keep them.
LEMMA SurroundingsKeep ==
  ASSUME ConsumerInv,
         \/ Produce \/ Rebalance \/ Rejoin \/ Stop \/ Exit \/ Start
         \/ \E n \in 1..MaxOffset : Fetch(n)
         \/ UNCHANGED vars
  PROVE  Kept
<1> USE ConsumerAssumption
    DEF ConsumerInv, NoOffset, brokerVars, batchVars, processVars, historyVars, Kept,
        ConsumerTypeOK, PassedMessagesDone, CallOK, CommitOK, Working, Steps, Done, Offsets
<1>1. CASE Produce
  BY <1>1 DEF Produce, Chunk
<1>2. CASE Rebalance \/ Stop \/ Exit
  <2>1. /\ UNCHANGED <<kind, end, committed, deadLettered, position, begun, fetched, attempt,
                       handled, abandoned, skipped>>
        /\ stale' \in BOOLEAN /\ stopping' \in BOOLEAN
        /\ step # "down"
        /\ step' \in {step, "down"}
    BY <1>2 DEF Rebalance, Stop, Exit
  <2>2. Chunk' = Chunk
    BY <2>1 DEF Chunk
  <2>3. ConsumerTypeOK' /\ PassedMessagesDone'
    BY <2>1
  <2>4. CallOK' /\ CommitOK'
    BY <2>1, <2>2
  <2>5. QED
    BY <2>1, <2>3, <2>4
<1>3. CASE Rejoin \/ Start
  BY <1>3, StartsKeep
<1>4. ASSUME NEW n \in 1..MaxOffset, Fetch(n)
      PROVE  Kept
  <2>1. /\ n \in Int /\ position < n /\ n <= end
        /\ kind = "single" => n = position + 1
        /\ begun' = position /\ fetched' = n /\ attempt' = 1 /\ step' = "invoke"
        /\ UNCHANGED <<kind, end, committed, deadLettered, position, stale, stopping, handled,
                       abandoned, skipped>>
    BY <1>4 DEF Fetch
  <2>2. step = "idle"
    BY <1>4 DEF Fetch
  <2>3. ConsumerTypeOK'
    BY <2>1
  <2>4. PassedMessagesDone' /\ CallOK' /\ CommitOK'
    BY <2>1, <2>2
  <2>5. QED
    BY <2>1, <2>3, <2>4
<1>5. CASE UNCHANGED vars
  BY <1>5 DEF vars, Chunk
<1>6. QED
  BY <1>1, <1>2, <1>3, <1>4, <1>5

\* Every step keeps them.
LEMMA ConsumerNext ==
  ASSUME ConsumerInv, [Next]_vars
  PROVE  Kept
  BY HandlerCallsKeep, DeadLettersKeep, CommitsKeep, SurroundingsKeep DEF Next, CallReturns

\* The initial state satisfies the invariant.
LEMMA InitInvariant == Init => ConsumerInv
<1>1. Init => ConsumerTypeOK
  <2>1. FirstCommitted \in {NoOffset, 0} /\ MaxOffset \in Nat /\ MaxAttempts \in Nat
    BY ConsumerAssumption
  <2>2. "down" \in Steps
    BY DEF Steps
  <2>3. Init => step \in Steps
    BY ZenonT(30), <2>2 DEF Init
  <2>4. Init => committed \in {NoOffset} \cup 0..end
    BY <2>1 DEF Init
  <2>5. Init => /\ end \in 0..MaxOffset /\ attempt \in 0..MaxAttempts
                /\ position \in 0..end /\ begun \in 0..end /\ fetched \in 0..end
    BY <2>1 DEF Init
  <2>6. Init => /\ kind \in Kinds /\ stale \in BOOLEAN /\ stopping \in BOOLEAN
                /\ handled \subseteq Offsets /\ deadLettered \subseteq Offsets
                /\ abandoned \subseteq Offsets /\ skipped \subseteq Offsets
    BY DEF Init
  <2>7. QED
    BY <2>3, <2>4, <2>5, <2>6 DEF ConsumerTypeOK
<1>2. Init => PassedMessagesDone
  BY ConsumerAssumption DEF Init, PassedMessagesDone, Offsets, NoOffset
<1>3. Init => CallOK
  BY DEF Init, CallOK, Working
<1>4. Init => CommitOK
  BY DEF Init, CommitOK
<1>5. QED
  BY <1>1, <1>2, <1>3, <1>4 DEF ConsumerInv

-----------------------------------------------------------------------------
(* Theorems *)

\* The inductive invariant holds in every behaviour.
THEOREM ConsumerInvariant == Spec => []ConsumerInv
<1>1. Init => ConsumerInv
  BY InitInvariant
<1>2. ConsumerInv /\ [Next]_vars => ConsumerInv'
  BY ConsumerNext DEF Kept
<1>3. QED
  BY <1>1, <1>2, PTL DEF Spec

\* KafkaConsumerRunnerService commits and resolves offsets that exist, and
\* never makes more attempts than its retry options allow.
THEOREM ConsumerTypes == Spec => []ConsumerTypeOK
  BY ConsumerInvariant, PTL DEF ConsumerInv

\* No message is passed over by a throw, a refused or unanswered commit, a
\* rebalance, a stop or a crash.
THEOREM NothingPassedOver == Spec => []PassedMessagesDone
  BY ConsumerInvariant, PTL DEF ConsumerInv

\* The group's committed offset never moves back.
THEOREM CommitsOnlyForward == Spec => CommitNeverGoesBack
<1>1. ConsumerInv /\ [Next]_vars => [committed' >= committed]_vars
  BY ConsumerNext DEF Kept
<1>2. QED
  BY <1>1, ConsumerInvariant, PTL DEF Spec, CommitNeverGoesBack
=============================================================================
