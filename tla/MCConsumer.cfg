SPECIFICATION FairSpec
CONSTANTS
  Kinds = {"single", "batch"}
  MaxOffset = 3
  ChunkSize = 2
  MaxAttempts = 2
  FirstCommitted <- NoOffset
  BlankKeys = {2}
INVARIANTS
  ConsumerTypeOK
  PassedMessagesDone
PROPERTIES
  CommitNeverGoesBack
  PartitionNeverBlocked
