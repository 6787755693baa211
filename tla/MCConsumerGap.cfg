SPECIFICATION Spec
CONSTANTS
  Kinds = {"single"}
  MaxOffset = 3
  ChunkSize = 2
  MaxAttempts = 2
  FirstCommitted = 0
  BlankKeys = {}
INVARIANTS
  CommitContiguous
