SPECIFICATION Spec
CONSTANTS
  Totals <- MCTotals
  Amounts <- MCAmounts
  Responses <- MCResponses
  MaxRows = 2
INVARIANTS
  SnapshotExact
