SPECIFICATION Spec
CONSTANTS
  p1 = p1
  p2 = p2
  b1 = b1
  b2 = b2
  Programs = {p1, p2}
  Invoices = {}
  Totals = {1}
  MaxReservations = 0
  Quotes <- NoQuotes
  Entries <- MCEntries
  MaxOffset = 3
  MaxAttempts = 2
  FirstCommitted = 0
  Messages <- MCMessages
INVARIANTS
  BulkTypeOK
  HandledMeansRecorded
PROPERTIES
  GivenUpEntriesTried
  RedeliveryHarmless
