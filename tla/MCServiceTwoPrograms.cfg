SPECIFICATION FairSpec
CONSTANTS
  p1 = p1
  p2 = p2
  i1 = i1
  i2 = i2
  b1 = b1
  b2 = b2
  w1 = w1
  w2 = w2
  w3 = w3
  NoWorker = NoWorker
  Programs = {p1, p2}
  Invoices = {i1}
  Workers = {w1, w2}
  Totals = {1}
  MaxReservations = 2
  Quotes <- UnitQuotes
  Entries <- OneEntry
INVARIANTS
  LifecycleConsistent
  ReleasedExactlyOnce
PROPERTIES
  CommandsAnswered
  ImplementsLedger
