SPECIFICATION FairSpec
CONSTANTS
  Users <- MCUsers
  Programs <- MCPrograms
  Invoices <- MCInvoices
  Keys <- MCPrograms
  PartitionOf <- MCPartitionOf
  Totals = {1, 10, 100, 500, 1000}
  Quotes <- MCQuotes
  Entries = {}
  MaxReservations = 11
  MaxDisturbances = 1
  Leftover = {"old"}
  DisturbedIn <- MCDisturbedIn
  CrashIn <- MCCrashIn
  Iterations <- MCIterations
  Rounds <- MCRounds
  RepoChecks = TRUE
INVARIANTS
  ValidationTypeOK
  ChecksSeeDelivered
  PassMeansHealthy
PROPERTIES
  FailureHasCause
  RunEndsOrHangs
\* A run ends.
CHECK_DEADLOCK FALSE
