SPECIFICATION Spec
CONSTANTS
  Totals <- MCTotals
  Amounts <- MCAmounts
  Responses <- MCResponses
  MaxRows = 2
INVARIANTS
  MoneyTypeOK
  InvoicePricedToNearestUnit
  AvailableShownExactly
  ComparisonMatchesSubtraction
PROPERTIES
  DecidesInUnits
