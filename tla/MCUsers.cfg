SPECIFICATION Spec
CONSTANTS
  w1 = w1
  w2 = w2
  Workers = {w1, w2}
  Emails = {"ann", "Ann", "bob"}
  Typed = {"Ann", "bob"}
  Normal <- MCNormal
  MaxUsers = 2
  MaxTokens = 3
SYMMETRY WorkerSymmetry
INVARIANTS
  AccountsTypeOK
  EmailNamesOneUser
  RefusalsJustified
PROPERTIES
  RotationAtomic
