SPECIFICATION Spec
CONSTANTS
  Handlers = {h1, h2}
  Users = {u, v}
  MaxTokens = 2
  MaxTime = 2
  Lifetime = 1
  MaxFaults = 1
  MaxChanges = 1
  None = None
SYMMETRY Everyone
INVARIANTS
  TypeOK
  LastLoginHasToken
PROPERTIES
  EndedStaysOut
  RefusalJustified
  ImplementsLedger
CHECK_DEADLOCK FALSE
