SPECIFICATION Spec
CONSTANTS
  Handlers = {h1, h2}
  Operators = {o1, o2}
  Paths = {p, q}
  Names = {a, b}
  MaxBatches = 2
  MaxChanges = 1
  MaxFaults = 1
  Alone = TRUE
  Texts <- SomeTexts
  None = None
SYMMETRY Everyone
INVARIANTS
  TypeOK
  OneBatch
PROPERTIES
  AllOrNothing
  ImportMirrorsHost
  PlannedCommits
CHECK_DEADLOCK FALSE
