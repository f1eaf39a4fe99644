SPECIFICATION Spec
CONSTANTS
  Handlers = {h1}
  Operators = {o1}
  Paths = {p, q}
  Names = {a, b}
  MaxBatches = 2
  MaxChanges = 0
  MaxFaults = 1
  Alone = TRUE
  Texts <- SomeTexts
  None = None
SYMMETRY Everyone
PROPERTY
  SkippedBlocksCommit
CHECK_DEADLOCK FALSE
