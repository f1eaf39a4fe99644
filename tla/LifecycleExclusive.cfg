SPECIFICATION Spec
CONSTANTS
  Handlers = {h1, h2}
  Names = {a, b}
  Paths = {p, q}
  Ports = {x, y}
  Revs = {r}
  MaxRows = 2
  MaxFaults = 1
  Requests = {"create", "update", "archive", "restore", "delete"}
  Exclusive = TRUE
  None = None
SYMMETRY Everyone
INVARIANTS
  InStep
  Recoverable
  Restorable
PROPERTY
  ImplementsCatalog
CHECK_DEADLOCK FALSE
