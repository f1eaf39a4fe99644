SPECIFICATION Spec
CONSTANTS
  Handlers = {h1}
  Names = {a, b}
  Paths = {p, q}
  Ports = {x, y}
  Revs = {r}
  MaxRows = 2
  MaxFaults = 1
  Requests = {"create", "archive", "sync"}
  Exclusive = TRUE
  None = None
SYMMETRY Everyone
INVARIANT
  StatusesDocumented
CHECK_DEADLOCK FALSE
