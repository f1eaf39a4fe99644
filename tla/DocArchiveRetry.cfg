SPECIFICATION Spec
CONSTANTS
  Handlers = {h1}
  Names = {a, b}
  Paths = {p, q}
  Ports = {x, y}
  Revs = {r}
  MaxRows = 2
  MaxFaults = 1
  Requests = {"create", "archive"}
  Exclusive = TRUE
  None = None
SYMMETRY Everyone
INVARIANT
  ActiveCanBeArchived
CHECK_DEADLOCK FALSE
