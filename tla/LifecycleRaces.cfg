SPECIFICATION Spec
CONSTANTS
  Handlers = {h1, h2}
  Names = {a, b}
  Paths = {p, q}
  Ports = {x}
  Revs = {r}
  MaxRows = 2
  MaxFaults = 0
  Requests = {"create", "update", "archive", "delete"}
  Exclusive = FALSE
  None = None
SYMMETRY Everyone
INVARIANT
  PathsUnique
PROPERTY
  DeletedStaysDeleted
CHECK_DEADLOCK FALSE
