SPECIFICATION Spec
CONSTANTS
  Handlers = {h1, h2}
  Names = {a, b}
  Paths = {p, q}
  Ports = {x, y}
  Revs = {r}
  MaxRows = 2
  MaxFaults = 0
  Requests = {"create", "archive", "restore", "delete"}
  Exclusive = FALSE
  None = None
SYMMETRY Everyone
PROPERTY
  OnlyArchivedDeleted
CHECK_DEADLOCK FALSE
