SPECIFICATION Spec
CONSTANTS
  Handlers = {h1}
  Names = {a, b}
  Paths = {p, q}
  Ports = {x, y}
  Revs = {r}
  MaxRows = 2
  MaxFaults = 0
  Requests = {"create", "update"}
  Exclusive = TRUE
  None = None
SYMMETRY Everyone
PROPERTY
  PortRefusalJustified
CHECK_DEADLOCK FALSE
