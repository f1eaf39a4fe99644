SPECIFICATION Spec
CONSTANTS
  Handlers = {h1}
  Names = {a, b}
  Paths = {p, q}
  Ports = {x, y}
  Revs = {r}
  MaxRows = 2
  MaxFaults = 0
  Requests = {"create", "update", "archive", "restore", "delete", "start", "stop", "restart", "sync", "refresh"}
  Exclusive = TRUE
  None = None
SYMMETRY Everyone
INVARIANTS
  TypeOK
  InStep
  ArchivedLooksStopped
PROPERTY
  ImplementsCatalog
