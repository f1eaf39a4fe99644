SPECIFICATION FairSpec
CONSTANTS
  Handlers = {h1}
  Names = {a, b}
  Paths = {p, q}
  Ports = {x}
  Revs = {r, s}
  MaxRows = 1
  MaxFaults = 1
  Requests = {"create", "update", "archive", "restore", "delete", "sync"}
  Exclusive = TRUE
  None = None
INVARIANTS
  Recoverable
  Restorable
PROPERTY
  WriteFailureUndone
CHECK_DEADLOCK FALSE
