\* A PATCH of a document's title overlaps the scan of its file.
CONSTANTS
  ev = ev  doc = doc  wp = wp
  Keep = Keep  Absent = Absent
  Rows = {doc}
  Kind <- MCKind
  Files = {bad}
  Infected = {bad}
  Oversize = {}
  Workers = {w1}
  Celery = {c1}
  MaxRetries = 1
  Budget <- NoFault
SPECIFICATION Spec
PROPERTIES InfectedStaysQuarantined
CHECK_DEADLOCK FALSE
