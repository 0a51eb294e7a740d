\* A row of each kind, three uploads (one of them too large to scan), one web
\* worker, two Celery workers, one retry, two outages, a broken scan, two deaths.
CONSTANTS
  ev = ev  doc = doc  wp = wp
  Keep = Keep  Absent = Absent
  Rows = {ev, doc, wp}
  Kind <- MCKind
  Files = {good, bad, huge}
  Infected = {bad}
  Oversize = {huge}
  Workers = {w1}
  Celery = {c1, c2}
  MaxRetries = 1
  Budget <- Faults
SPECIFICATION FairSpec
INVARIANTS TypeOK ServedIsClean VerdictIsIn
PROPERTIES ScansEnd
CHECK_DEADLOCK FALSE
