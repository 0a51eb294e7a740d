\* One web worker: may a paper change between its two signatures?
CONSTANTS
  a1 = a1
  None = None  Absent = Absent
  Papers = {p1}
  Workers = {w1}
  Users = {ann, bob}
  Audits = {a1}
  Refs = {f1}
  AuditOf <- MCAuditOf
  Contents = {c1, c2}
  PatchStatus = {}
  MaxPatches = 1
SPECIFICATION Spec
PROPERTIES UnderReviewFrozen
CHECK_DEADLOCK FALSE
