\* Two web workers on two chains of one engagement: two rows, two
\* signers, two PATCHes at most.
CONSTANTS
  a1 = a1
  None = None  Absent = Absent
  Papers = {p1, p2}
  Workers = {w1, w2}
  Users = {ann, bob}
  Audits = {a1}
  Refs = {f1, f2}
  AuditOf <- MCAuditOf
  Contents = {c1}
  PatchStatus = {}
  MaxPatches = 2
SPECIFICATION Spec
SYMMETRY Symmetry
INVARIANTS TypeOK SignedByTwo
PROPERTIES LockedOnceSigned HeadKept
CHECK_DEADLOCK FALSE
