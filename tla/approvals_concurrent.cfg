\* Two web workers whose handlers overlap in every way, PATCH and DELETE
\* included, and may die between any two commits.
CONSTANTS
  r1 = r1  r2 = r2  w1 = w1  w2 = w2  mgr = mgr  cae = cae  root = root
  Mgr = Mgr  Cae = Cae  cap = cap
  NoRef = NoRef  NoRole = NoRole  NoUser = NoUser  NoTime = NoTime  Absent = Absent
  Requests = {r1}
  Workers = {w1, w2}
  Scanners = {}
  Roles = {Mgr, Cae, NoRole}
  Users = {cae, root}
  Targets = {cap}
  Ref <- MCRef
  Template <- OneTemplate
  Bodies <- AnyBody
  RoleOf <- MCRoleOf
  SuperAdmins <- MCSuperAdmins
  Verbs = {"create", "approve", "reject", "patch", "delete"}
  PatchStatus = {"Approved"}
  PatchCur = {}
  DefaultSla = 1
  Dedupe = 1
  MaxRows = 3
  Budget <- WebFaultAndDelete
SPECIFICATION Spec
SYMMETRY Symmetry
INVARIANTS TypeOK
PROPERTIES SignedInTurn SignedBeforeEffect
