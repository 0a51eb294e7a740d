\* A rejected request and what its remaining approvers can still do.
CONSTANTS
  r1 = r1  r2 = r2  w1 = w1  w2 = w2  mgr = mgr  cae = cae  root = root
  Mgr = Mgr  Cae = Cae  cap = cap
  NoRef = NoRef  NoRole = NoRole  NoUser = NoUser  NoTime = NoTime  Absent = Absent
  Requests = {r1}
  Workers = {w1}
  Scanners = {}
  Roles = {Mgr, Cae, NoRole}
  Users = {mgr, cae}
  Targets = {cap}
  Ref <- MCRef
  Template <- ShortTemplate
  Bodies <- NoInline
  RoleOf <- MCRoleOf
  SuperAdmins <- MCSuperAdmins
  Verbs = {"create", "approve", "reject"}
  PatchStatus = {}
  PatchCur = {}
  DefaultSla = 1
  Dedupe = 1
  MaxRows = 3
  Budget <- NoBudget
SPECIFICATION Spec
PROPERTIES StatusGatesAction
