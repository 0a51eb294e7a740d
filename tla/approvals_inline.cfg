\* Every caller sends a step of its own; an active template exists.
CONSTANTS
  r1 = r1  r2 = r2  w1 = w1  w2 = w2  mgr = mgr  cae = cae  root = root
  Mgr = Mgr  Cae = Cae  cap = cap
  NoRef = NoRef  NoRole = NoRole  NoUser = NoUser  NoTime = NoTime  Absent = Absent
  Requests = {r1}
  Workers = {w1}
  Scanners = {}
  Roles = {Mgr, Cae, NoRole}
  Users = {root}
  Targets = {cap}
  Ref <- MCRef
  Template <- MixedTemplate
  Bodies <- FirstInline
  RoleOf <- MCRoleOf
  SuperAdmins <- MCSuperAdmins
  Verbs = {"create", "approve", "reject"}
  PatchStatus = {}
  PatchCur = {}
  DefaultSla = 1
  Dedupe = 1
  MaxRows = 3
  Budget <- NoBudget
SPECIFICATION Spec
INVARIANTS CallerChainWins
