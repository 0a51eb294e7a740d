\* One web worker: handlers do not overlap, only the nightly task does.
CONSTANTS
  r1 = r1  r2 = r2  w1 = w1  w2 = w2  mgr = mgr  cae = cae  root = root
  Mgr = Mgr  Cae = Cae  cap = cap
  NoRef = NoRef  NoRole = NoRole  NoUser = NoUser  NoTime = NoTime  Absent = Absent
  Requests = {r1, r2}
  Workers = {w1}
  Scanners = {b1}
  Roles = {Mgr, Cae, NoRole}
  Users = {mgr, cae}
  Targets = {cap}
  Ref <- MCRef
  Template <- MixedTemplate
  Bodies <- NoInline
  RoleOf <- MCRoleOf
  SuperAdmins <- MCSuperAdmins
  Verbs = {"create", "approve", "reject", "delete"}
  PatchStatus = {}
  PatchCur = {}
  DefaultSla = 1
  Dedupe = 1
  MaxRows = 3
  Budget <- TaskFaultAndDelete
SPECIFICATION FairSpec
INVARIANTS OutcomeMatchesSteps NeverStranded
PROPERTIES ContractSpec EscalationDeduped OverdueIsChased
