\* Two requests at once on one account, one matrix, one identity; two jobs.
CONSTANTS
  w1 = w1  w2 = w2  x1 = x1  x2 = x2  p1 = p1  viewer = viewer
  NoLock = NoLock  NoRow = NoRow  NoRole = NoRole  NoProfile = NoProfile
  NoUser = NoUser  NoMap = NoMap  NoJob = NoJob  NotRunning = NotRunning
  Login = {w1, w2}
  Threshold = 2
  Window = 2
  LockFor = 2
  MaxTime = 3
  MaxRows = 5
  MaxUnlocks = 1
  Worker = {w1, w2}
  Password = {p1, x1, x2}
  HistoryN = 2
  MaxSets = 3
  MaxSignins = 1
  MaxKeys = 2
  MaxLinks = 1
  Role = {x1, x2}
  Module = {"reports", "users_roles"}
  Offered = {"read", "edit", "full"}
  Unknown = "unknown"
  Requests = {w1, w2}
  Person = {p1}
  Group = {x1, x2}
  Roles = {p1, viewer}
  Default = viewer
  Job = {x1, x2}
  Uploads <- MCUploads
  FileRows = 2
  MaxNamed = 3
  MaxEdits = 1
  Scanner = {w1, w2}
  Cap = {x1, x2}
  DueDay <- MCDueDay
  MaxDay = 2
  MaxRowsKept = 2
  MaxAttempts = 1
SPECIFICATION Spec
SYMMETRY Symmetry
INVARIANTS TypesOK GuessesBounded CurrentIsRemembered KeysAgree JobsTellTheTruth RemindersHold SignInGivesRole
PROPERTIES EnrolmentKept
CHECK_DEADLOCK FALSE
