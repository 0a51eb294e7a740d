\* Two workers and two of each thing, in each area.
CONSTANTS
  w1 = w1  w2 = w2  x1 = x1  x2 = x2  p1 = p1  p2 = p2
  NoScore = NoScore  Never = Never  NoCapacity = NoCapacity  NoGate = NoGate
  NoAnswer = NoAnswer  NoScoreYet = NoScoreYet  NoReport = NoReport  NoPayload = NoPayload
  Unwritten = Unwritten  NoPatch = NoPatch
  Scorer = {w1, w2}
  Unit = {x1, x2}
  Scale = 2
  Values <- MCValues
  Configs <- MCConfigs
  MaxRuns = 4
  Saver = {w1, w2}
  ScoringModel <- MCModels
  ModelName <- MCModelName
  Planner = {w1, w2}
  Names = {1, 2, 3}
  Profiles <- MCProfiles
  Asks <- MCAsks
  MaxDrafts = 2
  Assessor = {w1, w2}
  Questions = {x1, x2}
  Worth = {75}
  Threshold = 60
  Tester = {w1, w2}
  Hook = {w1, w2}
  SourceNames = {p1, p2}
  Payloads = {"a", "b"}
  Messages <- MCMessages
  Pusher = {w1, w2}
  Targets = {x1, x2}
  MaxSaves = 2
  Writer = {w1, w2}
  Finding = {"f"}
  Audits = {x1, x2}
  Editor = {w1, w2}
  Entity = {x1, x2, p1}
  Departments = {x1, x2}
  Severity <- MCSeverity
  MaxEdits = 2
  Top = Top  NoLink = NoLink  NoEntity = NoEntity
  Keeper = {w1, w2}
  Owner = {x1, x2}
  Figure = {1, 2}
  Amounts = {5, 6}
  MaxWrites = 3
  Blank = Blank  NoFigure = NoFigure  NoCache = NoCache
SPECIFICATION Spec
SYMMETRY Symmetry
INVARIANTS TypesOK RanksDense SingleActive PlanHonest ReviewFollowsChallenges VerdictStands LedgerTells CoveredAreIssued RegisterHolds
PROPERTIES RecomputeCatchesUp
CHECK_DEADLOCK FALSE
