\* Two workers, one entity with every operation and a second one that a risk
\* can be moved to.
CONSTANTS
  e2 = e2  t1 = t1
  None = None  Absent = Absent
  Entities = {e1, e2}
  Risks = {r1}
  Workers = {w1, w2}
  Texts = {t1, t2}
  Positions <- MCPositions
  Scores <- MCScores
  ModelScores <- MCModelScores
  Pins = {"Critical"}
  MaxVersion = 3
SPECIFICATION Spec
CONSTRAINT Bounded
SYMMETRY Symmetry
INVARIANTS TypeOK HistoryReplays RolledUp RevisionsBehind
PROPERTIES NoLostUpdate StatusRecorded
CHECK_DEADLOCK FALSE
