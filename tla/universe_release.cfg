\* One worker releases an override.
CONSTANTS
  e2 = e2  t1 = t1
  None = None  Absent = Absent
  Entities = {e1, e2}
  Risks = {r1}
  Workers = {w1}
  Texts = {t1, t2}
  Positions <- MCPositions
  Scores <- MCScores
  ModelScores <- MCModelScores
  Pins = {"Critical"}
  MaxVersion = 3
SPECIFICATION Spec
CONSTRAINT Bounded
PROPERTY ReleaseRecorded
CHECK_DEADLOCK FALSE
