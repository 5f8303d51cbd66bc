SPECIFICATION Spec
CONSTANTS
  Requests = {r1, r2, r3}
  Readers = {r3}
  Tasks = {t1, t2}
  Sessions = {s1, s2}
  Depths = {1, 2}
  MaxFaults = 1
  None = None
SYMMETRY IdSymmetry
INVARIANTS AnswersStand ChainTruthful
PROPERTIES SessionBehindTask
CHECK_DEADLOCK FALSE
