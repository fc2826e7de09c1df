CONSTANTS
  t1 = t1
  t2 = t2
  Thread = {t1, t2}
  MaxRounds = 3
  Others = {}
  None = None
  MaxDrafts = 4
  MaxOthers = 0
SYMMETRY Symmetry
SPECIFICATION Spec
CHECK_DEADLOCK FALSE
INVARIANT RerunsCapped
