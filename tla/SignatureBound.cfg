CONSTANTS
  t1 = t1
  t2 = t2
  Thread = {t1, t2}
  MaxRounds = 1
  Others = {"findings"}
  None = None
  MaxDrafts = 2
  MaxOthers = 1
SPECIFICATION Spec
CHECK_DEADLOCK FALSE
INVARIANT SignatureBound
