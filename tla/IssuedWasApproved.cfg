CONSTANTS
  t1 = t1
  t2 = t2
  Thread = {t1, t2}
  MaxRounds = 1
  Others = {"cleared", "closed"}
  None = None
  MaxDrafts = 2
  MaxOthers = 1
SPECIFICATION Spec
CHECK_DEADLOCK FALSE
INVARIANT IssuedWasApproved
