CONSTANTS
  t1 = t1
  t2 = t2
  Thread = {t1, t2}
  MaxRounds = 1
  Others = {"cleared"}
  None = None
  MaxDrafts = 3
  MaxOthers = 1
SYMMETRY Symmetry
SPECIFICATION Spec
CHECK_DEADLOCK FALSE
INVARIANTS TypeOK RerunsBounded PendingIsParked
PROPERTIES ImplementsLifecycle
