CONSTANTS
  c1 = c1
  breach = breach
  inconclusive = inconclusive
  Claim = {c1}
  Verdict = {breach}
  Unresolved = inconclusive
  None = None
  Entry = {"review", "question"}
  MaxRuns = 2
  MaxResets = 1
  MaxDecisions = 1
  MaxOrphans = 0
SPECIFICATION Spec
CHECK_DEADLOCK FALSE
INVARIANT SignedOnFinished
