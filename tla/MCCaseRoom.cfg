CONSTANTS
  c1 = c1
  breach = breach
  inconclusive = inconclusive
  Claim = {c1}
  Verdict = {breach}
  Unresolved = inconclusive
  None = None
  Entry = {"review", "question"}
  MaxRuns = 2
  MaxResets = 1
  MaxDecisions = 1
  MaxOrphans = 1
SPECIFICATION Spec
CHECK_DEADLOCK FALSE
INVARIANTS TypeOK RoundsRise NoVerdictDropped QueueAgrees DecisionBound ResetClears
