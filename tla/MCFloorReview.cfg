CONSTANTS
  Parts = {"kya", "mandate", "consent", "counterparty", "provenance", "injection", "log", "drift", "systemic"}
  MaxRounds = 2
SPECIFICATION Spec
CHECK_DEADLOCK FALSE
INVARIANTS TypeOK  ScopedAgrees BreachStands ClearedIsRetired EffSeesPeers NoVerdictNoClear NoLossUnsaid UngroundedNeverAuthorises MoreHarmNeverHelps
PROPERTIES OtherRunsUntouched
