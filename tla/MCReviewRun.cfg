CONSTANTS
  r1 = r1
  r2 = r2
  mandate = mandate
  Run = {r1, r2}
  Peer = {mandate}
  Systemic = systemic
  Control = control_assurance
  Investigator = investigator
  Orchestrator = orchestrator
  Briefable = {mandate}
  Judging = {mandate}
  Asked <- AnyAndFirst
  Slots = 1
SPECIFICATION FairSpec
CHECK_DEADLOCK FALSE
INVARIANTS TypeOK FloorBeforeCall NoSlotLeaks NoPeerMissing ControlHearsAll
PROPERTY EveryRunEnds
