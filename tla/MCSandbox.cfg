CONSTANTS
  d1 = d1
  d2 = d2
  l1 = l1
  l2 = l2
  None = None
  Domain = {d1, d2}
  Rule = {"r"}
  Setting = {0, 1}
  Default = 0
  Label = {l1, l2}
  Clipped = {l1, l2}
  Mode = {"mechanical"}
  Dossiers = 2
  MaxDrafts = 2
  MaxVersion = 3
  MaxSweeps = 2
  MaxGround = 1
SYMMETRY Symmetry
SPECIFICATION Spec
CHECK_DEADLOCK FALSE
INVARIANTS TypeOK RestsOnPresentGround OneVersionPerSweep EveryBookKept LedgerTellsTheChange
