SPECIFICATION Spec
CONSTANTS
  p1 = p1
  p2 = p2
  f1 = f1
  NoTarget = NoTarget
  Targets <- MCTargets
  Foreign <- MCForeign
  GuiTools = {TRUE, FALSE}
  Flags <- MCFlags
  BlockAt = 2
  SameFlagLimit = 2
  MaxCalls = 4
INVARIANTS
  RunbookHasEvidence
  BlockedTargetsFailed
  ModelIsTold
  PointersIntact
CHECK_DEADLOCK FALSE
