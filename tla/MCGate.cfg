SPECIFICATION Spec
CONSTANTS
  old = old
  mid = mid
  new = new
  NoBody = NoBody
  Bodies <- MCBodies
  Similar <- MCSimilar
  StreakLimit = 3
  ReleaseAfter = 3
  CooldownSteps = 2
  MaxSteps = 8
  MaxCalls = 2
  MayFail = TRUE
SYMMETRY MCSymmetry
INVARIANTS
  BlockCostBounded
PROPERTIES
  BlockJustified
  QuietAfterRelease
  LiftUnblocks
CHECK_DEADLOCK FALSE
