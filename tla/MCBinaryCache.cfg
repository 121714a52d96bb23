SPECIFICATION FairSpec
CONSTANTS
  crackme = crackme
  original = original
  patched = patched
  None = None
  Paths = {crackme}
  Contents = {original, patched}
  MaxJobs = 2
  MaxPatches = 2
INVARIANTS PublishedIsWhole ListingIsOfContent AnalysedOnce EmulatesCurrent
PROPERTY CallEnds
CHECK_DEADLOCK FALSE
