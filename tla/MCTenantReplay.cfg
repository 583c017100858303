SPECIFICATION DestroySpec
CONSTANTS
  r1 = r1
  r2 = r2
  NONE = NONE
  MaxFailures = 1
  Runs <- TwoRuns
  Fences <- TwoFences
INVARIANT
  TombstoneSufficesForReplay
