SPECIFICATION Spec
CONSTANTS
  NumFiles = 2
  Blocks = 1
  NumRetry = 1
  MaxRec = 2
  HostMayWrite = TRUE
  UnseenMayFail = FALSE
  MayCrash = FALSE
INVARIANTS FlagMeansProcessed
