SPECIFICATION Spec
CONSTANTS
  NumFiles = 2
  Blocks = 2
  NumRetry = 2
  MaxRec = 2
  HostMayWrite = TRUE
  UnseenMayFail = TRUE
  MayCrash = TRUE
INVARIANTS AccessInWindow WindowsClose ResourcesReturned LoggedOnce
PROPERTIES PassPromise PassAdvances
