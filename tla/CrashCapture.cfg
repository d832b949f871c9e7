SPECIFICATION FairSpec
CONSTANTS
  Record = {r1}
  OnDelay = 1
  FailDelay = 2
  LockDelay = 2
  Requests = {"Bert", "Done"}
INVARIANTS ReadOnce LockHasTimer NoStrandedLock
PROPERTIES EventuallyRead EventuallyUnmasked
