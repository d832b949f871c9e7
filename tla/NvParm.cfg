SPECIFICATION Spec
CONSTANTS
  Params = {"old", "new"}
  Size = 4
  Per = 2
  PartLen = 3
  Procs = {p1, p2}
  Commands <- SomeCommands
  NoCommand = NoCommand
  BufSize = 2
  Initial <- OldContent
  MaxFaults = 1
SYMMETRY Processes
PROPERTIES StorePromise OkMeansDone
