SPECIFICATION Spec
CONSTANTS
  Data = {"a", "b"}
  Junk = "junk"
  Images <- SomeImages
  ZeroCrc <- CrcZero
  Size = 4
  Page = 2
  PageSizes = {1, 2, 4}
  Initial <- Fresh
  MaxFaults = 3
INVARIANTS PassedMeansProgrammed OkMeansWritten Heals
