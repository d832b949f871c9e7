SPECIFICATION Spec
CONSTANTS
  SumMod = 16
  Boards <- AllBoards
  Ops = {"program", "version", "id", "checksum"}
  Lines <- SomeFiles
  CFRows = 2
  UFMRows = 3
  OldRow <- OldContent
  JunkRow <- Junk
  MaxFaults = 2
INVARIANTS TypeOK PassMeansHeads PassMeansStored RetryHeals ChecksumTells BuffersFit
