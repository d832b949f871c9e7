SPECIFICATION NamesSpec
CONSTANTS
  MaxTime = 5
  MaxIndex = 2
  Label <- LocalTime
  MaySetBack = TRUE
  MayRestart = TRUE
INVARIANTS UniqueWhileUndisturbed
