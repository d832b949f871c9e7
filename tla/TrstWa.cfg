SPECIFICATION Spec
CONSTANTS
  MaxWait = 2
  MaxRises = 2
  MaxFaults = 2
INVARIANTS PowerGoodIsReset
