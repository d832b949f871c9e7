SPECIFICATION FairSpec
CONSTANTS
  Powers = {0, 1}
  Caps = {0, 1}
  CorrTimes = {0, 2}
  Periods = {0, 1, 2}
  MinPeriod = 1
  DefaultCfg <- Fresh
  MaxAge = 2
  DiskMayFail = FALSE
PROPERTIES LimitEnforced LimitReleased LimitSpec
