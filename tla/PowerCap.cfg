SPECIFICATION Spec
CONSTANTS
  Powers = {0, 1}
  Caps = {0, 1}
  CorrTimes = {0, 3}
  Periods = {0, 2}
  MinPeriod = 2
  DefaultCfg <- Fresh
  MaxAge = 3
  DiskMayFail = TRUE
INVARIANTS TimersFollowEnable TimerTracksExcursion CfgDurable
PROPERTIES ActionJustified OncePerExcursion EventsPaired
