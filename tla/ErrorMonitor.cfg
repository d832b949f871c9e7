SPECIFICATION FairSpec
CONSTANTS
  Root <- ConfiguredRoot
  Driver <- SomeFiles
  Errors <- SomeErrors
  Alerts <- SomeAlerts
  Changes <- SomeChanges
  MaxRaised = 2
  MaxSignals = 2
  MaxCrashes = 1
  MaxMisreads = 1
INVARIANTS PollingFollowsHost LogTellsState NothingLost LedShowsUE
PROPERTIES ShownCatchesUp WaitingIsTaken
