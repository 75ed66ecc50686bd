SPECIFICATION FairSpec
CONSTANTS
  Scenes <- MCScenes
  LegacyObjects <- MCLegacyObjects
  Places = {0, 1, 2, 3, 4, 5, 6}
  MinObservations = 2
  MinMeanConfidence = 6
  YoloConfidence = 4
  ConfirmationWindow = 3
  ConfirmationMaxGap = 2
  Threshold = 2
  Labels = {1, 2}
  SyncTolerance = 1
  SyncQueueSize = 2
  RetryWindow = 2
  MaxClock = 3
  MaxFaults = 1
INVARIANTS
  CandidatesAreTentative
  IndexFindsNearest
  CleanMeansSaved
  PictureIsItsOwn
PROPERTIES
  ChangesAreShown
CHECK_DEADLOCK FALSE
