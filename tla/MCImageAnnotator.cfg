SPECIFICATION FairSpec
CONSTANTS
  Rows = 3
  Columns = 3
  DepthRows = 2
  DepthColumns = 7
  Landing <- MCLanding
  ColorZ <- MCColorZ
  Stride = 2
  ChunkRows = 1
  TrimPercent = 48
  YoloConfidence = 1
  Engines = {"yolo", "manual"}
  Scenes <- MCScenes
  ManualMasks <- MCManualMasks
  DepthImages <- MCDepthImages
  DepthTolerance = 1
  DepthBufferSize = 2
  MinInterval = 1
  Passthrough = TRUE
  MaxImages = 2
INVARIANTS
  CloudShowsItsObjects
  CloudIsWhatIsSeen
PROPERTIES
  NewestGetsThrough
  WorkerIsJoined
CHECK_DEADLOCK FALSE
