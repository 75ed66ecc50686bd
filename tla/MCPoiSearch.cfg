CONSTANTS
  Width = 4
  Height = 3
  SelectionFootprint = 0
  MotionFootprint = 1
  SnapRadius = 1
  Maps <- MCMaps
  Spacing = 2
  MinProgress = 100
  MaxRevision = 2
  MaxMissions = 2
  MaxCanceled = 1
SPECIFICATION FairSpec
INVARIANTS
  FillIsComponent
PROPERTIES
  GoalsMatchMap
  ExhaustionIsHonest
  SearchEnds
CHECK_DEADLOCK FALSE
