CONSTANTS
  MaxMissions = 2
SPECIFICATION FairSpec
INVARIANTS
  BagsTellTheirMission
  EveryEventIsPublished
PROPERTIES
  EndedMissionsAreQuiet
CHECK_DEADLOCK FALSE
