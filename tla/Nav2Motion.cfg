CONSTANTS
  MaxGoals = 3
  MaxCancels = 2
SPECIFICATION FairMotionSpec
INVARIANTS
  ReportsOwnGoal
  MotionIsSerialized
PROPERTY CallEnds
CHECK_DEADLOCK FALSE
