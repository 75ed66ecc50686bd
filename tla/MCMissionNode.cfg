CONSTANTS
  Goals = {g1, g2}
  Stops = {s1}
  None = None
  MaxCommits = 1
  MaxStatus = 1
SPECIFICATION FairSpec
INVARIANTS
  SlotIsTheMission
  ReportsItsMission
PROPERTIES
  CanceledGoalsEnd
CHECK_DEADLOCK FALSE
