CONSTANTS
  Goals = {g1, g2}
  Stops = {s1}
  None = None
  MaxCommits = 1
  MaxStatus = 1
SPECIFICATION Spec
PROPERTY EndedMissionStaysEnded
CHECK_DEADLOCK FALSE
