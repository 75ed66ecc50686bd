CONSTANTS
  c1 = c1
  c2 = c2
  r1 = r1
  r2 = r2
  Candidates = {c1, c2}
  Revisions = {r1, r2}
  Content <- MCContent
  None = None
  RecorderStates = {"off", "on"}
  NoRecorder = "off"
  ScenarioPolicy = None
  MaxMissions = 2
  MaxRevision = 12
  FailureLimit = 2
  NoProgressLimit = 2
SPECIFICATION FairSpec
INVARIANTS
  RunEndsTerminal
  BackendAgrees
  ExhaustionWasObserved
PROPERTIES
  CancelEndsMission
CHECK_DEADLOCK FALSE
