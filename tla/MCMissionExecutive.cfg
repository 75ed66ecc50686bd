CONSTANTS
  Candidates = {c1, c2}
  Revisions = {r1, r2}
  ReasonCodes <- MCReasonCodes
  Poses = {p1}
  RecorderStates <- MCRecorderStates
  NoRecorder = "off"
  ToolResults <- MCToolResults
  ScenarioPolicy = None
  None = None
  MaxMissions = 2
  MaxRevision = 8
SPECIFICATION Spec
INVARIANTS
  TargetIsCurrent
PROPERTIES
  ApproachKeepsTarget
  AuditTrail
  ImplementsPromise
SYMMETRY MCSymmetry
CHECK_DEADLOCK FALSE
