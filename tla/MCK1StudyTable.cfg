SPECIFICATION StudySpec
CONSTANTS
  Sizes <- MCSizes
  Clean <- MCClean
  Surviving <- MCSurviving
  Every = 2
  Limits <- MCLimits
  MaxRuns = 2
  CaptureLimits = {3, 5}
  MaxCaptures = 3
INVARIANT
  AttackedShareIsNotOverstated
CHECK_DEADLOCK FALSE
