SPECIFICATION Spec
CONSTANTS
  MaxJobs = 1
  MaxSockets = 1
  MaxSamples = 1
CHECK_DEADLOCK FALSE
INVARIANT SurvivesPcLoss
