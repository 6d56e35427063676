SPECIFICATION FairSpec
CONSTANTS
  MaxJobs = 2
  MaxSockets = 2
  MaxSamples = 2
CHECK_DEADLOCK FALSE
INVARIANT FramesWhole
PROPERTIES SamplesInOrder CancelledJobsEnd KeepsTrying
