SPECIFICATION ResearchSpec
CONSTANTS
  MaxJobs = 2
  MaxAttempts = 2
  MaxConcurrency = 2
  MaxChanges = 1
  MaxMishaps = 1
INVARIANT
  StatusIsTrue
  OneCurrent
PROPERTY
  EveryJobEnds
CHECK_DEADLOCK FALSE
