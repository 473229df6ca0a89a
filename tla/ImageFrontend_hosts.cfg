SPECIFICATION Spec
CONSTANTS
  MaxJobs = 2
  MaxPosted = 2
  MaxRetainedTerminalJobs = 1
  HistoryLimit = 2
  MaxReports = 2
  ImagesFail = FALSE
  DoubleClicks = FALSE
  HostSubmits = TRUE
  HostReplays = TRUE
  MaxUses = 1
  RunnerRepeats = FALSE
INVARIANTS
  TypeOK
  NoOrphanRecord
  NoRunawayWork
  RetentionBound
  OnlyValidatedShown
PROPERTY FollowsLifecycle
