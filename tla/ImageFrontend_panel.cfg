SPECIFICATION Spec
CONSTANTS
  MaxJobs = 3
  MaxPosted = 1
  MaxRetainedTerminalJobs = 1
  HistoryLimit = 2
  MaxReports = 2
  ImagesFail = TRUE
  DoubleClicks = FALSE
  HostSubmits = FALSE
  HostReplays = FALSE
  MaxUses = 2
  RunnerRepeats = FALSE
INVARIANTS
  CompletedIsShown
  OneJobAtATime
  RunComesBack
