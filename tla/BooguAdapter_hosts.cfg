SPECIFICATION Spec
CONSTANTS
  MaxJobs = 2
  MaxPosted = 2
  MaxRetainedTerminalJobs = 1
  Cameras = {c1}
  Windows = {w1}
  NoWindow = NoWindow
  GateEnabled = FALSE
  MaxSceneChanges = 0
  RuntimeIds = {1, 2}
  EagerSlot = FALSE
  Replays = TRUE
  PollLimit = 1
  MaxEvents = 2
INVARIANTS
  NoOrphanRecord
  NoRunawayWork
  DispatchFindsRuntime
PROPERTY
  FollowsLifecycle
