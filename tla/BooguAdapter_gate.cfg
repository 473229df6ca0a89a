SPECIFICATION Spec
CONSTANTS
  MaxJobs = 2
  MaxPosted = 1
  MaxRetainedTerminalJobs = 1
  Cameras = {c1, c2, c3}
  Windows = {w1, w2}
  NoWindow = NoWindow
  GateEnabled = TRUE
  MaxSceneChanges = 2
  RuntimeIds = {1, 2}
  EagerSlot = TRUE
  Replays = FALSE
  PollLimit = 1
  MaxEvents = 1
SYMMETRY
  Interchangeable
INVARIANTS
  SurfaceQuiet
  RestoredExactly
  GateHasOwner
