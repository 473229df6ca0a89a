SPECIFICATION LiveSpec
CONSTANTS
  MaxJobs = 2
  MaxPosted = 1
  MaxRetainedTerminalJobs = 0
  Cameras = {c1, c2}
  Windows = {w1}
  NoWindow = NoWindow
  GateEnabled = TRUE
  MaxSceneChanges = 1
  RuntimeIds = {1, 2}
  EagerSlot = TRUE
  Replays = FALSE
  PollLimit = 1
  MaxEvents = 1
PROPERTIES
  EveryJobSettles
  GateReopens
