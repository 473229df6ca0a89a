SPECIFICATION Spec
CONSTANTS
  Releases = {turbo, edit, edit1k5}
  EditReleases = {edit, edit1k5}
  Stages = 2
  Text = text
  Vision = vision
  Decoder = decoder
  Meta = meta
  DmdSteps = 2
  MaxReloads = 1
  Pressure = TRUE
  MaxSpoils = 1
  Objects <- MCObjects
  Halved <- MCHalved
INVARIANTS
  ReadyIsWhole
  GpuBounded
  FailsForCause
  LostWasDeleted
  NoRepeatTransfer
CHECK_DEADLOCK FALSE
