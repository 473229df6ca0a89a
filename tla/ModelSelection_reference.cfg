SPECIFICATION Spec
CONSTANTS
  Variants = {turbo, edit}
  EditVariants = {edit}
  FirstEdit = edit
  NoVariant = NoVariant
  MaxRequest = 1
  MaxQueued = 2
  References = TRUE
  PollLimit = 1
INVARIANT
  BlockedOnlyWhileSwitching
