SPECIFICATION Spec
CONSTANTS
  Variants = {turbo, edit}
  Warmed = {edit}
  NoVariant = NoVariant
  MaxRequest = 2
  MaxEvents = 1
  Panics = TRUE
  WarmupTimeouts = TRUE
CHECK_DEADLOCK FALSE
INVARIANT
  IdleIsUsable
