SPECIFICATION LiveSpec
CONSTANTS
  Variants = {turbo, edit, base}
  Warmed = {edit}
  NoVariant = NoVariant
  MaxRequest = 2
  MaxEvents = 2
  Panics = TRUE
  WarmupTimeouts = TRUE
CHECK_DEADLOCK FALSE
INVARIANTS
  ResidencyExclusive
  ResidentHonest
  ActiveIsOwed
  JoinIsShort
PROPERTIES
  KeepsContract
  EveryCallIsAnswered
  MemoryReturned
