SPECIFICATION LiveSpec
CONSTANTS
  Variants = {turbo, edit, edit1k5}
  EditVariants = {edit, edit1k5}
  FirstEdit = edit
  NoVariant = NoVariant
  MaxRequest = 2
  MaxQueued = 3
  References = TRUE
  PollLimit = 2
INVARIANTS
  AnswersKept
  EngineComesBack
  NoticeTrue
  PendingIsOwed
PROPERTIES
  KeepsContract
  PendingEnds
