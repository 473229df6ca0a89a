SPECIFICATION Spec
CONSTANTS
  Process = {p1, p2}
  Compact = {config}
  Parts = {part1, part2}
  Sidecar = Sidecar
  Logical = Logical
  Manifest = Manifest
  NoFile = NoFile
  MaxAttempts = 2
  Overlap = {"pipeline"}
INVARIANTS
  OkMeansComplete
  RaceHasWinner
PROPERTIES
  SealedLast
  RepairedWithdrawn
