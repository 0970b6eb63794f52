SPECIFICATION Spec
CONSTANTS
  FileSize = 2
  ReadSizes = {1}
  MaxOps = 2
  EarlyCancel = {}
  Blocks = TRUE
INVARIANT GenerationsExact
