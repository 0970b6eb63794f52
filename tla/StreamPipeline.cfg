SPECIFICATION Spec
CONSTANTS
  FileSize = 2
  ReadSizes = {2}
  MaxOps = 3
  EarlyCancel = {"seek"}
  Blocks = TRUE
INVARIANTS TypeOK PipelineOrdered
PROPERTY ImplementsFileStream
