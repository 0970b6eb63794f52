SPECIFICATION Spec
CONSTANTS
  Jobs = {j1, j2}
  Channels = {c1}
  ThreadedUnmount = TRUE
  MaxThreads = 1
  MaxQueue = 1
  MaxChecks = 2
  MaxForced = 1
  NoChannel = NoChannel
CHECK_DEADLOCK FALSE
INVARIANTS TypeOK ActivityExact IdleMeansInactive IdleIsArmed ExitIsScheduled
