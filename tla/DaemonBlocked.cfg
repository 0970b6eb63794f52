SPECIFICATION Spec
CONSTANTS
  Jobs = {j1, j2, j3}
  Channels = {c1}
  ThreadedUnmount = TRUE
  MaxThreads = 1
  MaxQueue = 1
  MaxChecks = 1
  MaxForced = 1
  NoChannel = NoChannel
CHECK_DEADLOCK FALSE
INVARIANTS BlockedWhileUnmounting
