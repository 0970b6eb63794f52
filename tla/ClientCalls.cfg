SPECIFICATION Spec
CONSTANTS
  Daemons = {d1, d2}
  Threads = {t1}
  Tasks = {a1}
  MaxObjs = 2
  MaxRuns = 2
  Shared = FALSE
  Sandboxed = FALSE
CHECK_DEADLOCK FALSE
INVARIANTS MountsAreReached
