SPECIFICATION Spec
CONSTANTS
  Specs = {s1}
  Callers = {c1, c2}
  Daemons = {d1, d2}
  HasDBusName = TRUE
  Automount = TRUE
  MaxCalls = 3
  MaxRestarts = 1
  MayDieEarly = TRUE
  NoDaemon = nobody
INVARIANTS OneMountPerSpec WaitersOwned MountsServed
CHECK_DEADLOCK FALSE
