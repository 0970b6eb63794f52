SPECIFICATION Spec
CONSTANTS
  Clients = {c1, c2}
  MaxEvents = 2
  MaxGens = 2
  Prompt = TRUE
SYMMETRY ClientSymmetry
CHECK_DEADLOCK FALSE
INVARIANTS CountInv ChangesReachMonitors
