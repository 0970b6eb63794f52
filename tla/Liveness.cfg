SPECIFICATION Spec
CONSTANTS
  Parts = {"daemon", "read", "write", "enum", "monitor", "calls", "fuse", "dialog",
           "tracker", "store", "proxy", "ops", "conn", "pool", "dav", "afp"}
CHECK_DEADLOCK FALSE
PROPERTIES CallsEnd JobsEnd GoneIsForgotten NewsArrive
