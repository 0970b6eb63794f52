SPECIFICATION Spec
CONSTANTS
  Parts = {"trackerRestart", "trackerNamed", "store", "storeCrash", "journal",
           "proxy", "proxyRoots", "opsTwo", "opsOne", "opsDrives", "opsThrough"}
CHECK_DEADLOCK FALSE
INVARIANTS MetadataKept VolumesTrue OperationsOwned
PROPERTIES AnswersOfThePresent
