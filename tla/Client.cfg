SPECIFICATION Spec
CONSTANTS
  Parts = {"read", "write", "enum", "enumThread", "enumSync", "fuse", "fuseRename", "file",
           "fileShared", "ask", "dialog", "googleLook", "googleMove", "googleWrite",
           "googleOthers", "oneLook", "oneDrive", "oneWrite", "oneShared"}
CHECK_DEADLOCK FALSE
INVARIANTS RepliesArrive WritesAreTrue ListingsWhole ReferencesExact AnswersAreTheUsers CachesTrue
PROPERTIES CloudKept
