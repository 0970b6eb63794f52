SPECIFICATION Spec
CONSTANTS
  Parts = {"afpConn", "afpClose", "afpFail", "afpLogin", "afpBrowse", "afpMove",
           "afpOne", "afpLook", "afpForks", "afpDirect", "camWrite", "camNames", "mtpOwn",
           "mtpTransfer", "mtpPhone", "mtpHandles"}
CHECK_DEADLOCK FALSE
INVARIANTS RepliesOwned LoginsRight VolumesKept DeviceRemembered
PROPERTIES NothingElseTouched
