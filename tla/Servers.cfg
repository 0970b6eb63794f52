SPECIFICATION Spec
CONSTANTS
  Parts = {"conn", "connLive", "login", "pull", "pullFaults", "push", "replace", "sftp", "sftpRead",
           "pool", "ftp", "ftpTwo", "ftpLogin", "data", "nfs", "nfsJobs", "nfsRead", "nfsInfo",
           "davWrite", "davMove", "davDir", "davPush", "davMount"}
CHECK_DEADLOCK FALSE
INVARIANTS ConnectionsExact ContentKept JobsDoAsAsked LoginsSafe ContentGuarded
PROPERTIES OldUntilNew
