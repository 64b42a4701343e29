SPECIFICATION FairSpec
CONSTANTS
  file1 = file1
  file2 = file2
  w1 = w1
  w2 = w2
  h1 = h1
  Files <- MCFiles
  Dirs <- MCDirs
  Workers <- MCWorkers
  Requests <- MCRequests
  InstallUrls = TRUE
  Kinds = {"DELETE_LOCAL", "DOWNLOAD", "INSTALL_REMOTE_PKG"}
  DiskCache = FALSE
  OverwriteTypes = {"NONE", "PROMPT", "ALL"}
  MayAlways = FALSE
  UserIsSlow = TRUE
  InstallsApart = TRUE
  ThreadsFail = TRUE
INVARIANTS
  TypeOK
  OneWorker
  ConsentedOverwrite
  DeleteConsented
  CancelHeeded
PROPERTIES
  HttpRefused
  WorkerReturns
