SPECIFICATION FairSpec
CHECK_DEADLOCK FALSE
CONSTANTS
  r1 = r1
  r2 = r2
  e1 = e1
  e2 = e2
  p1 = p1
  Requests <- MCRequests
  Entries <- MCEntries
  Packages <- MCPackages
  Hash <- MCHash
  MaxInstalls = 3
  Unchecked = TRUE
  Refusals <- MCRefusals
  Errors <- MCErrors
  Misread = FALSE
  Racing = FALSE
INVARIANTS
  TypeOK
  ServedByOwn
  FlagCovers
  OneArchiveReader
  NoFreedUnderWriter
  ListCleared
PROPERTIES
  FlagComesDown
  DataFreed
