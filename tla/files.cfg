SPECIFICATION FairSpec
CHECK_DEADLOCK FALSE
CONSTANTS
  worker = worker
  h1 = h1
  h2 = h2
  Worker <- MCWorker
  Http <- MCHttp
  Jobs <- MCJobs
  Trees <- MCTrees
  Data <- MCData
  Size <- MCSize
  Faults <- MCFaults
INVARIANTS
  TypeOK
  NothingLost
  PasteComplete
  SkipKeeps
PROPERTIES
  OnlyItemsGo
  JobsEnd
