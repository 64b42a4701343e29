SPECIFICATION Spec
CHECK_DEADLOCK FALSE
CONSTANTS
  worker = worker
  h1 = h1
  h2 = h2
  Worker = {}
  Http <- MCTwoHttp
  Jobs <- MCTwoJobs
  Trees <- MCTrees
  Data <- MCData
  Size <- MCSize
  Faults <- MCNoFaults
INVARIANT
  NothingLost
