SPECIFICATION FairSpec
CHECK_DEADLOCK FALSE
CONSTANTS
  Calls <- MCCalls
  Blocks = 2
  Pipe = 1
  MaxBehind <- MCMaxBehind
INVARIANTS
  TypeOK
  InStep
  TransferRight
  Honest
  LoggedIn

PROPERTIES
  CallsReturn
