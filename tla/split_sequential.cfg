\* One installer that reads front to back, a writer that closes the file itself.
SPECIFICATION InstallerSpec
CONSTANTS
  Readers = {r1}
  BlockSize = 2
  StreamLen = 7
  MaxChunk = 3
  KeepBlocks = 1
  Retries = 3
  WriterChecksLength = TRUE
  Cleaner = FALSE
  Sequential = TRUE
  Lag = 1
  MaxLen = 3
  MaxRequests = 7
  MaxStalls = 2
  DiskFaults = 0
  FlushMayFail = FALSE
  GarbageReadOffsets <- MCFreshMemory
INVARIANTS TypeOK ReadRight NoCrash
PROPERTIES RequestAnswered CloseReturns ImplementsStream
