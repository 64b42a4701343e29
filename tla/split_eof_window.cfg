\* One reader, one writer that closes the file itself, nothing fails.
SPECIFICATION Spec
CONSTANTS
  Readers = {r1}
  BlockSize = 2
  StreamLen = 3
  MaxChunk = 3
  KeepBlocks = 13
  Retries = 10
  WriterChecksLength = TRUE
  Cleaner = FALSE
  Sequential = TRUE
  Lag = 13
  MaxLen = 3
  MaxRequests = 3
  MaxStalls = 9
  DiskFaults = 0
  FlushMayFail = FALSE
  GarbageReadOffsets = {0}
INVARIANT EmptyReadIsPastEnd
