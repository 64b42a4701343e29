\* A remote client's Get as the writer; one write to the disk falls short.
SPECIFICATION Spec
CONSTANTS
  Readers = {r1}
  BlockSize = 4
  StreamLen = 4
  MaxChunk = 2
  KeepBlocks = 13
  Retries = 10
  WriterChecksLength = FALSE
  Cleaner = FALSE
  Sequential = TRUE
  Lag = 13
  MaxLen = 2
  MaxRequests = 1
  MaxStalls = 9
  DiskFaults = 1
  FlushMayFail = FALSE
  GarbageReadOffsets = {0}
PROPERTY NoHole
