\* Blocks of 5 MB as in a disk-cached install; the installer reads one block now and then.
SPECIFICATION Spec
CONSTANTS
  Readers = {r1}
  BlockSize = 1
  StreamLen = 42
  MaxChunk = 1
  KeepBlocks = 13
  Retries = 10
  WriterChecksLength = FALSE
  Cleaner = FALSE
  Sequential = TRUE
  Lag = 13
  MaxLen = 1
  MaxRequests = 2
  MaxStalls = 9
  DiskFaults = 0
  FlushMayFail = FALSE
  GarbageReadOffsets = {0}
INVARIANT CacheBounded
