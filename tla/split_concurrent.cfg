\* Two readers in any order within KeepBlocks blocks of each other, a failing disk,
\* and a clean-up thread that may close the file at any moment.
SPECIFICATION Spec
CONSTANTS
  Readers = {r1, r2}
  BlockSize = 1
  StreamLen = 3
  MaxChunk = 2
  KeepBlocks = 1
  Retries = 0
  WriterChecksLength = TRUE
  Cleaner = TRUE
  Sequential = FALSE
  Lag = 1
  MaxLen = 1
  MaxRequests = 1
  MaxStalls = 0
  DiskFaults = 1
  FlushMayFail = TRUE
  GarbageReadOffsets = {0}
INVARIANTS BlockList Accounting NoFreedBlock DanglingInHand
PROPERTIES NoHole SealedReadsGoOn
SYMMETRY Symmetry
