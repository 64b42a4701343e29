--------------------------- MODULE SplitFileProofs ---------------------------
(***************************************************************************)
(* SplitFile is well typed and keeps what it promises: no block is deleted *)
(* under a reader, the block list and the byte counters are right, and a   *)
(* read returns the bytes it was asked for.  Proved for every block size,  *)
(* stream, KeepBlocks, number of readers and closing order.                *)
(*                                                                         *)
(* The invariant on types that is inductive is TypeInv: a call of Read     *)
(* never holds more bytes than it was asked for, so the position of a      *)
(* block's FILE stays inside the block, and a reader that is about to      *)
(* position or read a FILE does so on a published block.                   *)
(***************************************************************************)
EXTENDS SplitFile, SequenceTheorems, TLAPS

-----------------------------------------------------------------------------
(***************************************************************************)
(* Facts about the helpers and the records.                                *)
(***************************************************************************)

(* A position of the stream is in the block and at the offset Read         *)
(* computes for it.                                                        *)
LEMMA BlockArithmetic ==
  ASSUME NEW pos \in Nat
  PROVE  /\ BlockOf(pos) \in Nat
         /\ (pos % BlockSize) \in 0..(BlockSize - 1)
         /\ BlockOf(pos) * BlockSize + (pos % BlockSize) = pos
BY SplitFileAssumption DEF BlockOf

(* The bytes of a position range, as many as asked for and in order.       *)
LEMMA BytesType ==
  ASSUME NEW from \in Nat, NEW n \in Nat
  PROVE  /\ Bytes(from, n) \in Seq(Nat)
         /\ Len(Bytes(from, n)) = n
         /\ \A i \in 1..n : Bytes(from, n)[i] = from + i - 1
<1>1. \A i \in 1..n : from + i - 1 \in Nat
  OBVIOUS
<1>2. QED  BY <1>1 DEF Bytes

(* Publishing a block makes the list one longer.                           *)
LEMMA AppendGrows ==
  ASSUME NEW S, NEW s \in Seq(S), NEW e \in S
  PROVE  /\ Append(s, e) \in Seq(S)
         /\ Len(Append(s, e)) = Len(s) + 1
         /\ Len(Append(s, e)) >= Len(s)
<1>1. Append(s, e) \in Seq(S) /\ Len(Append(s, e)) = Len(s) + 1
  BY AppendProperties
<1>2. Len(s) \in Nat
  OBVIOUS
<1>3. QED  BY <1>1, <1>2

(* What the code does to a published block keeps it a block.               *)
LEMMA BlockUpdates ==
  ASSUME NEW b \in FileBlock
  PROVE  /\ [b EXCEPT !.on_disk = FALSE] \in FileBlock
         /\ \A n \in 0..BlockSize : /\ [b EXCEPT !.at = n] \in FileBlock
                                   /\ [b EXCEPT !.fd = "open", !.at = n] \in FileBlock
BY DEF FileBlock

(* A reader that moves on is a reader,                                     *)
LEMMA PcUpdate ==
  ASSUME NEW x \in ReaderState,
         NEW p \in {"idle", "first", "seek", "fread", "next", "reap", "ret"}
  PROVE  [x EXCEPT !.pc = p] \in ReaderState
BY DEF ReaderState

(* and so is one that is given a range.                                    *)
LEMMA RangeUpdate ==
  ASSUME NEW x \in ReaderState, NEW off \in Nat, NEW len \in Nat, NEW n \in 0..MaxRequests
  PROVE  [x EXCEPT !.off = off, !.len = len, !.body = <<>>, !.asked = n] \in ReaderState
<1>1. <<>> \in Seq(Nat)
  OBVIOUS
<1>2. QED  BY <1>1 DEF ReaderState

-----------------------------------------------------------------------------
(***************************************************************************)
(* The inductive invariant and the steps.                                  *)
(***************************************************************************)
Fits == \A r \in Readers : Len(reader[r].buf) <= reader[r].len

Found == \A r \in Readers : reader[r].pc \in {"seek", "fread"} => InList(r)

TypeInv == TypeOK /\ Fits /\ Found

USE DEF vars, fileVars, askVars, TypeInv, TypeOK, Fits, Found, InList

(* A list that does not shrink keeps every reader's block in it.           *)
LEMMA FoundGrows ==
  ASSUME TypeInv, file_blocks' \in Seq(FileBlock), Len(file_blocks') >= Len(file_blocks),
         reader' = reader
  PROVE  Fits' /\ Found'
<1>1. \A r \in Readers : reader[r].num \in Nat
  BY DEF ReaderState
<1>2. Len(file_blocks) \in Nat /\ Len(file_blocks') \in Nat
  OBVIOUS
<1>3. QED  BY <1>1, <1>2

(* A new block is empty and unpublished.                                   *)
LEMMA NewBlockType ==
  ASSUME TypeOK, NewBlock
  PROVE  block_in_progress' \in InProgress /\ faults' \in 0..DiskFaults
<1>1. block_in_progress' \in InProgress
  <2>1. 0 \in 0..BlockSize
    BY SplitFileAssumption
  <2>2. \A f \in {"open", "null"} : [size |-> 0, fd |-> f, published |-> FALSE] \in InProgress
    BY <2>1 DEF InProgress
  <2>3. QED  BY <2>2 DEF NewBlock
<1>2. faults' \in 0..DiskFaults
  BY SplitFileAssumption DEF NewBlock
<1>3. QED  BY <1>1, <1>2

(* A block that is published is a block, whatever of it is in the file.    *)
LEMMA PublishType ==
  ASSUME TypeOK, NEW last \in BOOLEAN, Publish(last)
  PROVE  /\ file_blocks' \in Seq(FileBlock)
         /\ Len(file_blocks') >= Len(file_blocks)
         /\ block_in_progress' \in InProgress
         /\ faults' \in 0..DiskFaults
         /\ \E n \in 0..block_in_progress.size :
              /\ Published(last, n) \in FileBlock
              /\ file_blocks' = Append(file_blocks, Published(last, n))
<1>1. PICK n \in 0..block_in_progress.size :
        /\ n < block_in_progress.size => FlushMayFail /\ faults < DiskFaults
        /\ faults' = IF n < block_in_progress.size THEN faults + 1 ELSE faults
        /\ file_blocks' = Append(file_blocks, Published(last, n))
        /\ block_in_progress' = [block_in_progress EXCEPT !.fd = "null", !.published = TRUE]
  BY Zenon DEF Publish
<1>2. block_in_progress.size \in 0..BlockSize /\ n \in 0..BlockSize
  BY SplitFileAssumption DEF InProgress
<1>3. Published(last, n) \in FileBlock
  BY <1>2, SplitFileAssumption DEF Published, FileBlock
<1>4. /\ Append(file_blocks, Published(last, n)) \in Seq(FileBlock)
      /\ Len(Append(file_blocks, Published(last, n))) >= Len(file_blocks)
  BY <1>3, AppendGrows
<1>5. block_in_progress' \in InProgress
  BY <1>1 DEF InProgress
<1>6. faults' \in 0..DiskFaults
  <2>1. n < block_in_progress.size => faults + 1 \in 0..DiskFaults
    BY <1>1, SplitFileAssumption
  <2>2. QED  BY <1>1, <2>1
<1>7. QED  BY <1>1, <1>3, <1>4, <1>5, <1>6

(* Every step of the writer thread keeps the types.                        *)
LEMMA TypeWriter ==
  ASSUME TypeInv, WriterStep
  PROVE  TypeInv'
<1>1. CASE Open
  <2>1. writer' \in WriterState
    BY <1>1 DEF Open, WriterState
  <2>2. QED  BY <1>1, <2>1, NewBlockType DEF Open
<1>2. CASE WriteCall
  <2>1. writer' \in WriterState
    <3>1. PICK n \in 1..MinOf(MaxChunk, StreamLen - writer.taken) :
            writer' = IF complete
                 THEN [writer EXCEPT !.pc = "close", !.taken = @ + n]
                 ELSE [writer EXCEPT !.pc = "loop", !.left = n, !.put = 0, !.taken = @ + n]
      BY <1>2 DEF WriteCall
    <3>2. writer.taken \in Nat
      BY DEF WriterState
    <3>3. n \in Nat
      BY <3>2, SplitFileAssumption DEF MinOf
    <3>4. writer.taken + n \in Nat
      BY <3>2, <3>3
    <3>5. CASE complete
      BY <3>1, <3>4, <3>5 DEF WriterState
    <3>6. CASE ~complete
      BY <3>1, <3>3, <3>4, <3>6 DEF WriterState
    <3>7. QED  BY <3>5, <3>6
  <2>2. QED  BY <1>2, <2>1 DEF WriteCall
<1>3. CASE SourceEnds
  <2>1. writer' \in WriterState
    BY <1>3 DEF SourceEnds, WriterState
  <2>2. faults' \in 0..DiskFaults
    BY <1>3, SplitFileAssumption DEF SourceEnds
  <2>3. QED  BY <1>3, <2>1, <2>2 DEF SourceEnds
<1>4. CASE WriteLoop
  <2>1. writer' \in WriterState
    BY <1>4 DEF WriteLoop, WriterState
  <2>2. QED  BY <1>4, <2>1 DEF WriteLoop
<1>5. CASE FWrite /\ block_in_progress.fd = "open"
  <2> DEFINE want == MinOf(writer.left, BlockSize - block_in_progress.size)
  <2>1. PICK n \in 0..want :
          /\ n < want => faults < DiskFaults
          /\ faults' = IF n < want THEN faults + 1 ELSE faults
          /\ block_in_progress' = [block_in_progress EXCEPT !.size = @ + n]
          /\ writer' = [writer EXCEPT
                     !.left = @ - n, !.put = @ + n,
                     !.pc = IF n < want THEN "short"
                            ELSE IF block_in_progress.size + n = BlockSize THEN "full"
                            ELSE "loop"]
          /\ UNCHANGED <<file_blocks, complete, write_offset, read_offset, closer,
                               stop_write_thread, reader, askVars, ub>>
    BY <1>5, Zenon DEF FWrite
  <2>2. writer.left \in Nat /\ block_in_progress.size \in 0..BlockSize
    BY DEF WriterState, InProgress
  <2>3. n \in Nat /\ n <= writer.left /\ n <= BlockSize - block_in_progress.size
    BY <2>2, SplitFileAssumption DEF MinOf
  <2> HIDE DEF want
  <2>4. faults' \in 0..DiskFaults
    BY <2>1, SplitFileAssumption
  <2>5. block_in_progress' \in InProgress
    <3>1. block_in_progress.size + n \in 0..BlockSize
      BY <2>2, <2>3, SplitFileAssumption
    <3>2. QED  BY <2>1, <3>1 DEF InProgress
  <2>6. writer' \in WriterState
    <3>1. writer.left - n \in Nat /\ writer.put + n \in Nat
      BY <2>2, <2>3 DEF WriterState
    <3>2. QED  BY <2>1, <3>1 DEF WriterState
  <2>7. QED  BY <2>1, <2>4, <2>5, <2>6
<1>6. CASE FWrite /\ block_in_progress.fd # "open"
  BY <1>6, Zenon DEF FWrite, Undefined
<1>7. CASE BlockFull /\ block_in_progress.fd = "open"
  <2>1. Publish(FALSE)
    BY <1>7, Zenon DEF BlockFull
  <2>2. /\ file_blocks' \in Seq(FileBlock) /\ Len(file_blocks') >= Len(file_blocks)
        /\ block_in_progress' \in InProgress
        /\ faults' \in 0..DiskFaults
    BY <2>1, PublishType
  <2>4. writer' \in WriterState
    BY <1>7 DEF BlockFull, WriterState
  <2>5. UNCHANGED <<complete, write_offset, read_offset, closer, stop_write_thread,
                    reader, askVars, ub>>
    BY <1>7, Zenon DEF BlockFull
  <2>6. Fits' /\ Found'
    BY <2>2, <2>5, FoundGrows
  <2>7. QED  BY <2>2, <2>4, <2>5, <2>6
<1>8. CASE BlockFull /\ block_in_progress.fd # "open"
  BY <1>8, Zenon DEF BlockFull, Undefined
<1>9. CASE RollBlock
  <2>1. writer' \in WriterState
    BY <1>9 DEF RollBlock, WriterState
  <2>2. QED  BY <1>9, <2>1, NewBlockType DEF RollBlock
<1>10. CASE WriteReturn
  <2>1. writer' \in WriterState
    BY <1>10 DEF WriteReturn, WriterState, AfterWrite
  <2>2. write_offset' \in Nat
    BY <1>10 DEF WriteReturn, WriterState, CountWritten
  <2>3. QED  BY <1>10, <2>1, <2>2 DEF WriteReturn
<1>11. CASE WriterCloses
  <2>1. closer' \in [Closers -> CloserState]
    BY <1>11 DEF WriterCloses, CloserState, Closers
  <2>2. QED  BY <1>11, <2>1 DEF WriterCloses
<1>12. CASE WriterEnds
  <2>1. writer' \in WriterState
    BY <1>12 DEF WriterEnds, WriterState
  <2>2. QED  BY <1>12, <2>1 DEF WriterEnds
<1>13. QED
  BY <1>1, <1>2, <1>3, <1>4, <1>5, <1>6, <1>7, <1>8, <1>9, <1>10, <1>11, <1>12 DEF WriterStep

(* What removing does to a published block: nothing to its bytes, and a    *)
(* block that is there afterwards was there before.                        *)
SameContent(b, c) ==
  /\ c \in FileBlock
  /\ c.size = b.size /\ c.data = b.data /\ c.is_last = b.is_last /\ c.at = b.at
  /\ c.status = "CREATED" => b.status = "CREATED"

(* A list of which one slot is replaced by such a block. *)
SlotChanged(k) ==
  /\ file_blocks' \in Seq(FileBlock)
  /\ Len(file_blocks') = Len(file_blocks)
  /\ DOMAIN file_blocks' = DOMAIN file_blocks
  /\ \A i \in DOMAIN file_blocks :
       /\ SameContent(file_blocks[i], file_blocks'[i])
       /\ i # k => file_blocks'[i] = file_blocks[i]

LEMMA SlotReplaced ==
  ASSUME TypeOK, NEW k, NEW c, k \in DOMAIN file_blocks => SameContent(file_blocks[k], c),
         file_blocks' = [file_blocks EXCEPT ![k] = c]
  PROVE  SlotChanged(k)
<1>1. /\ Len(file_blocks) \in Nat /\ DOMAIN file_blocks = 1..Len(file_blocks)
      /\ \A i \in DOMAIN file_blocks : file_blocks[i] \in FileBlock
  OBVIOUS
<1>2. /\ DOMAIN file_blocks' = DOMAIN file_blocks
      /\ \A i \in DOMAIN file_blocks : file_blocks'[i] = IF i = k THEN c ELSE file_blocks[i]
      /\ file_blocks' = [i \in DOMAIN file_blocks |-> file_blocks'[i]]
  OBVIOUS
<1>3. \A i \in DOMAIN file_blocks : SameContent(file_blocks[i], file_blocks'[i])
  BY <1>1, <1>2 DEF SameContent
<1>4. file_blocks' \in [1..Len(file_blocks) -> FileBlock]
  BY <1>1, <1>2, <1>3 DEF SameContent
<1>5. QED  BY <1>1, <1>2, <1>3, <1>4 DEF SlotChanged

(* The step into undefined behaviour changes nothing else.                 *)
LEMMA TypeUndefined ==
  ASSUME TypeInv, NEW what \in {"bad_file", "freed_block", "delete_race", "wild_block",
                                   "double_push", "wild_size"},
         Undefined(what)
  PROVE  TypeInv'
BY DEF Undefined

(* The last loop of Close changes file names only.                         *)
LEMMA CloserScans ==
  ASSUME TypeInv, NEW c \in Closers, CloseTest(c) \/ CloseRemove(c), ~Undefined("delete_race")
  PROVE  /\ closer' \in [Closers -> CloserState]
         /\ closer[c].pc \in {"remove", "unlink"}
         /\ \E p \in {"remove", "unlink", "done"}, n \in Nat :
              closer' = [closer EXCEPT ![c].pc = p, ![c].j = n]
         /\ SlotChanged(closer[c].j + 1)
         /\ \A i \in DOMAIN file_blocks :
              /\ file_blocks'[i].fd = file_blocks[i].fd
              /\ file_blocks'[i].status = file_blocks[i].status
         /\ UNCHANGED <<block_in_progress, complete, write_offset, read_offset, writer,
                        stop_write_thread, reader, askVars, faults, ub>>
<1>1. closer[c] \in CloserState /\ closer[c].j \in Nat /\ closer[c].j + 1 \in Nat
  BY DEF CloserState
<1>2. \A i \in DOMAIN file_blocks : file_blocks[i] \in FileBlock
  OBVIOUS
<1>3. CASE CloseTest(c)
  <2>1. /\ closer[c].pc = "remove"
        /\ closer' = [closer EXCEPT
             ![c].pc = IF closer[c].j = Len(file_blocks) THEN "done"
                       ELSE IF Status(closer[c].j) = "CREATED" THEN "unlink" ELSE "remove",
             ![c].j = IF closer[c].j < Len(file_blocks) /\ Status(closer[c].j) # "CREATED"
                      THEN closer[c].j + 1 ELSE closer[c].j]
        /\ UNCHANGED <<fileVars, writer, stop_write_thread, reader, askVars, faults, ub>>
    BY <1>3, Zenon DEF CloseTest
  <2>2. PICK p \in {"remove", "unlink", "done"}, n \in Nat :
          closer' = [closer EXCEPT ![c].pc = p, ![c].j = n]
    BY <1>1, <2>1, Zenon
  <2>3. closer' \in [Closers -> CloserState]
    BY <1>1, <2>2 DEF CloserState
  <2>4. SlotChanged(closer[c].j + 1)
    BY <1>2, <2>1 DEF SlotChanged, SameContent
  <2>5. QED  BY <2>1, <2>2, <2>3, <2>4
<1>4. CASE CloseRemove(c)
  <2> DEFINE k == closer[c].j + 1
             b == [file_blocks[k] EXCEPT !.on_disk = FALSE]
  <2>1. /\ closer[c].pc = "unlink"
        /\ file_blocks' = [file_blocks EXCEPT ![k] = b]
        /\ closer' = [closer EXCEPT ![c].pc = "remove", ![c].j = k]
        /\ UNCHANGED <<block_in_progress, complete, write_offset, read_offset, writer,
                       stop_write_thread, reader, askVars, faults, ub>>
    BY <1>4, Zenon DEF CloseRemove
  <2>2. closer' \in [Closers -> CloserState]
    BY <1>1, <2>1 DEF CloserState
  <2>3. k \in DOMAIN file_blocks =>
          /\ SameContent(file_blocks[k], b)
          /\ b.fd = file_blocks[k].fd /\ b.status = file_blocks[k].status
    BY <1>2 DEF SameContent, FileBlock
  <2> HIDE DEF b
  <2>4. SlotChanged(k)
    BY <2>1, <2>3, SlotReplaced
  <2>5. \A i \in DOMAIN file_blocks :
          /\ file_blocks'[i].fd = file_blocks[i].fd
          /\ file_blocks'[i].status = file_blocks[i].status
    BY <2>1, <2>3
  <2>6. QED  BY <1>1, <2>1, <2>2, <2>4, <2>5
<1>5. QED  BY <1>3, <1>4

(* Every step of a call of Close keeps the types.                          *)
LEMMA TypeCloser ==
  ASSUME TypeInv, NEW c \in Closers, CloserStep(c)
  PROVE  TypeInv'
<1> USE DEF CloserState
<1>1. CASE CloseClaim(c)
  <2>1. closer' \in [Closers -> CloserState]
    BY <1>1 DEF CloseClaim
  <2>2. QED  BY <1>1, <2>1 DEF CloseClaim
<1>2. CASE ClosePublish(c) /\ block_in_progress.fd = "wild"
  BY <1>2, TypeUndefined, Zenon DEF ClosePublish
<1>3. CASE ClosePublish(c) /\ block_in_progress.fd # "wild" /\ block_in_progress.published
  BY <1>3, TypeUndefined, Zenon DEF ClosePublish
<1>8. CASE ClosePublish(c) /\ block_in_progress.fd # "wild" /\ ~block_in_progress.published
  <2>1. /\ Publish(LastFlag)
        /\ closer' = [closer EXCEPT ![c].pc = "wait"]
        /\ UNCHANGED <<complete, write_offset, read_offset, writer, stop_write_thread,
                       reader, askVars, ub>>
    BY <1>8, Zenon DEF ClosePublish
  <2>2. LastFlag \in BOOLEAN
    BY DEF LastFlag
  <2>3. /\ file_blocks' \in Seq(FileBlock) /\ Len(file_blocks') >= Len(file_blocks)
        /\ block_in_progress' \in InProgress
        /\ faults' \in 0..DiskFaults
    BY <2>1, <2>2, PublishType
  <2>5. closer' \in [Closers -> CloserState]
    BY <2>1
  <2>6. Fits' /\ Found'
    BY <2>1, <2>3, FoundGrows
  <2>7. QED  BY <2>1, <2>3, <2>5, <2>6
<1>4. CASE CloseTick(c)
  <2>1. closer' \in [Closers -> CloserState]
    <3>3. closer[c].retries \in 0..Retries /\ closer[c].retries > 0
      BY <1>4 DEF CloseTick
    <3>4. Spend(c) \in {0, 1}
      BY DEF Spend
    <3>5. Retries \in Nat
      BY SplitFileAssumption
    <3>1. closer[c].retries - Spend(c) \in 0..Retries
      BY <3>3, <3>4, <3>5
    <3>2. QED  BY <1>4, <3>1 DEF CloseTick
  <2>2. QED  BY <1>4, <2>1 DEF CloseTick
<1>5. CASE CloseWaited(c)
  <2>1. closer' \in [Closers -> CloserState]
    BY <1>5 DEF CloseWaited
  <2>2. QED  BY <1>5, <2>1 DEF CloseWaited
<1>6. CASE CloseTest(c) \/ CloseRemove(c)
  <2>1. CASE Undefined("delete_race")
    BY <2>1, TypeUndefined
  <2>2. CASE ~Undefined("delete_race")
    <3>1. /\ closer' \in [Closers -> CloserState]
          /\ SlotChanged(closer[c].j + 1)
          /\ UNCHANGED <<block_in_progress, complete, write_offset, read_offset, writer,
                         stop_write_thread, reader, askVars, faults, ub>>
      BY <1>6, <2>2, CloserScans
    <3>2. Fits' /\ Found'
      BY <3>1, FoundGrows DEF SlotChanged
    <3>3. QED  BY <3>1, <3>2 DEF SlotChanged
  <2>3. QED  BY <2>1, <2>2
<1>7. QED
  BY <1>1, <1>2, <1>3, <1>4, <1>5, <1>6, <1>8 DEF CloserStep

(* So does the start of the clean-up thread.                               *)
LEMMA TypeCleaner ==
  ASSUME TypeInv, CleanerStarts
  PROVE  TypeInv'
<1>1. closer' \in [Closers -> CloserState]
  BY DEF CleanerStarts, CloserState
<1>2. stop_write_thread' \in BOOLEAN
  BY SplitFileAssumption DEF CleanerStarts
<1>3. QED  BY <1>1, <1>2 DEF CleanerStarts

(* A thread whose record stays one of ReaderState leaves the others alone. *)
LEMMA TypeReaderUpdate ==
  ASSUME TypeInv, NEW r \in Readers, NEW x \in ReaderState, Len(x.buf) <= x.len,
         Len(file_blocks') >= Len(file_blocks), Len(file_blocks') \in Nat,
         x.pc \in {"seek", "fread"} => x.num < Len(file_blocks),
         reader' = [reader EXCEPT ![r] = x]
  PROVE  reader' \in [Readers -> ReaderState] /\ Fits' /\ Found'
<1>1. reader' \in [Readers -> ReaderState] /\ Fits'
  OBVIOUS
<1>2. Found'
  <2>1. \A q \in Readers : reader[q].num \in Nat
    BY DEF ReaderState
  <2>2. x.num \in Nat /\ Len(file_blocks) \in Nat
    BY DEF ReaderState
  <2>3. \A q \in Readers \ {r} : reader'[q] = reader[q]
    OBVIOUS
  <2>4. reader'[r] = x
    OBVIOUS
  <2>5. QED  BY <2>1, <2>2, <2>3, <2>4
<1>3. QED  BY <1>1, <1>2

(* A call of Read starts with an empty buffer.                             *)
LEMMA StartReadType ==
  ASSUME NEW x \in ReaderState
  PROVE  /\ StartRead(x) \in ReaderState
         /\ StartRead(x).pc = "first"
         /\ Len(StartRead(x).buf) <= StartRead(x).len
<1>1. x.off \in Nat /\ x.len \in Nat
  BY DEF ReaderState
<1>2. BlockOf(x.off) \in Nat /\ (x.off % BlockSize) \in 0..BlockSize
  BY <1>1, SplitFileAssumption DEF BlockOf
<1>3. <<>> \in Seq(Nat) /\ Len(<<>>) = 0
  OBVIOUS
<1>4. StartRead(x) \in ReaderState
  BY <1>2, <1>3 DEF StartRead, ReaderState
<1>5. StartRead(x).pc = "first" /\ StartRead(x).buf = <<>> /\ StartRead(x).len = x.len
  BY DEF StartRead, ReaderState
<1>6. QED  BY <1>1, <1>3, <1>4, <1>5

(* The bytes a call delivers fit into its buffer and into the block.       *)
LEMMA DeliveredFits ==
  ASSUME TypeInv, NEW r \in Readers, Slot(r) \in FileBlock
  PROVE  /\ Delivered(r) \in Nat
         /\ Delivered(r) <= Remaining(r)
         /\ Slot(r).at + Delivered(r) \in 0..BlockSize
<1>1. reader[r] \in ReaderState /\ Len(reader[r].buf) \in Nat /\ reader[r].len \in Nat
  BY DEF ReaderState
<1>2. Remaining(r) \in Nat
  BY <1>1 DEF Remaining
<1>3. Slot(r).data \in 0..BlockSize /\ Slot(r).at \in 0..BlockSize
  BY DEF FileBlock
<1>4. \A d, a, m, b \in Nat : d <= b /\ a <= b =>
        LET n == MinOf(m, MaxOf(0, d - a)) IN n \in Nat /\ n <= m /\ a + n \in 0..b
  BY DEF MinOf, MaxOf
<1>5. Slot(r).data \in Nat /\ Slot(r).at \in Nat
      /\ Slot(r).data <= BlockSize /\ Slot(r).at <= BlockSize /\ BlockSize \in Nat
  BY <1>3, SplitFileAssumption
<1>6. QED  BY <1>2, <1>4, <1>5 DEF Delivered

(* A reader that only moves on, on a list that only changed inside.        *)
LEMMA TypePcUpdate ==
  ASSUME TypeInv, NEW r \in Readers, NEW p \in {"seek", "fread", "ret", "reap"},
         reader' = [reader EXCEPT ![r].pc = p],
         p \in {"seek", "fread"} => InList(r),
         file_blocks' \in Seq(FileBlock), Len(file_blocks') = Len(file_blocks),
         UNCHANGED <<block_in_progress, complete, write_offset, read_offset, writer,
                     closer, stop_write_thread, askVars, faults, ub>>
  PROVE  TypeInv'
<1> DEFINE x == [reader[r] EXCEPT !.pc = p]
<1>1. reader[r] \in ReaderState /\ Len(reader[r].buf) <= reader[r].len
  OBVIOUS
<1>2. x \in ReaderState
  BY <1>1, PcUpdate
<1>3. reader' = [reader EXCEPT ![r] = x]
  OBVIOUS
<1>4. Len(x.buf) <= x.len /\ (x.pc \in {"seek", "fread"} => x.num < Len(file_blocks))
  BY <1>1 DEF ReaderState
<1> HIDE DEF x
<1>5. reader' \in [Readers -> ReaderState] /\ Fits' /\ Found'
  BY <1>2, <1>3, <1>4, TypeReaderUpdate
<1>6. QED  BY <1>5

(* The deletion loop of Read. *)
ReapStep(r) == ReadReap(r) \/ ReapClose(r) \/ ReapMark(r) \/ ReapDelete(r) \/ ReapReset(r)

(* It changes one slot at a time, and nothing of the bytes.                *)
LEMMA ReaderReaps ==
  ASSUME TypeInv, NEW r \in Readers, ReapStep(r), ~Undefined("delete_race")
  PROVE  /\ reader[r].pc \in {"reap"} \cup Deleting
         /\ reader[r].pc = "reap" => file_blocks' = file_blocks
         /\ \E p \in {"reap"} \cup Deleting, n \in Nat :
              /\ reader' = [reader EXCEPT ![r] = [reader[r] EXCEPT !.pc = p, !.j = n]]
              /\ p \in Deleting => n = reader[r].j
              /\ p \in Deleting /\ reader[r].pc = "reap" => n < FirstKept(r)
         /\ SlotChanged(reader[r].j + 1)
         /\ UNCHANGED <<block_in_progress, complete, write_offset, read_offset, writer, closer,
                        stop_write_thread, askVars, faults, ub>>
<1>1. /\ reader[r].j \in Nat /\ reader[r].j + 1 \in Nat
      /\ \A i \in DOMAIN file_blocks : file_blocks[i] \in FileBlock
  BY DEF ReaderState
<1> DEFINE k == reader[r].j + 1
<1>2. CASE ReadReap(r)
  <2>1. /\ reader[r].pc = "reap"
        /\ reader[r].j < FirstKept(r)
        /\ reader' = [reader EXCEPT
             ![r].pc = IF Status(reader[r].j) = "CREATED" THEN "close" ELSE "reap",
             ![r].j = IF Status(reader[r].j) = "CREATED" THEN @ ELSE @ + 1]
        /\ UNCHANGED <<fileVars, writer, closer, stop_write_thread, askVars, faults, ub>>
    BY <1>2, Zenon DEF ReadReap
  <2>2. SlotChanged(k)
    BY <1>1, <2>1 DEF SlotChanged, SameContent
  <2>3. CASE Status(reader[r].j) = "CREATED"
    <3>1. reader' = [reader EXCEPT ![r] = [reader[r] EXCEPT !.pc = "close", !.j = reader[r].j]]
      BY <2>1, <2>3
    <3>2. QED  BY <1>1, <2>1, <2>2, <3>1 DEF Deleting
  <2>4. CASE Status(reader[r].j) # "CREATED"
    <3>1. reader' = [reader EXCEPT ![r] = [reader[r] EXCEPT !.pc = "reap", !.j = k]]
      BY <2>1, <2>4
    <3>2. QED  BY <1>1, <2>1, <2>2, <3>1 DEF Deleting
  <2>5. QED  BY <2>3, <2>4
<1>3. ASSUME NEW p \in {"reap"} \cup Deleting, NEW n \in Nat, NEW b,
             reader[r].pc \in Deleting,
             reader' = [reader EXCEPT ![r] = [reader[r] EXCEPT !.pc = p, !.j = n]],
             p \in Deleting => n = reader[r].j,
             k \in DOMAIN file_blocks => SameContent(file_blocks[k], b),
             file_blocks' = [file_blocks EXCEPT ![k] = b],
             UNCHANGED <<block_in_progress, complete, write_offset, read_offset, writer, closer,
                         stop_write_thread, askVars, faults, ub>>
      PROVE  /\ reader[r].pc \in {"reap"} \cup Deleting
             /\ reader[r].pc # "reap"
             /\ \E q \in {"reap"} \cup Deleting, i \in Nat :
                  /\ reader' = [reader EXCEPT ![r] = [reader[r] EXCEPT !.pc = q, !.j = i]]
                  /\ q \in Deleting => i = reader[r].j
             /\ SlotChanged(k)
  <2>1. SlotChanged(k)
    BY <1>3, SlotReplaced
  <2>2. QED  BY <1>3, <2>1 DEF Deleting
<1>4. CASE ReapClose(r)
  <2> DEFINE b == [file_blocks[k] EXCEPT !.fd = IF @ = "open" THEN "closed" ELSE @]
  <2>1. /\ reader[r].pc \in Deleting
        /\ reader' = [reader EXCEPT ![r] = [reader[r] EXCEPT !.pc = "mark", !.j = reader[r].j]]
        /\ file_blocks' = [file_blocks EXCEPT ![k] = b]
        /\ UNCHANGED <<block_in_progress, complete, write_offset, read_offset, writer, closer,
                       stop_write_thread, askVars, faults, ub>>
    BY <1>4 DEF ReapClose, Deleting, ReaderState
  <2>2. k \in DOMAIN file_blocks => SameContent(file_blocks[k], b)
    BY <1>1 DEF SameContent, FileBlock
  <2> HIDE DEF b, k
  <2>3. "mark" \in Deleting
    BY DEF Deleting
  <2>4. QED  BY <1>1, <1>3, <2>1, <2>2, <2>3 DEF k
<1>5. CASE ReapMark(r)
  <2> DEFINE b == [file_blocks[k] EXCEPT !.fd = "null", !.status = "DELETED", !.on_disk = FALSE]
  <2>1. /\ reader[r].pc \in Deleting
        /\ reader' = [reader EXCEPT ![r] = [reader[r] EXCEPT !.pc = "delete", !.j = reader[r].j]]
        /\ file_blocks' = [file_blocks EXCEPT ![k] = b]
        /\ UNCHANGED <<block_in_progress, complete, write_offset, read_offset, writer, closer,
                       stop_write_thread, askVars, faults, ub>>
    BY <1>5 DEF ReapMark, Deleting, ReaderState
  <2>2. k \in DOMAIN file_blocks => SameContent(file_blocks[k], b)
    BY <1>1 DEF SameContent, FileBlock
  <2> HIDE DEF b, k
  <2>3. "delete" \in Deleting
    BY DEF Deleting
  <2>4. QED  BY <1>1, <1>3, <2>1, <2>2, <2>3 DEF k
<1>6. CASE ReapDelete(r)
  <2> DEFINE b == [file_blocks[k] EXCEPT !.status = IF @ = "NULL" THEN @ ELSE "FREED"]
  <2>1. /\ reader[r].pc \in Deleting
        /\ reader' = [reader EXCEPT ![r] = [reader[r] EXCEPT !.pc = "reset", !.j = reader[r].j]]
        /\ file_blocks' = [file_blocks EXCEPT ![k] = b]
        /\ UNCHANGED <<block_in_progress, complete, write_offset, read_offset, writer, closer,
                       stop_write_thread, askVars, faults, ub>>
    BY <1>6 DEF ReapDelete, Deleting, ReaderState
  <2>2. k \in DOMAIN file_blocks => SameContent(file_blocks[k], b)
    BY <1>1 DEF SameContent, FileBlock
  <2> HIDE DEF b, k
  <2>3. "reset" \in Deleting
    BY DEF Deleting
  <2>4. QED  BY <1>1, <1>3, <2>1, <2>2, <2>3 DEF k
<1>7. CASE ReapReset(r)
  <2> DEFINE b == [file_blocks[k] EXCEPT !.status = "NULL"]
  <2>1. /\ reader[r].pc \in Deleting
        /\ reader' = [reader EXCEPT ![r] = [reader[r] EXCEPT !.pc = "reap", !.j = k]]
        /\ file_blocks' = [file_blocks EXCEPT ![k] = b]
        /\ UNCHANGED <<block_in_progress, complete, write_offset, read_offset, writer, closer,
                       stop_write_thread, askVars, faults, ub>>
    BY <1>7 DEF ReapReset, Deleting, ReaderState, Cleared
  <2>2. k \in DOMAIN file_blocks => SameContent(file_blocks[k], b)
    BY <1>1 DEF SameContent, FileBlock
  <2>5. k \in Nat
    BY <1>1
  <2> HIDE DEF b, k
  <2>3. "reap" \notin Deleting
    BY DEF Deleting
  <2>4. QED  BY <1>3, <2>1, <2>2, <2>3, <2>5 DEF k
<1>8. QED  BY <1>2, <1>4, <1>5, <1>6, <1>7 DEF ReapStep

(* Every step of a reader keeps the types.                                 *)
LEMMA TypeReader ==
  ASSUME TypeInv, NEW r \in Readers, Ask(r) \/ ReadStep(r)
  PROVE  TypeInv'
<1>0. /\ reader[r] \in ReaderState
      /\ Len(reader[r].buf) \in Nat /\ reader[r].len \in Nat
      /\ Len(reader[r].buf) <= reader[r].len
      /\ reader[r].num \in Nat
  BY DEF ReaderState
<1>1. CASE Ask(r)
  <2>1. PICK off \in 0..(StreamLen - 1), len \in 1..MaxLen :
       /\ reader' = [reader EXCEPT ![r] =
                       StartRead([@ EXCEPT !.off = off, !.len = len, !.body = <<>>,
                                           !.asked = reader[r].asked + 1])]
       /\ cursor' = MaxOf(cursor, off + len)
       /\ front' = MaxOf(front, BlockOf(off))
    BY <1>1 DEF Ask
  <2>2. off \in Nat /\ len \in Nat
    BY SplitFileAssumption
  <2>3. reader[r].asked + 1 \in 0..MaxRequests
    <3>1. reader[r].asked \in 0..MaxRequests
      BY <1>0 DEF ReaderState
    <3>2. reader[r].asked < MaxRequests
      BY <1>1, Zenon DEF Ask
    <3>3. QED  BY <3>1, <3>2, SplitFileAssumption
  <2> DEFINE x == [reader[r] EXCEPT !.off = off, !.len = len, !.body = <<>>,
                                    !.asked = reader[r].asked + 1]
  <2>4. x \in ReaderState
    BY <1>0, <2>2, <2>3, RangeUpdate
  <2>5. reader' = [reader EXCEPT ![r] = StartRead(x)]
    BY <2>1
  <2> HIDE DEF x
  <2>6. reader' \in [Readers -> ReaderState] /\ Fits' /\ Found'
    <3>1. file_blocks' = file_blocks
      BY <1>1, Zenon DEF Ask
    <3>2. QED  BY <2>4, <2>5, <3>1, StartReadType, TypeReaderUpdate
  <2>7. cursor' \in Nat /\ front' \in Nat
    <3>1. BlockOf(off) \in Nat
      BY <2>2, SplitFileAssumption DEF BlockOf
    <3>2. QED  BY <2>1, <2>2, <3>1 DEF MaxOf
  <2>8. QED  BY <1>1, <2>6, <2>7, Zenon DEF Ask
<1>2. CASE ReadFirst(r)
  <2>1. CASE InList(r) /\ Slot(r).status \in Gone \cup {"DELETED"}
    BY <1>2, <2>1, TypeUndefined, Zenon DEF ReadFirst
  <2>2. CASE ~(InList(r) /\ Slot(r).status \in Gone \cup {"DELETED"})
    <3> DEFINE p == IF InList(r) /\ ~PastEnd(r) THEN "seek" ELSE "ret"
    <3>1. /\ reader' = [reader EXCEPT ![r].pc = p]
          /\ UNCHANGED <<fileVars, writer, closer, stop_write_thread, askVars, faults, ub>>
      BY <1>2, <2>2, Zenon DEF ReadFirst
    <3>2. p \in {"seek", "ret", "reap"} /\ (p = "seek" => InList(r))
      OBVIOUS
    <3> HIDE DEF p
    <3>3. QED  BY <3>1, <3>2, TypePcUpdate
  <2>3. QED  BY <2>1, <2>2
<1>3. CASE ReadSeek(r)
  <2> DEFINE broken == \/ Slot(r).fd = "closed"
                       \/ Slot(r).fd = "null" /\ ~Slot(r).on_disk
  <2>1. CASE Slot(r).status \in Gone
    BY <1>3, <2>1, TypeUndefined, Zenon DEF ReadSeek
  <2>2. CASE Slot(r).status \notin Gone /\ broken
    BY <1>3, <2>2, TypeUndefined, Zenon DEF ReadSeek
  <2>3. CASE Slot(r).status \notin Gone /\ ~broken
    <3>1. /\ file_blocks' = [file_blocks EXCEPT ![reader[r].num + 1].fd = "open",
                                                ![reader[r].num + 1].at = reader[r].boff]
          /\ reader' = [reader EXCEPT ![r].pc = "fread"]
          /\ UNCHANGED <<block_in_progress, complete, write_offset, read_offset, writer,
                         closer, stop_write_thread, askVars, faults, ub>>
      BY <1>3, <2>3, Zenon DEF ReadSeek
    <3>2. InList(r)
      BY <1>3, Zenon DEF ReadSeek
    <3>3. reader[r].num + 1 \in DOMAIN file_blocks
      BY <1>0, <3>2
    <3>4. reader[r].boff \in 0..BlockSize
      BY <1>0 DEF ReaderState
    <3> DEFINE b == [Slot(r) EXCEPT !.fd = "open", !.at = reader[r].boff]
    <3>5. b \in FileBlock
      <4>1. Slot(r) \in FileBlock
        BY <3>3 DEF Slot
      <4>2. QED  BY <4>1, <3>4, BlockUpdates
    <3>6. file_blocks' = [file_blocks EXCEPT ![reader[r].num + 1] = b]
      BY <3>1, <3>3 DEF Slot
    <3> HIDE DEF b
    <3>7. file_blocks' \in Seq(FileBlock) /\ Len(file_blocks') = Len(file_blocks)
      BY <3>3, <3>5, <3>6, ExceptSeq
    <3>8. QED  BY <3>1, <3>2, <3>7, TypePcUpdate
  <2>4. QED  BY <2>1, <2>2, <2>3
<1>4. CASE ReadBytes(r)
  <2>1. CASE Slot(r).status \in Gone
    BY <1>4, <2>1, TypeUndefined, Zenon DEF ReadBytes
  <2>2. CASE Slot(r).status \notin Gone /\ Slot(r).fd # "open"
    BY <1>4, <2>2, TypeUndefined, Zenon DEF ReadBytes
  <2>3. CASE Slot(r).status \notin Gone /\ Slot(r).fd = "open"
    <3>1. /\ file_blocks' = [file_blocks EXCEPT ![reader[r].num + 1].at = @ + Delivered(r)]
          /\ reader' = [reader EXCEPT
               ![r].buf = @ \o Bytes(From(r), Delivered(r)),
               ![r].pc = IF Served(r) THEN "reap" ELSE "next",
               ![r].num = IF Served(r) THEN @ ELSE @ + 1,
               ![r].boff = IF Served(r) THEN @ ELSE NextOffset(r)]
          /\ UNCHANGED <<block_in_progress, complete, write_offset, read_offset,
                         writer, closer, stop_write_thread, askVars, faults, ub>>
      BY <1>4, <2>3, Zenon DEF ReadBytes
    <3>2. InList(r)
      BY <1>4, Zenon DEF ReadBytes
    <3>3. reader[r].num + 1 \in DOMAIN file_blocks
      BY <1>0, <3>2
    <3>4. Slot(r) \in FileBlock
      BY <3>3 DEF Slot
    <3>5. /\ Delivered(r) \in Nat
          /\ Delivered(r) <= Remaining(r)
          /\ Slot(r).at + Delivered(r) \in 0..BlockSize
      BY <3>4, DeliveredFits
    <3> DEFINE b == [Slot(r) EXCEPT !.at = Slot(r).at + Delivered(r)]
    <3>6. b \in FileBlock
      BY <3>4, <3>5, BlockUpdates
    <3>7. file_blocks' = [file_blocks EXCEPT ![reader[r].num + 1] = b]
      BY <3>1, <3>3 DEF Slot
    <3> HIDE DEF b
    <3>8. file_blocks' \in Seq(FileBlock) /\ Len(file_blocks') = Len(file_blocks)
      BY <3>3, <3>6, <3>7, ExceptSeq
    <3>9. From(r) \in Nat
      <4>1. Slot(r).at \in Nat
        BY <3>4, SplitFileAssumption DEF FileBlock
      <4>2. reader[r].num * BlockSize \in Nat
        BY <1>0, SplitFileAssumption
      <4>3. QED  BY <4>1, <4>2 DEF From
    <3> DEFINE out == Bytes(From(r), Delivered(r))
    <3>10. out \in Seq(Nat) /\ Len(out) = Delivered(r)
      BY <3>5, <3>9, BytesType
    <3> DEFINE x == [reader[r] EXCEPT
                       !.buf = reader[r].buf \o out,
                       !.pc = IF Served(r) THEN "reap" ELSE "next",
                       !.num = IF Served(r) THEN reader[r].num ELSE reader[r].num + 1,
                       !.boff = IF Served(r) THEN reader[r].boff ELSE NextOffset(r)]
    <3>11. reader' = [reader EXCEPT ![r] = x]
      BY <3>1
    <3> HIDE DEF out
    <3>12. /\ reader[r].buf \o out \in Seq(Nat)
           /\ Len(reader[r].buf \o out) <= reader[r].len
      <4>1. reader[r].buf \in Seq(Nat)
        BY <1>0 DEF ReaderState
      <4>2. QED  BY <1>0, <3>5, <3>10, <4>1 DEF Remaining
    <3>13. /\ x.pc \in {"reap", "next"}
           /\ x.buf = reader[r].buf \o out
           /\ x.len = reader[r].len
           /\ x \in ReaderState
      <4>1. 0 \in 0..BlockSize /\ reader[r].num + 1 \in Nat
        BY <1>0, SplitFileAssumption
      <4> HIDE DEF TypeInv, TypeOK, Fits, Found
      <4>2. QED  BY <1>0, <3>12, <4>1 DEF ReaderState, NextOffset
    <3> HIDE DEF x
    <3>14. reader' \in [Readers -> ReaderState] /\ Fits' /\ Found'
      BY <3>8, <3>11, <3>12, <3>13, TypeReaderUpdate
    <3>15. QED  BY <3>1, <3>8, <3>14
  <2>4. QED  BY <2>1, <2>2, <2>3
<1>5. CASE ReadFails(r)
  BY <1>5, TypeUndefined DEF ReadFails
<1>6. CASE ReadNext(r)
  <2>1. CASE InList(r) /\ Slot(r).status \in Gone
    BY <1>6, <2>1, TypeUndefined, Zenon DEF ReadNext
  <2>2. CASE ~(InList(r) /\ Slot(r).status \in Gone)
    <3> DEFINE p == IF InList(r) THEN "seek" ELSE "reap"
    <3>1. /\ reader' = [reader EXCEPT ![r].pc = p]
          /\ UNCHANGED <<fileVars, writer, closer, stop_write_thread, askVars, faults, ub>>
      BY <1>6, <2>2, Zenon DEF ReadNext
    <3>2. p \in {"seek", "ret", "reap"} /\ (p = "seek" => InList(r))
      OBVIOUS
    <3> HIDE DEF p
    <3>3. QED  BY <3>1, <3>2, TypePcUpdate
  <2>3. QED  BY <2>1, <2>2
<1>7. CASE ReapStep(r)
  <2>1. CASE Undefined("delete_race")
    BY <2>1, TypeUndefined
  <2>2. CASE ~Undefined("delete_race")
    <3>1. /\ SlotChanged(reader[r].j + 1)
          /\ UNCHANGED <<block_in_progress, complete, write_offset, read_offset, writer, closer,
                         stop_write_thread, askVars, faults, ub>>
      BY <1>7, <2>2, ReaderReaps
    <3>2. PICK p \in {"reap"} \cup Deleting, n \in Nat :
            reader' = [reader EXCEPT ![r] = [reader[r] EXCEPT !.pc = p, !.j = n]]
      BY <1>7, <2>2, ReaderReaps
    <3> DEFINE x == [reader[r] EXCEPT !.pc = p, !.j = n]
    <3>3. x \in ReaderState /\ x.pc = p /\ Len(x.buf) <= x.len
      BY <1>0 DEF ReaderState, Deleting
    <3>4. x.pc \notin {"seek", "fread"}
      BY <3>3 DEF Deleting
    <3>5. reader' = [reader EXCEPT ![r] = x]
      BY <3>2
    <3> HIDE DEF x
    <3>6. /\ Len(file_blocks') >= Len(file_blocks) /\ Len(file_blocks') \in Nat
          /\ file_blocks' \in Seq(FileBlock)
      BY <3>1 DEF SlotChanged
    <3>7. reader' \in [Readers -> ReaderState] /\ Fits' /\ Found'
      BY <3>3, <3>4, <3>5, <3>6, TypeReaderUpdate
    <3>8. QED  BY <3>1, <3>6, <3>7
  <2>3. QED  BY <2>1, <2>2
<1>8. CASE ReadReturn(r)
  <2>1. /\ read_offset' = reader[r].off + Len(reader[r].buf)
        /\ reader' = [reader EXCEPT ![r].pc = "ret"]
        /\ UNCHANGED <<file_blocks, block_in_progress, complete, write_offset, writer, closer,
                       stop_write_thread, askVars, faults, ub>>
    BY <1>8 DEF ReadReturn
  <2> DEFINE x == [reader[r] EXCEPT !.pc = "ret"]
  <2>5. x \in ReaderState /\ x.pc = "ret" /\ Len(x.buf) <= x.len
    BY <1>0 DEF ReaderState
  <2>6. reader' = [reader EXCEPT ![r] = x]
    BY <2>1
  <2> HIDE DEF x
  <2>7. reader' \in [Readers -> ReaderState] /\ Fits' /\ Found'
    BY <2>1, <2>5, <2>6, TypeReaderUpdate
  <2>8. read_offset' \in Nat
    <3>1. reader[r].off \in Nat
      BY <1>0 DEF ReaderState
    <3>2. QED  BY <1>0, <2>1, <3>1
  <2>9. QED  BY <2>1, <2>7, <2>8
<1>9. CASE Serve(r)
  <2> DEFINE sent == reader[r].body \o reader[r].buf
             x == IF Len(sent) >= reader[r].len THEN IdleReader(reader[r].asked)
                  ELSE StartRead([reader[r] EXCEPT !.body = sent])
  <2>1. /\ reader' = [reader EXCEPT ![r] = x]
        /\ UNCHANGED <<fileVars, writer, closer, stop_write_thread, askVars, faults, ub>>
    BY <1>9 DEF Serve
  <2>2. sent \in Seq(Nat)
    <3>1. reader[r].body \in Seq(Nat) /\ reader[r].buf \in Seq(Nat)
      BY <1>0 DEF ReaderState
    <3>2. QED  BY <3>1
  <2> HIDE DEF sent
  <2>3. [reader[r] EXCEPT !.body = sent] \in ReaderState
    BY <1>0, <2>2 DEF ReaderState
  <2>4. /\ IdleReader(reader[r].asked) \in ReaderState
        /\ IdleReader(reader[r].asked).pc = "idle"
        /\ Len(IdleReader(reader[r].asked).buf) <= IdleReader(reader[r].asked).len
    <3>1. reader[r].asked \in 0..MaxRequests
      BY <1>0 DEF ReaderState
    <3>2. 0 \in 0..BlockSize /\ <<>> \in Seq(Nat)
      BY SplitFileAssumption
    <3>3. QED  BY <3>1, <3>2 DEF IdleReader, ReaderState
  <2>5. x \in ReaderState /\ x.pc \in {"idle", "first"} /\ Len(x.buf) <= x.len
    BY <2>3, <2>4, StartReadType
  <2> HIDE DEF x
  <2>6. reader' \in [Readers -> ReaderState] /\ Fits' /\ Found'
    BY <2>1, <2>5, TypeReaderUpdate
  <2>7. QED  BY <2>1, <2>6
<1>10. QED
  BY <1>1, <1>2, <1>3, <1>4, <1>5, <1>6, <1>7, <1>8, <1>9 DEF ReadStep, ReapStep

(* The constructor's state is of its type,                                 *)
LEMMA TypeInit == Init => TypeInv
<1> SUFFICES ASSUME Init PROVE TypeInv
  OBVIOUS
<1>1. block_in_progress \in InProgress
  BY SplitFileAssumption DEF Init, InProgress
<1>2. writer \in WriterState
  BY DEF Init, WriterState
<1>3. closer \in [Closers -> CloserState]
  BY SplitFileAssumption DEF Init, CloserState
<1>4. reader \in [Readers -> ReaderState]
  BY SplitFileAssumption DEF Init, ReaderState, IdleReader
<1>5. Fits /\ Found
  BY DEF Init, IdleReader
<1>6. file_blocks \in Seq(FileBlock) /\ faults \in 0..DiskFaults /\ read_offset \in Nat
  BY SplitFileAssumption DEF Init
<1>7. QED  BY <1>1, <1>2, <1>3, <1>4, <1>5, <1>6 DEF Init

(* and every step keeps it so.                                             *)
LEMMA TypeNext == TypeInv /\ [Next]_vars => TypeInv'
<1> SUFFICES ASSUME TypeInv, [Next]_vars PROVE TypeInv'
  OBVIOUS
<1>1. CASE UNCHANGED vars
  BY <1>1
<1>2. CASE Next
  BY <1>1, <1>2, TypeWriter, TypeCleaner, TypeCloser, TypeReader, Zenon DEF Next, Quiet
<1>3. QED  BY <1>1, <1>2

(* SplitFile is type-correct: block sizes, file positions, retries and the *)
(* failure counter stay in their ranges whatever the threads do.           *)
THEOREM TypeCorrect == Spec => []TypeOK
BY TypeInit, TypeNext, PTL DEF Spec

HIDE DEF vars, fileVars, askVars, TypeInv, TypeOK, Fits, Found, InList

-----------------------------------------------------------------------------
(***************************************************************************)
(* No block is deleted under a reader.  Only Read deletes, and only blocks *)
(* more than KeepBlocks behind the range it served, so every deleted block *)
(* is that far behind the furthest range asked for ("front"); a reader is  *)
(* never more than Lag blocks behind that range, and it only moves on.     *)
(***************************************************************************)
GoneBehind ==
  \A i \in DOMAIN file_blocks :
    file_blocks[i].status # "CREATED" => i - 1 + KeepBlocks < front

VictimsBehind ==
  \A r \in Readers : reader[r].pc \in Deleting => reader[r].j + KeepBlocks < front

Near ==
  \A r \in Readers : reader[r].pc # "idle" =>
    /\ BlockOf(reader[r].off) <= front
    /\ front <= BlockOf(reader[r].off) + Lag
    /\ BlockOf(reader[r].off) <= reader[r].num

DeleteInv == GoneBehind /\ VictimsBehind /\ Near /\ NoFreedBlock

(* The list as it was, up to the ends of FILEs and file names, perhaps with *)
(* a new block at its end.                                                  *)
NothingDeleted ==
  \A i \in DOMAIN file_blocks' :
    file_blocks'[i].status # "CREATED" =>
      i \in DOMAIN file_blocks /\ file_blocks[i].status = file_blocks'[i].status

(* A block appended to the list is not a deleted one. *)
LEMMA AppendDeletesNothing ==
  ASSUME TypeInv, NEW last \in BOOLEAN, Publish(last)
  PROVE  NothingDeleted
<1>1. file_blocks \in Seq(FileBlock) /\ TypeOK
  BY DEF TypeInv, TypeOK
<1>0. PICK n \in 0..block_in_progress.size :
        /\ Published(last, n) \in FileBlock
        /\ file_blocks' = Append(file_blocks, Published(last, n))
  BY <1>1, PublishType
<1>2. Published(last, n) \in FileBlock /\ Published(last, n).status = "CREATED"
  BY <1>0 DEF Published
<1>3. /\ DOMAIN file_blocks' = 1..(Len(file_blocks) + 1)
      /\ file_blocks'[Len(file_blocks) + 1] = Published(last, n)
      /\ \A i \in 1..Len(file_blocks) : file_blocks'[i] = file_blocks[i]
      /\ Len(file_blocks) \in Nat
      /\ DOMAIN file_blocks = 1..Len(file_blocks)
  BY <1>0, <1>1, <1>2, AppendProperties
<1>4. QED  BY <1>2, <1>3 DEF NothingDeleted

(* The writer and Close delete nothing: Close only removes file names. *)
LEMMA WriterDeletesNothing ==
  ASSUME TypeInv, WriterStep
  PROVE  /\ NothingDeleted
         /\ UNCHANGED <<reader, cursor, front>>
         /\ ub' \in {ub, "bad_file"}
<1> USE DEF fileVars, askVars
<1>1. CASE BlockFull
  <2>1. CASE block_in_progress.fd # "open"
    BY <1>1, <2>1 DEF BlockFull, Undefined, NothingDeleted
  <2>2. CASE block_in_progress.fd = "open"
    BY <1>1, <2>2, AppendDeletesNothing, Zenon DEF BlockFull
  <2>3. QED  BY <2>1, <2>2
<1>2. CASE FWrite
  <2>1. CASE block_in_progress.fd # "open"
    BY <1>2, <2>1 DEF FWrite, Undefined, NothingDeleted
  <2>2. CASE block_in_progress.fd = "open"
    BY <1>2, <2>2 DEF FWrite, NothingDeleted
  <2>3. QED  BY <2>1, <2>2
<1>3. CASE WriterStep /\ ~BlockFull /\ ~FWrite
  <2>1. UNCHANGED <<file_blocks, reader, cursor, front, ub>>
    BY <1>3, Zenon DEF WriterStep, Open, WriteCall, SourceEnds, WriteLoop, RollBlock, WriteReturn,
                WriterCloses, WriterEnds
  <2>2. QED  BY <2>1 DEF NothingDeleted
<1>4. QED  BY <1>1, <1>2, <1>3

LEMMA CloserDeletesNothing ==
  ASSUME TypeInv, NEW c \in Closers, CloserStep(c)
  PROVE  /\ NothingDeleted
         /\ UNCHANGED <<reader, cursor, front>>
         /\ ub' \in {ub, "wild_block", "double_push", "delete_race"}
<1> USE DEF fileVars, askVars
<1>1. CASE ClosePublish(c)
  <2>1. CASE block_in_progress.fd = "wild" \/ block_in_progress.published
    BY <1>1, <2>1 DEF ClosePublish, Undefined, NothingDeleted
  <2>2. CASE block_in_progress.fd # "wild" /\ ~block_in_progress.published
    <3>1. Publish(TRUE)
      BY <1>1, <2>2, Zenon DEF ClosePublish, LastFlag
    <3>2. UNCHANGED <<reader, cursor, front, ub>>
      BY <1>1, <2>2, Zenon DEF ClosePublish
    <3>3. QED  BY <3>1, <3>2, AppendDeletesNothing
  <2>3. QED  BY <2>1, <2>2
<1>2. CASE CloseTest(c) \/ CloseRemove(c)
  <2>1. CASE Undefined("delete_race")
    BY <2>1 DEF Undefined, NothingDeleted
  <2>2. CASE ~Undefined("delete_race")
    <3>1. /\ SlotChanged(closer[c].j + 1)
          /\ \A i \in DOMAIN file_blocks : file_blocks'[i].status = file_blocks[i].status
          /\ UNCHANGED <<reader, askVars, ub>>
      BY <1>2, <2>2, CloserScans
    <3>2. QED  BY <3>1 DEF NothingDeleted, SlotChanged
  <2>3. QED  BY <2>1, <2>2
<1>3. CASE CloseClaim(c) \/ CloseTick(c) \/ CloseWaited(c)
  <2>1. UNCHANGED <<file_blocks, reader, cursor, front, ub>>
    BY <1>3, Zenon DEF CloseClaim, CloseTick, CloseWaited
  <2>2. QED  BY <2>1 DEF NothingDeleted
<1>4. QED  BY <1>1, <1>2, <1>3 DEF CloserStep

(* What NothingDeleted leaves of the invariant to show: nothing. *)
LEMMA DeleteInvKept ==
  ASSUME TypeInv, DeleteInv, NothingDeleted, UNCHANGED <<reader, cursor, front>>,
         ub' # "freed_block"
  PROVE  DeleteInv'
BY DEF DeleteInv, GoneBehind, VictimsBehind, Near, NoFreedBlock, NothingDeleted

(* A reader that is near the front finds its block in the list undeleted. *)
LEMMA SlotThere ==
  ASSUME Lag <= KeepBlocks, TypeInv, DeleteInv, NEW r \in Readers,
         reader[r].pc # "idle", InList(r)
  PROVE  /\ Slot(r) \in FileBlock
         /\ Slot(r).status = "CREATED"
<1>1. /\ reader[r].off \in Nat /\ reader[r].num \in Nat
      /\ file_blocks \in Seq(FileBlock) /\ front \in Nat
  BY DEF TypeInv, TypeOK, ReaderState
<1>2. BlockOf(reader[r].off) \in Nat
  BY <1>1, BlockArithmetic
<1>3. reader[r].num + 1 \in DOMAIN file_blocks
  BY <1>1 DEF InList
<1>4. ~(reader[r].num + 1 - 1 + KeepBlocks < front)
  BY <1>1, <1>2, SplitFileAssumption DEF DeleteInv, Near
<1>5. QED  BY <1>1, <1>3, <1>4 DEF DeleteInv, GoneBehind, Slot

(* A reader's step that leaves the range of every reader alone and deletes *)
(* nothing.                                                                *)
LEMMA DeleteInvMoves ==
  ASSUME TypeInv, DeleteInv, NothingDeleted, NEW r \in Readers, NEW x,
         reader' = [reader EXCEPT ![r] = x], UNCHANGED <<cursor, front>>, ub' # "freed_block",
         x.off = reader[r].off, x.pc \notin Deleting,
         reader[r].pc # "idle", BlockOf(reader[r].off) <= x.num
  PROVE  DeleteInv'
<1>1. /\ reader'[r] = x
      /\ \A q \in Readers \ {r} : reader'[q] = reader[q]
  BY DEF TypeInv, TypeOK
<1>2. Near'
  BY <1>1 DEF DeleteInv, Near
<1>3. VictimsBehind'
  BY <1>1 DEF DeleteInv, VictimsBehind
<1>4. GoneBehind' /\ NoFreedBlock'
  BY DEF DeleteInv, GoneBehind, NothingDeleted, NoFreedBlock
<1>5. QED  BY <1>2, <1>3, <1>4 DEF DeleteInv

LEMMA DeleteReader ==
  ASSUME Lag <= KeepBlocks, TypeInv, DeleteInv, NEW r \in Readers, Ask(r) \/ ReadStep(r)
  PROVE  DeleteInv'
<1> USE DEF fileVars, askVars
<1>0. /\ reader[r] \in ReaderState
      /\ reader[r].off \in Nat /\ reader[r].num \in Nat
      /\ file_blocks \in Seq(FileBlock) /\ front \in Nat
      /\ \A q \in Readers : reader[q].off \in Nat /\ reader[q].num \in Nat
  BY DEF TypeInv, TypeOK, ReaderState
<1>00. \A q \in Readers : BlockOf(reader[q].off) \in Nat
  BY <1>0, BlockArithmetic
<1>000. ub # "freed_block"
  BY DEF DeleteInv, NoFreedBlock
<1>1. CASE Ask(r)
  <2>1. PICK off \in 0..(StreamLen - 1), len \in 1..MaxLen :
       /\ BlockOf(off) + Lag >= front
       /\ \A q \in Readers \ {r} :
            reader[q].pc # "idle" => BlockOf(off) <= BlockOf(reader[q].off) + Lag
       /\ reader' = [reader EXCEPT ![r] =
                       StartRead([@ EXCEPT !.off = off, !.len = len, !.body = <<>>,
                                           !.asked = reader[r].asked + 1])]
       /\ front' = MaxOf(front, BlockOf(off))
    BY <1>1 DEF Ask
  <2>2. off \in Nat /\ BlockOf(off) \in Nat
    BY BlockArithmetic, SplitFileAssumption
  <2> DEFINE x == StartRead([reader[r] EXCEPT !.off = off, !.len = len, !.body = <<>>,
                                              !.asked = reader[r].asked + 1])
  <2>3. /\ reader'[r] = x
        /\ \A q \in Readers \ {r} : reader'[q] = reader[q]
    BY <2>1 DEF TypeInv, TypeOK
  <2>4. x.off = off /\ x.num = BlockOf(off) /\ x.pc = "first"
    BY <1>0 DEF StartRead, ReaderState
  <2> HIDE DEF x
  <2>5. front <= front' /\ BlockOf(off) <= front' /\ front' \in {front, BlockOf(off)}
    BY <1>0, <2>1, <2>2 DEF MaxOf
  <2>6. UNCHANGED <<file_blocks, ub>>
    BY <1>1, Zenon DEF Ask
  <2>7. Near'
    <3>1. BlockOf(x.off) <= front' /\ front' <= BlockOf(x.off) + Lag /\ BlockOf(x.off) <= x.num
      BY <1>0, <2>1, <2>2, <2>4, <2>5, SplitFileAssumption
    <3>2. ASSUME NEW q \in Readers \ {r}, reader[q].pc # "idle"
          PROVE  /\ BlockOf(reader[q].off) <= front'
                 /\ front' <= BlockOf(reader[q].off) + Lag
                 /\ BlockOf(reader[q].off) <= reader[q].num
      <4>1. /\ BlockOf(reader[q].off) <= front
            /\ front <= BlockOf(reader[q].off) + Lag
            /\ BlockOf(reader[q].off) <= reader[q].num
            /\ BlockOf(off) <= BlockOf(reader[q].off) + Lag
        BY <2>1, <3>2 DEF DeleteInv, Near
      <4>2. BlockOf(reader[q].off) \in Nat
        BY <1>00
      <4>3. QED  BY <1>0, <2>2, <2>5, <4>1, <4>2, SplitFileAssumption
    <3>3. QED  BY <2>3, <3>1, <3>2 DEF Near
  <2>8. VictimsBehind'
    <3>1. \A q \in Readers : reader[q].pc \in Deleting =>
            reader[q].j \in Nat /\ reader[q].j + KeepBlocks < front
      BY DEF DeleteInv, VictimsBehind, TypeInv, TypeOK, ReaderState
    <3>2. x.pc \notin Deleting
      BY <2>4 DEF Deleting
    <3>3. \A n \in Nat : n + KeepBlocks < front => n + KeepBlocks < front'
      BY <1>0, <2>2, <2>5, SplitFileAssumption
    <3>4. QED  BY <2>3, <3>1, <3>2, <3>3 DEF VictimsBehind
  <2>9. GoneBehind'
    <3>1. \A i \in DOMAIN file_blocks : i - 1 + KeepBlocks < front => i - 1 + KeepBlocks < front'
      BY <1>0, <2>2, <2>5, SplitFileAssumption
    <3>2. QED  BY <2>6, <3>1 DEF DeleteInv, GoneBehind
  <2>10. NoFreedBlock'
    BY <1>000, <2>6 DEF NoFreedBlock
  <2>11. QED  BY <2>7, <2>8, <2>9, <2>10 DEF DeleteInv
<1>2. CASE ReadFirst(r)
  <2>1. InList(r) => Slot(r).status = "CREATED" /\ Slot(r).status \notin Gone
    BY <1>2, SlotThere DEF ReadFirst, Gone
  <2>2. \E p \in {"seek", "ret"} : reader' = [reader EXCEPT ![r].pc = p]
    BY <1>2, <2>1, Zenon DEF ReadFirst
  <2>3. UNCHANGED <<file_blocks, cursor, front, ub>> /\ reader[r].pc # "idle"
    BY <1>2, <2>1 DEF ReadFirst
  <2>4. NothingDeleted
    BY <2>3 DEF NothingDeleted
  <2>5. PICK p \in {"seek", "ret"} :
          reader' = [reader EXCEPT ![r] = [reader[r] EXCEPT !.pc = p]]
    BY <2>2
  <2>6. QED
    BY <1>0, <1>000, <2>3, <2>4, <2>5, DeleteInvMoves DEF ReaderState, DeleteInv, Near, Deleting
<1>3. CASE ReadSeek(r)
  <2>1. InList(r) /\ reader[r].pc = "seek"
    BY <1>3 DEF TypeInv, Found, ReadSeek
  <2>2. Slot(r) \in FileBlock /\ Slot(r).status = "CREATED" /\ Slot(r).status \notin Gone
    BY <2>1, SlotThere DEF Gone
  <2> DEFINE broken == Slot(r).fd = "closed" \/ (Slot(r).fd = "null" /\ ~Slot(r).on_disk)
  <2>3. CASE broken
    <3>1. Undefined("bad_file")
      BY <1>3, <2>2, <2>3, Zenon DEF ReadSeek
    <3>2. QED  BY <3>1, DeleteInvKept DEF Undefined, NothingDeleted
  <2>4. CASE ~broken
    <3>1. /\ file_blocks' = [file_blocks EXCEPT ![reader[r].num + 1].fd = "open",
                                                ![reader[r].num + 1].at = reader[r].boff]
          /\ reader' = [reader EXCEPT ![r].pc = "fread"]
          /\ UNCHANGED <<cursor, front, ub>>
      BY <1>3, <2>2, <2>4, Zenon DEF ReadSeek
    <3>2. NothingDeleted
      BY <1>0, <2>2, <3>1 DEF NothingDeleted, Slot, FileBlock
    <3>3. reader' = [reader EXCEPT ![r] = [reader[r] EXCEPT !.pc = "fread"]]
      BY <3>1
    <3>4. QED
      BY <1>0, <1>000, <2>1, <3>1, <3>2, <3>3, DeleteInvMoves
         DEF ReaderState, DeleteInv, Near, Deleting
  <2>5. QED  BY <2>3, <2>4
<1>4. CASE ReadBytes(r)
  <2>1. InList(r) /\ reader[r].pc = "fread"
    BY <1>4 DEF TypeInv, Found, ReadBytes
  <2>2. Slot(r) \in FileBlock /\ Slot(r).status = "CREATED" /\ Slot(r).status \notin Gone
    BY <2>1, SlotThere DEF Gone
  <2>3. CASE Slot(r).fd # "open"
    <3>1. Undefined("bad_file")
      BY <1>4, <2>2, <2>3, Zenon DEF ReadBytes
    <3>2. QED  BY <3>1, DeleteInvKept DEF Undefined, NothingDeleted
  <2>4. CASE Slot(r).fd = "open"
    <3>1. /\ file_blocks' = [file_blocks EXCEPT ![reader[r].num + 1].at = @ + Delivered(r)]
          /\ reader' = [reader EXCEPT
               ![r].buf = @ \o Bytes(From(r), Delivered(r)),
               ![r].pc = IF Served(r) THEN "reap" ELSE "next",
               ![r].num = IF Served(r) THEN @ ELSE @ + 1,
               ![r].boff = IF Served(r) THEN @ ELSE NextOffset(r)]
          /\ UNCHANGED <<cursor, front, ub>>
      BY <1>4, <2>2, <2>4, Zenon DEF ReadBytes
    <3>2. NothingDeleted
      BY <1>0, <2>2, <3>1 DEF NothingDeleted, Slot, FileBlock
    <3> DEFINE x == [reader[r] EXCEPT
                       !.buf = @ \o Bytes(From(r), Delivered(r)),
                       !.pc = IF Served(r) THEN "reap" ELSE "next",
                       !.num = IF Served(r) THEN @ ELSE @ + 1,
                       !.boff = IF Served(r) THEN @ ELSE NextOffset(r)]
    <3>3. reader' = [reader EXCEPT ![r] = x]
      BY <3>1
    <3>4. /\ x.off = reader[r].off /\ x.pc \in {"reap", "next"}
          /\ x.num \in {reader[r].num, reader[r].num + 1}
      BY <1>0 DEF ReaderState
    <3> HIDE DEF x
    <3>5. BlockOf(reader[r].off) <= reader[r].num /\ BlockOf(reader[r].off) \in Nat
      BY <1>00, <2>1 DEF DeleteInv, Near
    <3>6. BlockOf(reader[r].off) <= x.num
      BY <1>0, <3>4, <3>5
    <3>7. QED
      BY <1>000, <2>1, <3>1, <3>2, <3>3, <3>4, <3>6, DeleteInvMoves DEF Deleting
  <2>5. QED  BY <2>3, <2>4
<1>5. CASE ReadFails(r)
  BY <1>5, DeleteInvKept DEF ReadFails, Undefined, NothingDeleted
<1>6. CASE ReadNext(r)
  <2>1. InList(r) => Slot(r).status = "CREATED" /\ Slot(r).status \notin Gone
    BY <1>6, SlotThere DEF ReadNext, Gone
  <2>2. \E p \in {"seek", "reap"} : reader' = [reader EXCEPT ![r].pc = p]
    BY <1>6, <2>1, Zenon DEF ReadNext
  <2>3. UNCHANGED <<file_blocks, cursor, front, ub>> /\ reader[r].pc # "idle"
    BY <1>6, <2>1 DEF ReadNext
  <2>4. NothingDeleted
    BY <2>3 DEF NothingDeleted
  <2>5. PICK p \in {"seek", "reap"} :
          reader' = [reader EXCEPT ![r] = [reader[r] EXCEPT !.pc = p]]
    BY <2>2
  <2>6. QED
    BY <1>0, <1>000, <2>3, <2>4, <2>5, DeleteInvMoves DEF ReaderState, DeleteInv, Near, Deleting
<1>7. CASE ReapStep(r)
  <2>1. CASE Undefined("delete_race")
    BY <2>1, DeleteInvKept DEF Undefined, NothingDeleted
  <2>2. CASE ~Undefined("delete_race")
    <3>1. /\ SlotChanged(reader[r].j + 1)
          /\ reader[r].pc \in {"reap"} \cup Deleting
          /\ reader[r].pc = "reap" => file_blocks' = file_blocks
          /\ UNCHANGED <<cursor, front, ub>>
      BY <1>7, <2>2, ReaderReaps
    <3>2. PICK p \in {"reap"} \cup Deleting, n \in Nat :
            /\ reader' = [reader EXCEPT ![r] = [reader[r] EXCEPT !.pc = p, !.j = n]]
            /\ p \in Deleting => n = reader[r].j
            /\ p \in Deleting /\ reader[r].pc = "reap" => n < FirstKept(r)
      BY <1>7, <2>2, ReaderReaps
    <3>3. /\ reader'[r] = [reader[r] EXCEPT !.pc = p, !.j = n]
          /\ \A q \in Readers \ {r} : reader'[q] = reader[q]
      BY <3>2 DEF TypeInv, TypeOK
    <3>4. /\ reader'[r].off = reader[r].off /\ reader'[r].num = reader[r].num
          /\ reader'[r].pc = p /\ reader'[r].j = n
      BY <1>0, <3>3 DEF ReaderState
    <3>5. reader[r].pc # "idle" /\ reader[r].j \in Nat
      BY <1>0, <3>1 DEF Deleting, ReaderState
    <3>6. GoneBehind'
      <4>1. CASE reader[r].pc = "reap"
        BY <3>1, <4>1 DEF DeleteInv, GoneBehind
      <4>2. CASE reader[r].pc \in Deleting
        <5>1. reader[r].j + 1 - 1 + KeepBlocks < front
          BY <3>5, <4>2, SplitFileAssumption DEF DeleteInv, VictimsBehind
        <5>2. ASSUME NEW i \in DOMAIN file_blocks', file_blocks'[i].status # "CREATED"
              PROVE  i - 1 + KeepBlocks < front'
          <6>1. i \in DOMAIN file_blocks
            BY <3>1 DEF SlotChanged
          <6>2. CASE i = reader[r].j + 1
            BY <1>0, <3>1, <3>5, <5>1, <6>2, SplitFileAssumption
          <6>3. CASE i # reader[r].j + 1
            BY <3>1, <5>2, <6>1, <6>3 DEF SlotChanged, DeleteInv, GoneBehind
          <6>4. QED  BY <6>2, <6>3
        <5>3. QED  BY <5>2 DEF GoneBehind
      <4>3. QED  BY <3>1, <4>1, <4>2
    <3>7. VictimsBehind'
      <4>1. ASSUME p \in Deleting PROVE n + KeepBlocks < front
        <5>1. CASE reader[r].pc \in Deleting
          BY <3>2, <4>1, <5>1 DEF DeleteInv, VictimsBehind
        <5>2. CASE reader[r].pc = "reap"
          <6>1. BlockOf(reader[r].off) <= front /\ BlockOf(reader[r].off) \in Nat
            BY <1>00, <3>5 DEF DeleteInv, Near
          <6>2. n < BlockOf(reader[r].off) - KeepBlocks
            BY <3>2, <4>1, <5>2 DEF FirstKept
          <6>3. QED  BY <1>0, <6>1, <6>2, SplitFileAssumption
        <5>3. QED  BY <3>1, <5>1, <5>2
      <4>2. QED  BY <3>1, <3>3, <3>4, <4>1 DEF DeleteInv, VictimsBehind
    <3>8. Near'
      BY <3>1, <3>3, <3>4, <3>5 DEF DeleteInv, Near
    <3>9. NoFreedBlock'
      BY <1>000, <3>1 DEF NoFreedBlock
    <3>10. QED  BY <3>6, <3>7, <3>8, <3>9 DEF DeleteInv
  <2>3. QED  BY <2>1, <2>2
<1>8. CASE ReadReturn(r)
  <2>1. /\ reader' = [reader EXCEPT ![r] = [reader[r] EXCEPT !.pc = "ret"]]
        /\ UNCHANGED <<file_blocks, cursor, front, ub>>
        /\ reader[r].pc = "reap"
    BY <1>8 DEF ReadReturn
  <2>2. NothingDeleted
    BY <2>1 DEF NothingDeleted
  <2>3. QED
    BY <1>0, <1>000, <2>1, <2>2, DeleteInvMoves DEF ReaderState, DeleteInv, Near, Deleting
<1>9. CASE Serve(r)
  <2> DEFINE sent == reader[r].body \o reader[r].buf
             x == IF Len(sent) >= reader[r].len THEN IdleReader(reader[r].asked)
                  ELSE StartRead([reader[r] EXCEPT !.body = sent])
  <2>1. /\ reader' = [reader EXCEPT ![r] = x]
        /\ UNCHANGED <<file_blocks, cursor, front, ub>>
        /\ reader[r].pc = "ret"
    BY <1>9 DEF Serve
  <2>2. \/ x.pc = "idle"
        \/ /\ x.off = reader[r].off /\ x.pc = "first"
           /\ x.num = BlockOf(reader[r].off)
    BY <1>0 DEF IdleReader, StartRead, ReaderState
  <2>8. x.pc \notin Deleting
    BY <2>2 DEF Deleting
  <2> HIDE DEF x
  <2>3. /\ reader'[r] = x
        /\ \A q \in Readers \ {r} : reader'[q] = reader[q]
    BY <2>1 DEF TypeInv, TypeOK
  <2>4. Near'
    BY <1>00, <2>1, <2>2, <2>3 DEF DeleteInv, Near
  <2>5. VictimsBehind'
    BY <2>1, <2>3, <2>8 DEF DeleteInv, VictimsBehind
  <2>6. GoneBehind' /\ NoFreedBlock'
    BY <1>000, <2>1 DEF DeleteInv, GoneBehind, NoFreedBlock
  <2>7. QED  BY <2>4, <2>5, <2>6 DEF DeleteInv
<1>10. QED
  BY <1>1, <1>2, <1>3, <1>4, <1>5, <1>6, <1>7, <1>8, <1>9 DEF ReadStep, ReapStep

LEMMA DeleteInit == Init => DeleteInv
BY DEF Init, DeleteInv, GoneBehind, VictimsBehind, Near, NoFreedBlock, IdleReader, Deleting

LEMMA DeleteNext ==
  ASSUME Lag <= KeepBlocks, TypeInv, DeleteInv, [Next]_vars
  PROVE  DeleteInv'
<1> USE DEF vars, fileVars, askVars
<1>0. ub # "freed_block"
  BY DEF DeleteInv, NoFreedBlock
<1>1. CASE WriterStep
  BY <1>0, <1>1, WriterDeletesNothing, DeleteInvKept
<1>2. CASE \E c \in Closers : CloserStep(c)
  BY <1>0, <1>2, CloserDeletesNothing, DeleteInvKept
<1>3. CASE \E r \in Readers : Ask(r) \/ ReadStep(r)
  BY <1>3, DeleteReader
<1>4. CASE CleanerStarts \/ UNCHANGED vars
  <2>1. UNCHANGED <<file_blocks, reader, cursor, front, ub>>
    BY <1>4 DEF CleanerStarts
  <2>2. QED  BY <1>0, <2>1, DeleteInvKept DEF NothingDeleted
<1>5. QED  BY <1>1, <1>2, <1>3, <1>4, Zenon DEF Next, Quiet

(* With any number of concurrent readers whose ranges start within         *)
(* KeepBlocks blocks of each other, no read is under way in a block that   *)
(* another has deleted, whatever fails and whoever closes the file.        *)
THEOREM NoFreedBlockAlways ==
  ASSUME Lag <= KeepBlocks
  PROVE  Spec => []NoFreedBlock
<1>1. Init => TypeInv /\ DeleteInv
  BY TypeInit, DeleteInit
<1>2. TypeInv /\ DeleteInv /\ [Next]_vars => TypeInv' /\ DeleteInv'
  BY TypeNext, DeleteNext
<1>3. TypeInv /\ DeleteInv => NoFreedBlock
  BY DEF DeleteInv
<1>4. QED  BY <1>1, <1>2, <1>3, PTL DEF Spec

-----------------------------------------------------------------------------
(***************************************************************************)
(* Slots that point to deleted objects.  A slot comes to do so in the      *)
(* fourth step of the deletion of its block, and the deleting reader's     *)
(* next step clears it, whatever other readers in the same loop do.        *)
(***************************************************************************)

(* Who does not delete leaves no such slot behind. *)
LEMMA DanglingKept ==
  ASSUME TypeInv, DanglingInHand, NothingDeleted, UNCHANGED reader
  PROVE  DanglingInHand'
BY DEF DanglingInHand, NothingDeleted

(* A reader that is not about to clear a slot is in nobody's way. *)
LEMMA DanglingMoves ==
  ASSUME TypeInv, DanglingInHand, NothingDeleted, NEW r \in Readers, NEW x,
         reader' = [reader EXCEPT ![r] = x], reader[r].pc # "reset"
  PROVE  DanglingInHand'
<1>1. \A q \in Readers \ {r} : reader'[q] = reader[q]
  BY DEF TypeInv, TypeOK
<1>2. ASSUME NEW i \in DOMAIN file_blocks', file_blocks'[i].status = "FREED"
      PROVE  \E q \in Readers : reader'[q].pc = "reset" /\ reader'[q].j = i - 1
  <2>1. i \in DOMAIN file_blocks /\ file_blocks[i].status = "FREED"
    BY <1>2 DEF NothingDeleted
  <2>2. PICK q \in Readers : reader[q].pc = "reset" /\ reader[q].j = i - 1
    BY <2>1 DEF DanglingInHand
  <2>3. QED  BY <1>1, <2>2
<1>3. QED  BY <1>2 DEF DanglingInHand

LEMMA DanglingReap ==
  ASSUME TypeInv, DanglingInHand, NEW r \in Readers, ReapStep(r), ~Undefined("delete_race")
  PROVE  DanglingInHand'
<1>1. /\ SlotChanged(reader[r].j + 1)
      /\ reader[r].pc = "reap" => file_blocks' = file_blocks
  BY ReaderReaps
<1>2. PICK p \in {"reap"} \cup Deleting, n \in Nat :
        reader' = [reader EXCEPT ![r] = [reader[r] EXCEPT !.pc = p, !.j = n]]
  BY ReaderReaps
<1>3. /\ reader[r] \in ReaderState /\ reader[r].j \in Nat
      /\ file_blocks \in Seq(FileBlock)
  BY DEF TypeInv, TypeOK, ReaderState
<1>4. /\ reader'[r].pc = p /\ reader'[r].j = n
      /\ \A q \in Readers \ {r} : reader'[q] = reader[q]
  BY <1>2, <1>3 DEF TypeInv, TypeOK, ReaderState
<1> DEFINE k == reader[r].j + 1
<1>8. k \in DOMAIN file_blocks => file_blocks[k] \in FileBlock
  BY <1>3
<1>5. k \in DOMAIN file_blocks /\ file_blocks'[k].status = "FREED"
        => reader'[r].pc = "reset" /\ reader'[r].j = k - 1
  <2>1. CASE ReadReap(r)
    <3>1. Status(reader[r].j) # "FREED" /\ file_blocks' = file_blocks
      BY <2>1 DEF ReadReap, fileVars
    <3>2. QED  BY <3>1 DEF Status
  <2>2. CASE ReapClose(r)
    <3>1. /\ file_blocks' = [file_blocks EXCEPT
               ![reader[r].j + 1].fd = IF @ = "open" THEN "closed" ELSE @]
          /\ Status(reader[r].j) \notin Gone
      BY <2>2, Zenon DEF ReapClose
    <3>2. k \in DOMAIN file_blocks => file_blocks'[k].status = file_blocks[k].status
      BY <1>8, <3>1 DEF FileBlock
    <3>3. QED  BY <3>1, <3>2 DEF Status, Gone
  <2>3. CASE ReapMark(r)
    <3>1. file_blocks' = [file_blocks EXCEPT ![reader[r].j + 1].fd = "null",
                                             ![reader[r].j + 1].status = "DELETED",
                                             ![reader[r].j + 1].on_disk = FALSE]
      BY <2>3, Zenon DEF ReapMark
    <3>2. k \in DOMAIN file_blocks => file_blocks'[k].status = "DELETED"
      BY <1>8, <3>1 DEF FileBlock
    <3>3. QED  BY <3>2
  <2>4. CASE ReapDelete(r)
    <3>1. reader' = [reader EXCEPT ![r].pc = "reset"]
      BY <2>4, Zenon DEF ReapDelete
    <3>2. reader'[r].pc = "reset" /\ reader'[r].j = reader[r].j
      BY <1>3, <3>1 DEF TypeInv, TypeOK, ReaderState
    <3>3. QED  BY <1>3, <3>2
  <2>5. CASE ReapReset(r)
    <3>1. file_blocks' = [file_blocks EXCEPT ![reader[r].j + 1].status = "NULL"]
      BY <2>5 DEF ReapReset, Cleared
    <3>2. k \in DOMAIN file_blocks => file_blocks'[k].status = "NULL"
      BY <1>8, <3>1 DEF FileBlock
    <3>3. QED  BY <3>2
  <2>6. QED  BY <2>1, <2>2, <2>3, <2>4, <2>5 DEF ReapStep
<1>6. ASSUME NEW i \in DOMAIN file_blocks', file_blocks'[i].status = "FREED"
      PROVE  \E q \in Readers : reader'[q].pc = "reset" /\ reader'[q].j = i - 1
  <2>1. i \in DOMAIN file_blocks
    BY <1>1 DEF SlotChanged
  <2>2. CASE i = k
    BY <1>5, <1>6, <2>1, <2>2
  <2>3. CASE i # k
    <3>1. file_blocks[i].status = "FREED"
      BY <1>1, <1>6, <2>1, <2>3 DEF SlotChanged
    <3>2. PICK q \in Readers : reader[q].pc = "reset" /\ reader[q].j = i - 1
      BY <2>1, <3>1 DEF DanglingInHand
    <3>3. i \in Int
      BY <1>3, <2>1
    <3>4. q # r
      BY <2>3, <3>2, <3>3
    <3>5. QED  BY <1>4, <3>2, <3>4
  <2>4. QED  BY <2>2, <2>3
<1>7. QED  BY <1>6 DEF DanglingInHand

LEMMA DanglingReader ==
  ASSUME TypeInv, DanglingInHand, NEW r \in Readers, Ask(r) \/ ReadStep(r)
  PROVE  DanglingInHand'
<1> USE DEF fileVars, askVars
<1>0. \A i \in DOMAIN file_blocks : file_blocks[i] \in FileBlock
  BY DEF TypeInv, TypeOK
<1>1. CASE ReapStep(r)
  <2>1. CASE Undefined("delete_race")
    BY <2>1, DanglingKept DEF Undefined, NothingDeleted
  <2>2. QED  BY <1>1, <2>1, DanglingReap
<1>2. CASE \E what : Undefined(what)
  BY <1>2, DanglingKept DEF Undefined, NothingDeleted
<1>3. ASSUME NEW x, NEW b, NEW n,
             reader' = [reader EXCEPT ![r] = x], reader[r].pc # "reset",
             file_blocks' = [file_blocks EXCEPT ![n] = b],
             n \in DOMAIN file_blocks => b.status = file_blocks[n].status
      PROVE  DanglingInHand'
  <2>1. NothingDeleted
    BY <1>3 DEF NothingDeleted
  <2>2. QED  BY <1>3, <2>1, DanglingMoves
<1>4. ASSUME NEW x, reader' = [reader EXCEPT ![r] = x], reader[r].pc # "reset",
             file_blocks' = file_blocks
      PROVE  DanglingInHand'
  <2>1. NothingDeleted
    BY <1>4 DEF NothingDeleted
  <2>2. QED  BY <1>4, <2>1, DanglingMoves
<1>5. CASE Ask(r)
  <2>1. \E x : reader' = [reader EXCEPT ![r] = x] /\ reader[r].pc # "reset" /\ file_blocks' = file_blocks
    BY <1>5 DEF Ask
  <2>2. QED  BY <1>4, <2>1
<1>6. CASE ReadSeek(r) /\ ~\E what : Undefined(what)
  <2> DEFINE n == reader[r].num + 1
             b == [file_blocks[n] EXCEPT !.fd = "open", !.at = reader[r].boff]
  <2>1. /\ file_blocks' = [file_blocks EXCEPT ![n] = b]
        /\ reader' = [reader EXCEPT ![r] = [reader[r] EXCEPT !.pc = "fread"]]
        /\ reader[r].pc # "reset"
    BY <1>6 DEF ReadSeek
  <2>2. n \in DOMAIN file_blocks => b.status = file_blocks[n].status
    BY <1>0 DEF FileBlock
  <2> HIDE DEF n, b
  <2>3. QED  BY <1>3, <2>1, <2>2
<1>7. CASE ReadBytes(r) /\ ~\E what : Undefined(what)
  <2> DEFINE n == reader[r].num + 1
             b == [file_blocks[n] EXCEPT !.at = @ + Delivered(r)]
  <2>1. /\ file_blocks' = [file_blocks EXCEPT ![n] = b]
        /\ \E x : reader' = [reader EXCEPT ![r] = x]
        /\ reader[r].pc # "reset"
    BY <1>7 DEF ReadBytes
  <2>2. n \in DOMAIN file_blocks => b.status = file_blocks[n].status
    BY <1>0 DEF FileBlock
  <2> HIDE DEF n, b
  <2>3. QED  BY <1>3, <2>1, <2>2
<1>8. CASE /\ ReadFirst(r) \/ ReadFails(r) \/ ReadNext(r) \/ ReadReturn(r)
           /\ ~\E what : Undefined(what)
  <2>1. /\ \E x : reader' = [reader EXCEPT ![r] = [reader[r] EXCEPT !.pc = x]]
        /\ reader[r].pc # "reset" /\ file_blocks' = file_blocks
    BY <1>8 DEF ReadFirst, ReadFails, ReadNext, ReadReturn
  <2>2. QED  BY <1>4, <2>1
<1>9. CASE Serve(r)
  <2>1. \E x : reader' = [reader EXCEPT ![r] = x] /\ reader[r].pc # "reset" /\ file_blocks' = file_blocks
    BY <1>9 DEF Serve
  <2>2. QED  BY <1>4, <2>1
<1>10. QED
  BY <1>1, <1>2, <1>5, <1>6, <1>7, <1>8, <1>9 DEF ReadStep, ReapStep

LEMMA DanglingNext ==
  ASSUME TypeInv, DanglingInHand, [Next]_vars
  PROVE  DanglingInHand'
<1> USE DEF vars, fileVars, askVars
<1>1. CASE WriterStep
  BY <1>1, WriterDeletesNothing, DanglingKept
<1>2. CASE \E c \in Closers : CloserStep(c)
  BY <1>2, CloserDeletesNothing, DanglingKept
<1>3. CASE \E r \in Readers : Ask(r) \/ ReadStep(r)
  BY <1>3, DanglingReader
<1>4. CASE CleanerStarts \/ UNCHANGED vars
  <2>1. UNCHANGED <<file_blocks, reader>>
    BY <1>4 DEF CleanerStarts
  <2>2. QED  BY <2>1, DanglingKept DEF NothingDeleted
<1>5. QED  BY <1>1, <1>2, <1>3, <1>4, Zenon DEF Next, Quiet

(* With any number of readers deleting at the same time, the same blocks   *)
(* included, a slot is left pointing to a deleted object by nobody: the    *)
(* destructor, which deletes every slot that is not nullptr, meets none    *)
(* once the readers are done.                                              *)
THEOREM DanglingInHandAlways == Spec => []DanglingInHand
<1>1. Init => TypeInv /\ DanglingInHand
  BY TypeInit DEF Init, DanglingInHand
<1>2. TypeInv /\ DanglingInHand /\ [Next]_vars => TypeInv' /\ DanglingInHand'
  BY TypeNext, DanglingNext
<1>3. QED  BY <1>1, <1>2, PTL DEF Spec

-----------------------------------------------------------------------------
(***************************************************************************)
(* The block list and the byte counters of SplitFile for every block size, *)
(* stream, number of readers and order of closing, proved.                 *)
(*                                                                         *)
(* The inductive invariant.  BlockList and Accounting are about what the   *)
(* writer and Close have finished; the rest says where the writer can be   *)
(* while the block in progress is empty, full, or in the list already.     *)
(***************************************************************************)
WildUntilOpen ==
  /\ block_in_progress.fd = "wild" <=> writer.pc = "start"
  /\ writer.pc = "start" => ~block_in_progress.published /\ block_in_progress.size = 0

InTheList ==
  /\ block_in_progress.published => block_in_progress.fd = "null"
  /\ block_in_progress.published <=> (writer.pc = "roll" \/ Sealed)
  /\ ~(writer.pc = "roll" /\ Sealed)
  /\ writer.pc = "roll" => block_in_progress.size = BlockSize
  /\ writer.pc = "full" => block_in_progress.published \/ block_in_progress.size = BlockSize

Counted ==
  writer.pc \in {"start", "idle", "close", "done"} => writer.put = 0

OneClaim ==
  \A c, d \in Closers :
    closer[c].pc = "claimed" => complete /\ (closer[d].pc = "claimed" => c = d)

ListInv == BlockList /\ Accounting /\ WildUntilOpen /\ InTheList /\ Counted /\ OneClaim

(* What Read and the end of Close do to the list: its length, the sizes of *)
(* its blocks, what their files hold and the mark of the last one stay.    *)
SameShape ==
  /\ DOMAIN file_blocks' = DOMAIN file_blocks
  /\ Len(file_blocks') = Len(file_blocks)
  /\ \A i \in DOMAIN file_blocks :
       /\ file_blocks'[i].size = file_blocks[i].size
       /\ file_blocks'[i].data = file_blocks[i].data
       /\ file_blocks'[i].is_last = file_blocks[i].is_last

(* Removing keeps it. *)
LEMMA SlotChangedShape ==
  ASSUME NEW k, SlotChanged(k)
  PROVE  SameShape
BY DEF SlotChanged, SameContent, SameShape

(* Steps that leave the writer's side alone keep the invariant. *)
LEMMA ListInvKept ==
  ASSUME TypeInv, TypeInv', ListInv, SameShape, Sealed' <=> Sealed, OneClaim',
         UNCHANGED <<block_in_progress, write_offset, writer>>
  PROVE  ListInv'
<1>1. file_blocks \in Seq(FileBlock) /\ file_blocks' \in Seq(FileBlock)
  BY DEF TypeInv, TypeOK
<1>2. (file_blocks' = <<>>) <=> (file_blocks = <<>>)
  BY <1>1 DEF SameShape
<1>3. BlockList'
  <2>1. file_blocks # <<>> => Len(file_blocks) \in DOMAIN file_blocks
    BY <1>1
  <2>2. QED  BY <1>2, <2>1 DEF ListInv, BlockList, SameShape
<1>4. Accounting'
  BY DEF ListInv, Accounting, Stored, SameShape
<1>5. WildUntilOpen' /\ InTheList' /\ Counted'
  BY DEF ListInv, WildUntilOpen, InTheList, Counted
<1>6. QED  BY <1>3, <1>4, <1>5 DEF ListInv

LEMMA TimesNext ==
  ASSUME NEW b \in Nat, NEW n \in Nat
  PROVE  b * (n + 1 - 1) = b * n /\ b * (n + 1) = b * n + b /\ b * n \in Nat
OBVIOUS

(* An index is below the last one or is the last one. *)
LEMMA UpTo ==
  ASSUME NEW n \in Nat, NEW i \in 1..n
  PROVE  i < n \/ i = n
OBVIOUS

(* While the stream is open every listed block is full and none is the     *)
(* last.                                                                   *)
LEMMA FullWhileOpen ==
  ASSUME BlockList, ~Sealed, Len(file_blocks) \in Nat,
         DOMAIN file_blocks = 1..Len(file_blocks)
  PROVE  \A i \in 1..Len(file_blocks) : file_blocks[i].size = BlockSize /\ ~file_blocks[i].is_last
<1> SUFFICES ASSUME NEW i \in 1..Len(file_blocks)
             PROVE  file_blocks[i].size = BlockSize /\ ~file_blocks[i].is_last
  OBVIOUS
<1>1. CASE i < Len(file_blocks)
  BY <1>1, Zenon DEF BlockList
<1>2. CASE i = Len(file_blocks)
  <2>1. file_blocks # <<>>
    <3>1. CASE file_blocks = <<>>
      <4>1. Len(file_blocks) = 0
        BY <3>1
      <4>2. QED  BY <4>1
    <3>2. QED  BY <3>1
  <2>2. /\ file_blocks[Len(file_blocks)].is_last <=> Sealed
        /\ file_blocks[Len(file_blocks)].is_last \/ file_blocks[Len(file_blocks)].size = BlockSize
    BY <2>1, Zenon DEF BlockList
  <2>3. QED  BY <1>2, <2>2, Zenon
<1>3. i < Len(file_blocks) \/ i = Len(file_blocks)
  BY UpTo, Zenon
<1>4. QED  BY <1>1, <1>2, <1>3, Zenon

(* A block is published: the full one by the writer, the last one by Close. *)
LEMMA ListInvAppend ==
  ASSUME TypeInv, ListInv, NEW last \in BOOLEAN,
         ~Sealed, ~block_in_progress.published,
         last <=> Sealed', last \/ block_in_progress.size = BlockSize,
         Publish(last),
         write_offset' = write_offset, writer'.put = writer.put
  PROVE  BlockList' /\ Accounting'
<1>0. PICK n \in 0..block_in_progress.size :
        /\ Published(last, n) \in FileBlock
        /\ file_blocks' = Append(file_blocks, Published(last, n))
  BY PublishType DEF TypeInv
<1>7. block_in_progress' = [block_in_progress EXCEPT !.fd = "null", !.published = TRUE]
  BY Zenon DEF Publish
<1>1. file_blocks \in Seq(FileBlock) /\ Published(last, n) \in FileBlock
  BY <1>0 DEF TypeInv, TypeOK
<1>2. /\ DOMAIN file_blocks' = 1..(Len(file_blocks) + 1)
      /\ Len(file_blocks') = Len(file_blocks) + 1
      /\ file_blocks'[Len(file_blocks) + 1] = Published(last, n)
      /\ \A i \in 1..Len(file_blocks) : file_blocks'[i] = file_blocks[i]
      /\ Len(file_blocks) \in Nat
      /\ DOMAIN file_blocks = 1..Len(file_blocks)
      /\ file_blocks' # <<>>
  BY <1>0, <1>1, AppendProperties
<1>3. Published(last, n).size = block_in_progress.size /\ Published(last, n).is_last = last
  BY DEF Published
<1>4. BlockList'
  <2>1. \A i \in 1..Len(file_blocks) : file_blocks[i].size = BlockSize /\ ~file_blocks[i].is_last
    <3>1. BlockList /\ Len(file_blocks) \in Nat /\ DOMAIN file_blocks = 1..Len(file_blocks)
      BY <1>2 DEF ListInv
    <3>2. QED  BY <3>1, FullWhileOpen
  <2>2. \A i \in DOMAIN file_blocks' : i < Len(file_blocks') =>
          file_blocks'[i].size = BlockSize /\ ~file_blocks'[i].is_last
    BY <1>2, <2>1
  <2>3. /\ file_blocks'[Len(file_blocks')].is_last <=> Sealed'
        /\ file_blocks'[Len(file_blocks')].is_last \/ file_blocks'[Len(file_blocks')].size = BlockSize
    BY <1>2, <1>3
  <2>4. QED  BY <1>2, <2>2, <2>3 DEF BlockList
<1>5. Accounting'
  <2>1. block_in_progress'.published /\ block_in_progress'.size = block_in_progress.size
    BY <1>7 DEF TypeInv, TypeOK, InProgress
  <2>2. BlockSize * (Len(file_blocks) + 1 - 1) = BlockSize * (Len(file_blocks) - 0)
    BY <1>2, SplitFileAssumption
  <2>3. Stored' = Stored
    BY <1>2, <2>1, <2>2 DEF Stored
  <2>4. QED  BY <2>3 DEF ListInv, Accounting
<1>6. QED  BY <1>4, <1>5

(* Every step of the writer. *)
LEMMA ListWriter ==
  ASSUME TypeInv, TypeInv', ListInv, WriterStep
  PROVE  ListInv'
<1> USE DEF fileVars, askVars
<1>1. CASE BlockFull
  <2>1. CASE block_in_progress.fd # "open"
    BY <1>1, <2>1 DEF BlockFull, Undefined, ListInv, BlockList, Accounting, Stored, Sealed, MutexFree,
                WildUntilOpen, InTheList, Counted, OneClaim
  <2>2. CASE block_in_progress.fd = "open"
    <3>1. /\ Publish(FALSE)
          /\ writer' = [writer EXCEPT !.pc = "roll"]
          /\ writer.pc = "full"
          /\ UNCHANGED <<complete, closer, write_offset>>
      BY <1>1, <2>2, Zenon DEF BlockFull
    <3>9. block_in_progress' = [block_in_progress EXCEPT !.fd = "null", !.published = TRUE]
      BY <3>1, Zenon DEF Publish
    <3>2. ~block_in_progress.published /\ block_in_progress.size = BlockSize /\ ~Sealed
      BY <2>2, <3>1 DEF ListInv, InTheList
    <3>3. ~Sealed'
      BY <3>1, <3>2 DEF Sealed, MutexFree
    <3>4. /\ writer'.put = writer.put /\ writer'.pc = "roll"
          /\ block_in_progress'.published /\ block_in_progress'.fd = "null"
          /\ block_in_progress'.size = block_in_progress.size
      BY <3>1, <3>9 DEF TypeInv, TypeOK, WriterState, InProgress
    <3>5. BlockList' /\ Accounting'
      BY <3>1, <3>2, <3>3, <3>4, ListInvAppend
    <3>6. WildUntilOpen' /\ InTheList' /\ Counted'
      BY <3>2, <3>3, <3>4 DEF WildUntilOpen, InTheList, Counted
    <3>7. OneClaim'
      BY <3>1 DEF ListInv, OneClaim
    <3>8. QED  BY <3>5, <3>6, <3>7 DEF ListInv
  <2>3. QED  BY <2>1, <2>2
<1>2. CASE FWrite
  <2>1. CASE block_in_progress.fd # "open"
    BY <1>2, <2>1 DEF FWrite, Undefined, ListInv, BlockList, Accounting, Stored, Sealed, MutexFree,
                WildUntilOpen, InTheList, Counted, OneClaim
  <2>2. CASE block_in_progress.fd = "open"
    <3> DEFINE want == MinOf(writer.left, BlockSize - block_in_progress.size)
    <3>1. PICK n \in 0..want :
          /\ block_in_progress' = [block_in_progress EXCEPT !.size = @ + n]
          /\ writer' = [writer EXCEPT
                     !.left = @ - n, !.put = @ + n,
                     !.pc = IF n < want THEN "short"
                            ELSE IF block_in_progress.size + n = BlockSize THEN "full"
                            ELSE "loop"]
          /\ UNCHANGED <<file_blocks, complete, write_offset, closer>>
      BY <1>2, <2>2 DEF FWrite
    <3>2. writer.put \in Nat /\ block_in_progress.size \in Nat /\ n \in Nat
          /\ write_offset \in Nat
      BY SplitFileAssumption DEF TypeInv, TypeOK, WriterState, InProgress, MinOf
    <3> HIDE DEF want
    <3>3. /\ writer'.put = writer.put + n
          /\ writer'.pc \in {"short", "full", "loop"}
          /\ writer'.pc = "full" => block_in_progress.size + n = BlockSize
          /\ block_in_progress'.size = block_in_progress.size + n
          /\ block_in_progress'.fd = "open"
          /\ block_in_progress'.published = block_in_progress.published
      BY <2>2, <3>1 DEF TypeInv, TypeOK, WriterState, InProgress
    <3>4. ~block_in_progress.published /\ ~Sealed /\ Sealed' = Sealed
      BY <2>2, <3>1 DEF ListInv, InTheList, Sealed, MutexFree
    <3>5. BlockList'
      BY <3>1, <3>4 DEF ListInv, BlockList
    <3>6. Accounting'
      <4>1. BlockSize * (Len(file_blocks) - 0) \in Int
        BY SplitFileAssumption DEF TypeInv, TypeOK
      <4>2. /\ Stored = BlockSize * (Len(file_blocks) - 0) + block_in_progress.size
            /\ Stored' = BlockSize * (Len(file_blocks) - 0) + (block_in_progress.size + n)
        BY <3>1, <3>3, <3>4 DEF Stored
      <4>3. write_offset + writer.put = Stored
        BY DEF ListInv, Accounting
      <4>4. write_offset' + writer'.put = write_offset + (writer.put + n)
        BY <3>1, <3>3
      <4>5. QED  BY <3>2, <4>1, <4>2, <4>3, <4>4 DEF Accounting
    <3>7. WildUntilOpen' /\ InTheList' /\ Counted' /\ OneClaim'
      BY <3>1, <3>3, <3>4 DEF WildUntilOpen, InTheList, Counted, OneClaim, ListInv
    <3>8. QED  BY <3>5, <3>6, <3>7 DEF ListInv
  <2>3. QED  BY <2>1, <2>2
<1>3. CASE Open \/ RollBlock
  <2>1. /\ block_in_progress'.size = 0
        /\ block_in_progress'.fd \in {"open", "null"}
        /\ block_in_progress'.published = FALSE
    BY <1>3 DEF Open, RollBlock, NewBlock
  <2>2. /\ UNCHANGED <<file_blocks, complete, write_offset, closer>>
        /\ writer' = [writer EXCEPT !.pc = IF Open THEN "idle" ELSE "loop"]
        /\ Open => writer.pc = "start"
        /\ ~Open => writer.pc = "roll"
    BY <1>3 DEF Open, RollBlock
  <2>3. Sealed' = Sealed
    BY <2>2 DEF Sealed, MutexFree
  <2>4. /\ writer'.put = writer.put /\ writer'.pc \in {"idle", "loop"}
        /\ writer'.pc = "idle" => writer.pc = "start"
    BY <2>2 DEF TypeInv, TypeOK, WriterState
  <2>5. ~Sealed
    BY <2>2 DEF ListInv, InTheList, WildUntilOpen
  <2>6. Stored' = Stored
    <3>1. Len(file_blocks) \in Nat
      BY DEF TypeInv, TypeOK
    <3>2. /\ BlockSize * (Len(file_blocks) - 0) = BlockSize * Len(file_blocks)
          /\ BlockSize * (Len(file_blocks) - 1) + BlockSize = BlockSize * Len(file_blocks)
          /\ BlockSize * Len(file_blocks) \in Nat
      BY <3>1, SplitFileAssumption
    <3>3. Stored' = BlockSize * Len(file_blocks)
      BY <2>1, <2>2, <3>2 DEF Stored
    <3>4. CASE writer.pc = "start"
      BY <3>2, <3>3, <3>4 DEF Stored, ListInv, WildUntilOpen
    <3>5. CASE writer.pc = "roll"
      BY <3>2, <3>3, <3>5 DEF Stored, ListInv, InTheList
    <3>6. QED  BY <2>2, <3>4, <3>5
  <2>7. BlockList' /\ Accounting'
    BY <2>2, <2>3, <2>4, <2>6 DEF ListInv, BlockList, Accounting
  <2>8. WildUntilOpen' /\ InTheList' /\ Counted' /\ OneClaim'
    BY <2>1, <2>2, <2>3, <2>4, <2>5 DEF ListInv, WildUntilOpen, InTheList, Counted, OneClaim
  <2>9. QED  BY <2>7, <2>8 DEF ListInv
<1>4. CASE WriteReturn
  <2>1. /\ UNCHANGED <<file_blocks, block_in_progress, complete, closer>>
        /\ write_offset' = write_offset + writer.put
        /\ writer'.put = 0
        /\ writer'.pc \in {"close", "idle"}
        /\ writer.pc \in {"short", "loop"}
    BY <1>4 DEF WriteReturn, CountWritten, AfterWrite, TypeInv, TypeOK, WriterState
  <2>2. Sealed' = Sealed /\ Stored' = Stored
    BY <2>1 DEF Sealed, MutexFree, Stored
  <2>3. Accounting'
    BY <2>1, <2>2 DEF ListInv, Accounting, TypeInv, TypeOK, WriterState
  <2>4. BlockList' /\ WildUntilOpen' /\ InTheList' /\ Counted' /\ OneClaim'
    BY <2>1, <2>2 DEF ListInv, BlockList, WildUntilOpen, InTheList, Counted, OneClaim
  <2>5. QED  BY <2>3, <2>4 DEF ListInv
<1>5. CASE WriteCall \/ SourceEnds \/ WriteLoop \/ WriterEnds
  <2>1. /\ UNCHANGED <<file_blocks, block_in_progress, complete, write_offset, closer>>
        /\ writer'.put = writer.put
        /\ writer'.pc \in {"close", "loop", "fwrite", "done"}
        /\ writer.pc \in {"idle", "loop", "close"}
        /\ writer'.pc \in {"close", "done"} => writer.pc \in {"idle", "close"}
    BY <1>5 DEF WriteCall, SourceEnds, WriteLoop, WriterEnds, TypeInv, TypeOK, WriterState,
                ListInv, Counted
  <2>2. Sealed' = Sealed /\ Stored' = Stored
    BY <2>1 DEF Sealed, MutexFree, Stored
  <2>3. BlockList' /\ Accounting' /\ WildUntilOpen' /\ InTheList' /\ Counted' /\ OneClaim'
    BY <2>1, <2>2 DEF ListInv, BlockList, Accounting, WildUntilOpen, InTheList, Counted, OneClaim
  <2>4. QED  BY <2>3 DEF ListInv
<1>6. CASE WriterCloses
  <2>1. /\ UNCHANGED <<file_blocks, block_in_progress, complete, write_offset, writer>>
        /\ \A c \in Closers : closer'[c].pc = "claimed" <=> closer[c].pc = "claimed"
    BY <1>6 DEF WriterCloses, TypeInv, TypeOK, CloserState, Closers
  <2>2. Sealed' = Sealed
    BY <2>1 DEF Sealed, MutexFree
  <2>3. SameShape /\ OneClaim'
    BY <2>1 DEF SameShape, ListInv, OneClaim
  <2>4. QED  BY <2>1, <2>2, <2>3, ListInvKept
<1>7. QED
  BY <1>1, <1>2, <1>3, <1>4, <1>5, <1>6 DEF WriterStep

(* Every step of a call of Close, and the start of the clean-up. *)
LEMMA ListCloser ==
  ASSUME TypeInv, TypeInv', ListInv, NEW c \in Closers, CloserStep(c)
  PROVE  ListInv'
<1> USE DEF fileVars, askVars
<1>0. closer \in [Closers -> CloserState]
  BY DEF TypeInv, TypeOK
<1>1. CASE CloseClaim(c)
  <2>1. /\ UNCHANGED <<file_blocks, block_in_progress, write_offset, writer>>
        /\ complete' = TRUE
        /\ closer' = [closer EXCEPT ![c].pc = IF complete THEN "done" ELSE "claimed"]
        /\ MutexFree
        /\ closer[c].pc = "enter"
    BY <1>1 DEF CloseClaim, AlreadyClosed
  <2>2. CASE complete
    <3>1. \A d \in Closers : closer'[d].pc # "claimed"
      BY <1>0, <2>1, <2>2 DEF MutexFree, CloserState
    <3>2. Sealed' = Sealed /\ SameShape /\ OneClaim'
      BY <2>1, <2>2, <3>1 DEF Sealed, MutexFree, SameShape, OneClaim, TypeInv, TypeOK
    <3>3. QED  BY <2>1, <3>2, ListInvKept
  <2>3. CASE ~complete
    <3>1. closer'[c].pc = "claimed" /\ \A d \in Closers \ {c} : closer'[d].pc # "claimed"
      BY <1>0, <2>1, <2>3 DEF MutexFree, CloserState
    <3>2. (Sealed' <=> Sealed) /\ SameShape /\ OneClaim'
      BY <2>1, <2>3, <3>1 DEF Sealed, MutexFree, SameShape, OneClaim
    <3>3. QED  BY <2>1, <3>2, ListInvKept
  <2>4. QED  BY <2>2, <2>3
<1>2. CASE ClosePublish(c)
  <2>1. CASE block_in_progress.fd = "wild" \/ block_in_progress.published
    BY <1>2, <2>1 DEF ClosePublish, Undefined, ListInv, BlockList, Accounting, Stored, Sealed,
                MutexFree, WildUntilOpen, InTheList, Counted, OneClaim
  <2>2. CASE block_in_progress.fd # "wild" /\ ~block_in_progress.published
    <3>1. /\ Publish(TRUE)
          /\ closer' = [closer EXCEPT ![c].pc = "wait"]
          /\ UNCHANGED <<complete, write_offset, writer>>
          /\ closer[c].pc = "claimed"
      BY <1>2, <2>2, Zenon DEF ClosePublish, LastFlag
    <3>11. block_in_progress' = [block_in_progress EXCEPT !.fd = "null", !.published = TRUE]
      BY <3>1, Zenon DEF Publish
    <3>2. complete /\ ~Sealed
      BY <3>1 DEF ListInv, OneClaim, Sealed, MutexFree
    <3>3. \A d \in Closers : closer'[d].pc # "claimed"
      BY <1>0, <3>1 DEF ListInv, OneClaim, CloserState
    <3>4. Sealed' /\ OneClaim'
      BY <3>1, <3>2, <3>3 DEF Sealed, MutexFree, OneClaim
    <3>5. BlockList' /\ Accounting'
      BY <2>2, <3>1, <3>2, <3>4, ListInvAppend
    <3>6. /\ block_in_progress'.published /\ block_in_progress'.fd = "null"
          /\ block_in_progress'.size = block_in_progress.size
      BY <3>11 DEF TypeInv, TypeOK, InProgress
    <3>7. writer.pc # "roll"
      BY <2>2 DEF ListInv, InTheList
    <3>8. writer.pc # "start"
      BY <2>2 DEF ListInv, WildUntilOpen
    <3>9. WildUntilOpen' /\ InTheList' /\ Counted'
      BY <3>1, <3>4, <3>6, <3>7, <3>8 DEF ListInv, WildUntilOpen, InTheList, Counted
    <3>10. QED  BY <3>4, <3>5, <3>9 DEF ListInv
  <2>3. QED  BY <2>1, <2>2
<1>3. CASE CloseTick(c) \/ CloseWaited(c)
  <2>1. /\ UNCHANGED <<file_blocks, block_in_progress, complete, write_offset, writer>>
        /\ \A d \in Closers : closer'[d].pc = "claimed" <=> closer[d].pc = "claimed"
    BY <1>0, <1>3 DEF CloseTick, CloseWaited, CloserState
  <2>2. Sealed' = Sealed /\ OneClaim' /\ SameShape
    BY <2>1 DEF Sealed, MutexFree, ListInv, OneClaim, SameShape
  <2>3. QED  BY <2>1, <2>2, ListInvKept
<1>5. CASE CloseTest(c) \/ CloseRemove(c)
  <2>1. CASE Undefined("delete_race")
    <3>1. (Sealed' <=> Sealed) /\ SameShape /\ OneClaim'
      BY <2>1 DEF Undefined, Sealed, MutexFree, SameShape, ListInv, OneClaim
    <3>2. QED  BY <2>1, <3>1, ListInvKept DEF Undefined
  <2>2. CASE ~Undefined("delete_race")
    <3>1. /\ closer[c].pc \in {"remove", "unlink"}
          /\ SlotChanged(closer[c].j + 1)
          /\ UNCHANGED <<block_in_progress, complete, write_offset, writer>>
      BY <1>5, <2>2, CloserScans
    <3>2. PICK p \in {"remove", "unlink", "done"}, n \in Nat :
            closer' = [closer EXCEPT ![c].pc = p, ![c].j = n]
      BY <1>5, <2>2, CloserScans
    <3>3. closer'[c].pc = p /\ \A d \in Closers \ {c} : closer'[d] = closer[d]
      BY <1>0, <3>2 DEF CloserState
    <3>4. \A d \in Closers : closer'[d].pc = "claimed" <=> closer[d].pc = "claimed"
      BY <3>1, <3>3
    <3>5. Sealed' = Sealed /\ OneClaim'
      BY <3>1, <3>4 DEF Sealed, MutexFree, ListInv, OneClaim
    <3>6. QED  BY <3>1, <3>5, SlotChangedShape, ListInvKept
  <2>3. QED  BY <2>1, <2>2
<1>4. QED  BY <1>1, <1>2, <1>3, <1>5 DEF CloserStep

(* A reader changes no size and no length. *)
LEMMA ReaderKeepsShape ==
  ASSUME TypeInv, TypeInv', NEW r \in Readers, Ask(r) \/ ReadStep(r)
  PROVE  SameShape /\ UNCHANGED <<block_in_progress, complete, write_offset, writer, closer>>
<1> USE DEF fileVars, askVars
<1>0. \A i \in DOMAIN file_blocks : file_blocks[i] \in FileBlock
  BY DEF TypeInv, TypeOK
<1>1. UNCHANGED <<block_in_progress, complete, write_offset, writer, closer>>
  BY Zenon DEF Ask, ReadStep, ReadFirst, ReadSeek, ReadBytes, ReadFails, ReadNext, ReadReap,
         ReapClose, ReapMark, ReapDelete, ReapReset, ReadReturn, Serve, Undefined
<1>2. CASE ReapStep(r) /\ ~Undefined("delete_race")
  BY <1>1, <1>2, ReaderReaps, SlotChangedShape
<1>6. CASE Undefined("delete_race")
  BY <1>1, <1>6 DEF Undefined, SameShape
<1>7. CASE ~ReapStep(r)
  <2>3. /\ DOMAIN file_blocks' = DOMAIN file_blocks
        /\ \A i \in DOMAIN file_blocks :
             /\ file_blocks'[i].size = file_blocks[i].size
             /\ file_blocks'[i].data = file_blocks[i].data
             /\ file_blocks'[i].is_last = file_blocks[i].is_last
    <3>1. CASE ReadSeek(r)
      BY <1>0, <3>1 DEF ReadSeek, Undefined, FileBlock
    <3>2. CASE ReadBytes(r)
      <4>1. \/ file_blocks' = file_blocks
            \/ file_blocks' = [file_blocks EXCEPT ![reader[r].num + 1].at = @ + Delivered(r)]
        BY <3>2, Zenon DEF ReadBytes, Undefined
      <4>2. QED  BY <1>0, <4>1 DEF FileBlock
    <3>3. CASE \/ Ask(r) \/ ReadFirst(r) \/ ReadFails(r) \/ ReadNext(r)
               \/ ReadReturn(r) \/ Serve(r)
      <4>1. file_blocks' = file_blocks
        BY <3>3 DEF Ask, ReadFirst, ReadFails, ReadNext, ReadReturn, Serve, Undefined
      <4>2. QED  BY <4>1
    <3>4. QED  BY <1>7, <3>1, <3>2, <3>3 DEF ReadStep, ReapStep
  <2>4. SameShape
    BY <2>3 DEF SameShape, TypeInv, TypeOK
  <2>5. QED  BY <1>1, <2>4
<1>8. QED  BY <1>2, <1>6, <1>7

LEMMA ListReader ==
  ASSUME TypeInv, TypeInv', ListInv, NEW r \in Readers, Ask(r) \/ ReadStep(r)
  PROVE  ListInv'
<1>1. SameShape /\ UNCHANGED <<block_in_progress, complete, write_offset, writer, closer>>
  BY ReaderKeepsShape
<1>2. (Sealed' <=> Sealed) /\ OneClaim'
  BY <1>1 DEF Sealed, MutexFree, ListInv, OneClaim
<1>3. QED  BY <1>1, <1>2, ListInvKept

LEMMA ListInit == Init => ListInv
<1> SUFFICES ASSUME Init PROVE ListInv
  OBVIOUS
<1>1. BlockList /\ OneClaim /\ WildUntilOpen /\ InTheList /\ Counted
  BY DEF Init, BlockList, Sealed, OneClaim, WildUntilOpen, InTheList, Counted
<1>2. Accounting
  BY SplitFileAssumption DEF Init, Accounting, Stored
<1>3. QED  BY <1>1, <1>2 DEF ListInv

LEMMA ListNext ==
  ASSUME TypeInv, ListInv, [Next]_vars
  PROVE  ListInv'
<1> USE DEF vars, fileVars, askVars
<1>1. TypeInv'
  BY TypeNext
<1>2. CASE CleanerStarts
  <2>1. /\ UNCHANGED <<file_blocks, block_in_progress, complete, write_offset, writer>>
        /\ \A c \in Closers : closer'[c].pc = "claimed" <=> closer[c].pc = "claimed"
    BY <1>2 DEF CleanerStarts, TypeInv, TypeOK, CloserState, Closers
  <2>2. (Sealed' <=> Sealed) /\ SameShape /\ OneClaim'
    BY <2>1 DEF Sealed, MutexFree, SameShape, ListInv, OneClaim
  <2>3. QED  BY <1>1, <2>1, <2>2, ListInvKept
<1>3. CASE UNCHANGED vars
  <2>1. (Sealed' <=> Sealed) /\ SameShape /\ OneClaim'
    BY <1>3 DEF Sealed, MutexFree, SameShape, ListInv, OneClaim
  <2>2. QED  BY <1>1, <1>3, <2>1, ListInvKept
<1>4. QED
  BY <1>1, <1>2, <1>3, ListWriter, ListCloser, ListReader, Zenon DEF Next, Quiet

LEMMA ListInvariant == Spec => [](TypeInv /\ ListInv)
<1>1. Init => TypeInv /\ ListInv
  BY TypeInit, ListInit
<1>2. TypeInv /\ ListInv /\ [Next]_vars => TypeInv' /\ ListInv'
  BY TypeNext, ListNext
<1>3. QED  BY <1>1, <1>2, PTL DEF Spec

(* Finding a byte by dividing its position by block_size is right: every   *)
(* published block but the last is full, and the list ends in an is_last   *)
(* block exactly when a call of Close has published it - although two      *)
(* threads may call Close while a third is inside Write.                   *)
THEOREM BlockListAlways == Spec => []BlockList
BY ListInvariant, PTL DEF ListInv

(* write_offset, which Close compares with read_offset to know that        *)
(* everything has been read, counts the bytes on disk.                     *)
THEOREM AccountingAlways == Spec => []Accounting
BY ListInvariant, PTL DEF ListInv

-----------------------------------------------------------------------------
(***************************************************************************)
(* What a single reader gets out of a SplitFile, for every block size,     *)
(* stream and order of the writer's and the closers' steps, proved.        *)
(*                                                                         *)
(* The inductive invariant: while a call of Read looks for bytes, its      *)
(* block number and offset name the position after the bytes it has, and   *)
(* the block's FILE stands at that offset when it is read.  Two readers of *)
(* one block share its FILE, so this is about one reader only; and a block *)
(* of which fclose has lost a part is read as a shorter one, so it is      *)
(* about disks on which fwrite fails but fclose does not.                  *)
(***************************************************************************)
Looking == {"first", "seek", "fread", "next"}

AtNextByte(r) ==
  reader[r].pc \in Looking =>
    reader[r].num * BlockSize + reader[r].boff = reader[r].off + Len(reader[r].buf)

Positioned(r) == reader[r].pc = "fread" => Slot(r).at = reader[r].boff

WholeFiles == \A i \in DOMAIN file_blocks : file_blocks[i].data = file_blocks[i].size

ReadInv ==
  /\ WholeFiles
  /\ ReadRight
  /\ \A r \in Readers : AtNextByte(r) /\ Positioned(r)

(* The list may grow, by a whole block, but no FILE moves. *)
NoSeek ==
  /\ \A i \in DOMAIN file_blocks : i \in DOMAIN file_blocks' /\ file_blocks'[i].at = file_blocks[i].at
  /\ WholeFiles => WholeFiles'

LEMMA AppendSeeksNothing ==
  ASSUME TypeInv, ~FlushMayFail, NEW last \in BOOLEAN, Publish(last)
  PROVE  NoSeek
<1>1. file_blocks \in Seq(FileBlock) /\ TypeOK /\ block_in_progress.size \in Nat
  BY SplitFileAssumption DEF TypeInv, TypeOK, InProgress
<1>4. PICK n \in 0..block_in_progress.size :
        /\ n < block_in_progress.size => FlushMayFail
        /\ file_blocks' = Append(file_blocks, Published(last, n))
  BY Zenon DEF Publish
<1>5. n = block_in_progress.size
  BY <1>1, <1>4
<1> DEFINE b == Published(last, n)
<1>6. b \in FileBlock /\ b.data = b.size
  BY <1>5, SplitFileAssumption DEF Published, FileBlock, InProgress, TypeInv, TypeOK
<1> HIDE DEF b
<1>2. /\ DOMAIN file_blocks' = 1..(Len(file_blocks) + 1)
      /\ file_blocks'[Len(file_blocks) + 1] = b
      /\ \A i \in 1..Len(file_blocks) : file_blocks'[i] = file_blocks[i]
      /\ Len(file_blocks) \in Nat
      /\ DOMAIN file_blocks = 1..Len(file_blocks)
  BY <1>1, <1>4, <1>6, AppendProperties DEF b
<1>3. QED  BY <1>2, <1>6 DEF NoSeek, WholeFiles

LEMMA WriterSeeksNothing ==
  ASSUME TypeInv, ~FlushMayFail, WriterStep \/ CleanerStarts
  PROVE  NoSeek /\ UNCHANGED reader
<1> USE DEF fileVars, askVars
<1>1. CASE BlockFull
  <2>1. CASE block_in_progress.fd # "open"
    BY <1>1, <2>1 DEF BlockFull, Undefined, NoSeek, WholeFiles
  <2>2. CASE block_in_progress.fd = "open"
    BY <1>1, <2>2, AppendSeeksNothing, Zenon DEF BlockFull
  <2>3. QED  BY <2>1, <2>2
<1>2. CASE (WriterStep \/ CleanerStarts) /\ ~BlockFull
  <2>1. UNCHANGED <<file_blocks, reader>>
    BY <1>2 DEF WriterStep, Open, WriteCall, SourceEnds, WriteLoop, FWrite, RollBlock, WriteReturn,
                WriterCloses, WriterEnds, CleanerStarts, Undefined
  <2>2. QED  BY <2>1 DEF NoSeek, WholeFiles
<1>3. QED  BY <1>1, <1>2

LEMMA CloserSeeksNothing ==
  ASSUME TypeInv, ~FlushMayFail, NEW c \in Closers, CloserStep(c)
  PROVE  NoSeek /\ UNCHANGED reader
<1> USE DEF fileVars, askVars
<1>1. CASE ClosePublish(c)
  <2>1. CASE block_in_progress.fd = "wild" \/ block_in_progress.published
    BY <1>1, <2>1 DEF ClosePublish, Undefined, NoSeek, WholeFiles
  <2>2. CASE block_in_progress.fd # "wild" /\ ~block_in_progress.published
    <3>1. Publish(TRUE) /\ UNCHANGED reader
      BY <1>1, <2>2, Zenon DEF ClosePublish, LastFlag
    <3>2. QED  BY <3>1, AppendSeeksNothing
  <2>3. QED  BY <2>1, <2>2
<1>2. CASE CloseTest(c) \/ CloseRemove(c)
  <2>1. CASE Undefined("delete_race")
    BY <2>1 DEF Undefined, NoSeek, WholeFiles
  <2>2. CASE ~Undefined("delete_race")
    <3>1. SlotChanged(closer[c].j + 1) /\ UNCHANGED reader
      BY <1>2, <2>2, CloserScans
    <3>2. QED  BY <3>1 DEF SlotChanged, SameContent, NoSeek, WholeFiles
  <2>3. QED  BY <2>1, <2>2
<1>3. CASE CloseClaim(c) \/ CloseTick(c) \/ CloseWaited(c)
  <2>1. UNCHANGED <<file_blocks, reader>>
    BY <1>3 DEF CloseClaim, CloseTick, CloseWaited
  <2>2. QED  BY <2>1 DEF NoSeek, WholeFiles
<1>4. QED  BY <1>1, <1>2, <1>3 DEF CloserStep

LEMMA ReadInvKept ==
  ASSUME TypeInv, ReadInv, NoSeek, UNCHANGED reader
  PROVE  ReadInv'
<1>1. \A r \in Readers : Positioned(r)'
  <2>1. ASSUME NEW r \in Readers, reader[r].pc = "fread"
        PROVE  Slot(r)'.at = reader[r].boff
    <3>1. reader[r].num + 1 \in DOMAIN file_blocks
      BY <2>1 DEF TypeInv, TypeOK, Found, InList, ReaderState
    <3>2. Slot(r)'.at = Slot(r).at
      BY <3>1 DEF NoSeek, Slot
    <3>3. QED  BY <2>1, <3>2 DEF ReadInv, Positioned
  <2>2. QED  BY <2>1 DEF Positioned
<1>2. QED  BY <1>1 DEF ReadInv, ReadRight, AtNextByte, NoSeek

(* A call of Read that starts has nothing yet and looks at its first byte. *)
LEMMA StartAtFirstByte ==
  ASSUME NEW x \in ReaderState
  PROVE  /\ StartRead(x).num * BlockSize + StartRead(x).boff = x.off
         /\ StartRead(x).buf = <<>>
         /\ StartRead(x).off = x.off
         /\ StartRead(x).pc = "first"
<1>1. x.off \in Nat
  BY DEF ReaderState
<1>2. BlockOf(x.off) * BlockSize + (x.off % BlockSize) = x.off
  BY <1>1, BlockArithmetic
<1>3. /\ StartRead(x).num = BlockOf(x.off) /\ StartRead(x).boff = x.off % BlockSize
      /\ StartRead(x).buf = <<>> /\ StartRead(x).off = x.off /\ StartRead(x).pc = "first"
  BY DEF StartRead, ReaderState
<1>4. QED  BY <1>2, <1>3

(* What one fread adds to the buffer, when its FILE stands at the offset of *)
(* the next byte.                                                           *)
LEMMA ConcatRight ==
  ASSUME NEW off \in Nat, NEW buf \in Seq(Nat), NEW n \in Nat, NEW from \in Nat,
         from = off + Len(buf),
         \A i \in DOMAIN buf : buf[i] = off + i - 1
  PROVE  /\ Len(buf \o Bytes(from, n)) = Len(buf) + n
         /\ \A i \in DOMAIN (buf \o Bytes(from, n)) : (buf \o Bytes(from, n))[i] = off + i - 1
<1> DEFINE b == Bytes(from, n)
<1>1. b \in Seq(Nat) /\ Len(b) = n /\ \A i \in 1..n : b[i] = from + i - 1
  BY BytesType
<1> HIDE DEF b
<1>2. Len(buf) \in Nat /\ DOMAIN buf = 1..Len(buf)
  OBVIOUS
<1>3. /\ Len(buf \o b) = Len(buf) + n
      /\ DOMAIN (buf \o b) = 1..(Len(buf) + n)
      /\ \A i \in 1..(Len(buf) + n) :
           (buf \o b)[i] = IF i <= Len(buf) THEN buf[i] ELSE b[i - Len(buf)]
  <2>1. /\ buf \o b \in Seq(Nat)
        /\ Len(buf \o b) = Len(buf) + Len(b)
        /\ \A i \in 1..(Len(buf) + Len(b)) :
             (buf \o b)[i] = IF i <= Len(buf) THEN buf[i] ELSE b[i - Len(buf)]
    BY <1>1, ConcatProperties
  <2>2. DOMAIN (buf \o b) = 1..Len(buf \o b)
    BY <2>1
  <2>3. QED  BY <1>1, <2>1, <2>2
<1>4. ASSUME NEW i \in 1..(Len(buf) + n)
      PROVE  (buf \o b)[i] = off + i - 1
  <2>0. i \in Nat /\ Len(buf) \in Nat
    BY <1>2
  <2>1. CASE i <= Len(buf)
    <3>1. i \in DOMAIN buf
      BY <1>2, <2>0, <2>1
    <3>2. (buf \o b)[i] = buf[i]
      BY <1>3, <2>1
    <3>3. QED  BY <3>1, <3>2
  <2>2. CASE i > Len(buf)
    <3>1. i - Len(buf) \in 1..n
      BY <1>2, <2>2
    <3>2. b[i - Len(buf)] = from + (i - Len(buf)) - 1
      BY <1>1, <3>1
    <3>3. QED  BY <1>2, <1>3, <2>2, <3>2
  <2>3. i <= Len(buf) \/ i > Len(buf)
    BY <2>0
  <2>4. QED  BY <2>1, <2>2, <2>3, Zenon
<1>5. QED  BY <1>3, <1>4 DEF b

(* The steps of the one reader. *)
LEMMA ReadReader ==
  ASSUME NEW r, Readers = {r}, TypeInv, TypeInv', ListInv, ReadInv, Ask(r) \/ ReadStep(r)
  PROVE  ReadInv'
<1> USE DEF fileVars, askVars
<1>0. /\ r \in Readers
      /\ reader[r] \in ReaderState
      /\ reader[r].off \in Nat /\ reader[r].num \in Nat /\ reader[r].len \in Nat
      /\ reader[r].buf \in Seq(Nat) /\ Len(reader[r].buf) \in Nat
      /\ reader[r].boff \in Nat
      /\ Len(reader[r].buf) <= reader[r].len
      /\ file_blocks \in Seq(FileBlock)
  <2>1. /\ r \in Readers /\ reader[r] \in ReaderState
        /\ Len(reader[r].buf) <= reader[r].len
        /\ file_blocks \in Seq(FileBlock)
    BY DEF TypeInv, TypeOK, Fits
  <2>2. /\ reader[r].off \in Nat /\ reader[r].num \in Nat /\ reader[r].len \in Nat
        /\ reader[r].buf \in Seq(Nat) /\ reader[r].boff \in 0..BlockSize
    BY <2>1 DEF ReaderState
  <2>3. reader[r].boff \in Nat /\ Len(reader[r].buf) \in Nat
    BY <2>2, SplitFileAssumption
  <2>4. QED  BY <2>1, <2>2, <2>3
<1>14. WholeFiles'
  BY ReaderKeepsShape DEF SameShape, ReadInv, WholeFiles
<1>1. SUFFICES /\ \A i \in DOMAIN reader'[r].buf : reader'[r].buf[i] = reader'[r].off + i - 1
               /\ AtNextByte(r)' /\ Positioned(r)'
  BY <1>14 DEF ReadInv, ReadRight
<1>2. /\ \A i \in DOMAIN reader[r].buf : reader[r].buf[i] = reader[r].off + i - 1
      /\ AtNextByte(r) /\ Positioned(r)
  BY DEF ReadInv, ReadRight
<1>3. ASSUME NEW x \in ReaderState, reader' = [reader EXCEPT ![r] = StartRead(x)]
      PROVE  /\ \A i \in DOMAIN reader'[r].buf : reader'[r].buf[i] = reader'[r].off + i - 1
             /\ AtNextByte(r)' /\ Positioned(r)'
  <2>1. reader'[r] = StartRead(x)
    BY <1>0, <1>3 DEF TypeInv, TypeOK
  <2>2. x.off \in Nat
    BY DEF ReaderState
  <2>3. QED  BY <2>1, <2>2, StartAtFirstByte DEF AtNextByte, Positioned
<1>4. ASSUME NEW p, p \notin {"fread"}, p \in Looking => reader[r].pc \in Looking,
             reader' = [reader EXCEPT ![r].pc = p]
      PROVE  /\ \A i \in DOMAIN reader'[r].buf : reader'[r].buf[i] = reader'[r].off + i - 1
             /\ AtNextByte(r)' /\ Positioned(r)'
  <2>1. /\ reader'[r].pc = p /\ reader'[r].buf = reader[r].buf /\ reader'[r].off = reader[r].off
        /\ reader'[r].num = reader[r].num /\ reader'[r].boff = reader[r].boff
    BY <1>0, <1>4 DEF TypeInv, TypeOK, ReaderState
  <2>2. QED  BY <1>2, <1>4, <2>1 DEF AtNextByte, Positioned
<1>5. CASE UNCHANGED <<reader, file_blocks>>
  BY <1>2, <1>5 DEF AtNextByte, Positioned, Slot
<1>6. CASE Ask(r)
  <2>1. PICK off \in 0..(StreamLen - 1), len \in 1..MaxLen :
          reader' = [reader EXCEPT ![r] =
                       StartRead([@ EXCEPT !.off = off, !.len = len, !.body = <<>>,
                                           !.asked = reader[r].asked + 1])]
    BY <1>6 DEF Ask
  <2>2. off \in Nat /\ len \in Nat /\ reader[r].asked + 1 \in 0..MaxRequests
    <3>1. reader[r].asked \in 0..MaxRequests
      BY <1>0 DEF ReaderState
    <3>2. reader[r].asked < MaxRequests
      BY <1>6 DEF Ask
    <3>3. QED  BY <3>1, <3>2, SplitFileAssumption
  <2>3. [reader[r] EXCEPT !.off = off, !.len = len, !.body = <<>>,
                          !.asked = reader[r].asked + 1] \in ReaderState
    BY <1>0, <2>2, RangeUpdate
  <2>4. QED  BY <1>3, <2>1, <2>3
<1>7. CASE Serve(r)
  <2> DEFINE sent == reader[r].body \o reader[r].buf
  <2>1. \/ reader' = [reader EXCEPT ![r] = IdleReader(reader[r].asked)]
        \/ reader' = [reader EXCEPT ![r] = StartRead([reader[r] EXCEPT !.body = sent])]
    BY <1>7 DEF Serve
  <2>2. [reader[r] EXCEPT !.body = sent] \in ReaderState
    <3>1. sent \in Seq(Nat)
      BY <1>0 DEF ReaderState
    <3> HIDE DEF sent
    <3>2. QED  BY <1>0, <3>1 DEF ReaderState
  <2>3. CASE reader' = [reader EXCEPT ![r] = IdleReader(reader[r].asked)]
    <3>1. reader'[r].pc = "idle" /\ reader'[r].buf = <<>>
      BY <1>0, <2>3 DEF TypeInv, TypeOK, IdleReader
    <3>2. QED  BY <3>1 DEF AtNextByte, Positioned, Looking
  <2>4. QED  BY <1>3, <2>1, <2>2, <2>3
<1>8. CASE ReadFirst(r) \/ ReadNext(r)
  <2>1. CASE UNCHANGED <<reader, file_blocks>>
    BY <1>5, <2>1
  <2>2. CASE \E p \in {"seek", "ret", "reap"} : reader' = [reader EXCEPT ![r].pc = p]
    BY <1>4, <1>8, <2>2 DEF ReadFirst, ReadNext, Looking
  <2>3. QED  BY <1>8, <2>1, <2>2 DEF ReadFirst, ReadNext, Undefined
<1>9. CASE ReadFails(r)
  BY <1>5, <1>9 DEF ReadFails, Undefined
<1>10. CASE ReapStep(r) \/ ReadReturn(r)
  <2>1. CASE Undefined("delete_race")
    BY <1>5, <2>1 DEF Undefined
  <2>2. CASE ReapStep(r) /\ ~Undefined("delete_race")
    <3>1. PICK p \in {"reap"} \cup Deleting, n \in Nat :
            reader' = [reader EXCEPT ![r] = [reader[r] EXCEPT !.pc = p, !.j = n]]
      BY <1>0, <2>2, ReaderReaps
    <3>2. reader'[r].pc = p /\ reader'[r].buf = reader[r].buf /\ reader'[r].off = reader[r].off
      BY <1>0, <3>1 DEF TypeInv, TypeOK, ReaderState
    <3>3. p \notin Looking
      BY DEF Looking, Deleting
    <3>4. QED  BY <1>2, <3>2, <3>3 DEF AtNextByte, Positioned, Looking
  <2>3. CASE ReadReturn(r)
    <3>1. reader' = [reader EXCEPT ![r].pc = "ret"]
      BY <2>3 DEF ReadReturn
    <3>2. "ret" \notin Looking \cup {"fread"}
      BY DEF Looking
    <3>3. QED  BY <1>4, <3>1, <3>2, Zenon
  <2>4. QED  BY <1>10, <2>1, <2>2, <2>3
<1>11. CASE ReadSeek(r)
  <2>1. CASE UNCHANGED <<reader, file_blocks>>
    BY <1>5, <2>1
  <2>2. CASE /\ file_blocks' = [file_blocks EXCEPT ![reader[r].num + 1].fd = "open",
                                                ![reader[r].num + 1].at = reader[r].boff]
             /\ reader' = [reader EXCEPT ![r].pc = "fread"]
    <3>1. /\ reader'[r].pc = "fread" /\ reader'[r].buf = reader[r].buf
          /\ reader'[r].off = reader[r].off
          /\ reader'[r].num = reader[r].num /\ reader'[r].boff = reader[r].boff
      BY <1>0, <2>2 DEF TypeInv, TypeOK, ReaderState
    <3>2. reader[r].num + 1 \in DOMAIN file_blocks /\ reader[r].pc = "seek"
      BY <1>0, <1>11 DEF TypeInv, Found, InList, ReadSeek
    <3>3. Slot(r)'.at = reader[r].boff
      <4>1. Slot(r) \in FileBlock
        BY <1>0, <3>2 DEF Slot
      <4>2. file_blocks' = [file_blocks EXCEPT ![reader[r].num + 1] =
                             [Slot(r) EXCEPT !.fd = "open", !.at = reader[r].boff]]
        BY <1>0, <2>2, <3>2 DEF Slot
      <4>3. Slot(r)' = [Slot(r) EXCEPT !.fd = "open", !.at = reader[r].boff]
        BY <1>0, <3>1, <3>2, <4>2 DEF Slot
      <4>4. QED  BY <4>1, <4>3 DEF FileBlock
    <3>4. QED  BY <1>2, <3>1, <3>2, <3>3 DEF AtNextByte, Positioned, Looking
  <2>3. QED  BY <1>11, <2>1, <2>2 DEF ReadSeek, Undefined
<1>12. CASE ReadBytes(r)
  <2>1. CASE UNCHANGED <<reader, file_blocks>>
    BY <1>5, <2>1
  <2>2. CASE reader' = [reader EXCEPT
               ![r].buf = @ \o Bytes(From(r), Delivered(r)),
               ![r].pc = IF Served(r) THEN "reap" ELSE "next",
               ![r].num = IF Served(r) THEN @ ELSE @ + 1,
               ![r].boff = IF Served(r) THEN @ ELSE NextOffset(r)]
    <3>1. reader[r].num + 1 \in DOMAIN file_blocks /\ reader[r].pc = "fread"
      BY <1>0, <1>12 DEF TypeInv, Found, InList, ReadBytes
    <3>2. Slot(r) \in FileBlock /\ Slot(r).at = reader[r].boff /\ Slot(r).at \in 0..BlockSize
          /\ Slot(r).size \in 0..BlockSize /\ Slot(r).data = Slot(r).size
      <4>1. Slot(r) \in FileBlock
        BY <1>0, <3>1 DEF Slot
      <4>2. Slot(r).at = reader[r].boff
        BY <1>2, <3>1 DEF Positioned
      <4>3. Slot(r).data = Slot(r).size
        BY <3>1 DEF ReadInv, WholeFiles, Slot
      <4>4. QED  BY <4>1, <4>2, <4>3 DEF FileBlock
    <3>3. Delivered(r) \in Nat
      BY <1>0, <3>2, DeliveredFits
    <3>4. reader[r].num * BlockSize \in Nat
      BY <1>0, SplitFileAssumption
    <3>5. From(r) \in Nat /\ From(r) = reader[r].off + Len(reader[r].buf)
      BY <1>0, <1>2, <3>1, <3>2, <3>4 DEF From, AtNextByte, Looking
    <3> DEFINE out == reader[r].buf \o Bytes(From(r), Delivered(r))
    <3>6. /\ Len(out) = Len(reader[r].buf) + Delivered(r)
          /\ \A i \in DOMAIN out : out[i] = reader[r].off + i - 1
      <4>1. \A i \in DOMAIN reader[r].buf : reader[r].buf[i] = reader[r].off + i - 1
        BY <1>2
      <4>2. /\ reader[r].off \in Nat /\ reader[r].buf \in Seq(Nat) /\ Delivered(r) \in Nat
            /\ From(r) \in Nat /\ From(r) = reader[r].off + Len(reader[r].buf)
        BY <1>0, <3>3, <3>5
      <4>3. QED  BY <4>1, <4>2, ConcatRight, Zenon
    <3>7. /\ reader'[r].pc = IF Served(r) THEN "reap" ELSE "next"
          /\ reader'[r].buf = out
          /\ reader'[r].off = reader[r].off
          /\ reader'[r].num = IF Served(r) THEN reader[r].num ELSE reader[r].num + 1
          /\ reader'[r].boff = IF Served(r) THEN reader[r].boff ELSE 0
      BY <1>0, <2>2 DEF TypeInv, TypeOK, ReaderState, NextOffset
    <3> HIDE DEF out
    <3>8. Positioned(r)'
      BY <3>7 DEF Positioned
    <3>9. CASE Served(r)
      BY <3>6, <3>7, <3>8, <3>9 DEF AtNextByte, Looking
    <3>10. CASE ~Served(r)
      <4>1. Slot(r).size = BlockSize
        BY <1>0, <3>1, <3>10 DEF Served, Slot, ListInv, BlockList
      <4>2. Remaining(r) \in Nat
        BY <1>0 DEF Remaining
      <4>3. Delivered(r) = BlockSize - Slot(r).at
        BY <3>2, <3>10, <4>1, <4>2, SplitFileAssumption DEF Served, Delivered, MinOf, MaxOf
      <4>4. (reader[r].num + 1) * BlockSize = reader[r].num * BlockSize + BlockSize
        BY <1>0, SplitFileAssumption
      <4>5. (reader[r].num + 1) * BlockSize + 0 = reader[r].off + (Len(reader[r].buf) + Delivered(r))
        <5> DEFINE k == reader[r].num * BlockSize
                   at == Slot(r).at
                   got == reader[r].off + Len(reader[r].buf)
        <5>1. /\ k \in Nat /\ at \in Nat /\ BlockSize \in Nat
              /\ got \in Nat /\ k + at = got
              /\ (reader[r].num + 1) * BlockSize = k + BlockSize
              /\ Delivered(r) = BlockSize - at
          BY <1>0, <3>2, <3>4, <3>5, <4>3, <4>4, SplitFileAssumption DEF From
        <5> HIDE DEF k, at, got
        <5>2. k + BlockSize + 0 = got + (BlockSize - at)
          BY <5>1
        <5> USE DEF got
        <5>3. got + Delivered(r) = reader[r].off + (Len(reader[r].buf) + Delivered(r))
          BY <1>0, <3>3
        <5>4. QED  BY <5>1, <5>2, <5>3
      <4>6. QED  BY <3>6, <3>7, <3>8, <3>10, <4>5 DEF AtNextByte
    <3>11. QED  BY <3>9, <3>10
  <2>3. QED  BY <1>12, <2>1, <2>2 DEF ReadBytes, Undefined
<1>13. QED
  BY <1>6, <1>7, <1>8, <1>9, <1>10, <1>11, <1>12 DEF ReadStep, ReapStep

LEMMA ReadInit == Init => ReadInv
BY DEF Init, ReadInv, WholeFiles, ReadRight, AtNextByte, Positioned, Looking, IdleReader

LEMMA ReadInvNext ==
  ASSUME NEW r, Readers = {r}, ~FlushMayFail, TypeInv, ListInv, ReadInv, [Next]_vars
  PROVE  ReadInv'
<1>1. TypeInv'
  BY TypeNext
<1>2. CASE UNCHANGED vars
  BY <1>2, ReadInvKept DEF NoSeek, WholeFiles, vars, fileVars
<1>3. CASE Next /\ ~UNCHANGED vars
  BY <1>1, <1>3, WriterSeeksNothing, CloserSeeksNothing, ReadInvKept, ReadReader, Zenon DEF Next, Quiet
<1>4. QED  BY <1>2, <1>3

(* One reader, front to back or not: every byte Read delivers is the byte  *)
(* of the stream that was asked for, across block boundaries and while the *)
(* file grows, is closed and loses its names, and although writes may be   *)
(* short - but not if fclose loses bytes that fwrite had accepted.         *)
THEOREM ReadRightAlways ==
  ASSUME NEW r, Readers = {r}, ~FlushMayFail
  PROVE  Spec => []ReadRight
<1>1. Init => TypeInv /\ ListInv /\ ReadInv
  BY TypeInit, ListInit, ReadInit
<1>2. TypeInv /\ ListInv /\ ReadInv /\ [Next]_vars => TypeInv' /\ ListInv' /\ ReadInv'
  BY TypeNext, ListNext, ReadInvNext
<1>3. TypeInv /\ ListInv /\ ReadInv => ReadRight
  BY DEF ReadInv
<1>4. QED  BY <1>1, <1>2, <1>3, PTL DEF Spec

-----------------------------------------------------------------------------
(***************************************************************************)
(* Bytes of the source are stored at their own position, unless an         *)
(* operation fails for a writer that does not check the length written.    *)
(* While Write has bytes left, those stored and those left are all the     *)
(* bytes taken; between two calls none are left, or the file is closed.    *)
(***************************************************************************)
HoleInv ==
  /\ writer.pc \in {"loop", "fwrite", "full", "roll"} =>
       write_offset + writer.put + writer.left = writer.taken
  /\ writer.pc \in {"start", "idle"} => complete \/ (writer.left = 0 /\ write_offset = writer.taken)
  /\ writer.pc = "short" => writer.left > 0 /\ faults > 0

(* What the counters of the writer are after the steps that change only    *)
(* where it is.                                                            *)
LEMMA WriterMoves ==
  ASSUME TypeInv, NEW p, writer' = [writer EXCEPT !.pc = p]
  PROVE  /\ writer'.pc = p
         /\ writer'.put = writer.put /\ writer'.left = writer.left /\ writer'.taken = writer.taken
BY DEF TypeInv, TypeOK, WriterState

(* fwrite is the only step that stores bytes, and it stores the next ones. *)
LEMMA HoleWrite ==
  ASSUME TypeInv, ListInv, ListInv', HoleInv, FWrite
  PROVE  HoleInv' /\ (Stored' > Stored => writer.taken - writer.left = Stored)
<1>1. /\ writer.put \in Nat /\ writer.left \in Nat /\ writer.taken \in Nat /\ write_offset \in Nat
      /\ writer \in WriterState /\ block_in_progress.size \in 0..BlockSize /\ faults \in Nat
  BY SplitFileAssumption DEF TypeInv, TypeOK, WriterState, InProgress
<1>2. /\ Stored = write_offset + writer.put /\ Stored' = write_offset' + writer'.put
      /\ writer.pc = "fwrite" /\ write_offset + writer.put + writer.left = writer.taken
  BY DEF ListInv, Accounting, FWrite, HoleInv
<1>3. writer.taken - writer.left = Stored
  BY <1>1, <1>2
<1>4. CASE block_in_progress.fd # "open"
  <2>1. UNCHANGED <<writer, write_offset, complete, faults>>
    BY <1>4 DEF FWrite, Undefined, fileVars
  <2>2. QED  BY <1>3, <2>1 DEF HoleInv
<1>5. CASE block_in_progress.fd = "open"
  <2> DEFINE want == MinOf(writer.left, BlockSize - block_in_progress.size)
  <2>1. PICK n \in 0..want :
          /\ n < want => faults < DiskFaults
          /\ faults' = IF n < want THEN faults + 1 ELSE faults
          /\ writer' = [writer EXCEPT
                     !.left = @ - n, !.put = @ + n,
                     !.pc = IF n < want THEN "short"
                            ELSE IF block_in_progress.size + n = BlockSize THEN "full"
                            ELSE "loop"]
          /\ UNCHANGED <<complete, write_offset>>
    BY <1>5 DEF FWrite
  <2>2. n \in Nat /\ n <= writer.left /\ (n < want => n < writer.left)
    BY <1>1, SplitFileAssumption DEF MinOf
  <2> HIDE DEF want
  <2>3. /\ writer'.put = writer.put + n /\ writer'.left = writer.left - n
        /\ writer'.taken = writer.taken
        /\ writer'.pc \in {"short", "full", "loop"} /\ (writer'.pc = "short" => n < want)
    BY <1>1, <2>1 DEF WriterState
  <2>4. write_offset' + writer'.put + writer'.left = writer'.taken
    BY <1>1, <1>2, <2>1, <2>2, <2>3
  <2>5. writer'.pc = "short" => writer'.left > 0 /\ faults' > 0
    BY <1>1, <2>1, <2>2, <2>3
  <2>6. QED  BY <1>3, <2>3, <2>4, <2>5 DEF HoleInv
<1>6. QED  BY <1>4, <1>5

LEMMA HoleNext ==
  ASSUME WriterChecksLength \/ DiskFaults = 0,
         TypeInv, ListInv, ListInv', HoleInv, [Next]_vars
  PROVE  HoleInv' /\ (Stored' > Stored => writer.taken - writer.left = Stored)
<1>0. /\ writer.put \in Nat /\ writer.left \in Nat /\ writer.taken \in Nat /\ write_offset \in Nat
      /\ writer \in WriterState /\ faults \in 0..DiskFaults
      /\ Stored = write_offset + writer.put /\ Stored' = write_offset' + writer'.put
  BY DEF TypeInv, TypeOK, WriterState, ListInv, Accounting
<1>1. ASSUME UNCHANGED <<writer, write_offset>>, complete => complete', faults' \in {faults, faults + 1}
      PROVE  HoleInv' /\ ~(Stored' > Stored)
  BY <1>0, <1>1 DEF HoleInv
<1>2. CASE FWrite
  BY <1>2, HoleWrite
<1>3. CASE BlockFull
  <2>1. CASE UNCHANGED <<writer, write_offset, complete, faults>>
    BY <1>0, <1>1, <2>1
  <2>2. CASE writer' = [writer EXCEPT !.pc = "roll"]
    <3>1. writer.pc = "full" /\ UNCHANGED <<write_offset, complete>>
      BY <1>3 DEF BlockFull, Undefined, fileVars
    <3>2. QED  BY <1>0, <2>2, <3>1, WriterMoves DEF HoleInv
  <2>3. QED  BY <1>3, <2>1, <2>2 DEF BlockFull, Undefined, fileVars
<1>4. CASE Open \/ SourceEnds \/ WriteLoop \/ RollBlock \/ WriterEnds
  <2>1. PICK p :
          /\ writer' = [writer EXCEPT !.pc = p]
          /\ \/ writer.pc = "start" /\ p = "idle"
             \/ p \in {"close", "done"}
             \/ writer.pc \in {"loop", "roll"} /\ p \in {"loop", "fwrite"}
          /\ UNCHANGED <<write_offset, complete>>
    BY <1>4 DEF Open, SourceEnds, WriteLoop, RollBlock, WriterEnds, fileVars
  <2>2. /\ writer'.pc = p /\ writer'.put = writer.put
        /\ writer'.left = writer.left /\ writer'.taken = writer.taken
    BY <2>1, WriterMoves
  <2>3. QED  BY <1>0, <2>1, <2>2 DEF HoleInv
<1>5. CASE WriteCall
  <2>1. PICK n \in 1..MinOf(MaxChunk, StreamLen - writer.taken) :
          /\ writer' = IF complete
                 THEN [writer EXCEPT !.pc = "close", !.taken = @ + n]
                 ELSE [writer EXCEPT !.pc = "loop", !.left = n, !.put = 0, !.taken = @ + n]
          /\ UNCHANGED <<complete, write_offset>>
          /\ writer.pc = "idle"
    BY <1>5 DEF WriteCall, fileVars
  <2>2. n \in Nat /\ writer.put = 0
    BY <1>0, <2>1, SplitFileAssumption DEF MinOf, ListInv, Counted
  <2>3. CASE complete
    <3>1. writer'.pc = "close" /\ writer'.put = writer.put
      BY <1>0, <2>1, <2>3 DEF WriterState
    <3>2. QED  BY <1>0, <2>1, <3>1 DEF HoleInv
  <2>4. CASE ~complete
    <3>1. /\ writer'.pc = "loop" /\ writer'.put = 0 /\ writer'.left = n
          /\ writer'.taken = writer.taken + n
      BY <1>0, <2>1, <2>4 DEF WriterState
    <3>2. write_offset = writer.taken
      BY <2>1, <2>4 DEF HoleInv
    <3>3. write_offset' + writer'.put + writer'.left = writer'.taken
      BY <1>0, <2>1, <2>2, <3>1, <3>2
    <3>4. HoleInv'
      BY <3>1, <3>3 DEF HoleInv
    <3>5. QED  BY <1>0, <2>1, <2>2, <3>1, <3>4
  <2>5. QED  BY <2>3, <2>4
<1>6. CASE WriteReturn
  <2>1. /\ UNCHANGED complete
        /\ write_offset' = write_offset + writer.put
        /\ writer'.pc = AfterWrite(writer.left > 0)
        /\ writer'.put = 0 /\ writer'.left = 0 /\ writer'.taken = writer.taken
        /\ writer.pc = "short" \/ (writer.pc = "loop" /\ (writer.left = 0 \/ complete))
    BY <1>0, <1>6 DEF WriteReturn, CountWritten, WriterState
  <2>2. ~(Stored' > Stored)
    BY <1>0, <2>1
  <2>3. writer'.pc \in {"idle", "close"}
    BY <2>1 DEF AfterWrite
  <2>4. CASE writer.pc = "short"
    <3>1. WriterChecksLength /\ writer.left > 0
      BY <1>0, <2>4 DEF HoleInv
    <3>2. writer'.pc = "close"
      BY <2>1, <3>1 DEF AfterWrite
    <3>3. QED  BY <2>2, <3>2 DEF HoleInv
  <2>5. CASE complete
    BY <2>1, <2>2, <2>3, <2>5 DEF HoleInv
  <2>6. CASE writer.pc = "loop" /\ writer.left = 0
    <3>1. write_offset' = writer'.taken
      BY <1>0, <2>1, <2>6 DEF HoleInv
    <3>2. QED  BY <2>1, <2>2, <2>3, <3>1 DEF HoleInv
  <2>7. QED  BY <2>1, <2>4, <2>5, <2>6
<1>7. CASE WriterCloses \/ CleanerStarts \/ UNCHANGED vars
  <2>1. UNCHANGED <<writer, write_offset, complete, faults>>
    BY <1>7 DEF WriterCloses, CleanerStarts, vars, fileVars
  <2>2. QED  BY <1>0, <1>1, <2>1
<1>8. ASSUME NEW c \in Closers, CloserStep(c)
      PROVE  HoleInv' /\ ~(Stored' > Stored)
  <2>1. UNCHANGED <<writer, write_offset>> /\ (complete => complete')
    BY <1>8, Zenon DEF CloserStep, CloseClaim, ClosePublish, CloseTick, CloseWaited, CloseTest,
       CloseRemove, Undefined, fileVars
  <2>2. faults' = faults \/ faults' = faults + 1
    BY <1>8, Zenon DEF CloserStep, CloseClaim, ClosePublish, CloseTick, CloseWaited, CloseTest,
       CloseRemove, Publish, Undefined, fileVars
  <2>3. QED  BY <1>0, <1>1, <2>1, <2>2
<1>9. ASSUME NEW r \in Readers, Ask(r) \/ ReadStep(r)
      PROVE  HoleInv' /\ ~(Stored' > Stored)
  <2>1. UNCHANGED <<writer, write_offset, complete, faults>>
    BY <1>9, Zenon DEF Ask, ReadStep, ReadFirst, ReadSeek, ReadBytes, ReadFails, ReadNext,
       ReadReap, ReapClose, ReapMark, ReapDelete, ReapReset, ReadReturn, Serve, Undefined, fileVars
  <2>2. QED  BY <1>0, <1>1, <2>1
<1>10. CASE WriterStep
  BY <1>2, <1>3, <1>4, <1>5, <1>6, <1>7, <1>10 DEF WriterStep
<1>11. QED
  BY <1>7, <1>8, <1>9, <1>10, Zenon DEF Next, Quiet

(* A writer that checks the length written, as ExtractArchivePkg does, or  *)
(* a disk that does not fail: every byte is stored at its own position,    *)
(* with any number of readers and a clean-up that closes the file at any   *)
(* moment.  Without the check it is false: see the run split_short_write.  *)
THEOREM NoHoleAlways ==
  ASSUME WriterChecksLength \/ DiskFaults = 0
  PROVE  Spec => NoHole
<1>1. Init => TypeInv /\ ListInv /\ HoleInv
  <2>1. Init => HoleInv
    BY SplitFileAssumption DEF Init, HoleInv
  <2>2. QED  BY <2>1, TypeInit, ListInit
<1>2. TypeInv /\ ListInv /\ HoleInv /\ [Next]_vars
        => /\ TypeInv' /\ ListInv' /\ HoleInv'
           /\ [Stored' > Stored => writer.taken - writer.left = Stored]_vars
  BY TypeNext, ListNext, HoleNext
<1>3. QED  BY <1>1, <1>2, PTL DEF Spec, NoHole
=============================================================================
