------------------------------ MODULE SplitFile ------------------------------
(***************************************************************************)
(* class SplitFile: a package that is still being downloaded or unpacked,  *)
(* kept on disk as a list of block files.  One thread (ExtractArchivePkg   *)
(* or DownloadSplitPkg) writes it, the HTTP server's threads read ranges   *)
(* of it for the console's installer, blocks far behind a read are         *)
(* deleted, and the writer or a clean-up thread closes it.                 *)
(*                                                                         *)
(* Nothing but the first half of Close takes the mutex, so every step      *)
(* below that touches shared state is a step of its own.  A byte is named  *)
(* by its position in the stored stream; block number n holds positions    *)
(* n * BlockSize and up.  Where the program would use a closed FILE or     *)
(* freed memory the variable "ub" records it and the model stops.  Each    *)
(* access to the vector file_blocks is atomic here: that push_back may     *)
(* move its elements while another thread indexes it is not modelled.      *)
(***************************************************************************)
EXTENDS Integers, Sequences, FiniteSets

CONSTANTS
  Readers,            (* HTTP server threads (and the header read of the installer)  *)
  BlockSize,          (* block_size                                                  *)
  StreamLen,          (* bytes the source of the package has                         *)
  MaxChunk,           (* bound: largest buffer handed to Write                       *)
  KeepBlocks,         (* the literal 13 of Read: blocks kept behind a read           *)
  Retries,            (* the literal 10 of Close                                     *)
  WriterChecksLength, (* TRUE for ExtractArchivePkg (Write != len), FALSE for the    *)
                      (* remote clients' Get (Write < 0)                             *)
  Cleaner,            (* does CleanArchivePkgDataThread run beside the writer?       *)
  Sequential,         (* bound on the installer: each range starts where the last one ended *)
  Lag,                (* bound on the installer: no range starts more than Lag       *)
                      (* blocks behind another                                       *)
  MaxLen,             (* bound: longest range asked for                              *)
  MaxRequests,        (* bound: ranges asked for by one thread                       *)
  MaxStalls,          (* bound: seconds without a finished read that Close's wait    *)
                      (* sees while the installer still has ranges to ask for        *)
  DiskFaults,         (* bound: failing file or source operations                    *)
  FlushMayFail,       (* may fflush and fclose lose bytes that fwrite had accepted?  *)
  GarbageReadOffsets  (* values read_offset may hold: the constructor leaves it unset *)

ASSUME SplitFileAssumption ==
  /\ BlockSize \in Nat \ {0}
  /\ StreamLen \in Nat \ {0}
  /\ MaxChunk \in Nat \ {0}
  /\ KeepBlocks \in Nat
  /\ Retries \in Nat
  /\ WriterChecksLength \in BOOLEAN
  /\ Cleaner \in BOOLEAN
  /\ Sequential \in BOOLEAN
  /\ Lag \in Nat
  /\ MaxLen \in Nat \ {0}
  /\ MaxRequests \in Nat
  /\ MaxStalls \in Nat
  /\ DiskFaults \in Nat
  /\ FlushMayFail \in BOOLEAN
  /\ GarbageReadOffsets \subseteq Nat

VARIABLES
  file_blocks,        (* the vector of published blocks; slot n+1 is block number n  *)
  block_in_progress,  (* the block the writer fills                                  *)
  complete, write_offset, read_offset,
  writer,             (* the thread that calls Open, Write and Close                 *)
  closer,             (* per caller of Close: how far the call is                    *)
  stop_write_thread,  (* ArchivePkgInstallData::stop_write_thread                    *)
  reader,             (* per reader: its request and the Read call that serves it    *)
  cursor, front,      (* end of the furthest range, first block of the furthest      *)
                      (* range asked for so far                                      *)
  faults,             (* failing operations so far                                   *)
  ub                  (* the undefined behaviour the program ran into, or "none"     *)

fileVars == <<file_blocks, block_in_progress, complete, write_offset, read_offset>>
askVars == <<cursor, front>>
vars == <<fileVars, writer, closer, stop_write_thread, reader, askVars, faults, ub>>

Closers == {"writer", "cleaner"}

MinOf(a, b) == IF a < b THEN a ELSE b
MaxOf(a, b) == IF a < b THEN b ELSE a

BlockOf(pos) == pos \div BlockSize

(* The bytes fread delivers: n bytes from position "from" on. *)
Bytes(from, n) == [i \in 1..n |-> from + i - 1]

(***************************************************************************)
(* A published block.  "data" is what of its "size" bytes has reached the  *)
(* file; "fd" is the one FILE all readers share, closed before the pointer *)
(* to it is cleared, and "at" its position; "on_disk" tells whether the    *)
(* block file still has its name.  Status FREED stands for a slot that     *)
(* points to a deleted object, NULL for one that has been cleared.         *)
(***************************************************************************)
FileBlock == [size : 0..BlockSize, data : 0..BlockSize, is_last : BOOLEAN,
              status : {"CREATED", "DELETED", "FREED", "NULL"},
              fd : {"null", "open", "closed"}, at : 0..BlockSize, on_disk : BOOLEAN]

(* "published" tells that the object is in file_blocks too. *)
InProgress == [size : 0..BlockSize, fd : {"wild", "null", "open"}, published : BOOLEAN]

WriterState == [pc : {"start", "idle", "loop", "fwrite", "full", "roll", "short", "close", "done"},
                left : Nat,      (* remaining_to_write  *)
                put : Nat,       (* total_bytes_written *)
                taken : Nat]     (* bytes taken from the source so far *)

CloserState == [pc : {"idle", "enter", "claimed", "wait", "remove", "unlink", "done"},
                retries : 0..Retries, prev : Nat,
                j : Nat]           (* the block its last loop is at *)

(* Where Read is in its deletion loop, past the test of a block. *)
Deleting == {"close", "mark", "delete", "reset"}

ReaderState == [pc : {"idle", "first", "seek", "fread", "next", "reap", "ret"} \cup Deleting,
                off : Nat, len : Nat, num : Nat, boff : 0..BlockSize,
                buf : Seq(Nat),    (* what this call of Read has put into the buffer *)
                j : Nat,           (* the block its deletion loop is at *)
                body : Seq(Nat),   (* what was written to the HTTP response *)
                asked : 0..MaxRequests]

TypeOK ==
  /\ file_blocks \in Seq(FileBlock)
  /\ block_in_progress \in InProgress
  /\ complete \in BOOLEAN
  /\ write_offset \in Nat
  /\ read_offset \in Nat
  /\ writer \in WriterState
  /\ closer \in [Closers -> CloserState]
  /\ stop_write_thread \in BOOLEAN
  /\ reader \in [Readers -> ReaderState]
  /\ cursor \in Nat
  /\ front \in Nat
  /\ faults \in 0..DiskFaults
  /\ ub \in {"none", "bad_file", "freed_block", "delete_race", "wild_block", "double_push",
             "wild_size"}

(* A thread without a request, after n of them. *)
IdleReader(n) == [pc |-> "idle", off |-> 0, len |-> 0, num |-> 0, boff |-> 0,
                  buf |-> <<>>, j |-> 0, body |-> <<>>, asked |-> n]

Init ==
  /\ file_blocks = <<>>
  /\ block_in_progress = [size |-> 0, fd |-> "wild", published |-> FALSE]
  /\ complete = FALSE
  /\ write_offset = 0
  /\ read_offset \in GarbageReadOffsets
  /\ writer = [pc |-> "start", left |-> 0, put |-> 0, taken |-> 0]
  /\ closer = [c \in Closers |-> [pc |-> "idle", retries |-> Retries, prev |-> 0,
                              j |-> 0]]
  /\ stop_write_thread = FALSE
  /\ reader = [r \in Readers |-> IdleReader(0)]
  /\ cursor = 0
  /\ front = 0
  /\ faults = 0
  /\ ub = "none"

(* The program runs into undefined behaviour: nothing after it is modelled. *)
Undefined(what) ==
  /\ ub' = what
  /\ UNCHANGED <<fileVars, writer, closer, stop_write_thread, reader, askVars, faults>>

-----------------------------------------------------------------------------
(***************************************************************************)
(* The writer.                                                             *)
(***************************************************************************)

(* NewBlock: the file of the next block number, opened for writing.  fopen *)
(* may fail; nobody looks at fd before writing to it.                      *)
NewBlock ==
  \/ /\ block_in_progress' = [size |-> 0, fd |-> "open", published |-> FALSE]
     /\ UNCHANGED faults
  \/ /\ faults < DiskFaults
     /\ faults' = faults + 1
     /\ block_in_progress' = [size |-> 0, fd |-> "null", published |-> FALSE]

(* Both writer threads ignore the result of Open. *)
Open ==
  /\ writer.pc = "start"
  /\ NewBlock
  /\ writer' = [writer EXCEPT !.pc = "idle"]
  /\ UNCHANGED <<file_blocks, complete, write_offset, read_offset, closer,
                 stop_write_thread, reader, askVars, ub>>

(* A buffer of n bytes arrives from the archive or the server and Write is *)
(* called with it; it returns -1 at once when the file is closed, and the  *)
(* writer then leaves its loop.                                            *)
WriteCall ==
  /\ writer.pc = "idle"
  /\ ~stop_write_thread
  /\ writer.taken < StreamLen
  /\ \E n \in 1..MinOf(MaxChunk, StreamLen - writer.taken) :
       writer' = IF complete
                 THEN [writer EXCEPT !.pc = "close", !.taken = @ + n]
                 ELSE [writer EXCEPT !.pc = "loop", !.left = n, !.put = 0, !.taken = @ + n]
  /\ UNCHANGED <<fileVars, closer, stop_write_thread, reader, askVars, faults, ub>>

(* The source is at its end or failed, or the writer was told to stop. *)
SourceEnds ==
  /\ writer.pc = "idle"
  /\ \/ /\ writer.taken = StreamLen \/ stop_write_thread
        /\ UNCHANGED faults
     \/ /\ faults < DiskFaults
        /\ faults' = faults + 1
  /\ writer' = [writer EXCEPT !.pc = "close"]
  /\ UNCHANGED <<fileVars, closer, stop_write_thread, reader, askVars, ub>>

(* The loop test of Write. *)
WriteLoop ==
  /\ writer.pc = "loop"
  /\ writer.left > 0
  /\ ~complete
  /\ writer' = [writer EXCEPT !.pc = "fwrite"]
  /\ UNCHANGED <<fileVars, closer, stop_write_thread, reader, askVars, faults, ub>>

(* fwrite of what fits into the block; fewer bytes when the disk fails. *)
FWrite ==
  /\ writer.pc = "fwrite"
  /\ IF block_in_progress.fd # "open"
     THEN Undefined("bad_file")
     ELSE LET want == MinOf(writer.left, BlockSize - block_in_progress.size)
          IN  \E n \in 0..want :
                /\ n < want => faults < DiskFaults
                /\ faults' = IF n < want THEN faults + 1 ELSE faults
                /\ block_in_progress' = [block_in_progress EXCEPT !.size = @ + n]
                /\ writer' = [writer EXCEPT
                     !.left = @ - n, !.put = @ + n,
                     !.pc = IF n < want THEN "short"
                            ELSE IF block_in_progress.size + n = BlockSize THEN "full"
                            ELSE "loop"]
                /\ UNCHANGED <<file_blocks, complete, write_offset, read_offset, closer,
                               stop_write_thread, reader, askVars, ub>>

(* A block as it is appended to file_blocks, n of its bytes in the file. *)
Published(last, n) ==
  [size |-> block_in_progress.size, data |-> n, is_last |-> last, status |-> "CREATED",
   fd |-> "null", at |-> 0, on_disk |-> TRUE]

(* fflush and fclose of the block in progress, and push_back: all of its   *)
(* bytes reach the file, or fewer, which nobody notices.                   *)
Publish(last) ==
  \E n \in 0..block_in_progress.size :
    /\ n < block_in_progress.size => FlushMayFail /\ faults < DiskFaults
    /\ faults' = IF n < block_in_progress.size THEN faults + 1 ELSE faults
    /\ file_blocks' = Append(file_blocks, Published(last, n))
    /\ block_in_progress' = [block_in_progress EXCEPT !.fd = "null", !.published = TRUE]

(* The block is full: its file is closed and it becomes readable. *)
BlockFull ==
  /\ writer.pc = "full"
  /\ IF block_in_progress.fd # "open"
     THEN Undefined("bad_file")
     ELSE /\ Publish(FALSE)
          /\ writer' = [writer EXCEPT !.pc = "roll"]
          /\ UNCHANGED <<complete, write_offset, read_offset, closer, stop_write_thread,
                         reader, askVars, ub>>

RollBlock ==
  /\ writer.pc = "roll"
  /\ NewBlock
  /\ writer' = [writer EXCEPT !.pc = "loop"]
  /\ UNCHANGED <<file_blocks, complete, write_offset, read_offset, closer,
                 stop_write_thread, reader, askVars, ub>>

MutAfterWrite(short) == "idle"

(* What the caller does with Write's result: ExtractArchivePkg stops when  *)
(* it is not the length it passed, the remote clients only when it is -1.  *)
AfterWrite(short) == IF short /\ WriterChecksLength THEN "close" ELSE "idle"

MutCountWritten == IF writer.left > 0 THEN 0 ELSE writer.put

(* What Write adds to write_offset, short writes included. *)
CountWritten == writer.put

WriteReturn ==
  /\ \/ writer.pc = "short"
     \/ writer.pc = "loop" /\ (writer.left = 0 \/ complete)
  /\ write_offset' = write_offset + CountWritten
  /\ writer' = [writer EXCEPT !.pc = AfterWrite(writer.left > 0), !.left = 0, !.put = 0]
  /\ UNCHANGED <<file_blocks, block_in_progress, complete, read_offset, closer,
                 stop_write_thread, reader, askVars, faults, ub>>

MutWriterCloses == FALSE /\ UNCHANGED vars

(* The writer calls Close, and ends when the call returns. *)
WriterCloses ==
  /\ writer.pc = "close"
  /\ closer["writer"].pc = "idle"
  /\ closer' = [closer EXCEPT !["writer"].pc = "enter"]
  /\ UNCHANGED <<fileVars, writer, stop_write_thread, reader, askVars, faults, ub>>

WriterEnds ==
  /\ writer.pc = "close"
  /\ closer["writer"].pc = "done"
  /\ writer' = [writer EXCEPT !.pc = "done"]
  /\ UNCHANGED <<fileVars, closer, stop_write_thread, reader, askVars, faults, ub>>

-----------------------------------------------------------------------------
(***************************************************************************)
(* Close, called by the writer and, possibly at the same time, by the      *)
(* clean-up thread.                                                        *)
(***************************************************************************)

(* CleanArchivePkgDataThread sets the writer's stop flag (there is none    *)
(* for the remote clients: CleanSplitPkgDataThread) and calls Close unless *)
(* IsClosed.  The installer decides when.                                  *)
CleanerStarts ==
  /\ Cleaner
  /\ closer["cleaner"].pc = "idle"
  /\ stop_write_thread' = WriterChecksLength
  /\ closer' = [closer EXCEPT !["cleaner"].pc = IF complete THEN "done" ELSE "enter"]
  /\ UNCHANGED <<fileVars, writer, reader, askVars, faults, ub>>

(* The mutex is free unless another call is between its two steps. *)
MutexFree == \A c \in Closers : closer[c].pc # "claimed"

(* Close returns at once when another call has set complete before. *)
AlreadyClosed == complete

CloseClaim(c) ==
  /\ closer[c].pc = "enter"
  /\ MutexFree
  /\ closer' = [closer EXCEPT ![c].pc = IF AlreadyClosed THEN "done" ELSE "claimed"]
  /\ complete' = TRUE
  /\ UNCHANGED <<file_blocks, block_in_progress, write_offset, read_offset, writer,
                 stop_write_thread, reader, askVars, faults, ub>>

MutLastFlag == FALSE

(* is_last of the block Close publishes. *)
LastFlag == TRUE

(* The block in progress becomes the last one.  Readers see complete = TRUE *)
(* for a while before this step.                                            *)
ClosePublish(c) ==
  /\ closer[c].pc = "claimed"
  /\ IF block_in_progress.fd = "wild" THEN Undefined("wild_block")
     ELSE IF block_in_progress.published THEN Undefined("double_push")
     ELSE /\ Publish(LastFlag)
          /\ closer' = [closer EXCEPT ![c].pc = "wait"]
          /\ UNCHANGED <<complete, write_offset, read_offset, writer, stop_write_thread,
                         reader, askVars, ub>>

MutDrained == TRUE

(* Everything has been read, as far as Close can tell. *)
Drained == read_offset = write_offset

MutSpend(c) == IF closer[c].prev < read_offset THEN 1 ELSE 0

(* What a second of waiting costs: one retry if no read has ended in it. *)
Spend(c) == IF closer[c].prev = read_offset THEN 1 ELSE 0

(* The installer has asked for the whole package and got its answers. *)
AllAsked == cursor = StreamLen /\ \A r \in Readers : reader[r].pc = "idle"

(* One second of Close's wait. *)
CloseTick(c) ==
  /\ closer[c].pc = "wait"
  /\ ~Drained
  /\ closer[c].retries > 0
  /\ closer[c].prev = read_offset => Retries - closer[c].retries < MaxStalls \/ AllAsked
  /\ closer' = [closer EXCEPT ![c].retries = @ - Spend(c), ![c].prev = read_offset]
  /\ UNCHANGED <<fileVars, writer, stop_write_thread, reader, askVars, faults, ub>>

(* The wait is over: five more seconds, then every block file loses its    *)
(* name.                                                                   *)
CloseWaited(c) ==
  /\ closer[c].pc = "wait"
  /\ Drained \/ closer[c].retries = 0
  /\ closer' = [closer EXCEPT ![c].pc = "remove"]
  /\ UNCHANGED <<fileVars, writer, stop_write_thread, reader, askVars, faults, ub>>

(* The slot of block n, as its pointer and status are tested in the loops  *)
(* of Close and Read: an object that is there, none, or a deleted one.     *)
Status(n) == file_blocks[n + 1].status

Gone == {"FREED", "NULL"}

(* The test of one block in the last loop of Close.  A slot that points to *)
(* a deleted object passes the test for nullptr, not that of its status.   *)
CloseTest(c) ==
  /\ closer[c].pc = "remove"
  /\ LET j == closer[c].j
     IN  IF j < Len(file_blocks) /\ Status(j) = "FREED" THEN Undefined("delete_race")
         ELSE /\ closer' = [closer EXCEPT
                   ![c].pc = IF j = Len(file_blocks) THEN "done"
                             ELSE IF Status(j) = "CREATED" THEN "unlink" ELSE "remove",
                   ![c].j = IF j < Len(file_blocks) /\ Status(j) # "CREATED" THEN j + 1 ELSE j]
              /\ UNCHANGED <<fileVars, writer, stop_write_thread, reader, askVars, faults, ub>>

(* Its file is removed; a reader may have deleted the block meanwhile. *)
CloseRemove(c) ==
  /\ closer[c].pc = "unlink"
  /\ IF Status(closer[c].j) \in Gone THEN Undefined("delete_race")
     ELSE /\ file_blocks' = [file_blocks EXCEPT ![closer[c].j + 1].on_disk = FALSE]
          /\ closer' = [closer EXCEPT ![c].pc = "remove", ![c].j = @ + 1]
          /\ UNCHANGED <<block_in_progress, complete, write_offset, read_offset, writer,
                         stop_write_thread, reader, askVars, faults, ub>>

-----------------------------------------------------------------------------
(***************************************************************************)
(* A reader: one HTTP range request at a time, served by calls of Read.    *)
(***************************************************************************)

(* A call of Read starts, for the range of x. *)
StartRead(x) == [x EXCEPT !.pc = "first", !.num = BlockOf(x.off),
                          !.boff = x.off % BlockSize, !.buf = <<>>, !.j = 0]

(* The installer asks for len bytes from off on. *)
Ask(r) ==
  /\ reader[r].pc = "idle"
  /\ reader[r].asked < MaxRequests
  /\ \E off \in 0..(StreamLen - 1), len \in 1..MaxLen :
       /\ off + len <= StreamLen
       /\ Sequential => off = cursor
       /\ BlockOf(off) + Lag >= front
       /\ \A q \in Readers \ {r} :
            reader[q].pc # "idle" => BlockOf(off) <= BlockOf(reader[q].off) + Lag
       /\ reader' = [reader EXCEPT ![r] =
                       StartRead([@ EXCEPT !.off = off, !.len = len, !.body = <<>>,
                                           !.asked = reader[r].asked + 1])]
       /\ cursor' = MaxOf(cursor, off + len)
       /\ front' = MaxOf(front, BlockOf(off))
  /\ UNCHANGED <<fileVars, writer, closer, stop_write_thread, faults, ub>>

Slot(r) == file_blocks[reader[r].num + 1]

InList(r) == reader[r].num < Len(file_blocks)

MutPastEnd(r) == reader[r].boff >= Slot(r).size - 1

(* block_offset > block->size - 1 && complete.  size is unsigned: an empty *)
(* last block does not pass the test.                                      *)
PastEnd(r) == Slot(r).size > 0 /\ reader[r].boff > Slot(r).size - 1 /\ complete

(* The wait for the first block and the checks after it.  The wait polls   *)
(* every two seconds at least, so it may see any state.  A result of -1    *)
(* becomes the length of a write to the response.                          *)
ReadFirst(r) ==
  /\ reader[r].pc = "first"
  /\ InList(r) \/ complete
  /\ IF InList(r) /\ Slot(r).status \in Gone THEN Undefined("freed_block")
     ELSE IF InList(r) /\ Slot(r).status = "DELETED" THEN Undefined("wild_size")
     ELSE /\ reader' = [reader EXCEPT
               ![r].pc = IF InList(r) /\ ~PastEnd(r) THEN "seek" ELSE "ret"]
          /\ UNCHANGED <<fileVars, writer, closer, stop_write_thread, askVars, faults, ub>>

(* The shared FILE is opened if nobody has yet, and positioned. *)
ReadSeek(r) ==
  /\ reader[r].pc = "seek"
  /\ IF Slot(r).status \in Gone THEN Undefined("freed_block")
     ELSE IF Slot(r).fd = "closed" \/ (Slot(r).fd = "null" /\ ~Slot(r).on_disk)
          THEN Undefined("bad_file")
     ELSE /\ file_blocks' = [file_blocks EXCEPT ![reader[r].num + 1].fd = "open",
                                                ![reader[r].num + 1].at = reader[r].boff]
          /\ reader' = [reader EXCEPT ![r].pc = "fread"]
          /\ UNCHANGED <<block_in_progress, complete, write_offset, read_offset, writer,
                         closer, stop_write_thread, askVars, faults, ub>>

Remaining(r) == reader[r].len - Len(reader[r].buf)

(* The position in the stream fread reads from. *)
From(r) == reader[r].num * BlockSize + Slot(r).at

MutDelivered(r) == Remaining(r)

(* What fread delivers: as much as asked for and left in the block file;   *)
(* nothing when it was positioned past the end of the file.                *)
Delivered(r) == MinOf(Remaining(r), MaxOf(0, Slot(r).data - Slot(r).at))

(* The range is served, or the end of the file has been read. *)
Served(r) == Delivered(r) = Remaining(r) \/ Slot(r).is_last

MutNextOffset(r) == reader[r].boff

(* Where reading starts in the block after this one. *)
NextOffset(r) == 0

(* fread, and the move to the next block unless the range is served or the *)
(* last block has been read.  A failing fread makes Read return -1.        *)
ReadBytes(r) ==
  /\ reader[r].pc = "fread"
  /\ IF Slot(r).status \in Gone THEN Undefined("freed_block")
     ELSE IF Slot(r).fd # "open" THEN Undefined("bad_file")
     ELSE /\ file_blocks' = [file_blocks EXCEPT ![reader[r].num + 1].at = @ + Delivered(r)]
          /\ reader' = [reader EXCEPT
               ![r].buf = @ \o Bytes(From(r), Delivered(r)),
               ![r].pc = IF Served(r) THEN "reap" ELSE "next",
               ![r].num = IF Served(r) THEN @ ELSE @ + 1,
               ![r].boff = IF Served(r) THEN @ ELSE NextOffset(r)]
          /\ UNCHANGED <<block_in_progress, complete, write_offset, read_offset,
                         writer, closer, stop_write_thread, askVars, faults, ub>>

ReadFails(r) ==
  /\ reader[r].pc = "fread"
  /\ faults < DiskFaults
  /\ Undefined("wild_size")

(* The wait for the following block; past the end of a complete file the   *)
(* range is cut short.                                                     *)
ReadNext(r) ==
  /\ reader[r].pc = "next"
  /\ InList(r) \/ complete
  /\ IF InList(r) /\ Slot(r).status \in Gone
     THEN Undefined("freed_block")
     ELSE /\ reader' = [reader EXCEPT ![r].pc = IF InList(r) THEN "seek" ELSE "reap"]
          /\ UNCHANGED <<fileVars, writer, closer, stop_write_thread, askVars, faults, ub>>

MutFirstKept(r) == BlockOf(reader[r].off) - KeepBlocks + 1

(* The first block Read keeps. *)
FirstKept(r) == BlockOf(reader[r].off) - KeepBlocks

(* The deletion loop: one block, behind the first one kept, is tested ...  *)
ReadReap(r) ==
  /\ reader[r].pc = "reap"
  /\ reader[r].j < FirstKept(r)
  /\ IF Status(reader[r].j) = "FREED" THEN Undefined("delete_race")
     ELSE /\ reader' = [reader EXCEPT
               ![r].pc = IF Status(reader[r].j) = "CREATED" THEN "close" ELSE "reap",
               ![r].j = IF Status(reader[r].j) = "CREATED" THEN @ ELSE @ + 1]
          /\ UNCHANGED <<fileVars, writer, closer, stop_write_thread, askVars, faults, ub>>

(* ... and, in as many steps as another reader in the same loop may come   *)
(* in between, its FILE is closed if it is open, ...                       *)
ReapClose(r) ==
  /\ reader[r].pc = "close"
  /\ IF Status(reader[r].j) \in Gone \/ file_blocks[reader[r].j + 1].fd = "closed"
     THEN Undefined("delete_race")
     ELSE /\ file_blocks' = [file_blocks EXCEPT
               ![reader[r].j + 1].fd = IF @ = "open" THEN "closed" ELSE @]
          /\ reader' = [reader EXCEPT ![r].pc = "mark"]
          /\ UNCHANGED <<block_in_progress, complete, write_offset, read_offset, writer,
                         closer, stop_write_thread, askVars, faults, ub>>

(* ... the pointer to it is cleared, the block marked and its file removed, ... *)
ReapMark(r) ==
  /\ reader[r].pc = "mark"
  /\ IF Status(reader[r].j) \in Gone THEN Undefined("delete_race")
     ELSE /\ file_blocks' = [file_blocks EXCEPT ![reader[r].j + 1].fd = "null",
                                                ![reader[r].j + 1].status = "DELETED",
                                                ![reader[r].j + 1].on_disk = FALSE]
          /\ reader' = [reader EXCEPT ![r].pc = "delete"]
          /\ UNCHANGED <<block_in_progress, complete, write_offset, read_offset, writer,
                         closer, stop_write_thread, askVars, faults, ub>>

(* ... the object is deleted, which does nothing to a slot that is cleared, ... *)
ReapDelete(r) ==
  /\ reader[r].pc = "delete"
  /\ IF Status(reader[r].j) = "FREED" THEN Undefined("delete_race")
     ELSE /\ file_blocks' = [file_blocks EXCEPT
               ![reader[r].j + 1].status = IF @ = "NULL" THEN @ ELSE "FREED"]
          /\ reader' = [reader EXCEPT ![r].pc = "reset"]
          /\ UNCHANGED <<block_in_progress, complete, write_offset, read_offset, writer,
                         closer, stop_write_thread, askVars, faults, ub>>

MutCleared == "FREED"

(* What is left in the slot. *)
Cleared == "NULL"

(* ... and the slot is cleared. *)
ReapReset(r) ==
  /\ reader[r].pc = "reset"
  /\ file_blocks' = [file_blocks EXCEPT ![reader[r].j + 1].status = Cleared]
  /\ reader' = [reader EXCEPT ![r].pc = "reap", ![r].j = @ + 1]
  /\ UNCHANGED <<block_in_progress, complete, write_offset, read_offset, writer, closer,
                 stop_write_thread, askVars, faults, ub>>

(* The loop is over; the call notes how far it has read. *)
ReadReturn(r) ==
  /\ reader[r].pc = "reap"
  /\ reader[r].j >= FirstKept(r)
  /\ read_offset' = reader[r].off + Len(reader[r].buf)
  /\ reader' = [reader EXCEPT ![r].pc = "ret"]
  /\ UNCHANGED <<file_blocks, block_in_progress, complete, write_offset, writer, closer,
                 stop_write_thread, askVars, faults, ub>>

(* The content provider writes the buffer to the response, and the server  *)
(* calls it again, for the same range, until the response has its length.  *)
Serve(r) ==
  /\ reader[r].pc = "ret"
  /\ LET sent == reader[r].body \o reader[r].buf
     IN  reader' = [reader EXCEPT ![r] =
                      IF Len(sent) >= reader[r].len THEN IdleReader(reader[r].asked)
                      ELSE StartRead([reader[r] EXCEPT !.body = sent])]
  /\ UNCHANGED <<fileVars, writer, closer, stop_write_thread, askVars, faults, ub>>

-----------------------------------------------------------------------------
WriterStep ==
  \/ Open \/ WriteCall \/ SourceEnds \/ WriteLoop \/ FWrite \/ BlockFull \/ RollBlock
  \/ WriteReturn \/ WriterCloses \/ WriterEnds

CloserStep(c) ==
  \/ CloseClaim(c) \/ ClosePublish(c) \/ CloseTick(c) \/ CloseWaited(c)
  \/ CloseTest(c) \/ CloseRemove(c)

ReadStep(r) ==
  \/ ReadFirst(r) \/ ReadSeek(r) \/ ReadBytes(r) \/ ReadFails(r) \/ ReadNext(r)
  \/ ReadReap(r) \/ ReapClose(r) \/ ReapMark(r) \/ ReapDelete(r) \/ ReapReset(r)
  \/ ReadReturn(r) \/ Serve(r)

(* The threads have nothing left to do, or the program has crashed. *)
Quiet ==
  /\ \/ ub # "none"
     \/ /\ writer.pc = "done"
        /\ \A c \in Closers : closer[c].pc \in {"idle", "done"}
        /\ \A r \in Readers : reader[r].pc = "idle"
  /\ UNCHANGED vars

Next ==
  \/ ub = "none" /\ WriterStep
  \/ ub = "none" /\ CleanerStarts
  \/ \E c \in Closers : ub = "none" /\ CloserStep(c)
  \/ \E r \in Readers : ub = "none" /\ (Ask(r) \/ ReadStep(r))
  \/ Quiet

Spec == Init /\ [][Next]_vars

(***************************************************************************)
(* The threads are scheduled and their waits poll or time out: the         *)
(* semaphore waits of Read last two seconds, the sleeps of Close one.      *)
(* Nothing obliges the installer to ask, or to start the clean-up.         *)
(***************************************************************************)
FairSpec ==
  /\ Spec
  /\ WF_vars(ub = "none" /\ WriterStep)
  /\ \A c \in Closers : WF_vars(ub = "none" /\ CloserStep(c))
  /\ \A r \in Readers : WF_vars(ub = "none" /\ ReadStep(r))

(* The same with an installer that asks for the whole package. *)
InstallerSpec ==
  /\ FairSpec
  /\ \A r \in Readers : WF_vars(ub = "none" /\ Ask(r))

-----------------------------------------------------------------------------
(***************************************************************************)
(* Properties.                                                             *)
(***************************************************************************)

(* Close has published the last block. *)
Sealed == complete /\ MutexFree

(* Bytes handed to the disk: the published full blocks and the one in      *)
(* progress, which Close publishes too.                                    *)
Stored ==
  BlockSize * (Len(file_blocks) - (IF block_in_progress.published THEN 1 ELSE 0))
    + block_in_progress.size

(* Readers find a byte by dividing its position by block_size.  That is    *)
(* right only if every published block but the last is full, and the list  *)
(* ends in an is_last block once Close has published it, and only then.    *)
BlockList ==
  /\ \A i \in DOMAIN file_blocks :
       i < Len(file_blocks) => file_blocks[i].size = BlockSize /\ ~file_blocks[i].is_last
  /\ file_blocks # <<>> =>
       LET end == file_blocks[Len(file_blocks)]
       IN  /\ end.is_last <=> Sealed
           /\ end.is_last \/ end.size = BlockSize
  /\ Sealed => file_blocks # <<>>

(* Close decides that everything has been read by comparing read_offset    *)
(* with write_offset: write_offset counts the bytes on disk, those of the  *)
(* Write call in progress apart, short writes and full blocks included.    *)
Accounting == write_offset + writer.put = Stored

(* Every byte Read puts into the caller's buffer is the byte of the stream *)
(* the caller asked for, across block boundaries and while the file grows. *)
ReadRight ==
  \A r \in Readers : \A i \in DOMAIN reader[r].buf :
    reader[r].buf[i] = reader[r].off + i - 1

(* One writer that closes the file itself, one installer that reads it     *)
(* front to back, no failing disk and no stall of Retries seconds: no      *)
(* thread touches a freed block, a closed or missing file, or a block that *)
(* is already in the list.                                                 *)
NoCrash == ub = "none"

(* As long as no range starts more than KeepBlocks blocks behind another,  *)
(* deleting what was read never takes a block from under a thread that     *)
(* still reads it, with any number of concurrent readers, a failing disk   *)
(* and a clean-up.  (What two threads that delete do to each other is      *)
(* "delete_race": nothing keeps two out of their loops.)                   *)
NoFreedBlock == ub # "freed_block"

(* The loops, and the destructor, take every slot that is not nullptr for  *)
(* an object: one that points to a deleted object does so only while the   *)
(* reader that deleted it is about to clear it, also when several readers  *)
(* delete the same block.                                                  *)
DanglingInHand ==
  \A i \in DOMAIN file_blocks : file_blocks[i].status = "FREED" =>
    \E r \in Readers : reader[r].pc = "reset" /\ reader[r].j = i - 1

(* Bytes of the source are stored at their own position: after a failed    *)
(* write nothing more is stored ("error if bytes_to_write != bytes_written"). *)
NoHole == [][Stored' > Stored => writer.taken - writer.left = Stored]_vars

(* Once the last block is published no read comes back early: a range with *)
(* bytes left in the file goes on to the block that holds them.            *)
SealedReadsGoOn ==
  [][\A r \in Readers :
       /\ Sealed
       /\ reader[r].pc \in {"first", "next"}
       /\ reader[r].off + Len(reader[r].buf) < Stored
       => reader'[r].pc \notin {"ret", "reap"}]_vars

(* "If complete and block_num is past the end, the requested offset is     *)
(* beyond EOF": a read that comes back empty was past the end of the file. *)
EmptyReadIsPastEnd ==
  \A r \in Readers :
    reader[r].pc = "ret" /\ reader[r].buf = <<>> => reader[r].off >= Stored

(* "approximately 100MB - 200MB of disk space is used": with blocks of     *)
(* 5 MB, no more than 40 block files exist at a time.                      *)
CacheBounded ==
  Cardinality({i \in DOMAIN file_blocks : file_blocks[i].on_disk}) <= 40

(* A range the installer asked for is served in the end: no reader waits   *)
(* for a block forever, or goes round in the content provider.             *)
RequestAnswered ==
  \A r \in Readers : reader[r].pc # "idle" ~> (reader[r].pc = "idle" \/ ub # "none")

(* Close returns although nobody may ever read the file again.             *)
CloseReturns ==
  \A c \in Closers : closer[c].pc # "idle" ~> (closer[c].pc = "done" \/ ub # "none")

(* The abstract stream: what a reader is in the middle of is a pending     *)
(* request, and Write and Close take effect on it at their first step.     *)
AbstractRequest(r) ==
  [state |-> CASE reader[r].pc = "idle" -> "idle"
               [] reader[r].pc = "ret" -> "replied"
               [] OTHER -> "pending",
   off |-> reader[r].off,
   len |-> reader[r].len,
   reply |-> IF reader[r].pc = "ret" THEN reader[r].buf ELSE <<>>]

Stream == INSTANCE ByteStream WITH
  written <- Stored,
  closed <- complete,
  request <- [r \in Readers |-> AbstractRequest(r)]

(* SplitFile implements the stream: replies are prefixes of the ranges     *)
(* asked for, of bytes already written, short only after Close.            *)
ImplementsStream == Stream!Spec
=============================================================================
