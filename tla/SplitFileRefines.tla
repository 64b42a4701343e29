-------------------------- MODULE SplitFileRefines --------------------------
(***************************************************************************)
(* SplitFile implements ByteStream, for every block size and stream, when  *)
(* one reader reads what one writer writes and closes - with or without    *)
(* failing operations, and up to the point where the program would run     *)
(* into undefined behaviour; it does not run into any when the reader      *)
(* reads front to back and nothing fails; and a closed file is read to its *)
(* end, whoever reads and closes it.  Proved.                              *)
(***************************************************************************)
EXTENDS SplitFileProofs

-----------------------------------------------------------------------------
(***************************************************************************)
(* The inductive invariant.                                                *)
(***************************************************************************)

(* Only the writer closes, and it does not write any more then. *)
WriterIsCloser ==
  /\ closer["cleaner"].pc = "idle"
  /\ closer["writer"].pc # "idle" => writer.pc \in {"close", "done"}
  /\ complete => closer["writer"].pc # "idle"

(* Nothing is stored that did not come from the source. *)
FromSource ==
  /\ write_offset + writer.put + writer.left <= writer.taken
  /\ writer.taken <= StreamLen

(* A block in progress that is in the list is its last one. *)
PublishedLast ==
  block_in_progress.published =>
    /\ Len(file_blocks) > 0
    /\ file_blocks[Len(file_blocks)].size = block_in_progress.size

InRange(r) ==
  reader[r].pc # "idle" => reader[r].off \in 0..StreamLen /\ reader[r].len \in 1..StreamLen

(* A reader holds bytes that are stored, and stops early only at the end. *)
HoldsStored(r) ==
  /\ reader[r].pc = "first" => reader[r].buf = <<>>
  /\ Len(reader[r].buf) > 0 => reader[r].off + Len(reader[r].buf) <= Stored
  /\ reader[r].pc \in {"reap"} \cup Deleting => Len(reader[r].buf) = reader[r].len \/ complete

RefineInv ==
  /\ WriterIsCloser /\ FromSource /\ PublishedLast
  /\ \A r \in Readers : InRange(r) /\ HoldsStored(r)

Inv == TypeInv /\ ListInv /\ ReadInv /\ RefineInv

USE DEF fileVars, askVars

(* By Accounting, what is stored changes with the counters only. *)
LEMMA StoredByCounters ==
  ASSUME TypeInv, TypeInv', ListInv, ListInv'
  PROVE  /\ Stored = write_offset + writer.put
         /\ Stored' = write_offset' + writer'.put
         /\ Stored \in Nat /\ Stored' \in Nat
<1>1. Stored = write_offset + writer.put /\ Stored' = write_offset' + writer'.put
  BY DEF ListInv, Accounting
<1>2. write_offset \in Nat /\ writer.put \in Nat /\ write_offset' \in Nat /\ writer'.put \in Nat
  BY DEF TypeInv, TypeOK, WriterState
<1>3. QED  BY <1>1, <1>2

(* The writer's steps: only fwrite stores bytes, before the file is closed. *)
LEMMA WriterStores ==
  ASSUME TypeInv, TypeInv', ListInv, ListInv', WriterIsCloser, FromSource, WriterStep
  PROVE  /\ Stored' = Stored \/ (~complete /\ Stored' > Stored)
         /\ FromSource'
         /\ WriterIsCloser'
         /\ UNCHANGED <<complete, reader>>
<1>0. /\ writer.put \in Nat /\ writer.left \in Nat /\ writer.taken \in Nat /\ write_offset \in Nat
      /\ writer \in WriterState /\ closer \in [Closers -> CloserState]
      /\ block_in_progress.size \in 0..BlockSize
  BY DEF TypeInv, TypeOK, WriterState, InProgress
<1>1. CASE FWrite
  <2>1. CASE block_in_progress.fd # "open"
    <3>1. UNCHANGED <<file_blocks, block_in_progress, complete, write_offset, writer, closer, reader>>
      BY <1>1, <2>1 DEF FWrite, Undefined
    <3>2. QED  BY <3>1 DEF Stored, FromSource, WriterIsCloser
  <2>2. CASE block_in_progress.fd = "open"
    <3> DEFINE want == MinOf(writer.left, BlockSize - block_in_progress.size)
    <3>1. PICK n \in 0..want :
          /\ writer' = [writer EXCEPT
                     !.left = @ - n, !.put = @ + n,
                     !.pc = IF n < want THEN "short"
                            ELSE IF block_in_progress.size + n = BlockSize THEN "full"
                            ELSE "loop"]
          /\ UNCHANGED <<complete, write_offset, closer, reader>>
          /\ writer.pc = "fwrite"
      BY <1>1, <2>2 DEF FWrite
    <3>2. n \in Nat /\ n <= writer.left
      BY <1>0, SplitFileAssumption DEF MinOf
    <3> HIDE DEF want
    <3>3. writer'.put = writer.put + n /\ writer'.left = writer.left - n /\ writer'.taken = writer.taken
      BY <1>0, <3>1 DEF WriterState
    <3>4. Stored' = Stored + n /\ Stored \in Nat
      BY <1>0, <3>1, <3>2, <3>3, StoredByCounters
    <3>5. closer["writer"].pc = "idle" /\ ~complete
      BY <3>1 DEF WriterIsCloser
    <3>6. FromSource'
      BY <1>0, <3>1, <3>2, <3>3 DEF FromSource
    <3>7. QED  BY <3>1, <3>2, <3>4, <3>5, <3>6 DEF WriterIsCloser
  <2>3. QED  BY <2>1, <2>2
<1>2. CASE BlockFull
  <2>1. /\ UNCHANGED <<complete, write_offset, closer, reader>>
        /\ writer' = writer \/ writer' = [writer EXCEPT !.pc = "roll"]
        /\ writer.pc = "full"
    BY <1>2 DEF BlockFull, Undefined
  <2>2. writer'.put = writer.put /\ writer'.left = writer.left /\ writer'.taken = writer.taken
    BY <1>0, <2>1 DEF WriterState
  <2>3. Stored' = Stored
    BY <2>1, <2>2, StoredByCounters
  <2>4. QED  BY <2>1, <2>2, <2>3 DEF FromSource, WriterIsCloser
<1>3. CASE Open \/ SourceEnds \/ WriteLoop \/ RollBlock \/ WriterEnds
  <2>1. /\ UNCHANGED <<complete, write_offset, closer, reader>>
        /\ \E p : writer' = [writer EXCEPT !.pc = p]
        /\ writer.pc \in {"close", "done"} => writer'.pc = "done"
    BY <1>0, <1>3 DEF Open, SourceEnds, WriteLoop, RollBlock, WriterEnds, WriterState
  <2>2. writer'.put = writer.put /\ writer'.left = writer.left /\ writer'.taken = writer.taken
    BY <1>0, <2>1 DEF WriterState
  <2>3. Stored' = Stored
    BY <2>1, <2>2, StoredByCounters
  <2>4. QED  BY <2>1, <2>2, <2>3 DEF FromSource, WriterIsCloser
<1>4. CASE WriteCall
  <2>1. PICK n \in 1..MinOf(MaxChunk, StreamLen - writer.taken) :
          /\ writer' = IF complete
                 THEN [writer EXCEPT !.pc = "close", !.taken = @ + n]
                 ELSE [writer EXCEPT !.pc = "loop", !.left = n, !.put = 0, !.taken = @ + n]
          /\ UNCHANGED <<complete, write_offset, closer, reader>>
          /\ writer.pc = "idle"
    BY <1>4 DEF WriteCall
  <2>2. n \in Nat /\ writer.taken + n <= StreamLen
    BY <1>0, SplitFileAssumption DEF MinOf
  <2>3. writer.put = 0
    BY <2>1 DEF ListInv, Counted
  <2>4. ~complete
    BY <2>1 DEF WriterIsCloser
  <2>5. writer'.put = 0 /\ writer'.left = n /\ writer'.taken = writer.taken + n
    BY <1>0, <2>1, <2>4 DEF WriterState
  <2>6. Stored' = Stored
    BY <2>1, <2>3, <2>5, StoredByCounters
  <2>7. FromSource'
    BY <1>0, <2>1, <2>2, <2>3, <2>5, SplitFileAssumption DEF FromSource
  <2>8. QED  BY <2>1, <2>4, <2>6, <2>7 DEF WriterIsCloser
<1>5. CASE WriteReturn
  <2>1. /\ UNCHANGED <<complete, closer, reader>>
        /\ write_offset' = write_offset + writer.put
        /\ writer'.put = 0 /\ writer'.left = 0 /\ writer'.taken = writer.taken
        /\ writer.pc \in {"short", "loop"}
    BY <1>0, <1>5 DEF WriteReturn, CountWritten, WriterState
  <2>2. Stored' = Stored
    BY <1>0, <2>1, StoredByCounters
  <2>3. FromSource'
    BY <1>0, <2>1 DEF FromSource
  <2>4. QED  BY <2>1, <2>2, <2>3 DEF WriterIsCloser
<1>6. CASE WriterCloses
  <2>1. /\ UNCHANGED <<complete, write_offset, writer, reader>>
        /\ closer' = [closer EXCEPT !["writer"].pc = "enter"]
        /\ writer.pc = "close"
    BY <1>6 DEF WriterCloses
  <2>2. closer'["writer"].pc = "enter" /\ closer'["cleaner"] = closer["cleaner"]
    BY <1>0, <2>1 DEF Closers, CloserState
  <2>3. Stored' = Stored
    BY <2>1, StoredByCounters
  <2>4. QED  BY <2>1, <2>2, <2>3 DEF FromSource, WriterIsCloser
<1>7. QED
  BY <1>1, <1>2, <1>3, <1>4, <1>5, <1>6 DEF WriterStep

(* The steps of Close: the claim closes the stream, nothing else is seen. *)
LEMMA CloserStores ==
  ASSUME TypeInv, TypeInv', ListInv, ListInv', WriterIsCloser, FromSource,
         NEW c \in Closers, CloserStep(c)
  PROVE  /\ Stored' = Stored
         /\ FromSource'
         /\ WriterIsCloser'
         /\ UNCHANGED reader
         /\ complete' = complete \/ complete' = TRUE
<1>0. closer \in [Closers -> CloserState]
  BY DEF TypeInv, TypeOK
<1>1. UNCHANGED <<writer, write_offset, reader>>
  BY Zenon DEF CloserStep, CloseClaim, ClosePublish, CloseTick, CloseWaited, CloseTest, CloseRemove,
     Undefined
<1>2. Stored' = Stored /\ FromSource'
  BY <1>1, StoredByCounters DEF FromSource
<1>3. closer[c].pc # "idle"
  BY DEF CloserStep, CloseClaim, ClosePublish, CloseTick, CloseWaited, CloseTest, CloseRemove
<1>4. c = "writer"
  BY <1>3 DEF WriterIsCloser, Closers
<1>5. closer'["cleaner"] = closer["cleaner"] /\ closer'["writer"].pc # "idle"
  <2>1. CASE (CloseTest(c) \/ CloseRemove(c)) /\ ~Undefined("delete_race")
    <3>1. PICK p \in {"remove", "unlink", "done"}, n \in Nat :
            closer' = [closer EXCEPT ![c].pc = p, ![c].j = n]
      BY <2>1, CloserScans
    <3>2. QED  BY <1>0, <1>4, <3>1 DEF CloserState, Closers
  <2>2. CASE Undefined("delete_race")
    BY <1>3, <1>4, <2>2 DEF Undefined
  <2>3. CASE ~CloseTest(c) /\ ~CloseRemove(c)
    BY <1>0, <1>3, <1>4, <2>3 DEF CloserStep, CloseClaim, ClosePublish, CloseTick, CloseWaited,
       Undefined, CloserState, Closers
  <2>4. QED  BY <2>1, <2>2, <2>3
<1>6. WriterIsCloser'
  BY <1>1, <1>3, <1>4, <1>5 DEF WriterIsCloser
<1>7. complete' = complete \/ complete' = TRUE
  BY Zenon DEF CloserStep, CloseClaim, ClosePublish, CloseTick, CloseWaited, CloseTest, CloseRemove,
     Undefined
<1>8. QED  BY <1>1, <1>2, <1>6, <1>7

(* The block the writer or Close publishes is the one in progress. *)
LEMMA PublishedLastAppend ==
  ASSUME TypeInv, NEW last \in BOOLEAN, Publish(last)
  PROVE  PublishedLast'
<1>1. PICK n \in 0..block_in_progress.size :
        /\ Published(last, n) \in FileBlock
        /\ file_blocks' = Append(file_blocks, Published(last, n))
  BY PublishType DEF TypeInv
<1>2. file_blocks \in Seq(FileBlock) /\ block_in_progress \in InProgress
  BY DEF TypeInv, TypeOK
<1>3. block_in_progress'.size = block_in_progress.size
  BY <1>2 DEF Publish, InProgress
<1> DEFINE b == Published(last, n)
<1>4. b.size = block_in_progress.size /\ b \in FileBlock
  BY <1>1 DEF Published
<1> HIDE DEF b
<1>5. /\ Len(file_blocks') = Len(file_blocks) + 1
      /\ file_blocks'[Len(file_blocks) + 1] = b
      /\ Len(file_blocks) \in Nat
  BY <1>1, <1>2, <1>4, AppendProperties DEF b
<1>6. QED  BY <1>3, <1>4, <1>5 DEF PublishedLast

LEMMA PublishedLastNext ==
  ASSUME TypeInv, ListInv, PublishedLast, [Next]_vars
  PROVE  PublishedLast'
<1>0. /\ file_blocks \in Seq(FileBlock)
      /\ \A i \in DOMAIN file_blocks : file_blocks[i] \in FileBlock
      /\ Len(file_blocks) > 0 => Len(file_blocks) \in DOMAIN file_blocks
  BY DEF TypeInv, TypeOK
<1>1. ASSUME DOMAIN file_blocks' = DOMAIN file_blocks, Len(file_blocks') = Len(file_blocks),
             \A i \in DOMAIN file_blocks : file_blocks'[i].size = file_blocks[i].size,
             block_in_progress' = block_in_progress
      PROVE  PublishedLast'
  BY <1>0, <1>1 DEF PublishedLast
<1>2. CASE WriterStep
  <2>1. CASE BlockFull /\ block_in_progress.fd = "open"
    BY <2>1, PublishedLastAppend DEF BlockFull
  <2>2. CASE FWrite /\ block_in_progress.fd = "open"
    <3>1. ~block_in_progress.published
      BY <2>2 DEF ListInv, InTheList
    <3>2. block_in_progress'.published = block_in_progress.published
      BY <2>2 DEF FWrite, TypeInv, TypeOK, InProgress
    <3>3. QED  BY <3>1, <3>2 DEF PublishedLast
  <2>3. CASE Open \/ RollBlock
    <3>1. block_in_progress'.published = FALSE
      BY <2>3 DEF Open, RollBlock, NewBlock
    <3>2. QED  BY <3>1 DEF PublishedLast
  <2>4. CASE UNCHANGED <<file_blocks, block_in_progress>>
    BY <2>4 DEF PublishedLast
  <2>5. QED
    BY <1>2, <2>1, <2>2, <2>3, <2>4 DEF WriterStep, WriteCall, SourceEnds, WriteLoop, WriteReturn,
       WriterCloses, WriterEnds, BlockFull, FWrite, Undefined
<1>3. ASSUME NEW c \in Closers, CloserStep(c)
      PROVE  PublishedLast'
  <2>1. CASE ClosePublish(c) /\ block_in_progress.fd # "wild" /\ ~block_in_progress.published
    BY <2>1, PublishedLastAppend DEF ClosePublish, LastFlag
  <2>2. CASE (CloseTest(c) \/ CloseRemove(c)) /\ ~Undefined("delete_race")
    <3>1. SameShape /\ block_in_progress' = block_in_progress
      BY <2>2, CloserScans, SlotChangedShape
    <3>2. QED  BY <1>1, <3>1 DEF SameShape
  <2>3. CASE UNCHANGED <<file_blocks, block_in_progress>>
    BY <2>3 DEF PublishedLast
  <2>4. CASE Undefined("delete_race")
    BY <2>3, <2>4 DEF Undefined
  <2>5. QED
    BY <1>3, <2>1, <2>2, <2>3, <2>4, Zenon DEF CloserStep, ClosePublish, CloseClaim, CloseTick,
       CloseWaited, Undefined
<1>4. ASSUME NEW r \in Readers, Ask(r) \/ ReadStep(r)
      PROVE  PublishedLast'
  <2>1. SameShape /\ block_in_progress' = block_in_progress
    BY <1>4, TypeNext, ReaderKeepsShape
  <2>2. QED  BY <1>1, <2>1 DEF SameShape
<1>5. CASE CleanerStarts \/ UNCHANGED vars
  BY <1>5 DEF CleanerStarts, vars, PublishedLast
<1>6. QED  BY <1>2, <1>3, <1>4, <1>5, Zenon DEF Next, Quiet

LEMMA TimesMonotonic ==
  ASSUME NEW m \in Nat, NEW n \in Nat, NEW b \in Nat, m <= n
  PROVE  b * m <= b * n /\ b * m \in Nat /\ b * n \in Nat
<1>1. PICK d \in Nat : n = m + d
  <2>1. n - m \in Nat /\ n = m + (n - m)
    OBVIOUS
  <2>2. QED  BY <2>1
<1>2. b * (m + d) = b * m + b * d /\ b * d \in Nat /\ b * m \in Nat
  OBVIOUS
<1>3. QED  BY <1>1, <1>2

(* The bytes of a published block are stored bytes; only Close publishes *)
(* the last one.                                                         *)
LEMMA SlotStored ==
  ASSUME TypeInv, ListInv, PublishedLast, NEW r \in Readers, InList(r)
  PROVE  /\ reader[r].num * BlockSize + Slot(r).size <= Stored
         /\ Slot(r).is_last => complete
         /\ Slot(r) \in FileBlock
<1> DEFINE k == reader[r].num
           N == Len(file_blocks)
           size == Slot(r).size
           end == block_in_progress.size
<1>1. /\ k \in Nat /\ N \in Nat /\ k < N
      /\ k + 1 \in DOMAIN file_blocks /\ DOMAIN file_blocks = 1..N
  BY DEF TypeInv, TypeOK, ReaderState, InList
<1>2. Slot(r) \in FileBlock
  BY <1>1 DEF TypeInv, TypeOK, Slot
<1>3. size \in Nat /\ size <= BlockSize /\ end \in Nat /\ BlockSize \in Nat
  <2>1. Slot(r).size \in 0..BlockSize /\ block_in_progress.size \in 0..BlockSize
    BY <1>2 DEF FileBlock, TypeInv, TypeOK, InProgress
  <2>2. QED  BY <2>1, SplitFileAssumption
<1>4. Slot(r).is_last => complete
  BY <1>1 DEF Slot, ListInv, BlockList, Sealed
<1>5. /\ Stored = BlockSize * (N - (IF block_in_progress.published THEN 1 ELSE 0)) + end
      /\ block_in_progress.published /\ k + 1 = N => size = end
  BY <1>1 DEF Stored, PublishedLast, Slot
<1> HIDE DEF k, N, size, end
<1>6. BlockSize * k + size <= Stored
  <2>1. CASE ~block_in_progress.published
    <3>1. Stored = BlockSize * N + end
      BY <1>1, <1>5, <2>1
    <3>2. BlockSize * (k + 1) <= BlockSize * N /\ BlockSize * N \in Nat
      BY <1>1, <1>3, TimesMonotonic
    <3>3. BlockSize * (k + 1) = BlockSize * k + BlockSize /\ BlockSize * k \in Nat
      BY <1>1, <1>3
    <3>4. QED  BY <1>3, <3>1, <3>2, <3>3
  <2>2. CASE block_in_progress.published /\ k + 1 = N
    <3>1. Stored = BlockSize * (N - 1) + end /\ size = end
      BY <1>5, <2>2
    <3>2. N - 1 = k
      BY <1>1, <2>2
    <3>3. BlockSize * k \in Nat
      BY <1>1, <1>3
    <3>4. QED  BY <1>3, <3>1, <3>2, <3>3
  <2>3. CASE block_in_progress.published /\ k + 1 # N
    <3>1. Stored = BlockSize * (N - 1) + end
      BY <1>5, <2>3
    <3>2. N - 1 \in Nat /\ k + 1 <= N - 1 /\ k + 1 \in Nat
      BY <1>1, <2>3
    <3>3. BlockSize * (k + 1) <= BlockSize * (N - 1) /\ BlockSize * (N - 1) \in Nat
      BY <1>3, <3>2, TimesMonotonic
    <3>4. BlockSize * (k + 1) = BlockSize * k + BlockSize /\ BlockSize * k \in Nat
      BY <1>1, <1>3
    <3>5. QED  BY <1>3, <3>1, <3>3, <3>4
  <2>4. QED  BY <2>1, <2>2, <2>3
<1>7. BlockSize * k = k * BlockSize
  BY <1>1, <1>3
<1>8. k * BlockSize + size <= Stored
  BY <1>6, <1>7
<1>9. QED  BY <1>2, <1>4, <1>8 DEF k, size

-----------------------------------------------------------------------------
(***************************************************************************)
(* Every step is a step of the stream or changes nothing the stream has.   *)
(***************************************************************************)
Simulated == Stream!Next \/ UNCHANGED Stream!vars

Pending == {"first", "seek", "fread", "next", "reap"} \cup Deleting

SameStream == Stored' = Stored /\ complete' = complete

(* A new range: the installer's, or the same one over again. *)
LEMMA SimulatedAsk ==
  ASSUME NEW r, Readers = {r}, SameStream, reader[r].pc \in {"idle", "ret"},
         reader'[r].pc = "first",
         reader'[r].off \in 0..StreamLen, reader'[r].len \in 1..StreamLen
  PROVE  Simulated
<1> DEFINE req == [q \in Readers |-> AbstractRequest(q)]
<1>1. AbstractRequest(r).state # "pending"
  BY DEF AbstractRequest
<1>2. AbstractRequest(r)' = [state |-> "pending", off |-> reader'[r].off,
                             len |-> reader'[r].len, reply |-> <<>>]
  BY DEF AbstractRequest
<1>3. req' = [req EXCEPT ![r] = [state |-> "pending", off |-> reader'[r].off,
                                 len |-> reader'[r].len, reply |-> <<>>]]
  BY <1>2
<1>4. req[r].state # "pending"
  BY <1>1
<1>5. Stream!Ask(r)
  BY <1>3, <1>4 DEF Stream!Ask, SameStream
<1>6. QED  BY <1>5 DEF Simulated, Stream!Next

(* A request that gets its reply is the record of a request replied to. *)
LEMMA ReplyRecord ==
  ASSUME NEW off, NEW len, NEW reply
  PROVE  [[state |-> "pending", off |-> off, len |-> len, reply |-> <<>>]
            EXCEPT !.state = "replied", !.reply = reply]
         = [state |-> "replied", off |-> off, len |-> len, reply |-> reply]
<1> DEFINE R == [state : {"pending", "replied"}, off : {off}, len : {len}, reply : {<<>>, reply}]
           x == [state |-> "pending", off |-> off, len |-> len, reply |-> <<>>]
           y == [state |-> "replied", off |-> off, len |-> len, reply |-> reply]
           z == [x EXCEPT !.state = "replied", !.reply = reply]
<1>1. x \in R /\ y \in R
  OBVIOUS
<1> HIDE DEF x
<1>2. z \in R /\ z.state = "replied" /\ z.off = x.off /\ z.len = x.len /\ z.reply = reply
  BY <1>1
<1>3. x.off = off /\ x.len = len
  BY DEF x
<1>4. y.state = "replied" /\ y.off = off /\ y.len = len /\ y.reply = reply
  OBVIOUS
<1> HIDE DEF y, z
<1>5. z = y
  BY <1>1, <1>2, <1>3, <1>4
<1>6. QED  BY <1>5 DEF x, y, z

(* Read comes back. *)
LEMMA SimulatedReply ==
  ASSUME NEW r, Readers = {r}, SameStream, reader[r].pc \in Pending,
         reader'[r].pc = "ret",
         reader'[r].off = reader[r].off, reader'[r].len = reader[r].len,
         NEW n \in 0..reader[r].len,
         reader'[r].buf = Bytes(reader[r].off, n),
         n > 0 => reader[r].off + n <= Stored,
         n < reader[r].len => complete
  PROVE  Simulated
<1> DEFINE req == [q \in Readers |-> AbstractRequest(q)]
<1>1. AbstractRequest(r) = [state |-> "pending", off |-> reader[r].off,
                            len |-> reader[r].len, reply |-> <<>>]
  BY DEF AbstractRequest, Pending, Deleting
<1>2. AbstractRequest(r)' = [state |-> "replied", off |-> reader[r].off,
                             len |-> reader[r].len, reply |-> Bytes(reader[r].off, n)]
  BY DEF AbstractRequest
<1>3. Bytes(reader[r].off, n) = Stream!Positions(reader[r].off, n)
  BY DEF Bytes, Stream!Positions
<1> DEFINE bytes == Stream!Positions(reader[r].off, n)
<1>4. req[r].state = "pending" /\ req[r].off = reader[r].off /\ req[r].len = reader[r].len
  BY <1>1
<1>7. req' = [req EXCEPT ![r].state = "replied", ![r].reply = Stream!Positions(req[r].off, n)]
  <2>1. [AbstractRequest(r) EXCEPT !.state = "replied", !.reply = bytes] = AbstractRequest(r)'
    <3> HIDE DEF bytes
    <3>1. AbstractRequest(r)' = [state |-> "replied", off |-> reader[r].off,
                                 len |-> reader[r].len, reply |-> bytes]
      BY <1>2, <1>3 DEF bytes
    <3> DEFINE ar == AbstractRequest(r)
    <3>2. ar = [state |-> "pending", off |-> reader[r].off, len |-> reader[r].len, reply |-> <<>>]
      BY <1>1
    <3> HIDE DEF ar
    <3>3. [ar EXCEPT !.state = "replied", !.reply = bytes]
          = [state |-> "replied", off |-> reader[r].off, len |-> reader[r].len, reply |-> bytes]
      BY <3>2, ReplyRecord
    <3>4. QED  BY <3>1, <3>3, Zenon DEF ar
  <2> HIDE DEF bytes
  <2>2. req' = [req EXCEPT ![r].state = "replied", ![r].reply = bytes]
    BY <2>1
  <2>3. QED  BY <1>4, <2>2 DEF bytes
<1>5. Stream!Reply(r)
  BY <1>4, <1>7 DEF Stream!Reply, SameStream
<1>6. QED  BY <1>5 DEF Simulated, Stream!Next

(* The range is served. *)
LEMMA SimulatedForget ==
  ASSUME NEW r, Readers = {r}, SameStream, reader[r].pc = "ret", NEW n,
         reader'[r] = IdleReader(n)
  PROVE  Simulated
<1> DEFINE req == [q \in Readers |-> AbstractRequest(q)]
<1>1. AbstractRequest(r).state = "replied"
  BY DEF AbstractRequest
<1>2. AbstractRequest(r)' = Stream!Idle
  BY DEF AbstractRequest, Stream!Idle, IdleReader
<1>3. req[r].state = "replied" /\ req' = [req EXCEPT ![r] = Stream!Idle]
  BY <1>1, <1>2
<1>4. Stream!Forget(r)
  BY <1>3 DEF Stream!Forget, SameStream
<1>5. QED  BY <1>4 DEF Simulated, Stream!Next

(* Read goes on. *)
LEMMA SimulatedStutter ==
  ASSUME NEW r, Readers = {r}, SameStream,
         \/ reader' = reader
         \/ /\ reader[r].pc \in Pending /\ reader'[r].pc \in Pending
            /\ reader'[r].off = reader[r].off /\ reader'[r].len = reader[r].len
  PROVE  Simulated
<1>1. AbstractRequest(r)' = AbstractRequest(r)
  BY DEF AbstractRequest, Pending, Deleting
<1>2. QED  BY <1>1 DEF Simulated, Stream!vars, SameStream

LEMMA SameBytes ==
  ASSUME NEW s \in Seq(Nat), NEW t \in Seq(Nat), Len(s) = Len(t),
         NEW off, \A i \in DOMAIN s : s[i] = off + i - 1,
         \A i \in 1..Len(t) : t[i] = off + i - 1
  PROVE  s = t
<1>1. \A i \in 1..Len(s) : s[i] = t[i]
  OBVIOUS
<1>2. QED  BY <1>1, SeqEqual

(* The reader's steps. *)
LEMMA RefineReader ==
  ASSUME NEW r, Readers = {r}, Inv, TypeInv', ListInv', PublishedLast', Ask(r) \/ ReadStep(r)
  PROVE  RefineInv' /\ Simulated
<1>0. /\ r \in Readers
      /\ TypeInv /\ ListInv /\ ReadInv /\ WriterIsCloser /\ FromSource /\ PublishedLast
      /\ InRange(r) /\ HoldsStored(r)
  BY DEF Inv, RefineInv
<1>1. /\ reader[r] \in ReaderState
      /\ Len(reader[r].buf) \in Nat /\ reader[r].off \in Nat /\ reader[r].len \in Nat
      /\ reader[r].num \in Nat /\ reader[r].buf \in Seq(Nat)
      /\ Len(reader[r].buf) <= reader[r].len
  <2>1. reader[r] \in ReaderState /\ Len(reader[r].buf) <= reader[r].len
    BY <1>0 DEF TypeInv, TypeOK, Fits
  <2>2. /\ reader[r].off \in Nat /\ reader[r].len \in Nat /\ reader[r].num \in Nat
        /\ reader[r].buf \in Seq(Nat)
    BY <2>1 DEF ReaderState
  <2>3. QED  BY <2>1, <2>2
<1>2. UNCHANGED <<block_in_progress, complete, write_offset, writer, closer>>
  BY <1>0, ReaderKeepsShape
<1>3. Stored' = Stored /\ SameStream /\ Stored \in Nat
  BY <1>0, <1>2, StoredByCounters DEF SameStream
<1>4. WriterIsCloser' /\ FromSource' /\ PublishedLast'
  BY <1>0, <1>2 DEF WriterIsCloser, FromSource
<1>5. SUFFICES InRange(r)' /\ HoldsStored(r)' /\ Simulated
  BY <1>4 DEF RefineInv
<1>6. CASE reader' = reader
  <2>1. InRange(r)' /\ HoldsStored(r)'
    BY <1>0, <1>2, <1>3, <1>6 DEF InRange, HoldsStored
  <2>2. QED  BY <1>3, <1>6, <2>1, SimulatedStutter
<1>7. ASSUME NEW x \in ReaderState, reader' = [reader EXCEPT ![r] = StartRead(x)],
             x.off \in 0..StreamLen, x.len \in 1..StreamLen, reader[r].pc \in {"idle", "ret"}
      PROVE  InRange(r)' /\ HoldsStored(r)' /\ Simulated
  <2>1. reader'[r] = StartRead(x)
    BY <1>0, <1>7 DEF TypeInv, TypeOK
  <2>2. /\ reader'[r].pc = "first" /\ reader'[r].buf = <<>>
        /\ reader'[r].off = x.off /\ reader'[r].len = x.len
    BY <2>1 DEF StartRead, ReaderState
  <2>3. InRange(r)' /\ HoldsStored(r)'
    BY <1>7, <2>2 DEF InRange, HoldsStored, Deleting
  <2>4. Simulated
    BY <1>3, <1>7, <2>2, SimulatedAsk
  <2>5. QED  BY <2>3, <2>4
<1>8. CASE Ask(r)
  <2>1. PICK off \in 0..(StreamLen - 1), len \in 1..MaxLen :
          /\ off + len <= StreamLen
          /\ reader' = [reader EXCEPT ![r] =
                       StartRead([@ EXCEPT !.off = off, !.len = len, !.body = <<>>,
                                           !.asked = reader[r].asked + 1])]
    BY <1>8 DEF Ask
  <2>2. /\ off \in Nat /\ len \in Nat /\ reader[r].asked + 1 \in 0..MaxRequests
        /\ off \in 0..StreamLen /\ len \in 1..StreamLen
    <3>1. reader[r].asked \in 0..MaxRequests
      BY <1>1 DEF ReaderState
    <3>2. reader[r].asked < MaxRequests
      BY <1>8 DEF Ask
    <3>3. QED  BY <2>1, <3>1, <3>2, SplitFileAssumption
  <2> DEFINE x == [reader[r] EXCEPT !.off = off, !.len = len, !.body = <<>>,
                                    !.asked = reader[r].asked + 1]
  <2>3. x \in ReaderState
    BY <1>1, <2>2, RangeUpdate
  <2>4. x.off = off /\ x.len = len
    BY <1>1 DEF ReaderState
  <2>5. reader' = [reader EXCEPT ![r] = StartRead(x)] /\ reader[r].pc = "idle"
    BY <1>8, <2>1 DEF Ask
  <2> HIDE DEF x
  <2>6. QED  BY <1>7, <2>2, <2>3, <2>4, <2>5
<1>9. CASE Serve(r)
  <2> DEFINE sent == reader[r].body \o reader[r].buf
             x == [reader[r] EXCEPT !.body = sent]
  <2>1. \/ reader' = [reader EXCEPT ![r] = IdleReader(reader[r].asked)]
        \/ reader' = [reader EXCEPT ![r] = StartRead(x)]
    BY <1>9 DEF Serve
  <2>2. x \in ReaderState /\ x.off = reader[r].off /\ x.len = reader[r].len
    <3>1. sent \in Seq(Nat)
      BY <1>1 DEF ReaderState
    <3> HIDE DEF sent
    <3>2. QED  BY <1>1, <3>1 DEF ReaderState
  <2>3. reader[r].pc = "ret"
    BY <1>9 DEF Serve
  <2>4. reader[r].off \in 0..StreamLen /\ reader[r].len \in 1..StreamLen
    BY <1>0, <2>3 DEF InRange
  <2> HIDE DEF x
  <2>5. CASE reader' = [reader EXCEPT ![r] = IdleReader(reader[r].asked)]
    <3>1. reader'[r] = IdleReader(reader[r].asked)
      BY <1>0, <2>5 DEF TypeInv, TypeOK
    <3>2. InRange(r)' /\ HoldsStored(r)'
      BY <3>1 DEF InRange, HoldsStored, IdleReader
    <3>3. QED  BY <1>3, <2>3, <3>1, <3>2, SimulatedForget
  <2>6. CASE reader' = [reader EXCEPT ![r] = StartRead(x)]
    BY <1>7, <2>2, <2>3, <2>4, <2>6
  <2>7. QED  BY <2>1, <2>5, <2>6
<1>10. CASE ReadFirst(r)
  <2>1. CASE UNCHANGED reader
    BY <1>6, <2>1
  <2>2. CASE reader' = [reader EXCEPT ![r].pc = IF InList(r) /\ ~PastEnd(r) THEN "seek" ELSE "ret"]
    <3>1. /\ reader'[r].pc = IF InList(r) /\ ~PastEnd(r) THEN "seek" ELSE "ret"
          /\ reader'[r].buf = reader[r].buf
          /\ reader'[r].off = reader[r].off /\ reader'[r].len = reader[r].len
          /\ reader[r].pc = "first"
      BY <1>0, <1>1, <1>10, <2>2 DEF TypeInv, TypeOK, ReaderState, ReadFirst
    <3>2. InRange(r)' /\ HoldsStored(r)'
      BY <1>0, <1>2, <1>3, <3>1 DEF InRange, HoldsStored, Deleting
    <3>3. CASE InList(r) /\ ~PastEnd(r)
      BY <1>3, <3>1, <3>2, <3>3, SimulatedStutter DEF Pending
    <3>4. CASE ~(InList(r) /\ ~PastEnd(r))
      <4>1. complete
        BY <1>10, <3>4 DEF ReadFirst, PastEnd
      <4>2. reader[r].buf = <<>>
        BY <1>0, <3>1 DEF HoldsStored
      <4>3. Bytes(reader[r].off, 0) = <<>>
        BY DEF Bytes
      <4>4. 0 \in 0..reader[r].len
        BY <1>1
      <4>5. QED  BY <1>3, <3>1, <3>2, <3>4, <4>1, <4>2, <4>3, <4>4, SimulatedReply DEF Pending
    <3>5. QED  BY <3>3, <3>4
  <2>3. QED  BY <1>10, <2>1, <2>2 DEF ReadFirst, Undefined
<1>11. ASSUME NEW p \in Pending \ {"first"}, reader[r].pc \in Pending,
             reader'[r].pc = p, reader'[r].buf = reader[r].buf,
             reader'[r].off = reader[r].off, reader'[r].len = reader[r].len,
             \/ p \notin {"reap"} \cup Deleting
             \/ complete
             \/ reader[r].pc \in {"reap"} \cup Deleting
      PROVE  InRange(r)' /\ HoldsStored(r)' /\ Simulated
  <2>1. InRange(r)' /\ HoldsStored(r)'
    BY <1>0, <1>2, <1>3, <1>11 DEF InRange, HoldsStored, Pending, Deleting
  <2>2. Simulated
    BY <1>3, <1>11, SimulatedStutter
  <2>3. QED  BY <2>1, <2>2
<1>12. ASSUME NEW p \in Pending, reader' = [reader EXCEPT ![r].pc = p]
      PROVE  /\ reader'[r].pc = p /\ reader'[r].buf = reader[r].buf
             /\ reader'[r].off = reader[r].off /\ reader'[r].len = reader[r].len
  BY <1>0, <1>1, <1>12 DEF TypeInv, TypeOK, ReaderState
<1>13. CASE ReadSeek(r)
  <2>1. reader[r].pc = "seek"
    BY <1>13 DEF ReadSeek
  <2>2. CASE reader' = [reader EXCEPT ![r].pc = "fread"]
    BY <1>11, <1>12, <2>1, <2>2 DEF Pending, Deleting
  <2>3. QED  BY <1>6, <1>13, <2>2 DEF ReadSeek, Undefined
<1>14. CASE ReadFails(r)
  BY <1>6, <1>14 DEF ReadFails, Undefined
<1>15. CASE ReadNext(r)
  <2>1. reader[r].pc = "next" /\ (InList(r) \/ complete)
    BY <1>15 DEF ReadNext
  <2>2. CASE reader' = [reader EXCEPT ![r].pc = IF InList(r) THEN "seek" ELSE "reap"]
    BY <1>11, <1>12, <2>1, <2>2 DEF Pending, Deleting
  <2>3. QED  BY <1>6, <1>15, <2>2 DEF ReadNext, Undefined
<1>16. CASE ReapStep(r)
  <2>1. CASE Undefined("delete_race")
    BY <1>6, <2>1 DEF Undefined
  <2>2. CASE ~Undefined("delete_race")
    <3>1. /\ reader[r].pc \in {"reap"} \cup Deleting
          /\ \E p \in {"reap"} \cup Deleting, n \in Nat :
               reader' = [reader EXCEPT ![r] = [reader[r] EXCEPT !.pc = p, !.j = n]]
      BY <1>0, <1>16, <2>2, ReaderReaps
    <3>2. PICK p \in {"reap"} \cup Deleting, n \in Nat :
            reader' = [reader EXCEPT ![r] = [reader[r] EXCEPT !.pc = p, !.j = n]]
      BY <3>1
    <3>3. /\ reader'[r].pc = p /\ reader'[r].buf = reader[r].buf
          /\ reader'[r].off = reader[r].off /\ reader'[r].len = reader[r].len
      BY <1>0, <1>1, <3>2 DEF TypeInv, TypeOK, ReaderState
    <3>4. p \in Pending \ {"first"} /\ reader[r].pc \in Pending
      BY <3>1 DEF Pending, Deleting
    <3>5. QED  BY <1>11, <3>1, <3>3, <3>4
  <2>3. QED  BY <2>1, <2>2
<1>17. CASE ReadReturn(r)
  <2>1. /\ reader' = [reader EXCEPT ![r].pc = "ret"]
        /\ reader[r].pc = "reap"
    BY <1>17 DEF ReadReturn
  <2>2. /\ reader'[r].pc = "ret" /\ reader'[r].buf = reader[r].buf
        /\ reader'[r].off = reader[r].off /\ reader'[r].len = reader[r].len
    BY <1>0, <1>1, <2>1 DEF TypeInv, TypeOK, ReaderState
  <2>3. InRange(r)' /\ HoldsStored(r)'
    BY <1>0, <1>2, <1>3, <2>1, <2>2 DEF InRange, HoldsStored, Deleting
  <2> DEFINE n == Len(reader[r].buf)
  <2>4. reader[r].buf = Bytes(reader[r].off, n)
    <3>1. \A i \in DOMAIN reader[r].buf : reader[r].buf[i] = reader[r].off + i - 1
      BY <1>0 DEF ReadInv, ReadRight
    <3>2. /\ Bytes(reader[r].off, n) \in Seq(Nat) /\ Len(Bytes(reader[r].off, n)) = n
          /\ \A i \in 1..n : Bytes(reader[r].off, n)[i] = reader[r].off + i - 1
      BY <1>1, BytesType
    <3> DEFINE b == Bytes(reader[r].off, n)
    <3> HIDE DEF b, n
    <3>3. Len(reader[r].buf) = n
      BY DEF n
    <3>4. reader[r].buf = b
      <4>1. /\ b \in Seq(Nat) /\ Len(reader[r].buf) = Len(b)
            /\ \A i \in 1..Len(b) : b[i] = reader[r].off + i - 1
        BY <3>2, <3>3 DEF b
      <4>2. reader[r].buf \in Seq(Nat)
        BY <1>1
      <4>3. QED  BY <3>1, <4>1, <4>2, SameBytes, Zenon
    <3>5. QED  BY <3>4 DEF b
  <2>5. n \in 0..reader[r].len /\ (n > 0 => reader[r].off + n <= Stored)
        /\ (n < reader[r].len => complete)
    BY <1>0, <1>1, <2>1 DEF HoldsStored
  <2>6. Simulated
    <3> HIDE DEF n
    <3>1. QED  BY <1>3, <2>1, <2>2, <2>4, <2>5, SimulatedReply DEF Pending
  <2>7. QED  BY <2>3, <2>6
<1>18. CASE ReadBytes(r)
  <2>1. CASE reader' = [reader EXCEPT
               ![r].buf = @ \o Bytes(From(r), Delivered(r)),
               ![r].pc = IF Served(r) THEN "reap" ELSE "next",
               ![r].num = IF Served(r) THEN @ ELSE @ + 1,
               ![r].boff = IF Served(r) THEN @ ELSE NextOffset(r)]
    <3> DEFINE n == Delivered(r)
               out == reader[r].buf \o Bytes(From(r), n)
    <3>1. reader[r].pc = "fread" /\ InList(r)
      BY <1>0, <1>18 DEF TypeInv, Found, ReadBytes
    <3>2. /\ reader[r].num * BlockSize + Slot(r).size <= Stored
          /\ Slot(r).is_last => complete
          /\ Slot(r) \in FileBlock
      BY <1>0, <3>1, SlotStored
    <3>3. n \in Nat /\ n <= Remaining(r) /\ (n > 0 => Slot(r).at + n <= Slot(r).size)
      <4>1. n \in Nat /\ n <= Remaining(r)
        BY <1>0, <3>2, DeliveredFits
      <4>2. Slot(r).at \in 0..BlockSize /\ Slot(r).size \in 0..BlockSize
        BY <3>2 DEF FileBlock
      <4>3. Remaining(r) \in Nat
        BY <1>1 DEF Remaining
      <4>4. Slot(r).data = Slot(r).size
        <5>1. reader[r].num + 1 \in DOMAIN file_blocks
          BY <1>0, <1>1, <3>1 DEF TypeInv, TypeOK, InList
        <5>2. QED  BY <1>0, <5>1 DEF ReadInv, WholeFiles, Slot
      <4>5. n > 0 => Slot(r).at + n <= Slot(r).size
        BY <4>2, <4>3, <4>4, SplitFileAssumption DEF Delivered, MinOf, MaxOf
      <4>6. QED  BY <4>1, <4>5
    <3>4. From(r) = reader[r].off + Len(reader[r].buf) /\ From(r) \in Nat
      <4>1. /\ Slot(r).at = reader[r].boff
            /\ reader[r].num * BlockSize + reader[r].boff = reader[r].off + Len(reader[r].buf)
        BY <1>0, <3>1 DEF ReadInv, Positioned, AtNextByte, Looking
      <4>2. QED  BY <1>1, <4>1 DEF From
    <3>5. Len(out) = Len(reader[r].buf) + n
      <4>1. Bytes(From(r), n) \in Seq(Nat) /\ Len(Bytes(From(r), n)) = n
        BY <3>3, <3>4, BytesType, Zenon
      <4> DEFINE b == Bytes(From(r), n)
      <4> HIDE DEF b, n
      <4>2. QED  BY <1>1, <4>1, ConcatProperties DEF b
    <3>6. /\ reader'[r].pc = IF Served(r) THEN "reap" ELSE "next"
          /\ reader'[r].buf = out
          /\ reader'[r].off = reader[r].off /\ reader'[r].len = reader[r].len
      BY <1>0, <1>1, <2>1 DEF TypeInv, TypeOK, ReaderState
    <3>7. n > 0 => reader[r].off + (Len(reader[r].buf) + n) <= Stored
      <4> DEFINE k == reader[r].num * BlockSize
                 at == Slot(r).at
                 size == Slot(r).size
                 got == reader[r].off + Len(reader[r].buf)
      <4>1. k \in Nat /\ at \in Nat /\ size \in Nat /\ got = k + at /\ k + size <= Stored
        <5>1. Slot(r).at \in 0..BlockSize /\ Slot(r).size \in 0..BlockSize
          BY <3>2 DEF FileBlock
        <5>2. reader[r].num * BlockSize \in Nat
          BY <1>1, SplitFileAssumption
        <5>3. QED  BY <3>2, <3>4, <5>1, <5>2, SplitFileAssumption DEF From
      <4>2. n > 0 => at + n <= size
        BY <3>3
      <4> HIDE DEF k, at, size, got, n
      <4>3. n > 0 => got + n <= Stored
        BY <1>3, <3>3, <4>1, <4>2
      <4>4. got + n = reader[r].off + (Len(reader[r].buf) + n)
        <5>1. n \in Nat
          BY <3>3
        <5>2. \A a, b, c \in Nat : (a + b) + c = a + (b + c)
          OBVIOUS
        <5>3. QED  BY <1>1, <5>1, <5>2, Zenon DEF got
      <4>5. QED  BY <4>3, <4>4
    <3>8. Served(r) => Len(out) = reader[r].len \/ complete
      <4>1. n = Remaining(r) => Len(out) = reader[r].len
        <5> HIDE DEF n, out
        <5>1. QED  BY <1>1, <3>3, <3>5 DEF Remaining
      <4>2. QED  BY <3>2, <4>1 DEF Served
    <3> HIDE DEF n, out
    <3>9. HoldsStored(r)'
      <4>1. Len(out) > 0 => reader[r].off + Len(out) <= Stored
        BY <1>0, <1>1, <1>3, <3>3, <3>5, <3>7 DEF HoldsStored
      <4>2. QED  BY <1>2, <1>3, <3>6, <3>8, <4>1 DEF HoldsStored, Deleting
    <3>10. InRange(r)'
      BY <1>0, <3>1, <3>6 DEF InRange
    <3>11. Simulated
      BY <1>3, <3>1, <3>6, SimulatedStutter DEF Pending
    <3>12. QED  BY <3>9, <3>10, <3>11
  <2>2. QED  BY <1>6, <1>18, <2>1 DEF ReadBytes, Undefined
<1>20. QED
  BY <1>8, <1>9, <1>10, <1>13, <1>14, <1>15, <1>16, <1>17, <1>18 DEF ReadStep, ReapStep

(* Nothing the writer or Close does changes what a reader holds, and what  *)
(* it holds stays stored.                                                  *)
LEMMA RefineOthers ==
  ASSUME TypeInv, TypeInv', ListInv, ListInv', PublishedLast', RefineInv,
         UNCHANGED reader, WriterIsCloser', FromSource', Stored' >= Stored,
         complete => complete'
  PROVE  RefineInv'
<1>1. ASSUME NEW r \in Readers
      PROVE  InRange(r)' /\ HoldsStored(r)'
  <2>1. InRange(r) /\ HoldsStored(r)
    BY DEF RefineInv
  <2>2. Stored \in Nat /\ Stored' \in Nat
    BY StoredByCounters
  <2>3. reader[r].off \in Nat /\ Len(reader[r].buf) \in Nat
    BY DEF TypeInv, TypeOK, ReaderState
  <2>4. QED  BY <2>1, <2>2, <2>3 DEF InRange, HoldsStored
<1>2. QED  BY <1>1 DEF RefineInv

LEMMA RefineInit ==
  ASSUME Init PROVE RefineInv /\ Stream!Init
<1>1. RefineInv
  BY SplitFileAssumption DEF Init, RefineInv, WriterIsCloser, FromSource, PublishedLast, InRange,
     HoldsStored, IdleReader, Closers
<1>2. Stored = 0
  BY SplitFileAssumption DEF Init, Stored
<1>3. \A r \in Readers : AbstractRequest(r) = Stream!Idle
  BY DEF Init, AbstractRequest, IdleReader, Stream!Idle
<1>4. QED  BY <1>1, <1>2, <1>3 DEF Init, Stream!Init

(* Without a clean-up beside the writer every step keeps the invariant and *)
(* is one of the stream's.                                                 *)
LEMMA RefineNext ==
  ASSUME NEW r, Readers = {r}, ~FlushMayFail, Cleaner = FALSE, Inv, [Next]_vars
  PROVE  Inv' /\ Simulated
<1>0. TypeInv /\ ListInv /\ ReadInv /\ RefineInv /\ WriterIsCloser /\ FromSource /\ PublishedLast
  BY DEF Inv, RefineInv
<1>1. TypeInv' /\ ListInv' /\ ReadInv'
  BY <1>0, TypeNext, ListNext, ReadInvNext
<1>2. PublishedLast'
  BY <1>0, PublishedLastNext
<1>3. Stored \in Nat /\ Stored' \in Nat
  BY <1>0, <1>1, StoredByCounters
<1>4. SUFFICES RefineInv' /\ Simulated
  BY <1>1 DEF Inv
<1>5. CASE WriterStep
  <2>1. /\ Stored' = Stored \/ (~complete /\ Stored' > Stored)
        /\ FromSource' /\ WriterIsCloser'
        /\ UNCHANGED <<complete, reader>>
    BY <1>0, <1>1, <1>5, WriterStores
  <2>2. RefineInv'
    BY <1>0, <1>1, <1>2, <1>3, <2>1, RefineOthers
  <2>3. CASE Stored' = Stored
    BY <2>1, <2>2, <2>3, SimulatedStutter DEF SameStream
  <2>4. CASE ~complete /\ Stored' > Stored
    <3>1. Stored' <= StreamLen
      <4>1. Stored' = write_offset' + writer'.put
        BY <1>0, <1>1, StoredByCounters
      <4>2. writer'.left \in Nat /\ writer'.put \in Nat /\ write_offset' \in Nat /\ writer'.taken \in Nat
        BY <1>1 DEF TypeInv, TypeOK, WriterState
      <4>3. QED  BY <2>1, <4>1, <4>2, SplitFileAssumption DEF FromSource
    <3>2. Stored' \in (Stored + 1)..StreamLen
      BY <1>3, <2>4, <3>1, SplitFileAssumption
    <3>3. UNCHANGED [q \in Readers |-> AbstractRequest(q)]
      BY <2>1 DEF AbstractRequest
    <3>4. Stream!Extend
      BY <2>1, <2>4, <3>2, <3>3 DEF Stream!Extend
    <3>5. QED  BY <2>2, <3>4 DEF Simulated, Stream!Next
  <2>5. QED  BY <2>1, <2>2, <2>3, <2>4
<1>6. ASSUME NEW c \in Closers, CloserStep(c)
      PROVE  RefineInv' /\ Simulated
  <2>1. /\ Stored' = Stored /\ FromSource' /\ WriterIsCloser' /\ UNCHANGED reader
        /\ complete' = complete \/ complete' = TRUE
    BY <1>0, <1>1, <1>6, CloserStores
  <2>2. complete \in BOOLEAN /\ complete' \in BOOLEAN
    BY <1>0, <1>1 DEF TypeInv, TypeOK
  <2>3. RefineInv'
    BY <1>0, <1>1, <1>2, <1>3, <2>1, <2>2, RefineOthers
  <2>4. CASE complete' = complete
    BY <2>1, <2>3, <2>4, SimulatedStutter DEF SameStream
  <2>5. CASE ~complete /\ complete' = TRUE
    <3>1. UNCHANGED [q \in Readers |-> AbstractRequest(q)]
      BY <2>1 DEF AbstractRequest
    <3>2. Stream!Close
      BY <2>1, <2>5, <3>1 DEF Stream!Close
    <3>3. QED  BY <2>3, <3>2 DEF Simulated, Stream!Next
  <2>6. QED  BY <2>1, <2>2, <2>4, <2>5
<1>7. ASSUME Ask(r) \/ ReadStep(r)
      PROVE  RefineInv' /\ Simulated
  BY <1>1, <1>2, <1>7, RefineReader
<1>8. CASE UNCHANGED vars
  <2>1. /\ UNCHANGED <<reader, complete, writer, write_offset, closer, file_blocks, block_in_progress>>
    BY <1>8 DEF vars
  <2>2. Stored' = Stored
    BY <2>1 DEF Stored
  <2>3. WriterIsCloser' /\ FromSource'
    BY <1>0, <2>1 DEF WriterIsCloser, FromSource
  <2>4. RefineInv'
    BY <1>0, <1>1, <1>2, <1>3, <2>1, <2>2, <2>3, RefineOthers
  <2>5. QED  BY <2>1, <2>2, <2>4, SimulatedStutter DEF SameStream
<1>9. ~CleanerStarts
  BY DEF CleanerStarts
<1>10. QED
  BY <1>5, <1>6, <1>7, <1>8, <1>9, Zenon DEF Next, Quiet

(* One reader, one writer that closes the file itself, and no bytes lost   *)
(* by fclose: SplitFile does what ByteStream says, for every block size,   *)
(* stream, chunking, number of other failing operations and timing of      *)
(* Close.  In particular a reply is a prefix of its range, of bytes stored *)
(* already, and is cut short only when the file has been closed.           *)
THEOREM ImplementsStreamAlways ==
  ASSUME NEW r, Readers = {r}, ~FlushMayFail, Cleaner = FALSE
  PROVE  Spec => ImplementsStream
<1>1. Init => Inv /\ Stream!Init
  BY TypeInit, ListInit, ReadInit, RefineInit DEF Inv
<1>2. Inv /\ [Next]_vars => Inv' /\ [Stream!Next]_(Stream!vars)
  BY RefineNext DEF Simulated
<1>3. QED  BY <1>1, <1>2, PTL DEF Spec, ImplementsStream, Stream!Spec
-----------------------------------------------------------------------------
(***************************************************************************)
(* No undefined behaviour, with one installer that reads front to back,    *)
(* one writer that closes the file itself and nothing that fails.  Close   *)
(* takes the file names away only when every range has been asked for and  *)
(* got: read_offset is the length of the stream only then, and the wait    *)
(* does not run out before.                                                *)
(***************************************************************************)

(* Nothing of the stream is lost, and the block in progress has its file.  *)
StreamWhole ==
  /\ writer.pc # "short" /\ ~stop_write_thread
  /\ write_offset + writer.put + writer.left = writer.taken
  /\ writer.pc \in {"start", "idle", "close", "done"} => writer.left = 0
  /\ writer.pc \in {"close", "done"} => writer.taken = StreamLen
  /\ writer.pc \in {"idle", "loop", "fwrite", "full"} => block_in_progress.fd = "open"

(* The whole package has been asked for and read.                          *)
Finished ==
  /\ cursor = StreamLen
  /\ \A r \in Readers :
       reader[r].pc = "idle" \/ (reader[r].pc = "ret" /\ Len(reader[r].buf) >= reader[r].len)

(* What Close has to see or to wait for before it is there.                *)
Waited ==
  /\ complete => closer["writer"].pc # "enter"
  /\ read_offset = StreamLen => Finished
  /\ Retries - closer["writer"].retries <= MaxStalls \/ Finished
  /\ closer["writer"].pc \in {"remove", "unlink", "done"} => Finished
  /\ \A i \in DOMAIN file_blocks :
       file_blocks[i].status = "CREATED" /\ ~file_blocks[i].on_disk => Finished

InOrder ==
  /\ cursor <= StreamLen
  /\ \A r \in Readers :
       /\ reader[r].pc # "idle" => reader[r].off + reader[r].len <= cursor
       /\ reader[r].pc = "fread" => Slot(r).fd = "open"

(* Read deletes blocks of the list, and the one it is at is still there    *)
(* until it has marked it; a closed FILE is the one it is about to forget. *)
Reaping ==
  /\ \A r \in Readers :
       /\ reader[r].pc \in {"next", "reap"} \cup Deleting =>
            BlockOf(reader[r].off) < Len(file_blocks)
       /\ reader[r].pc \in Deleting => reader[r].j < Len(file_blocks)
       /\ reader[r].pc \in {"close", "mark"} => Status(reader[r].j) = "CREATED"
  /\ \A i \in DOMAIN file_blocks : file_blocks[i].fd = "closed" =>
       \E r \in Readers : reader[r].pc = "mark" /\ reader[r].j = i - 1

(* So does the last loop of Close, which finds no reader in that of Read.  *)
Scanning ==
  /\ closer["writer"].j <= Len(file_blocks)
  /\ closer["writer"].pc = "unlink" =>
       closer["writer"].j < Len(file_blocks) /\ Status(closer["writer"].j) = "CREATED"

CrashInv == StreamWhole /\ Waited /\ InOrder /\ Reaping /\ Scanning /\ NoCrash

(* The bounds under which the program is safe: no more idle seconds than   *)
(* Close waits for, and a read_offset that is not by chance the length.    *)
Orderly ==
  /\ Cleaner = FALSE /\ Sequential = TRUE /\ DiskFaults = 0 /\ ~FlushMayFail
  /\ MaxStalls < Retries /\ StreamLen \notin GarbageReadOffsets
  /\ Lag <= KeepBlocks

LEMMA OpensBlock ==
  ASSUME DiskFaults = 0, TypeInv, NewBlock
  PROVE  block_in_progress'.fd = "open"
BY DEF NewBlock, TypeInv, TypeOK

(* A step of the writer.                                                   *)
LEMMA CrashWriter ==
  ASSUME Orderly, TypeInv, ListInv, WriterIsCloser, CrashInv, WriterStep
  PROVE  StreamWhole' /\ ub' = "none"
<1>0. /\ writer.put \in Nat /\ writer.left \in Nat /\ writer.taken \in Nat /\ write_offset \in Nat
      /\ writer \in WriterState /\ block_in_progress \in InProgress
      /\ faults = 0 /\ DiskFaults = 0 /\ ub = "none"
      /\ StreamWhole /\ stop_write_thread \in BOOLEAN
  BY DEF TypeInv, TypeOK, WriterState, Orderly, CrashInv, NoCrash
<1>1. CASE FWrite
  <2>1. writer.pc = "fwrite" /\ block_in_progress.fd = "open"
    BY <1>0, <1>1 DEF FWrite, StreamWhole
  <2> DEFINE want == MinOf(writer.left, BlockSize - block_in_progress.size)
  <2>2. PICK n \in 0..want :
          /\ n < want => faults < DiskFaults
          /\ block_in_progress' = [block_in_progress EXCEPT !.size = @ + n]
          /\ writer' = [writer EXCEPT
                     !.left = @ - n, !.put = @ + n,
                     !.pc = IF n < want THEN "short"
                            ELSE IF block_in_progress.size + n = BlockSize THEN "full"
                            ELSE "loop"]
          /\ UNCHANGED <<write_offset, stop_write_thread, ub>>
    BY <1>1, <2>1 DEF FWrite
  <2>3. n \in Nat /\ n <= writer.left /\ ~(n < want)
    <3>1. block_in_progress.size \in 0..BlockSize
      BY <1>0 DEF InProgress
    <3>2. QED  BY <1>0, <2>2, <3>1, SplitFileAssumption DEF MinOf
  <2> HIDE DEF want
  <2>4. /\ writer'.put = writer.put + n /\ writer'.left = writer.left - n
        /\ writer'.taken = writer.taken /\ writer'.pc \in {"full", "loop"}
        /\ block_in_progress'.fd = "open"
    BY <1>0, <2>1, <2>2, <2>3 DEF WriterState, InProgress
  <2>5. write_offset' + writer'.put + writer'.left = writer'.taken
    BY <1>0, <2>2, <2>3, <2>4 DEF StreamWhole
  <2>6. QED  BY <1>0, <2>2, <2>4, <2>5 DEF StreamWhole
<1>2. CASE BlockFull
  <2>1. block_in_progress.fd = "open"
    BY <1>0, <1>2 DEF BlockFull, StreamWhole
  <2>2. /\ writer' = [writer EXCEPT !.pc = "roll"] /\ writer.pc = "full"
        /\ UNCHANGED <<write_offset, stop_write_thread, ub>>
    BY <1>2, <2>1 DEF BlockFull
  <2>3. /\ writer'.pc = "roll" /\ writer'.put = writer.put
        /\ writer'.left = writer.left /\ writer'.taken = writer.taken
    BY <2>2, WriterMoves
  <2>4. QED  BY <1>0, <2>2, <2>3 DEF StreamWhole
<1>3. CASE Open \/ RollBlock
  <2>1. PICK p \in {"idle", "loop"} :
          /\ writer' = [writer EXCEPT !.pc = p]
          /\ p = "idle" => writer.pc = "start"
          /\ UNCHANGED <<write_offset, stop_write_thread, ub>>
          /\ NewBlock
    BY <1>3 DEF Open, RollBlock
  <2>2. /\ writer'.pc = p /\ writer'.put = writer.put
        /\ writer'.left = writer.left /\ writer'.taken = writer.taken
    BY <2>1, WriterMoves
  <2>3. block_in_progress'.fd = "open"
    BY <1>0, <2>1, OpensBlock
  <2>4. QED  BY <1>0, <2>1, <2>2, <2>3 DEF StreamWhole
<1>4. CASE SourceEnds \/ WriteLoop \/ WriterEnds
  <2>1. PICK p \in {"close", "fwrite", "done"} :
          /\ writer' = [writer EXCEPT !.pc = p]
          /\ p = "close" => writer.pc = "idle" /\ writer.taken = StreamLen
          /\ p = "fwrite" => writer.pc = "loop"
          /\ p = "done" => writer.pc = "close"
          /\ UNCHANGED <<write_offset, stop_write_thread, ub, block_in_progress>>
    BY <1>0, <1>4 DEF SourceEnds, WriteLoop, WriterEnds, StreamWhole
  <2>2. /\ writer'.pc = p /\ writer'.put = writer.put
        /\ writer'.left = writer.left /\ writer'.taken = writer.taken
    BY <2>1, WriterMoves
  <2>3. QED  BY <1>0, <2>1, <2>2 DEF StreamWhole
<1>5. CASE WriteCall
  <2>1. ~complete /\ writer.pc = "idle"
    BY <1>5 DEF WriteCall, WriterIsCloser
  <2>2. PICK n \in 1..MinOf(MaxChunk, StreamLen - writer.taken) :
          /\ writer' = [writer EXCEPT !.pc = "loop", !.left = n, !.put = 0, !.taken = @ + n]
          /\ UNCHANGED <<write_offset, stop_write_thread, ub, block_in_progress>>
    BY <1>5, <2>1 DEF WriteCall
  <2>3. n \in Nat /\ writer.put = 0 /\ writer.left = 0
    BY <1>0, <2>1, SplitFileAssumption DEF MinOf, ListInv, Counted, StreamWhole
  <2>4. /\ writer'.pc = "loop" /\ writer'.put = 0 /\ writer'.left = n
        /\ writer'.taken = writer.taken + n
    BY <1>0, <2>2 DEF WriterState
  <2>5. write_offset' + writer'.put + writer'.left = writer'.taken
    BY <1>0, <2>2, <2>3, <2>4 DEF StreamWhole
  <2>6. block_in_progress'.fd = "open"
    BY <1>0, <2>1, <2>2 DEF StreamWhole
  <2>7. QED  BY <1>0, <2>2, <2>4, <2>5, <2>6 DEF StreamWhole
<1>6. CASE WriteReturn
  <2>1. writer.pc = "loop" /\ writer.left = 0
    BY <1>0, <1>6 DEF WriteReturn, StreamWhole, WriterIsCloser
  <2>2. /\ write_offset' = write_offset + writer.put
        /\ writer'.pc = "idle" /\ writer'.put = 0 /\ writer'.left = 0
        /\ writer'.taken = writer.taken
        /\ UNCHANGED <<stop_write_thread, ub, block_in_progress>>
    BY <1>0, <1>6, <2>1 DEF WriteReturn, CountWritten, AfterWrite, WriterState
  <2>3. write_offset' + writer'.put + writer'.left = writer'.taken
    BY <1>0, <2>1, <2>2 DEF StreamWhole
  <2>4. block_in_progress'.fd = "open"
    BY <1>0, <2>1, <2>2 DEF StreamWhole
  <2>5. QED  BY <1>0, <2>2, <2>3, <2>4 DEF StreamWhole
<1>7. CASE WriterCloses
  BY <1>0, <1>7 DEF WriterCloses, StreamWhole
<1>8. QED
  BY <1>1, <1>2, <1>3, <1>4, <1>5, <1>6, <1>7 DEF WriterStep

(* Once the package is read, no range is asked for any more.               *)
LEMMA FinishedStays ==
  ASSUME NEW r, Readers = {r}, Orderly, Finished, Ask(r) \/ ReadStep(r)
  PROVE  reader[r].pc = "ret" /\ Serve(r)
<1>1. cursor = StreamLen /\ reader[r].pc \in {"idle", "ret"}
  BY DEF Finished
<1>2. ~Ask(r)
  <2>1. SUFFICES ASSUME Ask(r) PROVE FALSE
    OBVIOUS
  <2>2. PICK off \in 0..(StreamLen - 1) : off = cursor
    BY <2>1 DEF Ask, Orderly
  <2>3. QED  BY <1>1, <2>2, SplitFileAssumption
<1>3. QED
  BY <1>1, <1>2 DEF ReadStep, ReadFirst, ReadSeek, ReadBytes, ReadFails, ReadNext, ReadReap,
     ReapClose, ReapMark, ReapDelete, ReapReset, ReadReturn, Serve

(* A block appended to the list has its file; the others stay as they are. *)
LEMMA AppendOnDisk ==
  ASSUME TypeInv, NEW last \in BOOLEAN, Publish(last)
  PROVE  /\ Len(file_blocks') >= Len(file_blocks)
         /\ \A i \in DOMAIN file_blocks : i \in DOMAIN file_blocks' /\ file_blocks'[i] = file_blocks[i]
         /\ \A i \in DOMAIN file_blocks' :
              \/ i \in DOMAIN file_blocks
              \/ file_blocks'[i].on_disk /\ file_blocks'[i].fd = "null"
<1>1. PICK n \in 0..block_in_progress.size :
        /\ Published(last, n) \in FileBlock
        /\ file_blocks' = Append(file_blocks, Published(last, n))
  BY PublishType DEF TypeInv
<1> DEFINE b == Published(last, n)
           N == Len(file_blocks)
<1>2. b \in FileBlock /\ b.on_disk /\ b.fd = "null" /\ file_blocks \in Seq(FileBlock)
  BY <1>1 DEF Published, TypeInv, TypeOK
<1>3. file_blocks' = Append(file_blocks, b)
  BY <1>1
<1> HIDE DEF b
<1>4. /\ DOMAIN file_blocks' = 1..(N + 1) /\ Len(file_blocks') = N + 1
      /\ file_blocks'[N + 1] = b
      /\ \A i \in 1..N : file_blocks'[i] = file_blocks[i]
      /\ N \in Nat /\ DOMAIN file_blocks = 1..N
  BY <1>2, <1>3, AppendProperties
<1>5. Len(file_blocks') >= Len(file_blocks)
  BY <1>4
<1> HIDE DEF N
<1>6. 1..N \subseteq 1..(N + 1) /\ \A i \in 1..(N + 1) : i \in 1..N \/ i = N + 1
  BY <1>4
<1>7. \A i \in DOMAIN file_blocks : i \in DOMAIN file_blocks' /\ file_blocks'[i] = file_blocks[i]
  BY <1>4, <1>6
<1>8. ASSUME NEW i \in DOMAIN file_blocks'
      PROVE  i \in DOMAIN file_blocks \/ (file_blocks'[i].on_disk /\ file_blocks'[i].fd = "null")
  BY <1>2, <1>4, <1>6, <1>8
<1>9. QED  BY <1>5, <1>7, <1>8

(* What nobody's loop is disturbed by: the list keeps its blocks and their *)
(* FILEs, and may grow.                                                    *)
LEMMA LoopsUndisturbed ==
  ASSUME TypeInv, Reaping, Scanning, UNCHANGED reader,
         Len(file_blocks') \in Nat, Len(file_blocks') >= Len(file_blocks),
         \A i \in DOMAIN file_blocks :
           /\ i \in DOMAIN file_blocks'
           /\ file_blocks'[i].status = file_blocks[i].status
           /\ file_blocks'[i].fd = file_blocks[i].fd,
         \A i \in DOMAIN file_blocks' : i \in DOMAIN file_blocks \/ file_blocks'[i].fd = "null",
         closer'["writer"].j = closer["writer"].j,
         closer'["writer"].pc = "unlink" => closer["writer"].pc = "unlink"
  PROVE  Reaping' /\ Scanning'
<1>1. /\ file_blocks \in Seq(FileBlock) /\ Len(file_blocks) \in Nat
      /\ DOMAIN file_blocks = 1..Len(file_blocks)
      /\ closer["writer"].j \in Nat
      /\ \A r \in Readers : reader[r].j \in Nat /\ BlockOf(reader[r].off) \in Nat
  <2>1. \A r \in Readers : reader[r].j \in Nat /\ reader[r].off \in Nat
    BY DEF TypeInv, TypeOK, ReaderState
  <2>2. closer["writer"].j \in Nat
    BY DEF TypeInv, TypeOK, Closers, CloserState
  <2>3. \A r \in Readers : BlockOf(reader[r].off) \in Nat
    BY <2>1, BlockArithmetic
  <2>4. file_blocks \in Seq(FileBlock)
    BY DEF TypeInv, TypeOK
  <2>5. QED  BY <2>1, <2>2, <2>3, <2>4
<1>2. \A n \in Nat : n < Len(file_blocks) => n + 1 \in DOMAIN file_blocks /\ n < Len(file_blocks')
  BY <1>1
<1>3. \A n \in Nat : n < Len(file_blocks) => Status(n)' = Status(n)
  BY <1>2 DEF Status
<1>4. ASSUME NEW r \in Readers
      PROVE  /\ reader[r].pc \in {"next", "reap"} \cup Deleting =>
                  BlockOf(reader[r].off) < Len(file_blocks')
             /\ reader[r].pc \in Deleting => reader[r].j < Len(file_blocks')
             /\ reader[r].pc \in {"close", "mark"} => file_blocks'[reader[r].j + 1].status = "CREATED"
  <2>1. reader[r].pc \in {"close", "mark"} => reader[r].pc \in Deleting
    BY DEF Deleting
  <2>2. QED  BY <1>1, <1>2, <1>3, <2>1 DEF Reaping, Status
<1>5. \A i \in DOMAIN file_blocks' : file_blocks'[i].fd = "closed" =>
        \E r \in Readers : reader[r].pc = "mark" /\ reader[r].j = i - 1
  BY DEF Reaping
<1>6. Reaping'
  BY <1>4, <1>5 DEF Reaping, Status
<1>7. closer'["writer"].j <= Len(file_blocks')
  BY <1>1 DEF Scanning
<1>8. Scanning'
  BY <1>1, <1>2, <1>3, <1>7 DEF Scanning, Status
<1>9. QED  BY <1>6, <1>8

(* A step of Close.  By StreamWhole, write_offset is the length of the     *)
(* stream when it waits for read_offset to be the same.                    *)
LEMMA CrashCloser ==
  ASSUME Orderly, TypeInv, DanglingInHand, ListInv, WriterIsCloser, CrashInv,
         NEW c \in Closers, CloserStep(c)
  PROVE  CrashInv'
<1>0. /\ closer \in [Closers -> CloserState] /\ block_in_progress \in InProgress
      /\ file_blocks \in Seq(FileBlock) /\ read_offset \in Nat
      /\ StreamWhole /\ Waited /\ InOrder /\ Reaping /\ Scanning
      /\ ub = "none" /\ StreamLen \in Nat
      /\ Retries \in Nat /\ MaxStalls \in Nat /\ MaxStalls < Retries
  BY SplitFileAssumption DEF TypeInv, TypeOK, CrashInv, NoCrash, Orderly
<1>1. closer[c].pc # "idle"
  BY DEF CloserStep, CloseClaim, ClosePublish, CloseTick, CloseWaited, CloseTest, CloseRemove
<1>2. c = "writer" /\ writer.pc \in {"close", "done"}
  BY <1>1 DEF WriterIsCloser, Closers
<1>3. /\ UNCHANGED <<writer, write_offset, read_offset, stop_write_thread, reader, cursor>>
      /\ Finished' <=> Finished
  <2>1. UNCHANGED <<writer, write_offset, read_offset, stop_write_thread, reader, cursor>>
    BY Zenon DEF CloserStep, CloseClaim, ClosePublish, CloseTick, CloseWaited, CloseTest,
       CloseRemove, Undefined
  <2>2. QED  BY <2>1 DEF Finished
<1>4. StreamWhole'
  BY <1>0, <1>2, <1>3 DEF StreamWhole
<1>5. write_offset = StreamLen
  <2>1. writer.left = 0 /\ writer.put = 0 /\ writer.taken = StreamLen
    BY <1>0, <1>2 DEF StreamWhole, ListInv, Counted
  <2>2. write_offset + writer.put + writer.left = writer.taken /\ write_offset \in Nat
    BY <1>0 DEF StreamWhole, TypeInv, TypeOK
  <2>3. QED  BY <2>1, <2>2
<1>6. ASSUME UNCHANGED file_blocks, ub' = ub,
             complete' => closer'["writer"].pc # "enter",
             Retries - closer'["writer"].retries <= MaxStalls \/ Finished,
             closer'["writer"].pc \in {"remove", "unlink", "done"} => Finished,
             Scanning'
      PROVE  CrashInv'
  BY <1>0, <1>3, <1>4, <1>6 DEF CrashInv, Waited, InOrder, Reaping, Status, NoCrash, Slot
<1>13. ASSUME UNCHANGED file_blocks, closer'["writer"].pc # "unlink",
              closer'["writer"].j = closer["writer"].j
       PROVE  Scanning'
  BY <1>0, <1>13 DEF Scanning
<1>7. CASE CloseClaim(c)
  <2>1. ~complete
    BY <1>0, <1>2, <1>7 DEF CloseClaim, Waited
  <2>2. closer' = [closer EXCEPT !["writer"].pc = "claimed"] /\ UNCHANGED <<file_blocks, ub>>
    BY <1>2, <1>7, <2>1 DEF CloseClaim, AlreadyClosed
  <2>3. /\ closer'["writer"].pc = "claimed" /\ closer'["writer"].retries = closer["writer"].retries
        /\ closer'["writer"].j = closer["writer"].j
    BY <1>0, <2>2 DEF Closers, CloserState
  <2>4. QED  BY <1>0, <1>6, <1>13, <2>2, <2>3 DEF Waited
<1>8. CASE ClosePublish(c)
  <2>1. block_in_progress.fd # "wild" /\ ~block_in_progress.published
    <3>1. block_in_progress.fd # "wild"
      BY <1>2 DEF ListInv, WildUntilOpen
    <3>2. ~Sealed
      BY <1>8 DEF ClosePublish, Sealed, MutexFree
    <3>3. QED  BY <1>2, <3>1, <3>2 DEF ListInv, InTheList
  <2>2. /\ Publish(LastFlag)
        /\ closer' = [closer EXCEPT !["writer"].pc = "wait"]
        /\ UNCHANGED ub
    BY <1>2, <1>8, <2>1, Zenon DEF ClosePublish
  <2>3. /\ closer'["writer"].pc = "wait" /\ closer'["writer"].retries = closer["writer"].retries
        /\ closer'["writer"].j = closer["writer"].j
    BY <1>0, <2>2 DEF Closers, CloserState
  <2>4. LastFlag \in BOOLEAN
    BY DEF LastFlag
  <2>5. /\ Len(file_blocks') >= Len(file_blocks) /\ Len(file_blocks') \in Nat
        /\ \A i \in DOMAIN file_blocks : i \in DOMAIN file_blocks' /\ file_blocks'[i] = file_blocks[i]
        /\ \A i \in DOMAIN file_blocks' :
             \/ i \in DOMAIN file_blocks
             \/ file_blocks'[i].on_disk /\ file_blocks'[i].fd = "null"
    <3>1. file_blocks' \in Seq(FileBlock)
      BY <2>2, <2>4, PublishType DEF TypeInv
    <3>2. QED  BY <2>2, <2>4, <3>1, AppendOnDisk
  <2>10. Reaping' /\ Scanning'
    BY <1>0, <1>3, <2>3, <2>5, LoopsUndisturbed
  <2>6. \A i \in DOMAIN file_blocks' :
          file_blocks'[i].status = "CREATED" /\ ~file_blocks'[i].on_disk => Finished
    BY <1>0, <2>5 DEF Waited
  <2>7. Waited'
    BY <1>0, <1>3, <2>3, <2>6 DEF Waited
  <2>8. InOrder'
    <3>1. \A q \in Readers : reader[q].pc = "fread" => Slot(q)' = Slot(q)
      <4>1. \A q \in Readers : reader[q].pc = "fread" =>
              reader[q].num \in Nat /\ reader[q].num + 1 \in DOMAIN file_blocks
        BY DEF TypeInv, TypeOK, Found, InList, ReaderState
      <4>2. QED  BY <1>3, <2>5, <4>1 DEF Slot
    <3>2. QED  BY <1>0, <1>3, <3>1 DEF InOrder
  <2>9. QED  BY <1>0, <1>4, <2>2, <2>7, <2>8, <2>10 DEF CrashInv, NoCrash
<1>9. CASE CloseTick(c)
  <2>1. /\ closer' = [closer EXCEPT !["writer"].retries = @ - Spend("writer"),
                                    !["writer"].prev = read_offset]
        /\ closer["writer"].pc = "wait" /\ closer["writer"].retries > 0
        /\ closer["writer"].prev = read_offset =>
             Retries - closer["writer"].retries < MaxStalls \/ AllAsked
        /\ UNCHANGED <<file_blocks, ub>>
    BY <1>2, <1>9 DEF CloseTick
  <2>2. /\ closer'["writer"].pc = "wait"
        /\ closer'["writer"].retries = closer["writer"].retries - Spend("writer")
        /\ closer["writer"].retries \in Nat
        /\ closer'["writer"].j = closer["writer"].j
    BY <1>0, <2>1 DEF Closers, CloserState
  <2>3. AllAsked => Finished
    BY DEF AllAsked, Finished
  <2>4. Retries - closer'["writer"].retries <= MaxStalls \/ Finished
    <3>1. CASE closer["writer"].prev = read_offset
      <4>1. Spend("writer") = 1
        BY <3>1 DEF Spend
      <4>2. CASE AllAsked
        BY <2>3, <4>2
      <4>3. CASE Retries - closer["writer"].retries < MaxStalls
        BY <1>0, <2>2, <4>1, <4>3
      <4>4. QED  BY <2>1, <3>1, <4>2, <4>3
    <3>2. CASE closer["writer"].prev # read_offset
      <4>1. Spend("writer") = 0
        BY <3>2 DEF Spend
      <4>2. closer'["writer"].retries = closer["writer"].retries
        BY <2>2, <4>1
      <4>3. QED  BY <1>0, <4>2 DEF Waited
    <3>3. QED  BY <3>1, <3>2
  <2>5. QED  BY <1>6, <1>13, <2>1, <2>2, <2>4
<1>10. CASE CloseWaited(c)
  <2>1. /\ closer' = [closer EXCEPT !["writer"].pc = "remove"]
        /\ Drained \/ closer["writer"].retries = 0
        /\ UNCHANGED <<file_blocks, ub>>
    BY <1>2, <1>10 DEF CloseWaited
  <2>2. /\ closer'["writer"].pc = "remove" /\ closer'["writer"].retries = closer["writer"].retries
        /\ closer'["writer"].j = closer["writer"].j
    BY <1>0, <2>1 DEF Closers, CloserState
  <2>3. Finished
    <3>1. CASE Drained
      BY <1>0, <1>5, <3>1 DEF Drained, Waited
    <3>2. CASE closer["writer"].retries = 0
      <4>1. ~(Retries - 0 <= MaxStalls)
        BY <1>0
      <4>2. QED  BY <1>0, <3>2, <4>1 DEF Waited
    <3>3. QED  BY <2>1, <3>1, <3>2
  <2>4. QED  BY <1>6, <1>13, <2>1, <2>2, <2>3
<1>14. ASSUME Finished, NEW q \in Readers
       PROVE  reader[q].pc \in {"idle", "ret"}
  BY <1>14 DEF Finished
<1> DEFINE j == closer["writer"].j
<1>15. /\ j \in Nat /\ Len(file_blocks) \in Nat /\ j <= Len(file_blocks)
       /\ j < Len(file_blocks) => j + 1 \in DOMAIN file_blocks
       /\ \A i \in DOMAIN file_blocks : file_blocks[i] \in FileBlock
  <2>1. closer["writer"] \in CloserState
    BY <1>0 DEF Closers
  <2>2. QED  BY <1>0, <2>1 DEF CloserState, Scanning
<1>11. CASE CloseTest(c)
  <2>1. Finished /\ closer["writer"].pc = "remove"
    BY <1>0, <1>2, <1>11 DEF CloseTest, Waited
  <2>2. ~(j < Len(file_blocks) /\ Status(j) = "FREED")
    <3>1. ASSUME j < Len(file_blocks), Status(j) = "FREED" PROVE FALSE
      <4>1. PICK q \in Readers : reader[q].pc = "reset"
        BY <1>15, <3>1 DEF DanglingInHand, Status
      <4>2. QED  BY <1>14, <2>1, <4>1
    <3>2. QED  BY <3>1
  <2>3. /\ closer' = [closer EXCEPT
             !["writer"].pc = IF j = Len(file_blocks) THEN "done"
                              ELSE IF Status(j) = "CREATED" THEN "unlink" ELSE "remove",
             !["writer"].j = IF j < Len(file_blocks) /\ Status(j) # "CREATED" THEN j + 1 ELSE j]
        /\ UNCHANGED <<file_blocks, ub>>
    BY <1>2, <1>11, <2>2, Zenon DEF CloseTest
  <2>4. /\ closer'["writer"].pc = IF j = Len(file_blocks) THEN "done"
                                  ELSE IF Status(j) = "CREATED" THEN "unlink" ELSE "remove"
        /\ closer'["writer"].j =
             IF j < Len(file_blocks) /\ Status(j) # "CREATED" THEN j + 1 ELSE j
        /\ closer'["writer"].retries = closer["writer"].retries
    <3> HIDE DEF j
    <3>1. QED  BY <1>0, <2>3 DEF Closers, CloserState
  <2>5. Scanning'
    <3> HIDE DEF j
    <3>1. QED  BY <1>15, <2>3, <2>4 DEF Scanning, Status
  <2>6. QED  BY <1>0, <1>6, <2>1, <2>3, <2>4, <2>5 DEF Waited
<1>16. CASE CloseRemove(c)
  <2>1. Finished /\ j < Len(file_blocks) /\ Status(j) = "CREATED"
    BY <1>0, <1>2, <1>16 DEF CloseRemove, Waited, Scanning
  <2>2. /\ closer' = [closer EXCEPT !["writer"].pc = "remove", !["writer"].j = @ + 1]
        /\ file_blocks' = [file_blocks EXCEPT ![j + 1].on_disk = FALSE]
        /\ ub' = ub
    BY <1>2, <1>16, <2>1 DEF CloseRemove, Gone
  <2>3. closer'["writer"].pc = "remove" /\ closer'["writer"].j = j + 1
    BY <1>0, <2>2 DEF Closers, CloserState
  <2>4. /\ DOMAIN file_blocks' = DOMAIN file_blocks /\ Len(file_blocks') = Len(file_blocks)
        /\ \A i \in DOMAIN file_blocks : file_blocks'[i].fd = file_blocks[i].fd
    <3> HIDE DEF j
    <3>1. j + 1 \in DOMAIN file_blocks /\ file_blocks[j + 1] \in FileBlock
      BY <1>15, <2>1
    <3>2. QED  BY <1>0, <1>15, <2>2, <3>1 DEF FileBlock
  <2>5. Waited'
    BY <1>3, <2>1, <2>3 DEF Waited
  <2>6. InOrder'
    <3>1. \A q \in Readers : reader[q].pc # "fread"
      BY <1>14, <2>1
    <3>2. QED  BY <1>0, <1>3, <3>1 DEF InOrder
  <2>7. Reaping'
    <3>1. \A q \in Readers : reader'[q].pc \notin {"next", "reap"} \cup Deleting
      BY <1>3, <1>14, <2>1 DEF Deleting
    <3>2. \A i \in DOMAIN file_blocks' : file_blocks'[i].fd # "closed"
      <4>1. \A i \in DOMAIN file_blocks : file_blocks[i].fd # "closed"
        BY <1>0, <1>14, <2>1 DEF Reaping
      <4>2. QED  BY <2>4, <4>1
    <3>3. {"close", "mark"} \subseteq Deleting
      BY DEF Deleting
    <3>4. QED  BY <3>1, <3>2, <3>3 DEF Reaping
  <2>8. Scanning'
    <3> HIDE DEF j
    <3>1. QED  BY <1>15, <2>1, <2>3, <2>4 DEF Scanning
  <2>9. QED  BY <1>0, <1>4, <2>2, <2>5, <2>6, <2>7, <2>8 DEF CrashInv, NoCrash
<1>12. QED
  BY <1>7, <1>8, <1>9, <1>10, <1>11, <1>16 DEF CloserStep

(* A step of the reader, on a list whose blocks keep their files.          *)
LEMMA CrashReader ==
  ASSUME NEW r, Readers = {r}, Orderly, TypeInv, DeleteInv, DanglingInHand, ListInv, CrashInv,
         Ask(r) \/ ReadStep(r)
  PROVE  CrashInv'
<1>0. /\ r \in Readers /\ reader \in [Readers -> ReaderState] /\ reader[r] \in ReaderState
      /\ file_blocks \in Seq(FileBlock) /\ Len(reader[r].buf) <= reader[r].len
      /\ reader[r].off \in Nat /\ reader[r].len \in Nat /\ Len(reader[r].buf) \in Nat
      /\ reader[r].num \in Nat
      /\ StreamWhole /\ Waited /\ InOrder /\ Reaping /\ Scanning
      /\ ub = "none" /\ StreamLen \in Nat /\ cursor \in Nat
  <2>1. /\ r \in Readers /\ reader \in [Readers -> ReaderState]
        /\ file_blocks \in Seq(FileBlock) /\ Len(reader[r].buf) <= reader[r].len
        /\ StreamWhole /\ Waited /\ InOrder /\ Reaping /\ Scanning
        /\ ub = "none" /\ StreamLen \in Nat /\ cursor \in Nat
    BY SplitFileAssumption DEF TypeInv, TypeOK, Fits, CrashInv, NoCrash
  <2>2. reader[r] \in ReaderState
    BY <2>1
  <2>3. /\ reader[r].off \in Nat /\ reader[r].len \in Nat /\ reader[r].buf \in Seq(Nat)
        /\ reader[r].num \in Nat
    BY <2>2 DEF ReaderState
  <2>4. QED  BY <2>1, <2>2, <2>3
<1>1. /\ UNCHANGED <<writer, write_offset, complete, closer, stop_write_thread, block_in_progress>>
      /\ StreamWhole'
  <2>1. UNCHANGED <<writer, write_offset, complete, closer, stop_write_thread, block_in_progress>>
    BY Zenon DEF Ask, ReadStep, ReadFirst, ReadSeek, ReadBytes, ReadFails, ReadNext, ReadReap,
       ReapClose, ReapMark, ReapDelete, ReapReset, ReadReturn, Serve, Undefined
  <2>2. QED  BY <1>0, <2>1 DEF StreamWhole
<1>21. {"close", "mark"} \subseteq Deleting /\ {"idle", "first", "seek", "fread", "ret"} \cap Deleting = {}
       /\ "next" \notin Deleting /\ "reap" \notin Deleting
  BY DEF Deleting
<1>22. reader[r].pc # "mark" => \A i \in DOMAIN file_blocks : file_blocks[i].fd # "closed"
  BY <1>0 DEF Reaping
<1>2. CASE Finished
  <2>1. reader[r].pc = "ret" /\ Serve(r) /\ Len(reader[r].buf) >= reader[r].len
    BY <1>0, <1>2, FinishedStays DEF Finished
  <2> DEFINE sent == reader[r].body \o reader[r].buf
  <2>2. Len(sent) >= reader[r].len
    <3>1. reader[r].body \in Seq(Nat) /\ reader[r].buf \in Seq(Nat)
      BY <1>0 DEF ReaderState
    <3>2. Len(sent) = Len(reader[r].body) + Len(reader[r].buf) /\ Len(reader[r].body) \in Nat
      BY <3>1, ConcatProperties
    <3> HIDE DEF sent
    <3>3. \A a, b, c \in Nat : b >= c => a + b >= c
      OBVIOUS
    <3>4. QED  BY <1>0, <2>1, <3>2, <3>3, Zenon
  <2>3. /\ reader' = [reader EXCEPT ![r] = IdleReader(reader[r].asked)]
        /\ UNCHANGED <<file_blocks, read_offset, cursor, ub>>
    BY <2>1, <2>2 DEF Serve
  <2>4. reader'[r].pc = "idle"
    BY <1>0, <2>3 DEF IdleReader
  <2>5. Finished'
    BY <1>2, <2>3, <2>4 DEF Finished
  <2>6. Waited'
    BY <1>0, <1>1, <2>5 DEF Waited
  <2>7. InOrder'
    BY <1>0, <2>3, <2>4 DEF InOrder
  <2>8. Reaping' /\ Scanning'
    BY <1>0, <1>1, <1>21, <1>22, <2>1, <2>3, <2>4 DEF Reaping, Scanning, Status
  <2>9. QED  BY <1>0, <1>1, <2>3, <2>6, <2>7, <2>8 DEF CrashInv, NoCrash
<1>3. ASSUME ~Finished, NEW x, reader' = [reader EXCEPT ![r] = x],
             cursor' <= StreamLen,
             x.pc # "idle" => x.off + x.len <= cursor',
             x.pc = "fread" => Slot(r)'.fd = "open",
             ub' = ub, read_offset' = StreamLen => Finished',
             DOMAIN file_blocks' = DOMAIN file_blocks, Len(file_blocks') = Len(file_blocks),
             \A i \in DOMAIN file_blocks :
               /\ file_blocks'[i].status = "CREATED" =>
                    file_blocks[i].status = "CREATED" /\ file_blocks'[i].on_disk = file_blocks[i].on_disk
               /\ file_blocks'[i].fd = "closed" => x.pc = "mark" /\ x.j = i - 1,
             x.pc \in {"next", "reap"} \cup Deleting => BlockOf(x.off) < Len(file_blocks),
             x.pc \in Deleting => x.j < Len(file_blocks),
             x.pc \in {"close", "mark"} => file_blocks'[x.j + 1].status = "CREATED"
      PROVE  CrashInv'
  <2>1. reader'[r] = x
    BY <1>0, <1>3
  <2>2. InOrder'
    BY <1>3, <2>1 DEF InOrder
  <2>3. Waited'
    BY <1>0, <1>1, <1>3 DEF Waited
  <2>4. Reaping'
    BY <1>3, <2>1 DEF Reaping, Status
  <2>5. Scanning'
    <3>1. closer["writer"].pc # "unlink"
      BY <1>0, <1>3 DEF Waited
    <3>2. QED  BY <1>0, <1>1, <1>3, <3>1 DEF Scanning
  <2>6. QED  BY <1>0, <1>1, <1>3, <2>2, <2>3, <2>4, <2>5 DEF CrashInv, NoCrash
<1>4. ASSUME ~Finished, NEW x, reader' = [reader EXCEPT ![r] = x],
             x.pc # "fread", x.off = reader[r].off, x.len = reader[r].len, reader[r].pc # "idle",
             x.pc \notin {"next"} \cup Deleting, x.pc = "reap" => reader[r].pc = "next",
             reader[r].pc # "mark",
             UNCHANGED <<file_blocks, read_offset, cursor, ub>>
      PROVE  CrashInv'
  <2>1. cursor' <= StreamLen /\ (x.pc # "idle" => x.off + x.len <= cursor')
    BY <1>0, <1>4 DEF InOrder
  <2>2. read_offset' = StreamLen => Finished'
    BY <1>0, <1>4 DEF Waited
  <2>3. x.pc \in {"next", "reap"} \cup Deleting => BlockOf(x.off) < Len(file_blocks)
    BY <1>0, <1>4 DEF Reaping
  <2>4. \A i \in DOMAIN file_blocks : file_blocks[i].fd # "closed"
    BY <1>4, <1>22
  <2>5. x.pc \notin Deleting /\ x.pc \notin {"close", "mark"}
    BY <1>4, <1>21
  <2>6. QED  BY <1>3, <1>4, <2>1, <2>2, <2>3, <2>4, <2>5
<1>5. ASSUME NEW p, reader' = [reader EXCEPT ![r].pc = p]
      PROVE  /\ reader' = [reader EXCEPT ![r] = [reader[r] EXCEPT !.pc = p]]
             /\ [reader[r] EXCEPT !.pc = p].pc = p
             /\ [reader[r] EXCEPT !.pc = p].off = reader[r].off
             /\ [reader[r] EXCEPT !.pc = p].len = reader[r].len
  BY <1>0, <1>5 DEF ReaderState
<1>6. reader[r].pc # "idle" /\ InList(r) => Slot(r) \in FileBlock /\ Slot(r).status = "CREATED"
  BY <1>0, SlotThere DEF Orderly
<1>7. SUFFICES ASSUME ~Finished PROVE CrashInv'
  BY <1>2
<1>8. CASE Ask(r)
  <2>1. PICK off \in 0..(StreamLen - 1), len \in 1..MaxLen :
          /\ off + len <= StreamLen
          /\ reader' = [reader EXCEPT ![r] =
                       StartRead([@ EXCEPT !.off = off, !.len = len, !.body = <<>>,
                                           !.asked = reader[r].asked + 1])]
          /\ cursor' = MaxOf(cursor, off + len)
    BY <1>8 DEF Ask
  <2> DEFINE x == [reader[r] EXCEPT !.off = off, !.len = len, !.body = <<>>,
                                    !.asked = reader[r].asked + 1]
  <2>2. /\ StartRead(x).pc = "first" /\ StartRead(x).off = off /\ StartRead(x).len = len
        /\ reader' = [reader EXCEPT ![r] = StartRead(x)]
    BY <1>0, <2>1 DEF StartRead, ReaderState
  <2>3. cursor' <= StreamLen /\ off + len <= cursor'
    BY <1>0, <2>1, SplitFileAssumption DEF MaxOf, InOrder
  <2>4. UNCHANGED <<file_blocks, read_offset, ub>>
    BY <1>8 DEF Ask
  <2>5. read_offset' = StreamLen => Finished'
    BY <1>0, <1>7, <2>4 DEF Waited
  <2>6. \A i \in DOMAIN file_blocks : file_blocks[i].fd # "closed"
    BY <1>8, <1>22 DEF Ask
  <2> DEFINE y == StartRead(x)
  <2>7. y.pc \notin {"next", "reap"} \cup Deleting /\ y.pc \notin {"close", "mark"}
    BY <1>21, <2>2
  <2> HIDE DEF x, y
  <2>8. QED  BY <1>3, <1>7, <2>2, <2>3, <2>4, <2>5, <2>6, <2>7 DEF y
<1>9. CASE ReadFirst(r)
  <2>1. PICK p \in {"seek", "ret"} : reader' = [reader EXCEPT ![r].pc = p]
    BY <1>6, <1>9 DEF ReadFirst, Gone
  <2>2. UNCHANGED <<file_blocks, read_offset, cursor, ub>> /\ reader[r].pc = "first"
    BY <1>6, <1>9 DEF ReadFirst, Gone
  <2>3. QED  BY <1>4, <1>5, <1>7, <1>21, <2>1, <2>2
<1>10. CASE ReadNext(r)
  <2>1. PICK p \in {"seek", "reap"} : reader' = [reader EXCEPT ![r].pc = p]
    BY <1>6, <1>10 DEF ReadNext, Gone
  <2>2. UNCHANGED <<file_blocks, read_offset, cursor, ub>> /\ reader[r].pc = "next"
    BY <1>6, <1>10 DEF ReadNext, Gone
  <2>3. QED  BY <1>4, <1>5, <1>7, <1>21, <2>1, <2>2
<1>11. CASE ReadFails(r)
  BY <1>11 DEF ReadFails, Orderly, TypeInv, TypeOK
<1>12. CASE Serve(r)
  <2> DEFINE sent == reader[r].body \o reader[r].buf
             idle == IdleReader(reader[r].asked)
             again == StartRead([reader[r] EXCEPT !.body = sent])
  <2>1. /\ reader' = [reader EXCEPT ![r] = IF Len(sent) >= reader[r].len THEN idle ELSE again]
        /\ UNCHANGED <<file_blocks, read_offset, cursor, ub>> /\ reader[r].pc = "ret"
    BY <1>12 DEF Serve
  <2>2. idle.pc = "idle"
    BY DEF IdleReader
  <2>3. again.pc = "first" /\ again.off = reader[r].off /\ again.len = reader[r].len
    <3> HIDE DEF sent
    <3>1. QED  BY <1>0 DEF StartRead, ReaderState
  <2> HIDE DEF idle, again
  <2>4. CASE Len(sent) >= reader[r].len
    <3>1. reader' = [reader EXCEPT ![r] = idle]
      BY <2>1, <2>4
    <3>2. cursor' <= StreamLen
      BY <1>0, <2>1 DEF InOrder
    <3>3. read_offset' = StreamLen => Finished'
      BY <1>0, <1>7, <2>1 DEF Waited
    <3>4. \A i \in DOMAIN file_blocks : file_blocks[i].fd # "closed"
      BY <1>22, <2>1
    <3>5. idle.pc \notin {"next", "reap"} \cup Deleting /\ idle.pc \notin {"close", "mark"}
      BY <1>21, <2>2
    <3>6. QED  BY <1>3, <1>7, <2>1, <2>2, <3>1, <3>2, <3>3, <3>4, <3>5
  <2>5. CASE ~(Len(sent) >= reader[r].len)
    <3>1. reader' = [reader EXCEPT ![r] = again]
      BY <2>1, <2>5
    <3>2. QED  BY <1>4, <1>7, <1>21, <2>1, <2>3, <3>1
  <2>6. QED  BY <2>4, <2>5
<1>13. CASE ReadSeek(r)
  <2> DEFINE k == reader[r].num + 1
             x == [reader[r] EXCEPT !.pc = "fread"]
  <2>1. reader[r].pc = "seek" /\ InList(r)
    BY <1>13 DEF ReadSeek, TypeInv, Found
  <2>2. k \in DOMAIN file_blocks /\ Slot(r) = file_blocks[k]
    BY <1>0, <2>1 DEF InList, Slot
  <2>3. Slot(r).status = "CREATED" /\ Slot(r).on_disk
    BY <1>0, <1>6, <1>7, <2>1, <2>2 DEF Waited
  <2>13. \A i \in DOMAIN file_blocks : file_blocks[i].fd # "closed"
    BY <1>22, <2>1
  <2>4. /\ file_blocks' = [file_blocks EXCEPT ![k].fd = "open", ![k].at = reader[r].boff]
        /\ reader' = [reader EXCEPT ![r].pc = "fread"]
        /\ UNCHANGED <<read_offset, cursor, ub>>
    BY <1>13, <2>2, <2>3, <2>13 DEF ReadSeek, Gone
  <2>5. /\ reader' = [reader EXCEPT ![r] = x] /\ x.pc = "fread"
        /\ x.off = reader[r].off /\ x.len = reader[r].len /\ x.num = reader[r].num
    BY <1>0, <2>4 DEF ReaderState
  <2>6. reader'[r] = x
    BY <1>0, <2>5
  <2> HIDE DEF x, k
  <2>7. \A i \in DOMAIN file_blocks : file_blocks[i] \in FileBlock
    BY <1>0
  <2>8. /\ DOMAIN file_blocks' = DOMAIN file_blocks
        /\ \A i \in DOMAIN file_blocks :
             /\ file_blocks'[i].status = file_blocks[i].status
             /\ file_blocks'[i].on_disk = file_blocks[i].on_disk
             /\ file_blocks'[i].fd # "closed"
        /\ file_blocks'[k].fd = "open" /\ Len(file_blocks') = Len(file_blocks)
    <3>1. file_blocks[k] \in FileBlock
      BY <2>2, <2>7
    <3> DEFINE b == [file_blocks[k] EXCEPT !.fd = "open", !.at = reader[r].boff]
    <3>2. b.status = file_blocks[k].status /\ b.on_disk = file_blocks[k].on_disk /\ b.fd = "open"
      BY <3>1 DEF FileBlock
    <3>3. file_blocks' = [file_blocks EXCEPT ![k] = b]
      BY <2>4
    <3> HIDE DEF b
    <3>4. QED  BY <1>0, <2>2, <2>13, <3>2, <3>3
  <2>9. Slot(r)'.fd = "open"
    BY <2>5, <2>6, <2>8 DEF Slot, k
  <2>10. cursor' <= StreamLen /\ x.off + x.len <= cursor'
    BY <1>0, <2>1, <2>4, <2>5 DEF InOrder
  <2>11. read_offset' = StreamLen => Finished'
    BY <1>0, <1>7, <2>4 DEF Waited
  <2>14. x.pc \notin {"next", "reap"} \cup Deleting /\ x.pc \notin {"close", "mark"}
    BY <1>21, <2>5
  <2>15. \A i \in DOMAIN file_blocks :
           /\ file_blocks'[i].status = "CREATED" =>
                file_blocks[i].status = "CREATED" /\ file_blocks'[i].on_disk = file_blocks[i].on_disk
           /\ file_blocks'[i].fd = "closed" => x.pc = "mark" /\ x.j = i - 1
    BY <2>8
  <2>12. QED  BY <1>3, <1>7, <2>4, <2>5, <2>8, <2>9, <2>10, <2>11, <2>14, <2>15
<1>14. CASE ReadBytes(r)
  <2> DEFINE k == reader[r].num + 1
             buf == reader[r].buf \o Bytes(From(r), Delivered(r))
             at == Slot(r).at + Delivered(r)
             num == IF Served(r) THEN reader[r].num ELSE reader[r].num + 1
             boff == IF Served(r) THEN reader[r].boff ELSE NextOffset(r)
             p == IF Served(r) THEN "reap" ELSE "next"
             x == [reader[r] EXCEPT !.buf = buf, !.pc = p, !.num = num, !.boff = boff]
  <2>1. reader[r].pc = "fread" /\ InList(r)
    BY <1>14 DEF ReadBytes, TypeInv, Found
  <2>2. k \in DOMAIN file_blocks
    BY <1>0, <2>1 DEF InList
  <2>3. Slot(r).status = "CREATED" /\ Slot(r).fd = "open"
    BY <1>0, <1>6, <2>1 DEF InOrder
  <2>4. /\ file_blocks' = [file_blocks EXCEPT ![k].at = @ + Delivered(r)]
        /\ reader' = [reader EXCEPT ![r].buf = buf, ![r].pc = p, ![r].num = num, ![r].boff = boff]
        /\ UNCHANGED <<read_offset, cursor, ub>>
    BY <1>14, <2>3 DEF ReadBytes, Gone
  <2>11. p \in {"reap", "next"}
    OBVIOUS
  <2> HIDE DEF buf, num, boff, p
  <2>5. /\ reader' = [reader EXCEPT ![r] = x] /\ x.pc # "fread" /\ x.pc \in {"reap", "next"}
        /\ x.off = reader[r].off /\ x.len = reader[r].len
    BY <1>0, <2>4, <2>11 DEF ReaderState
  <2> HIDE DEF x, k
  <2>6. \A i \in DOMAIN file_blocks : file_blocks[i] \in FileBlock /\ file_blocks[i].fd # "closed"
    BY <1>0, <1>22, <2>1
  <2>7. /\ DOMAIN file_blocks' = DOMAIN file_blocks /\ Len(file_blocks') = Len(file_blocks)
        /\ \A i \in DOMAIN file_blocks :
             /\ file_blocks'[i].status = file_blocks[i].status
             /\ file_blocks'[i].on_disk = file_blocks[i].on_disk
             /\ file_blocks'[i].fd # "closed"
    <3>1. file_blocks[k] \in FileBlock
      BY <2>2, <2>6
    <3> DEFINE b == [file_blocks[k] EXCEPT !.at = @ + Delivered(r)]
    <3>2. /\ b.status = file_blocks[k].status /\ b.on_disk = file_blocks[k].on_disk
          /\ b.fd = file_blocks[k].fd
      BY <3>1 DEF FileBlock
    <3>3. file_blocks' = [file_blocks EXCEPT ![k] = b]
      BY <2>4
    <3> HIDE DEF b
    <3>4. QED  BY <1>0, <2>2, <2>6, <3>2, <3>3
  <2>8. cursor' <= StreamLen /\ x.off + x.len <= cursor'
    BY <1>0, <2>1, <2>4, <2>5 DEF InOrder
  <2>9. read_offset' = StreamLen => Finished'
    BY <1>0, <1>7, <2>4 DEF Waited
  <2>12. BlockOf(x.off) < Len(file_blocks)
    <3>1. BlockOf(reader[r].off) <= reader[r].num /\ reader[r].num < Len(file_blocks)
      BY <1>0, <2>1 DEF DeleteInv, Near, InList
    <3>2. BlockOf(reader[r].off) \in Nat /\ Len(file_blocks) \in Nat
      <4>1. Len(file_blocks) \in Nat
        BY <1>0
      <4>2. BlockOf(reader[r].off) \in Nat
        BY <1>0, BlockArithmetic
      <4>3. QED  BY <4>1, <4>2
    <3>3. QED  BY <1>0, <2>5, <3>1, <3>2
  <2>13. x.pc \notin Deleting /\ x.pc \notin {"close", "mark"}
    BY <1>21, <2>5
  <2>10. QED  BY <1>3, <1>7, <2>4, <2>5, <2>7, <2>8, <2>9, <2>12, <2>13
<1> DEFINE j == reader[r].j
           k == j + 1
<1>18. /\ reader[r].pc \in {"reap"} \cup Deleting => BlockOf(reader[r].off) < Len(file_blocks)
       /\ reader[r].pc \in Deleting => j < Len(file_blocks)
       /\ reader[r].pc \in {"close", "mark"} => Status(j) = "CREATED"
       /\ reader[r].pc = "reap" /\ j < FirstKept(r) => j < Len(file_blocks)
       /\ j < Len(file_blocks) => k \in DOMAIN file_blocks /\ file_blocks[k] \in FileBlock
       /\ j \in Nat
  <2>1. j \in Nat /\ BlockOf(reader[r].off) \in Nat /\ Len(file_blocks) \in Nat
    BY <1>0, BlockArithmetic DEF ReaderState
  <2>2. /\ reader[r].pc \in {"reap"} \cup Deleting => BlockOf(reader[r].off) < Len(file_blocks)
        /\ reader[r].pc \in Deleting => j < Len(file_blocks)
        /\ reader[r].pc \in {"close", "mark"} => Status(j) = "CREATED"
    BY <1>0 DEF Reaping
  <2>3. reader[r].pc = "reap" /\ j < FirstKept(r) => j < Len(file_blocks)
    <3> HIDE DEF j
    <3>1. QED  BY <2>1, <2>2, SplitFileAssumption DEF FirstKept
  <2>4. j < Len(file_blocks) => k \in DOMAIN file_blocks /\ file_blocks[k] \in FileBlock
    BY <1>0, <2>1
  <2>5. QED  BY <2>1, <2>2, <2>3, <2>4
<1>19. ASSUME reader[r].pc # "reset", j < Len(file_blocks)
       PROVE  Status(j) # "FREED"
  BY <1>0, <1>18, <1>19 DEF DanglingInHand, Status
<1>20. /\ {"close", "mark", "delete", "reset"} = Deleting
       /\ \A i \in DOMAIN file_blocks : file_blocks[i] \in FileBlock /\ i \in Nat
  BY <1>0 DEF Deleting
<1>23. ASSUME NEW p \in {"reap"} \cup Deleting, NEW n \in Nat,
              reader' = [reader EXCEPT ![r] = [reader[r] EXCEPT !.pc = p, !.j = n]],
              reader[r].pc \in {"reap"} \cup Deleting,
              UNCHANGED <<read_offset, cursor, ub>>,
              DOMAIN file_blocks' = DOMAIN file_blocks, Len(file_blocks') = Len(file_blocks),
              \A i \in DOMAIN file_blocks :
                /\ file_blocks'[i].status = "CREATED" =>
                     file_blocks[i].status = "CREATED" /\ file_blocks'[i].on_disk = file_blocks[i].on_disk
                /\ file_blocks'[i].fd = "closed" => p = "mark" /\ n = i - 1,
              p \in Deleting => n < Len(file_blocks),
              p \in {"close", "mark"} => file_blocks'[n + 1].status = "CREATED"
       PROVE  CrashInv'
  <2> DEFINE x == [reader[r] EXCEPT !.pc = p, !.j = n]
  <2>1. x.pc = p /\ x.j = n /\ x.off = reader[r].off /\ x.len = reader[r].len
    BY <1>0 DEF ReaderState
  <2>2. reader' = [reader EXCEPT ![r] = x]
    BY <1>23
  <2> HIDE DEF x, j
  <2>3. cursor' <= StreamLen /\ x.off + x.len <= cursor'
    <3>1. reader[r].pc # "idle"
      BY <1>21, <1>23
    <3>2. QED  BY <1>0, <1>23, <2>1, <3>1 DEF InOrder
  <2>4. read_offset' = StreamLen => Finished'
    BY <1>0, <1>7, <1>23 DEF Waited
  <2>5. x.pc # "fread" /\ BlockOf(x.off) < Len(file_blocks)
    BY <1>18, <1>21, <1>23, <2>1
  <2>6. \A i \in DOMAIN file_blocks :
          /\ file_blocks'[i].status = "CREATED" =>
               file_blocks[i].status = "CREATED" /\ file_blocks'[i].on_disk = file_blocks[i].on_disk
          /\ file_blocks'[i].fd = "closed" => x.pc = "mark" /\ x.j = i - 1
    BY <1>23, <2>1
  <2>7. /\ x.pc \in Deleting => x.j < Len(file_blocks)
        /\ x.pc \in {"close", "mark"} => file_blocks'[x.j + 1].status = "CREATED"
    BY <1>23, <2>1
  <2>8. QED  BY <1>3, <1>7, <1>23, <2>2, <2>3, <2>4, <2>5, <2>6, <2>7
<1>24. ASSUME NEW p \in {"reap"} \cup Deleting, NEW n \in Nat
       PROVE  [reader EXCEPT ![r].pc = p, ![r].j = n]
                = [reader EXCEPT ![r] = [reader[r] EXCEPT !.pc = p, !.j = n]]
  BY <1>0
<1>25. ASSUME NEW p \in Deleting
       PROVE  [reader EXCEPT ![r].pc = p]
                = [reader EXCEPT ![r] = [reader[r] EXCEPT !.pc = p, !.j = j]]
  <2> DEFINE x == reader[r]
  <2>1. x \in ReaderState
    BY <1>0
  <2> HIDE DEF x
  <2>2. [x EXCEPT !.pc = p, !.j = x.j] = [x EXCEPT !.pc = p]
    BY <2>1 DEF ReaderState
  <2>3. QED  BY <2>2 DEF x
<1>26. ASSUME NEW b \in FileBlock, k \in DOMAIN file_blocks,
              file_blocks' = [file_blocks EXCEPT ![k] = b]
       PROVE  /\ DOMAIN file_blocks' = DOMAIN file_blocks
              /\ Len(file_blocks') = Len(file_blocks)
              /\ \A i \in DOMAIN file_blocks : file_blocks'[i] = IF i = k THEN b ELSE file_blocks[i]
  BY <1>0, <1>26
<1>15. CASE ReadReap(r)
  <2>1. reader[r].pc = "reap" /\ j < FirstKept(r) /\ j < Len(file_blocks)
    BY <1>15, <1>18 DEF ReadReap
  <2>2. Status(j) # "FREED"
    BY <1>19, <2>1
  <2>3. /\ reader' = [reader EXCEPT ![r].pc = IF Status(j) = "CREATED" THEN "close" ELSE "reap",
                                    ![r].j = IF Status(j) = "CREATED" THEN j ELSE k]
        /\ UNCHANGED <<file_blocks, read_offset, cursor, ub>>
    BY <1>15, <2>2, Zenon DEF ReadReap
  <2>4. \A i \in DOMAIN file_blocks : file_blocks[i].fd # "closed"
    BY <1>22, <2>1
  <2> HIDE DEF j
  <2>5. CASE Status(j) = "CREATED"
    <3>1. reader' = [reader EXCEPT ![r].pc = "close", ![r].j = j]
      BY <2>3, <2>5
    <3>2. file_blocks[j + 1].status = "CREATED"
      BY <2>5 DEF Status
    <3>3. /\ reader' = [reader EXCEPT ![r] = [reader[r] EXCEPT !.pc = "close", !.j = j]]
          /\ j \in Nat /\ "close" \in Deleting
      BY <1>18, <1>20, <1>24, <3>1
    <3>4. \A i \in DOMAIN file_blocks :
            /\ file_blocks'[i].status = "CREATED" =>
                 file_blocks[i].status = "CREATED" /\ file_blocks'[i].on_disk = file_blocks[i].on_disk
            /\ file_blocks'[i].fd = "closed" => "close" = "mark" /\ j = i - 1
      BY <2>3, <2>4
    <3>5. QED  BY <1>23, <2>1, <2>3, <3>2, <3>3, <3>4
  <2>6. CASE Status(j) # "CREATED"
    <3>1. reader' = [reader EXCEPT ![r].pc = "reap", ![r].j = k] /\ k \in Nat
      BY <1>18, <2>3, <2>6
    <3>2. reader' = [reader EXCEPT ![r] = [reader[r] EXCEPT !.pc = "reap", !.j = k]]
      BY <1>24, <3>1
    <3>3. \A i \in DOMAIN file_blocks :
            /\ file_blocks'[i].status = "CREATED" =>
                 file_blocks[i].status = "CREATED" /\ file_blocks'[i].on_disk = file_blocks[i].on_disk
            /\ file_blocks'[i].fd = "closed" => "reap" = "mark" /\ k = i - 1
      BY <2>3, <2>4
    <3> HIDE DEF k
    <3>4. QED  BY <1>21, <1>23, <2>1, <2>3, <3>1, <3>2, <3>3
  <2>7. QED  BY <2>5, <2>6
<1>16. CASE ReapClose(r)
  <2>1. reader[r].pc = "close"
    BY <1>16 DEF ReapClose
  <2>2. /\ j < Len(file_blocks) /\ Status(j) = "CREATED" /\ k \in DOMAIN file_blocks
        /\ \A i \in DOMAIN file_blocks : file_blocks[i].fd # "closed"
    BY <1>18, <1>20, <1>22, <2>1
  <2> DEFINE b == [file_blocks[k] EXCEPT !.fd = IF @ = "open" THEN "closed" ELSE @]
  <2>3. /\ file_blocks' = [file_blocks EXCEPT ![k] = b]
        /\ reader' = [reader EXCEPT ![r].pc = "mark"]
        /\ UNCHANGED <<read_offset, cursor, ub>>
    BY <1>16, <2>2 DEF ReapClose, Gone
  <2>4. /\ b \in FileBlock /\ b.status = "CREATED" /\ b.status = file_blocks[k].status
        /\ b.on_disk = file_blocks[k].on_disk
    BY <1>20, <2>2 DEF FileBlock, Status
  <2> HIDE DEF b
  <2>5. /\ DOMAIN file_blocks' = DOMAIN file_blocks
        /\ Len(file_blocks') = Len(file_blocks)
        /\ \A i \in DOMAIN file_blocks : file_blocks'[i] = IF i = k THEN b ELSE file_blocks[i]
    BY <1>26, <2>2, <2>3, <2>4
  <2>6. reader' = [reader EXCEPT ![r] = [reader[r] EXCEPT !.pc = "mark", !.j = j]]
    BY <1>20, <1>25, <2>3
  <2>7. \A i \in DOMAIN file_blocks :
          /\ file_blocks'[i].status = "CREATED" =>
               file_blocks[i].status = "CREATED" /\ file_blocks'[i].on_disk = file_blocks[i].on_disk
          /\ file_blocks'[i].fd = "closed" => j = i - 1
    <3> HIDE DEF j
    <3>1. QED  BY <1>18, <1>20, <2>2, <2>4, <2>5
  <2>8. file_blocks'[k].status = "CREATED"
    BY <2>2, <2>4, <2>5
  <2>9. file_blocks'[j + 1].status = "CREATED" /\ j \in Nat
        /\ "mark" \in Deleting /\ reader[r].pc \in Deleting
    BY <1>18, <1>20, <2>1, <2>8
  <2> HIDE DEF j
  <2> HIDE DEF k
  <2>11. \A i \in DOMAIN file_blocks :
           /\ file_blocks'[i].status = "CREATED" =>
                file_blocks[i].status = "CREATED" /\ file_blocks'[i].on_disk = file_blocks[i].on_disk
           /\ file_blocks'[i].fd = "closed" => "mark" = "mark" /\ j = i - 1
    BY <2>7
  <2>12. DOMAIN file_blocks' = DOMAIN file_blocks /\ Len(file_blocks') = Len(file_blocks)
    BY <2>5
  <2>13. UNCHANGED <<read_offset, cursor, ub>> /\ j < Len(file_blocks)
    BY <2>2, <2>3
  <2>10. QED  BY <1>23, <2>6, <2>9, <2>11, <2>12, <2>13
<1>27. CASE ReapMark(r)
  <2>1. reader[r].pc = "mark"
    BY <1>27 DEF ReapMark
  <2>2. /\ j < Len(file_blocks) /\ Status(j) = "CREATED" /\ k \in DOMAIN file_blocks
        /\ \A i \in DOMAIN file_blocks : file_blocks[i].fd = "closed" => i = k
    <3>1. \A i \in DOMAIN file_blocks : file_blocks[i].fd = "closed" => j = i - 1
      BY <1>0 DEF Reaping
    <3> HIDE DEF j
    <3>2. QED  BY <1>18, <1>20, <2>1, <3>1
  <2> DEFINE b == [file_blocks[k] EXCEPT !.fd = "null", !.status = "DELETED", !.on_disk = FALSE]
  <2>3. /\ file_blocks' = [file_blocks EXCEPT ![k] = b]
        /\ reader' = [reader EXCEPT ![r].pc = "delete"]
        /\ UNCHANGED <<read_offset, cursor, ub>>
    BY <1>27, <2>2 DEF ReapMark, Gone
  <2>4. b \in FileBlock /\ b.status = "DELETED" /\ b.fd = "null"
    BY <1>20, <2>2 DEF FileBlock
  <2> HIDE DEF b
  <2>5. /\ DOMAIN file_blocks' = DOMAIN file_blocks
        /\ Len(file_blocks') = Len(file_blocks)
        /\ \A i \in DOMAIN file_blocks : file_blocks'[i] = IF i = k THEN b ELSE file_blocks[i]
    BY <1>26, <2>2, <2>3, <2>4
  <2>6. reader' = [reader EXCEPT ![r] = [reader[r] EXCEPT !.pc = "delete", !.j = j]]
    BY <1>20, <1>25, <2>3
  <2>7. \A i \in DOMAIN file_blocks :
          /\ file_blocks'[i].status = "CREATED" =>
               file_blocks[i].status = "CREATED" /\ file_blocks'[i].on_disk = file_blocks[i].on_disk
          /\ file_blocks'[i].fd # "closed"
    BY <2>2, <2>4, <2>5
  <2> HIDE DEF j
  <2>8. QED  BY <1>18, <1>20, <1>23, <2>1, <2>2, <2>3, <2>5, <2>6, <2>7
<1>28. CASE ReapDelete(r)
  <2>1. reader[r].pc = "delete"
    BY <1>28 DEF ReapDelete
  <2>2. /\ j < Len(file_blocks) /\ Status(j) # "FREED" /\ k \in DOMAIN file_blocks
        /\ \A i \in DOMAIN file_blocks : file_blocks[i].fd # "closed"
    BY <1>18, <1>19, <1>20, <1>22, <2>1
  <2> DEFINE b == [file_blocks[k] EXCEPT !.status = IF @ = "NULL" THEN @ ELSE "FREED"]
  <2>3. /\ file_blocks' = [file_blocks EXCEPT ![k] = b]
        /\ reader' = [reader EXCEPT ![r].pc = "reset"]
        /\ UNCHANGED <<read_offset, cursor, ub>>
    BY <1>28, <2>2 DEF ReapDelete
  <2>4. b \in FileBlock /\ b.status # "CREATED" /\ b.fd # "closed"
    BY <1>20, <2>2 DEF FileBlock
  <2> HIDE DEF b
  <2>5. /\ DOMAIN file_blocks' = DOMAIN file_blocks
        /\ Len(file_blocks') = Len(file_blocks)
        /\ \A i \in DOMAIN file_blocks : file_blocks'[i] = IF i = k THEN b ELSE file_blocks[i]
    BY <1>26, <2>2, <2>3, <2>4
  <2>6. reader' = [reader EXCEPT ![r] = [reader[r] EXCEPT !.pc = "reset", !.j = j]]
    BY <1>20, <1>25, <2>3
  <2>7. \A i \in DOMAIN file_blocks :
          /\ file_blocks'[i].status = "CREATED" =>
               file_blocks[i].status = "CREATED" /\ file_blocks'[i].on_disk = file_blocks[i].on_disk
          /\ file_blocks'[i].fd # "closed"
    BY <2>2, <2>4, <2>5
  <2> HIDE DEF j
  <2>8. QED  BY <1>18, <1>20, <1>23, <2>1, <2>2, <2>3, <2>5, <2>6, <2>7
<1>29. CASE ReapReset(r)
  <2>1. reader[r].pc = "reset"
    BY <1>29 DEF ReapReset
  <2>2. /\ j < Len(file_blocks) /\ k \in DOMAIN file_blocks
        /\ \A i \in DOMAIN file_blocks : file_blocks[i].fd # "closed"
    BY <1>18, <1>20, <1>22, <2>1
  <2> DEFINE b == [file_blocks[k] EXCEPT !.status = "NULL"]
  <2>3. /\ file_blocks' = [file_blocks EXCEPT ![k] = b]
        /\ reader' = [reader EXCEPT ![r].pc = "reap", ![r].j = k]
        /\ UNCHANGED <<read_offset, cursor, ub>>
    BY <1>29 DEF ReapReset, Cleared
  <2>4. b \in FileBlock /\ b.status # "CREATED" /\ b.fd # "closed"
    BY <1>20, <2>2 DEF FileBlock
  <2> HIDE DEF b
  <2>5. /\ DOMAIN file_blocks' = DOMAIN file_blocks
        /\ Len(file_blocks') = Len(file_blocks)
        /\ \A i \in DOMAIN file_blocks : file_blocks'[i] = IF i = k THEN b ELSE file_blocks[i]
    BY <1>26, <2>2, <2>3, <2>4
  <2>9. k \in Nat
    BY <1>18
  <2>6. reader' = [reader EXCEPT ![r] = [reader[r] EXCEPT !.pc = "reap", !.j = k]]
    BY <1>24, <2>3, <2>9
  <2>7. \A i \in DOMAIN file_blocks :
          /\ file_blocks'[i].status = "CREATED" =>
               file_blocks[i].status = "CREATED" /\ file_blocks'[i].on_disk = file_blocks[i].on_disk
          /\ file_blocks'[i].fd # "closed"
    BY <2>2, <2>4, <2>5
  <2> HIDE DEF j
  <2>8. QED  BY <1>20, <1>21, <1>23, <2>1, <2>3, <2>5, <2>6, <2>7, <2>9
<1>30. CASE ReadReturn(r)
  <2> DEFINE x == [reader[r] EXCEPT !.pc = "ret"]
  <2>1. /\ reader' = [reader EXCEPT ![r].pc = "ret"]
        /\ read_offset' = reader[r].off + Len(reader[r].buf)
        /\ UNCHANGED <<file_blocks, cursor, ub>>
        /\ reader[r].pc = "reap"
    BY <1>30 DEF ReadReturn
  <2>2. /\ reader' = [reader EXCEPT ![r] = x] /\ x.pc = "ret"
        /\ x.off = reader[r].off /\ x.len = reader[r].len /\ x.buf = reader[r].buf
    BY <1>0, <2>1 DEF ReaderState
  <2>3. reader'[r] = x
    BY <1>0, <2>2
  <2> HIDE DEF x
  <2>4. cursor' <= StreamLen /\ x.off + x.len <= cursor'
    BY <1>0, <2>1, <2>2 DEF InOrder
  <2>5. ASSUME read_offset' = StreamLen
        PROVE  Finished'
    <3>1. reader[r].off + reader[r].len <= cursor /\ cursor <= StreamLen
      BY <1>0, <2>1 DEF InOrder
    <3>2. cursor = StreamLen /\ Len(reader[r].buf) >= reader[r].len
      BY <1>0, <2>1, <2>5, <3>1
    <3>3. cursor' = StreamLen /\ reader'[r].pc = "ret" /\ Len(reader'[r].buf) >= reader'[r].len
      BY <2>1, <2>2, <2>3, <3>2
    <3>4. QED  BY <3>3 DEF Finished
  <2>6. \A i \in DOMAIN file_blocks : file_blocks[i].fd # "closed"
    BY <1>22, <2>1
  <2>7. x.pc \notin {"next", "reap"} \cup Deleting /\ x.pc \notin {"close", "mark"}
    BY <1>21, <2>2
  <2>8. QED  BY <1>3, <1>7, <2>1, <2>2, <2>4, <2>5, <2>6, <2>7
<1>17. QED
  BY <1>8, <1>9, <1>10, <1>11, <1>12, <1>13, <1>14, <1>15, <1>16, <1>27, <1>28, <1>29, <1>30
     DEF ReadStep

LEMMA CrashNext ==
  ASSUME NEW r, Readers = {r}, Orderly, TypeInv, DeleteInv, DanglingInHand, ListInv,
         WriterIsCloser, CrashInv, [Next]_vars
  PROVE  CrashInv'
<1>1. CASE WriterStep
  <2>1. StreamWhole' /\ ub' = "none"
    BY <1>1, CrashWriter
  <2>2. /\ UNCHANGED <<complete, read_offset, reader, cursor>>
        /\ closer' = closer \/ (~complete /\ closer' = [closer EXCEPT !["writer"].pc = "enter"])
    BY <1>1, Zenon DEF WriterStep, Open, WriteCall, SourceEnds, WriteLoop, FWrite, BlockFull, RollBlock,
       WriteReturn, WriterCloses, WriterEnds, Undefined, WriterIsCloser
  <2>3. /\ closer'["writer"].retries = closer["writer"].retries
        /\ closer'["writer"].j = closer["writer"].j
        /\ closer'["writer"].pc = closer["writer"].pc
           \/ (~complete /\ closer'["writer"].pc = "enter")
    BY <2>2 DEF TypeInv, TypeOK, Closers, CloserState
  <2>4. Finished' <=> Finished
    BY <2>2 DEF Finished
  <2>5. /\ Len(file_blocks') >= Len(file_blocks) /\ Len(file_blocks') \in Nat
        /\ \A i \in DOMAIN file_blocks : i \in DOMAIN file_blocks' /\ file_blocks'[i] = file_blocks[i]
        /\ \A i \in DOMAIN file_blocks' :
             \/ i \in DOMAIN file_blocks
             \/ file_blocks'[i].on_disk /\ file_blocks'[i].fd = "null"
    <3>1. CASE file_blocks' = file_blocks
      <4>1. file_blocks \in Seq(FileBlock)
        BY DEF TypeInv, TypeOK
      <4>2. QED  BY <3>1, <4>1
    <3>2. CASE Publish(FALSE)
      <4>1. file_blocks' \in Seq(FileBlock)
        BY <3>2, PublishType DEF TypeInv
      <4>2. Len(file_blocks') \in Nat
        BY <4>1
      <4>3. QED  BY <3>2, <4>2, AppendOnDisk
    <3>3. QED
      BY <1>1, <3>1, <3>2, Zenon DEF WriterStep, Open, WriteCall, SourceEnds, WriteLoop, FWrite, BlockFull,
         RollBlock, WriteReturn, WriterCloses, WriterEnds, Undefined
  <2>6. Waited'
    BY <2>2, <2>3, <2>4, <2>5 DEF CrashInv, Waited
  <2>7. InOrder'
    <3>1. \A q \in Readers : reader[q].pc = "fread" =>
            reader[q].num \in Nat /\ reader[q].num + 1 \in DOMAIN file_blocks
      BY DEF TypeInv, TypeOK, Found, InList, ReaderState
    <3>2. \A q \in Readers : reader[q].pc = "fread" => Slot(q)' = Slot(q)
      BY <2>2, <2>5, <3>1 DEF Slot
    <3>3. QED  BY <2>2, <3>2 DEF CrashInv, InOrder
  <2>9. Reaping' /\ Scanning'
    BY <2>2, <2>3, <2>5, LoopsUndisturbed DEF CrashInv
  <2>8. QED  BY <2>1, <2>6, <2>7, <2>9 DEF CrashInv, NoCrash
<1>2. CASE \E c \in Closers : CloserStep(c)
  BY <1>2, CrashCloser
<1>3. CASE \E q \in Readers : Ask(q) \/ ReadStep(q)
  BY <1>3, CrashReader
<1>4. CASE UNCHANGED vars
  BY <1>4 DEF vars, CrashInv, StreamWhole, Waited, InOrder, Reaping, Scanning, Status, NoCrash,
     Finished, Slot
<1>5. ~CleanerStarts
  BY DEF CleanerStarts, Orderly
<1>6. QED  BY <1>1, <1>2, <1>3, <1>4, <1>5, Zenon DEF Next, Quiet

LEMMA CrashInit ==
  ASSUME Orderly, Init
  PROVE  CrashInv
<1>1. StreamWhole /\ NoCrash
  BY SplitFileAssumption DEF Init, StreamWhole, NoCrash
<1>2. closer["writer"].pc = "idle" /\ closer["writer"].retries = Retries /\ closer["writer"].j = 0
  BY DEF Init, Closers
<1>3. Waited
  BY <1>2, SplitFileAssumption DEF Init, Waited, Orderly
<1>4. InOrder
  BY SplitFileAssumption DEF Init, InOrder, IdleReader
<1>5. Reaping /\ Scanning
  BY <1>2 DEF Init, Reaping, Scanning, IdleReader, Deleting
<1>6. QED  BY <1>1, <1>3, <1>4, <1>5 DEF CrashInv

(* One installer that reads front to back and is never idle for as long as *)
(* Close waits, one writer that closes the file itself, nothing that       *)
(* fails: no thread touches a freed block, a closed or missing file, or a  *)
(* block that is in the list already, whatever the sizes of blocks, ranges *)
(* and writes and however far behind the reader is.                        *)
THEOREM NoCrashAlways ==
  ASSUME NEW r, Readers = {r}, Orderly
  PROVE  Spec => []NoCrash
<1>1. Init => CrashInv
  BY CrashInit
<1>2. Init => Inv /\ DeleteInv /\ DanglingInHand
  <2>1. Init => DanglingInHand
    BY DEF Init, DanglingInHand
  <2>2. QED  BY <2>1, TypeInit, ListInit, ReadInit, RefineInit, DeleteInit DEF Inv
<1>3. Inv /\ DeleteInv /\ DanglingInHand /\ CrashInv /\ [Next]_vars
        => Inv' /\ DeleteInv' /\ DanglingInHand' /\ CrashInv'
  <2>1. Inv => TypeInv /\ ListInv /\ WriterIsCloser
    BY DEF Inv, RefineInv
  <2>2. Cleaner = FALSE /\ Lag <= KeepBlocks /\ ~FlushMayFail
    BY DEF Orderly
  <2>3. QED  BY <2>1, <2>2, RefineNext, DeleteNext, DanglingNext, CrashNext
<1>4. CrashInv => NoCrash
  BY DEF CrashInv
<1>5. QED  BY <1>1, <1>2, <1>3, <1>4, PTL DEF Spec
-----------------------------------------------------------------------------
(***************************************************************************)
(* Reads of a closed file go on to its end, with any number of readers and *)
(* callers of Close.  A call of Read starts at the block of its range and  *)
(* leaves a block for the next one only when it was not the last; blocks   *)
(* are never unmarked, so the next one is in the list once Close has       *)
(* published the last.                                                     *)
(***************************************************************************)
GoOnInv ==
  \A r \in Readers :
    /\ reader[r].pc = "first" =>
         /\ reader[r].num = BlockOf(reader[r].off)
         /\ reader[r].boff = reader[r].off % BlockSize
         /\ reader[r].buf = <<>>
    /\ reader[r].pc = "next" =>
         reader[r].num \in DOMAIN file_blocks /\ ~file_blocks[reader[r].num].is_last

(* What is published stays published, and its mark with it.                *)
LEMMA MarksStay ==
  ASSUME TypeInv, [Next]_vars
  PROVE  \A i \in DOMAIN file_blocks :
           i \in DOMAIN file_blocks' /\ file_blocks'[i].is_last = file_blocks[i].is_last
<1>1. \A i \in DOMAIN file_blocks : file_blocks[i] \in FileBlock
  BY DEF TypeInv, TypeOK
<1>2. CASE UNCHANGED file_blocks
  BY <1>2
<1>3. CASE \E last \in BOOLEAN : Publish(last)
  BY <1>3, AppendOnDisk
<1>4. CASE \E c \in Closers : (CloseTest(c) \/ CloseRemove(c)) /\ ~Undefined("delete_race")
  BY <1>4, CloserScans, SlotChangedShape DEF SameShape
<1>5. CASE \E r \in Readers : Ask(r) \/ ReadStep(r)
  BY <1>5, TypeNext, ReaderKeepsShape DEF SameShape
<1>6. CASE WriterStep
  BY <1>2, <1>3, <1>6, Zenon DEF WriterStep, Open, WriteCall, SourceEnds, WriteLoop, FWrite, BlockFull,
     RollBlock, WriteReturn, WriterCloses, WriterEnds, Undefined
<1>10. LastFlag \in BOOLEAN
  BY DEF LastFlag
<1>7. ASSUME NEW c \in Closers, CloserStep(c)
      PROVE  \/ UNCHANGED file_blocks
             \/ \E last \in BOOLEAN : Publish(last)
             \/ (CloseTest(c) \/ CloseRemove(c)) /\ ~Undefined("delete_race")
  BY <1>7, <1>10, Zenon DEF CloserStep, CloseClaim, ClosePublish, CloseTick, CloseWaited, Undefined
<1>8. CASE CleanerStarts \/ UNCHANGED vars
  BY <1>2, <1>8 DEF CleanerStarts, vars
<1>9. QED
  BY <1>2, <1>3, <1>4, <1>5, <1>6, <1>7, <1>8, Zenon DEF Next, Quiet

(* A step of one reader leaves the others where they are.                  *)
LEMMA GoOnReader ==
  ASSUME TypeInv, GoOnInv, [Next]_vars, NEW r \in Readers, Ask(r) \/ ReadStep(r)
  PROVE  GoOnInv'
<1>0. /\ reader \in [Readers -> ReaderState] /\ reader[r] \in ReaderState
      /\ \A i \in DOMAIN file_blocks :
           i \in DOMAIN file_blocks' /\ file_blocks'[i].is_last = file_blocks[i].is_last
  BY MarksStay DEF TypeInv, TypeOK
<1>1. ASSUME NEW x, reader' = [reader EXCEPT ![r] = x],
             x.pc = "first" =>
               /\ x.num = BlockOf(x.off) /\ x.boff = x.off % BlockSize /\ x.buf = <<>>,
             x.pc = "next" => x.num \in DOMAIN file_blocks' /\ ~file_blocks'[x.num].is_last
      PROVE  GoOnInv'
  <2>1. reader'[r] = x /\ \A q \in Readers : q # r => reader'[q] = reader[q]
    BY <1>0, <1>1
  <2>2. QED  BY <1>0, <1>1, <2>1 DEF GoOnInv
<1>2. CASE UNCHANGED reader
  BY <1>0, <1>2 DEF GoOnInv
<1>3. ASSUME NEW y \in ReaderState, reader' = [reader EXCEPT ![r] = StartRead(y)]
      PROVE  GoOnInv'
  <2>1. /\ StartRead(y).pc = "first" /\ StartRead(y).num = BlockOf(StartRead(y).off)
        /\ StartRead(y).boff = StartRead(y).off % BlockSize /\ StartRead(y).buf = <<>>
    BY DEF StartRead, ReaderState
  <2>2. QED  BY <1>1, <1>3, <2>1
<1>4. CASE Ask(r)
  <2>1. PICK off \in 0..(StreamLen - 1), len \in 1..MaxLen :
          reader' = [reader EXCEPT ![r] =
                       StartRead([@ EXCEPT !.off = off, !.len = len, !.body = <<>>,
                                           !.asked = reader[r].asked + 1])]
    BY <1>4 DEF Ask
  <2>2. off \in Nat /\ len \in Nat /\ reader[r].asked + 1 \in 0..MaxRequests
    <3>1. reader[r].asked \in 0..MaxRequests /\ reader[r].asked < MaxRequests
      BY <1>0, <1>4 DEF Ask, ReaderState
    <3>2. QED  BY <2>1, <3>1, SplitFileAssumption
  <2> DEFINE y == [reader[r] EXCEPT !.off = off, !.len = len, !.body = <<>>,
                                    !.asked = reader[r].asked + 1]
  <2>3. y \in ReaderState
    BY <1>0, <2>2, RangeUpdate
  <2>4. reader' = [reader EXCEPT ![r] = StartRead(y)]
    BY <2>1
  <2> HIDE DEF y
  <2>5. QED  BY <1>3, <2>3, <2>4
<1>5. CASE Serve(r)
  <2> DEFINE sent == reader[r].body \o reader[r].buf
             y == [reader[r] EXCEPT !.body = sent]
  <2>1. \/ reader' = [reader EXCEPT ![r] = IdleReader(reader[r].asked)]
        \/ reader' = [reader EXCEPT ![r] = StartRead(y)]
    BY <1>5 DEF Serve
  <2>2. y \in ReaderState
    <3>1. sent \in Seq(Nat)
      BY <1>0 DEF ReaderState
    <3> HIDE DEF sent
    <3>2. QED  BY <1>0, <3>1 DEF ReaderState
  <2> HIDE DEF y
  <2>3. CASE reader' = [reader EXCEPT ![r] = IdleReader(reader[r].asked)]
    <3>1. IdleReader(reader[r].asked).pc = "idle"
      BY DEF IdleReader
    <3>2. QED  BY <1>1, <2>3, <3>1
  <2>4. QED  BY <1>3, <2>1, <2>2, <2>3
<1>6. ASSUME NEW p \in {"seek", "fread", "ret", "reap"}, reader' = [reader EXCEPT ![r].pc = p]
      PROVE  GoOnInv'
  <2> DEFINE x == [reader[r] EXCEPT !.pc = p]
  <2>1. reader' = [reader EXCEPT ![r] = x] /\ x.pc = p
    BY <1>0, <1>6 DEF ReaderState
  <2> HIDE DEF x
  <2>2. QED  BY <1>1, <1>6, <2>1
<1>7. CASE ReadFirst(r) \/ ReadSeek(r) \/ ReadFails(r) \/ ReadNext(r)
  BY <1>2, <1>6, <1>7 DEF ReadFirst, ReadSeek, ReadFails, ReadNext, Undefined
<1>8. CASE ReapStep(r)
  <2>1. CASE Undefined("delete_race")
    BY <1>2, <2>1 DEF Undefined
  <2>2. CASE ~Undefined("delete_race")
    <3>1. PICK p \in {"reap"} \cup Deleting, n \in Nat :
            reader' = [reader EXCEPT ![r] = [reader[r] EXCEPT !.pc = p, !.j = n]]
      BY <1>8, <2>2, ReaderReaps
    <3> DEFINE x == [reader[r] EXCEPT !.pc = p, !.j = n]
    <3>2. x.pc = p /\ p # "first" /\ p # "next"
      BY <1>0 DEF ReaderState, Deleting
    <3>3. reader' = [reader EXCEPT ![r] = x]
      BY <3>1
    <3> HIDE DEF x
    <3>4. QED  BY <1>1, <3>2, <3>3
  <2>3. QED  BY <2>1, <2>2
<1>9. CASE ReadReturn(r)
  BY <1>6, <1>9 DEF ReadReturn
<1>10. CASE ReadBytes(r)
  <2>1. CASE UNCHANGED reader
    BY <1>2, <2>1
  <2> DEFINE buf == reader[r].buf \o Bytes(From(r), Delivered(r))
             boff == IF Served(r) THEN reader[r].boff ELSE NextOffset(r)
             num == IF Served(r) THEN reader[r].num ELSE reader[r].num + 1
             p == IF Served(r) THEN "reap" ELSE "next"
             x == [reader[r] EXCEPT !.buf = buf, !.pc = p, !.num = num, !.boff = boff]
  <2>2. CASE reader' = [reader EXCEPT ![r].buf = buf, ![r].pc = p, ![r].num = num, ![r].boff = boff]
    <3>1. p = "next" => num \in DOMAIN file_blocks /\ ~file_blocks[num].is_last
      <4>1. reader[r].num + 1 \in DOMAIN file_blocks
        <5>1. reader[r].num \in Nat /\ DOMAIN file_blocks = 1..Len(file_blocks)
              /\ Len(file_blocks) \in Nat
          BY <1>0 DEF ReaderState, TypeInv, TypeOK
        <5>2. InList(r)
          BY <1>10 DEF ReadBytes, TypeInv, Found
        <5>3. QED  BY <5>1, <5>2 DEF InList
      <4>2. p = "next" => num = reader[r].num + 1 /\ ~Slot(r).is_last
        BY DEF Served
      <4>3. QED  BY <4>1, <4>2 DEF Slot
    <3> HIDE DEF buf, boff, num
    <3>2. reader' = [reader EXCEPT ![r] = x] /\ x.pc = p /\ x.num = num
      BY <1>0, <2>2 DEF ReaderState
    <3>3. p # "first"
      OBVIOUS
    <3> HIDE DEF x, p
    <3>4. QED  BY <1>0, <1>1, <3>1, <3>2, <3>3
  <2>3. QED  BY <1>10, <2>1, <2>2 DEF ReadBytes, Undefined
<1>11. QED
  BY <1>4, <1>5, <1>7, <1>8, <1>9, <1>10 DEF ReadStep, ReapStep

LEMMA GoOnNext ==
  ASSUME TypeInv, GoOnInv, [Next]_vars
  PROVE  GoOnInv'
<1>1. CASE UNCHANGED reader
  BY <1>1, MarksStay DEF GoOnInv
<1>2. CASE \E r \in Readers : Ask(r) \/ ReadStep(r)
  BY <1>2, GoOnReader
<1>3. CASE WriterStep
  BY <1>1, <1>3, WriterDeletesNothing
<1>4. ASSUME NEW c \in Closers, CloserStep(c)
      PROVE  UNCHANGED reader
  BY <1>4, Zenon DEF CloserStep, CloseClaim, ClosePublish, CloseTick, CloseWaited, CloseTest,
     CloseRemove, Undefined
<1>5. CASE CleanerStarts \/ UNCHANGED vars
  BY <1>1, <1>5 DEF CleanerStarts, vars
<1>6. QED  BY <1>1, <1>2, <1>3, <1>4, <1>5, Zenon DEF Next, Quiet

(* In a closed file the bytes that are left of a range are in a block of   *)
(* the list, and in front of its end.                                      *)
LEMMA SealedFinds ==
  ASSUME TypeInv, ListInv, PublishedLast, GoOnInv, Sealed, NEW r \in Readers,
         reader[r].pc \in {"first", "next"}, reader[r].off + Len(reader[r].buf) < Stored
  PROVE  InList(r) /\ (reader[r].pc = "first" => ~PastEnd(r))
<1> DEFINE n == Len(file_blocks)
           k == reader[r].num
           off == reader[r].off
           boff == reader[r].boff
           end == block_in_progress.size
<1>1. /\ k \in Nat /\ n \in Nat /\ off \in Nat /\ end \in Nat /\ end <= BlockSize
      /\ n > 0 /\ file_blocks[n].size = end /\ DOMAIN file_blocks = 1..n
      /\ BlockSize \in Nat /\ BlockSize > 0
      /\ Stored = BlockSize * (n - 1) + end
  <2>1. block_in_progress.published
    BY DEF ListInv, InTheList
  <2>2. file_blocks \in Seq(FileBlock) /\ reader[r] \in ReaderState /\ block_in_progress \in InProgress
    BY DEF TypeInv, TypeOK
  <2>3. block_in_progress.size \in 0..BlockSize
    BY <2>2 DEF InProgress
  <2>4. reader[r].num \in Nat /\ reader[r].off \in Nat
    BY <2>2 DEF ReaderState
  <2>5. QED  BY <2>1, <2>2, <2>3, <2>4, SplitFileAssumption DEF PublishedLast, Stored
<1>2. CASE reader[r].pc = "first"
  <2>1. k = BlockOf(off) /\ boff = off % BlockSize /\ off < Stored
    <3>1. reader[r].buf = <<>>
      BY <1>2 DEF GoOnInv
    <3>2. Len(reader[r].buf) = 0
      BY <3>1
    <3>3. QED  BY <1>1, <1>2, <3>2 DEF GoOnInv
  <2>2. BlockSize * k + boff = off /\ boff \in Nat /\ boff < BlockSize
    <3>1. BlockOf(off) * BlockSize + (off % BlockSize) = off /\ (off % BlockSize) \in 0..(BlockSize - 1)
      BY <1>1, BlockArithmetic
    <3>2. k * BlockSize = BlockSize * k
      BY <1>1
    <3>3. QED  BY <1>1, <2>1, <3>1, <3>2
  <2>3. k < n => (k + 1 < n => file_blocks[k + 1].size = BlockSize)
                 /\ (k + 1 = n => file_blocks[k + 1].size = end)
    BY <1>1 DEF ListInv, BlockList
  <2>4. PastEnd(r) <=> file_blocks[k + 1].size > 0 /\ boff > file_blocks[k + 1].size - 1 /\ complete
    BY DEF PastEnd, Slot
  <2> HIDE DEF n, k, off, boff, end
  <2>5. k < n
    <3>1. SUFFICES ASSUME ~(k < n) PROVE FALSE
      OBVIOUS
    <3>2. BlockSize * n <= BlockSize * k
      BY <1>1, <3>1, TimesMonotonic
    <3>3. BlockSize * n = BlockSize * (n - 1) + BlockSize
      BY <1>1
    <3>4. BlockSize * n \in Int /\ BlockSize * k \in Int /\ BlockSize * (n - 1) \in Int
      BY <1>1
    <3>5. QED  BY <1>1, <2>1, <2>2, <3>2, <3>3, <3>4
  <2>6. CASE k + 1 < n
    <3>1. file_blocks[k + 1].size = BlockSize
      BY <2>3, <2>5, <2>6
    <3>2. ~(boff > BlockSize - 1)
      BY <1>1, <2>2
    <3>3. ~PastEnd(r)
      BY <2>4, <3>1, <3>2
    <3>4. QED  BY <2>5, <3>3 DEF InList, k, n
  <2>7. CASE k + 1 = n
    <3>1. n - 1 = k
      BY <1>1, <2>7
    <3>2. boff < end
      <4>1. BlockSize * k \in Int
        BY <1>1
      <4>2. QED  BY <1>1, <2>1, <2>2, <3>1, <4>1
    <3>3. ~PastEnd(r)
      BY <1>1, <2>2, <2>3, <2>4, <2>5, <2>7, <3>2
    <3>4. QED  BY <2>5, <3>3 DEF InList, k, n
  <2>8. QED  BY <1>1, <2>5, <2>6, <2>7
<1>3. CASE reader[r].pc = "next"
  <2>1. k \in 1..n /\ ~file_blocks[k].is_last
    BY <1>1, <1>3 DEF GoOnInv
  <2>2. file_blocks[n].is_last
    BY <1>1 DEF ListInv, BlockList
  <2>3. QED  BY <1>1, <1>3, <2>1, <2>2 DEF InList
<1>4. QED  BY <1>2, <1>3

LEMMA SealedStep ==
  ASSUME TypeInv, ListInv, PublishedLast, GoOnInv, Next, NEW r \in Readers,
         Sealed, reader[r].pc \in {"first", "next"}, reader[r].off + Len(reader[r].buf) < Stored
  PROVE  reader'[r].pc \notin {"ret", "reap"}
<1>0. reader \in [Readers -> ReaderState]
  BY DEF TypeInv, TypeOK
<1>1. InList(r) /\ (reader[r].pc = "first" => ~PastEnd(r))
  BY SealedFinds
<1>2. CASE reader'[r] = reader[r]
  BY <1>2
<1>3. CASE ReadFirst(r) \/ ReadNext(r)
  <2>1. UNCHANGED reader \/ reader' = [reader EXCEPT ![r].pc = "seek"]
    BY <1>1, <1>3 DEF ReadFirst, ReadNext, Undefined
  <2>2. QED  BY <1>0, <1>2, <2>1 DEF ReaderState
<1>4. ASSUME NEW q \in Readers, Ask(q) \/ ReadStep(q), q # r
      PROVE  reader'[r] = reader[r]
  <2>1. CASE ReapStep(q)
    <3>1. CASE Undefined("delete_race")
      BY <3>1 DEF Undefined
    <3>2. CASE ~Undefined("delete_race")
      <4>1. PICK x : reader' = [reader EXCEPT ![q] = x]
        BY <2>1, <3>2, ReaderReaps
      <4>2. QED  BY <1>0, <1>4, <4>1
    <3>3. QED  BY <3>1, <3>2
  <2>2. CASE ~ReapStep(q)
    BY <1>0, <1>4, <2>2 DEF Ask, ReadStep, ReapStep, ReadFirst, ReadSeek, ReadBytes, ReadFails,
       ReadNext, ReadReturn, Serve, Undefined
  <2>3. QED  BY <2>1, <2>2
<1>5. CASE Ask(r) \/ ReadStep(r)
  BY <1>3, <1>5 DEF Ask, ReadStep, ReadSeek, ReadBytes, ReadFails, ReadReap, ReapClose, ReapMark,
     ReapDelete, ReapReset, ReadReturn, Serve
<1>6. CASE WriterStep
  BY <1>2, <1>6, WriterDeletesNothing
<1>7. ASSUME NEW c \in Closers, CloserStep(c)
      PROVE  UNCHANGED reader
  BY <1>7, Zenon DEF CloserStep, CloseClaim, ClosePublish, CloseTick, CloseWaited, CloseTest,
     CloseRemove, Undefined
<1>8. CASE CleanerStarts \/ UNCHANGED vars
  BY <1>2, <1>8 DEF CleanerStarts, vars
<1>9. QED  BY <1>2, <1>4, <1>5, <1>6, <1>7, <1>8, Zenon DEF Next, Quiet

(* A read that waits while the file is closed is not cut short, whoever    *)
(* closes it and however many read it: a range with bytes left in the file *)
(* goes on to the block that holds them.                                   *)
THEOREM SealedReadsGoOnAlways == Spec => SealedReadsGoOn
<1> DEFINE GoesOn ==
             \A r \in Readers :
               /\ Sealed
               /\ reader[r].pc \in {"first", "next"}
               /\ reader[r].off + Len(reader[r].buf) < Stored
               => reader'[r].pc \notin {"ret", "reap"}
<1>1. Init => TypeInv /\ ListInv /\ PublishedLast /\ GoOnInv
  <2>1. Init => PublishedLast /\ GoOnInv
    BY DEF Init, PublishedLast, GoOnInv, IdleReader
  <2>2. QED  BY <2>1, TypeInit, ListInit
<1>2. TypeInv /\ ListInv /\ PublishedLast /\ GoOnInv /\ [Next]_vars
        => TypeInv' /\ ListInv' /\ PublishedLast' /\ GoOnInv' /\ [GoesOn]_vars
  BY TypeNext, ListNext, PublishedLastNext, GoOnNext, SealedStep
<1>3. QED  BY <1>1, <1>2, PTL DEF Spec, SealedReadsGoOn
=============================================================================
