------------------------------- MODULE FileOps -------------------------------
(***************************************************************************)
(* File management on the console: the worker thread that pastes or        *)
(* deletes what the user marked, and the HTTP server's threads that move,   *)
(* copy and remove files for a browser.  Both walk a directory tree entry   *)
(* by entry over the same file system, and every copy of every thread       *)
(* counts its bytes in the same two global variables.                       *)
(*                                                                         *)
(* A path is a sequence of names, the first of which names the device.  A   *)
(* file is the data it holds and how many blocks of it are there: FS::Copy  *)
(* goes 64 KB block by block.  What a walk lists, renames, creates or       *)
(* removes in one system call is one step.                                  *)
(***************************************************************************)
EXTENDS Integers, Sequences, SequencesExt

CONSTANTS
  Worker,      (* the activity thread                                            *)
  Http,        (* threads of the HTTP server                                     *)
  Jobs,        (* bound: what the threads are asked to do, each job at most once *)
  Trees,       (* what may be on the devices at the start                        *)
  Data, Size,  (* the contents of files and their numbers of blocks              *)
  Faults       (* what the file system may refuse each thread: "rename", "list", *)
               (* "mkdir", "remove", "full" (to open or write a file), "flush"     *)
               (* (the write that fclose does), "read"                             *)

Threads == Worker \cup Http
Dir == [of |-> "dir", blocks |-> 0]
Whole(d) == [of |-> d, blocks |-> Size[d]]

(* What f says, and elsewhere what g says: the @@ of module TLC, which provers *)
(* do not expand.                                                             *)
f ++ g == [x \in DOMAIN f \cup DOMAIN g |-> IF x \in DOMAIN f THEN f[x] ELSE g[x]]

Name == STRING
Path == Seq(Name) \ {<<>>}
Above(p) == {SubSeq(p, 1, i) : i \in 1..(Len(p) - 1)}
JobRecord == [kind : {"move", "copy", "remove"}, items : SUBSET Path, dest : Seq(Name),
              overwrite : {"ALL", "NONE", "PROMPT"}]

ASSUME FileOpsAssumption ==
  /\ Worker \cap Http = {}
  /\ Size \in [Data -> Nat]
  /\ "dir" \notin Data
  /\ Jobs \subseteq [Threads -> SUBSET JobRecord]
  /\ \A tree \in Trees :
       /\ DOMAIN tree \subseteq Path
       /\ \A p \in DOMAIN tree :
            /\ tree[p] \in {Dir} \cup {Whole(d) : d \in Data}
            /\ \A q \in Above(p) : q \in DOMAIN tree /\ tree[q] = Dir
  /\ Faults \in [Threads -> SUBSET {"rename", "list", "mkdir", "remove", "full", "flush", "read"}]

VARIABLES
  fs,                       (* path -> directory or file                          *)
  bytes_transfered, bytes_to_download,
  stop_activity, activity_inprogess,
  thread,                   (* the threads                                        *)
  jobs,                     (* jobs not yet given                                 *)
  forfeit                   (* data overwritten or removed by request; a ghost    *)

vars == <<fs, bytes_transfered, bytes_to_download, stop_activity, activity_inprogess,
          thread, jobs, forfeit>>
flags == <<stop_activity, activity_inprogess>>
counters == <<bytes_transfered, bytes_to_download>>

-----------------------------------------------------------------------------
(* Paths and the file system. *)
Exists(p) == p \in DOMAIN fs
IsDir(p) == Exists(p) /\ fs[p].of = "dir"
FileExists(p) == Exists(p) /\ fs[p].of # "dir"
Under(p) == {q \in DOMAIN fs : IsPrefix(p, q)}
Children(p) == {q \in Under(p) : Len(q) = Len(p) + 1}
Into(dest, p) == Append(dest, Last(p))

(* The directories mkdir makes on the way to p: none below a file. *)
MkDirs(f, p) ==
  LET above == {SubSeq(p, 1, i) : i \in 1..Len(p)}
      made == {q \in above \ DOMAIN f :
                 \A r \in DOMAIN f : IsPrefix(r, q) => f[r].of = "dir"}
  IN f ++ [q \in made |-> Dir]

Unlinked(f, gone) == [q \in DOMAIN f \ gone |-> f[q]]

(* rename(2): why it may refuse, and what it does.  A file replaces a file. *)
RenameError(from, to) ==
  IF ~Exists(from) \/ ~IsDir(Front(to)) THEN "other"
  ELSE IF Head(from) # Head(to) THEN "EXDEV"
  ELSE IF IsPrefix(from, to) /\ from # to THEN "other"
  ELSE IF Exists(to) /\ (IsDir(from) \/ IsDir(to)) THEN "other"
  ELSE "none"

Renamed(from, to) ==
  LET kept == [q \in DOMAIN fs \ (Under(from) \cup Under(to)) |-> fs[q]]
      moved == {to \o SubSeq(q, Len(from) + 1, Len(q)) : q \in Under(from)}
  IN kept ++ [q \in moved |-> fs[from \o SubSeq(q, Len(to) + 1, Len(q))]]

-----------------------------------------------------------------------------
(* Threads: where they are, the directories they are in, the file at hand. *)
NoItem == [path |-> <<>>, isDir |-> FALSE]
NoJob == [kind |-> "none", items |-> {}, dest |-> <<>>, overwrite |-> "ALL"]
Idle == [pc |-> "idle", job |-> NoJob, items |-> {}, item |-> NoItem, stack |-> <<>>,
         from |-> <<>>, to |-> <<>>, data |-> "dir", block |-> 0, ret |-> 1, removing |-> FALSE,
         failed |-> FALSE, was |-> <<>>, alone |-> TRUE, plain |-> TRUE]

At(t, pc) == thread[t].pc = pc

TypeOK ==
  /\ \A p \in DOMAIN fs :
       fs[p] # Dir => fs[p].of \in Data /\ fs[p].blocks \in 0..Size[fs[p].of]
  /\ \A p \in DOMAIN fs : \A q \in Above(p) : IsDir(q)
  /\ bytes_transfered \in Nat /\ bytes_to_download \in Nat
  /\ {stop_activity, activity_inprogess} \subseteq BOOLEAN
  /\ \A t \in Threads :
       /\ thread[t].pc \in {"idle", "items", "enter", "entries", "file", "ask", "move", "copy",
                            "block", "test", "unlink", "done", "rm", "rmloop", "rmtest"}
       /\ thread[t].ret \in {-1, 0, 1}
       /\ thread[t].pc \in {"block", "test"} =>
            thread[t].data \in Data /\ thread[t].block \in 0..Size[thread[t].data]
       /\ \A i \in DOMAIN thread[t].stack :
            \A e \in thread[t].stack[i].todo : Front(e.path) = thread[t].stack[i].src
  /\ forfeit \subseteq Data

Init ==
  /\ fs \in Trees
  /\ bytes_transfered = 0 /\ bytes_to_download = 0
  /\ stop_activity = FALSE /\ activity_inprogess = FALSE
  /\ thread = [t \in Threads |-> Idle]
  /\ jobs \in Jobs
  /\ forfeit = {}

Kind(t) == thread[t].job.kind
MutOverwrite(t) == IF thread[t].job.overwrite = "NONE" THEN "ALL" ELSE thread[t].job.overwrite
Overwrite(t) == thread[t].job.overwrite
Top(t) == Last(thread[t].stack)

(* The walk of the worker looks at stop_activity, the HTTP server's does not. *)
Stopped(t) == t \in Worker /\ stop_activity

(* Thread t changes the fields of r; the others are no longer alone. *)
Set(t, r) ==
  thread' = [u \in Threads |-> IF u = t THEN r ++ thread[t]
                                ELSE [thread[u] EXCEPT !.alone = FALSE]]

(* A file system call fails for a reason of its own. *)
Fault(t, f) == f \in Faults[t]
Odd == [plain |-> FALSE]

(* CopyOrMove returns: to the directory above, or, failed or at the top, out. *)
Return(t, ret) ==
  IF ret = 1 /\ thread[t].stack # <<>> THEN [pc |-> "entries"]
  ELSE [pc |-> "done", stack |-> <<>>, ret |-> ret]
Leave(t) ==
  LET above == Front(thread[t].stack)
  IN IF above = <<>> THEN [pc |-> "done", stack |-> <<>>, ret |-> 1]
     ELSE [pc |-> "entries", stack |-> above]

Blocks(p) == IF FileExists(p) THEN fs[p].blocks ELSE 0
Entry(p) == [path |-> p, isDir |-> IsDir(p), size |-> Blocks(p)]
MutEntries(p) == {Entry(q) : q \in Children(p) \cup (IF Len(p) > 1 THEN {Front(p)} ELSE {})}
Entries(p) == {Entry(q) : q \in Children(p)}

-----------------------------------------------------------------------------
(***************************************************************************)
(* A job: the items one after the other.                                   *)
(***************************************************************************)
Begin(t) ==
  /\ At(t, "idle")
  /\ t \in Http => ~activity_inprogess
  /\ \E job \in jobs[t] :
       /\ t \in Worker => \A p \in job.items : Exists(p)
       /\ jobs' = [jobs EXCEPT ![t] = @ \ {job}]
       /\ Set(t, [Idle EXCEPT !.pc = "items", !.job = job, !.was = fs, !.items = job.items])
  /\ IF t \in Worker THEN activity_inprogess' = TRUE /\ stop_activity' = FALSE
     ELSE UNCHANGED flags
  /\ UNCHANGED <<fs, counters, forfeit>>

(* What the worker does not paste: a file where it is, a directory into itself. *)
Skipped(t, item) ==
  /\ t \in Worker /\ Kind(t) # "remove"
  /\ \/ Front(item.path) = thread[t].job.dest
     \/ item.isDir /\ IsPrefix(item.path, thread[t].job.dest)

(* For the HTTP server what is not there counts as a directory (IsFolder is -1). *)
Item(t, p) == [path |-> p, isDir |-> IF t \in Http THEN ~FileExists(p)
                                     ELSE thread[t].was[p].of = "dir"]

NextItem(t) ==
  /\ At(t, "items")
  /\ Kind(t) # "remove" => ~Stopped(t)
  /\ \E p \in thread[t].items :
       LET item == Item(t, p)
           to == Into(thread[t].job.dest, p)
           pc == IF Kind(t) = "remove" THEN "rm"
                 ELSE IF Skipped(t, item) THEN "items"
                 ELSE IF item.isDir THEN "enter"
                 ELSE IF t \in Worker THEN "file" ELSE Kind(t)
       IN /\ Set(t, [pc |-> pc, items |-> thread[t].items \ {p}, item |-> item,
                     from |-> p, to |-> to, removing |-> FALSE])
          /\ bytes_to_download' = IF pc = "file" THEN thread[t].was[p].blocks
                                  ELSE bytes_to_download
  /\ UNCHANGED <<fs, bytes_transfered, flags, jobs, forfeit>>

(* One item is done.  The server's move now removes the directory; it counts *)
(* as failed what returned 0, for -1 is TRUE to it.                          *)
ItemDone(t) ==
  /\ At(t, "done")
  /\ IF t \in Http /\ Kind(t) = "move" /\ thread[t].item.isDir /\ thread[t].ret # 0
        /\ ~thread[t].removing
     THEN Set(t, [pc |-> "rm", from |-> thread[t].item.path, removing |-> TRUE])
     ELSE Set(t, [pc |-> "items",
                  failed |-> thread[t].failed \/ (thread[t].ret = 0 /\ ~thread[t].removing)])
  /\ UNCHANGED <<fs, counters, flags, jobs, forfeit>>

(* The thread ends, or the request is answered: failed or success. *)
Finish(t) ==
  /\ At(t, "items")
  /\ thread[t].items = {} \/ (Kind(t) # "remove" /\ Stopped(t))
  /\ Set(t, [pc |-> "idle", item |-> NoItem, from |-> <<>>, to |-> <<>>, block |-> 0,
             plain |-> thread[t].plain /\ thread[t].items = {}])
  /\ activity_inprogess' = IF t \in Worker THEN FALSE ELSE activity_inprogess
  /\ UNCHANGED <<fs, counters, stop_activity, jobs, forfeit>>

-----------------------------------------------------------------------------
(***************************************************************************)
(* CopyOrMove on a directory.                                              *)
(***************************************************************************)
EnterStopped(t) ==
  /\ At(t, "enter") /\ Stopped(t)
  /\ Set(t, Return(t, 1) ++ Odd)
  /\ UNCHANGED <<fs, counters, flags, jobs, forfeit>>

(* The worker first tries to rename a directory that is not at the destination. *)
Renames(t) == t \in Worker /\ Kind(t) = "move" /\ ~Exists(thread[t].to)

(* An error other than EXDEV ends it. *)
EnterRefused(t) ==
  /\ At(t, "enter") /\ ~Stopped(t) /\ Renames(t)
  /\ RenameError(thread[t].from, thread[t].to) = "other" \/ Fault(t, "rename")
  /\ Set(t, Return(t, 0) ++ Odd)
  /\ UNCHANGED <<fs, counters, flags, jobs, forfeit>>

(* The directory is listed, the listing may fail unnoticed, and is made at the *)
(* destination.  After a rename there is nothing left to list.                 *)
EnterListed(t) ==
  LET from == thread[t].from
      to == thread[t].to
      renamed == Renames(t) /\ RenameError(from, to) = "none"
      now == IF renamed THEN Renamed(from, to) ELSE MkDirs(fs, to)
  IN /\ At(t, "enter") /\ ~Stopped(t)
     /\ Renames(t) => RenameError(from, to) # "other"
     /\ fs' = now
     /\ \/ Set(t, [pc |-> "entries",
                   stack |-> Append(thread[t].stack,
                     [src |-> from, dest |-> to,
                      todo |-> IF renamed THEN {} ELSE Entries(from)])])
        \/ /\ Fault(t, "list")
           /\ Set(t, [pc |-> "entries",
                      stack |-> Append(thread[t].stack, [src |-> from, dest |-> to, todo |-> {}])]
                     ++ Odd)
     /\ UNCHANGED <<counters, flags, jobs, forfeit>>

(* The next entry of the directory.  For a file the worker sets the counters,  *)
(* for the progress dialog, before it knows whether there is a copy to count.  *)
NextEntry(t) ==
  /\ At(t, "entries") /\ ~Stopped(t)
  /\ \E e \in Top(t).todo :
       LET pc == IF e.isDir THEN "enter" ELSE IF t \in Worker THEN "file" ELSE Kind(t)
       IN /\ Set(t, [pc |-> pc, from |-> e.path, to |-> Into(Top(t).dest, e.path),
                     stack |-> Front(thread[t].stack) \o
                                 <<[Top(t) EXCEPT !.todo = @ \ {e}]>>])
          /\ IF pc = "file" THEN bytes_to_download' = e.size /\ bytes_transfered' = 0
             ELSE UNCHANGED counters
  /\ UNCHANGED <<fs, flags, jobs, forfeit>>

EntriesStopped(t) ==
  /\ At(t, "entries") /\ Stopped(t) /\ Top(t).todo # {}
  /\ Set(t, Leave(t) ++ Odd)
  /\ UNCHANGED <<fs, counters, flags, jobs, forfeit>>

(* The directory is done; the worker's move takes it away, when it is empty. *)
MutRemovesEmpty(t) == t \in Worker /\ Kind(t) = "move"
RemovesEmpty(t) ==
  /\ t \in Worker /\ Kind(t) = "move"
  /\ IsDir(Top(t).src) /\ Children(Top(t).src) = {}

EntriesDone(t) ==
  /\ At(t, "entries") /\ Top(t).todo = {}
  /\ fs' = IF RemovesEmpty(t) THEN Unlinked(fs, Under(Top(t).src)) ELSE fs
  /\ Set(t, Leave(t))
  /\ UNCHANGED <<counters, flags, jobs, forfeit>>

(* mkdir is refused on the way to the destination, which nothing looks at: the *)
(* walk goes on.                                                               *)
EnterUnmade(t) ==
  LET from == thread[t].from
      to == thread[t].to
  IN /\ At(t, "enter") /\ ~Stopped(t) /\ Fault(t, "mkdir") /\ ~Exists(to)
     /\ Renames(t) => RenameError(from, to) = "EXDEV"
     /\ \E p \in Above(to) : fs' = MkDirs(fs, p)
     /\ \E todo \in {{}, Entries(from)} :
          /\ todo = {} => Fault(t, "list") \/ Entries(from) = {}
          /\ Set(t, [pc |-> "entries",
                     stack |-> Append(thread[t].stack, [src |-> from, dest |-> to, todo |-> todo])]
                    ++ Odd)
     /\ UNCHANGED <<counters, flags, jobs, forfeit>>

-----------------------------------------------------------------------------
(***************************************************************************)
(* CopyOrMoveLocalFile, FS::Move and FS::Copy on one file.                 *)
(***************************************************************************)
(* The worker asks, skips or goes on. *)
File(t) ==
  /\ At(t, "file")
  /\ LET there == FileExists(thread[t].to)
     IN CASE there /\ Overwrite(t) = "PROMPT" ->
               /\ Set(t, [pc |-> "ask"])
               /\ activity_inprogess' = FALSE
          [] there /\ Overwrite(t) = "NONE" ->
               Set(t, Return(t, 1) ++ Odd) /\ UNCHANGED activity_inprogess
          [] OTHER -> Set(t, [pc |-> Kind(t)]) /\ UNCHANGED activity_inprogess
  /\ UNCHANGED <<fs, counters, stop_activity, jobs, forfeit>>

Answer(t) ==
  /\ At(t, "ask")
  /\ Set(t, [pc |-> Kind(t)]) \/ Set(t, Return(t, 1) ++ Odd)
  /\ activity_inprogess' = TRUE
  /\ UNCHANGED <<fs, counters, stop_activity, jobs, forfeit>>

(* What is lost at p if the file f is written there: not what f is all of. *)
Overwritten(p, f) ==
  IF FileExists(p) THEN {d \in Data : d = fs[p].of /\ f # Whole(d)} ELSE {}

MoveRenamed(t) ==
  LET from == thread[t].from
      to == thread[t].to
  IN /\ At(t, "move") /\ from # to /\ RenameError(from, to) = "none"
     /\ fs' = Renamed(from, to)
     /\ forfeit' = forfeit \cup Overwritten(to, fs[from])
     /\ Set(t, Return(t, 1))
     /\ UNCHANGED <<counters, flags, jobs>>

(* Only EXDEV makes Move copy (EEXIST would, but is not what rename says of a  *)
(* file); after any other error it has "moved" the file.                       *)
MoveRefused(t) ==
  LET error == RenameError(thread[t].from, thread[t].to)
  IN /\ At(t, "move")
     /\ \/ thread[t].from = thread[t].to /\ Set(t, Return(t, 1))
        \/ error = "other" /\ Set(t, Return(t, 1) ++ Odd)
        \/ Fault(t, "rename") /\ Set(t, Return(t, 1) ++ Odd)
     /\ UNCHANGED <<fs, counters, flags, jobs, forfeit>>

MoveCopies(t) ==
  /\ At(t, "move") /\ RenameError(thread[t].from, thread[t].to) = "EXDEV"
  /\ Set(t, [pc |-> "copy"])
  /\ UNCHANGED <<fs, counters, flags, jobs, forfeit>>

(* The directories above are made, the source opened, its size becomes the    *)
(* global number of bytes to do, and the destination is opened and emptied.   *)
CopyBegin(t) ==
  LET from == thread[t].from
      to == thread[t].to
      made == MkDirs(fs, Front(to))
      opened == Front(to) \in DOMAIN made /\ made[Front(to)] = Dir /\ ~IsDir(to)
  IN /\ At(t, "copy") /\ from # to /\ FileExists(from)
     /\ bytes_to_download' = fs[from].blocks
     /\ \/ /\ opened
           /\ fs' = [p \in {to} |-> [of |-> fs[from].of, blocks |-> 0]] ++ made
           /\ forfeit' = forfeit \cup Overwritten(to, fs[from])
           /\ bytes_transfered' = 0
           /\ Set(t, [pc |-> "block", data |-> fs[from].of, block |-> 0])
        \/ /\ ~opened \/ Fault(t, "full")
           /\ fs' = made
           /\ Set(t, Return(t, 0) ++ Odd)
           /\ UNCHANGED <<bytes_transfered, forfeit>>
     /\ UNCHANGED <<flags, jobs>>

(* A file onto itself, or a file that is not there. *)
CopyNothing(t) ==
  LET same == thread[t].from = thread[t].to
  IN /\ At(t, "copy") /\ (same \/ ~FileExists(thread[t].from))
     /\ fs' = MkDirs(fs, Front(thread[t].to))
     /\ Set(t, Return(t, IF same THEN 1 ELSE 0))
     /\ UNCHANGED <<counters, flags, jobs, forfeit>>

(* A directory above the destination is missing and refused, and with it the  *)
(* destination.                                                                *)
CopyUnmade(t) ==
  LET from == thread[t].from
      to == thread[t].to
  IN /\ At(t, "copy") /\ Fault(t, "mkdir") /\ ~Exists(Front(to))
     /\ \E p \in Above(Front(to)) : fs' = MkDirs(fs, p)
     /\ bytes_to_download' = IF from # to /\ FileExists(from) THEN fs[from].blocks
                             ELSE bytes_to_download
     /\ Set(t, Return(t, IF from = to THEN 1 ELSE 0) ++ Odd)
     /\ UNCHANGED <<bytes_transfered, flags, jobs, forfeit>>

(* The file the thread has open at the destination now has so many blocks.    *)
MutWritten(t, blocks) == [fs EXCEPT ![thread[t].to] = [@ EXCEPT !.blocks = @ + blocks]]
Written(t, blocks) ==
  LET to == thread[t].to
  IN IF FileExists(to) /\ fs[to].of = thread[t].data
     THEN [fs EXCEPT ![to].blocks = blocks] ELSE fs

(* What there is to read: the source stays open when it is taken away. *)
Source(t) ==
  LET from == thread[t].from
  IN IF FileExists(from) /\ fs[from].of = thread[t].data THEN fs[from].blocks
     ELSE Size[thread[t].data]

(* fread, fwrite and the addition to the global count; at the end of the file *)
(* nothing is read and nothing is added.                                      *)
CopyBlock(t) ==
  LET more == thread[t].block < Source(t)
      block == IF more THEN thread[t].block + 1 ELSE thread[t].block
  IN /\ At(t, "block")
     /\ \/ /\ fs' = Written(t, block)
           /\ bytes_transfered' = bytes_transfered + (block - thread[t].block)
           /\ Set(t, [pc |-> "test", block |-> block])
        \/ /\ more /\ Fault(t, "full")
           /\ Set(t, Return(t, 0) ++ Odd)
           /\ UNCHANGED <<fs, bytes_transfered>>
     /\ UNCHANGED <<bytes_to_download, flags, jobs, forfeit>>

(* fread fails and returns 0, which is not < 0: nothing is written or added, *)
(* and the loop goes round.                                                  *)
ReadFails(t) ==
  /\ At(t, "block") /\ Fault(t, "read") /\ thread[t].block < Source(t)
  /\ Set(t, [pc |-> "test"])
  /\ UNCHANGED <<fs, counters, flags, jobs, forfeit>>

(* The loop ends when the global counts are equal, whoever has counted. *)
MutCopied(t) == bytes_transfered + 1 >= bytes_to_download
MutCopiedMore(t) == bytes_transfered > bytes_to_download
Copied(t) == bytes_transfered >= bytes_to_download

CopyTest(t) ==
  /\ At(t, "test")
  /\ IF ~Copied(t) THEN Set(t, [pc |-> "block"]) /\ UNCHANGED fs
     ELSE LET next == IF Kind(t) = "move" THEN [pc |-> "unlink"] ELSE Return(t, 1)
          IN \/ Set(t, next) /\ UNCHANGED fs
             \/ /\ Fault(t, "flush") /\ thread[t].block > 0
                /\ fs' = Written(t, thread[t].block - 1)
                /\ Set(t, next ++ Odd)
  /\ UNCHANGED <<counters, flags, jobs, forfeit>>

(* Move removes its source after the copy. *)
Unlink(t) ==
  /\ At(t, "unlink")
  /\ fs' = IF FileExists(thread[t].from) THEN Unlinked(fs, {thread[t].from}) ELSE fs
  /\ Set(t, Return(t, 1))
  /\ UNCHANGED <<counters, flags, jobs, forfeit>>

-----------------------------------------------------------------------------
(***************************************************************************)
(* FS::RmRecursive, of every thread.  It looks at stop_activity.           *)
(***************************************************************************)
RmReturn(t, ret) ==
  IF thread[t].stack = <<>> THEN [pc |-> "done", ret |-> ret]
  ELSE IF ret = 1 THEN [pc |-> "rmtest"]
  ELSE [pc |-> "done", stack |-> <<>>, ret |-> ret]
RmLeave(t) ==
  LET above == Front(thread[t].stack)
  IN IF above = <<>> THEN [pc |-> "done", stack |-> <<>>, ret |-> 1]
     ELSE [pc |-> "rmtest", stack |-> above]

(* Data a remove request takes away; a move may take none. *)
Asked(t) == IF Kind(t) = "remove" /\ FileExists(thread[t].from)
            THEN {fs[thread[t].from].of} ELSE {}

(* Of a file in a directory it does not look at stop_activity again. *)
RmEnter(t) ==
  LET from == thread[t].from
      goesOn == ~stop_activity \/ thread[t].stack # <<>>
  IN /\ At(t, "rm")
     /\ \/ /\ stop_activity /\ ~(goesOn /\ FileExists(from))
           /\ Set(t, RmReturn(t, 1) ++ Odd)
           /\ UNCHANGED <<fs, forfeit>>
        \/ /\ ~stop_activity /\ IsDir(from)
           /\ Set(t, [pc |-> "rmloop",
                      stack |-> Append(thread[t].stack,
                        [src |-> from, dest |-> <<>>, todo |-> Entries(from)])])
           /\ UNCHANGED <<fs, forfeit>>
        \/ /\ goesOn /\ FileExists(from)
           /\ fs' = Unlinked(fs, {from})
           /\ forfeit' = forfeit \cup Asked(t)
           /\ Set(t, RmReturn(t, 1))
        \/ /\ goesOn /\ (~Exists(from) \/ (Fault(t, "remove") /\ FileExists(from)))
           /\ Set(t, RmReturn(t, -1) ++ Odd)
           /\ UNCHANGED <<fs, forfeit>>
     /\ UNCHANGED <<counters, flags, jobs>>

RmNext(t) ==
  /\ At(t, "rmloop")
  /\ \E e \in Top(t).todo :
       Set(t, [pc |-> "rm", from |-> e.path,
               stack |-> Front(thread[t].stack) \o
                           <<[Top(t) EXCEPT !.todo = @ \ {e}]>>])
  /\ UNCHANGED <<fs, counters, flags, jobs, forfeit>>

(* After an entry the loop ends when the activity was stopped. *)
RmTest(t) ==
  /\ At(t, "rmtest")
  /\ IF stop_activity THEN Set(t, [pc |-> "done", stack |-> <<>>, ret |-> 0] ++ Odd)
     ELSE Set(t, [pc |-> "rmloop"])
  /\ UNCHANGED <<fs, counters, flags, jobs, forfeit>>

(* rmdir wants the directory there and empty. *)
RmDone(t) ==
  LET dir == Top(t).src
      empty == IsDir(dir) /\ Children(dir) = {}
  IN /\ At(t, "rmloop") /\ Top(t).todo = {}
     /\ IF stop_activity
        THEN Set(t, [pc |-> "done", stack |-> <<>>, ret |-> 0] ++ Odd) /\ UNCHANGED fs
        ELSE \/ /\ empty
                /\ fs' = Unlinked(fs, {dir})
                /\ Set(t, RmLeave(t))
             \/ /\ ~empty \/ Fault(t, "remove")
                /\ Set(t, [pc |-> "done", stack |-> <<>>, ret |-> -1] ++ Odd)
                /\ UNCHANGED fs
     /\ UNCHANGED <<counters, flags, jobs, forfeit>>

(* The user presses Cancel in the progress dialog. *)
Cancel ==
  /\ activity_inprogess /\ ~stop_activity
  /\ stop_activity' = TRUE
  /\ UNCHANGED <<fs, counters, activity_inprogess, thread, jobs, forfeit>>

-----------------------------------------------------------------------------
Step(t) ==
  \/ NextItem(t) \/ ItemDone(t) \/ Finish(t)
  \/ EnterStopped(t) \/ EnterRefused(t) \/ EnterListed(t) \/ EnterUnmade(t)
  \/ NextEntry(t) \/ EntriesStopped(t) \/ EntriesDone(t)
  \/ File(t) \/ Answer(t)
  \/ MoveRenamed(t) \/ MoveRefused(t) \/ MoveCopies(t)
  \/ CopyBegin(t) \/ CopyNothing(t) \/ CopyUnmade(t)
  \/ CopyBlock(t) \/ ReadFails(t) \/ CopyTest(t) \/ Unlink(t)
  \/ RmEnter(t) \/ RmNext(t) \/ RmTest(t) \/ RmDone(t)

Next == Cancel \/ \E t \in Threads : Begin(t) \/ Step(t)

Spec == Init /\ [][Next]_vars

(* Every thread is scheduled, and the user answers. *)
FairSpec == Spec /\ \A t \in Threads : WF_vars(Step(t))

-----------------------------------------------------------------------------
(* Nothing is lost: what was on the devices is still there, whole, somewhere,  *)
(* unless the user let a file be overwritten or had it removed.  A move that   *)
(* copies takes its source away only after the last block is written, a        *)
(* cancelled or failed one leaves each file on one side at least.  It asks of  *)
(* the file system that it refuses the server's threads, which remove what     *)
(* they have walked, no rename, mkdir or listing and nobody the last write.    *)
NothingLost ==
  \A t \in Threads : \A p \in DOMAIN thread[t].was :
    LET d == thread[t].was[p].of
    IN d \in Data \ forfeit => \E q \in DOMAIN fs : fs[q] = Whole(d)

(* Where q, at or under the item p, belongs after the paste. *)
Pasted(t, p, q) == Into(thread[t].job.dest, p) \o SubSeq(q, Len(p) + 1, Len(q))

(* The worker met no fault, no No, no Cancel; the server answered "success".   *)
Promised(t) == thread[t].alone /\ IF t \in Worker THEN thread[t].plain ELSE ~thread[t].failed

(* The items lie in one directory, the destination is a directory, nothing is    *)
(* pasted onto or below what is to be pasted, and a directory only onto a         *)
(* directory, a file only onto a file: CopyOrMove does not look at what mkdir     *)
(* and rename return.                                                              *)
Fits(t) ==
  LET was == thread[t].was
      pasted == {i \in thread[t].job.items : ~Skipped(t, Item(t, i))}
  IN /\ \A p, q \in thread[t].job.items : Front(p) = Front(q)
     /\ thread[t].job.dest \in DOMAIN was /\ was[thread[t].job.dest] = Dir
     /\ \A p \in pasted : \A q \in {p} \cup {r \in DOMAIN was : IsPrefix(p, r)} :
          /\ \A i \in pasted : ~IsPrefix(i, Pasted(t, p, q))
          /\ {q, Pasted(t, p, q)} \subseteq DOMAIN was =>
               (was[q] = Dir <=> was[Pasted(t, p, q)] = Dir)

(* A cut or copy that ends so, with no other thread about, has put everything  *)
(* under the items at the destination, also where directories of the same name *)
(* had to be merged, and a cut that was let do its work has left nothing of    *)
(* them behind.                                                                *)
PasteComplete ==
  \A t \in Threads :
    At(t, "idle") /\ Kind(t) \in {"move", "copy"} /\ Fits(t) /\ Promised(t) =>
      \A p \in {i \in thread[t].job.items : ~Skipped(t, Item(t, i))} :
        \A q \in {r \in DOMAIN thread[t].was : IsPrefix(p, r)} :
          /\ Exists(Pasted(t, p, q)) /\ fs[Pasted(t, p, q)] = thread[t].was[q]
          /\ Kind(t) = "move" /\ thread[t].plain => ~Exists(q)

(* With "Don't overwrite" no file that was at the destination is touched, not   *)
(* by merging directories, nor by a rename, nor after a Cancel or a fault.      *)
SkipKeeps ==
  \A t \in Worker :
    thread[t].job.overwrite = "NONE" /\ thread[t].alone =>
      \A q \in DOMAIN thread[t].was :
        /\ IsPrefix(thread[t].job.dest, q) /\ thread[t].was[q] # Dir
        /\ \A p \in thread[t].job.items : ~IsPrefix(p, q)
        => Exists(q) /\ fs[q] = thread[t].was[q]

(* What the user did not name survives: a delete or a cut takes away nothing    *)
(* outside its items, a copy nothing at all.                                    *)
OnlyItemsGo ==
  [][\A t \in Threads : \A p \in DOMAIN fs :
       thread'[t] # thread[t] /\ thread'[t].alone = thread[t].alone /\ p \notin DOMAIN fs' =>
         /\ Kind(t) # "copy"
         /\ \E i \in thread[t].job.items : IsPrefix(i, p)]_vars

(* Every job ends: the walk, and the loop of Copy that waits for two global     *)
(* counters to meet, although others list, rename and remove meanwhile.  One    *)
(* does not end: the copy of a file whose reading fails and goes on failing,    *)
(* which no Cancel ends.                                                         *)
JobsEnd ==
  \A t \in Threads :
    (~At(t, "idle") ~> At(t, "idle")) \/ []<><<ReadFails(t)>>_vars
=============================================================================
