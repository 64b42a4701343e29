# A verification of the ezRemote client

ezRemote client is a file manager for the PS5: it browses local and remote
directories (FTP, SMB, NFS, SFTP, WebDAV, HTTP listings), transfers, packs and
deletes files, and installs packages straight from the remote side. It also
runs an HTTP server through which a browser manages the console's files and
through which the console's own package installer fetches what is installed.

This directory holds TLA+ modules of the parts where threads meet, TLC
configurations that check them on small instances, and TLAPS proofs of the
most important results for every value of the constants.

## 1. The system

Threads: the UI loop (`gui.cpp` RenderLoop: input, windows and dialogs,
`ExecuteActions`, once per frame); one worker thread per activity
(`actions.cpp`, created by `ExecuteActions`); the HTTP server's thread pool
(`server/http_server.cpp`); per cached package a writer thread
(`ExtractArchivePkg`, `DownloadSplitPkg`) and later a clean-up thread
(`installer.cpp`); the FTP keep-alive thread; and, in another process, the
console's package installer, which fetches ranges over HTTP. They share plain
global variables and objects, nearly always without a lock.

| Component | State | Operations | Interacts with | What is hard | What makes it correct |
|---|---|---|---|---|---|
| Split file (`split_file.cpp`) | block list, block in progress, `complete`, write and read offset | Open, Write, Close, Read | writer thread, HTTP content providers, clean-up thread | readers poll while the writer appends; reading deletes old blocks; Close publishes and then waits | every byte served is the byte asked for; no freed block is used; every range is answered; Close returns |
| Activities (`windows.cpp`, `actions.cpp`) | `selected_action`, `activity_inprogess`, `stop_activity`, `paused`, `confirm_state`, the selection | menu, dialogs, Cancel, start, per-file loop, question, end | UI loop, workers, HTTP threads, package installation | all hand-over is by flags; a question takes the activity flag down | one activity at a time; nothing overwritten or deleted without consent; Cancel is heeded; each activity ends |
| Package installation (`installer.cpp`, `install_url` in `http_server.cpp`) | two maps hash → install data, background check thread, the activity flags | install remote, archive, split, URL; clean-up | console installer, split file, HTTP server | object lifetimes over five threads; error returns that skip the clean-up | each install's data lives as long as anyone uses it and is freed once |
| HTTP server (`server/http_server.cpp`) | none of its own | list, move, copy, remove, extract, compress, upload, content providers | all of the above | its requests run beside the activities | a reply of success means the operation was done |
| File operations (`fs.cpp`, `CopyOrMove`) | the file system | copy, move, remove recursively | workers, HTTP handlers | errors half-way; a stale `stop_activity` | a file is never lost: it is at the source or at the destination |
| Archives (`zip_util.cpp`) | position in a remote archive | read, seek, skip callbacks, pack, unpack | libarchive, clients | positions; short reads | libarchive sees the bytes of the file at the position it believes it is at (not modelled) |
| Clients (`clients/`) | a connection, FTP: one control channel | connect, list, get, put, range, quit | UI, worker and keep-alive thread share one client | replies matched to commands by order only | each command reads its own reply |
| Session (`Connect`, `Disconnect`) | `remoteclient` | connect, disconnect, keep-alive | all users of the client | the client is deleted while in use | no call on a deleted client (not modelled) |
| File hosts, configuration, languages, utilities | files | one-shot, sequential | — | — | not modelled: no concurrency, no state that outlives a call |
| Dear ImGui, pugixml, cpp-httplib | | | | third party | not modelled |

`PROJECT.json` lists the hazards, each at its line with the properties that
cover it, or a note that says why none does.

## 2. The modules

Ordered by what a mistake costs the user: wrong bytes in an installed
package, files lost, the application frozen, a wrong listing.

| Module | Models | Status |
|---|---|---|
| `SplitFile` over `ByteStream` | the disk cache of packages and the stream it promises | checked, proved |
| `Activity` | UI loop, workers, questions, Cancel, the HTTP guard | checked, safety proved |
| `PkgInstall` | install data, maps, writer, watching thread, clean-up, `install_url`, the worker's archives and packages, and the activity flag they share with other workers | checked, proved |
| `FileOps` | copy, move and remove of trees by the worker and by HTTP requests | checked, safety proved |
| `FtpControl` | commands, replies and transfers of the FTP client | checked, safety proved |

The modules meet at what one promises the other. `PkgInstall` sees of a split
file that it is there, being written, closed or freed; `SplitFile` is what
happens inside one. `FileOps` and `PkgInstall` see of the activities the flags
`activity_inprogess` and `stop_activity`, which `Activity` models from the
user's side. `SplitFile`'s callers include the transfer loops of `FtpControl`.

Each `MC` module gives the constants their values for one or more
configurations. The proofs stand in modules of their own beside each:
`SplitFileProofs`, `SplitFileRefines`; `ActivityProofs`; `InstallProofs`;
`FileOpsProofs`, `PasteProofs`; `FtpProofs`, `FtpTransfers`. Every invariant
and action property of a passing run is the conclusion of a theorem there, some
under assumptions that the tables name; section 8 lists what is left to do.

## 3. Split file

### The model

`SplitFile` has the class's members as variables (`file_blocks`,
`block_in_progress`, `complete`, `write_offset`, `read_offset`) and a record
for every thread that is in one of its functions. A byte is named by its
position in the stored stream, and block *n* holds the positions from *n* ×
`BlockSize` on, so that a read from the wrong block or offset shows; that the
stored stream is the source's is `NoHole`. One step is one access to state that another thread uses:

- writer: `Open`, `WriteCall` / `SourceEnds` (the callers' loop),
  `WriteLoop`, `FWrite` (may be short when the disk fails), `BlockFull`
  (publish), `RollBlock`, `WriteReturn`, `WriterCloses` / `WriterEnds`;
- Close, by the writer or by the clean-up thread: `CloseClaim`,
  `ClosePublish`, `CloseTick`, `CloseWaited`, `CloseTest`, `CloseRemove` (the
  test of the slot and the use of the block behind it);
- readers: `Ask` (the console's installer), `ReadFirst`, `ReadSeek`,
  `ReadBytes` / `ReadFails`, `ReadNext`, `Serve`; and the loop that deletes old
  blocks, which has no lock, statement by statement: `ReadReap` (the test),
  `ReapClose`, `ReapMark`, `ReapDelete`, `ReapReset`, `ReadReturn`. Two readers
  may be past the test of one block at the same time.

`ub` names the first access to freed memory (`freed_block` by a thread that reads
the block, `delete_race` by one that deletes it), to a missing or closed file or
to a block published twice; the model stops there. What the C++ program would go on to
do is not modelled, that it gets there is the question. With two readers it can
get to `delete_race`: nothing in the code prevents that, and only an installer
that asks for one range at a time, as in `split_sequential`, keeps out of it
(`NoCrash`).

`FWrite` may be short, and `Publish` (`fflush` and `fclose`) may lose bytes that
`fwrite` had taken (`FlushMayFail`), which nobody notices: a block then has a
`size` that its file (`data`) has not. Each access to the vector of blocks is
atomic in the model. In C++ it is not: `push_back` may move the elements while a
reader indexes them, which no property here covers.

`ByteStream` is the promise: a growing stream, requests that are answered
with a prefix of what was asked for, of bytes already written, and short only
after the stream was closed. `SplitFile!Stream` is the refinement mapping:
the length of the stream is the number of bytes handed to the disk, `closed`
is `complete`, a reader between its first step and its return is a pending
request.

### The runs

| Run | Instance | Shows |
|---|---|---|
| `split_sequential` | one reader front to back, blocks of 2, stream of 7, reads of up to 3 | `TypeOK`, `ReadRight`, `NoCrash`; under fairness `RequestAnswered`, `CloseReturns`; `ImplementsStream` |
| `split_concurrent` | two readers (symmetric) that delete blocks beside each other, one disk fault (a flush that loses bytes included), a clean-up thread | `BlockList`, `Accounting`, `NoFreedBlock`, `DanglingInHand`, `NoHole`, `SealedReadsGoOn` |
| `split_eof_window` | one reader, expects a violation of `EmptyReadIsPastEnd` | the window between `complete = true` and the last `push_back` |
| `split_short_write` | a client that ignores a short Write, expects a violation of `NoHole` | a package with a hole |
| `split_disk_use` | 42 blocks, `KeepBlocks` = 13 as in the code, expects a violation of `CacheBounded` | no back-pressure |

Bounds: a stream of 7 with blocks of 2 has full blocks, a short last one and
a read that crosses two boundaries; `KeepBlocks` = 1 (13 in the code) makes
blocks deletable within that stream. `MaxStalls` bounds the seconds in which
the reader makes no progress below `Retries`: beyond it Close really does
remove the files under the reader (ten seconds in the code; its comment says
five minutes). `Lag` bounds how far the start of a range may be behind the
furthest one. The code's comment speaks of "2 previous blocks", the code keeps
13.

Fairness: every thread runs (weak fairness of its steps). The waits of Read
are timed (two seconds) and those of Close are sleeps of one second, so a
lost semaphore signal cannot disable a step for good. `InstallerSpec` adds
that the console asks for the next range, which `RequestAnswered` does not
need but `CloseReturns` exercises.

### The proofs

| Theorem | Module | Assumes | Argument |
|---|---|---|---|
| `TypeCorrect` | `SplitFileProofs` | — | `TypeInv`: `TypeOK`, no buffer is longer than its range, and the block a reader seeks or reads in is in the list; one lemma per action |
| `NoFreedBlockAlways` | `SplitFileProofs` | `Lag <= KeepBlocks` | `DeleteInv`: every range starts within `Lag` blocks of the furthest start, and a block that is deleted, or that a reader has tested and is about to delete, lies more than `KeepBlocks` behind it. What two readers that delete the same block do to each other is not in it |
| `DanglingInHandAlways` | `SplitFileProofs` | — | inductive with `TypeInv`: only `ReapDelete` makes a slot dangle, its reader clears it next, and no other step leaves that reader's hands empty |
| `BlockListAlways`, `AccountingAlways` | `SplitFileProofs` | — | `ListInv`: `BlockList` and `Accounting` with what they rest on: when the block in progress is in the list as well, that a write that has ended has been counted, that one thread at a time is between the two halves of Close |
| `ReadRightAlways` | `SplitFileProofs` | one reader, no lossy flush | `ReadInv`: the reader's block number and offset name the position right after the bytes it has, and once it has sought, the block's `FILE` stands at that offset |
| `ImplementsStreamAlways` | `SplitFileRefines` | one reader, no lossy flush, no clean-up thread | all the invariants above and `RefineInv`: ranges lie in the stream, a reader holds stored bytes only, and it stops short of its range only if the file is `complete`; initial states map to initial states, each action to a step of `ByteStream` or a stutter |
| `NoHoleAlways` | `SplitFileProofs` | the writer heeds a short Write, or the disk never fails | `HoleInv`: what the caller has taken from the source is what Write has stored plus what it still holds, a short write ends the writer |
| `SealedReadsGoOnAlways` | `SplitFileRefines` | — | `GoOnInv`: a reader that is about to look for its first or next block, with bytes left in the sealed file, finds that block in the list |
| `NoCrashAlways` | `SplitFileRefines` | one reader, `Orderly` | `CrashInv`: the stream is whole, Close has waited for the reader before it removes a file, the reader goes front to back, hence behind every block that is freed |

None of the properties is inductive alone: what a thread may do next depends
on where it is in Read, Write or Close, so each is strengthened by what the
program counters imply. The two modules use no assumption but `SplitFileAssumption` (block
size and lengths positive, counters natural) and the restrictions named
above. Fairness, hence `RequestAnswered` and `CloseReturns`, is checked by TLC
only: liveness and ENABLED are beyond the prover.

The restriction to one reader in `ReadRightAlways` is the code's: all readers
of a block share one `FILE`, and `fseek` and `fread` are two calls. So is the
restriction to flushes that lose nothing: Read tests its offset against `size`
and then takes what the file has, so that after a lossy `fclose` the bytes of the
next block follow at the wrong place.

`Orderly` is what it takes for `NoCrash` to hold, and each part of it stands for
a way in which it does not: ranges asked for front to back, starts at most
`KeepBlocks` blocks apart (a deleted block is a null pointer), no clean-up
thread, which closes a second time, no failing disk (`fopen`, `fclose` are not checked),
the reader pausing for less than Close waits (`MaxStalls < Retries`), and no
garbage in the uninitialised `read_offset` that happens to be the length of the
package, with which Close would not wait at all. The run `split_sequential` is
an instance of it.

## 4. Activities

### The model

`Activity` has the program's globals as variables, named as in the source
(`activity_inprogess` keeps its spelling). Each worker is a record with a
program counter; the UI loop has one for its place in the frame.

- UI: `UiInput` (Square changes the selection), `UiProgress` then `UiModal` or
  `UiCancel` (ShowProgressDialog, flag test and SetModalMode apart), one of
  `OpenMenu`, `ChooseItem`, `ChooseDelete`, `MenuCancel`, `AnswerNo`,
  `AnswerYes`, `TransferCancel`, `TransferContinue`, `UiNoInput`
  (ShowActionsDialog), then `ExecuteNothing`, `ExecuteRefused` or
  `ExecuteStart`, `Spawn`/`SpawnFails`, `ExecuteEnds` (ExecuteActions).
- workers: `WorkerStart` copies the selection; `BeginFile`, `SkipFile`,
  `FinishFile` are the loop over files; `AskUser`, `TakeAction`, `Unlock`,
  `SeeAnswer`, `Lock`, `RestoreAction`, `Decide` are the statements with which
  UploadFile, DownloadFile, CopyOrMoveLocalFile and CopyOrMoveRemoteFile put
  their question; `LoopEnds`, `WorkerEnds`, `WorkerResumesUi`,
  `WorkerRefreshes` are the end.
- HTTP: a file request is `HttpAccept` with its guard, `HttpFinish`. An
  `install_url` has the same guard (`InstallAccept`), may be refused
  (`InstallRefused`), raises the two flags some fifty lines later
  (`InstallRaises`, `InstallPauses`) and lowers them when its installation is
  over, whoever holds them then (`InstallEnds`, `InstallReleases`), or leaves
  them up (`InstallLeaves`); what it does in between is section 5's.

The kinds of action differ in where `selected_action` is reset (before the
thread is created for deletes and archives, after it for the others), in
whether they ask, in what they refresh, in where `stop_activity` is looked
at; those are operators (`HeedsStop`, `RefreshOf`, `RefreshFirst`, ...).

A directory stands for its files: they are entries of their own, and when one
fails the rest of its directory may be abandoned (`LeftAfter`). Loss of the
connection is a failed file. A paste works on a list cut or copied earlier,
hence on any. `agreed` and the fields `allowed`, `cancelled`, `late` are
history variables for the properties. Left out: editors, settings,
favourites, viewers, connect and disconnect, rename and new folder.

`UserIsSlow` bounds the user: he acts only on a screen that shows the current
state, and not within the few statements or the 100 ms poll in which a worker
has lowered its flag. A faster user can start a second activity there; that is
listed as a hazard, not checked.

`InstallsApart` bounds the HTTP clients in the same way: an `install_url` comes
only when no worker is alive, no dialog is open, nothing is about to be executed
and no other `install_url` is under way. The code does not see to that. While a
worker waits for its answer the flag is down, an `install_url` is taken, and its
end lowers the flag of the worker that has resumed meanwhile. With
`InstallsApart` FALSE TLC finds `OneWorker`, `HttpRefused` and, behind them,
`ConsentedOverwrite`, `DeleteConsented` and `CancelHeeded` violated.

The guard is that of move, copy, remove, install, compress, extract and
install_url. The handlers of rename, edit, createFolder, upload and download_url
have none and are not in the model: `HttpRefused` says nothing of them.

### The runs

| Run | Instance | Shows |
|---|---|---|
| `activity` | delete, download, install; two entries, one a directory; up to two threads; one HTTP thread with file requests and, apart from the activities, `install_url`; `pthread_create` may fail | `OneWorker`, `ConsentedOverwrite`, `DeleteConsented`, `CancelHeeded`, `HttpRefused`, under fairness `WorkerReturns` |
| `activity_http` | installs with the disk cache, expects a violation of `HttpRefused` | the first package's end lowers the flag of a thread that still works |
| `activity_menu` | deletes only, expects a violation of `MenuComesBack` | the flag is tested, the worker ends, then `paused` is set for good |

Two entries are enough for a question and a file after it, and for Cancel
between two files; two threads for an overlap; three kinds for the three
places of the reset. The disk cache is off in `activity` because with it
`HttpRefused` and `OneWorker` fail, which `activity_http` shows.
`DELETE_REMOTE` is not among its kinds: its loop does not look at
`stop_activity` for files. `CancelHeeded` is about the entries of the selection:
the loop over the packages inside one archive (`actions.cpp` 785) does not look
at it either, and is one `FinishFile`.

Fairness: the UI loop and every thread run. The user is never obliged to
answer: `WorkerReturns` allows a thread to wait for him.

### The proofs

`ActivityProofs` proves for any number of workers, HTTP threads and entries and
for every choice of kinds:

| Theorem | Property | Assumes |
|---|---|---|
| `TypeCorrect` | `TypeOK` | — |
| `OneActivity` | `OneWorker` | `Calm` |
| `OverwriteWithConsent` | `ConsentedOverwrite` | `Calm` |
| `DeleteWithConsent` | `DeleteConsented` | `Calm` |
| `RequestsRefused` | `HttpRefused` | `Calm` |
| `CancelIsHeeded` | `CancelHeeded` | `Calm`, no deletes of remote files |

`Calm` is what one activity at a time rests on. First, `UserIsSlow`. Second, no
disk cache with remote installs, as in `activity_http`. Third, `install_url`
only apart from activities, or not at all (`InstallsApart`). Fourth, "always use this
option" is not combined with prompting (`MayAlways`): `TakeAction` saves
`selected_action` when it puts the question, possibly before `ExecuteActions`
has reset it, so that the answer Yes brings back the action that is already
running. As a rule `ExecuteActions` does not start it again, since nobody has
gone through the overwrite options again (`confirm_transfer_state`); with the
box ticked (`dont_prompt_overwrite`) it does not ask for that, and a second
worker starts. The configurations leave
that combination out, and TLC shows the second worker when it is let in.

No property is inductive, and they need each other: one worker at a time holds
because nothing can be chosen or answered while one is alive, which holds because
the flag is up unless the worker waits for an answer, during which the question
is the only one. `Inv` has these parts: `Single` (who is alive, and what an
action about to be executed excludes), `Starting` (the window between the
creation of a thread and the reset of `selected_action`), `Menu`, `Flag` (the
flag is up while a worker is between its first and last statement, except in the
wait), `Questions` (whose question is on the screen), `Apart` (while an
`install_url` is under way nobody works or can start to, and it alone moves the
flag), and, for the properties
about consent, `Consented`, `Chosen` and `Cancels`.

## 5. Package installation

### The model

An install is a request (`Requests`, `install_url`), an entry of an archive the
worker installs from (`Entries`) or a package it installs beside it
(`Packages`). Per install there are the data with its
split file (`data`: none, live, freed), the thread that fills it (`writer`:
`DownloadSplitPkg`, `ExtractArchivePkg`), the one that watches the console's
installer (`watch`: `CheckBgInstallTaskThread`, for an entry or a package the
worker itself in `InstallArchivePkg` or `InstallSplitPkg`), the clean-up thread (`clean`:
`CleanArchivePkgDataThread`, `CleanSplitPkgDataThread`), the installer and the
HTTP thread that serves it. `list` is the two maps, with one hash per URL or
entry name: two installs may share one. An unknown hash that is looked up
leaves an empty entry, as `std::map::operator[]` does.

| Actions | Code |
|---|---|
| `Refused`, `Tested`, `Raises`, `GivesUp`, `FallsThrough`, `StartsCache`, `StartsWatch` | the handler of `install_url`, first test and raising of the flag apart |
| `WorkerStarts`, `WorkerNext`, `WorkerLists`, `WorkerBack`, `WorkerEnds` | `InstallRemotePkgsThread`: an archive's entries one after the other, packages through `InstallSplitPkg` |
| `WorkerStarts`, `WorkerAsks`, `WorkerResumes`, `WorkerEnds` | any other worker, as far as the activity flag goes: it is down while the worker asks, and up again afterwards |
| `Accepted`, `NotAccepted`, `SeesEnd`, `SeesError`, `StartsClean`, `Removes`, `Lowers` | the watching thread, in this order; an entry's ends without `Lowers`, a package's with it (`installer.cpp` 843), while its worker goes on |
| `Closes`, `Joins`, `Frees`; `WriterEnds` | the clean-up thread; the end of the writer |
| `LooksUp`, `Serves` | `/archive_inst`, `/split_inst` and their content providers |
| `Playable`, `Fails` | the console's installer, external |

Two constants stand for what the code leaves open. `Racing`: a request is taken,
or the user starts something, while the flag is down but another thread will
still raise or lower it. That thread is a request between its test of the flag
and its raising (some fifty lines and network calls apart), a worker that waits
for the user's answer, or one that has installed a package and goes on.
`Misread`: the watching ends while the installer still fetches, because
`progress_info.status`, compared before it is written, happens to hold an end
state, because the status reported is "none" (`installer.cpp` 317), or because
the query fails (320). With `Racing` TRUE TLC finds `ServedByOwn`, `FlagCovers`
and `ListCleared` violated; with `Misread` TRUE those and `OneArchiveReader`.
In the run both are FALSE, and the theorems that need it say so.

Two things the worker does in the code are not left out but excepted, where the
properties name them. Once one of its packages has lowered the flag
(`LoweredEarly`), what it installs afterwards is not covered by it and may be
listed while it is down; the run `activity_http` is about that. And of a package
that the installer accepted and then gave up (`GivenUp`) nothing is cleaned up
(`installer.cpp` 720, 819): its entry stays in the map, its split file in memory,
and its writer may go on to read the archive beside the next one.

### The run and the proofs

`install` has two requests for one URL, an archive of two entries and a package
of the same hash as the requests, at most three of the five in a behaviour. One
of each kind may be refused, and one of each given up. Three installs are what
it takes for one to end while a second starts and a third holds the same hash.
It checks `ServedByOwn`, `FlagCovers`, `OneArchiveReader`, `NoFreedUnderWriter`,
`ListCleared` and, under fairness, `FlagComesDown` and `DataFreed`. Deadlock is
not checked: when the installs are over the system rests.

Fairness: threads are scheduled, a source ends, and the installer ends an
install one way or the other. The two properties under it except what the
code abandons: `FlagComesDown` a package that is to be neither cached nor
installed directly and a request that the installer refuses, `DataFreed` that
request and what was `GivenUp`. A worker that asks need not be answered.

`InstallProofs` proves for all constants:

| Theorem | Assumes | Argument |
|---|---|---|
| `TypeCorrect`, `FreedAfterWriter` | — | `Base`: nothing is watched before its request or the worker has listed it (`Unused`), and cleaning goes close, join, free (`CleanedLast`) |
| `FlagHolds`, `OwnData` | no `Racing`, no `Misread` | `Shared`: at most one request, or the worker, holds the flag, has lowered it early or for a question, or is about to raise it (`Solo`), and who is watched is listed, live and, while it fetches, still polled (`Watched`) |
| `ArchiveReadOnce` | no `Misread` | `Alone`: an entry the worker has not come to has no writer, only the entry it is at is watched, and one that the installer has played has a writer that has ended |
| `NothingListed` | no `Racing`, no `Misread` | `Listed`: what is in the map is under its own hash and watched, or was refused or given up, and a refused request holds the flag for good |

`FlagComesDown` and `DataFreed` are liveness and stay with TLC.

## 6. File operations

### The model

`fs` maps paths, sequences of names of which the first is the device, to
directories and files; a file is the data it holds and how many blocks of it
are written. `Worker` is the activity thread (`MoveLocalFilesThread`,
`CopyLocalFilesThread`, `DeleteSelectedLocalFilesThread`), `Http` are the
threads in the handlers of move, copy and remove. Each has a stack of the
directories it is in, as the recursion of `CopyOrMove` and `RmRecursive` has,
with the entries listed when it entered them. One system call is one step.

| Actions | Code |
|---|---|
| `Begin`, `NextItem`, `ItemDone`, `Finish` | the loops over the items, in the threads and in the handlers |
| `EnterStopped`, `EnterRefused`, `EnterListed`, `EnterUnmade`, `NextEntry`, `EntriesStopped`, `EntriesDone` | `CopyOrMove` on a directory, the worker's (`actions.cpp`) and the server's (`http_server.cpp`), which differ in rename, `stop_activity` and `rmdir` |
| `File`, `Answer` | `CopyOrMoveLocalFile`: ask, skip or go on |
| `MoveRenamed`, `MoveRefused`, `MoveCopies`, `Unlink` | `FS::Move` |
| `CopyBegin`, `CopyNothing`, `CopyUnmade`, `CopyBlock`, `ReadFails`, `CopyTest` | `FS::Copy`, block by block, with the two global counters |
| `RmEnter`, `RmNext`, `RmTest`, `RmDone` | `FS::RmRecursive` |
| `Cancel` | the progress dialog |

`rename`, `mkdir`, `unlink` and `rmdir` are modelled as the system does them:
not across devices, not over directories, not of what is not empty. `Faults`
says which of them may also fail for a reason of their own, for each thread:
renames, listings, `mkdir` (`EnterUnmade`, `CopyUnmade`: nothing looks at its
result, the walk goes on without the directory), removals, opening and writing
(`full`), the write that `fclose` does (`flush`), and reading (`ReadFails`:
`fread`'s 0 is not < 0, so the loop of `FS::Copy` goes round). `was` (the file
system when the job began), `alone`, `plain` and `forfeit` are history
variables: what was overwritten with consent or removed by request may go.

### The runs

| Run | Instance | Shows |
|---|---|---|
| `files` | two devices with a directory of the same name, nested and empty directories, a file of two blocks and an empty one; the worker cuts, copies and deletes, with prompt, "don't overwrite" and overwrite, Cancel, failing renames, listings, `mkdir`, removals, reads and writes; an HTTP move or remove beside it, or HTTP walks across devices with reads and writes that fail | `NothingLost`, `PasteComplete`, `SkipKeeps`, `OnlyItemsGo`, under fairness `JobsEnd` |
| `files_lost` | two HTTP moves across devices at once, expects a violation of `NothingLost` | a file is taken for copied when the other copy has reset the counters, and its source is removed |

Two devices are enough for the copy behind a move; a file of two blocks for a
copy that ends early; two levels for the recursion; the clash of names for
merging. Each thread does a job at most twice. The bound that matters most
is in `files`: at most one thread copies bytes at a time. And it is kind to the
HTTP handler: renames, `mkdir`, listings and flushes under it do not fail, and it
is not asked to move a directory into its own parent or copy one into itself.
Under each of these it loses files or does not end. So it does on a disk that is
full for `mkdir` too: the directory is missing, `rename` says ENOENT, `Move`
returns true (`fs.cpp` 546) and the handler removes the source (`http_server.cpp`
364); with `mkdir` among the server's faults TLC finds `NothingLost` and
`PasteComplete` violated. Hazards in `PROJECT.json` name the lines. The worker,
whose `rmdir` refuses what is not empty, meets all of these faults but `flush` in
the run.

`JobsEnd` excepts one job: the copy of a file whose reading fails and goes on
failing, which goes on for ever, and which no Cancel ends.

Fairness: each thread is scheduled, and the user answers the prompts.

### The proofs

`FileOpsProofs` and, for the last of them, `PasteProofs` prove for all trees of
any depth, all jobs and any number of HTTP threads:

| Theorem | Property | Assumes |
|---|---|---|
| `TypeCorrect` | `TypeOK` | — |
| `OnlyItems` | `OnlyItemsGo` | — |
| `SkipKeepsAlways` | `SkipKeeps` | — |
| `NothingLostAlways` | `NothingLost` | one worker, requests that only remove, an `fclose` that does not fail |
| `PasteCompleteAlways` | `PasteComplete` | `HttpTrusts`: no rename, `mkdir`, listing or flush of an HTTP thread fails |

A walk of any depth needs no induction over the tree for these: the stack is
part of the state, and the invariant speaks of all its levels.

- `Inv` is `Tree` (the parent of every path is a directory, no file has more
  blocks than its data) and, of each thread, `Shape` (the fields a program
  counter has), `Errand` (what job it is on), `Place` (where in the items it is:
  each level lies in the one below, the lowest under an item or its image under
  `dest`) and `Walk` (what it still has to visit lies in the directory it
  listed). With it, `Effect` says of every action what it may do to the file
  system: add directories, take away one path at or under the item in hand,
  open, create, extend one file, rename. `OnlyItems` follows from `Effect`
  alone.
- `SkipInv`: with "Don't overwrite", the files at the destination are as the
  job found them, and the worker is never about to write (`Writing`) at one.
  `Onward` is the lemma behind it: a step comes to write only at a path that it
  found free, or with leave to overwrite.
- `LossInv`: every datum in the file system has a whole copy somewhere unless
  it is forfeit; and of a worker inside `FS::Copy`, its source is there and the
  file it writes is as long as the global counter says, so that when the loop
  ends and `unlink` comes the copy is as long as the source.
- `PasteInv`: `ToPaste` is what a job still has to paste of what its items held
  (`Marked`): what lies under an item that waits for its turn, under the path at
  hand, or under an entry that any level of the walk has left. `Placed` says that
  all of it is where it was and as it was, and that the rest has its `Image` under
  `dest`; `Gone` that of a cut nothing is left but what is to be pasted, the
  directories the walk is in, and, with the HTTP server, the item that is removed
  at the end; `Track` that the entries left on all levels are side by side and
  each level's destination is the image of its source; `CopyIs` that the copy at
  hand is as long as both counters say. When the job ends nothing is left to
  paste, and `Placed` and `Gone` are the property. The images need arithmetic on
  paths: that taking the image keeps prefixes (`ImageMoves`), composes
  (`ImageStep`), and that what stands above an image is an image or stands above
  `dest` (`ImageAbove`), so that the directories `mkdir` makes on the way are in
  nobody's way.

The assumptions of `NothingLostAlways` are the code's. That there is one worker
is `OneActivity` of section 4. Requests that copy use the same two global
counters, with which `files_lost` loses a file. `Move` does not look at what
`fclose` returns, so that a last buffer that cannot be written is lost with the
source. Renames, listings, `mkdir`, `unlink`, reads and writes may fail under the
worker, the user may cancel, and requests may remove files under the worker's hands.

Trying to prove these corrected the model in four places, each by looking again
at what the code does: `rmdir` on a directory that is gone, a copy's `fopen`
that empties a file somebody else made since the test, what counts as
overwritten when a rename replaces a file, and the records of jobs.

`PasteComplete` speaks of jobs that fit (`Fits`): the items lie in one directory,
as the file lists they are marked in do, nothing is pasted onto or below what is to be
pasted, and no file is where a directory has to go or the other way round.
`CopyOrMove` checks none of this (the worker looks at each item only whether it
is pasted where it is, or below itself) and does not look at what `mkdir`
returns, so that a paste that does not fit can end as if it had succeeded. Every
promised paste of the run `files` fits. `HttpTrusts` is needed for the like
reason: the server's thread answers "success" after a rename that was refused
(`fs.cpp` 546), a directory that could not be made or opened and an `fclose`
that failed. The worker's faults are not restricted: a job that met one is no longer
`plain`, and the property promises nothing of it.

## 7. FTP client

### The model

Every call of the client is a script of commands (`Script`), each of which is
answered by a reply that the client knows only by its being the next. `chan`
holds the replies on their way, `inbox` the commands. A transfer takes `TYPE`,
`PASV`, `REST` when an offset is set, the transfer command, then the data
connection, the opening reply, the data and the closing reply. A reply is
`fresh` when it answers the last command sent; that is what `InStep` is about.

| Actions | Code |
|---|---|
| `Connects`, `Begins` | `Connect` to the greeting; the start of any other call |
| `Sends`, `SendFails`, `Reads` with `Takes`, `Ended`, `Fails`, `Succeeds` | `FtpSendCmd`, `ReadResponse`, `Readline`, and what the caller does with the result |
| `SocketFails`, `Opens`, `OpenFails`, `Answered`, `NotOpened` | the second half of `FtpOpenPasv`: no socket, no connection, no memory for the handle are failures of their own |
| `Gets`, `Puts`, `PutBreaks`, `DataEnds` | the loops in `FtpXfer`, `GetRange`, `Head`, `ListDir` |
| `Shuts`, `Last` with `Closed` | `FtpClose` |
| `ServesLogin`, ... `Aborts`, `Drops` | server and network, external: it may refuse, abort, complete, give up waiting for a data connection, or be lost at any point, with a last word or without |

The offset in the handle outlives the call, and with it the `REST` of the
next. `pc = "wild"` is the transfer that goes on without a data handle after a
refused `REST`. `behind` is history: a transfer has been given up before its last
reply, because no data connection came about or no memory for the handle, hence
a reply was left unread and every later one is off by one. `stale` is history
too: the server still held a position when the call began, from an earlier one
whose `REST` was accepted and that then had no socket.

The properties except what the code does get wrong there. `TransferRight`: a
`Head` after a failed `GetRange` (the client's offset), and a call that asks for
the beginning, hence sends no `REST`, while the server has a `stale` position.
`Honest`: what begins at that position, a `Get` whose local file cannot be
written, and a `Put` whose local file cannot be read (`PutBreaks`: `fread`'s 0 is
taken for the end of the file, the server confirms what it has, the call
returns 1).

### The run and the proofs

`ftp` has every call (Mkdir and Rmdir go as Delete does), files of two blocks
over a data connection that holds one, a range that starts in the middle, and
local files, sockets and allocations that fail.
`MaxBehind` bounds the unread replies with which a call is made: four for a
Get, enough for a late opening reply to be taken for its own, one for the
others. That bound, and the `wild` stop, are why deadlock is not checked. The
network drops the connection only while nothing is behind; afterwards every
failure it could cause is already possible. A transfer the server has
completed is taken to arrive: the client cannot tell an error in the data
from its end. The properties are `InStep`, `TransferRight`, `Honest`,
`LoggedIn` and, under fairness of the calling thread and of a server that
answers or is lost, `CallsReturn`.

`FtpProofs` proves for all constants `TypeCorrect` (with: what
was read and is in the pipe is no more than was asked for), `KeepsInStep` and
`LoginCorrect`. The invariant of `KeepsInStep` is `Shape`: while nothing is
behind, what is in `inbox`, being served and in `chan` follows from where the
client is: nothing but a last word between two calls, exactly one of the three
while it waits. For `LoginCorrect`, `Joining` and `Joined` follow the login
through its three replies.

`FtpTransfers` proves `RightTransfers` (`TransferRight`) and `HonestCalls`
(`Honest`), which say what is still true when replies are behind.

- `ScriptInv`: where the client is determines the rest of its script, and what
  it is at belongs to the call.
- `LateInv`: once a transfer has been given up there is a reply too many for
  good (`Backlog`), and an opening reply in the pipe is followed by the closing
  one (`Pairs`); hence a data connection that opens is in step, and a call that
  is behind moves nothing.
- `SettingInv`: while in step, `mode` is what the last `TYPE` set, and a
  transfer begins where the last `REST` said, which is the offset of the handle,
  or that of an earlier call if it is `stale`.
- `CountInv`: what the server has sent, what is in the pipe and what the client
  has moved add up, so that an end of data that was confirmed is the file's.

They assume only `FtpControlAssumption`. `CallsReturn` is liveness and stays
with TLC.

Callers use one client from several threads: the worker, the UI and
`KeepAliveThread`. In practice the last never sends: `GetIdleTime` compares
microsecond fields, which stay below the limit. The calls are therefore made
one after the other.

## 8. Findings, and what is left

`split_eof_window`, `split_short_write`, `split_disk_use`, `activity_http`,
`activity_menu` and `files_lost` are disagreements of code and documents or
comments; each is described with its lines in `PROJECT.json`.

Some properties hold only within bounds that the code does not see to, because
outside them it does something else. With the bound lifted TLC shows it, and each
is a hazard in `PROJECT.json` with its lines:

| Bound | Without it |
|---|---|
| one reader per split file (`Readers`) | two readers delete the same block, or move each other's `FILE` position |
| `MaxStalls < Retries` | Close removes the files under a reader that pauses |
| `FlushMayFail` FALSE | bytes lost by `fclose` shift what is read after them |
| `UserIsSlow`, `InstallsApart`, no `DiskCache`, no `MayAlways` with prompts | a second activity beside the first |
| `Racing`, `Misread` FALSE | installs share the flag or are cleaned up while they are fetched |
| the server's threads meet no `rename`, `mkdir`, `list`, `flush` fault | a move by HTTP removes what it has not moved |

Only model-checked: everything under fairness (`RequestAnswered`, `CloseReturns`, `WorkerReturns`, `FlagComesDown`,
`DataFreed`, `JobsEnd`, `CallsReturn`), since liveness and ENABLED are beyond
the prover.

Left to do: the life of the client object (`Connect`, `Disconnect`,
keep-alive, Quit on a closed descriptor) composed with `FtpControl`; the
remote walks, which repeat those of `FileOps` over a client; the callbacks of
a remote archive once libarchive's use of them is written down; background
downloads.

## 9. Not modelled

The components marked so in section 1, and of the modelled ones what the
notes in `PROJECT.json` name: of the HTTP server the handlers that call one
function each and the single-file branch of copy; of the installs those
without the cache, one call each; of the FTP client the active mode, which
nothing selects, the listing parsers, and the recursive Rmdir, a loop over
calls that are modelled; the other clients' protocols, which are library
calls; file hosts, configuration, languages and utilities, which are
sequential and keep no state between calls. Dear ImGui, pugixml and
cpp-httplib make up most of the lines and are third-party code. Byte
contents, names, messages and formatting are abstracted; the network is the
success, failure or loss of a call.
