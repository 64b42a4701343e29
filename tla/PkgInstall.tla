------------------------------ MODULE PkgInstall ------------------------------
(***************************************************************************)
(* Installing packages through the disk cache.  The console's installer is *)
(* given a URL of the application's own HTTP server; a writer thread fills *)
(* a split file from the network or an archive; the HTTP server finds the  *)
(* split file in a map by the hash in the URL and serves ranges of it; a   *)
(* thread watches the installer and, when it has finished, has everything  *)
(* cleaned up by one more thread and lowers the activity flag.             *)
(*                                                                         *)
(* An install is started by an HTTP request (install_url, which returns    *)
(* while the install goes on) or by the worker of the UI, for one selected *)
(* package or entry of a selected archive after the other, which watches   *)
(* itself.  Any other worker shares the activity flag with the installs.   *)
(***************************************************************************)
EXTENDS Integers, FiniteSets

CONSTANTS
  Requests,    (* install_url requests, and their installs                       *)
  Entries,     (* the packages in the archive the worker installs                *)
  Packages,    (* the packages the worker installs beside that archive           *)
  Hash,        (* the hash of each install's URL or entry name, and which of the *)
               (* two maps it is for                                             *)
  MaxInstalls, (* bound: how many of them there are in a behaviour               *)
  Unchecked,   (* may install_url find a package but be told neither to cache it *)
               (* nor to install it directly?                                    *)
  Refusals,    (* the installs the installer may refuse                          *)
  Errors,      (* the installs the installer may give up                         *)
  Misread,     (* may the watching end while the installer fetches: the first    *)
               (* look at progress_info.status, which nothing has initialised,   *)
               (* sees an end, "none" is reported, or the query fails?           *)
  Racing       (* may a request be taken, or the user start, while the activity  *)
               (* flag is down but another thread will still raise or lower it:  *)
               (* a request after its test of the flag, a worker that asks the   *)
               (* user, or that has installed a package and goes on?             *)

InForeground(i) == i \in Entries \cup Packages
Installs == Requests \cup Entries \cup Packages
None == "none"  \* no install data: a null pointer

ASSUME PkgInstallAssumption ==
  /\ Requests \cap Entries = {} /\ Requests \cap Packages = {} /\ Entries \cap Packages = {}
  /\ None \notin Installs
  /\ MaxInstalls \in Nat
  /\ DOMAIN Hash = Installs
  /\ Refusals \subseteq Installs /\ Errors \subseteq Installs
  /\ {Unchecked, Misread, Racing} \subseteq BOOLEAN

VARIABLES
  activity_inprogess,  (* with file_transfering and the modal mode, which go along *)
  request,             (* where each install_url request is                        *)
  worker,              (* the UI's worker: what it does, the packages it has left  *)
  data,                (* the install data and its split file: none, live or freed *)
  writer,              (* the thread that fills the split file                     *)
  closed,              (* the split file is closed                                 *)
  watch,               (* who watches the installer: pc in CheckBgInstallTask...   *)
  clean,               (* the clean-up thread                                      *)
  list,                (* *_pkg_install_data_list: hash -> install or None         *)
  installer,           (* the console's installer; external                        *)
  fetch                (* the HTTP thread that serves its requests, one at a time  *)

vars == <<activity_inprogess, request, worker, data, writer, closed, watch, clean, list,
          installer, fetch>>
threads == <<request, worker>>
store == <<data, writer, closed>>
outside == <<installer, fetch>>

TypeOK ==
  /\ activity_inprogess \in BOOLEAN
  /\ request \in [Requests -> {"idle", "tested", "raised", "header", "done", "forgotten"}]
  /\ worker \in [pc : {"idle", "loop", "header", "watch", "transfer", "asking"},
                 left : SUBSET (Entries \cup Packages), entry : Entries \cup Packages \cup {None}]
  /\ data \in [Installs -> {"none", "live", "freed"}]
  /\ writer \in [Installs -> {"none", "writing", "ended"}]
  /\ closed \in [Installs -> BOOLEAN]
  /\ watch \in [Installs -> {"none", "ask", "poll", "clean", "remove", "lower", "gone"}]
  /\ clean \in [Installs -> {"none", "close", "join", "free", "gone"}]
  /\ DOMAIN list \subseteq {Hash[i] : i \in Installs}
  /\ \A h \in DOMAIN list : list[h] \in Installs \cup {None}
  /\ installer \in [Installs -> {"none", "fetching", "playable", "error"}]
  /\ fetch \in [Installs -> [pc : {"none", "use", "served"}, found : Installs \cup {None}]]

NoFetch == [pc |-> "none", found |-> None]

Init ==
  /\ activity_inprogess = FALSE
  /\ \E rs \in SUBSET Requests, es \in SUBSET (Entries \cup Packages) :
       /\ Cardinality(rs) + Cardinality(es) <= MaxInstalls
       /\ request = [r \in Requests |-> IF r \in rs THEN "idle" ELSE "done"]
       /\ worker = [pc |-> "idle", left |-> es, entry |-> None]
  /\ data = [i \in Installs |-> "none"]
  /\ writer = [i \in Installs |-> "none"]
  /\ closed = [i \in Installs |-> FALSE]
  /\ watch = [i \in Installs |-> "none"]
  /\ clean = [i \in Installs |-> "none"]
  /\ list = <<>>
  /\ installer = [i \in Installs |-> "none"]
  /\ fetch = [i \in Installs |-> NoFetch]

At(r, pc) == request[r] = pc
Goto(r, pc) == request' = [request EXCEPT ![r] = pc]
Watch(i, pc) == watch' = [watch EXCEPT ![i] = pc]

(* The guard of install_url and, in effect, of the user. *)
MayStart ==
  /\ ~activity_inprogess
  /\ Racing \/ (worker.pc = "idle" /\ \A r \in Requests : ~At(r, "tested"))

(* The data, the split file and the thread that writes it. *)
NewData(i) ==
  /\ data' = [data EXCEPT ![i] = "live"]
  /\ writer' = [writer EXCEPT ![i] = "writing"]
  /\ UNCHANGED closed

-----------------------------------------------------------------------------
(***************************************************************************)
(* install_url.                                                            *)
(***************************************************************************)
Refused(r) ==
  /\ At(r, "idle") /\ activity_inprogess
  /\ Goto(r, "done")
  /\ UNCHANGED <<activity_inprogess, worker, store, watch, clean, list, outside>>

Tested(r) ==
  /\ At(r, "idle") /\ MayStart
  /\ Goto(r, "tested")
  /\ UNCHANGED <<activity_inprogess, worker, store, watch, clean, list, outside>>

(* A bad payload or key, no installer service, a bad URL; else the flags go up. *)
Raises(r) ==
  /\ At(r, "tested")
  /\ \/ Goto(r, "done") /\ UNCHANGED activity_inprogess
     \/ Goto(r, "raised") /\ activity_inprogess' = TRUE
  /\ UNCHANGED <<worker, store, watch, clean, list, outside>>

(* No download URL, no file, no package; or installed without the cache by one  *)
(* call that waits for the installer.                                           *)
MutGivesUp(r) ==
  /\ At(r, "raised")
  /\ Goto(r, "done")
  /\ UNCHANGED <<activity_inprogess, worker, store, watch, clean, list, outside>>
GivesUp(r) ==
  /\ At(r, "raised")
  /\ Goto(r, "done")
  /\ activity_inprogess' = FALSE
  /\ UNCHANGED <<worker, store, watch, clean, list, outside>>

(* A package, and neither branch is for it. *)
FallsThrough(r) ==
  /\ Unchecked /\ At(r, "raised")
  /\ Goto(r, "forgotten")
  /\ UNCHANGED <<activity_inprogess, worker, store, watch, clean, list, outside>>

StartsCache(r) ==
  /\ At(r, "raised")
  /\ NewData(r)
  /\ Goto(r, "header")
  /\ UNCHANGED <<activity_inprogess, worker, watch, clean, list, outside>>

(* The header is there when the writer has written a block or has ended. *)
(* The entry of the list is replaced.                                    *)
Lists(i) ==
  /\ data[i] = "live" /\ list' = [h \in DOMAIN list \cup {Hash[i]} |->
                                    IF h = Hash[i] THEN i ELSE list[h]]
  /\ Watch(i, "ask")

StartsWatch(r) ==
  /\ At(r, "header")
  /\ Lists(r)
  /\ Goto(r, "done")
  /\ UNCHANGED <<activity_inprogess, worker, store, clean, outside>>

-----------------------------------------------------------------------------
(***************************************************************************)
(* The worker: one that installs what was selected, an archive's entries   *)
(* one after the other, or one that copies files and asks the user.        *)
(***************************************************************************)
WorkerStarts ==
  /\ worker.pc = "idle" /\ MayStart
  /\ \E pc \in {"loop", "transfer"} :
       /\ pc = "loop" => worker.left # {}
       /\ worker' = [worker EXCEPT !.pc = pc]
  /\ activity_inprogess' = TRUE
  /\ UNCHANGED <<request, store, watch, clean, list, outside>>

(* For a question a worker lowers the flag, and raises it when it goes on. *)
WorkerAsks ==
  /\ worker.pc = "transfer"
  /\ worker' = [worker EXCEPT !.pc = "asking"]
  /\ activity_inprogess' = FALSE
  /\ UNCHANGED <<request, store, watch, clean, list, outside>>

WorkerResumes ==
  /\ worker.pc = "asking"
  /\ worker' = [worker EXCEPT !.pc = "transfer"]
  /\ activity_inprogess' = TRUE
  /\ UNCHANGED <<request, store, watch, clean, list, outside>>

(* In the middle of the archive: the next package is an entry of it. *)
InArchive == worker.entry \in Entries /\ worker.left \cap Entries # {}

(* The next package or entry: the worker reads the archive itself to find it. *)
WorkerNext ==
  /\ worker.pc = "loop"
  /\ \E e \in worker.left :
       /\ InArchive => e \in Entries
       /\ worker' = [pc |-> "header", left |-> worker.left \ {e}, entry |-> e]
       /\ NewData(e)
  /\ UNCHANGED <<activity_inprogess, request, watch, clean, list, outside>>

WorkerLists ==
  /\ worker.pc = "header"
  /\ Lists(worker.entry)
  /\ worker' = [worker EXCEPT !.pc = "watch"]
  /\ UNCHANGED <<activity_inprogess, request, store, clean, outside>>

WorkerBack ==
  /\ worker.pc = "watch" /\ watch[worker.entry] = "gone"
  /\ worker' = [worker EXCEPT !.pc = "loop"]
  /\ UNCHANGED <<activity_inprogess, request, store, watch, clean, list, outside>>

(* Done, or cancelled between two selected files. *)
WorkerEnds ==
  /\ worker.pc = "transfer" \/ (worker.pc = "loop" /\ ~InArchive)
  /\ worker' = IF worker.pc = "loop" THEN [worker EXCEPT !.pc = "idle", !.left = {}]
               ELSE [worker EXCEPT !.pc = "idle"]
  /\ activity_inprogess' = FALSE
  /\ UNCHANGED <<request, store, watch, clean, list, outside>>

-----------------------------------------------------------------------------
(***************************************************************************)
(* Watching the installer: CheckBgInstallTaskThread for a request; for an   *)
(* entry or a package the same steps are the worker's, in InstallArchivePkg *)
(* and InstallSplitPkg.                                                    *)
(***************************************************************************)
Accepted(i) ==
  /\ watch[i] = "ask"
  /\ installer' = [installer EXCEPT ![i] = "fetching"]
  /\ Watch(i, "poll")
  /\ UNCHANGED <<activity_inprogess, threads, store, clean, list, fetch>>

(* The watching thread returns without further ado, the worker cleans up. *)
NotAccepted(i) ==
  /\ i \in Refusals /\ watch[i] = "ask"
  /\ Watch(i, IF InForeground(i) THEN "clean" ELSE "gone")
  /\ UNCHANGED <<activity_inprogess, threads, store, clean, list, outside>>

(* The loop ends with the status "playable", or with "none", which can mean *)
(* that the installer has given up.                                         *)
MutEnded(i) == TRUE
Ended(i) == installer[i] \in {"playable", "error"} \/ Misread

SeesEnd(i) ==
  /\ watch[i] = "poll" /\ Ended(i)
  /\ Watch(i, "clean")
  /\ UNCHANGED <<activity_inprogess, threads, store, clean, list, outside>>

(* On an error, of the installation or of the query itself, the watching *)
(* thread cleans up, the worker returns.                                  *)
MutAfterError(i) == "gone"
AfterError(i) == IF InForeground(i) THEN "gone" ELSE "clean"

SeesError(i) ==
  /\ watch[i] = "poll" /\ (installer[i] = "error" \/ Misread)
  /\ Watch(i, AfterError(i))
  /\ UNCHANGED <<activity_inprogess, threads, store, clean, list, outside>>

StartsClean(i) ==
  /\ watch[i] = "clean"
  /\ clean' = [clean EXCEPT ![i] = "close"]
  /\ Watch(i, "remove")
  /\ UNCHANGED <<activity_inprogess, threads, store, list, outside>>

(* The watching thread lowers the flags, and the worker after each package; *)
(* after the entries of an archive only when it ends.                       *)
MutAfterRemove(i) == "lower"
AfterRemove(i) == IF i \in Entries THEN "gone" ELSE "lower"

MutErased(i) == list
MutDangling(i) == [list EXCEPT ![Hash[i]] = "freed"]
Erased(i) == [h \in DOMAIN list \ {Hash[i]} |-> list[h]]

Removes(i) ==
  /\ watch[i] = "remove"
  /\ list' = Erased(i)
  /\ Watch(i, AfterRemove(i))
  /\ UNCHANGED <<activity_inprogess, threads, store, clean, outside>>

Lowers(i) ==
  /\ watch[i] = "lower"
  /\ activity_inprogess' = FALSE
  /\ Watch(i, "gone")
  /\ UNCHANGED <<threads, store, clean, list, outside>>

(* The clean-up thread: close, join the writer, free. *)
Closes(i) ==
  /\ clean[i] = "close"
  /\ closed' = [closed EXCEPT ![i] = TRUE]
  /\ clean' = [clean EXCEPT ![i] = "join"]
  /\ UNCHANGED <<activity_inprogess, threads, data, writer, watch, list, outside>>

MutJoins(i) ==
  /\ clean[i] = "join"
  /\ clean' = [clean EXCEPT ![i] = "free"]
  /\ UNCHANGED <<activity_inprogess, threads, store, watch, list, outside>>
Joins(i) ==
  /\ clean[i] = "join" /\ writer[i] = "ended"
  /\ clean' = [clean EXCEPT ![i] = "free"]
  /\ UNCHANGED <<activity_inprogess, threads, store, watch, list, outside>>

Frees(i) ==
  /\ clean[i] = "free"
  /\ data' = [data EXCEPT ![i] = "freed"]
  /\ clean' = [clean EXCEPT ![i] = "gone"]
  /\ UNCHANGED <<activity_inprogess, threads, writer, closed, watch, list, outside>>

(* The writer: at the end of its source, or because the file was closed. *)
WriterEnds(i) ==
  /\ writer[i] = "writing"
  /\ writer' = [writer EXCEPT ![i] = "ended"]
  /\ closed' = [closed EXCEPT ![i] = TRUE]
  /\ UNCHANGED <<activity_inprogess, threads, data, watch, clean, list, outside>>

-----------------------------------------------------------------------------
(***************************************************************************)
(* The installer asks for ranges; the HTTP server looks the hash up - which *)
(* makes an empty entry of an unknown one - and reads from what it found.   *)
(* Bound: it asks once, at any time, for its requests know nothing of each  *)
(* other.                                                                   *)
(***************************************************************************)
Found(i) == IF Hash[i] \in DOMAIN list THEN list[Hash[i]] ELSE None

LooksUp(i) ==
  /\ installer[i] = "fetching" /\ fetch[i] = NoFetch
  /\ fetch' = [fetch EXCEPT ![i] = [pc |-> "use", found |-> Found(i)]]
  /\ list' = [h \in DOMAIN list \cup {Hash[i]} |->
                IF h \in DOMAIN list THEN list[h] ELSE None]
  /\ UNCHANGED <<activity_inprogess, threads, store, watch, clean, installer>>

(* It is served, or refused for want of an entry. *)
Serves(i) ==
  /\ fetch[i].pc = "use"
  /\ fetch' = [fetch EXCEPT ![i] = [pc |-> "served", found |-> None]]
  /\ UNCHANGED <<activity_inprogess, threads, store, watch, clean, list, installer>>

(* It has read everything, which takes a split file that is closed. *)
Playable(i) ==
  /\ installer[i] = "fetching" /\ fetch[i].pc # "use" /\ closed[i]
  /\ installer' = [installer EXCEPT ![i] = "playable"]
  /\ fetch' = [fetch EXCEPT ![i] = NoFetch]
  /\ UNCHANGED <<activity_inprogess, threads, store, watch, clean, list>>

(* It gives up, its request withdrawn. *)
Fails(i) ==
  /\ i \in Errors /\ installer[i] = "fetching" /\ fetch[i].pc # "use"
  /\ installer' = [installer EXCEPT ![i] = "error"]
  /\ fetch' = [fetch EXCEPT ![i] = NoFetch]
  /\ UNCHANGED <<activity_inprogess, threads, store, watch, clean, list>>

-----------------------------------------------------------------------------
RequestStep(r) ==
  Raises(r) \/ GivesUp(r) \/ FallsThrough(r) \/ StartsCache(r) \/ StartsWatch(r)

(* The user need not answer. *)
WorkerStep == WorkerAsks \/ WorkerNext \/ WorkerLists \/ WorkerBack \/ WorkerEnds

WatchStep(i) ==
  \/ Accepted(i) \/ NotAccepted(i) \/ SeesEnd(i) \/ SeesError(i)
  \/ StartsClean(i) \/ Removes(i) \/ Lowers(i)

CleanStep(i) == Closes(i) \/ Joins(i) \/ Frees(i)

InstallerStep(i) == LooksUp(i) \/ Serves(i) \/ Playable(i) \/ Fails(i)

Next ==
  \/ \E r \in Requests : Refused(r) \/ Tested(r) \/ RequestStep(r)
  \/ WorkerStarts \/ WorkerResumes \/ WorkerStep
  \/ \E i \in Installs : WatchStep(i) \/ CleanStep(i) \/ WriterEnds(i) \/ InstallerStep(i)

Spec == Init /\ [][Next]_vars

(* Threads are scheduled, sources end, and the installer ends one way or the other. *)
FairSpec ==
  /\ Spec
  /\ \A r \in Requests : WF_vars(RequestStep(r))
  /\ WF_vars(WorkerStep)
  /\ \A i \in Installs :
       /\ WF_vars(WatchStep(i)) /\ WF_vars(CleanStep(i)) /\ WF_vars(WriterEnds(i))
       /\ WF_vars(InstallerStep(i))

-----------------------------------------------------------------------------
(* The installer is served from the data of its own install, while they live:  *)
(* no entry is taken away, replaced or freed under it by another install of    *)
(* the same URL, by the clean-up, or by the end of the loop that watches.      *)
ServedByOwn ==
  \A i \in Installs : fetch[i].pc = "use" => fetch[i].found = i /\ data[i] = "live"

Busy(i) == watch[i] \notin {"none", "gone"} \/ installer[i] = "fetching"

(* The worker has installed a package, or had it refused, and lowered the flag *)
(* before it goes on.                                                          *)
LoweredEarly == \E p \in Packages : watch[p] = "gone" /\ clean[p] # "none"

(* While a package is being installed the activity flag is up, so that neither *)
(* the user nor a request starts anything else: no install that ends lowers    *)
(* the flag of another one - but a package of the worker that of the worker's  *)
(* later ones.                                                                 *)
FlagCovers ==
  \A i \in Installs : Busy(i) => activity_inprogess \/ (InForeground(i) /\ LoweredEarly)

(* The worker looks for the next package of its archive only when no writer    *)
(* still reads the archive, except that of a package the installer refused or  *)
(* gave up, which the clean-up thread stops while the worker goes on, or nobody. *)
OneArchiveReader ==
  worker.pc = "loop" /\ worker.left \cap Entries # {} =>
    \A e \in Entries : writer[e] = "writing" => installer[e] \in {"none", "error"}

(* A split file is freed only after the thread that writes it has ended.       *)
NoFreedUnderWriter == \A i \in Installs : data[i] = "freed" => writer[i] = "ended"

(* A package of the worker that the installer gave up: the worker returns      *)
(* without cleaning up.                                                        *)
GivenUp(i) == InForeground(i) /\ watch[i] = "gone" /\ installer[i] = "error" /\ clean[i] = "none"

(* When the activity flag is down no install data can be found any more: the   *)
(* next install of the same URL meets no entry of the one before, except those *)
(* left behind by a worker and those of one that lowered the flag early.       *)
ListCleared ==
  ~activity_inprogess =>
    \A h \in DOMAIN list :
      \/ list[h] = None
      \/ GivenUp(list[h])
      \/ InForeground(list[h]) /\ worker.pc # "idle" /\ LoweredEarly

(* The two ways a request's install is left alone, its flag up for good: told  *)
(* neither to cache nor to install directly, or refused by the installer.      *)
Refusal(i) == watch[i] = "gone" /\ installer[i] = "none"
Abandoned == \E r \in Requests : request[r] = "forgotten" \/ Refusal(r)

(* The flag comes down after every other install, however it went: the user    *)
(* gets the gamepad back and requests are taken again.                         *)
FlagComesDown == activity_inprogess ~> (~activity_inprogess \/ Abandoned)

(* Every split file is freed at last, its writer joined, unless it belongs to  *)
(* a request that the installer refused or to a package of the worker that the *)
(* installer gave up.                                                          *)
DataFreed ==
  \A i \in Installs :
    data[i] = "live" ~> (data[i] = "freed" \/ GivenUp(i) \/ (i \in Requests /\ Refusal(i)))
=============================================================================
