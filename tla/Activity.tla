------------------------------- MODULE Activity -------------------------------
(***************************************************************************)
(* The application's activities: the user picks an action in the UI loop,  *)
(* a worker thread carries it out file by file, asks the user about files  *)
(* that exist already, can be cancelled, and hands back by setting flags.  *)
(* Meanwhile the HTTP server's threads take file requests of their own,    *)
(* and requests to install a package, which raise and lower the worker's   *)
(* flags themselves, unless they see an activity in progress.              *)
(*                                                                         *)
(* UI loop, workers and HTTP threads share plain global variables and no   *)
(* lock: every step below that reads or writes one that another thread     *)
(* uses is a step of its own.  A "file" is an entry of a listing.          *)
(***************************************************************************)
EXTENDS Integers, FiniteSets

CONSTANTS
  Files,         (* the entries of the listing the user selects from            *)
  Dirs,          (* those that are directories                                  *)
  Workers,       (* bound: worker threads that can be alive at a time           *)
  Requests,      (* bound: HTTP threads with a request                          *)
  InstallUrls,   (* may a request be install_url?                               *)
  Kinds,         (* the actions the user may pick                               *)
  DiskCache,     (* remote_settings->enable_rpi and enable_disk_cache           *)
  OverwriteTypes,(* the options the user may pick for files that exist          *)
  MayAlways,     (* may the user tick "always use this option"?                 *)
  UserIsSlow,    (* bound on the user: he does not act while a thread is between *)
                 (* two statements or in its 100 ms poll                        *)
  InstallsApart, (* bound on the HTTP clients: install_url comes only when no   *)
                 (* activity or other install is under way, nor about to start  *)
  ThreadsFail    (* may pthread_create fail?                                    *)

Pasting == {"LOCAL_PASTE", "REMOTE_PASTE"}
Prompting == {"UPLOAD", "DOWNLOAD"} \cup Pasting
Deleting == {"DELETE_LOCAL", "DELETE_REMOTE"}
Zipping == {"EXTRACT_LOCAL_ZIP", "EXTRACT_REMOTE_ZIP", "CREATE_LOCAL_ZIP"}
Installing == {"INSTALL_REMOTE_PKG", "INSTALL_LOCAL_PKG"}
AllKinds == Prompting \cup Deleting \cup Zipping \cup Installing

ASSUME ActivityAssumption ==
  /\ Files # {}
  /\ "delete" \notin Files
  /\ Dirs \subseteq Files
  /\ Kinds \subseteq AllKinds
  /\ OverwriteTypes \subseteq {"NONE", "PROMPT", "ALL"}
  /\ {InstallUrls, DiskCache, MayAlways, UserIsSlow, InstallsApart, ThreadsFail} \subseteq BOOLEAN

VARIABLES
  selected_action,        (* what ExecuteActions is to do                        *)
  action_to_take,         (* what "Yes" makes of it                              *)
  confirm_state, confirm_message,
  confirm_transfer_state, (* -1 no dialog, 0 shown, 1 continue, 2 cancelled      *)
  overwrite_type, dont_prompt_overwrite,
  activity_inprogess, stop_activity,
  paused,                 (* a dialog has the gamepad                            *)
  menu,                   (* the actions menu is open                            *)
  selected,               (* multi_selected_*_files, or the file under the cursor *)
  existing,               (* files that exist at the destination                 *)
  ui,                     (* where the UI loop is in its frame                   *)
  worker,                 (* the worker threads                                  *)
  http,                   (* the HTTP threads                                    *)
  agreed                  (* what the user has said Yes to; not in the program   *)

dialogVars == <<confirm_state, confirm_message, confirm_transfer_state, overwrite_type,
                dont_prompt_overwrite, menu, action_to_take>>
flagVars == <<activity_inprogess, stop_activity, paused, selected_action>>
vars == <<dialogVars, flagVars, selected, existing, ui, worker, http, agreed>>

Refreshes == {"REFRESH_LOCAL_FILES", "REFRESH_REMOTE_FILES"}

(* A thread that is not there. *)
NoWorker == [pc |-> "none", kind |-> "NONE", left |-> {}, file |-> "none",
             allowed |-> {}, cancelled |-> FALSE, late |-> FALSE]

Nothing == [delete |-> {}, overwrite |-> "none"]

WorkerState == [pc : {"none", "start", "loop", "ask", "take", "unlock", "spin", "lock", "restore",
                      "decide", "write", "flag", "resume", "refresh"},
                kind : AllKinds \cup {"NONE"},
                left : SUBSET Files, file : Files \cup {"none"},
                allowed : SUBSET Files, (* what the user has agreed to lose to it        *)
                cancelled : BOOLEAN,    (* the user has pressed Cancel while it ran ...  *)
                late : BOOLEAN]         (* ... and it has begun a file since             *)

(* "running" is a file request, the others an install_url.                 *)
HttpState == {"idle", "running", "accepted", "raised", "installing", "lowered"}

TypeOK ==
  /\ selected_action \in AllKinds \cup Refreshes \cup {"NONE"}
  /\ action_to_take \in AllKinds \cup Refreshes \cup {"NONE"}
  /\ confirm_state \in {"NONE", "WAIT", "YES", "NO"}
  /\ confirm_message \in Files \cup {"delete", "none"}
  /\ confirm_transfer_state \in -1..2
  /\ overwrite_type \in {"NONE", "PROMPT", "ALL"}
  /\ {dont_prompt_overwrite, activity_inprogess, stop_activity, paused, menu} \subseteq BOOLEAN
  /\ selected \in (SUBSET Files) \ {{}}
  /\ existing \subseteq Files
  /\ ui \in [pc : {"input", "progress", "modal", "dialogs", "execute", "spawn", "after"},
             kind : AllKinds \cup {"NONE"},
             progress : BOOLEAN]  (* the progress dialog is on the screen *)
  /\ worker \in [Workers -> WorkerState]
  /\ http \in [Requests -> HttpState]
  /\ agreed \in [delete : SUBSET Files, overwrite : Files \cup {"none"}]

Init ==
  /\ selected_action = "NONE" /\ action_to_take = "NONE"
  /\ confirm_state = "NONE" /\ confirm_message = "none"
  /\ confirm_transfer_state = -1
  /\ overwrite_type = "PROMPT" /\ dont_prompt_overwrite = FALSE
  /\ activity_inprogess = FALSE /\ stop_activity = FALSE
  /\ paused = FALSE /\ menu = FALSE
  /\ \E f \in Files : selected = {f}
  /\ existing \in SUBSET Files
  /\ ui = [pc |-> "input", kind |-> "NONE", progress |-> FALSE]
  /\ worker = [w \in Workers |-> NoWorker]
  /\ http = [h \in Requests |-> "idle"]
  /\ agreed = Nothing

-----------------------------------------------------------------------------
(***************************************************************************)
(* The worker threads.                                                     *)
(***************************************************************************)
Alive(w) == worker[w].pc # "none"

(* It still works on the user's files. *)
Working(w) ==
  /\ worker[w].pc \notin {"none", "flag", "resume", "refresh"}
  /\ worker[w].pc = "loop" => worker[w].left # {}

(* It waits for an answer: the activity flag is down on purpose. *)
Asking(w) == worker[w].pc \in {"spin", "lock"}

Go(w, pc) == worker' = [worker EXCEPT ![w].pc = pc]

(* The thread copies the selection; a paste takes what was cut or copied   *)
(* earlier.                                                                *)
WorkerStart(w) ==
  /\ worker[w].pc = "start"
  /\ \E files \in (IF worker[w].kind \in Pasting THEN (SUBSET Files) \ {{}} ELSE {selected}) :
       worker' = [worker EXCEPT ![w].pc = "loop", ![w].left = files]
  /\ UNCHANGED <<dialogVars, flagVars, selected, existing, ui, http, agreed>>

MutHeedsStop(k, f) == k # "DOWNLOAD"

(* Is stop_activity looked at before file f?  DeleteSelectedRemotesFiles   *)
(* does so in Rmdir only.                                                  *)
HeedsStop(k, f) == k # "DELETE_REMOTE" \/ f \in Dirs

MutNeedsQuestion(f) == overwrite_type = "NONE" /\ f \in existing

(* overwrite_type == OVERWRITE_PROMPT && FileExists(dest) *)
NeedsQuestion(f) == overwrite_type = "PROMPT" /\ f \in existing

(* The next file is begun, unless the user has cancelled.                  *)
BeginFile(w) ==
  /\ worker[w].pc = "loop"
  /\ \E f \in worker[w].left :
       /\ ~(stop_activity /\ HeedsStop(worker[w].kind, f))
       /\ worker' = [worker EXCEPT
            ![w].left = @ \ {f}, ![w].file = f,
            ![w].pc = IF worker[w].kind \notin Prompting THEN "write"
                      ELSE IF NeedsQuestion(f) THEN "ask" ELSE "decide",
            ![w].late = worker[w].cancelled]
       /\ confirm_state' = IF worker[w].kind \notin Prompting \/ NeedsQuestion(f) THEN confirm_state
                           ELSE IF overwrite_type = "NONE" /\ f \in existing THEN "NO" ELSE "YES"
  /\ UNCHANGED <<confirm_message, confirm_transfer_state, overwrite_type, dont_prompt_overwrite,
                 menu, action_to_take, flagVars, selected, existing, ui, http, agreed>>

(* stop_activity: most threads leave their loop, the recursive operations  *)
(* of the others return at once for every file that is left.               *)
SkipFile(w) ==
  /\ worker[w].pc = "loop"
  /\ stop_activity
  /\ \E f \in worker[w].left :
       /\ HeedsStop(worker[w].kind, f)
       /\ worker' = [worker EXCEPT ![w].left = @ \ {f}]
  /\ UNCHANGED <<dialogVars, flagVars, selected, existing, ui, http, agreed>>

(* UploadFile, DownloadFile, CopyOrMoveLocalFile and CopyOrMoveRemoteFile  *)
(* put their question in six statements.                                   *)
AskUser(w) ==
  /\ worker[w].pc = "ask"
  /\ confirm_message' = worker[w].file
  /\ confirm_state' = "WAIT"
  /\ Go(w, "take")
  /\ UNCHANGED <<confirm_transfer_state, overwrite_type, dont_prompt_overwrite, menu,
                 action_to_take, flagVars, selected, existing, ui, http, agreed>>

TakeAction(w) ==
  /\ worker[w].pc = "take"
  /\ action_to_take' = selected_action
  /\ Go(w, "unlock")
  /\ UNCHANGED <<confirm_state, confirm_message, confirm_transfer_state, overwrite_type,
                 dont_prompt_overwrite, menu, flagVars, selected, existing, ui, http, agreed>>

Unlock(w) ==
  /\ worker[w].pc = "unlock"
  /\ activity_inprogess' = FALSE
  /\ Go(w, "spin")
  /\ UNCHANGED <<dialogVars, stop_activity, paused, selected_action, selected, existing, ui,
                 http, agreed>>

(* while (confirm_state == CONFIRM_WAIT) usleep(100000) *)
SeeAnswer(w) ==
  /\ worker[w].pc = "spin"
  /\ confirm_state # "WAIT"
  /\ Go(w, "lock")
  /\ UNCHANGED <<dialogVars, flagVars, selected, existing, ui, http, agreed>>

Lock(w) ==
  /\ worker[w].pc = "lock"
  /\ activity_inprogess' = TRUE
  /\ Go(w, "restore")
  /\ UNCHANGED <<dialogVars, stop_activity, paused, selected_action, selected, existing, ui,
                 http, agreed>>

RestoreAction(w) ==
  /\ worker[w].pc = "restore"
  /\ selected_action' = action_to_take
  /\ Go(w, "decide")
  /\ UNCHANGED <<dialogVars, activity_inprogess, stop_activity, paused, selected, existing, ui,
                 http, agreed>>

Decide(w) ==
  /\ worker[w].pc = "decide"
  /\ Go(w, IF confirm_state = "YES" THEN "write" ELSE "loop")
  /\ UNCHANGED <<dialogVars, flagVars, selected, existing, ui, http, agreed>>

MutLeftAfter(w, ok) == {worker[w].left \cup {worker[w].file}}

(* What can be left when a file has been dealt with: one that fails can    *)
(* take the rest of its directory with it.                                 *)
LeftAfter(w, ok) == IF ok THEN {worker[w].left} ELSE SUBSET worker[w].left

(* InstallSplitPkg clears the flags when its package is installed or the   *)
(* installer refuses it (not when the installation fails later), for a     *)
(* thread that may have more packages to install.                          *)
GivesUp(w, ok) ==
  IF worker[w].kind = "INSTALL_REMOTE_PKG" /\ DiskCache THEN {TRUE, ok} ELSE {FALSE}

(* The file is transferred, deleted, unpacked, installed - or that fails.  *)
FinishFile(w) ==
  /\ worker[w].pc = "write"
  /\ \E ok \in BOOLEAN :
       /\ \E rest \in LeftAfter(w, ok) :
            worker' = [worker EXCEPT ![w].pc = "loop", ![w].left = rest, ![w].file = "none"]
       /\ existing' = IF ok /\ worker[w].kind \in Prompting
                      THEN existing \cup {worker[w].file} ELSE existing
       /\ \E up \in GivesUp(w, ok) :
            /\ activity_inprogess' = (activity_inprogess /\ ~up)
            /\ paused' = (paused /\ ~up)
  /\ UNCHANGED <<dialogVars, stop_activity, selected_action, selected, ui, http, agreed>>

(* The thread's last statements: the activity flag, the selection, the     *)
(* modal mode, the refresh of the listing; only the thread that deletes    *)
(* remote files asks for the refresh first.                                *)
RefreshFirst(k) == k = "DELETE_REMOTE"

RefreshOf(k) ==
  IF k \in {"UPLOAD", "REMOTE_PASTE", "DELETE_REMOTE"} THEN "REFRESH_REMOTE_FILES"
                                                       ELSE "REFRESH_LOCAL_FILES"

LoopEnds(w) ==
  /\ worker[w].pc = "loop"
  /\ worker[w].left = {}
  /\ Go(w, IF RefreshFirst(worker[w].kind) THEN "refresh" ELSE "flag")
  /\ UNCHANGED <<dialogVars, flagVars, selected, existing, ui, http, agreed>>

WorkerEnds(w) ==
  /\ worker[w].pc = "flag"
  /\ activity_inprogess' = FALSE
  /\ Go(w, "resume")
  /\ UNCHANGED <<dialogVars, stop_activity, paused, selected_action, selected, existing, ui,
                 http, agreed>>

WorkerResumesUi(w) ==
  /\ worker[w].pc = "resume"
  /\ paused' = FALSE
  /\ IF worker[w].kind \in Deleting THEN UNCHANGED selected ELSE \E f \in Files : selected' = {f}
  /\ worker' = [worker EXCEPT ![w] =
       IF @.kind \in Installing \/ RefreshFirst(@.kind) THEN NoWorker
       ELSE [@ EXCEPT !.pc = "refresh"]]
  /\ UNCHANGED <<dialogVars, activity_inprogess, stop_activity, selected_action, existing, ui,
                 http, agreed>>

WorkerRefreshes(w) ==
  /\ worker[w].pc = "refresh"
  /\ selected_action' = RefreshOf(worker[w].kind)
  /\ worker' = [worker EXCEPT ![w] = IF RefreshFirst(@.kind) THEN [@ EXCEPT !.pc = "flag"]
                                     ELSE NoWorker]
  /\ UNCHANGED <<dialogVars, activity_inprogess, stop_activity, paused, selected, existing, ui,
                 http, agreed>>

WorkerStep(w) ==
  \/ WorkerStart(w) \/ BeginFile(w) \/ SkipFile(w) \/ AskUser(w) \/ TakeAction(w) \/ Unlock(w)
  \/ SeeAnswer(w) \/ Lock(w) \/ RestoreAction(w) \/ Decide(w) \/ FinishFile(w) \/ LoopEnds(w)
  \/ WorkerEnds(w) \/ WorkerResumesUi(w) \/ WorkerRefreshes(w)

-----------------------------------------------------------------------------
(***************************************************************************)
(* The UI loop.  A frame is input, progress dialog, actions menu and       *)
(* dialogs, ExecuteActions; the user does one thing in it or nothing.      *)
(***************************************************************************)
(* The user can act whenever; or, when he is slow, only while the screen   *)
(* shows what is and no thread is between two statements.                  *)
MayAct ==
  UserIsSlow =>
    /\ ui.progress = activity_inprogess
    /\ \A w \in Workers : \/ worker[w].pc \in {"none", "write"}
                          \/ worker[w].pc = "spin" /\ confirm_state = "WAIT"
    /\ \A h \in Requests : http[h] \notin {"accepted", "raised", "lowered"}

Frame(pc) == ui' = [ui EXCEPT !.pc = pc]

(* Square toggles the selection, unless a dialog has the gamepad. *)
UiInput ==
  /\ ui.pc = "input"
  /\ \/ UNCHANGED selected
     \/ ~paused /\ MayAct /\ selected' \in (SUBSET Files) \ {{}}
  /\ Frame("progress")
  /\ UNCHANGED <<dialogVars, flagVars, existing, worker, http, agreed>>

(* ShowProgressDialog reads the flag, then takes the gamepad: two steps.   *)
UiProgress ==
  /\ ui.pc = "progress"
  /\ ui' = [ui EXCEPT !.pc = IF activity_inprogess THEN "modal" ELSE "dialogs",
                      !.progress = activity_inprogess]
  /\ UNCHANGED <<dialogVars, flagVars, selected, existing, worker, http, agreed>>

UiModal ==
  /\ ui.pc = "modal"
  /\ paused' = TRUE
  /\ menu' = FALSE
  /\ Frame("dialogs")
  /\ UNCHANGED <<confirm_state, confirm_message, confirm_transfer_state, overwrite_type,
                 dont_prompt_overwrite, action_to_take, activity_inprogess, stop_activity,
                 selected_action, selected, existing, worker, http, agreed>>

(* The progress dialog's Cancel. *)
UiCancel ==
  /\ ui.pc = "modal"
  /\ MayAct
  /\ stop_activity' = TRUE
  /\ paused' = FALSE
  /\ menu' = FALSE
  /\ worker' = [w \in Workers |-> [worker[w] EXCEPT !.cancelled = @ \/ Working(w)]]
  /\ Frame("dialogs")
  /\ UNCHANGED <<confirm_state, confirm_message, confirm_transfer_state, overwrite_type,
                 dont_prompt_overwrite, action_to_take, activity_inprogess, selected_action,
                 selected, existing, http, agreed>>

(* What the dialogs never touch. *)
Rest == <<activity_inprogess, stop_activity, selected, existing, worker, http>>

Dialog == confirm_state = "WAIT" \/ confirm_transfer_state = 0

UiNoInput ==
  /\ ui.pc = "dialogs"
  /\ Frame("execute")
  /\ UNCHANGED <<dialogVars, flagVars, selected, existing, worker, http, agreed>>

(* Triangle opens the menu; a dialog shown later in the frame closes it.   *)
OpenMenu ==
  /\ ui.pc = "dialogs" /\ MayAct /\ ~paused
  /\ paused' = TRUE
  /\ menu' = ~Dialog
  /\ Frame("execute")
  /\ UNCHANGED <<confirm_state, confirm_message, confirm_transfer_state, overwrite_type,
                 dont_prompt_overwrite, action_to_take, selected_action, agreed, Rest>>

MenuCancel ==
  /\ ui.pc = "dialogs" /\ MayAct /\ menu
  /\ paused' = FALSE
  /\ menu' = FALSE
  /\ Frame("execute")
  /\ UNCHANGED <<confirm_state, confirm_message, confirm_transfer_state, overwrite_type,
                 dont_prompt_overwrite, action_to_take, selected_action, agreed, Rest>>

(* Any item but Delete; those that transfer show the overwrite options.    *)
ChooseItem(k) ==
  /\ ui.pc = "dialogs" /\ MayAct /\ menu
  /\ k \notin Deleting
  /\ selected_action' = k
  /\ confirm_transfer_state' = IF k \in Prompting THEN 0 ELSE confirm_transfer_state
  /\ paused' = FALSE
  /\ menu' = FALSE
  /\ Frame("execute")
  /\ UNCHANGED <<confirm_state, confirm_message, overwrite_type, dont_prompt_overwrite,
                 action_to_take, agreed, Rest>>

(* Delete only asks; the menu closes and keeps the gamepad for the dialog. *)
ChooseDelete(k) ==
  /\ ui.pc = "dialogs" /\ MayAct /\ menu
  /\ k \in Deleting
  /\ confirm_state' = "WAIT"
  /\ confirm_message' = "delete"
  /\ action_to_take' = k
  /\ menu' = FALSE
  /\ Frame("execute")
  /\ UNCHANGED <<confirm_transfer_state, overwrite_type, dont_prompt_overwrite, paused,
                 selected_action, agreed, Rest>>

MutAfterNo == action_to_take

AfterNo == "NONE"

AnswerNo ==
  /\ ui.pc = "dialogs" /\ MayAct
  /\ confirm_state = "WAIT"
  /\ confirm_state' = "NO"
  /\ selected_action' = AfterNo
  /\ paused' = FALSE
  /\ Frame("execute")
  /\ UNCHANGED <<confirm_message, confirm_transfer_state, overwrite_type, dont_prompt_overwrite,
                 menu, action_to_take, agreed, Rest>>

AnswerYes ==
  /\ ui.pc = "dialogs" /\ MayAct
  /\ confirm_state = "WAIT"
  /\ confirm_state' = "YES"
  /\ selected_action' = action_to_take
  /\ paused' = FALSE
  /\ agreed' = IF confirm_message = "delete" THEN [agreed EXCEPT !.delete = selected]
               ELSE [agreed EXCEPT !.overwrite = confirm_message]
  /\ Frame("execute")
  /\ UNCHANGED <<confirm_message, confirm_transfer_state, overwrite_type, dont_prompt_overwrite,
                 menu, action_to_take, Rest>>

MutCancelled == 3

Cancelled == 2

(* The overwrite options' Cancel; a radio button may have been moved. *)
TransferCancel ==
  /\ ui.pc = "dialogs" /\ MayAct
  /\ confirm_transfer_state = 0
  /\ confirm_transfer_state' = Cancelled
  /\ selected_action' = "NONE"
  /\ overwrite_type' \in OverwriteTypes \cup {overwrite_type}
  /\ Frame("execute")
  /\ UNCHANGED <<confirm_state, confirm_message, dont_prompt_overwrite, menu, action_to_take,
                 paused, agreed, Rest>>

TransferContinue ==
  /\ ui.pc = "dialogs" /\ MayAct
  /\ confirm_transfer_state = 0
  /\ confirm_transfer_state' = 1
  /\ overwrite_type' \in OverwriteTypes
  /\ dont_prompt_overwrite' \in IF MayAlways THEN BOOLEAN ELSE {dont_prompt_overwrite}
  /\ Frame("execute")
  /\ UNCHANGED <<confirm_state, confirm_message, menu, action_to_take, paused, selected_action,
                 agreed, Rest>>

-----------------------------------------------------------------------------
(***************************************************************************)
(* ExecuteActions.                                                         *)
(***************************************************************************)
(* Is there something to start?  A transfer waits for Continue.            *)
Ready ==
  /\ selected_action \in AllKinds
  /\ selected_action \in Prompting => dont_prompt_overwrite \/ confirm_transfer_state = 1

ExecuteNothing ==
  /\ ui.pc = "execute"
  /\ ~Ready
  /\ selected_action' = IF selected_action \in Refreshes THEN "NONE" ELSE selected_action
  /\ Frame("input")
  /\ UNCHANGED <<dialogVars, activity_inprogess, stop_activity, paused, selected, existing,
                 worker, http, agreed>>

(* The console's package installer does not run. *)
ExecuteRefused ==
  /\ ui.pc = "execute"
  /\ selected_action \in Installing
  /\ selected_action' = "NONE"
  /\ Frame("input")
  /\ UNCHANGED <<dialogVars, activity_inprogess, stop_activity, paused, selected, existing,
                 worker, http, agreed>>

MutFlagOnStart == activity_inprogess

FlagOnStart == TRUE

(* The flags go up; an action that deletes or packs is reset before its    *)
(* thread is created, the others after.                                    *)
ExecuteStart ==
  /\ ui.pc = "execute"
  /\ Ready
  /\ activity_inprogess' = FlagOnStart
  /\ stop_activity' = FALSE
  /\ selected_action' = IF selected_action \in Deleting \cup Zipping THEN "NONE" ELSE selected_action
  /\ confirm_transfer_state' = IF selected_action \in Pasting THEN -1 ELSE confirm_transfer_state
  /\ ui' = [ui EXCEPT !.pc = "spawn", !.kind = selected_action]
  /\ UNCHANGED <<confirm_state, confirm_message, overwrite_type, dont_prompt_overwrite, menu,
                 action_to_take, paused, selected, existing, worker, http, agreed>>

SpawnDone ==
  ui' = IF ui.kind \in Prompting \cup Installing THEN [ui EXCEPT !.pc = "after"]
        ELSE [ui EXCEPT !.pc = "input", !.kind = "NONE"]

(* Which of the free slots a new thread takes does not matter. *)
FreeSlot == CHOOSE w \in Workers : worker[w] = NoWorker

Spawn ==
  /\ ui.pc = "spawn"
  /\ \E w \in Workers : worker[w] = NoWorker
  /\ worker' = [worker EXCEPT ![FreeSlot] =
       [NoWorker EXCEPT !.pc = "start", !.kind = ui.kind, !.allowed = agreed.delete]]
  /\ agreed' = [agreed EXCEPT !.delete = {}]
  /\ SpawnDone
  /\ UNCHANGED <<dialogVars, flagVars, selected, existing, http>>

(* pthread_create fails. *)
SpawnFails ==
  /\ ui.pc = "spawn"
  /\ ThreadsFail
  /\ activity_inprogess' = FALSE
  /\ paused' = FALSE
  /\ selected_action' = IF ui.kind \in {"DELETE_LOCAL", "UPLOAD", "DOWNLOAD"}
                        THEN RefreshOf(ui.kind) ELSE selected_action
  /\ IF ui.kind \in Deleting THEN UNCHANGED selected ELSE \E f \in Files : selected' = {f}
  /\ agreed' = [agreed EXCEPT !.delete = {}]
  /\ SpawnDone
  /\ UNCHANGED <<dialogVars, stop_activity, existing, worker, http>>

(* The reset that comes after the thread is created: it also undoes a      *)
(* refresh the thread may have asked for meanwhile.                        *)
ExecuteEnds ==
  /\ ui.pc = "after"
  /\ selected_action' = "NONE"
  /\ confirm_transfer_state' = IF ui.kind \in Prompting THEN -1 ELSE confirm_transfer_state
  /\ ui' = [ui EXCEPT !.pc = "input", !.kind = "NONE"]
  /\ UNCHANGED <<confirm_state, confirm_message, overwrite_type, dont_prompt_overwrite, menu,
                 action_to_take, activity_inprogess, stop_activity, paused, selected, existing,
                 worker, http, agreed>>

UiStep ==
  \/ UiInput \/ UiProgress \/ UiModal \/ UiCancel \/ UiNoInput \/ OpenMenu \/ MenuCancel
  \/ \E k \in Kinds : ChooseItem(k) \/ ChooseDelete(k)
  \/ AnswerNo \/ AnswerYes \/ TransferCancel \/ TransferContinue
  \/ ExecuteNothing \/ ExecuteRefused \/ ExecuteStart
  \/ Spawn \/ SpawnFails \/ ExecuteEnds

-----------------------------------------------------------------------------
(***************************************************************************)
(* The HTTP server's threads.                                              *)
(***************************************************************************)
MutHttpMay == TRUE

(* The guard of a request that changes files or installs a package.        *)
HttpMay == ~activity_inprogess

HttpAccept(h) ==
  /\ http[h] = "idle"
  /\ HttpMay
  /\ http' = [http EXCEPT ![h] = "running"]
  /\ UNCHANGED <<dialogVars, flagVars, selected, existing, ui, worker, agreed>>

HttpFinish(h) ==
  /\ http[h] = "running"
  /\ http' = [http EXCEPT ![h] = "idle"]
  /\ UNCHANGED <<dialogVars, flagVars, selected, existing, ui, worker, agreed>>

(* Nobody works, asks or is about to start something.                      *)
Undisturbed ==
  /\ \A w \in Workers : ~Alive(w)
  /\ ~Dialog
  /\ ui.pc = "execute" => ~Ready
  /\ \A h \in Requests : http[h] \in {"idle", "running"}

(* install_url has the same guard; it raises the flag only after it has    *)
(* looked at the request and at the file host.                             *)
InstallAccept(h) ==
  /\ http[h] = "idle" /\ InstallUrls
  /\ HttpMay
  /\ InstallsApart => Undisturbed
  /\ http' = [http EXCEPT ![h] = "accepted"]
  /\ UNCHANGED <<dialogVars, flagVars, selected, existing, ui, worker, agreed>>

InstallRefused(h) ==
  /\ http[h] = "accepted"
  /\ http' = [http EXCEPT ![h] = "idle"]
  /\ UNCHANGED <<dialogVars, flagVars, selected, existing, ui, worker, agreed>>

InstallRaises(h) ==
  /\ http[h] = "accepted"
  /\ activity_inprogess' = TRUE
  /\ http' = [http EXCEPT ![h] = "raised"]
  /\ UNCHANGED <<dialogVars, stop_activity, paused, selected_action, selected, existing, ui,
                 worker, agreed>>

InstallPauses(h) ==
  /\ http[h] = "raised"
  /\ paused' = TRUE
  /\ http' = [http EXCEPT ![h] = "installing"]
  /\ UNCHANGED <<dialogVars, activity_inprogess, stop_activity, selected_action, selected,
                 existing, ui, worker, agreed>>

(* The handler's end, or that of the thread that watches its installation: *)
(* the flags come down, whoever holds them by now.                         *)
InstallEnds(h) ==
  /\ http[h] = "installing"
  /\ activity_inprogess' = FALSE
  /\ http' = [http EXCEPT ![h] = "lowered"]
  /\ UNCHANGED <<dialogVars, stop_activity, paused, selected_action, selected, existing, ui,
                 worker, agreed>>

InstallReleases(h) ==
  /\ http[h] = "lowered"
  /\ paused' = FALSE
  /\ http' = [http EXCEPT ![h] = "idle"]
  /\ UNCHANGED <<dialogVars, activity_inprogess, stop_activity, selected_action, selected,
                 existing, ui, worker, agreed>>

(* Refused by the installer in the background, or a package with enable_rpi *)
(* off: the flags stay up.                                                  *)
InstallLeaves(h) ==
  /\ http[h] = "installing"
  /\ http' = [http EXCEPT ![h] = "idle"]
  /\ UNCHANGED <<dialogVars, flagVars, selected, existing, ui, worker, agreed>>

HttpStep(h) ==
  \/ HttpAccept(h) \/ HttpFinish(h)
  \/ InstallAccept(h) \/ InstallRefused(h) \/ InstallRaises(h) \/ InstallPauses(h)
  \/ InstallEnds(h) \/ InstallReleases(h) \/ InstallLeaves(h)

Next ==
  \/ UiStep
  \/ \E w \in Workers : WorkerStep(w)
  \/ \E h \in Requests : HttpStep(h)

Spec == Init /\ [][Next]_vars

(* Every thread runs; the user is free to never answer.                    *)
FairSpec ==
  /\ Spec
  /\ WF_vars(UiStep)
  /\ \A w \in Workers : WF_vars(WorkerStep(w))

-----------------------------------------------------------------------------
(***************************************************************************)
(* Properties.                                                             *)
(***************************************************************************)
(* One activity at a time: the flag and the modal progress dialog are all  *)
(* that keeps the user from starting a second one beside the first, and    *)
(* the flag is down whenever the first one waits for an answer.  The end   *)
(* of an install_url lowers it too: without InstallsApart, one that came   *)
(* while a worker asked lets the user start a second worker.               *)
OneWorker == \A v, w \in Workers : Working(v) /\ Working(w) => v = w

(* A file that exists is written over only if the user has chosen to, for  *)
(* all files in the overwrite options or for this one with Yes.            *)
ConsentedOverwrite ==
  \A w \in Workers :
    worker[w].pc = "write" /\ worker[w].kind \in Prompting /\ worker[w].file \in existing
      => overwrite_type = "ALL" \/ agreed.overwrite = worker[w].file

(* What a thread deletes was selected when the user said Yes to deleting:  *)
(* the confirmation outlives the menu, and the thread reads the selection  *)
(* some time later.                                                        *)
DeleteConsented ==
  \A w \in Workers :
    worker[w].kind \in Deleting /\ worker[w].pc \in {"loop", "write"}
      => worker[w].left \cup (IF worker[w].pc = "write" THEN {worker[w].file} ELSE {})
         \subseteq worker[w].allowed

(* After Cancel no thread begins another file: nobody takes stop_activity  *)
(* back while the thread it was meant for still works.                     *)
CancelHeeded == \A w \in Workers : ~worker[w].late

(* STR_ACTIVITY_IN_PROGRESS_MSG: a file request or an install_url is taken *)
(* only if no worker works on files - except one that waits for the user's *)
(* answer.  Without InstallsApart the end of an install_url that came      *)
(* during a question opens the door beside the worker.                     *)
HttpRefused ==
  [][\A h \in Requests : http[h] = "idle" /\ http'[h] # "idle"
       => \A w \in Workers : Working(w) => Asking(w)]_vars

(* Every activity comes to its end, cancelled or not, as long as the user  *)
(* answers its questions.                                                  *)
WorkerReturns ==
  \A w \in Workers : Alive(w) ~> (~Alive(w) \/ confirm_state = "WAIT")

(* The gamepad comes back: the UI is not paused for good with no dialog,   *)
(* menu or progress that could release it (README: Triangle opens the      *)
(* menu).                                                                  *)
MenuComesBack ==
  (paused /\ ~menu /\ ~Dialog /\ ~activity_inprogess) ~> (~paused \/ menu \/ Dialog \/ activity_inprogess)
=============================================================================
