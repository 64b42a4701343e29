---------------------------- MODULE ActivityProofs ----------------------------
(***************************************************************************)
(* What holds of Activity for any listing, any number of threads and any   *)
(* set of actions.                                                         *)
(***************************************************************************)
EXTENDS Activity, TLAPS

-----------------------------------------------------------------------------
(***************************************************************************)
(* Types.                                                                  *)
(***************************************************************************)
LEMMA KindFacts ==
  /\ Kinds \subseteq AllKinds
  /\ Pasting \subseteq Prompting
  /\ AllKinds = Prompting \cup Deleting \cup Zipping \cup Installing
  /\ Prompting \cap Deleting = {} /\ Prompting \cap Zipping = {} /\ Prompting \cap Installing = {}
  /\ Deleting \cap Zipping = {} /\ Deleting \cap Installing = {} /\ Zipping \cap Installing = {}
  /\ Refreshes \cap AllKinds = {}
  /\ "NONE" \notin AllKinds \cup Refreshes
  /\ \A k : RefreshOf(k) \in Refreshes
BY ActivityAssumption
   DEF Pasting, Prompting, Deleting, Zipping, Installing, AllKinds, Refreshes, RefreshOf

(* A thread that has a file at hand has one of the listing. *)
Named ==
  \A w \in Workers :
    worker[w].pc \in {"ask", "take", "unlock", "spin", "lock", "restore", "decide", "write"} =>
      worker[w].file \in Files

TypeInv == TypeOK /\ Named

LEMMA InitTypes == Init => TypeInv
<1> SUFFICES ASSUME Init  PROVE TypeInv
  OBVIOUS
<1>1. selected \in (SUBSET Files) \ {{}} /\ existing \subseteq Files
  BY DEF Init
<1>2. worker \in [Workers -> WorkerState]
  BY DEF Init, NoWorker, WorkerState
<1>3. agreed \in [delete : SUBSET Files, overwrite : Files \cup {"none"}]
  BY DEF Init, Nothing
<1>4. {dont_prompt_overwrite, activity_inprogess, stop_activity, paused, menu} \subseteq BOOLEAN
  BY DEF Init
<1>5. TypeOK
  BY <1>1, <1>2, <1>3, <1>4 DEF Init, TypeOK, HttpState
<1>6. Named
  BY DEF Init, NoWorker, Named
<1>7. QED  BY <1>5, <1>6 DEF TypeInv

(* Where a thread stands after one of its steps. *)
LEMMA WorkerTypes == TypeOK /\ (\E w \in Workers : WorkerStep(w)) => worker' \in [Workers -> WorkerState]
<1> SUFFICES ASSUME TypeOK, NEW w \in Workers, WorkerStep(w)  PROVE worker' \in [Workers -> WorkerState]
  OBVIOUS
<1>1. worker \in [Workers -> WorkerState] /\ worker[w] \in WorkerState /\ selected \subseteq Files
  BY DEF TypeOK
<1>2. CASE WorkerStart(w)
  <2>1. PICK files \in SUBSET Files : worker' = [worker EXCEPT ![w].pc = "loop", ![w].left = files]
    BY <1>1, <1>2 DEF WorkerStart
  <2>2. QED  BY <1>1, <2>1 DEF WorkerState
<1>3. CASE BeginFile(w)
  BY <1>1, <1>3 DEF BeginFile, WorkerState
<1>4. CASE SkipFile(w)
  BY <1>1, <1>4 DEF SkipFile, WorkerState
<1>5. CASE AskUser(w) \/ TakeAction(w) \/ Unlock(w) \/ SeeAnswer(w) \/ Lock(w) \/ RestoreAction(w)
  BY <1>1, <1>5 DEF AskUser, TakeAction, Unlock, SeeAnswer, Lock, RestoreAction, Go, WorkerState
<1>6. CASE Decide(w) \/ LoopEnds(w) \/ WorkerEnds(w)
  BY <1>1, <1>6 DEF Decide, LoopEnds, WorkerEnds, Go, WorkerState
<1>7. CASE FinishFile(w)
  <2>1. PICK ok \in BOOLEAN : \E rest \in LeftAfter(w, ok) :
          worker' = [worker EXCEPT ![w].pc = "loop", ![w].left = rest, ![w].file = "none"]
    BY <1>7 DEF FinishFile
  <2>2. PICK rest \in LeftAfter(w, ok) :
          worker' = [worker EXCEPT ![w].pc = "loop", ![w].left = rest, ![w].file = "none"]
    BY <2>1
  <2>3. rest \subseteq Files
    BY <1>1, <2>2 DEF LeftAfter, WorkerState
  <2>4. QED  BY <1>1, <2>2, <2>3 DEF WorkerState
<1>8. CASE WorkerResumesUi(w)
  BY <1>1, <1>8 DEF WorkerResumesUi, WorkerState, NoWorker
<1>9. CASE WorkerRefreshes(w)
  BY <1>1, <1>9 DEF WorkerRefreshes, WorkerState, NoWorker
<1>10. QED
  BY <1>2, <1>3, <1>4, <1>5, <1>6, <1>7, <1>8, <1>9 DEF WorkerStep

LEMMA UiTypes ==
  TypeOK /\ UiStep =>
    ui' \in [pc : {"input", "progress", "modal", "dialogs", "execute", "spawn", "after"},
            kind : AllKinds \cup {"NONE"}, progress : BOOLEAN]
<1> SUFFICES ASSUME TypeOK, UiStep
             PROVE  ui' \in [pc : {"input", "progress", "modal", "dialogs", "execute", "spawn", "after"},
                            kind : AllKinds \cup {"NONE"}, progress : BOOLEAN]
  OBVIOUS
<1>1. /\ ui \in [pc : {"input", "progress", "modal", "dialogs", "execute", "spawn", "after"},
               kind : AllKinds \cup {"NONE"}, progress : BOOLEAN]
      /\ activity_inprogess \in BOOLEAN
  BY DEF TypeOK
<1>2. CASE \E pc \in {"input", "progress", "modal", "dialogs", "execute", "spawn", "after"} : Frame(pc)
  BY <1>1, <1>2 DEF Frame
<1>3. CASE UiProgress
  BY <1>1, <1>3 DEF UiProgress
<1>4. CASE ExecuteStart
  BY <1>1, <1>4 DEF ExecuteStart, Ready
<1>5. CASE SpawnDone \/ ExecuteEnds
  BY <1>1, <1>5 DEF SpawnDone, ExecuteEnds
<1>6. QED
  BY <1>2, <1>3, <1>4, <1>5
     DEF UiStep, UiInput, UiModal, UiCancel, UiNoInput, OpenMenu, MenuCancel, ChooseItem, ChooseDelete,
         AnswerNo, AnswerYes, TransferCancel, TransferContinue, ExecuteNothing, ExecuteRefused, Spawn,
         SpawnFails

(* A request leaves all but two flags alone. *)
LEMMA HttpStays ==
  ASSUME (\E h \in Requests : HttpStep(h)) \/ UNCHANGED vars
  PROVE  UNCHANGED <<dialogVars, stop_activity, selected_action, selected, existing, ui, worker, agreed>>
BY DEF HttpStep, HttpAccept, HttpFinish, InstallAccept, InstallRefused, InstallRaises, InstallPauses,
       InstallEnds, InstallReleases, InstallLeaves, vars, flagVars

LEMMA TypesStep == TypeInv /\ [Next]_vars => TypeOK'
<1> SUFFICES ASSUME TypeInv, [Next]_vars  PROVE TypeOK'
  OBVIOUS
<1> USE DEF dialogVars, flagVars, Rest
<1>0. TypeOK /\ Named
  BY DEF TypeInv
<1>1. ASSUME NEW w \in Workers, WorkerStep(w)  PROVE TypeOK'
  <2>1. worker' \in [Workers -> WorkerState] /\ worker[w] \in WorkerState
    BY <1>0, <1>1, WorkerTypes DEF TypeOK
  <2>2. CASE WorkerStart(w) \/ SkipFile(w) \/ SeeAnswer(w) \/ Decide(w) \/ LoopEnds(w)
    BY <1>0, <2>1, <2>2 DEF WorkerStart, SkipFile, SeeAnswer, Decide, LoopEnds, TypeOK
  <2>3. CASE BeginFile(w)
    <3>1. confirm_state' \in {"NONE", "WAIT", "YES", "NO"}
      BY <1>0, <2>3 DEF BeginFile, TypeOK
    <3>2. QED  BY <1>0, <2>1, <2>3, <3>1 DEF BeginFile, TypeOK
  <2>4. CASE AskUser(w) \/ TakeAction(w)
    BY <1>0, <2>1, <2>4 DEF AskUser, TakeAction, TypeOK, WorkerState
  <2>5. CASE Unlock(w) \/ Lock(w) \/ RestoreAction(w) \/ WorkerEnds(w)
    BY <1>0, <2>1, <2>5 DEF Unlock, Lock, RestoreAction, WorkerEnds, TypeOK
  <2>6. CASE FinishFile(w)
    <3>1. existing' \subseteq Files
      BY <1>0, <2>6 DEF FinishFile, TypeOK, Named
    <3>2. activity_inprogess' \in BOOLEAN /\ paused' \in BOOLEAN
      BY <1>0, <2>6 DEF FinishFile, TypeOK
    <3>3. QED  BY <1>0, <2>1, <2>6, <3>1, <3>2 DEF FinishFile, TypeOK
  <2>7. CASE WorkerResumesUi(w)
    <3>1. selected' \in (SUBSET Files) \ {{}}
      BY <1>0, <2>7 DEF WorkerResumesUi, TypeOK
    <3>2. {dont_prompt_overwrite', activity_inprogess', stop_activity', paused', menu'} \subseteq BOOLEAN
      BY <1>0, <2>7 DEF WorkerResumesUi, TypeOK
    <3>3. QED  BY <1>0, <2>1, <2>7, <3>1, <3>2 DEF WorkerResumesUi, TypeOK
  <2>8. CASE WorkerRefreshes(w)
    BY <1>0, <2>1, <2>8, KindFacts DEF WorkerRefreshes, TypeOK
  <2>9. QED
    BY <1>0, <1>1, <2>2, <2>3, <2>4, <2>5, <2>6, <2>7, <2>8 DEF WorkerStep
<1>2. CASE UiStep
  <2>1. ui' \in [pc : {"input", "progress", "modal", "dialogs", "execute", "spawn", "after"},
                 kind : AllKinds \cup {"NONE"}, progress : BOOLEAN]
    BY <1>0, <1>2, UiTypes
  <2>2. CASE UiInput \/ UiProgress \/ UiModal \/ UiNoInput
    BY <1>0, <2>1, <2>2 DEF UiInput, UiProgress, UiModal, UiNoInput, TypeOK
  <2>3. CASE UiCancel
    <3>1. \A w \in Workers : (worker[w].cancelled \/ Working(w)) \in BOOLEAN
      OBVIOUS
    <3>2. worker' = [w \in Workers |-> [worker[w] EXCEPT !.cancelled = worker[w].cancelled \/ Working(w)]]
      BY <1>0, <2>3 DEF UiCancel
    <3>3. \A w \in Workers : \A b \in BOOLEAN : [worker[w] EXCEPT !.cancelled = b] \in WorkerState
      BY <1>0 DEF TypeOK, WorkerState
    <3>4. worker' \in [Workers -> WorkerState]
      BY <3>1, <3>2, <3>3
    <3>5. QED  BY <1>0, <2>1, <2>3, <3>4 DEF UiCancel, TypeOK
  <2>4. CASE OpenMenu \/ MenuCancel
    BY <1>0, <2>1, <2>4 DEF OpenMenu, MenuCancel, Dialog, TypeOK
  <2>5. ASSUME NEW k \in Kinds, ChooseItem(k) \/ ChooseDelete(k)  PROVE TypeOK'
    <3>1. {dont_prompt_overwrite', activity_inprogess', stop_activity', paused', menu'} \subseteq BOOLEAN
      BY <1>0, <2>5 DEF ChooseItem, ChooseDelete, TypeOK
    <3>2. k \in AllKinds
      BY KindFacts
    <3>3. CASE ChooseItem(k)
      BY <1>0, <2>1, <3>1, <3>2, <3>3 DEF ChooseItem, TypeOK
    <3>4. CASE ChooseDelete(k)
      BY <1>0, <2>1, <3>1, <3>2, <3>4 DEF ChooseDelete, TypeOK
    <3>5. QED  BY <2>5, <3>3, <3>4
  <2>6. CASE AnswerNo \/ AnswerYes
    <3>1. agreed' \in [delete : SUBSET Files, overwrite : Files \cup {"none"}]
      BY <1>0, <2>6 DEF AnswerNo, AnswerYes, TypeOK
    <3>2. {dont_prompt_overwrite', activity_inprogess', stop_activity', paused', menu'} \subseteq BOOLEAN
      BY <1>0, <2>6 DEF AnswerNo, AnswerYes, TypeOK
    <3>3. QED  BY <1>0, <2>1, <2>6, <3>1, <3>2 DEF AnswerNo, AnswerYes, AfterNo, TypeOK
  <2>7. CASE TransferCancel \/ TransferContinue
    <3>1. overwrite_type' \in {"NONE", "PROMPT", "ALL"} /\ dont_prompt_overwrite' \in BOOLEAN
      BY <1>0, <2>7, ActivityAssumption DEF TransferCancel, TransferContinue, TypeOK
    <3>2. QED  BY <1>0, <2>1, <2>7, <3>1 DEF TransferCancel, TransferContinue, Cancelled, TypeOK
  <2>8. CASE ExecuteNothing \/ ExecuteRefused \/ ExecuteEnds
    BY <1>0, <2>1, <2>8 DEF ExecuteNothing, ExecuteRefused, ExecuteEnds, TypeOK
  <2>9. CASE ExecuteStart
    <3>1. {dont_prompt_overwrite', activity_inprogess', stop_activity', paused', menu'} \subseteq BOOLEAN
      BY <1>0, <2>9 DEF ExecuteStart, FlagOnStart, TypeOK
    <3>2. QED  BY <1>0, <2>1, <2>9, <3>1 DEF ExecuteStart, TypeOK
  <2>10. CASE Spawn
    <3>1. worker' \in [Workers -> WorkerState]
      BY <1>0, <2>10 DEF Spawn, NoWorker, TypeOK, WorkerState
    <3>2. agreed' \in [delete : SUBSET Files, overwrite : Files \cup {"none"}]
      BY <1>0, <2>10 DEF Spawn, TypeOK
    <3>3. QED  BY <1>0, <2>1, <2>10, <3>1, <3>2 DEF Spawn, TypeOK
  <2>11. CASE SpawnFails
    <3>1. agreed' \in [delete : SUBSET Files, overwrite : Files \cup {"none"}]
      BY <1>0, <2>11 DEF SpawnFails, TypeOK
    <3>2. selected' \in (SUBSET Files) \ {{}}
      BY <1>0, <2>11 DEF SpawnFails, TypeOK
    <3>3. selected_action' \in AllKinds \cup Refreshes \cup {"NONE"}
      BY <1>0, <2>11, KindFacts DEF SpawnFails, TypeOK
    <3>4. QED  BY <1>0, <2>1, <2>11, <3>1, <3>2, <3>3 DEF SpawnFails, TypeOK
  <2>12. QED
    BY <1>0, <1>2, <2>2, <2>3, <2>4, <2>5, <2>6, <2>7, <2>8, <2>9, <2>10, <2>11 DEF UiStep
<1>3. ASSUME NEW h \in Requests, HttpStep(h)  PROVE TypeOK'
  <2>1. /\ UNCHANGED <<dialogVars, stop_activity, selected_action, selected, existing, ui, worker, agreed>>
        /\ \E state \in HttpState : http' = [http EXCEPT ![h] = state]
    BY <1>3, HttpStays DEF HttpStep, HttpAccept, HttpFinish, InstallAccept, InstallRefused, InstallRaises,
         InstallPauses, InstallEnds, InstallReleases, InstallLeaves, HttpState
  <2>2. http' \in [Requests -> HttpState]
    BY <1>0, <2>1 DEF TypeOK
  <2>3. activity_inprogess' \in BOOLEAN /\ paused' \in BOOLEAN
    BY <1>0, <1>3 DEF TypeOK, HttpStep, HttpAccept, HttpFinish, InstallAccept, InstallRefused, InstallRaises,
         InstallPauses, InstallEnds, InstallReleases, InstallLeaves
  <2>4. QED  BY <1>0, <2>1, <2>2, <2>3 DEF TypeOK
<1>4. CASE UNCHANGED vars
  BY <1>0, <1>4 DEF vars, TypeOK
<1>5. QED  BY <1>0, <1>1, <1>2, <1>3, <1>4 DEF Next

(* A thread changes itself, the UI loop only marks threads or creates one. *)
LEMMA WorkerFrame ==
  ASSUME TypeOK, NEW w \in Workers, WorkerStep(w)
  PROVE  \A v \in Workers : v # w => worker'[v] = worker[v]
<1>1. worker \in [Workers -> WorkerState]
  BY DEF TypeOK
<1>2. CASE WorkerStart(w) \/ BeginFile(w) \/ SkipFile(w) \/ FinishFile(w)
  BY <1>1, <1>2 DEF WorkerStart, BeginFile, SkipFile, FinishFile
<1>3. CASE WorkerResumesUi(w) \/ WorkerRefreshes(w)
  BY <1>1, <1>3 DEF WorkerResumesUi, WorkerRefreshes
<1>4. CASE \E pc : Go(w, pc)
  BY <1>1, <1>4 DEF Go
<1>5. QED
  BY <1>2, <1>3, <1>4
     DEF WorkerStep, AskUser, TakeAction, Unlock, SeeAnswer, Lock, RestoreAction, Decide, LoopEnds, WorkerEnds

LEMMA UiFrame == UiStep => UNCHANGED worker \/ UiCancel \/ Spawn
BY DEF Rest, UiStep, UiInput, UiProgress, UiModal, UiNoInput, OpenMenu, MenuCancel, ChooseItem, ChooseDelete,
       AnswerNo, AnswerYes, TransferCancel, TransferContinue, ExecuteNothing, ExecuteRefused, ExecuteStart,
       SpawnFails, ExecuteEnds

LEMMA CancelFrame ==
  ASSUME TypeOK, UiCancel
  PROVE  \A w \in Workers :
           /\ worker'[w].pc = worker[w].pc /\ worker'[w].kind = worker[w].kind
           /\ worker'[w].left = worker[w].left /\ worker'[w].file = worker[w].file
           /\ worker'[w].allowed = worker[w].allowed /\ worker'[w].late = worker[w].late
<1>1. worker \in [Workers -> WorkerState]
  BY DEF TypeOK
<1>2. QED  BY <1>1 DEF UiCancel, WorkerState

LEMMA SpawnFrame ==
  ASSUME TypeOK, Spawn
  PROVE  \E w \in Workers :
           /\ worker[w] = NoWorker
           /\ worker'[w] = [NoWorker EXCEPT !.pc = "start", !.kind = ui.kind, !.allowed = agreed.delete]
           /\ \A v \in Workers : v # w => worker'[v] = worker[v]
<1>1. worker \in [Workers -> WorkerState]
  BY DEF TypeOK
<1>2. FreeSlot \in Workers /\ worker[FreeSlot] = NoWorker
  BY DEF Spawn, FreeSlot
<1>3. QED  BY <1>1, <1>2 DEF Spawn

LEMMA NamedStep == TypeInv /\ [Next]_vars => Named'
<1> SUFFICES ASSUME TypeInv, [Next]_vars  PROVE Named'
  OBVIOUS
<1>0. TypeOK /\ Named /\ worker \in [Workers -> WorkerState]
  BY DEF TypeInv, TypeOK
<1>1. ASSUME NEW w \in Workers, WorkerStep(w)  PROVE Named'
  <2>1. worker'[w].pc \in {"ask", "take", "unlock", "spin", "lock", "restore", "decide", "write"} =>
          worker'[w].file \in Files
    <3> USE DEF Named, WorkerState
    <3>1. CASE WorkerStart(w) \/ SkipFile(w)
      BY <1>0, <3>1 DEF WorkerStart, SkipFile
    <3>2. CASE BeginFile(w)
      BY <1>0, <3>2 DEF BeginFile
    <3>3. CASE AskUser(w) \/ TakeAction(w) \/ Unlock(w) \/ SeeAnswer(w) \/ Lock(w) \/ RestoreAction(w)
      BY <1>0, <3>3 DEF AskUser, TakeAction, Unlock, SeeAnswer, Lock, RestoreAction, Go
    <3>4. CASE Decide(w) \/ LoopEnds(w) \/ WorkerEnds(w)
      BY <1>0, <3>4 DEF Decide, LoopEnds, WorkerEnds, Go
    <3>5. CASE FinishFile(w)
      BY <1>0, <3>5 DEF FinishFile
    <3>6. CASE WorkerResumesUi(w) \/ WorkerRefreshes(w)
      BY <1>0, <3>6 DEF WorkerResumesUi, WorkerRefreshes, NoWorker
    <3>7. QED  BY <1>1, <3>1, <3>2, <3>3, <3>4, <3>5, <3>6 DEF WorkerStep
  <2>2. QED  BY <1>0, <1>1, <2>1, WorkerFrame DEF Named
<1>2. CASE UiStep
  BY <1>0, <1>2, UiFrame, CancelFrame, SpawnFrame DEF Named, NoWorker
<1>3. CASE UNCHANGED worker
  BY <1>0, <1>3 DEF Named
<1>4. QED  BY <1>1, <1>2, <1>3, HttpStays DEF Next

THEOREM TypesAlways == Spec => []TypeInv
<1>1. TypeInv /\ [Next]_vars => TypeInv'
  BY TypesStep, NamedStep DEF TypeInv
<1>2. QED  BY InitTypes, <1>1, PTL DEF Spec

(* Every reachable state of the activities is well typed, whatever the user picks, *)
(* whichever threads cannot be created, and however they interleave.              *)
THEOREM TypeCorrect == Spec => []TypeOK
<1>1. TypeInv => TypeOK
  BY DEF TypeInv
<1>2. QED  BY <1>1, TypesAlways, PTL
-----------------------------------------------------------------------------
(***************************************************************************)
(* One activity at a time.                                                 *)
(***************************************************************************)
(* The user waits for the threads, clients that install packages wait for    *)
(* the user and the threads, he does not tick "always use this option"       *)
(* together with "prompt", and installs remote packages without the disk     *)
(* cache.                                                                    *)
Calm ==
  /\ UserIsSlow
  /\ InstallsApart
  /\ MayAlways => "PROMPT" \notin OverwriteTypes
  /\ DiskCache => "INSTALL_REMOTE_PKG" \notin Kinds

Ends == {"none", "flag", "resume", "refresh"}
Asked == {"take", "unlock", "spin", "lock", "restore"}

NoneAlive == \A w \in Workers : ~Alive(w)

(* Nobody works, chooses or is asked: an activity may be started. *)
Quiet == NoneAlive /\ ~menu /\ confirm_state # "WAIT"

(* Only actions the user may pick are about; a thread has one of them. *)
OfKinds ==
  /\ {selected_action, action_to_take} \subseteq Kinds \cup Refreshes \cup {"NONE"}
  /\ ui.kind \in Kinds \cup {"NONE"}
  /\ ui.pc \in {"spawn", "after"} => ui.kind # "NONE"
  /\ \A w \in Workers : worker[w].kind \in Kinds \cup {"NONE"}
  /\ \A w \in Workers : Alive(w) => worker[w].kind # "NONE"
  /\ \A w \in Workers : ~Alive(w) => worker[w] = NoWorker

(* One thread at a time: what can be started is started in the frame it was chosen *)
(* in, and is chosen when nobody works.                                      *)
Single ==
  /\ \A v, w \in Workers : Alive(v) /\ Alive(w) => v = w
  /\ Ready => ui.pc \in {"spawn", "after"} \/ (ui.pc = "execute" /\ Quiet)
  /\ confirm_transfer_state \in {0, 1} =>
       \/ ui.pc \in {"spawn", "after"} /\ ui.kind \in Prompting
       \/ ui.pc \notin {"spawn", "after"} /\ Quiet /\ selected_action \in Prompting
  /\ dont_prompt_overwrite => MayAlways /\ overwrite_type # "PROMPT"

Starting ==
  /\ ui.pc = "spawn" => /\ Quiet /\ activity_inprogess
                        /\ selected_action = IF ui.kind \in Deleting \cup Zipping THEN "NONE" ELSE ui.kind
  /\ ui.pc = "after" =>
       /\ ~menu
       /\ ui.kind \in Prompting \cup Installing
       /\ selected_action \in AllKinds \ Prompting => ui.kind \in Installing
       /\ ui.kind \in Installing => \A w \in Workers : worker[w].kind \notin Prompting

Menu ==
  /\ menu => ~Dialog
  /\ menu => \A w \in Workers :
       \/ worker[w].pc \in Ends
       \/ worker[w].pc \in {"loop", "write"} /\ stop_activity
  /\ ui.pc = "dialogs" /\ ui.progress =>
       /\ ~menu
       /\ paused \/ stop_activity \/ \A w \in Workers : worker[w].pc \in Ends

Flag == \A w \in Workers : worker[w].pc \notin Ends \cup {"spin", "lock"} => activity_inprogess

Questions ==
  /\ confirm_state = "WAIT" =>
       \/ NoneAlive /\ confirm_message = "delete" /\ action_to_take \in Deleting
       \/ \E w \in Workers : worker[w].pc \in {"take", "unlock", "spin"}
  /\ \A w \in Workers :
       /\ worker[w].pc \in Asked \cup {"ask", "decide"} =>
            worker[w].kind \in Prompting /\ worker[w].file \in Files
       /\ worker[w].pc \in Asked \cup {"ask"} => overwrite_type = "PROMPT"
       /\ worker[w].pc \in Asked => confirm_message = worker[w].file
       /\ worker[w].pc \in {"take", "unlock"} => confirm_state = "WAIT"
       /\ worker[w].pc \in Asked \ {"take"} => action_to_take \notin AllKinds \ Prompting

Consent(w) ==
   \/ worker[w].file \notin existing
   \/ overwrite_type = "ALL"
   \/ agreed.overwrite = worker[w].file
Consented ==
  \A w \in Workers :
    /\ worker[w].pc \in {"spin", "lock", "restore", "decide"} /\ confirm_state = "YES" => Consent(w)
    /\ worker[w].pc = "write" /\ worker[w].kind \in Prompting => Consent(w)

Chosen ==
  /\ ui.pc = "execute" /\ selected_action \in Deleting => agreed.delete = selected
  /\ ui.pc = "spawn" /\ ui.kind \in Deleting => agreed.delete = selected
  /\ \A w \in Workers :
       worker[w].pc = "start" /\ worker[w].kind \in Deleting => worker[w].allowed = selected
  /\ DeleteConsented

Cancels ==
  \A w \in Workers : /\ worker[w].cancelled => stop_activity
                     /\ worker[w].late => worker[w].kind = "DELETE_REMOTE"

(* An install_url under way has the flags for itself. *)
Installs(h) == http[h] \notin {"idle", "running"}
Undisturbing == NoneAlive /\ ~Dialog /\ ui.pc # "spawn" /\ (ui.pc = "execute" => ~Ready)
Apart ==
  \A h \in Requests : Installs(h) =>
    /\ Undisturbing
    /\ http[h] \in {"raised", "installing"} => activity_inprogess
    /\ \A g \in Requests : Installs(g) => g = h

Inv ==
  /\ TypeInv /\ OfKinds /\ Single /\ Starting /\ Menu /\ Flag /\ Questions /\ Consented /\ Chosen
  /\ Cancels /\ Apart

LEMMA InvFacts ==
  Inv => /\ TypeOK /\ Named /\ OfKinds /\ Single /\ Starting /\ Menu /\ Flag /\ Questions
         /\ Consented /\ Chosen /\ Cancels /\ Apart
         /\ worker \in [Workers -> WorkerState]
BY DEF Inv, TypeInv, TypeOK

LEMMA InvInit == Init => Inv
<1> SUFFICES ASSUME Init  PROVE Inv
  OBVIOUS
<1>1. TypeInv
  BY InitTypes
<1>2. \A w \in Workers : worker[w] = NoWorker
  BY DEF Init
<1>3. \A w \in Workers : /\ worker[w].pc = "none" /\ worker[w].kind = "NONE"
                        /\ worker[w].cancelled = FALSE /\ worker[w].late = FALSE
  BY <1>2 DEF NoWorker
<1>4. OfKinds
  BY <1>2, <1>3 DEF Init, OfKinds, Alive
<1>5. Single /\ Starting
  BY <1>3, KindFacts DEF Init, Single, Starting, Alive, Ready
<1>6. Menu /\ Flag /\ Questions /\ Consented
  BY <1>3 DEF Init, Menu, Flag, Questions, Consented, Ends, Asked
<1>7. Chosen /\ Cancels /\ Apart
  BY <1>3 DEF Init, Chosen, Cancels, DeleteConsented, Apart, Installs
<1>8. QED  BY <1>1, <1>4, <1>5, <1>6, <1>7 DEF Inv

(* When a thread takes a step, nobody else works and nothing is to be started. *)
LEMMA WorkerAlone ==
  ASSUME Inv, NEW w \in Workers, WorkerStep(w)
  PROVE  /\ Alive(w) /\ ~NoneAlive /\ ~Quiet
         /\ \A v \in Workers : v # w => worker[v] = NoWorker /\ worker'[v] = NoWorker
         /\ ui.pc # "spawn"
         /\ Ready => ui.pc = "after"
         /\ confirm_transfer_state \in {0, 1} => ui.pc = "after" /\ ui.kind \in Prompting
         /\ worker[w] \in WorkerState
<1>1. Alive(w)
  BY DEF Alive, WorkerStep, WorkerStart, BeginFile, SkipFile, AskUser, TakeAction, Unlock, SeeAnswer, Lock,
         RestoreAction, Decide, FinishFile, LoopEnds, WorkerEnds, WorkerResumesUi, WorkerRefreshes
<1>2. ~NoneAlive /\ ~Quiet
  BY <1>1 DEF NoneAlive, Quiet
<1>3. ASSUME NEW v \in Workers, v # w  PROVE worker[v] = NoWorker /\ worker'[v] = NoWorker
  BY <1>1, <1>3, InvFacts, WorkerFrame DEF Single, OfKinds
<1>4. QED  BY <1>1, <1>2, <1>3, InvFacts DEF Single, Starting

(* When a request touches the flags, nobody is at work. *)
LEMMA HttpFlags ==
  ASSUME Inv, (\E h \in Requests : HttpStep(h)) \/ UNCHANGED vars
  PROVE  UNCHANGED <<activity_inprogess, paused>> \/ (NoneAlive /\ ui.pc # "spawn")
<1>1. CASE UNCHANGED vars
  BY <1>1 DEF vars, flagVars
<1>2. ASSUME NEW h \in Requests, HttpStep(h), ~Installs(h)  PROVE UNCHANGED <<activity_inprogess, paused>>
  BY <1>2 DEF HttpStep, HttpAccept, HttpFinish, InstallAccept, InstallRefused, InstallRaises, InstallPauses,
       InstallEnds, InstallReleases, InstallLeaves, Installs, flagVars
<1>3. ASSUME NEW h \in Requests, Installs(h)  PROVE NoneAlive /\ ui.pc # "spawn"
  BY <1>3, InvFacts DEF Apart, Undisturbing
<1>4. QED  BY <1>1, <1>2, <1>3

LEMMA WorkerKeeps ==
  ASSUME NEW w \in Workers, WorkerStep(w)
  PROVE  UNCHANGED <<ui, menu, confirm_transfer_state, overwrite_type, dont_prompt_overwrite, agreed,
                     stop_activity>>
BY DEF WorkerStep, WorkerStart, BeginFile, SkipFile, AskUser, TakeAction, Unlock, SeeAnswer, Lock,
       RestoreAction, Decide, FinishFile, LoopEnds, WorkerEnds, WorkerResumesUi, WorkerRefreshes,
       dialogVars, flagVars

(* Without the disk cache a file that is done leaves the flags alone. *)
LEMMA FinishKeeps ==
  ASSUME Calm, Inv, NEW w \in Workers, FinishFile(w)
  PROVE  UNCHANGED <<activity_inprogess, paused>>
<1>1. worker[w].kind \in Kinds
  BY InvFacts DEF OfKinds, Alive, FinishFile
<1>2. \A ok : GivesUp(w, ok) = {FALSE}
  BY <1>1 DEF GivesUp, Calm
<1>3. activity_inprogess \in BOOLEAN /\ paused \in BOOLEAN
  BY InvFacts DEF TypeOK
<1>4. QED  BY <1>2, <1>3 DEF FinishFile

(* When the user acts, each thread is at work on a file or waits for him. *)
LEMMA UserActs ==
  ASSUME Calm, Inv, MayAct
  PROVE  /\ ui.progress = activity_inprogess
         /\ \A w \in Workers :
              worker[w].pc \in {"none", "write"} \/ (worker[w].pc = "spin" /\ confirm_state = "WAIT")
         /\ ui.pc = "dialogs" /\ menu => NoneAlive
         /\ ui.pc = "dialogs" /\ ~paused /\ ~Dialog =>
              \A w \in Workers : worker[w].pc = "none" \/ (worker[w].pc = "write" /\ stop_activity)
<1>1. /\ ui.progress = activity_inprogess
      /\ \A w \in Workers :
           worker[w].pc \in {"none", "write"} \/ (worker[w].pc = "spin" /\ confirm_state = "WAIT")
  BY DEF Calm, MayAct
<1>2. ASSUME NEW w \in Workers, worker[w].pc = "write"  PROVE ui.progress
  BY <1>1, <1>2, InvFacts DEF Flag, Ends
<1>3. ASSUME ui.pc = "dialogs", menu, NEW w \in Workers  PROVE ~Alive(w)
  BY <1>1, <1>2, <1>3, InvFacts DEF Menu, Dialog, Alive
<1>4. ASSUME ui.pc = "dialogs", ~paused, ~Dialog, NEW w \in Workers
      PROVE  worker[w].pc = "none" \/ (worker[w].pc = "write" /\ stop_activity)
  BY <1>1, <1>2, <1>4, InvFacts DEF Menu, Dialog, Ends
<1>5. QED  BY <1>1, <1>3, <1>4 DEF NoneAlive

(* In the dialogs nothing waits to be started but what the options are shown for. *)
LEMMA InDialogs ==
  ASSUME Inv, ui.pc = "dialogs"
  PROVE  ~Ready /\ confirm_transfer_state # 1
         /\ (confirm_transfer_state = 0 => Quiet /\ selected_action \in Prompting)
<1>1. ~Ready
  BY InvFacts DEF Single
<1>2. confirm_transfer_state \in {0, 1} => Quiet /\ selected_action \in Prompting
  BY InvFacts DEF Single
<1>3. QED  BY <1>1, <1>2, KindFacts DEF Ready

LEMMA Begins ==
  ASSUME Inv, ui.pc = "execute", Ready
  PROVE  /\ Quiet /\ NoneAlive /\ \A w \in Workers : worker[w] = NoWorker
         /\ selected_action \in Kinds
         /\ confirm_transfer_state \in {0, 1} => selected_action \in Prompting
BY InvFacts, KindFacts DEF Single, Quiet, NoneAlive, OfKinds, Ready

LEMMA KindsStep == ASSUME Inv, [Next]_vars  PROVE OfKinds'
<1> USE DEF dialogVars, flagVars, Rest
<1>0. /\ TypeOK /\ OfKinds /\ worker \in [Workers -> WorkerState]
      /\ "NONE" \notin Kinds
  BY InvFacts, KindFacts
<1>1. ASSUME NEW w \in Workers, WorkerStep(w)  PROVE OfKinds'
  <2>1. /\ \A v \in Workers : v # w => worker[v] = NoWorker /\ worker'[v] = NoWorker
        /\ Alive(w) /\ worker[w] \in WorkerState
        /\ UNCHANGED ui
    BY <1>1, WorkerAlone, WorkerKeeps
  <2>2. {selected_action', action_to_take'} \subseteq Kinds \cup Refreshes \cup {"NONE"}
    <3>1. UNCHANGED <<selected_action, action_to_take>> \/ TakeAction(w) \/ RestoreAction(w) \/ WorkerRefreshes(w)
      BY <1>1
         DEF WorkerStep, WorkerStart, BeginFile, SkipFile, AskUser, Unlock, SeeAnswer, Lock, Decide, FinishFile,
             LoopEnds, WorkerEnds, WorkerResumesUi
    <3>2. CASE UNCHANGED <<selected_action, action_to_take>> \/ TakeAction(w) \/ RestoreAction(w)
      BY <1>0, <3>2 DEF TakeAction, RestoreAction, OfKinds
    <3>3. CASE WorkerRefreshes(w)
      BY <1>0, <3>3, KindFacts DEF WorkerRefreshes, OfKinds
    <3>4. QED  BY <3>1, <3>2, <3>3
  <2>3. \/ worker'[w] = NoWorker
        \/ worker'[w].pc # "none" /\ worker'[w].kind = worker[w].kind
    <3> USE DEF WorkerState
    <3>1. CASE WorkerStart(w) \/ SkipFile(w)
      BY <1>0, <3>1 DEF WorkerStart, SkipFile
    <3>2. CASE BeginFile(w)
      BY <1>0, <3>2 DEF BeginFile
    <3>3. CASE AskUser(w) \/ TakeAction(w) \/ Unlock(w) \/ SeeAnswer(w) \/ Lock(w) \/ RestoreAction(w)
      BY <1>0, <3>3 DEF AskUser, TakeAction, Unlock, SeeAnswer, Lock, RestoreAction, Go
    <3>4. CASE Decide(w) \/ LoopEnds(w) \/ WorkerEnds(w)
      BY <1>0, <3>4 DEF Decide, LoopEnds, WorkerEnds, Go
    <3>5. CASE FinishFile(w)
      BY <1>0, <3>5 DEF FinishFile
    <3>6. CASE WorkerResumesUi(w) \/ WorkerRefreshes(w)
      BY <1>0, <3>6 DEF WorkerResumesUi, WorkerRefreshes
    <3>7. QED  BY <1>1, <3>1, <3>2, <3>3, <3>4, <3>5, <3>6 DEF WorkerStep
  <2>4. \A v \in Workers : \/ worker'[v] = NoWorker
                           \/ worker'[v].pc # "none" /\ worker'[v].kind = worker[v].kind /\ v = w
    BY <2>1, <2>3
  <2>5. QED  BY <1>0, <2>1, <2>2, <2>4 DEF OfKinds, Alive, NoWorker
<1>2. CASE UiStep
  <2>1. {selected_action', action_to_take'} \subseteq Kinds \cup Refreshes \cup {"NONE"}
    BY <1>0, <1>2, KindFacts
       DEF OfKinds, UiStep, UiInput, UiProgress, UiModal, UiCancel, UiNoInput, OpenMenu, MenuCancel,
           ChooseItem, ChooseDelete, AnswerNo, AnswerYes, AfterNo, TransferCancel, TransferContinue,
           ExecuteNothing, ExecuteRefused, ExecuteStart, Spawn, SpawnFails, ExecuteEnds
  <2>2. ui'.kind \in Kinds \cup {"NONE"} /\ (ui'.pc \in {"spawn", "after"} => ui'.kind # "NONE")
    <3>1. CASE ExecuteStart
      BY <1>0, <3>1, InvFacts, Begins DEF ExecuteStart, TypeOK
    <3>2. CASE SpawnDone /\ ui.pc = "spawn"
      BY <1>0, <3>2 DEF SpawnDone, OfKinds, TypeOK
    <3>3. CASE UiProgress \/ ExecuteEnds \/ \E pc \in {"input", "progress", "dialogs", "execute"} : Frame(pc)
      BY <1>0, <3>3 DEF UiProgress, ExecuteEnds, Frame, OfKinds, TypeOK
    <3>4. QED
      BY <1>2, <3>1, <3>2, <3>3
         DEF UiStep, UiInput, UiModal, UiCancel, UiNoInput, OpenMenu, MenuCancel, ChooseItem, ChooseDelete,
             AnswerNo, AnswerYes, TransferCancel, TransferContinue, ExecuteNothing, ExecuteRefused, Spawn,
             SpawnFails
  <2>3. CASE UNCHANGED worker
    BY <1>0, <2>1, <2>2, <2>3 DEF OfKinds, Alive
  <2>4. CASE UiCancel
    <3>1. \A w \in Workers : worker[w] = NoWorker => worker'[w] = NoWorker
      <4> SUFFICES ASSUME NEW w \in Workers, worker[w] = NoWorker  PROVE worker'[w] = NoWorker
        OBVIOUS
      <4>1. worker[w].cancelled = FALSE /\ ~Working(w)
        BY DEF NoWorker, Working
      <4>2. worker'[w] = [NoWorker EXCEPT !.cancelled = FALSE]
        BY <2>4, <4>1 DEF UiCancel
      <4>3. QED  BY <4>2 DEF NoWorker
    <3>2. QED  BY <1>0, <2>1, <2>2, <2>4, <3>1, CancelFrame DEF OfKinds, Alive
  <2>5. CASE Spawn
    <3>1. ui.pc = "spawn" /\ ui.kind \in Kinds
      BY <1>0, <2>5 DEF Spawn, OfKinds
    <3>2. PICK w \in Workers :
            /\ worker[w] = NoWorker
            /\ worker'[w] = [NoWorker EXCEPT !.pc = "start", !.kind = ui.kind, !.allowed = agreed.delete]
            /\ \A v \in Workers : v # w => worker'[v] = worker[v]
      BY <1>0, <2>5, SpawnFrame
    <3>3. worker'[w].pc = "start" /\ worker'[w].kind = ui.kind
      BY <3>2 DEF NoWorker
    <3>4. QED  BY <1>0, <2>1, <2>2, <3>1, <3>2, <3>3 DEF OfKinds, Alive
  <2>6. QED  BY <1>2, <2>3, <2>4, <2>5, UiFrame
<1>3. CASE UNCHANGED <<selected_action, action_to_take, ui, worker>>
  BY <1>0, <1>3 DEF OfKinds, Alive
<1>4. QED  BY <1>1, <1>2, <1>3, HttpStays DEF Next

LEMMA SingleStep == ASSUME Calm, Inv, [Next]_vars  PROVE Single'
<1> USE DEF dialogVars, flagVars, Rest
<1>0. /\ TypeOK /\ OfKinds /\ Single /\ Starting /\ Menu /\ Questions /\ worker \in [Workers -> WorkerState]
      /\ "NONE" \notin Kinds
  BY InvFacts, KindFacts
<1>1. ASSUME NEW w \in Workers, WorkerStep(w)  PROVE Single'
  <2>1. /\ \A v \in Workers : v # w => worker[v] = NoWorker /\ worker'[v] = NoWorker
        /\ Alive(w) /\ ~Quiet /\ ui.pc # "spawn"
        /\ Ready => ui.pc = "after"
        /\ confirm_transfer_state \in {0, 1} => ui.pc = "after" /\ ui.kind \in Prompting
        /\ UNCHANGED <<ui, menu, confirm_transfer_state, overwrite_type, dont_prompt_overwrite>>
    BY <1>1, WorkerAlone, WorkerKeeps
  <2>2. \A u, v \in Workers : Alive(u)' /\ Alive(v)' => u = v
    BY <2>1 DEF Alive, NoWorker
  <2>3. Ready' => ui.pc = "after"
    <3>1. CASE UNCHANGED selected_action
      BY <2>1, <3>1 DEF Ready
    <3>2. CASE RestoreAction(w)
      <4>1. overwrite_type = "PROMPT" /\ action_to_take \notin AllKinds \ Prompting
        BY <1>0, <3>2 DEF Questions, RestoreAction, Asked
      <4>2. ~dont_prompt_overwrite
        BY <1>0, <4>1 DEF Single
      <4>3. Ready' => confirm_transfer_state = 1
        BY <2>1, <3>2, <4>1, <4>2 DEF RestoreAction, Ready
      <4>4. QED  BY <2>1, <4>3
    <3>3. CASE WorkerRefreshes(w)
      BY <3>3, KindFacts DEF WorkerRefreshes, Ready
    <3>4. QED
      BY <1>1, <3>1, <3>2, <3>3
         DEF WorkerStep, WorkerStart, BeginFile, SkipFile, AskUser, TakeAction, Unlock, SeeAnswer, Lock, Decide,
             FinishFile, LoopEnds, WorkerEnds, WorkerResumesUi
  <2>4. QED  BY <1>0, <2>1, <2>2, <2>3 DEF Single
<1>2. CASE UiStep
  <2>1. CASE UiInput \/ UiProgress \/ UiModal \/ UiNoInput
    <3>1. /\ ui.pc \in {"input", "progress", "modal", "dialogs"} /\ ui'.pc \notin {"spawn", "after"}
          /\ UNCHANGED <<confirm_state, confirm_transfer_state, overwrite_type, dont_prompt_overwrite,
                        selected_action, worker>>
          /\ menu' => menu
      <4>1. CASE UiInput \/ UiNoInput
        BY <1>0, <4>1 DEF UiInput, UiNoInput, Frame, TypeOK
      <4>2. CASE UiProgress
        BY <1>0, <4>2 DEF UiProgress, TypeOK
      <4>3. CASE UiModal
        BY <1>0, <4>3 DEF UiModal, Frame, TypeOK
      <4>4. QED  BY <2>1, <4>1, <4>2, <4>3
    <3>2. ~Ready /\ ~Ready'
      BY <1>0, <3>1 DEF Single, Ready
    <3>3. Quiet => Quiet'
      BY <3>1 DEF Quiet, NoneAlive, Alive
    <3>4. QED  BY <1>0, <3>1, <3>2, <3>3 DEF Single, Alive
  <2>2. CASE UiCancel
    <3>1. \A w \in Workers : Alive(w)' <=> Alive(w)
      BY <1>0, <2>2, CancelFrame DEF Alive
    <3>2. QED  BY <1>0, <2>2, <3>1 DEF UiCancel, Frame, Single, Ready, Quiet, NoneAlive, TypeOK
  <2>3. CASE ui.pc = "dialogs" /\ UiStep
    <3>1. /\ ~Ready /\ confirm_transfer_state # 1
          /\ confirm_transfer_state = 0 => Quiet /\ selected_action \in Prompting
      BY <2>3, InDialogs
    <3>2. CASE UiNoInput \/ MenuCancel
      BY <1>0, <3>1, <3>2 DEF UiNoInput, MenuCancel, Frame, Single, Ready, Quiet, NoneAlive, Alive, TypeOK
    <3>3. CASE OpenMenu
      BY <1>0, <3>1, <3>3 DEF OpenMenu, Frame, Single, Ready, Quiet, NoneAlive, Alive, Dialog, TypeOK
    <3>4. ASSUME NEW k \in Kinds, ChooseItem(k)  PROVE Single'
      <4>1. Quiet' /\ confirm_transfer_state # 0
        BY <2>3, <3>1, <3>4, UserActs, <1>0 DEF ChooseItem, Quiet, NoneAlive, Alive, Menu, Dialog
      <4>2. QED  BY <1>0, <3>1, <3>4, <4>1, KindFacts DEF ChooseItem, Frame, Single, Alive, TypeOK
    <3>5. ASSUME NEW k \in Kinds, ChooseDelete(k)  PROVE Single'
      BY <1>0, <3>1, <3>5 DEF ChooseDelete, Frame, Single, Quiet, Ready, Alive, Menu, Dialog, TypeOK
    <3>6. CASE AnswerNo
      BY <1>0, <3>1, <3>6, KindFacts DEF AnswerNo, AfterNo, Frame, Single, Quiet, Ready, Alive, TypeOK
    <3>7. CASE AnswerYes
      <4>1. confirm_transfer_state # 0 /\ ~menu
        BY <1>0, <3>1, <3>7 DEF AnswerYes, Quiet, Menu, Dialog
      <4>2. CASE NoneAlive
        BY <1>0, <3>1, <3>7, <4>1, <4>2 DEF AnswerYes, Frame, Single, Quiet, NoneAlive, Alive, TypeOK
      <4>3. CASE ~NoneAlive
        <5>1. PICK w \in Workers : worker[w].pc = "spin"
          BY <3>7, <4>3, UserActs, <1>0 DEF AnswerYes, Questions
        <5>2. overwrite_type = "PROMPT" /\ action_to_take \notin AllKinds \ Prompting
          BY <1>0, <5>1 DEF Questions, Asked
        <5>3. ~Ready'
          BY <1>0, <3>1, <3>7, <5>2 DEF AnswerYes, Ready, Single
        <5>4. QED  BY <1>0, <3>1, <3>7, <4>1, <5>3 DEF AnswerYes, Single, Alive
      <4>4. QED  BY <4>2, <4>3
    <3>8. CASE TransferCancel
      BY <1>0, <3>1, <3>8, KindFacts DEF TransferCancel, Cancelled, Frame, Single, Ready, Alive, Calm, TypeOK
    <3>9. CASE TransferContinue
      BY <1>0, <3>1, <3>9, KindFacts
         DEF TransferContinue, Frame, Single, Ready, Quiet, NoneAlive, Alive, Calm, TypeOK
    <3>10. QED
      BY <2>3, <3>2, <3>3, <3>4, <3>5, <3>6, <3>7, <3>8, <3>9
         DEF UiStep, UiInput, UiProgress, UiModal, UiCancel, ExecuteNothing, ExecuteRefused, ExecuteStart, Spawn,
             SpawnFails, ExecuteEnds
  <2>4. CASE ExecuteNothing
    BY <1>0, <2>4, KindFacts DEF ExecuteNothing, Frame, Single, Ready, Quiet, NoneAlive, Alive, TypeOK
  <2>5. CASE ExecuteRefused
    BY <1>0, <2>5, KindFacts DEF ExecuteRefused, Frame, Single, Ready, Quiet, NoneAlive, Alive, TypeOK
  <2>6. CASE ExecuteStart
    BY <1>0, <2>6, Begins, KindFacts DEF ExecuteStart, Single, Ready, Alive, TypeOK
  <2>7. CASE Spawn
    <3>1. PICK w \in Workers :
            /\ worker[w] = NoWorker
            /\ \A v \in Workers : v # w => worker'[v] = worker[v]
      BY <1>0, <2>7, SpawnFrame
    <3>2. \A u, v \in Workers : Alive(u)' /\ Alive(v)' => u = v
      BY <1>0, <2>7, <3>1 DEF Spawn, Starting, Quiet, NoneAlive, Alive
    <3>3. ui.pc = "spawn" /\ ui.kind \in AllKinds
      BY <1>0, <2>7, KindFacts DEF Spawn, OfKinds
    <3>4. Ready \/ confirm_transfer_state \in {0, 1} => ui.kind \in Prompting \cup Installing
      BY <1>0, <3>3, KindFacts DEF Single, Starting, Ready
    <3>5. ui.kind \in Prompting \cup Installing => ui'.pc = "after" /\ ui'.kind = ui.kind
      BY <1>0, <2>7, <3>3 DEF Spawn, SpawnDone, TypeOK
    <3>6. UNCHANGED <<dialogVars, flagVars>>
      BY <2>7 DEF Spawn
    <3>7. QED  BY <1>0, <3>2, <3>3, <3>4, <3>5, <3>6 DEF Single, Ready
  <2>8. CASE SpawnFails
    BY <1>0, <2>8, KindFacts DEF SpawnFails, SpawnDone, Single, Starting, Ready, Quiet, NoneAlive, Alive, OfKinds, TypeOK
  <2>9. CASE ExecuteEnds
    BY <1>0, <2>9, KindFacts DEF ExecuteEnds, Single, Starting, Ready, Quiet, NoneAlive, Alive, TypeOK
  <2>10. QED
    BY <1>2, <2>1, <2>2, <2>3, <2>4, <2>5, <2>6, <2>7, <2>8, <2>9
       DEF UiStep, OpenMenu, MenuCancel, ChooseItem, ChooseDelete, AnswerNo, AnswerYes, TransferCancel,
           TransferContinue
<1>3. ASSUME UNCHANGED <<dialogVars, selected_action, ui, worker>>  PROVE Single'
  BY <1>0, <1>3 DEF Single, Ready, Quiet, NoneAlive, Alive
<1>4. QED  BY <1>1, <1>2, <1>3, HttpStays DEF Next

LEMMA StartingStep == ASSUME Calm, Inv, [Next]_vars  PROVE Starting'
<1> USE DEF dialogVars, flagVars, Rest
<1>0. /\ TypeOK /\ OfKinds /\ Single /\ Starting /\ Menu /\ Questions /\ worker \in [Workers -> WorkerState]
      /\ "NONE" \notin Kinds
  BY InvFacts, KindFacts
<1>1. ASSUME NEW w \in Workers, WorkerStep(w)  PROVE Starting'
  <2>1. /\ \A v \in Workers : v # w => worker[v] = NoWorker /\ worker'[v] = NoWorker
        /\ ui.pc # "spawn"
        /\ UNCHANGED <<ui, menu>>
    BY <1>1, WorkerAlone, WorkerKeeps
  <2>2. selected_action' \in AllKinds \ Prompting => selected_action' = selected_action
    BY <1>0, <1>1, KindFacts
       DEF WorkerStep, WorkerStart, BeginFile, SkipFile, AskUser, TakeAction, Unlock, SeeAnswer, Lock, Decide,
           FinishFile, LoopEnds, WorkerEnds, WorkerResumesUi, RestoreAction, WorkerRefreshes, Questions, Asked
  <2>3. worker'[w].kind \in {worker[w].kind, "NONE"}
    <3> USE DEF WorkerState
    <3>1. CASE WorkerStart(w) \/ SkipFile(w)
      BY <1>0, <3>1 DEF WorkerStart, SkipFile
    <3>2. CASE BeginFile(w)
      BY <1>0, <3>2 DEF BeginFile
    <3>3. CASE AskUser(w) \/ TakeAction(w) \/ Unlock(w) \/ SeeAnswer(w) \/ Lock(w) \/ RestoreAction(w)
      BY <1>0, <3>3 DEF AskUser, TakeAction, Unlock, SeeAnswer, Lock, RestoreAction, Go
    <3>4. CASE Decide(w) \/ LoopEnds(w) \/ WorkerEnds(w)
      BY <1>0, <3>4 DEF Decide, LoopEnds, WorkerEnds, Go
    <3>5. CASE FinishFile(w)
      BY <1>0, <3>5 DEF FinishFile
    <3>6. CASE WorkerResumesUi(w) \/ WorkerRefreshes(w)
      BY <1>0, <3>6 DEF WorkerResumesUi, WorkerRefreshes, NoWorker
    <3>7. QED  BY <1>1, <3>1, <3>2, <3>3, <3>4, <3>5, <3>6 DEF WorkerStep
  <2>4. \A v \in Workers : worker'[v].kind \in {worker[v].kind, "NONE"}
    BY <2>1, <2>3
  <2>5. QED  BY <1>0, <2>1, <2>2, <2>4, KindFacts DEF Starting
<1>2. CASE UiStep
  <2>1. CASE ui'.pc \notin {"spawn", "after"}
    BY <2>1 DEF Starting
  <2>2. CASE ExecuteStart
    <3>1. /\ Quiet /\ selected_action \in Kinds /\ ui'.pc = "spawn" /\ ui'.kind = selected_action
          /\ UNCHANGED <<menu, confirm_state, worker>> /\ activity_inprogess' = TRUE
          /\ selected_action' = IF selected_action \in Deleting \cup Zipping THEN "NONE" ELSE selected_action
      BY <1>0, <2>2, Begins DEF ExecuteStart, FlagOnStart, TypeOK
    <3>2. Quiet'
      BY <3>1 DEF Quiet, NoneAlive, Alive
    <3>3. QED  BY <3>1, <3>2 DEF Starting
  <2>3. CASE SpawnDone /\ ui.pc = "spawn" /\ UNCHANGED menu
    <3>1. ui.kind \in AllKinds /\ selected_action \in {"NONE", ui.kind} /\ ~menu
      BY <1>0, <2>3, KindFacts DEF Starting, OfKinds, Quiet
    <3>2. ui'.pc # "spawn" /\ (ui'.pc = "after" => ui'.kind = ui.kind /\ ui.kind \in Prompting \cup Installing)
      BY <1>0, <2>3 DEF SpawnDone, TypeOK
    <3>3. \A w \in Workers : worker[w].kind = "NONE"
      BY <1>0, <2>3 DEF Starting, Quiet, NoneAlive, OfKinds, NoWorker
    <3>4. CASE Spawn
      <4>1. \A w \in Workers : worker'[w].kind \in {"NONE", ui.kind}
        BY <1>0, <3>3, <3>4, SpawnFrame DEF NoWorker
      <4>2. UNCHANGED selected_action
        BY <3>4 DEF Spawn
      <4>3. QED  BY <2>3, <3>1, <3>2, <4>1, <4>2, KindFacts DEF Starting
    <3>5. CASE SpawnFails
      <4>1. UNCHANGED worker /\ selected_action' \in Refreshes \cup {selected_action}
        BY <3>5, KindFacts DEF SpawnFails
      <4>2. QED  BY <2>3, <3>1, <3>2, <3>3, <4>1, KindFacts DEF Starting
    <3>6. QED
      BY <1>2, <2>3, <3>4, <3>5
         DEF UiStep, UiInput, UiProgress, UiModal, UiCancel, UiNoInput, OpenMenu, MenuCancel, ChooseItem,
             ChooseDelete, AnswerNo, AnswerYes, TransferCancel, TransferContinue, ExecuteNothing, ExecuteRefused,
             ExecuteStart, ExecuteEnds
  <2>4. CASE UiProgress \/ ExecuteEnds \/ \E pc \in {"input", "progress", "dialogs", "execute"} : Frame(pc)
    BY <1>0, <2>1, <2>4 DEF UiProgress, ExecuteEnds, Frame, TypeOK
  <2>5. QED
    BY <1>2, <2>2, <2>3, <2>4
       DEF UiStep, UiInput, UiModal, UiCancel, UiNoInput, OpenMenu, MenuCancel, ChooseItem, ChooseDelete,
           AnswerNo, AnswerYes, TransferCancel, TransferContinue, ExecuteNothing, ExecuteRefused, Spawn,
           SpawnFails
<1>3. ASSUME (\E h \in Requests : HttpStep(h)) \/ UNCHANGED vars  PROVE Starting'
  <2>1. UNCHANGED <<dialogVars, selected_action, ui, worker>>
    BY <1>3, HttpStays
  <2>2. CASE UNCHANGED <<activity_inprogess, paused>>
    BY <1>0, <2>1, <2>2 DEF Starting, Quiet, NoneAlive, Alive
  <2>3. CASE NoneAlive /\ ui.pc # "spawn"
    BY <1>0, <2>1, <2>3 DEF Starting, Quiet, NoneAlive, Alive
  <2>4. QED  BY <1>3, <2>2, <2>3, HttpFlags
<1>4. QED  BY <1>1, <1>2, <1>3 DEF Next

LEMMA FlagStep == ASSUME Calm, Inv, [Next]_vars  PROVE Flag'
<1> USE DEF dialogVars, flagVars, Rest
<1>0. /\ TypeOK /\ OfKinds /\ Single /\ Starting /\ Flag /\ worker \in [Workers -> WorkerState]
  BY InvFacts
<1>1. ASSUME NEW w \in Workers, WorkerStep(w)  PROVE Flag'
  <2>1. \A v \in Workers : v # w => worker'[v].pc = "none"
    BY <1>1, WorkerAlone DEF NoWorker
  <2>2. worker'[w].pc \in Ends \cup {"spin", "lock"} \/ activity_inprogess' = TRUE
    <3> USE DEF WorkerState, Flag, Ends
    <3>1. CASE WorkerStart(w) \/ SkipFile(w)
      BY <1>0, <3>1 DEF WorkerStart, SkipFile, TypeOK
    <3>2. CASE BeginFile(w)
      BY <1>0, <3>2 DEF BeginFile, TypeOK
    <3>3. CASE AskUser(w) \/ TakeAction(w) \/ Unlock(w) \/ SeeAnswer(w) \/ Lock(w) \/ RestoreAction(w)
      BY <1>0, <3>3 DEF AskUser, TakeAction, Unlock, SeeAnswer, Lock, RestoreAction, Go, TypeOK
    <3>4. CASE Decide(w) \/ LoopEnds(w) \/ WorkerEnds(w)
      BY <1>0, <3>4 DEF Decide, LoopEnds, WorkerEnds, Go, TypeOK
    <3>5. CASE FinishFile(w)
      BY <1>0, <3>5, FinishKeeps DEF FinishFile, TypeOK
    <3>6. CASE WorkerResumesUi(w) \/ WorkerRefreshes(w)
      BY <1>0, <3>6 DEF WorkerResumesUi, WorkerRefreshes, NoWorker
    <3>7. QED  BY <1>1, <3>1, <3>2, <3>3, <3>4, <3>5, <3>6 DEF WorkerStep
  <2>3. QED  BY <2>1, <2>2 DEF Flag, Ends
<1>2. CASE UiStep
  <2>1. CASE Spawn
    BY <1>0, <2>1 DEF Spawn, Starting, Flag
  <2>2. CASE SpawnFails
    <3>1. \A w \in Workers : worker[w].pc = "none"
      BY <1>0, <2>2 DEF SpawnFails, Starting, Quiet, NoneAlive, Alive
    <3>2. QED  BY <2>2, <3>1 DEF SpawnFails, Flag, Ends
  <2>3. CASE UiCancel
    BY <1>0, <2>3, CancelFrame DEF UiCancel, Flag
  <2>4. CASE ExecuteStart
    BY <2>4 DEF ExecuteStart, FlagOnStart, Flag
  <2>5. CASE ~Spawn /\ ~SpawnFails /\ ~UiCancel /\ ~ExecuteStart
    <3>1. UNCHANGED <<worker, activity_inprogess>>
      BY <1>2, <2>5
         DEF UiStep, UiInput, UiProgress, UiModal, UiNoInput, OpenMenu, MenuCancel, ChooseItem, ChooseDelete,
             AnswerNo, AnswerYes, TransferCancel, TransferContinue, ExecuteNothing, ExecuteRefused, ExecuteEnds
    <3>2. QED  BY <1>0, <3>1 DEF Flag
  <2>6. QED  BY <2>1, <2>2, <2>3, <2>4, <2>5
<1>3. ASSUME (\E h \in Requests : HttpStep(h)) \/ UNCHANGED vars  PROVE Flag'
  <2>1. UNCHANGED <<worker>>
    BY <1>3, HttpStays
  <2>2. CASE UNCHANGED <<activity_inprogess, paused>>
    BY <1>0, <2>1, <2>2 DEF Flag
  <2>3. CASE NoneAlive /\ ui.pc # "spawn"
    BY <1>0, <2>1, <2>3 DEF Flag, NoneAlive, Alive, Ends
  <2>4. QED  BY <1>3, <2>2, <2>3, HttpFlags
<1>4. QED  BY <1>1, <1>2, <1>3 DEF Next

LEMMA MenuStep == ASSUME Calm, Inv, [Next]_vars  PROVE Menu'
<1> USE DEF dialogVars, flagVars, Rest
<1>0. /\ TypeOK /\ OfKinds /\ Single /\ Starting /\ Menu /\ worker \in [Workers -> WorkerState]
      /\ Prompting \cap Deleting = {}
  BY InvFacts, KindFacts
<1>1. ASSUME NEW w \in Workers, WorkerStep(w)  PROVE Menu'
  <2>1. /\ \A v \in Workers : v # w => worker'[v].pc = "none"
        /\ UNCHANGED <<ui, menu, confirm_transfer_state, stop_activity>>
    BY <1>1, WorkerAlone, WorkerKeeps DEF NoWorker
  <2>2. menu => confirm_state' # "WAIT"
    <3>1. CASE UNCHANGED confirm_state
      BY <1>0, <3>1 DEF Menu, Dialog
    <3>2. CASE BeginFile(w)
      BY <1>0, <3>2 DEF BeginFile, Menu, Dialog
    <3>3. CASE AskUser(w)
      BY <1>0, <3>3 DEF AskUser, Menu, Ends
    <3>4. QED
      BY <1>1, <3>1, <3>2, <3>3
         DEF WorkerStep, WorkerStart, SkipFile, TakeAction, Unlock, SeeAnswer, Lock, RestoreAction, Decide,
             FinishFile, LoopEnds, WorkerEnds, WorkerResumesUi, WorkerRefreshes
  <2>3. /\ (worker[w].pc \in Ends \/ (worker[w].pc \in {"loop", "write"} /\ stop_activity)) =>
             (worker'[w].pc \in Ends \/ (worker'[w].pc \in {"loop", "write"} /\ stop_activity))
        /\ worker[w].pc \in Ends => worker'[w].pc \in Ends
        /\ worker'[w].pc \in Ends \/ UNCHANGED paused
    <3> USE DEF WorkerState, Ends
    <3>1. CASE WorkerStart(w) \/ SkipFile(w)
      BY <1>0, <3>1 DEF WorkerStart, SkipFile
    <3>2. CASE BeginFile(w)
      <4>1. stop_activity => worker[w].kind \notin Prompting
        BY <1>0, <3>2 DEF BeginFile, HeedsStop, Deleting
      <4>2. QED  BY <1>0, <3>2, <4>1 DEF BeginFile
    <3>3. CASE AskUser(w) \/ TakeAction(w) \/ Unlock(w) \/ SeeAnswer(w) \/ Lock(w) \/ RestoreAction(w)
      BY <1>0, <3>3 DEF AskUser, TakeAction, Unlock, SeeAnswer, Lock, RestoreAction, Go
    <3>4. CASE Decide(w) \/ LoopEnds(w) \/ WorkerEnds(w)
      BY <1>0, <3>4 DEF Decide, LoopEnds, WorkerEnds, Go
    <3>5. CASE FinishFile(w)
      <4>1. UNCHANGED paused
        BY <3>5, FinishKeeps
      <4>2. worker[w].pc = "write" /\ worker'[w].pc = "loop"
        BY <1>0, <3>5 DEF FinishFile
      <4>3. QED  BY <4>1, <4>2
    <3>6. CASE WorkerResumesUi(w) \/ WorkerRefreshes(w)
      BY <1>0, <3>6 DEF WorkerResumesUi, WorkerRefreshes, NoWorker
    <3>7. QED  BY <1>1, <3>1, <3>2, <3>3, <3>4, <3>5, <3>6 DEF WorkerStep
  <2>4. QED  BY <1>0, <2>1, <2>2, <2>3 DEF Menu, Dialog, Ends
<1>2. CASE UiStep
  <2>1. CASE UiInput \/ UiNoInput
    BY <1>0, <2>1 DEF UiInput, UiNoInput, Frame, Menu, Dialog, TypeOK
  <2>2. CASE UiProgress
    BY <1>0, <2>2, InvFacts DEF UiProgress, Menu, Flag, Dialog, Ends, TypeOK
  <2>3. CASE UiModal
    BY <1>0, <2>3 DEF UiModal, Frame, Menu, TypeOK
  <2>4. CASE UiCancel
    BY <1>0, <2>4 DEF UiCancel, Frame, Menu, TypeOK
  <2>5. CASE OpenMenu
    <3>1. menu' = ~Dialog /\ UNCHANGED <<confirm_state, confirm_transfer_state, worker, stop_activity>>
          /\ ui'.pc = "execute"
      BY <1>0, <2>5 DEF OpenMenu, Frame, TypeOK
    <3>2. ~Dialog => \A w \in Workers : worker[w].pc = "none" \/ (worker[w].pc = "write" /\ stop_activity)
      BY <2>5, UserActs DEF OpenMenu
    <3>3. QED  BY <3>1, <3>2 DEF Menu, Dialog, Ends
  <2>6. CASE ui.pc = "dialogs" /\ ~menu' /\ Frame("execute")
    BY <1>0, <2>6 DEF Frame, Menu, TypeOK
  <2>7. CASE AnswerNo \/ AnswerYes \/ TransferCancel \/ TransferContinue
    <3>1. ~menu /\ UNCHANGED menu /\ ui.pc = "dialogs" /\ Frame("execute")
      BY <1>0, <2>7 DEF AnswerNo, AnswerYes, TransferCancel, TransferContinue, Menu, Dialog
    <3>2. QED  BY <2>6, <3>1
  <2>8. CASE ExecuteNothing \/ ExecuteRefused
    BY <1>0, <2>8 DEF ExecuteNothing, ExecuteRefused, Frame, Menu, Dialog, TypeOK
  <2>9. CASE ExecuteStart
    <3>1. ~menu /\ UNCHANGED menu /\ ui'.pc = "spawn"
      BY <1>0, <2>9, Begins DEF ExecuteStart, Quiet, TypeOK
    <3>2. QED  BY <3>1 DEF Menu
  <2>10. CASE (Spawn \/ SpawnFails) /\ SpawnDone
    <3>1. ~menu /\ UNCHANGED menu
      BY <1>0, <2>10 DEF Spawn, SpawnFails, Starting, Quiet
    <3>2. ui'.pc # "dialogs"
      BY <1>0, <2>10 DEF SpawnDone, TypeOK
    <3>3. QED  BY <3>1, <3>2 DEF Menu
  <2>11. CASE ExecuteEnds
    <3>1. ~menu /\ UNCHANGED menu /\ ui'.pc = "input"
      BY <1>0, <2>11 DEF ExecuteEnds, Starting, TypeOK
    <3>2. QED  BY <3>1 DEF Menu
  <2>12. QED
    BY <1>2, <2>1, <2>2, <2>3, <2>4, <2>5, <2>6, <2>7, <2>8, <2>9, <2>10, <2>11
       DEF UiStep, MenuCancel, ChooseItem, ChooseDelete, Spawn, SpawnFails
<1>3. ASSUME (\E h \in Requests : HttpStep(h)) \/ UNCHANGED vars  PROVE Menu'
  <2>1. UNCHANGED <<dialogVars, stop_activity, ui, worker>>
    BY <1>3, HttpStays
  <2>2. CASE UNCHANGED <<activity_inprogess, paused>>
    BY <1>0, <2>1, <2>2 DEF Menu, Dialog
  <2>3. CASE NoneAlive /\ ui.pc # "spawn"
    BY <1>0, <2>1, <2>3 DEF Menu, Dialog, NoneAlive, Alive, Ends
  <2>4. QED  BY <1>3, <2>2, <2>3, HttpFlags
<1>4. QED  BY <1>1, <1>2, <1>3 DEF Next

LEMMA QuestionsStep == ASSUME Calm, Inv, [Next]_vars  PROVE Questions'
<1> USE DEF dialogVars, flagVars, Rest
<1>0. /\ TypeOK /\ Named /\ OfKinds /\ Single /\ Starting /\ Menu /\ Questions
      /\ worker \in [Workers -> WorkerState]
      /\ "NONE" \notin Kinds \cup AllKinds
  BY InvFacts, KindFacts
<1>1. ASSUME NEW w \in Workers, WorkerStep(w)  PROVE Questions'
  <2>1. /\ \A v \in Workers : v # w => worker[v].pc = "none" /\ worker'[v].pc = "none"
        /\ Alive(w) /\ ~NoneAlive
        /\ UNCHANGED overwrite_type
        /\ Ready => ui.pc = "after"
    BY <1>1, WorkerAlone, WorkerKeeps DEF NoWorker
  <2>2. confirm_state = "WAIT" => worker[w].pc \in {"take", "unlock", "spin"}
    BY <1>0, <2>1 DEF Questions
  <2>3. CASE WorkerStart(w) \/ SkipFile(w) \/ FinishFile(w)
    <3>1. /\ UNCHANGED <<confirm_state, confirm_message, action_to_take>> /\ worker'[w].pc = "loop"
          /\ worker[w].pc \in {"start", "loop", "write"}
      <4>1. CASE WorkerStart(w)
        BY <1>0, <4>1 DEF WorkerStart, WorkerState
      <4>2. CASE SkipFile(w)
        BY <1>0, <4>2 DEF SkipFile, WorkerState
      <4>3. CASE FinishFile(w)
        BY <1>0, <4>3 DEF FinishFile, WorkerState
      <4>4. QED  BY <2>3, <4>1, <4>2, <4>3
    <3>2. QED  BY <2>1, <2>2, <3>1 DEF Questions, Asked
  <2>4. CASE BeginFile(w)
    <3>1. confirm_state # "WAIT" /\ confirm_state' # "WAIT"
      BY <2>2, <2>4 DEF BeginFile
    <3>2. worker'[w].pc \in {"write", "ask", "decide"} /\ worker'[w].file \in Files
          /\ (worker'[w].pc # "write" => worker'[w].kind \in Prompting)
          /\ (worker'[w].pc = "ask" => overwrite_type = "PROMPT")
      BY <1>0, <2>4 DEF BeginFile, NeedsQuestion, WorkerState
    <3>3. QED  BY <2>1, <3>1, <3>2 DEF Questions, Asked
  <2>5. CASE AskUser(w)
    <3>1. worker'[w] = [worker[w] EXCEPT !.pc = "take"] /\ worker[w].pc = "ask"
          /\ confirm_message' = worker[w].file
      BY <1>0, <2>5 DEF AskUser, Go
    <3>2. worker'[w].pc = "take" /\ worker'[w].file = worker[w].file /\ worker'[w].kind = worker[w].kind
      BY <1>0, <3>1 DEF WorkerState
    <3>3. worker[w].kind \in Prompting /\ worker[w].file \in Files /\ overwrite_type = "PROMPT"
      BY <1>0, <3>1 DEF Questions
    <3>4. QED  BY <2>1, <3>1, <3>2, <3>3, <2>5 DEF AskUser, Questions, Asked
  <2>6. CASE TakeAction(w)
    <3>1. worker[w].pc = "take" /\ worker[w].kind \in Prompting
      BY <1>0, <2>6 DEF TakeAction, Questions, Asked
    <3>2. overwrite_type = "PROMPT" /\ ~dont_prompt_overwrite
      BY <1>0, <3>1 DEF Questions, Asked, Single
    <3>3. selected_action \notin AllKinds \ Prompting
      <4> SUFFICES ASSUME selected_action \in AllKinds \ Prompting  PROVE FALSE
        OBVIOUS
      <4>1. ui.pc = "after"
        BY <2>1 DEF Ready
      <4>2. QED  BY <1>0, <3>1, <4>1 DEF Starting
    <3>4. worker'[w].pc = "unlock" /\ worker'[w].file = worker[w].file /\ worker'[w].kind = worker[w].kind
      BY <1>0, <2>6 DEF TakeAction, Go, WorkerState
    <3>5. QED  BY <1>0, <2>1, <2>6, <3>1, <3>2, <3>3, <3>4 DEF TakeAction, Questions, Asked
  <2>7. CASE Unlock(w) \/ SeeAnswer(w) \/ Lock(w) \/ RestoreAction(w)
    <3>1. /\ worker[w].pc \in {"unlock", "spin", "lock", "restore"}
          /\ worker'[w].file = worker[w].file /\ worker'[w].kind = worker[w].kind
          /\ worker'[w].pc \in {"spin", "lock", "restore", "decide"}
          /\ confirm_state = "WAIT" => worker'[w].pc = "spin"
          /\ UNCHANGED <<confirm_state, confirm_message, action_to_take>>
      <4>1. CASE Unlock(w)
        BY <1>0, <4>1 DEF Unlock, Go, WorkerState
      <4>2. CASE SeeAnswer(w)
        BY <1>0, <4>2 DEF SeeAnswer, Go, WorkerState
      <4>3. CASE Lock(w) \/ RestoreAction(w)
        BY <1>0, <2>2, <4>3 DEF Lock, RestoreAction, Go, WorkerState
      <4>4. QED  BY <2>7, <4>1, <4>2, <4>3
    <3>2. QED  BY <1>0, <2>1, <3>1 DEF Questions, Asked
  <2>8. CASE Decide(w) \/ LoopEnds(w) \/ WorkerEnds(w) \/ WorkerResumesUi(w) \/ WorkerRefreshes(w)
    <3>1. /\ worker[w].pc \in {"decide", "loop", "flag", "resume", "refresh"}
          /\ worker'[w].pc \notin Asked \cup {"ask", "decide"}
          /\ UNCHANGED <<confirm_state, confirm_message, action_to_take>>
      <4>1. CASE Decide(w) \/ LoopEnds(w) \/ WorkerEnds(w)
        BY <1>0, <4>1 DEF Decide, LoopEnds, WorkerEnds, Go, WorkerState, Asked
      <4>2. CASE WorkerResumesUi(w) \/ WorkerRefreshes(w)
        BY <1>0, <4>2 DEF WorkerResumesUi, WorkerRefreshes, NoWorker, WorkerState, Asked
      <4>3. QED  BY <2>8, <4>1, <4>2
    <3>2. QED  BY <2>1, <2>2, <3>1 DEF Questions, Asked
  <2>9. QED  BY <1>1, <2>3, <2>4, <2>5, <2>6, <2>7, <2>8 DEF WorkerStep
<1>2. CASE UiStep
  <2>1. CASE UiCancel
    <3>1. UNCHANGED <<confirm_state, confirm_message, action_to_take, overwrite_type>>
      BY <2>1 DEF UiCancel
    <3>2. NoneAlive => NoneAlive'
      BY <1>0, <2>1, CancelFrame DEF NoneAlive, Alive
    <3>3. QED  BY <1>0, <2>1, <3>1, <3>2, CancelFrame DEF Questions
  <2>2. CASE Spawn
    <3>1. UNCHANGED <<confirm_state, confirm_message, action_to_take, overwrite_type>> /\ confirm_state # "WAIT"
      BY <1>0, <2>2 DEF Spawn, Starting, Quiet
    <3>2. \A w \in Workers : worker'[w].pc \in {"none", "start"}
      BY <1>0, <2>2, SpawnFrame DEF Spawn, Starting, Quiet, NoneAlive, Alive, NoWorker
    <3>3. QED  BY <3>1, <3>2 DEF Questions, Asked
  <2>3. ASSUME NEW k \in Kinds, ChooseDelete(k)  PROVE Questions'
    <3>1. NoneAlive /\ UNCHANGED worker
      BY <2>3, UserActs DEF ChooseDelete
    <3>2. QED  BY <2>3, <3>1 DEF ChooseDelete, Questions, NoneAlive, Alive, Asked
  <2>4. CASE AnswerNo \/ AnswerYes
    <3>1. /\ confirm_state' # "WAIT"
          /\ UNCHANGED <<worker, confirm_message, action_to_take, overwrite_type>>
      BY <2>4 DEF AnswerNo, AnswerYes
    <3>2. \A w \in Workers : worker[w].pc \notin {"take", "unlock"}
      BY <2>4, UserActs DEF AnswerNo, AnswerYes
    <3>3. QED  BY <1>0, <3>1, <3>2 DEF Questions
  <2>5. CASE TransferCancel \/ TransferContinue
    <3>1. Quiet /\ UNCHANGED <<worker, confirm_state>>
      BY <2>5, InDialogs DEF TransferCancel, TransferContinue
    <3>2. QED  BY <3>1 DEF Questions, Quiet, NoneAlive, Alive, Asked
  <2>6. CASE /\ ~UiCancel /\ ~Spawn /\ ~AnswerNo /\ ~AnswerYes /\ ~TransferCancel /\ ~TransferContinue
             /\ \A k \in Kinds : ~ChooseDelete(k)
    <3>1. UNCHANGED <<confirm_state, confirm_message, action_to_take, overwrite_type, worker>>
      BY <1>2, <2>6
         DEF UiStep, UiInput, UiProgress, UiModal, UiNoInput, OpenMenu, MenuCancel, ChooseItem, ExecuteNothing,
             ExecuteRefused, ExecuteStart, SpawnFails, ExecuteEnds
    <3>2. QED  BY <1>0, <3>1 DEF Questions, NoneAlive, Alive
  <2>7. QED  BY <2>1, <2>2, <2>3, <2>4, <2>5, <2>6
<1>3. ASSUME UNCHANGED <<dialogVars, ui, worker>>  PROVE Questions'
  BY <1>0, <1>3 DEF Questions, NoneAlive, Alive
<1>4. QED  BY <1>1, <1>2, <1>3, HttpStays DEF Next

LEMMA ConsentedStep == ASSUME Calm, Inv, [Next]_vars  PROVE Consented'
<1> USE DEF dialogVars, flagVars, Rest
<1>0. /\ TypeOK /\ Single /\ Starting /\ Questions /\ Consented /\ worker \in [Workers -> WorkerState]
      /\ "delete" \notin Files
  BY InvFacts, ActivityAssumption
<1>1. ASSUME NEW w \in Workers, WorkerStep(w)  PROVE Consented'
  <2>1. /\ \A v \in Workers : v # w => worker'[v].pc = "none"
        /\ UNCHANGED <<overwrite_type, agreed>>
    BY <1>1, WorkerAlone, WorkerKeeps DEF NoWorker
  <2>2. CASE BeginFile(w)
    <3>1. PICK f \in worker[w].left :
            /\ worker'[w].file = f /\ worker'[w].kind = worker[w].kind
            /\ worker'[w].pc = IF worker[w].kind \notin Prompting THEN "write"
                               ELSE IF NeedsQuestion(f) THEN "ask" ELSE "decide"
            /\ confirm_state' = IF worker[w].kind \notin Prompting \/ NeedsQuestion(f) THEN confirm_state
                                ELSE IF overwrite_type = "NONE" /\ f \in existing THEN "NO" ELSE "YES"
      BY <1>0, <2>2 DEF BeginFile, WorkerState
    <3>2. overwrite_type \in {"NONE", "PROMPT", "ALL"} /\ UNCHANGED existing
      BY <1>0, <2>2 DEF BeginFile, TypeOK
    <3>3. worker'[w].pc = "decide" /\ confirm_state' = "YES" => f \notin existing \/ overwrite_type = "ALL"
      BY <3>1, <3>2 DEF NeedsQuestion
    <3>4. worker'[w].pc \in {"write", "ask", "decide"} /\ (worker'[w].pc = "write" => worker'[w].kind \notin Prompting)
      BY <3>1
    <3>5. QED  BY <2>1, <3>1, <3>2, <3>3, <3>4 DEF Consented, Consent
  <2>3. CASE Unlock(w) \/ SeeAnswer(w) \/ Lock(w) \/ RestoreAction(w) \/ Decide(w)
    <3>1. UNCHANGED <<confirm_state, existing>> /\ worker'[w].file = worker[w].file /\ worker'[w].kind = worker[w].kind
      BY <1>0, <2>3 DEF Unlock, SeeAnswer, Lock, RestoreAction, Decide, Go, WorkerState
    <3>2. CASE worker[w].pc \in {"spin", "lock", "restore", "decide"}
      <4>1. worker'[w].pc = "write" => confirm_state = "YES"
        BY <1>0, <2>3 DEF Unlock, SeeAnswer, Lock, RestoreAction, Decide, Go, WorkerState
      <4>2. QED  BY <1>0, <2>1, <3>1, <3>2, <4>1 DEF Consented, Consent
    <3>3. CASE Unlock(w)
      <4>1. confirm_state = "WAIT" /\ worker'[w].pc = "spin"
        BY <1>0, <3>3 DEF Unlock, Go, WorkerState, Questions
      <4>2. QED  BY <2>1, <3>1, <4>1 DEF Consented
    <3>4. QED  BY <2>3, <3>2, <3>3 DEF SeeAnswer, Lock, RestoreAction, Decide
  <2>4. CASE worker'[w].pc \notin {"spin", "lock", "restore", "decide", "write"}
    BY <2>1, <2>4 DEF Consented
  <2>5. CASE WorkerStart(w) \/ SkipFile(w) \/ FinishFile(w) \/ WorkerResumesUi(w) \/ WorkerRefreshes(w)
    <3>1. CASE WorkerStart(w) \/ SkipFile(w)
      BY <1>0, <2>4, <3>1 DEF WorkerStart, SkipFile, WorkerState
    <3>2. CASE FinishFile(w)
      BY <1>0, <2>4, <3>2 DEF FinishFile, WorkerState
    <3>3. CASE WorkerResumesUi(w) \/ WorkerRefreshes(w)
      BY <1>0, <2>4, <3>3 DEF WorkerResumesUi, WorkerRefreshes, NoWorker, WorkerState
    <3>4. QED  BY <2>5, <3>1, <3>2, <3>3
  <2>6. CASE AskUser(w) \/ TakeAction(w) \/ LoopEnds(w) \/ WorkerEnds(w)
    BY <1>0, <2>4, <2>6 DEF AskUser, TakeAction, LoopEnds, WorkerEnds, Go, WorkerState
  <2>7. QED  BY <1>1, <2>2, <2>3, <2>5, <2>6 DEF WorkerStep
<1>2. CASE UiStep
  <2>1. CASE UiCancel
    <3>1. UNCHANGED <<confirm_state, existing, overwrite_type, agreed>>
      BY <2>1 DEF UiCancel
    <3>2. QED  BY <1>0, <2>1, <3>1, CancelFrame DEF Consented, Consent
  <2>2. CASE Spawn
    <3>1. \A w \in Workers : worker'[w].pc \in {"none", "start"}
      BY <1>0, <2>2, SpawnFrame DEF Spawn, Starting, Quiet, NoneAlive, Alive, NoWorker
    <3>2. QED  BY <3>1 DEF Consented
  <2>3. CASE AnswerYes
    <3>1. confirm_state = "WAIT" /\ UNCHANGED worker
      BY <2>3 DEF AnswerYes
    <3>2. \A w \in Workers : worker[w].pc \in {"none", "spin", "write"}
      BY <2>3, UserActs DEF AnswerYes
    <3>3. ASSUME NEW w \in Workers  PROVE worker[w].pc # "write"
      <4>1. worker[w].pc = "write" => \E v \in Workers : worker[v].pc = "spin"
        BY <1>0, <3>1, <3>2 DEF Questions, NoneAlive, Alive
      <4>2. QED  BY <1>0, <4>1 DEF Single, Alive
    <3>4. ASSUME NEW w \in Workers, worker[w].pc = "spin"  PROVE agreed'.overwrite = worker[w].file
      <4>1. confirm_message = worker[w].file /\ confirm_message # "delete"
        BY <1>0, <3>4 DEF Questions, Asked
      <4>2. agreed' = [agreed EXCEPT !.overwrite = confirm_message]
        BY <2>3, <4>1 DEF AnswerYes
      <4>3. QED  BY <1>0, <4>1, <4>2 DEF TypeOK
    <3>5. QED  BY <3>1, <3>2, <3>3, <3>4 DEF Consented, Consent
  <2>4. CASE TransferCancel \/ TransferContinue
    <3>1. NoneAlive /\ UNCHANGED worker
      BY <2>4, InDialogs DEF TransferCancel, TransferContinue, Quiet
    <3>2. QED  BY <3>1 DEF Consented, NoneAlive, Alive
  <2>5. CASE ~UiCancel /\ ~Spawn /\ ~AnswerYes /\ ~TransferCancel /\ ~TransferContinue
    <3>1. /\ UNCHANGED <<existing, overwrite_type, worker>>
          /\ confirm_state' \in {confirm_state, "NO", "WAIT"}
          /\ agreed' \in {agreed, [agreed EXCEPT !.delete = {}]}
      BY <1>2, <2>5
         DEF UiStep, UiInput, UiProgress, UiModal, UiNoInput, OpenMenu, MenuCancel, ChooseItem, ChooseDelete,
             AnswerNo, ExecuteNothing, ExecuteRefused, ExecuteStart, SpawnFails, ExecuteEnds
    <3>2. agreed'.overwrite = agreed.overwrite
      BY <1>0, <3>1 DEF TypeOK
    <3>3. QED  BY <1>0, <3>1, <3>2 DEF Consented, Consent
  <2>6. QED  BY <2>1, <2>2, <2>3, <2>4, <2>5
<1>3. ASSUME UNCHANGED <<dialogVars, existing, agreed, worker>>  PROVE Consented'
  BY <1>0, <1>3 DEF Consented, Consent
<1>4. QED  BY <1>1, <1>2, <1>3, HttpStays DEF Next

LEMMA ChosenStep == ASSUME Calm, Inv, [Next]_vars  PROVE Chosen'
<1> USE DEF dialogVars, flagVars, Rest
<1>0. /\ TypeOK /\ OfKinds /\ Single /\ Starting /\ Questions /\ Chosen /\ DeleteConsented
      /\ worker \in [Workers -> WorkerState]
      /\ Deleting \subseteq AllKinds \ Prompting /\ Pasting \cap Deleting = {} /\ Deleting \cap Refreshes = {}
      /\ "NONE" \notin Deleting
  BY InvFacts, KindFacts DEF Chosen
<1>1. ASSUME NEW w \in Workers, WorkerStep(w)  PROVE Chosen'
  <2>1. /\ \A v \in Workers : v # w => worker'[v].pc = "none"
        /\ UNCHANGED <<ui, agreed>>
        /\ ui.pc # "spawn"
        /\ Ready => ui.pc = "after"
    BY <1>1, WorkerAlone, WorkerKeeps DEF NoWorker
  <2>2. selected_action' \in Deleting => selected_action' = selected_action
    BY <1>0, <1>1, KindFacts
       DEF WorkerStep, WorkerStart, BeginFile, SkipFile, AskUser, TakeAction, Unlock, SeeAnswer, Lock, Decide,
           FinishFile, LoopEnds, WorkerEnds, WorkerResumesUi, RestoreAction, WorkerRefreshes, Questions, Asked
  <2>3. ~(ui'.pc = "execute" /\ selected_action' \in Deleting)
    BY <1>0, <2>1, <2>2 DEF Ready
  <2>4. /\ worker'[w].pc # "start"
        /\ worker'[w].kind \in Deleting /\ worker'[w].pc \in {"loop", "write"} =>
             worker'[w].left \cup (IF worker'[w].pc = "write" THEN {worker'[w].file} ELSE {})
               \subseteq worker'[w].allowed
    <3> USE DEF WorkerState, DeleteConsented
    <3>1. CASE WorkerStart(w)
      <4>1. worker[w].kind \in Deleting => worker[w].allowed = selected
        BY <1>0, <3>1 DEF Chosen, WorkerStart
      <4>2. QED  BY <1>0, <3>1, <4>1 DEF WorkerStart
    <3>2. CASE BeginFile(w)
      BY <1>0, <3>2 DEF BeginFile
    <3>3. CASE SkipFile(w)
      BY <1>0, <3>3 DEF SkipFile
    <3>4. CASE AskUser(w) \/ TakeAction(w) \/ Unlock(w) \/ SeeAnswer(w) \/ Lock(w) \/ RestoreAction(w)
      BY <1>0, <3>4 DEF AskUser, TakeAction, Unlock, SeeAnswer, Lock, RestoreAction, Go
    <3>5. CASE Decide(w) \/ LoopEnds(w) \/ WorkerEnds(w)
      <4>1. worker[w].pc = "decide" => worker[w].kind \notin Deleting
        BY <1>0 DEF Questions
      <4>2. QED  BY <1>0, <3>5, <4>1 DEF Decide, LoopEnds, WorkerEnds, Go
    <3>6. CASE FinishFile(w)
      <4>1. PICK ok \in BOOLEAN : \E rest \in LeftAfter(w, ok) :
              worker' = [worker EXCEPT ![w].pc = "loop", ![w].left = rest, ![w].file = "none"]
        BY <3>6 DEF FinishFile
      <4>2. PICK rest \in LeftAfter(w, ok) :
              worker' = [worker EXCEPT ![w].pc = "loop", ![w].left = rest, ![w].file = "none"]
        BY <4>1
      <4>3. rest \subseteq worker[w].left /\ worker[w].pc = "write"
        BY <3>6, <4>2 DEF LeftAfter, FinishFile
      <4>4. QED  BY <1>0, <4>2, <4>3
    <3>7. CASE WorkerResumesUi(w) \/ WorkerRefreshes(w)
      BY <1>0, <3>7 DEF WorkerResumesUi, WorkerRefreshes, NoWorker
    <3>8. QED  BY <1>1, <3>1, <3>2, <3>3, <3>4, <3>5, <3>6, <3>7 DEF WorkerStep
  <2>5. DeleteConsented'
    BY <2>1, <2>4 DEF DeleteConsented
  <2>6. QED  BY <2>1, <2>3, <2>4, <2>5 DEF Chosen
<1>2. CASE UiStep
  <2>1. CASE UiInput
    <3>1. UNCHANGED worker /\ ui'.pc = "progress"
          /\ (UNCHANGED selected \/ \A w \in Workers : worker[w].pc # "start")
      BY <1>0, <2>1, UserActs DEF UiInput, Frame, TypeOK
    <3>2. QED  BY <1>0, <3>1 DEF Chosen, DeleteConsented
  <2>2. CASE UiCancel
    <3>1. UNCHANGED selected /\ ui'.pc = "dialogs"
      BY <1>0, <2>2 DEF UiCancel, Frame, TypeOK
    <3>2. DeleteConsented'
      BY <1>0, <2>2, CancelFrame DEF DeleteConsented
    <3>3. QED  BY <1>0, <2>2, <3>1, <3>2, CancelFrame DEF Chosen
  <2>3. CASE ui.pc = "dialogs" /\ UiStep
    <3>1. UNCHANGED <<selected, worker>> /\ ui'.pc \notin {"spawn"}
      BY <1>0, <2>3
         DEF UiStep, UiInput, UiProgress, UiModal, UiCancel, UiNoInput, OpenMenu, MenuCancel, ChooseItem,
             ChooseDelete, AnswerNo, AnswerYes, TransferCancel, TransferContinue, ExecuteNothing, ExecuteRefused,
             ExecuteStart, Spawn, SpawnFails, ExecuteEnds, Frame, TypeOK
    <3>2. selected_action \notin Deleting
      BY <1>0, <2>3, InDialogs DEF Ready
    <3>3. CASE AnswerYes
      <4>1. action_to_take \in Deleting => confirm_message = "delete"
        <5>1. (\E w \in Workers : worker[w].pc = "spin") => action_to_take \notin Deleting
          BY <1>0 DEF Questions, Asked
        <5>2. QED  BY <1>0, <3>3, <5>1, UserActs DEF AnswerYes, Questions
      <4>2. selected_action' \in Deleting => agreed'.delete = selected
        BY <1>0, <3>3, <4>1 DEF AnswerYes, TypeOK
      <4>3. QED  BY <1>0, <3>1, <4>2 DEF Chosen, DeleteConsented
    <3>4. CASE ~AnswerYes
      <4>1. selected_action' \notin Deleting
        BY <1>0, <2>3, <3>2, <3>4
           DEF UiStep, UiInput, UiProgress, UiModal, UiCancel, UiNoInput, OpenMenu, MenuCancel, ChooseItem,
               ChooseDelete, AnswerNo, AfterNo, TransferCancel, TransferContinue, ExecuteNothing, ExecuteRefused,
               ExecuteStart, Spawn, SpawnFails, ExecuteEnds
      <4>2. QED  BY <1>0, <3>1, <4>1 DEF Chosen, DeleteConsented
    <3>5. QED  BY <3>3, <3>4
  <2>4. CASE ExecuteStart
    <3>1. UNCHANGED <<selected, worker, agreed>> /\ ui'.pc = "spawn" /\ ui'.kind = selected_action /\ ui.pc = "execute"
      BY <1>0, <2>4 DEF ExecuteStart, TypeOK
    <3>2. QED  BY <1>0, <3>1 DEF Chosen, DeleteConsented
  <2>5. CASE Spawn
    <3>1. UNCHANGED selected /\ ui'.pc \notin {"execute", "spawn"} /\ ui.pc = "spawn"
      BY <1>0, <2>5 DEF Spawn, SpawnDone, TypeOK
    <3>2. PICK w \in Workers :
            /\ worker[w] = NoWorker
            /\ worker'[w] = [NoWorker EXCEPT !.pc = "start", !.kind = ui.kind, !.allowed = agreed.delete]
            /\ \A v \in Workers : v # w => worker'[v] = worker[v]
      BY <1>0, <2>5, SpawnFrame
    <3>3. worker'[w].pc = "start" /\ worker'[w].kind = ui.kind /\ worker'[w].allowed = agreed.delete
      BY <3>2 DEF NoWorker
    <3>4. DeleteConsented'
      BY <1>0, <3>2, <3>3 DEF DeleteConsented
    <3>5. QED  BY <1>0, <3>1, <3>2, <3>3, <3>4 DEF Chosen
  <2>6. CASE SpawnFails
    <3>1. \A w \in Workers : worker[w].pc = "none" /\ worker'[w].pc = "none"
      BY <1>0, <2>6 DEF SpawnFails, Starting, Quiet, NoneAlive, Alive
    <3>2. ui'.pc \notin {"execute", "spawn"}
      BY <1>0, <2>6 DEF SpawnFails, SpawnDone, TypeOK
    <3>3. QED  BY <3>1, <3>2 DEF Chosen, DeleteConsented
  <2>7. CASE UiProgress \/ UiModal \/ ExecuteNothing \/ ExecuteRefused \/ ExecuteEnds
    <3>1. UNCHANGED <<selected, worker>> /\ ui'.pc \notin {"execute", "spawn"}
      <4>1. CASE UiProgress \/ ExecuteEnds
        BY <1>0, <4>1 DEF UiProgress, ExecuteEnds, TypeOK
      <4>2. CASE UiModal \/ ExecuteNothing \/ ExecuteRefused
        BY <1>0, <4>2 DEF UiModal, ExecuteNothing, ExecuteRefused, Frame, TypeOK
      <4>3. QED  BY <2>7, <4>1, <4>2
    <3>2. QED  BY <1>0, <3>1 DEF Chosen, DeleteConsented
  <2>8. QED
    BY <1>2, <2>1, <2>2, <2>3, <2>4, <2>5, <2>6, <2>7
       DEF UiStep, UiNoInput, OpenMenu, MenuCancel, ChooseItem, ChooseDelete, AnswerNo, AnswerYes,
           TransferCancel, TransferContinue
<1>3. ASSUME UNCHANGED <<selected_action, selected, ui, agreed, worker>>  PROVE Chosen'
  BY <1>0, <1>3 DEF Chosen, DeleteConsented
<1>4. QED  BY <1>1, <1>2, <1>3, HttpStays DEF Next

LEMMA CancelsStep == ASSUME Calm, Inv, [Next]_vars  PROVE Cancels'
<1> USE DEF dialogVars, flagVars, Rest
<1>0. /\ TypeOK /\ OfKinds /\ Cancels /\ worker \in [Workers -> WorkerState]
  BY InvFacts
<1>1. ASSUME NEW w \in Workers, WorkerStep(w)  PROVE Cancels'
  <2>1. /\ \A v \in Workers : v # w => worker'[v] = worker[v]
        /\ UNCHANGED stop_activity
    BY <1>0, <1>1, WorkerFrame, WorkerKeeps
  <2>2. worker'[w].cancelled => worker[w].cancelled
    <3> USE DEF WorkerState
    <3>1. CASE WorkerStart(w) \/ SkipFile(w) \/ BeginFile(w)
      <4>1. worker'[w].cancelled = worker[w].cancelled
        <5>1. CASE WorkerStart(w)
          BY <1>0, <5>1 DEF WorkerStart
        <5>2. CASE SkipFile(w)
          BY <1>0, <5>2 DEF SkipFile
        <5>3. CASE BeginFile(w)
          BY <1>0, <5>3 DEF BeginFile
        <5>4. QED  BY <3>1, <5>1, <5>2, <5>3
      <4>2. QED  BY <4>1
    <3>2. CASE \E pc : Go(w, pc)
      BY <1>0, <3>2 DEF Go
    <3>3. CASE FinishFile(w)
      BY <1>0, <3>3 DEF FinishFile
    <3>4. CASE WorkerResumesUi(w) \/ WorkerRefreshes(w)
      BY <1>0, <3>4 DEF WorkerResumesUi, WorkerRefreshes, NoWorker
    <3>5. QED
      BY <1>1, <3>1, <3>2, <3>3, <3>4
         DEF WorkerStep, AskUser, TakeAction, Unlock, SeeAnswer, Lock, RestoreAction, Decide, LoopEnds, WorkerEnds
  <2>3. worker'[w].late => worker'[w].kind = "DELETE_REMOTE"
    <3> USE DEF WorkerState, Cancels
    <3>1. CASE WorkerStart(w) \/ SkipFile(w)
      BY <1>0, <3>1 DEF WorkerStart, SkipFile
    <3>2. CASE BeginFile(w)
      BY <1>0, <3>2 DEF BeginFile, HeedsStop
    <3>3. CASE \E pc : Go(w, pc)
      BY <1>0, <3>3 DEF Go
    <3>4. CASE FinishFile(w)
      BY <1>0, <3>4 DEF FinishFile
    <3>5. CASE WorkerResumesUi(w) \/ WorkerRefreshes(w)
      BY <1>0, <3>5 DEF WorkerResumesUi, WorkerRefreshes, NoWorker
    <3>6. QED
      BY <1>1, <3>1, <3>2, <3>3, <3>4, <3>5
         DEF WorkerStep, AskUser, TakeAction, Unlock, SeeAnswer, Lock, RestoreAction, Decide, LoopEnds, WorkerEnds
  <2>4. QED  BY <1>0, <2>1, <2>2, <2>3 DEF Cancels
<1>2. CASE UiStep
  <2>1. CASE UiCancel
    BY <1>0, <2>1, CancelFrame DEF UiCancel, Cancels
  <2>2. CASE Spawn
    <3>1. \A w \in Workers : worker'[w] = worker[w] \/ (~worker'[w].cancelled /\ ~worker'[w].late)
      BY <1>0, <2>2, SpawnFrame DEF NoWorker
    <3>2. QED  BY <1>0, <2>2, <3>1 DEF Spawn, Cancels
  <2>3. CASE ExecuteStart
    <3>1. \A w \in Workers : ~worker[w].cancelled /\ ~worker[w].late
      BY <2>3, Begins DEF ExecuteStart, NoWorker
    <3>2. QED  BY <2>3, <3>1 DEF ExecuteStart, Cancels
  <2>4. CASE ~UiCancel /\ ~Spawn /\ ~ExecuteStart
    <3>1. UNCHANGED <<worker, stop_activity>>
      BY <1>2, <2>4
         DEF UiStep, UiInput, UiProgress, UiModal, UiNoInput, OpenMenu, MenuCancel, ChooseItem, ChooseDelete,
             AnswerNo, AnswerYes, TransferCancel, TransferContinue, ExecuteNothing, ExecuteRefused, SpawnFails,
             ExecuteEnds
    <3>2. QED  BY <1>0, <3>1 DEF Cancels
  <2>5. QED  BY <2>1, <2>2, <2>3, <2>4
<1>3. ASSUME UNCHANGED <<stop_activity, worker>>  PROVE Cancels'
  BY <1>0, <1>3 DEF Cancels
<1>4. QED  BY <1>1, <1>2, <1>3, HttpStays DEF Next

(* What else leaves the requests alone. *)
LEMMA OthersKeep == UiStep \/ (\E w \in Workers : WorkerStep(w)) => UNCHANGED http
BY DEF UiStep, UiInput, UiProgress, UiModal, UiCancel, UiNoInput, OpenMenu, MenuCancel, ChooseItem,
       ChooseDelete, AnswerNo, AnswerYes, TransferCancel, TransferContinue, ExecuteNothing, ExecuteRefused,
       ExecuteStart, Spawn, SpawnFails, ExecuteEnds, Rest, WorkerStep, WorkerStart, BeginFile, SkipFile,
       AskUser, TakeAction, Unlock, SeeAnswer, Lock, RestoreAction, Decide, FinishFile, LoopEnds,
       WorkerEnds, WorkerResumesUi, WorkerRefreshes

LEMMA ApartStep == ASSUME Calm, Inv, [Next]_vars  PROVE Apart'
<1> USE DEF dialogVars, flagVars, Rest
<1>0. TypeOK /\ Starting /\ Menu /\ Apart /\ worker \in [Workers -> WorkerState]
  BY InvFacts
<1>1. ASSUME NEW w \in Workers, WorkerStep(w)  PROVE Apart'
  <2>1. UNCHANGED http /\ \A h \in Requests : ~Installs(h)
    BY <1>0, <1>1, WorkerAlone, OthersKeep DEF Apart, Undisturbing
  <2>2. QED  BY <2>1 DEF Apart, Installs
<1>2. CASE UiStep
  <2>1. UNCHANGED http
    BY <1>2, OthersKeep
  <2>2. ASSUME NEW h \in Requests, Installs(h)
        PROVE  Undisturbing' /\ (http[h] \in {"raised", "installing"} => activity_inprogess')
    <3>1. Undisturbing /\ (http[h] \in {"raised", "installing"} => activity_inprogess)
      BY <1>0, <2>2 DEF Apart
    <3>2. ASSUME MayAct, ui.pc = "dialogs"  PROVE ~menu
      <4>1. http[h] \in {"raised", "installing"}
        BY <1>0, <2>2, <3>2 DEF Calm, MayAct, Installs, TypeOK, HttpState
      <4>2. ui.progress
        BY <3>1, <3>2, <4>1 DEF Calm, MayAct
      <4>3. QED  BY <1>0, <3>2, <4>2 DEF Menu
    <3>3. CASE UiInput \/ UiProgress \/ UiModal
      BY <1>0, <3>1, <3>3 DEF UiInput, UiProgress, UiModal, Frame, TypeOK, Undisturbing, NoneAlive, Alive, Dialog
    <3>4. CASE UiCancel
      BY <1>0, <3>1, <3>4, CancelFrame DEF UiCancel, Frame, TypeOK, Undisturbing, NoneAlive, Alive, Dialog
    <3>5. CASE UiNoInput \/ OpenMenu \/ MenuCancel
      <4>1. ~Ready /\ ui.pc = "dialogs"
        BY <3>5, InDialogs DEF UiNoInput, OpenMenu, MenuCancel
      <4>2. ~Ready'
        BY <3>5, <4>1 DEF UiNoInput, OpenMenu, MenuCancel, Ready
      <4>3. ui'.pc = "execute"
        BY <1>0, <3>5 DEF UiNoInput, OpenMenu, MenuCancel, Frame, TypeOK
      <4>4. UNCHANGED <<worker, confirm_state, confirm_transfer_state, activity_inprogess>>
        BY <3>5 DEF UiNoInput, OpenMenu, MenuCancel
      <4>5. QED  BY <3>1, <4>2, <4>3, <4>4 DEF Undisturbing, NoneAlive, Alive, Dialog
    <3>6. CASE \E k \in Kinds : ChooseItem(k) \/ ChooseDelete(k)
      BY <3>2, <3>6 DEF ChooseItem, ChooseDelete
    <3>7. CASE AnswerNo \/ AnswerYes \/ TransferCancel \/ TransferContinue
      BY <3>1, <3>7 DEF AnswerNo, AnswerYes, TransferCancel, TransferContinue, Undisturbing, Dialog
    <3>8. CASE ExecuteNothing \/ ExecuteRefused
      BY <1>0, <3>1, <3>8
         DEF ExecuteNothing, ExecuteRefused, Frame, TypeOK, Undisturbing, NoneAlive, Alive, Dialog
    <3>9. CASE ExecuteStart \/ Spawn \/ SpawnFails
      BY <3>1, <3>9 DEF ExecuteStart, Spawn, SpawnFails, Undisturbing
    <3>10. CASE ExecuteEnds
      BY <1>0, <3>1, <3>10 DEF ExecuteEnds, TypeOK, Undisturbing, NoneAlive, Alive, Dialog
    <3>11. QED
      BY <1>2, <3>3, <3>4, <3>5, <3>6, <3>7, <3>8, <3>9, <3>10 DEF UiStep
  <2>3. QED  BY <1>0, <2>1, <2>2 DEF Apart, Installs
<1>3. ASSUME NEW h \in Requests, HttpStep(h)  PROVE Apart'
  <2>1. /\ \A g \in Requests : g # h => http'[g] = http[g]
        /\ UNCHANGED <<dialogVars, selected_action, ui, worker>>
    BY <1>0, <1>3, HttpStays DEF TypeOK, HttpStep, HttpAccept, HttpFinish, InstallAccept, InstallRefused,
         InstallRaises, InstallPauses, InstallEnds, InstallReleases, InstallLeaves
  <2>2. Undisturbing' <=> Undisturbing
    BY <2>1 DEF Undisturbing, NoneAlive, Alive, Dialog, Ready
  <2>3. CASE Installs(h)
    <3>1. Undisturbing /\ \A g \in Requests : Installs(g) => g = h
      BY <1>0, <2>3 DEF Apart
    <3>2. http'[h] \in {"raised", "installing"} => activity_inprogess'
      BY <1>0, <1>3, <2>3 DEF TypeOK, Apart, Installs, HttpStep, HttpAccept, HttpFinish, InstallAccept,
           InstallRefused, InstallRaises, InstallPauses, InstallEnds, InstallReleases, InstallLeaves
    <3>3. \A g \in Requests : Installs(g)' => g = h
      BY <2>1, <3>1 DEF Installs
    <3>4. QED  BY <2>2, <3>1, <3>2, <3>3 DEF Apart
  <2>4. CASE InstallAccept(h)
    <3>1. Undisturbed /\ ~activity_inprogess /\ http'[h] = "accepted"
      BY <1>0, <2>4 DEF InstallAccept, HttpMay, Calm, TypeOK
    <3>2. Undisturbing
      BY <1>0, <3>1 DEF Undisturbed, Undisturbing, NoneAlive, Starting
    <3>3. \A g \in Requests : Installs(g)' => g = h
      BY <2>1, <3>1 DEF Installs, Undisturbed
    <3>4. QED  BY <2>2, <3>1, <3>2, <3>3 DEF Apart
  <2>5. CASE HttpAccept(h) \/ HttpFinish(h)
    <3>1. http'[h] \in {"running", "idle"} /\ UNCHANGED activity_inprogess
      BY <1>0, <2>5 DEF HttpAccept, HttpFinish, TypeOK
    <3>2. QED  BY <1>0, <2>1, <2>2, <3>1 DEF Apart, Installs
  <2>6. QED
    BY <1>3, <2>3, <2>4, <2>5
       DEF HttpStep, InstallRefused, InstallRaises, InstallPauses, InstallEnds, InstallReleases, InstallLeaves,
           Installs
<1>4. CASE UNCHANGED vars
  BY <1>0, <1>4 DEF vars, Apart, Installs, Undisturbing, NoneAlive, Alive, Dialog, Ready
<1>5. QED  BY <1>1, <1>2, <1>3, <1>4 DEF Next

-----------------------------------------------------------------------------
(***************************************************************************)
(* The properties.                                                         *)
(***************************************************************************)
THEOREM InvAlways == ASSUME Calm  PROVE Spec => []Inv
<1>1. Inv /\ [Next]_vars => Inv'
  <2> SUFFICES ASSUME Inv, [Next]_vars  PROVE Inv'
    OBVIOUS
  <2>1. TypeInv'
    BY TypesStep, NamedStep DEF Inv, TypeInv
  <2>2. OfKinds' /\ Single' /\ Starting' /\ Menu' /\ Flag'
    BY KindsStep, SingleStep, StartingStep, MenuStep, FlagStep
  <2>3. Questions' /\ Consented' /\ Chosen' /\ Cancels' /\ Apart'
    BY QuestionsStep, ConsentedStep, ChosenStep, CancelsStep, ApartStep
  <2>4. QED  BY <2>1, <2>2, <2>3 DEF Inv
<1>2. QED  BY InvInit, <1>1, PTL DEF Spec

(* No second worker thread is ever started beside one that works, although *)
(* the activity flag is down whenever a worker waits for an answer.        *)
THEOREM OneActivity == ASSUME Calm  PROVE Spec => []OneWorker
<1>1. Inv => OneWorker
  BY InvFacts DEF Single, OneWorker, Working, Alive
<1>2. QED  BY <1>1, InvAlways, PTL

(* A worker writes over a file only with the user's consent to this file or *)
(* to all.                                                                  *)
THEOREM OverwriteWithConsent == ASSUME Calm  PROVE Spec => []ConsentedOverwrite
<1>1. Inv => ConsentedOverwrite
  BY InvFacts DEF Consented, Consent, ConsentedOverwrite
<1>2. QED  BY <1>1, InvAlways, PTL

(* A worker deletes only what was selected when the user said Yes.          *)
THEOREM DeleteWithConsent == ASSUME Calm  PROVE Spec => []DeleteConsented
<1>1. Inv => DeleteConsented
  BY InvFacts DEF Chosen
<1>2. QED  BY <1>1, InvAlways, PTL

(* Cancel keeps every worker from its next file, except one that deletes    *)
(* remote files: that one looks at stop_activity inside directories only.   *)
THEOREM CancelIsHeeded == ASSUME Calm, "DELETE_REMOTE" \notin Kinds  PROVE Spec => []CancelHeeded
<1>1. Inv => CancelHeeded
  BY InvFacts DEF Cancels, CancelHeeded, OfKinds
<1>2. QED  BY <1>1, InvAlways, PTL

(* The HTTP server takes a file request or an install_url only when no worker works on files, *)
(* or the one that does waits for the user's answer.                        *)
THEOREM RequestsRefused == ASSUME Calm  PROVE Spec => HttpRefused
<1>1. Inv /\ [Next]_vars =>
        [\A h \in Requests : http[h] = "idle" /\ http'[h] # "idle"
           => \A w \in Workers : Working(w) => Asking(w)]_vars
  <2> SUFFICES ASSUME Inv, Next, NEW h \in Requests, http[h] = "idle", http'[h] # "idle",
                      NEW w \in Workers, Working(w)
               PROVE  Asking(w)
    OBVIOUS
  <2>1. PICK g \in Requests : HttpStep(g)
    BY OthersKeep DEF Next
  <2>2. HttpAccept(g) \/ InstallAccept(g)
    <3>1. http \in [Requests -> HttpState]
      BY InvFacts DEF TypeOK
    <3>2. http[g] = "idle"
      BY <2>1, <3>1 DEF HttpStep, HttpAccept, HttpFinish, InstallAccept, InstallRefused, InstallRaises,
           InstallPauses, InstallEnds, InstallReleases, InstallLeaves
    <3>3. QED
      BY <2>1, <3>2 DEF HttpStep, HttpFinish, InstallRefused, InstallRaises, InstallPauses, InstallEnds,
           InstallReleases, InstallLeaves
  <2>3. ~activity_inprogess
    BY <2>2 DEF HttpAccept, InstallAccept, HttpMay
  <2>4. worker[w].pc \in Ends \cup {"spin", "lock"}
    BY <2>3, InvFacts DEF Flag
  <2>5. QED  BY <2>4 DEF Working, Asking, Ends
<1>2. QED  BY <1>1, InvAlways, PTL DEF Spec, HttpRefused
=============================================================================
